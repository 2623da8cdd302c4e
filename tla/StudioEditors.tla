--------------------------- MODULE StudioEditors ---------------------------
(***************************************************************************)
(* The editors of the Studio: the generated Java (StudioJava), its repair  *)
(* panel (StudioRepair) and the COBOL source (StudioSource).  The texts    *)
(* meet in the store of drafts only, where their keys differ in kind, and  *)
(* what the panel hands to the Java is AcceptCandidate of StudioJava, with *)
(* any candidate at any time; so in a behaviour the user works with one of *)
(* the three.                                                              *)
(***************************************************************************)
EXTENDS StudioJava

CONSTANTS SourceFiles, FileText, EarlierDrafts, TypedSources, ProgramIn(_),
          CatalogOf(_), MaxSourceOps, RepairRuns, MaxPresses

VARIABLES editor,   \* the editor in use
          source, token, lastInput, offered, jobs, running, seen, cases, mounted, moves,
          onRun, open, repair, request, asked, sandboxed, presses

Cobol == INSTANCE StudioSource
Panel == INSTANCE StudioRepair

\* A file that is opened has a path; only pasted text goes by the default name.
ASSUME PathAssumption == Cobol!Pasted \notin SourceFiles \cup EarlierDrafts

java == <<run, shown, fetched, buffer, pending, review, reviewKey, conflict,
          secret, tasks, ops>>
cobol == <<source, token, lastInput, offered, jobs, running, seen, cases,
           mounted, moves>>
panel == <<onRun, open, repair, request, asked, sandboxed, presses>>
allVars == <<editor, vars, cobol, panel>>

EditorsInit ==
    /\ Panel!RepairInit
    /\ \/ editor = "java" /\ Init /\ Cobol!EmptyWorkspace
       \/ editor = "cobol" /\ Cobol!SourceInit /\ NoBuffer
       \/ editor = "repair" /\ NoBuffer /\ Cobol!EmptyWorkspace /\ drafts = {}

UseJava == editor = "java" /\ UNCHANGED <<editor, cobol, panel>>
UseCobol == editor = "cobol" /\ UNCHANGED <<editor, java, panel>>
UsePanel == editor = "repair" /\ UNCHANGED <<editor, java, cobol, drafts>>

EditorsNext ==
    \/ UseJava /\ Next
    \/ UseCobol /\ Cobol!SourceNext
    \/ UsePanel /\ Panel!RepairNext

EditorsSpec == EditorsInit /\ [][EditorsNext]_allVars

\* A draft is read only by the session of the secret and the user it was saved
\* under, for the file it is of (editorPersistence.ts).  It depends on no
\* variable, and is evaluated in the first states.
DraftsAreSealed == editor = "java" /\ NoBuffer => SealsHold

\* A COBOL text the user has typed is not lost to a draft that was looked up
\* before (StudioSource).
TypedTextSurvives == Cobol!TypedTextSurvives

\* A run is started with a trust case of the program that is active
\* (StudioSource).
StartedCasesFit == Cobol!StartedCasesFit

\* However previews, diagnoses and the late answers of a closed panel overtake
\* each other, only a proposal that was applied to the sandbox is accepted, and
\* a busy panel waits for an answer that is still to come (StudioRepair).
RepairIsOrderly == Panel!AcceptedWasSandboxed /\ Panel!BusyIsAnswered
=============================================================================
