---------------------------- MODULE StudioSource ----------------------------
(***************************************************************************)
(* The COBOL source in the Studio: the store of the workspace              *)
(* (apps/c2c-studio/src/stores/sourceWorkspace.tsx), the pane whose save   *)
(* command it serves (components/source/CobolEditorPane.tsx), the drafts   *)
(* it restores (DraftVault), the trust cases it offers and the runs it     *)
(* starts.                                                                 *)
(*                                                                         *)
(* Every await is a job: what was captured before it, and a step that goes *)
(* on after it, in any order with the others.  A hash stands for the text  *)
(* it is of, and bufferHash follows the text.  Effects run with the change *)
(* they depend on, before the user can act again.                          *)
(***************************************************************************)
EXTENDS DraftVault

CONSTANTS SourceFiles,       \* the files the user may open, each with a path
          FileText,          \* FileText[f]: its text
          EarlierDrafts,     \* the files the browser may hold a draft of
          TypedSources,      \* the texts the user may type
          ProgramIn(_),      \* the PROGRAM-ID found in a text, or None
          CatalogOf(_),      \* the trust cases the BFF lists for a program
          MaxSourceOps       \* bound: what the user does

EmptyText == ""
Pasted == "pasted"           \* DEFAULT_SOURCE_NAME, without a path

VARIABLES
    source,     \* sourceText, sourceName with its path, isDirty
    token,      \* draftRestoreTokenRef
    lastInput,  \* lastRunInputContent with its hash, or None
    offered,    \* conflict, or None
    jobs,       \* the continuations still to run
    running,    \* the run state: phase, id, program, and what was sent
    seen,       \* lastSeenRunIdRef
    cases,      \* trustCases, selectedTrustCaseId, trustCaseStatus
    mounted,    \* the text and file the save command was bound with, or None
    drafts,     \* the rows of the drafts' store
    moves       \* what the user did so far

sourceVars == <<source, token, lastInput, offered, jobs, running, seen, cases,
                mounted, drafts, moves>>

Me == [user |-> "user", secret |-> 1]
NoFile == [text |-> EmptyText, file |-> None, dirty |-> FALSE]
NoRun == [phase |-> "idle", id |-> 0, program |-> None, sent |-> None, case |-> None]
NoCases == [program |-> None, asked |-> 0, status |-> "idle", list |-> {},
            selected |-> None]
SourceDraft(text, input, resolved) ==
    [version |-> "v0", content |-> text, lastInput |-> input, resolved |-> resolved]

\* deriveDraftProgramId under the name of the file: the parser's id when there
\* is one, else the path, else the id found in the text; None is no key.
DraftKey(program, text, file) ==
    CASE program # None -> <<"cobol", program, file>>
      [] program = None /\ file # Pasted -> <<"cobol", "path", file>>
      [] program = None /\ file = Pasted ->
            IF ProgramIn(text) = None THEN None ELSE <<"cobol", ProgramIn(text), file>>

EmptyWorkspace ==
    /\ source = NoFile /\ token = 0 /\ lastInput = None /\ offered = None
    /\ jobs = {} /\ running = NoRun /\ seen = 0 /\ cases = NoCases /\ mounted = None
    /\ moves = 0
\* The browser may hold a draft of an earlier visit.
SourceInit ==
    /\ EmptyWorkspace
    /\ drafts \in {{}} \cup
          {SavedDb({}, Me, DraftKey(None, FileText[f], f), SourceDraft(text, None, None)) :
              f \in EarlierDrafts, text \in TypedSources}

MountBound == 1  \* bound: the editor is loaded with the page
UserMoves == moves < MaxSourceOps /\ moves' = moves + 1
NameOrDefault(file) == IF file = None THEN Pasted ELSE file

-----------------------------------------------------------------------------
(* The effects                                                             *)

\* activeTrustCaseProgramId
ActiveProgram(text, run) == IF run.program # None THEN run.program ELSE ProgramIn(text)

\* Another program: what was asked for the old one is cancelled.
CasesFor(c, program) ==
    IF program = c.program THEN c
    ELSE IF program = None THEN [NoCases EXCEPT !.asked = c.asked]
    ELSE [c EXCEPT !.program = program, !.asked = c.asked + 1, !.status = "loading"]
CasesJob(c, after) ==
    IF after.asked = c.asked THEN {}
    ELSE {[kind |-> "cases", asked |-> after.asked, program |-> after.program]}

\* A completed run that was not seen yet: the text of now counts as its input.
Captures(text, run, lastSeen) ==
    /\ text # source.text \/ run # running
    /\ run.phase = "completed" /\ run.id # lastSeen
InputJob(text) == [kind |-> "input", text |-> text]

\* The state becomes this, and the effects see it.
Commit(text, run, lastSeen, c, newJobs) ==
    LET after == CasesFor(c, ActiveProgram(text, run))
        captures == Captures(text, run, lastSeen)
    IN  /\ running' = run /\ cases' = after
        /\ seen' = IF captures THEN run.id ELSE lastSeen
        /\ jobs' = newJobs \cup CasesJob(c, after)
                     \cup (IF captures THEN {InputJob(text)} ELSE {})

-----------------------------------------------------------------------------
(* Editing and opening                                                     *)

\* setSourceText
SetSourceText(text) ==
    /\ UserMoves /\ text # source.text
    /\ token' = token + 1 /\ offered' = None
    /\ source' = [text |-> text, file |-> NameOrDefault(source.file), dirty |-> TRUE]
    /\ Commit(text, running, seen, cases, jobs)
    /\ UNCHANGED <<lastInput, mounted, drafts>>

\* setSourceFile: the draft is looked for under the path of the file, with the
\* token of this opening.
SetSourceFile(f) ==
    /\ UserMoves
    /\ token' = token + 1 /\ offered' = None /\ lastInput' = None
    /\ source' = [text |-> FileText[f], file |-> f, dirty |-> FALSE]
    /\ Commit(FileText[f], running, 0, cases,
              jobs \cup {[kind |-> "load", file |-> f, token |-> token + 1]})
    /\ UNCHANGED <<mounted, drafts>>

\* clearWorkspace; the effect for the trust cases runs only if their program
\* changes with the text.
ClearWorkspace ==
    /\ UserMoves /\ source # NoFile
    /\ token' = token + 1 /\ offered' = None /\ lastInput' = None
    /\ source' = NoFile
    /\ Commit(EmptyText, running, 0,
              [cases EXCEPT !.status = "idle", !.list = {}, !.selected = None], jobs)
    /\ UNCHANGED <<mounted, drafts>>

-----------------------------------------------------------------------------
(* Drafts                                                                  *)

\* The first await of loadDraftForSource: the row, if it is there.
ReadDraft(j) ==
    /\ j.kind = "load"
    /\ LET key == DraftKey(None, FileText[j.file], j.file)
           rows == {r \in ReadableRow(drafts, Me, key) : r.age # "expired"}
       IN  /\ drafts' = WithoutUnreadable(drafts, Me, key)
           /\ jobs' = (jobs \ {j}) \cup
                 {[kind |-> "found", file |-> j.file, token |-> j.token,
                   draft |-> DecryptPayload(Me, r)] : r \in rows}
    /\ UNCHANGED <<source, token, lastInput, offered, running, seen, cases, mounted, moves>>

\* Mutant: an answer for another opening is not told apart.
AnyRestore(j) == TRUE
\* The restore still belongs to what is in the editor.
RestoreIsCurrent(j) == j.token = token

\* The check of the token, before the hash of the backend's text is awaited;
\* checked, the token it saw, is kept for TypedTextSurvives.
CheckRestore(j) ==
    /\ j.kind = "found"
    /\ jobs' = (jobs \ {j}) \cup
          (IF RestoreIsCurrent(j)
           THEN {[kind |-> "restore", file |-> j.file, draft |-> j.draft,
                  checked |-> token]}
           ELSE {})
    /\ UNCHANGED <<source, token, lastInput, offered, running, seen, cases, mounted,
                   drafts, moves>>

OrKeep(value, old) == IF value = None THEN old ELSE value

\* After the hash: a draft that is neither the file's text nor resolved against
\* it is put to the user, another one replaces whatever the editor holds.
Restore(j) ==
    /\ j.kind = "restore"
    /\ IF j.draft.content # FileText[j.file] /\ j.draft.resolved # FileText[j.file]
       THEN /\ offered' = [file |-> j.file, draft |-> j.draft]
            /\ jobs' = jobs \ {j}
            /\ UNCHANGED <<source, lastInput, running, seen, cases>>
       ELSE /\ source' = [text |-> j.draft.content, file |-> j.file, dirty |-> FALSE]
            /\ lastInput' = OrKeep(j.draft.lastInput, lastInput)
            /\ Commit(j.draft.content, running, seen, cases, jobs \ {j})
            /\ UNCHANGED offered
    /\ UNCHANGED <<token, mounted, drafts, moves>>

\* resolveConflict: the text at once, the draft after two awaits.
ResolveSourceConflict(text) ==
    /\ UserMoves /\ offered # None
    /\ text \in {FileText[offered.file], offered.draft.content,
                 OrKeep(offered.draft.lastInput, EmptyText)}
    /\ source' = [source EXCEPT !.text = text, !.dirty = FALSE]
    /\ lastInput' = OrKeep(offered.draft.lastInput, lastInput)
    /\ offered' = None
    /\ Commit(text, running, seen, cases,
              jobs \cup {[kind |-> "resolved", text |-> text, file |-> offered.file,
                          input |-> offered.draft.lastInput]})
    /\ UNCHANGED <<token, mounted, drafts>>

DismissSourceConflict ==
    /\ offered # None /\ offered' = None
    /\ UNCHANGED <<source, token, lastInput, jobs, running, seen, cases, mounted,
                   drafts, moves>>

\* The resolution is saved for this text of the file, or the save fails.
SaveResolution(j) ==
    /\ j.kind = "resolved"
    /\ \/ drafts' = SavedDb(drafts, Me, DraftKey(None, FileText[j.file], j.file),
                            SourceDraft(j.text, j.input, FileText[j.file]))
       \/ UNCHANGED drafts
    /\ jobs' = jobs \ {j}
    /\ UNCHANGED <<source, token, lastInput, offered, running, seen, cases, mounted, moves>>

\* handleEditorMount, once: the editor's save command is bound to the
\* saveDraftNow of that render, and keeps what that had captured.
MountEditor ==
    /\ mounted = None /\ moves <= MountBound
    /\ mounted' = [text |-> source.text, file |-> NameOrDefault(source.file),
                   dirty |-> source.dirty, program |-> running.program,
                   input |-> lastInput]
    /\ UNCHANGED <<source, token, lastInput, offered, jobs, running, seen, cases,
                   drafts, moves>>

\* saveDraftNow, of that render.
SaveDraftNow ==
    /\ UserMoves /\ mounted # None
    /\ mounted.text # EmptyText \/ mounted.dirty
    /\ DraftKey(mounted.program, mounted.text, mounted.file) # None
    /\ jobs' = jobs \cup {[kind |-> "save", draft |-> mounted]}
    /\ UNCHANGED <<source, token, lastInput, offered, running, seen, cases, mounted, drafts>>

FinishSaveNow(j) ==
    /\ j.kind = "save"
    /\ \/ drafts' = SavedDb(drafts, Me, DraftKey(j.draft.program, j.draft.text, j.draft.file),
                            SourceDraft(j.draft.text, j.draft.input, None))
       \/ UNCHANGED drafts
    /\ jobs' = jobs \ {j}
    /\ UNCHANGED <<source, token, lastInput, offered, running, seen, cases, mounted, moves>>

\* Drafts are cleared from the top bar; the store is told and drops its conflict.
ClearSourceDrafts ==
    /\ UserMoves
    /\ drafts' = ClearedDb(drafts, Me) /\ offered' = None
    /\ UNCHANGED <<source, token, lastInput, jobs, running, seen, cases, mounted>>

-----------------------------------------------------------------------------
(* Trust cases                                                             *)

\* Mutant: the answer for a program that is no longer active is taken.
AnyAnswer(j) == TRUE
\* The effect that asked has not been cancelled.
StillAsked(j) == j.asked = cases.asked /\ cases.program # None

\* The list with the saved, the old, the default or the first choice, or an error.
CasesArrive(j) ==
    /\ j.kind = "cases" /\ jobs' = jobs \ {j}
    /\ IF ~StillAsked(j) THEN UNCHANGED cases
       ELSE LET list == CatalogOf(j.program) IN
            \/ \E choice \in IF list = {} THEN {None} ELSE list :
                 cases' = [cases EXCEPT !.list = list, !.status = "ready", !.selected = choice]
            \/ cases' = [cases EXCEPT !.list = {}, !.status = "error", !.selected = None]
    /\ UNCHANGED <<source, token, lastInput, offered, running, seen, mounted, drafts, moves>>

SelectTrustCase(case) ==
    /\ UserMoves /\ case \in cases.list /\ case # cases.selected
    /\ cases' = [cases EXCEPT !.selected = case]
    /\ UNCHANGED <<source, token, lastInput, offered, jobs, running, seen, mounted, drafts>>

-----------------------------------------------------------------------------
(* Runs                                                                    *)

IsTransforming == running.phase \in {"starting", "running"}
Started(case) == [phase |-> "starting", id |-> running.id, program |-> None,
                  sent |-> source.text, case |-> case]

\* submitTransform, where canSubmitTransform lets the user.
SubmitTransform ==
    /\ UserMoves /\ source.text # EmptyText /\ ~IsTransforming
    /\ cases.status \notin {"loading", "error"}
    /\ cases.list = {} \/ cases.selected # None
    /\ Commit(source.text, Started(cases.selected), seen, cases, jobs)
    /\ UNCHANGED <<source, token, lastInput, offered, mounted, drafts>>

\* submitGenerate asks for no trust case.
SubmitGenerate ==
    /\ UserMoves /\ source.text # EmptyText /\ ~IsTransforming
    /\ Commit(source.text, Started(None), seen, cases, jobs)
    /\ UNCHANGED <<source, token, lastInput, offered, mounted, drafts>>

\* The answer: a run of the program in the text that was sent (the BFF makes up
\* an id when it finds none), whose text is noted as its input; or a refusal.
StartAnswered ==
    /\ running.phase = "starting"
    /\ \/ Commit(source.text,
                 [running EXCEPT !.phase = "running", !.id = @ + 1,
                    !.program = OrKeep(ProgramIn(running.sent), "made up")],
                 seen, cases, jobs \cup {InputJob(running.sent)})
       \/ Commit(source.text, [running EXCEPT !.phase = "failed"], seen, cases, jobs)
    /\ UNCHANGED <<source, token, lastInput, offered, mounted, drafts, moves>>

RunEnds ==
    /\ running.phase = "running"
    /\ \E phase \in {"completed", "failed"} :
         Commit(source.text, [running EXCEPT !.phase = phase], seen, cases, jobs)
    /\ UNCHANGED <<source, token, lastInput, offered, mounted, drafts, moves>>

NoteInput(j) ==
    /\ j.kind = "input" /\ lastInput' = j.text /\ jobs' = jobs \ {j}
    /\ UNCHANGED <<source, token, offered, running, seen, cases, mounted, drafts, moves>>

-----------------------------------------------------------------------------
SourceUser ==
    \/ \E text \in TypedSources : SetSourceText(text)
    \/ \E f \in SourceFiles : SetSourceFile(f)
    \/ ClearWorkspace \/ DismissSourceConflict \/ SaveDraftNow \/ ClearSourceDrafts
    \/ offered # None /\ \E text \in {FileText[offered.file], offered.draft.content,
                                      OrKeep(offered.draft.lastInput, EmptyText)} :
                            ResolveSourceConflict(text)
    \/ \E case \in cases.list : SelectTrustCase(case)
    \/ SubmitTransform \/ SubmitGenerate
SourceJob(j) ==
    \/ ReadDraft(j) \/ CheckRestore(j) \/ Restore(j) \/ SaveResolution(j)
    \/ FinishSaveNow(j) \/ CasesArrive(j) \/ NoteInput(j)

SourceNext ==
    \/ SourceUser \/ MountEditor \/ StartAnswered \/ RunEnds
    \/ \E j \in jobs : SourceJob(j)

-----------------------------------------------------------------------------
(* Properties                                                              *)

\* A text the user has typed is replaced only by what the user does, and by a
\* draft whose token was checked before that text was typed (a file opened or
\* text typed while a draft is looked up keeps the draft out, except in the
\* await between the check and the restore).
TypedTextSurvives ==
    [][source.dirty /\ source'.text # source.text =>
          \/ moves' # moves
          \/ \E j \in jobs \ jobs' : j.kind = "restore" /\ j.checked # token]_sourceVars

\* Whatever programs the text has gone through and in whatever order their
\* catalogues arrived, a run is started with a trust case of the program that is
\* active (submitTransform).
StartedCasesFit ==
    [][IsTransforming' /\ ~IsTransforming /\ running'.case # None =>
          running'.case \in CatalogOf(ActiveProgram(source.text, running))]_sourceVars
=============================================================================
