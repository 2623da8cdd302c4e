----------------------------- MODULE StudioJava -----------------------------
(***************************************************************************)
(* One generated Java file in the Studio: its buffer in the store          *)
(* (apps/c2c-studio/src/stores/transformationRun.tsx), the editor pane     *)
(* that feeds it (components/generated/GeneratedJavaEditorPane.tsx), the   *)
(* draft kept in IndexedDB (lib/editor/editorPersistence.ts), the merge    *)
(* with a new run's text.                                                  *)
(*                                                                         *)
(* Every await is a task: what the code has captured before it, and a step *)
(* that goes on after it, in any order with the others.  A hash stands for *)
(* the text it is of.  Runs are numbered in the order they are started;    *)
(* 0 is no run.                                                            *)
(***************************************************************************)
EXTENDS StudioText, DraftVault

CONSTANTS Generated,       \* Generated[r]: the text the run r generates
          Typed,           \* the texts the user may type
          Candidates,      \* the texts a repair of the file may propose
          FormattedText(_),\* what the formatter makes of a text
          Secrets,         \* 1 .. n: the draft secrets of successive sessions
          MaxOps           \* bound: what the user does, sessions and days

Runs == 1 .. Len(Generated)
TextIn(S) == S \cup {None}

VARIABLES
    run,        \* state.runId
    shown,      \* displayedRunId
    fetched,    \* the file of the run shown has arrived (activeRunFileContent)
    buffer,     \* javaBuffers[file], or None
    pending,    \* pendingEditRef: typed, the debounce not yet over; or None
    review,     \* javaMergeReview, or None
    reviewKey,  \* lastMergeReviewKeyRef
    conflict,   \* javaConflict, or None
    drafts,     \* the rows of the drafts' store (DraftVault)
    secret,     \* the secret of the current session
    tasks,      \* the continuations still to run
    ops         \* how many of those so far

vars == <<run, shown, fetched, buffer, pending, review, reviewKey, conflict,
          drafts, secret, tasks, ops>>
session == <<drafts, secret>>
pane == <<shown, fetched>>

Task(kind, text, about) == [kind |-> kind, text |-> text, about |-> about]

\* A JavaBufferEntry.  The hash of its text follows the text at once, and
\* displayedArtifactSourceHash is always the baseline's.
Buffer(text, baselineRun, overlay, dirty) ==
    [content |-> text, lastInput |-> text, baseline |-> text,
     baselineRun |-> baselineRun, overlay |-> overlay, dirty |-> dirty]

\* What a draft's payload says.
Draft(text, lastInput, overlay, resolved) ==
    [content |-> text, lastInput |-> lastInput, overlay |-> overlay,
     resolved |-> resolved, version |-> "v0"]

\* The user's sessions differ in their secret.
SessionOf(s) == [user |-> "user", secret |-> s]
File == <<"java", "file">>  \* its kind, and which it is

NoBuffer ==
    /\ run = 0 /\ shown = 0 /\ fetched = FALSE
    /\ buffer = None /\ pending = None /\ review = None /\ reviewKey = 0
    /\ conflict = None /\ secret = 1
    /\ tasks = {} /\ ops = 0
\* The browser may hold a draft of an earlier visit in the same session.
Init ==
    /\ NoBuffer
    /\ drafts \in {{}} \cup {SavedDb({}, SessionOf(1), File, Draft(text, None, {}, None)) :
                               text \in Typed}

Bounded == ops < MaxOps /\ ops' = ops + 1
\* The editor is there and no dialog is over it.
EditorInUse == fetched /\ review = None /\ conflict = None

-----------------------------------------------------------------------------
(* Typing.                                                                 *)

\* setJavaBufferContent
Edited(entry, text) ==
    IF entry = None THEN None
    ELSE [entry EXCEPT !.content = text, !.dirty = (text # entry.baseline)]

\* handleEditorChange: the edit waits for the end of the debounce.
Type ==
    /\ EditorInUse /\ Bounded
    /\ \E text \in Typed : pending' = text
    /\ UNCHANGED <<run, pane, buffer, review, reviewKey, conflict, session, tasks>>

\* flushPendingEdit, also the end of the debounce.
Flushed == IF pending = None THEN buffer ELSE Edited(buffer, pending)
Flush ==
    /\ pending # None
    /\ buffer' = Flushed /\ pending' = None
    /\ UNCHANGED <<run, pane, review, reviewKey, conflict, session, tasks, ops>>

\* displayedContent: an edited buffer, or else what the run shown generated,
\* also while the hash of a new baseline is awaited.  The editor
\* holds it, or what was typed since.
DisplayedContent == IF buffer.dirty THEN buffer.content ELSE Generated[shown]
EditorText == IF pending = None THEN DisplayedContent ELSE pending

-----------------------------------------------------------------------------
(* The text of a run arrives.                                              *)

\* The pane's effect on a text that is there: the baseline and the draft.
LandingTasks(r) ==
    {Task("baseline", Generated[r], r), Task("load", Generated[r], r)}

\* A run starts; the text shown so far stays (showingHistoricalArtifacts).
\* loadJavaDraftFor depends on the run, so the effect runs again.
StartRun ==
    /\ run < Len(Generated) /\ run' = run + 1
    /\ tasks' = tasks \cup (IF fetched THEN LandingTasks(shown) ELSE {})
    /\ UNCHANGED <<pane, buffer, pending, review, reviewKey, conflict, session, ops>>

\* The new run has artifacts: the pane turns to it, which flushes the edit in
\* the debounce.
Display ==
    /\ shown < run /\ shown' = run /\ fetched' = FALSE
    /\ buffer' = Flushed /\ pending' = None
    /\ UNCHANGED <<run, review, reviewKey, conflict, session, tasks, ops>>

\* fetchFile; a file that cannot be fetched is not shown.
FetchFile ==
    /\ shown # 0 /\ ~fetched /\ fetched' = TRUE
    /\ tasks' = tasks \cup LandingTasks(shown)
    /\ UNCHANGED <<run, shown, buffer, pending, review, reviewKey, conflict,
                   session, ops>>

\* A run that always takes the buffer over.
AlwaysBaseline(entry, text, r) ==
    Buffer(text, r, IF entry = None THEN {} ELSE entry.overlay, FALSE)
\* ensureJavaBaseline: edits stay, and keep their baseline, unless they are
\* what the run generated.
EnsureJavaBaseline(entry, text, r) ==
    IF entry # None /\ entry.dirty
    THEN IF entry.baselineRun = r \/ text # entry.content THEN entry
         ELSE Buffer(text, r, entry.overlay, FALSE)
    ELSE Buffer(text, r, IF entry = None THEN {} ELSE entry.overlay, FALSE)
FinishBaseline(t) ==
    /\ t.kind = "baseline"
    /\ buffer' = EnsureJavaBaseline(buffer, t.text, t.about)
    /\ UNCHANGED <<run, pane, pending, review, reviewKey, conflict, session>>

\* setJavaManualOverlay, from the pane's effect: only when the regions changed.
RefreshOverlay ==
    /\ buffer # None /\ shown # 0
    /\ LET computed == ManualEditOverlay(buffer.baseline, buffer.content)
       IN  computed # buffer.overlay /\ buffer' = [buffer EXCEPT !.overlay = computed]
    /\ UNCHANGED <<run, pane, pending, review, reviewKey, conflict, session, tasks, ops>>

-----------------------------------------------------------------------------
(* Drafts.                                                                 *)

\* saveDraft: under the selectors of the session's secret at that time.
PutDraft(d) == drafts' = SavedDb(drafts, SessionOf(secret), File, d)

\* saveJavaDraft: the entry is captured, and the overlay of the text to save.
SaveTask(entry, text) ==
    {Task("save", text,
          [lastInput |-> entry.lastInput,
           overlay |-> ManualEditOverlay(entry.baseline, text)])}

\* saveCurrentJavaDraft: the text of the editor, then the flush.  The entry
\* saved is the one of the last rendering, before the flush.
SaveDraft ==
    /\ EditorInUse /\ buffer # None /\ Bounded
    /\ tasks' = tasks \cup SaveTask(buffer, EditorText)
    /\ buffer' = Flushed /\ pending' = None
    /\ UNCHANGED <<run, pane, review, reviewKey, conflict, session>>

\* A save that leaves the flag as it was.
SavedWithoutFlag(entry, t) ==
    IF entry = None THEN None
    ELSE [entry EXCEPT !.content = t.text, !.overlay = t.about.overlay]
\* The record is put, and the text saved is written back to the buffer.
SavedEntry(entry, t) ==
    IF entry = None THEN None
    ELSE [entry EXCEPT !.content = t.text, !.dirty = (t.text # entry.baseline),
                       !.overlay = t.about.overlay]
FinishSave(t) ==
    /\ t.kind = "save"
    /\ PutDraft(Draft(t.text, t.about.lastInput, t.about.overlay, None))
    /\ buffer' = SavedEntry(buffer, t)
    /\ UNCHANGED <<run, pane, pending, review, reviewKey, conflict, secret>>

\* The session has ended or storage is full: saveDraft throws, nothing else.
SaveFails(t) ==
    /\ t.kind = "save"
    /\ UNCHANGED <<run, pane, buffer, pending, review, reviewKey, conflict,
                   session>>

\* loadDraft reads the row of this session's secret, and awaits its decryption.
FinishLoad(t) ==
    /\ t.kind = "load"
    /\ LET rows == ReadableRow(drafts, SessionOf(secret), File)
       IN  tasks' = (tasks \ {t}) \cup {Task("loaded", t.text, r) : r \in rows}
    /\ drafts' = WithoutUnreadable(drafts, SessionOf(secret), File)
    /\ UNCHANGED <<run, pane, buffer, pending, review, reviewKey, conflict,
                   secret, ops>>

\* It goes on with the row it has read, and puts it back if it was close to
\* its end.  loadJavaDraftFor takes no expired draft; a text that is not the
\* backend's, nor settled against it before, is a conflict.
Loaded(entry, d) ==
    IF entry = None THEN None
    ELSE [entry EXCEPT !.content = d.content, !.lastInput = IF d.lastInput = None THEN @ ELSE d.lastInput,
                       !.overlay = d.overlay, !.dirty = (d.content # entry.baseline)]
FinishLoaded(t) ==
    LET d == DecryptPayload(SessionOf(secret), t.about) IN
    /\ t.kind = "loaded"
    /\ drafts' = TouchedDb(drafts, t.about)
    /\ IF t.about.age = "expired" THEN UNCHANGED <<conflict, buffer>>
       ELSE IF d.content # t.text /\ d.resolved # t.text
       THEN /\ conflict' = [backendSample |-> t.text, localDraft |-> d.content,
                            lastRunInput |-> d.lastInput, overlay |-> d.overlay]
            /\ UNCHANGED buffer
       ELSE buffer' = Loaded(buffer, d) /\ UNCHANGED conflict
    /\ UNCHANGED <<run, pane, pending, review, reviewKey, secret>>

\* resolveJavaConflict.  A draft without a last input offers the empty text.
Chosen3(c, choice) ==
    CASE choice = "backendSample" -> c.backendSample
      [] choice = "localDraft" -> c.localDraft
      [] choice = "lastRunInput" -> IF c.lastRunInput = None THEN <<>> ELSE c.lastRunInput
ResolveConflict ==
    /\ conflict # None /\ Bounded
    /\ \E choice \in {"backendSample", "localDraft", "lastRunInput"} :
         LET text == Chosen3(conflict, choice)
             overlay == IF choice = "localDraft" THEN conflict.overlay ELSE {}
         IN  /\ buffer' = IF buffer = None THEN None
                          ELSE [Edited(buffer, text) EXCEPT !.overlay = overlay]
             /\ tasks' = tasks \cup {Task("resolved", text,
                                          [conflict |-> conflict, overlay |-> overlay])}
    /\ conflict' = None
    /\ UNCHANGED <<run, pane, pending, review, reviewKey, session>>

\* The hash of the text chosen arrives; the draft is then saved as settled
\* against this backend text, or is not when the session is gone.
FinishResolved(t) ==
    /\ t.kind = "resolved"
    /\ buffer' = IF buffer = None THEN None
                 ELSE [buffer EXCEPT !.lastInput = t.about.conflict.lastRunInput]
    /\ \/ PutDraft(Draft(t.text, t.about.conflict.lastRunInput, t.about.overlay,
                         t.about.conflict.backendSample))
       \/ UNCHANGED drafts
    /\ UNCHANGED <<run, pane, pending, review, reviewKey, conflict, secret>>

DismissConflict ==
    /\ conflict # None /\ conflict' = None
    /\ UNCHANGED <<run, pane, buffer, pending, review, reviewKey, session, tasks, ops>>

\* clearAll (this session's) and clearLocalOrigin (all): both announce it,
\* and the store drops an open conflict.
ClearDrafts ==
    /\ Bounded
    /\ \/ drafts' = ClearedDb(drafts, SessionOf(secret))
       \/ drafts' = ClearedOrigin(drafts)
    /\ conflict' = None
    /\ UNCHANGED <<run, pane, buffer, pending, review, reviewKey, secret, tasks>>

\* purgeExpired reaches the records of the current secret only.
PurgeExpired ==
    /\ drafts' = PurgedDb(drafts, SessionOf(secret)) /\ drafts' # drafts
    /\ UNCHANGED <<run, pane, buffer, pending, review, reviewKey, conflict,
                   secret, tasks, ops>>

\* A day, or a new sign-in, is longer than any task.
Later(age) == IF age = "fresh" THEN {"near", "expired"} ELSE {"expired"}
TimePasses ==
    /\ Bounded /\ tasks = {}
    /\ \E row \in {r \in drafts : r.age # "expired"} :
         \E age \in Later(row.age) : drafts' = PutRow(drafts, [row EXCEPT !.age = age])
    /\ UNCHANGED <<run, pane, buffer, pending, review, reviewKey, conflict,
                   secret, tasks>>

\* A new session of the user has another draft secret.
NewSession ==
    /\ secret + 1 \in Secrets /\ secret' = secret + 1 /\ Bounded /\ tasks = {}
    /\ UNCHANGED <<run, pane, buffer, pending, review, reviewKey, conflict,
                   drafts, tasks>>

-----------------------------------------------------------------------------
(* The three-way merge with a later run.                                   *)

\* The regions of a review, a function of its three texts.
Regions(r) == DetectConflicts(r.base, r.manual, r.generator)

\* The pane asks once for each run and file.
ReviewKey(r) == r
NeedsReview ==
    /\ fetched /\ buffer # None
    /\ buffer.dirty /\ buffer.baselineRun # shown /\ Generated[shown] # buffer.content
RequestMergeReview ==
    /\ NeedsReview /\ reviewKey # ReviewKey(shown)
    /\ reviewKey' = ReviewKey(shown)
    /\ review' = [base |-> buffer.baseline, manual |-> buffer.content,
                  generator |-> Generated[shown], run |-> shown]
    /\ UNCHANGED <<run, pane, buffer, pending, conflict, session,
                   tasks, ops>>

CancelMergeReview ==
    /\ review # None /\ review' = None
    /\ UNCHANGED <<run, pane, buffer, pending, reviewKey, conflict, session, tasks, ops>>

\* applyJavaMergeSelections: the text is made at once, two hashes are awaited.
ApplyMerge ==
    /\ review # None /\ Bounded
    /\ LET regions == Regions(review) IN
       \E picks \in Selections(regions) :
          tasks' = tasks \cup {Task("merge", ApplyMergeSelections(review.base, regions, picks),
                                    [generator |-> review.generator, run |-> review.run])}
    /\ UNCHANGED <<run, pane, buffer, pending, review, reviewKey, conflict,
                   session>>

MergedEntry(entry, t) ==
    IF entry = None THEN None
    ELSE LET new == t.about.generator
         IN  [entry EXCEPT !.content = t.text, !.baseline = new,
                           !.baselineRun = t.about.run, !.lastInput = new,
                           !.dirty = (t.text # new)]
FinishMerge(t) ==
    /\ t.kind = "merge"
    /\ buffer' = MergedEntry(buffer, t) /\ review' = None
    /\ UNCHANGED <<run, pane, pending, reviewKey, conflict, session>>

-----------------------------------------------------------------------------
(* Other sources of a new text.                                            *)

\* An accepted repair's files are hashed, then replace the buffers; a file
\* without a buffer takes the candidate for its baseline.
AcceptCandidate ==
    /\ run # 0 /\ Bounded
    /\ \E text \in Candidates : tasks' = tasks \cup {Task("candidate", text, run)}
    /\ UNCHANGED <<run, pane, buffer, pending, review, reviewKey, conflict,
                   session>>
UpsertedEntry(entry, text, r) ==
    IF entry # None THEN [entry EXCEPT !.content = text, !.dirty = TRUE]
    ELSE [Buffer(text, r, {}, TRUE) EXCEPT !.lastInput = None]
FinishCandidate(t) ==
    /\ t.kind = "candidate"
    /\ buffer' = UpsertedEntry(buffer, t.text, t.about)
    /\ UNCHANGED <<run, pane, pending, review, reviewKey, conflict, session>>

\* performFormat, one at a time: the pending edit is flushed, the text sent.
\* On save, the text that comes back is saved.
FormatDocument ==
    /\ EditorInUse /\ buffer # None /\ Bounded
    /\ ~ \E t \in tasks : t.kind = "format"
    /\ buffer' = Flushed /\ pending' = None
    /\ \E onSave \in BOOLEAN :
         tasks' = tasks \cup {Task("format", EditorText, [run |-> shown, onSave |-> onSave])}
    /\ UNCHANGED <<run, pane, review, reviewKey, conflict, session>>

\* applyFormattedContent, if the pane still has the editor it was for: the
\* text replaces whatever that holds by now, and the edit in the debounce goes.
\* Then comes the save it was for.
FinishFormat(t) ==
    LET text == FormattedText(t.text)
    IN  /\ t.kind = "format" /\ fetched /\ shown = t.about.run
        /\ buffer' = IF text = EditorText
                     THEN (IF t.about.onSave THEN Flushed ELSE buffer)
                     ELSE Edited(buffer, text)
        /\ pending' = IF pending = text /\ ~t.about.onSave THEN pending ELSE None
        /\ tasks' = (tasks \ {t}) \cup (IF t.about.onSave THEN SaveTask(buffer, text) ELSE {})
        /\ UNCHANGED <<run, pane, review, reviewKey, conflict, session, ops>>
\* The editor is gone: nothing is applied and nothing saved.
FormatDropped(t) ==
    /\ t.kind = "format" /\ ~(fetched /\ shown = t.about.run)
    /\ UNCHANGED <<run, pane, buffer, pending, review, reviewKey, conflict,
                   session>>
\* formatJava: a timeout, a refusal or an answer it cannot read.  A save still
\* happens, of the text that was sent.
FormatFails(t) ==
    /\ t.kind = "format"
    /\ IF t.about.onSave
       THEN /\ buffer' = Flushed /\ pending' = None
            /\ tasks' = (tasks \ {t}) \cup SaveTask(buffer, t.text)
       ELSE tasks' = tasks \ {t} /\ UNCHANGED <<buffer, pending>>
    /\ UNCHANGED <<run, pane, review, reviewKey, conflict, session, ops>>

-----------------------------------------------------------------------------
Done(t) == tasks' = tasks \ {t} /\ UNCHANGED ops

Settle(t) ==
    \/ FinishBaseline(t) /\ Done(t)
    \/ FinishSave(t) /\ Done(t)
    \/ SaveFails(t) /\ Done(t)
    \/ FinishLoad(t)
    \/ FinishLoaded(t) /\ Done(t)
    \/ FinishResolved(t) /\ Done(t)
    \/ FinishMerge(t) /\ Done(t)
    \/ FinishCandidate(t) /\ Done(t)
    \/ FinishFormat(t)
    \/ FormatDropped(t) /\ Done(t)
    \/ FormatFails(t)

User ==
    \/ Type \/ SaveDraft \/ FormatDocument
    \/ ResolveConflict \/ DismissConflict \/ ClearDrafts
    \/ CancelMergeReview \/ ApplyMerge \/ AcceptCandidate
Environment == StartRun \/ Display \/ FetchFile \/ TimePasses \/ NewSession \/ PurgeExpired
Effects == Flush \/ RefreshOverlay \/ RequestMergeReview

Next == User \/ Environment \/ Effects \/ \E t \in tasks : Settle(t)

Spec == Init /\ [][Next]_vars

-----------------------------------------------------------------------------
(* Properties.                                                             *)

\* The buffer and the review are about runs that exist, the
\* regions of the overlay lie in a text, and every task has a kind the store
\* goes on with.
TypeOK ==
    /\ run \in 0 .. Len(Generated) /\ shown \in 0 .. run /\ fetched \in BOOLEAN
    /\ buffer # None =>
          /\ buffer.baselineRun \in 1 .. run /\ buffer.dirty \in BOOLEAN
          /\ \A r \in buffer.overlay : 1 <= r.from /\ r.from <= r.to
    /\ review # None => review.run \in 1 .. run
    /\ secret \in Secrets /\ ops \in 0 .. MaxOps
    /\ \A r \in drafts : r.age \in Ages /\ r.key[1] \in Secrets
    /\ \A t \in tasks : t.kind \in {"baseline", "load", "loaded", "save",
                                   "resolved", "merge",
                                   "candidate", "format"}

\* A buffer that counts as clean holds exactly its generator baseline,
\* whichever saves, loads, merges and runs were under way at the same time:
\* the next run replaces a clean buffer without a question.
CleanMeansUnedited == buffer # None /\ ~buffer.dirty => buffer.content = buffer.baseline

\* The baseline of an edited buffer moves to another run only through the
\* merge review of that run, or when the run generated the edited text itself.
BaselineMovesByReview ==
    [][buffer # None /\ buffer.dirty /\ buffer'.baselineRun # buffer.baselineRun =>
          \/ buffer'.content = buffer.content
          \/ \E t \in tasks \ tasks' : t.kind = "merge" /\ t.about.run = buffer'.baselineRun]_vars

\* What a save put in the store is lost only to another save, to a clear or to
\* its age: a load that was under way when it was saved takes it back only if
\* the row it had read was close to its end (loadDraft puts back the row it
\* has read, whatever was saved since).
Kept(row) == \E r \in drafts' : r.key = row.key /\ r.sealed = row.sealed
SavesOutlastLoads ==
    [][drafts' # drafts =>
         \A row \in UNION {RowOf(drafts, SessionOf(s), File) : s \in Secrets} :
          \/ Kept(row) \/ row.age = "expired" \/ ops' # ops
          \/ \E t \in tasks \ tasks' :
                \/ t.kind \in {"save", "resolved"}
                \/ t.kind = "loaded" /\ t.about.age = "near"]_vars

\* The lines of a text at the places S, in their order.
LinesAt(text, S) ==
    LET at == SelectSeq([i \in 1 .. Len(text) |-> i], LAMBDA i : i \in S)
    IN  [i \in DOMAIN at |-> text[at[i]]]
\* What the traceability of the run may say of the file.
Traces(text) ==
    {{}} \cup {{[from |-> 1, to |-> Len(text), origin |-> origin, outcome |-> outcome]} :
                  origin \in {"deterministic", "manual_edit"}, outcome \in {"oracle_passed", "none"}}
\* The lines of the buffer without a manual mark in the margin.
UnmarkedLines(entry, traced) ==
    LET painted == TrustPillarDecorations(MergeRegionsForTrustPillars(traced, entry.overlay))
        manual == {d \in painted : d.pillar \in {"manual-modified", "manual-edit"}}
    IN  LinesAt(entry.content, DOMAIN entry.content \ UNION {d.lines : d \in manual})
\* Whatever edits, saves, loads and merges an edited buffer went through and
\* whatever its traceability says, an overlay the pane's effect leaves as it is
\* hides no manual line: the lines without a manual mark are, in their order,
\* lines of the generator baseline ("every drift line is accounted for").
OverlayHidesNoEdit ==
    buffer # None /\ buffer.dirty =>
        \/ \A unmarked \in {UnmarkedLines(buffer, traced) : traced \in Traces(buffer.content)} :
              \E S \in SUBSET DOMAIN buffer.baseline : unmarked = LinesAt(buffer.baseline, S)
        \/ buffer.overlay # ManualEditOverlay(buffer.baseline, buffer.content)

\* When a new run generated the old text again, accepting what the dialog
\* suggests for every region keeps the manual text ("the Apply helper composes
\* the merged buffer consistently").
MergeKeepsManual ==
    review # None /\ review.generator = review.base =>
        \A picks \in Selections(Regions(review)) :
            ApplyMergeSelections(review.base, Regions(review), picks) = review.manual
=============================================================================
