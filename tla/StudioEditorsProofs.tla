------------------------ MODULE StudioEditorsProofs ------------------------
(* Proofs about the editors of the Studio. *)
EXTENDS StudioEditors, FiniteSetTheorems, TLAPS

-----------------------------------------------------------------------------
(* The buffer of generated Java.                                           *)

\* A buffer is either there, with all its fields, or not; and one that counts
\* as clean is its baseline.
Entry(b) ==
    [content |-> b.content, lastInput |-> b.lastInput, baseline |-> b.baseline,
     baselineRun |-> b.baselineRun, overlay |-> b.overlay, dirty |-> b.dirty]
Sound(b) == b # None => b = Entry(b) /\ (~b.dirty => b.content = b.baseline)
BufferInv == Sound(buffer)

\* A buffer made anew holds its baseline (ensureJavaBaseline,
\* upsertJavaBuffersFromCandidate).
LEMMA NewIsSound ==
  ASSUME NEW text, NEW r, NEW overlay, NEW dirty
  PROVE  Sound(Buffer(text, r, overlay, dirty))
BY DEF Sound, Entry, Buffer

\* What replaces the text of a buffer compares it with the baseline
\* (setJavaBufferContent).
LEMMA EditedIsSound ==
  ASSUME NEW b, Sound(b), NEW text
  PROVE  Sound(Edited(b, text)) /\ (b # None => Edited(b, text).baselineRun = b.baselineRun)
BY DEF Sound, Entry, Edited

\* The end of the debounce is such an edit (flushPendingEdit).
LEMMA FlushedIsSound ==
  ASSUME BufferInv
  PROVE  Sound(Flushed) /\ (buffer # None => Flushed.baselineRun = buffer.baselineRun)
BY EditedIsSound DEF Flushed, BufferInv

\* What a step may make of the buffer: a sound one, which keeps its baseline's
\* run unless its text is what the new run generated or a merge is done.
Rebased(b, c) == b # None /\ b.dirty => c.baselineRun = b.baselineRun \/ c.content = b.content
BufferStep == BufferInv' /\ Rebased(buffer, buffer')

\* The steps of the user and of the pane.
LEMMA UserKeepsBuffer == ASSUME BufferInv, User PROVE BufferStep
<1>. USE DEF BufferStep, BufferInv, Rebased
<1>1. CASE UNCHANGED buffer
  BY <1>1
<1>2. CASE SaveDraft \/ FormatDocument
  BY <1>2, FlushedIsSound DEF SaveDraft, FormatDocument
<1>3. CASE ResolveConflict
  <2>1. PICK text, overlay :
          buffer' = IF buffer = None THEN None ELSE [Edited(buffer, text) EXCEPT !.overlay = overlay]
    BY <1>3 DEF ResolveConflict
  <2>2. CASE buffer = None
    BY <2>1, <2>2 DEF Sound
  <2>3. CASE buffer # None
    BY <2>1, <2>3 DEF Sound, Entry, Edited
  <2>. QED  BY <2>2, <2>3
<1>. QED
  BY <1>1, <1>2, <1>3
  DEF User, Type, DismissConflict, ClearDrafts, CancelMergeReview, ApplyMerge, AcceptCandidate

LEMMA EffectsKeepBuffer == ASSUME BufferInv, Effects \/ Environment PROVE BufferStep
<1>. USE DEF BufferStep, BufferInv, Rebased
<1>1. CASE UNCHANGED buffer
  BY <1>1
<1>2. CASE Flush \/ Display
  BY <1>2, FlushedIsSound DEF Flush, Display
<1>3. CASE RefreshOverlay
  <2>1. buffer # None /\ \E computed : buffer' = [buffer EXCEPT !.overlay = computed]
    BY <1>3 DEF RefreshOverlay
  <2>. QED  BY <2>1 DEF Sound, Entry
<1>. QED
  BY <1>1, <1>2, <1>3
  DEF Effects, Environment, RequestMergeReview, StartRun, FetchFile, TimePasses, NewSession,
      PurgeExpired

\* The continuations.
LEMMA SettleKeepsBuffer ==
  ASSUME BufferInv, NEW t, Settle(t), ~FinishMerge(t)
  PROVE  BufferStep
<1>. USE DEF BufferStep, BufferInv, Rebased
<1>1. CASE FinishBaseline(t)
  <2>1. buffer' = EnsureJavaBaseline(buffer, t.text, t.about)
    BY <1>1 DEF FinishBaseline
  <2>2. CASE buffer' = buffer
    BY <2>2
  <2>3. CASE buffer' # buffer
    <3>1. PICK overlay : buffer' = Buffer(t.text, t.about, overlay, FALSE)
      BY <2>1, <2>3 DEF EnsureJavaBaseline
    <3>2. buffer # None /\ buffer.dirty => t.text = buffer.content
      BY <2>1, <2>3 DEF EnsureJavaBaseline
    <3>. QED  BY <3>1, <3>2, NewIsSound DEF Buffer
  <2>. QED  BY <2>2, <2>3
<1>2. CASE FinishSave(t)
  BY <1>2 DEF FinishSave, SavedEntry, Sound, Entry
<1>3. CASE FinishLoaded(t)
  <2>1. UNCHANGED buffer \/ \E d : buffer' = Loaded(buffer, d)
    BY <1>3 DEF FinishLoaded
  <2>. QED  BY <2>1 DEF Loaded, Sound, Entry
<1>4. CASE FinishResolved(t)
  BY <1>4 DEF FinishResolved, Sound, Entry
<1>5. CASE FinishCandidate(t)
  BY <1>5 DEF FinishCandidate, UpsertedEntry, Buffer, Sound, Entry
<1>6. CASE FinishFormat(t)
  <2>1. buffer' \in {Flushed, buffer, Edited(buffer, FormattedText(t.text))}
    BY <1>6 DEF FinishFormat
  <2>. QED  BY <2>1, FlushedIsSound, EditedIsSound
<1>7. CASE FormatFails(t)
  BY <1>7, FlushedIsSound DEF FormatFails
<1>8. CASE UNCHANGED buffer
  BY <1>8
<1>. QED
  BY <1>1, <1>2, <1>3, <1>4, <1>5, <1>6, <1>7, <1>8 DEF Settle, SaveFails, FinishLoad, FormatDropped

\* A merge that is done makes the text of its run the baseline
\* (applyJavaMergeSelections).
LEMMA MergeKeepsBuffer ==
  ASSUME BufferInv, NEW t, FinishMerge(t)
  PROVE  BufferInv' /\ (buffer # None => buffer'.baselineRun = t.about.run)
BY DEF FinishMerge, MergedEntry, BufferInv, Sound, Entry

LEMMA BufferNext ==
  ASSUME BufferInv, [EditorsNext]_allVars
  PROVE  BufferInv' /\ (\/ BufferStep
                        \/ \E t \in tasks : /\ FinishMerge(t) /\ Done(t)
                                            /\ buffer # None => buffer'.baselineRun = t.about.run)
<1>1. CASE UseJava /\ Next
  <2>1. CASE User \/ Effects \/ Environment
    BY <2>1, UserKeepsBuffer, EffectsKeepBuffer DEF BufferStep
  <2>2. CASE \E t \in tasks : Settle(t)
    <3>1. PICK t \in tasks : Settle(t)
      BY <2>2
    <3>2. CASE FinishMerge(t)
      <4>1. Done(t)
        BY <3>1, <3>2
        DEF Settle, FinishMerge, FinishBaseline, FinishSave, SaveFails, FinishLoad, FinishLoaded,
            FinishResolved, FinishCandidate, FinishFormat, FormatDropped, FormatFails
      <4>. QED  BY <3>2, <4>1, MergeKeepsBuffer
    <3>3. CASE ~FinishMerge(t)
      BY <3>1, <3>3, SettleKeepsBuffer DEF BufferStep
    <3>. QED  BY <3>2, <3>3
  <2>. QED  BY <1>1, <2>1, <2>2 DEF Next
<1>2. CASE UNCHANGED buffer
  BY <1>2 DEF BufferInv, BufferStep, Rebased
<1>. QED
  BY <1>1, <1>2 DEF EditorsNext, UseCobol, UsePanel, java, allVars, vars

LEMMA BufferInit == EditorsInit => BufferInv
BY DEF EditorsInit, Init, NoBuffer, BufferInv, Sound

\* A buffer that counts as clean is its baseline, for every text that is typed,
\* generated, proposed or formatted and every order of the awaits
\* (javaBuffers of transformationRun.tsx).
THEOREM CleanBuffers == EditorsSpec => []CleanMeansUnedited
<1>1. BufferInv /\ [EditorsNext]_allVars => BufferInv'
  BY BufferNext
<1>2. BufferInv => CleanMeansUnedited
  BY DEF BufferInv, Sound, CleanMeansUnedited
<1>. QED  BY BufferInit, <1>1, <1>2, PTL DEF EditorsSpec

\* Only a review, or the run that generated the edited text, gives an edited
\* buffer another baseline (ensureJavaBaseline, applyJavaMergeSelections).
THEOREM BaselinesMoveByReview == EditorsSpec => BaselineMovesByReview
<1>1. BufferInv /\ [EditorsNext]_allVars => BufferInv'
  BY BufferNext
<1>2. ASSUME BufferInv, [EditorsNext]_allVars
      PROVE  [buffer # None /\ buffer.dirty /\ buffer'.baselineRun # buffer.baselineRun =>
                 \/ buffer'.content = buffer.content
                 \/ \E t \in tasks \ tasks' :
                       t.kind = "merge" /\ t.about.run = buffer'.baselineRun]_vars
  <2>1. CASE BufferStep
    BY <2>1 DEF BufferStep, Rebased
  <2>2. CASE \E t \in tasks : /\ FinishMerge(t) /\ Done(t)
                              /\ buffer # None => buffer'.baselineRun = t.about.run
    <3>1. PICK t \in tasks : /\ FinishMerge(t) /\ Done(t)
                             /\ buffer # None => buffer'.baselineRun = t.about.run
      BY <2>2
    <3>2. t \in tasks \ tasks' /\ t.kind = "merge"
      BY <3>1 DEF Done, FinishMerge
    <3>. QED  BY <3>1, <3>2
  <2>. QED  BY <1>2, <2>1, <2>2, BufferNext
<1>. QED  BY BufferInit, <1>1, <1>2, PTL DEF EditorsSpec, BaselineMovesByReview

-----------------------------------------------------------------------------
(* The repair panel.                                                       *)

\* A session has all its fields; one whose sandbox is ready had its proposal
\* applied there; and what the panel waits for is under way.
Panelled(s) == s # None => s = Panel!Session(s.status, s.run, s.preview, s.proposal)
SandboxKnown ==
    repair # None /\ repair.status = "sandbox_ready" => repair.proposal \in sandboxed
PanelInv == Panelled(repair) /\ SandboxKnown /\ Panel!AcceptedWasSandboxed /\ Panel!BusyIsAnswered

\* A call whose answer ends what the panel waits for.
Awaited(status, c, id) ==
    /\ <<status, c.kind>> \in {<<"previewing", "preview">>, <<"loading", "diagnose">>,
                              <<"applying", "apply">>, <<"accepting", "accept">>,
                              <<"rejecting", "reject">>}
    /\ c.kind \in {"preview", "diagnose"} => c.id = id
LEMMA AwaitedAnswers ==
  ASSUME NEW c \in asked', Awaited(repair'.status, c, request')
  PROVE  Panel!BusyIsAnswered'
BY DEF Awaited, Panel!BusyIsAnswered, Panel!Busy

\* A request starts: the panel waits for the call it has just made
\* (startManualCompileRepairPreview, startManualCompileRepairDiagnose).
LEMMA StartsKeepPanel ==
  ASSUME PanelInv, Panel!AskCodingAgent \/ Panel!StartRepairAgent
  PROVE  PanelInv'
<1>. USE DEF Panel!Session, Panel!Call, Panel!AcceptedWasSandboxed
<1>1. CASE Panel!AskCodingAgent
  <2>. USE <1>1 DEF Panel!AskCodingAgent, PanelInv
  <2>1. Panelled(repair)' /\ SandboxKnown' /\ Panel!AcceptedWasSandboxed'
    BY DEF Panelled, SandboxKnown
  <2>2. Panel!Call("preview", onRun, request + 1, None, None) \in asked'
    OBVIOUS
  <2>3. Panel!BusyIsAnswered'
    BY <2>2, AwaitedAnswers DEF Awaited
  <2>. QED  BY <2>1, <2>3
<1>2. CASE Panel!StartRepairAgent
  <2>. USE <1>2 DEF Panel!StartRepairAgent, Panel!Diagnosing, Panel!DiagnoseCall, PanelInv
  <2>1. Panelled(repair)' /\ SandboxKnown' /\ Panel!AcceptedWasSandboxed'
    BY DEF Panelled, SandboxKnown
  <2>2. repair'.status = "loading"
    BY DEF Panelled
  <2>3. Panel!Call("diagnose", repair.run, request + 1, repair.preview, None) \in asked'
    OBVIOUS
  <2>4. Panel!BusyIsAnswered'
    BY <2>2, <2>3, AwaitedAnswers DEF Awaited
  <2>. QED  BY <2>1, <2>4
<1>. QED  BY <1>1, <1>2

\* The user decides (applyManualCompileRepair, acceptManualCompileRepair,
\* rejectManualCompileRepair).
LEMMA DecisionsKeepPanel ==
  ASSUME PanelInv, Panel!ApplyRepair \/ Panel!AcceptRepair \/ Panel!RejectRepair
  PROVE  PanelInv'
<1>1. PICK kind, status :
        /\ <<kind, status>> \in {<<"apply", "applying">>, <<"accept", "accepting">>,
                                 <<"reject", "rejecting">>}
        /\ kind = "accept" => Panel!SandboxReady(repair)
        /\ repair # None /\ Panel!Decide(kind, status)
  BY DEF Panel!ApplyRepair, Panel!AcceptRepair, Panel!RejectRepair
<1>. USE DEF PanelInv, Panel!Session, Panel!Call
<1>2. repair' = Panel!Session(status, repair.run, repair.preview, repair.proposal)
  BY <1>1 DEF Panelled, Panel!Decide
<1>3. Panelled(repair)' /\ SandboxKnown'
  BY <1>1, <1>2 DEF Panelled, SandboxKnown
<1>4. Panel!AcceptedWasSandboxed'
  BY <1>1 DEF Panel!AcceptedWasSandboxed, Panel!Decide, SandboxKnown, Panel!SandboxReady
<1>5. Panel!Call(kind, repair.run, 0, repair.preview, repair.proposal) \in asked'
  BY <1>1 DEF Panel!Decide
<1>6. Panel!BusyIsAnswered'
  BY <1>1, <1>2, <1>5, AwaitedAnswers DEF Awaited
<1>. QED  BY <1>3, <1>4, <1>6

\* The answer of a preview, on which the diagnosis follows whatever the panel
\* shows by then.
LEMMA PreviewKeepsPanel ==
  ASSUME PanelInv, NEW call \in asked, Panel!PreviewReady(call)
  PROVE  PanelInv'
<1>. USE DEF Panel!PreviewReady, Panel!Answered, Panel!Diagnosing, Panel!DiagnoseCall, Panel!Call,
             Panel!Session, PanelInv
<1>1. Panelled(repair)' /\ repair'.status = "loading"
  BY DEF Panelled
<1>2. Panel!Call("diagnose", call.run, request + 1, call.id, None) \in asked'
  OBVIOUS
<1>3. SandboxKnown' /\ Panel!BusyIsAnswered'
  BY <1>1, <1>2, AwaitedAnswers DEF SandboxKnown, Awaited
<1>4. Panel!AcceptedWasSandboxed'
  BY DEF Panel!AcceptedWasSandboxed
<1>. QED  BY <1>1, <1>3, <1>4

\* The other answers: what they leave of the session waits for another call
\* than the one that was answered, or for none.
LEMMA AnswersKeepPanel ==
  ASSUME PanelInv, NEW call \in asked,
         \/ Panel!DiagnosisReady(call) \/ Panel!RequestFails(call)
         \/ Panel!SandboxAnswers(call) \/ Panel!DecisionMade(call) \/ Panel!DecisionFails(call)
  PROVE  PanelInv'
<1>. DEFINE ok == Panelled(repair) /\ SandboxKnown
            failed == [repair EXCEPT !.status = "error"]
            rerun == [repair EXCEPT !.status = "sandbox_ready"]
            ready == [rerun EXCEPT !.proposal = call.proposal]
<1>1. asked' = asked \ {call} /\ sandboxed \subseteq sandboxed' /\ request' = request
  BY DEF Panel!DiagnosisReady, Panel!RequestFails, Panel!SandboxAnswers, Panel!DecisionMade,
         Panel!DecisionFails, Panel!Answered
<1>2. \/ repair' = None
      \/ repair' = repair /\ call.kind \in {"preview", "diagnose"} /\ call.id # request
      \/ \E preview, proposal : repair' = Panel!Session("ready", call.run, preview, proposal)
      \/ repair # None /\ repair' = failed
      \/ repair # None /\ call.proposal \in sandboxed' /\ repair' = ready
  BY DEF Panel!DiagnosisReady, Panel!RequestFails, Panel!SandboxAnswers, Panel!DecisionMade,
         Panel!DecisionFails, Panel!WithStatus, PanelInv
<1>3. ok
  BY DEF PanelInv
<1>4. /\ repair # None => failed = Panel!Session("error", repair.run, repair.preview, repair.proposal)
      /\ repair # None => ready = Panel!Session("sandbox_ready", repair.run, repair.preview, call.proposal)
  <2>1. SUFFICES ASSUME NEW status, NEW r, NEW preview, NEW proposal,
                        repair = [status |-> status, run |-> r, preview |-> preview, proposal |-> proposal]
                 PROVE  /\ failed = [status |-> "error", run |-> r, preview |-> preview,
                                     proposal |-> proposal]
                        /\ ready = [status |-> "sandbox_ready", run |-> r, preview |-> preview,
                                    proposal |-> call.proposal]
    BY <1>3 DEF Panelled, Panel!Session
  <2>2. failed = [status |-> "error", run |-> r, preview |-> preview, proposal |-> proposal]
    BY <2>1
  <2>3. ready = [status |-> "sandbox_ready", run |-> r, preview |-> preview,
                 proposal |-> call.proposal]
    <3>1. rerun = [status |-> "sandbox_ready", run |-> r, preview |-> preview, proposal |-> proposal]
      BY <2>1
    <3>. HIDE DEF rerun
    <3>. QED  BY <3>1
  <2>. QED  BY <2>2, <2>3
<1>5. Panelled(repair)' /\ SandboxKnown'
  <2>. HIDE DEF failed, ready
  <2>. QED  BY <1>1, <1>2, <1>3, <1>4 DEF Panelled, SandboxKnown, Panel!Session
<1>6. \/ repair' = None
      \/ repair'.status \in {"ready", "error", "sandbox_ready"}
      \/ repair' = repair /\ call.kind \in {"preview", "diagnose"} /\ call.id # request
  <2>. HIDE DEF failed, ready
  <2>. QED  BY <1>2, <1>4 DEF Panel!Session
<1>7. Panel!AcceptedWasSandboxed'
  BY <1>1 DEF PanelInv, Panel!AcceptedWasSandboxed
<1>8. Panel!BusyIsAnswered'
  BY <1>1, <1>6 DEF PanelInv, Panel!BusyIsAnswered, Panel!Busy
<1>. QED  BY <1>5, <1>7, <1>8 DEF PanelInv

LEMMA PanelNext == ASSUME PanelInv, [EditorsNext]_allVars PROVE PanelInv'
<1>1. CASE UNCHANGED panel
  BY <1>1
  DEF panel, PanelInv, Panelled, SandboxKnown, Panel!AcceptedWasSandboxed, Panel!BusyIsAnswered,
      Panel!Busy
<1>2. CASE Panel!RepairNext
  <2>1. CASE Panel!CloseRepair \/ Panel!RepairNextRun
    BY <2>1
    DEF PanelInv, Panelled, SandboxKnown, Panel!AcceptedWasSandboxed, Panel!BusyIsAnswered,
        Panel!Busy, Panel!CloseRepair, Panel!RepairNextRun
  <2>. QED
    BY <1>2, <2>1, StartsKeepPanel, DecisionsKeepPanel, PreviewKeepsPanel, AnswersKeepPanel
    DEF Panel!RepairNext
<1>. QED
  BY <1>1, <1>2 DEF EditorsNext, UseJava, UseCobol, UsePanel, allVars

\* Only what was applied to the sandbox is accepted, and a busy panel waits for
\* an answer that is still to come, for every number of requests, runs and
\* closed panels (manualCompileRepair of transformationRun.tsx).
THEOREM RepairsAreOrderly == EditorsSpec => []RepairIsOrderly
<1>1. EditorsInit => PanelInv
  BY DEF EditorsInit, Panel!RepairInit, PanelInv, Panelled, SandboxKnown,
         Panel!AcceptedWasSandboxed, Panel!BusyIsAnswered, Panel!Busy
<1>2. PanelInv /\ [EditorsNext]_allVars => PanelInv'
  BY PanelNext
<1>3. PanelInv => RepairIsOrderly
  BY DEF PanelInv, RepairIsOrderly
<1>. QED  BY <1>1, <1>2, <1>3, PTL DEF EditorsSpec

-----------------------------------------------------------------------------
(* The COBOL workspace.                                                    *)

\* What a change of the state leaves of the jobs: those it was given, and
\* perhaps a question for trust cases and a note of the input (the effects).
LEMMA CommitJobs ==
  ASSUME NEW text, NEW r, NEW lastSeen, NEW c, NEW newJobs,
         Cobol!Commit(text, r, lastSeen, c, newJobs)
  PROVE  newJobs \subseteq jobs' /\ \A j \in jobs' : j \in newJobs \/ j.kind \in {"cases", "input"}
BY DEF Cobol!Commit, Cobol!CasesJob, Cobol!InputJob

\* A lookup that still has the token of the workspace, or that checked it, is
\* older than no typing.
Lookup == {"load", "found"}
Timely(j, t, dirty) ==
    /\ j.kind \in Lookup => j.token \in 0 .. t /\ (j.token = t => ~dirty)
    /\ j.kind = "restore" => j.checked \in 0 .. t /\ (j.checked = t => ~dirty)
SourceShape == source = [text |-> source.text, file |-> source.file, dirty |-> source.dirty]
TokenInv ==
    /\ SourceShape /\ token \in Nat /\ moves \in Nat
    /\ \A j \in jobs : Timely(j, token, source.dirty)

\* A step that types nothing, opens nothing and looks nothing up.
LEMMA QuietKeepsTokens ==
  ASSUME TokenInv, token' = token, moves' \in Nat, SourceShape',
         source' = source \/ source'.dirty = FALSE,
         \A j \in jobs' : j \in jobs \/ Timely(j, token, source.dirty)
  PROVE  TokenInv'
BY DEF TokenInv, Timely

\* A step of the user that takes a new token (setSourceText, setSourceFile,
\* clearWorkspace).
LEMMA NewTokenKeepsTokens ==
  ASSUME TokenInv, token' = token + 1, moves' = moves + 1, SourceShape',
         \A j \in jobs' : j \in jobs \/ Timely(j, token', source'.dirty)
  PROVE  TokenInv'
BY DEF TokenInv, Timely

LEMMA UserKeepsTokens ==
  ASSUME TokenInv, Cobol!SourceUser
  PROVE  TokenInv' /\ (moves' # moves \/ source' = source)
<1>. USE DEF Cobol!UserMoves
<1>1. ASSUME NEW text \in TypedSources, Cobol!SetSourceText(text)
      PROVE  TokenInv' /\ moves' # moves
  <2>1. \A j \in jobs' : j \in jobs \/ j.kind \in {"cases", "input"}
    BY <1>1, CommitJobs DEF Cobol!SetSourceText
  <2>. QED
    BY <1>1, <2>1, NewTokenKeepsTokens
    DEF Cobol!SetSourceText, SourceShape, Timely, Lookup, TokenInv
<1>2. ASSUME NEW f \in SourceFiles, Cobol!SetSourceFile(f)
      PROVE  TokenInv' /\ moves' # moves
  <2>1. \A j \in jobs' : \/ j \in jobs \/ j.kind \in {"cases", "input"}
                         \/ j = [kind |-> "load", file |-> f, token |-> token + 1]
    BY <1>2, CommitJobs DEF Cobol!SetSourceFile
  <2>2. token \in Nat /\ token' = token + 1 /\ source'.dirty = FALSE /\ SourceShape'
    BY <1>2 DEF Cobol!SetSourceFile, SourceShape, TokenInv
  <2>3. \A j \in jobs' : j \in jobs \/ Timely(j, token', source'.dirty)
    BY <2>1, <2>2 DEF Timely, Lookup
  <2>4. moves' = moves + 1 /\ moves' # moves
    BY <1>2 DEF Cobol!SetSourceFile, TokenInv
  <2>. QED  BY <2>2, <2>3, <2>4, NewTokenKeepsTokens
<1>3. ASSUME Cobol!ClearWorkspace
      PROVE  TokenInv' /\ moves' # moves
  <2>1. \A j \in jobs' : j \in jobs \/ j.kind \in {"cases", "input"}
    BY <1>3, CommitJobs DEF Cobol!ClearWorkspace
  <2>. QED
    BY <1>3, <2>1, NewTokenKeepsTokens
    DEF Cobol!ClearWorkspace, SourceShape, Timely, Lookup, TokenInv, Cobol!NoFile
<1>4. ASSUME NEW text, Cobol!ResolveSourceConflict(text)
      PROVE  TokenInv' /\ moves' # moves
  <2>1. \A j \in jobs' : j \in jobs \/ j.kind \in {"cases", "input", "resolved"}
    BY <1>4, CommitJobs DEF Cobol!ResolveSourceConflict
  <2>2. source' = [text |-> text, file |-> source.file, dirty |-> FALSE]
    BY <1>4 DEF Cobol!ResolveSourceConflict, TokenInv, SourceShape
  <2>3. moves' \in Nat /\ moves' # moves /\ token' = token
    BY <1>4 DEF Cobol!ResolveSourceConflict, TokenInv
  <2>4. \A j \in jobs' : j \in jobs \/ Timely(j, token, source.dirty)
    BY <2>1 DEF Timely, Lookup
  <2>5. SourceShape' /\ source'.dirty = FALSE
    BY <2>2 DEF SourceShape
  <2>. QED  BY <2>3, <2>4, <2>5, QuietKeepsTokens
<1>5. ASSUME UNCHANGED <<source, token>>, moves' \in {moves, moves + 1},
             \A j \in jobs' : j \in jobs \/ j.kind \in {"cases", "input", "save"}
      PROVE  TokenInv' /\ source' = source
  BY <1>5, QuietKeepsTokens DEF SourceShape, Timely, Lookup, TokenInv
<1>6. CASE Cobol!SubmitTransform \/ Cobol!SubmitGenerate
  <2>1. \A j \in jobs' : j \in jobs \/ j.kind \in {"cases", "input"}
    BY <1>6, CommitJobs DEF Cobol!SubmitTransform, Cobol!SubmitGenerate
  <2>. QED  BY <1>5, <1>6, <2>1 DEF Cobol!SubmitTransform, Cobol!SubmitGenerate
<1>7. CASE \/ Cobol!DismissSourceConflict \/ Cobol!SaveDraftNow \/ Cobol!ClearSourceDrafts
           \/ \E case \in cases.list : Cobol!SelectTrustCase(case)
  BY <1>5, <1>7
  DEF Cobol!DismissSourceConflict, Cobol!SaveDraftNow, Cobol!ClearSourceDrafts,
      Cobol!SelectTrustCase
<1>. QED  BY <1>1, <1>2, <1>3, <1>4, <1>6, <1>7 DEF Cobol!SourceUser

\* The continuations: only a restore touches the text, and one that replaces a
\* text the user has typed had checked an older token.
LEMMA JobsKeepTokens ==
  ASSUME TokenInv, NEW j \in jobs, Cobol!SourceJob(j)
  PROVE  /\ TokenInv'
         /\ \/ source' = source
            \/ /\ j \notin jobs' /\ j.kind = "restore"
               /\ source.dirty => j.checked # token
<1>1. Timely(j, token, source.dirty)
  BY DEF TokenInv
<1>2. ASSUME UNCHANGED <<source, token, moves>>,
             \A k \in jobs' : k \in jobs \/ Timely(k, token, source.dirty)
      PROVE  TokenInv' /\ source' = source
  BY <1>2, QuietKeepsTokens DEF SourceShape, TokenInv
<1>3. CASE Cobol!ReadDraft(j)
  <2>1. \A k \in jobs' : k \in jobs \/ (k.kind = "found" /\ k.token = j.token)
    BY <1>3 DEF Cobol!ReadDraft
  <2>2. j.kind = "load" /\ UNCHANGED <<source, token, moves>>
    BY <1>3 DEF Cobol!ReadDraft
  <2>3. \A k \in jobs' : k \in jobs \/ Timely(k, token, source.dirty)
    BY <1>1, <2>1, <2>2 DEF Timely, Lookup
  <2>. QED  BY <1>2, <2>2, <2>3
<1>4. CASE Cobol!CheckRestore(j)
  <2>1. \A k \in jobs' : \/ k \in jobs
                         \/ k.kind = "restore" /\ k.checked = token /\ j.token = token
    BY <1>4 DEF Cobol!CheckRestore, Cobol!RestoreIsCurrent
  <2>2. j.kind = "found" /\ UNCHANGED <<source, token, moves>> /\ token \in Nat
    BY <1>4 DEF Cobol!CheckRestore, TokenInv
  <2>3. \A k \in jobs' : k \in jobs \/ Timely(k, token, source.dirty)
    BY <1>1, <2>1, <2>2 DEF Timely, Lookup
  <2>. QED  BY <1>2, <2>2, <2>3
<1>5. CASE Cobol!Restore(j)
  <2>1. CASE source' = source /\ jobs' = jobs \ {j}
    BY <1>2, <1>5, <2>1 DEF Cobol!Restore
  <2>2. CASE ~(source' = source /\ jobs' = jobs \ {j})
    <3>1. /\ source' = [text |-> j.draft.content, file |-> j.file, dirty |-> FALSE]
          /\ Cobol!Commit(j.draft.content, running, seen, cases, jobs \ {j})
          /\ j.kind = "restore" /\ UNCHANGED <<token, moves>>
      BY <1>5, <2>2 DEF Cobol!Restore
    <3>2. \A k \in jobs' : k \in jobs \ {j} \/ k.kind \in {"cases", "input"}
      BY <3>1, CommitJobs
    <3>3. j \notin jobs' /\ \A k \in jobs' : k \in jobs \/ Timely(k, token, source.dirty)
      BY <3>1, <3>2 DEF Timely, Lookup
    <3>4. SourceShape' /\ source'.dirty = FALSE /\ moves' \in Nat
      BY <3>1 DEF SourceShape, TokenInv
    <3>5. source.dirty => j.checked # token
      BY <1>1, <3>1 DEF Timely
    <3>. QED  BY <3>1, <3>3, <3>4, <3>5, QuietKeepsTokens
  <2>. QED  BY <2>1, <2>2
<1>6. CASE \/ Cobol!SaveResolution(j) \/ Cobol!FinishSaveNow(j)
           \/ Cobol!CasesArrive(j) \/ Cobol!NoteInput(j)
  BY <1>2, <1>6
  DEF Cobol!SaveResolution, Cobol!FinishSaveNow, Cobol!CasesArrive, Cobol!NoteInput
<1>. QED  BY <1>3, <1>4, <1>5, <1>6 DEF Cobol!SourceJob

LEMMA TokensNext ==
  ASSUME TokenInv, [EditorsNext]_allVars
  PROVE  /\ TokenInv'
         /\ \/ moves' # moves \/ source' = source
            \/ \E j \in jobs \ jobs' : /\ j.kind = "restore"
                                       /\ source.dirty => j.checked # token
<1>1. CASE UNCHANGED cobol
  BY <1>1 DEF cobol, TokenInv, SourceShape
<1>2. CASE Cobol!SourceNext
  <2>1. CASE Cobol!MountEditor
    BY <2>1, QuietKeepsTokens DEF Cobol!MountEditor, SourceShape, TokenInv
  <2>2. CASE Cobol!StartAnswered \/ Cobol!RunEnds
    <3>1. UNCHANGED <<source, token, moves>>
      BY <2>2 DEF Cobol!StartAnswered, Cobol!RunEnds
    <3>2. \A j \in jobs' : j \in jobs \/ j.kind \in {"cases", "input"}
      BY <2>2, CommitJobs DEF Cobol!StartAnswered, Cobol!RunEnds, Cobol!InputJob
    <3>3. \A j \in jobs' : j \in jobs \/ Timely(j, token, source.dirty)
      BY <3>2 DEF Timely, Lookup
    <3>. QED  BY <3>1, <3>3, QuietKeepsTokens DEF SourceShape, TokenInv
  <2>3. CASE \E j \in jobs : Cobol!SourceJob(j)
    BY <2>3, JobsKeepTokens
  <2>. QED  BY <1>2, <2>1, <2>2, <2>3, UserKeepsTokens DEF Cobol!SourceNext
<1>. QED  BY <1>1, <1>2 DEF EditorsNext, UseJava, UseCobol, UsePanel, allVars

LEMMA TokensInit == EditorsInit => TokenInv
BY DEF EditorsInit, Cobol!EmptyWorkspace, Cobol!SourceInit, Cobol!NoFile, TokenInv, SourceShape

\* A text the user has typed is replaced only by the user, or by a draft whose
\* token was checked before it was typed, for every number of files, drafts
\* and openings (loadDraftForSource of sourceWorkspace.tsx).
THEOREM TypedTextIsKept == EditorsSpec => TypedTextSurvives
<1>1. TokenInv /\ [EditorsNext]_allVars => TokenInv'
  BY TokensNext
<1>2. ASSUME TokenInv, [EditorsNext]_allVars
      PROVE  [source.dirty /\ source'.text # source.text =>
                 \/ moves' # moves
                 \/ \E j \in jobs \ jobs' : j.kind = "restore" /\ j.checked # token]_Cobol!sourceVars
  BY <1>2, TokensNext
<1>. QED  BY TokensInit, <1>1, <1>2, PTL DEF EditorsSpec, TypedTextSurvives, Cobol!TypedTextSurvives

\* What the store knows of the trust cases: without a program there are none,
\* an idle or failed list is empty, and a list that is ready is the program's.
CasesOK(c) ==
    /\ c = [program |-> c.program, asked |-> c.asked, status |-> c.status, list |-> c.list,
            selected |-> c.selected]
    /\ c.asked \in Nat
    /\ c.program = None => c.list = {} /\ c.selected = None
    /\ c.status \in {"idle", "loading", "error", "ready"}
    /\ c.status \in {"idle", "error"} => c.list = {} /\ c.selected = None
    /\ c.status = "ready" =>
          c.list = CatalogOf(c.program) /\ (c.selected = None \/ c.selected \in c.list)
\* A question that still counts is about the program the list is for.
Question(j, c) ==
    j.kind = "cases" =>
        j.asked \in 0 .. c.asked /\ (j.asked = c.asked /\ c.program # None => j.program = c.program)
CasesInv ==
    /\ CasesOK(cases) /\ SourceShape
    /\ cases.program # None => cases.program = Cobol!ActiveProgram(source.text, running)
    /\ \A j \in jobs : Question(j, cases)

\* The effect that follows the active program (activeTrustCaseProgramId).
LEMMA CasesForIsOK ==
  ASSUME NEW c, CasesOK(c), NEW program
  PROVE  /\ CasesOK(Cobol!CasesFor(c, program)) /\ Cobol!CasesFor(c, program).program = program
         /\ \A j : Question(j, c) => Question(j, Cobol!CasesFor(c, program))
         /\ \A j \in Cobol!CasesJob(c, Cobol!CasesFor(c, program)) :
               Question(j, Cobol!CasesFor(c, program))
<1>. DEFINE d == Cobol!CasesFor(c, program)
<1>1. CASE program = c.program
  BY <1>1 DEF Cobol!CasesFor, Cobol!CasesJob
<1>2. CASE program # c.program /\ program = None
  <2>1. d = [program |-> None, asked |-> c.asked, status |-> "idle", list |-> {}, selected |-> None]
    BY <1>2 DEF Cobol!CasesFor, Cobol!NoCases
  <2>. HIDE DEF d
  <2>2. CasesOK(d) /\ d.program = program
    BY <1>2, <2>1 DEF CasesOK
  <2>3. \A j : Question(j, c) => Question(j, d)
    BY <2>1 DEF Question
  <2>4. Cobol!CasesJob(c, d) = {}
    BY <2>1 DEF Cobol!CasesJob
  <2>. QED  BY <2>2, <2>3, <2>4 DEF d
<1>3. CASE program # c.program /\ program # None
  <2>1. d = [program |-> program, asked |-> c.asked + 1, status |-> "loading", list |-> c.list,
             selected |-> c.selected]
    <3>1. SUFFICES ASSUME NEW p, NEW asked_, NEW status, NEW list, NEW selected,
                          c = [program |-> p, asked |-> asked_, status |-> status, list |-> list,
                               selected |-> selected]
                   PROVE  d = [program |-> program, asked |-> asked_ + 1, status |-> "loading",
                               list |-> list, selected |-> selected]
      BY DEF CasesOK
    <3>. QED  BY <1>3, <3>1 DEF Cobol!CasesFor
  <2>. HIDE DEF d
  <2>2. c.asked \in Nat
    BY DEF CasesOK
  <2>3. CasesOK(d) /\ d.program = program
    BY <1>3, <2>1, <2>2 DEF CasesOK
  <2>4. \A j : Question(j, c) => Question(j, d)
    BY <2>1, <2>2 DEF Question
  <2>5. \A j \in Cobol!CasesJob(c, d) : Question(j, d)
    BY <2>1, <2>2 DEF Question, Cobol!CasesJob
  <2>. QED  BY <2>3, <2>4, <2>5 DEF d
<1>. QED  BY <1>1, <1>2, <1>3

\* A change of the state keeps the trust cases in step with the program.
LEMMA CommitKeepsCases ==
  ASSUME NEW text, NEW r, NEW lastSeen, NEW c, NEW newJobs, CasesOK(c),
         Cobol!Commit(text, r, lastSeen, c, newJobs), SourceShape', source'.text = text,
         \A j \in newJobs : Question(j, c)
  PROVE  CasesInv'
<1>1. cases' = Cobol!CasesFor(c, Cobol!ActiveProgram(text, r)) /\ running' = r
  BY DEF Cobol!Commit
<1>2. CasesOK(cases') /\ cases'.program = Cobol!ActiveProgram(source'.text, running')
  BY <1>1, CasesForIsOK
<1>3. \A j \in jobs' : j \in newJobs \/ j.kind = "input" \/ j \in Cobol!CasesJob(c, cases')
  BY DEF Cobol!Commit, Cobol!InputJob
<1>4. \A j \in jobs' : Question(j, cases')
  <2>. TAKE j \in jobs'
  <2>1. CASE j.kind = "input"
    BY <2>1 DEF Question
  <2>2. CASE j \in newJobs \/ j \in Cobol!CasesJob(c, cases')
    BY <1>1, <2>2, CasesForIsOK
  <2>. QED  BY <1>3, <2>1, <2>2
<1>. QED  BY <1>2, <1>4 DEF CasesInv

\* A step that leaves the text, the run and the trust cases as they are.
LEMMA QuietKeepsCases ==
  ASSUME CasesInv, UNCHANGED <<source, running, cases>>,
         \A j \in jobs' : j \in jobs \/ j.kind # "cases"
  PROVE  CasesInv'
BY DEF CasesInv, SourceShape, Question

LEMMA UserKeepsCases == ASSUME CasesInv, Cobol!SourceUser PROVE CasesInv'
<1>1. CasesOK(cases) /\ SourceShape /\ \A j \in jobs : Question(j, cases)
  BY DEF CasesInv
<1>2. ASSUME NEW text \in TypedSources, Cobol!SetSourceText(text) PROVE CasesInv'
  BY <1>1, <1>2, CommitKeepsCases DEF Cobol!SetSourceText, SourceShape
<1>3. ASSUME NEW f \in SourceFiles, Cobol!SetSourceFile(f) PROVE CasesInv'
  <2>. DEFINE more == jobs \cup {[kind |-> "load", file |-> f, token |-> token + 1]}
  <2>1. \A j \in more : Question(j, cases)
    BY <1>1 DEF Question
  <2>2. /\ source' = [text |-> FileText[f], file |-> f, dirty |-> FALSE]
        /\ Cobol!Commit(FileText[f], running, 0, cases, more)
    BY <1>3 DEF Cobol!SetSourceFile
  <2>3. SourceShape' /\ source'.text = FileText[f]
    BY <2>2 DEF SourceShape
  <2>. HIDE DEF more
  <2>. QED  BY <1>1, <2>1, <2>2, <2>3, CommitKeepsCases
<1>4. ASSUME Cobol!ClearWorkspace PROVE CasesInv'
  <2>. DEFINE c == [cases EXCEPT !.status = "idle", !.list = {}, !.selected = None]
  <2>1. c.program = cases.program /\ c.asked = cases.asked /\ CasesOK(c)
    <3>1. c = [program |-> cases.program, asked |-> cases.asked, status |-> "idle",
               list |-> {}, selected |-> None]
      <4>1. SUFFICES ASSUME NEW p, NEW asked_, NEW status, NEW list, NEW selected,
                            cases = [program |-> p, asked |-> asked_, status |-> status,
                                     list |-> list, selected |-> selected]
                     PROVE  c = [program |-> p, asked |-> asked_, status |-> "idle",
                                 list |-> {}, selected |-> None]
        BY <1>1 DEF CasesOK
      <4>. DEFINE c1 == [cases EXCEPT !.status = "idle"]
                  c2 == [c1 EXCEPT !.list = {}]
      <4>2. c1 = [program |-> p, asked |-> asked_, status |-> "idle", list |-> list,
                  selected |-> selected]
        BY <4>1
      <4>. HIDE DEF c1
      <4>3. c2 = [program |-> p, asked |-> asked_, status |-> "idle", list |-> {},
                  selected |-> selected]
        BY <4>2
      <4>. HIDE DEF c2
      <4>4. [c2 EXCEPT !.selected = None]
              = [program |-> p, asked |-> asked_, status |-> "idle", list |-> {},
                 selected |-> None]
        BY <4>3
      <4>. QED  BY <4>4 DEF c1, c2
    <3>. HIDE DEF c
    <3>. QED  BY <1>1, <3>1 DEF CasesOK
  <2>. HIDE DEF c
  <2>2. \A j \in jobs : Question(j, c)
    BY <1>1, <2>1 DEF Question
  <2>3. source' = Cobol!NoFile /\ Cobol!Commit(Cobol!EmptyText, running, 0, c, jobs)
    BY <1>4 DEF Cobol!ClearWorkspace, c
  <2>4. SourceShape' /\ source'.text = Cobol!EmptyText
    BY <2>3 DEF SourceShape, Cobol!NoFile
  <2>. QED  BY <2>1, <2>2, <2>3, <2>4, CommitKeepsCases
<1>5. ASSUME NEW text, Cobol!ResolveSourceConflict(text) PROVE CasesInv'
  <2>. DEFINE more == jobs \cup {[kind |-> "resolved", text |-> text, file |-> offered.file,
                                  input |-> offered.draft.lastInput]}
  <2>1. \A j \in more : Question(j, cases)
    BY <1>1 DEF Question
  <2>2. /\ source' = [text |-> text, file |-> source.file, dirty |-> FALSE]
        /\ Cobol!Commit(text, running, seen, cases, more)
    BY <1>1, <1>5 DEF Cobol!ResolveSourceConflict, SourceShape
  <2>3. SourceShape' /\ source'.text = text
    BY <2>2 DEF SourceShape
  <2>. HIDE DEF more
  <2>. QED  BY <1>1, <2>1, <2>2, <2>3, CommitKeepsCases
<1>6. CASE Cobol!SubmitTransform \/ Cobol!SubmitGenerate
  <2>1. source' = source /\ \E case : Cobol!Commit(source.text, Cobol!Started(case), seen, cases, jobs)
    BY <1>6 DEF Cobol!SubmitTransform, Cobol!SubmitGenerate
  <2>. QED  BY <1>1, <2>1, CommitKeepsCases DEF SourceShape
<1>7. ASSUME NEW case \in cases.list, Cobol!SelectTrustCase(case) PROVE CasesInv'
  <2>1. cases' = [cases EXCEPT !.selected = case] /\ UNCHANGED <<source, running, jobs>>
    BY <1>7 DEF Cobol!SelectTrustCase
  <2>2. CasesOK(cases') /\ cases'.program = cases.program /\ cases'.asked = cases.asked
    BY <1>1, <1>7, <2>1 DEF CasesOK
  <2>. QED  BY <2>1, <2>2 DEF CasesInv, SourceShape, Question
<1>8. CASE Cobol!DismissSourceConflict \/ Cobol!SaveDraftNow \/ Cobol!ClearSourceDrafts
  BY <1>8, QuietKeepsCases
  DEF Cobol!DismissSourceConflict, Cobol!SaveDraftNow, Cobol!ClearSourceDrafts
<1>. QED  BY <1>2, <1>3, <1>4, <1>5, <1>6, <1>7, <1>8 DEF Cobol!SourceUser

\* An answer is taken only by the question that still counts (CasesArrive).
LEMMA JobsKeepCases ==
  ASSUME CasesInv, NEW j \in jobs, Cobol!SourceJob(j)
  PROVE  CasesInv'
<1>1. CasesOK(cases) /\ SourceShape /\ \A k \in jobs : Question(k, cases)
  BY DEF CasesInv
<1>2. CASE Cobol!Restore(j)
  <2>1. CASE UNCHANGED <<source, running, cases>> /\ jobs' = jobs \ {j}
    BY <2>1, QuietKeepsCases
  <2>2. CASE ~(UNCHANGED <<source, running, cases>> /\ jobs' = jobs \ {j})
    <3>1. /\ source' = [text |-> j.draft.content, file |-> j.file, dirty |-> FALSE]
          /\ Cobol!Commit(j.draft.content, running, seen, cases, jobs \ {j})
      BY <1>2, <2>2 DEF Cobol!Restore
    <3>2. SourceShape' /\ source'.text = j.draft.content
      BY <3>1 DEF SourceShape
    <3>. QED  BY <1>1, <3>1, <3>2, CommitKeepsCases
  <2>. QED  BY <2>1, <2>2
<1>3. CASE Cobol!CasesArrive(j)
  <2>1. UNCHANGED <<source, running>> /\ jobs' = jobs \ {j}
    BY <1>3 DEF Cobol!CasesArrive
  <2>2. CASE ~Cobol!StillAsked(j)
    BY <1>3, <2>1, <2>2, QuietKeepsCases DEF Cobol!CasesArrive
  <2>3. CASE Cobol!StillAsked(j)
    <3>1. j.program = cases.program /\ cases.program # None
      BY <1>1, <1>3, <2>3 DEF Cobol!CasesArrive, Cobol!StillAsked, Question
    <3>2. PICK list, status, choice :
            /\ cases' = [cases EXCEPT !.list = list, !.status = status, !.selected = choice]
            /\ \/ /\ status = "ready" /\ list = CatalogOf(j.program)
                  /\ choice = None \/ choice \in list
               \/ status = "error" /\ list = {} /\ choice = None
      <4>1. CASE \E choice \in IF CatalogOf(j.program) = {} THEN {None} ELSE CatalogOf(j.program) :
                   cases' = [cases EXCEPT !.list = CatalogOf(j.program), !.status = "ready",
                                          !.selected = choice]
        BY <4>1
      <4>2. CASE cases' = [cases EXCEPT !.list = {}, !.status = "error", !.selected = None]
        BY <4>2
      <4>. QED  BY <1>3, <2>3, <4>1, <4>2 DEF Cobol!CasesArrive
    <3>3. cases' = [program |-> cases.program, asked |-> cases.asked, status |-> status,
                    list |-> list, selected |-> choice]
      <4>1. SUFFICES ASSUME NEW p, NEW asked_, NEW status_, NEW list_, NEW selected_,
                            cases = [program |-> p, asked |-> asked_, status |-> status_,
                                     list |-> list_, selected |-> selected_]
                     PROVE  cases' = [program |-> p, asked |-> asked_, status |-> status,
                                      list |-> list, selected |-> choice]
        BY <1>1 DEF CasesOK
      <4>. DEFINE c1 == [cases EXCEPT !.list = list]
                  c2 == [c1 EXCEPT !.status = status]
      <4>2. c1 = [program |-> p, asked |-> asked_, status |-> status_, list |-> list,
                  selected |-> selected_]
        BY <4>1
      <4>. HIDE DEF c1
      <4>3. c2 = [program |-> p, asked |-> asked_, status |-> status, list |-> list,
                  selected |-> selected_]
        BY <4>2
      <4>. HIDE DEF c2
      <4>4. [c2 EXCEPT !.selected = choice]
              = [program |-> p, asked |-> asked_, status |-> status, list |-> list,
                 selected |-> choice]
        BY <4>3
      <4>. QED  BY <3>2, <4>4 DEF c1, c2
    <3>4. CasesOK(cases')
      BY <1>1, <3>1, <3>2, <3>3 DEF CasesOK
    <3>. QED  BY <2>1, <3>3, <3>4 DEF CasesInv, SourceShape, Question
  <2>. QED  BY <2>2, <2>3
<1>4. CASE \/ Cobol!ReadDraft(j) \/ Cobol!CheckRestore(j) \/ Cobol!SaveResolution(j)
           \/ Cobol!FinishSaveNow(j) \/ Cobol!NoteInput(j)
  <2>1. \A k \in jobs' : k \in jobs \/ k.kind # "cases"
    BY <1>4
    DEF Cobol!ReadDraft, Cobol!CheckRestore, Cobol!SaveResolution, Cobol!FinishSaveNow,
        Cobol!NoteInput
  <2>2. UNCHANGED <<source, running, cases>>
    BY <1>4
    DEF Cobol!ReadDraft, Cobol!CheckRestore, Cobol!SaveResolution, Cobol!FinishSaveNow,
        Cobol!NoteInput
  <2>. QED  BY <2>1, <2>2, QuietKeepsCases
<1>. QED  BY <1>2, <1>3, <1>4 DEF Cobol!SourceJob

LEMMA CasesNext == ASSUME CasesInv, [EditorsNext]_allVars PROVE CasesInv'
<1>1. CASE UNCHANGED cobol
  BY <1>1, QuietKeepsCases DEF cobol
<1>2. CASE Cobol!SourceNext
  <2>1. CasesOK(cases) /\ SourceShape /\ \A j \in jobs : Question(j, cases)
    BY DEF CasesInv
  <2>2. CASE Cobol!MountEditor
    BY <2>2, QuietKeepsCases DEF Cobol!MountEditor
  <2>3. CASE Cobol!StartAnswered \/ Cobol!RunEnds
    <3>1. \A j \in jobs \cup {Cobol!InputJob(running.sent)} : Question(j, cases)
      BY <2>1 DEF Question, Cobol!InputJob
    <3>2. /\ source' = source
          /\ \E r, more : /\ Cobol!Commit(source.text, r, seen, cases, more)
                          /\ more \subseteq jobs \cup {Cobol!InputJob(running.sent)}
      BY <2>3 DEF Cobol!StartAnswered, Cobol!RunEnds
    <3>. QED  BY <2>1, <3>1, <3>2, CommitKeepsCases DEF SourceShape
  <2>. QED  BY <1>2, <2>2, <2>3, UserKeepsCases, JobsKeepCases DEF Cobol!SourceNext
<1>. QED  BY <1>1, <1>2 DEF EditorsNext, UseJava, UseCobol, UsePanel, allVars

LEMMA CasesInit == EditorsInit => CasesInv
<1>1. SUFFICES ASSUME cases = Cobol!NoCases, source = Cobol!NoFile, jobs = {} PROVE CasesInv
  BY DEF EditorsInit, Cobol!EmptyWorkspace, Cobol!SourceInit
<1>. QED  BY <1>1 DEF Cobol!NoCases, Cobol!NoFile, CasesInv, CasesOK, SourceShape

\* Only submitTransform starts a run with a trust case.
LEMMA StartsAreSubmits ==
  ASSUME [EditorsNext]_allVars, Cobol!IsTransforming', ~Cobol!IsTransforming, running'.case # None
  PROVE  running'.case = cases.selected /\ cases.status \notin {"loading", "error"}
<1>1. running' # running
  BY DEF Cobol!IsTransforming
<1>2. Cobol!SourceNext
  BY <1>1 DEF EditorsNext, UseJava, UseCobol, UsePanel, allVars, cobol
<1>3. ASSUME NEW text, NEW r, NEW lastSeen, NEW c, NEW newJobs,
             Cobol!Commit(text, r, lastSeen, c, newJobs)
      PROVE  running' = r
  BY <1>3 DEF Cobol!Commit
<1>4. Cobol!SubmitTransform \/ Cobol!SubmitGenerate
  BY <1>1, <1>2, <1>3
  DEF Cobol!SourceNext, Cobol!SourceUser, Cobol!SourceJob, Cobol!SetSourceText, Cobol!SetSourceFile,
      Cobol!ClearWorkspace, Cobol!ResolveSourceConflict, Cobol!DismissSourceConflict,
      Cobol!SaveDraftNow, Cobol!ClearSourceDrafts, Cobol!SelectTrustCase, Cobol!MountEditor,
      Cobol!StartAnswered, Cobol!RunEnds, Cobol!ReadDraft, Cobol!CheckRestore, Cobol!Restore,
      Cobol!SaveResolution, Cobol!FinishSaveNow, Cobol!CasesArrive, Cobol!NoteInput,
      Cobol!IsTransforming
<1>5. Cobol!SubmitTransform
  BY <1>3, <1>4 DEF Cobol!SubmitGenerate, Cobol!Started
<1>. QED  BY <1>3, <1>5 DEF Cobol!SubmitTransform, Cobol!Started

\* A run is started with a trust case of the active program, for every
\* catalogue and every order of its answers (submitTransform).
THEOREM CasesFitTheirRuns == EditorsSpec => StartedCasesFit
<1>1. CasesInv /\ [EditorsNext]_allVars => CasesInv'
  BY CasesNext
<1>2. ASSUME CasesInv, [EditorsNext]_allVars
      PROVE  [Cobol!IsTransforming' /\ ~Cobol!IsTransforming /\ running'.case # None =>
                 running'.case \in CatalogOf(Cobol!ActiveProgram(source.text, running))]_Cobol!sourceVars
  BY <1>2, StartsAreSubmits DEF CasesInv, CasesOK
<1>. QED  BY CasesInit, <1>1, <1>2, PTL DEF EditorsSpec, StartedCasesFit, Cobol!StartedCasesFit

-----------------------------------------------------------------------------
(* The drafts.                                                             *)

\* A row as saveDraft writes it: found under a session and a key, sealed for
\* that very place, its age aside.
RowFor(r, s, key, d) ==
    r = [key |-> DeriveRecordSelector(SessionOf(s), key), scope |-> DeriveScopeSelector(SessionOf(s)),
         schema |-> RecordSchemaVersion, age |-> r.age,
         sealed |-> EncryptPayload(SessionOf(s), DeriveRecordSelector(SessionOf(s), key),
                                   DeriveScopeSelector(SessionOf(s)), d)]
SealedRow(r) == \E s, key, d : d.version = "v0" /\ RowFor(r, s, key, d)

\* What is saved is such a row (saveDraft).
LEMMA DraftRowIsSealed ==
  ASSUME NEW s, NEW key, NEW d, d.version = "v0"
  PROVE  SealedRow(DraftRow(SessionOf(s), key, d))
BY DEF SealedRow, RowFor, DraftRow

\* The touch of loadDraft, and the days that pass, change the age only.
LEMMA AgedIsSealed ==
  ASSUME NEW r, SealedRow(r), NEW age
  PROVE  SealedRow([r EXCEPT !.age = age]) /\ [r EXCEPT !.age = age].key = r.key
<1>1. PICK s, key, d : d.version = "v0" /\ RowFor(r, s, key, d)
  BY DEF SealedRow
<1>. DEFINE found == DeriveRecordSelector(SessionOf(s), key)
            scope == DeriveScopeSelector(SessionOf(s))
            sealed == EncryptPayload(SessionOf(s), found, scope, d)
<1>2. r = [key |-> found, scope |-> scope, schema |-> RecordSchemaVersion, age |-> r.age, sealed |-> sealed]
  BY <1>1 DEF RowFor
<1>. HIDE DEF found, scope, sealed
<1>3. [r EXCEPT !.age = age]
        = [key |-> found, scope |-> scope, schema |-> RecordSchemaVersion, age |-> age, sealed |-> sealed]
  <2>1. SUFFICES ASSUME NEW a, r = [key |-> found, scope |-> scope, schema |-> RecordSchemaVersion,
                                    age |-> a, sealed |-> sealed]
                 PROVE  [r EXCEPT !.age = age]
                          = [key |-> found, scope |-> scope, schema |-> RecordSchemaVersion,
                             age |-> age, sealed |-> sealed]
    BY <1>2
  <2>. QED  BY <2>1
<1>4. RowFor([r EXCEPT !.age = age], s, key, d)
  BY <1>3 DEF RowFor, found, scope, sealed
<1>. QED  BY <1>1, <1>2, <1>3, <1>4 DEF SealedRow

\* A row that is found under the key of a draft can be read by its session: a
\* load takes none of them away (the row keys and seals of loadDraft).
LEMMA SealedIsReadable ==
  ASSUME NEW s, NEW key, NEW db, NEW r \in RowOf(db, SessionOf(s), key), SealedRow(r)
  PROVE  Readable(r, SessionOf(s))
<1>1. PICK s0, k0, d : d.version = "v0" /\ RowFor(r, s0, k0, d)
  BY DEF SealedRow
<1>2. r.key = DeriveRecordSelector(SessionOf(s), key) /\ r.key = DeriveRecordSelector(SessionOf(s0), k0)
  BY <1>1 DEF RowOf, RowFor
<1>3. s0 = s /\ k0 = key
  BY <1>2 DEF DeriveRecordSelector, HmacSelector, DraftKeySelectorFields, SessionOf
<1>4. /\ r.key = DeriveRecordSelector(SessionOf(s), key)
      /\ r.scope = DeriveScopeSelector(SessionOf(s)) /\ r.schema = RecordSchemaVersion
      /\ r.sealed = EncryptPayload(SessionOf(s), r.key, r.scope, d)
  BY <1>1, <1>3 DEF RowFor
<1>. QED  BY <1>1, <1>4 DEF Readable, Opens, EncryptPayload

\* Every row is one that was saved, the one a load has read included; and the
\* COBOL workspace saves under keys of its kind only.
CobolKey(key) == \E program, file : key = <<"cobol", program, file>>
CobolRow(r) == \E key : CobolKey(key) /\ r.key = DeriveRecordSelector(SessionOf(1), key)
CobolJob(j) ==
    /\ j.kind \in {"load", "found", "restore", "resolved"} => j.file # Cobol!Pasted
    /\ j.kind = "save" => CobolKey(Cobol!DraftKey(j.draft.program, j.draft.text, j.draft.file))
VaultInv ==
    /\ ops \in Nat
    /\ \A r \in drafts : SealedRow(r)
    /\ \A t \in tasks : t.kind = "loaded" => SealedRow(t.about)
    /\ editor = "cobol" => \A r \in drafts : CobolRow(r)
    /\ \A j \in jobs : CobolJob(j)
    /\ offered # None => offered.file # Cobol!Pasted

\* Every key of the workspace is of its kind (deriveDraftProgramId).
LEMMA KeysAreCobol ==
  ASSUME NEW program, NEW text, NEW file,
         file # Cobol!Pasted \/ Cobol!DraftKey(program, text, file) # None
  PROVE  CobolKey(Cobol!DraftKey(program, text, file))
<1>1. CASE program # None
  BY <1>1 DEF Cobol!DraftKey, CobolKey
<1>2. CASE program = None /\ file # Cobol!Pasted
  BY <1>2 DEF Cobol!DraftKey, CobolKey
<1>3. CASE program = None /\ file = Cobol!Pasted
  BY <1>3 DEF Cobol!DraftKey, CobolKey
<1>. QED  BY <1>1, <1>2, <1>3

\* A save of the workspace.
LEMMA SavedIsCobol ==
  ASSUME NEW db, \A r \in db : SealedRow(r) /\ CobolRow(r), NEW key, CobolKey(key),
         NEW d, d.version = "v0"
  PROVE  \A r \in Cobol!SavedDb(db, Cobol!Me, key, d) : SealedRow(r) /\ CobolRow(r)
<1>1. Cobol!SavedDb(db, Cobol!Me, key, d) = SavedDb(db, SessionOf(1), key, d)
  BY DEF Cobol!SavedDb, SavedDb, Cobol!Me, SessionOf, Cobol!PutRow, PutRow, Cobol!DraftRow, DraftRow,
         Cobol!DeriveRecordSelector, DeriveRecordSelector, Cobol!DeriveScopeSelector,
         DeriveScopeSelector, Cobol!EncryptPayload, EncryptPayload, Cobol!DeriveAesKey, DeriveAesKey,
         Cobol!DeriveAad, DeriveAad, Cobol!HmacSelector, HmacSelector,
         Cobol!DraftKeySelectorFields, DraftKeySelectorFields,
         Cobol!RecordSchemaVersion, RecordSchemaVersion
<1>2. SealedRow(DraftRow(SessionOf(1), key, d))
  BY DraftRowIsSealed
<1>3. CobolRow(DraftRow(SessionOf(1), key, d))
  BY DEF CobolRow, DraftRow
<1>. QED  BY <1>1, <1>2, <1>3 DEF SavedDb, PutRow

\* What a step may take of the drafts (SavesOutlastLoads).
KeepsSaves ==
    drafts' # drafts =>
        \A row \in UNION {RowOf(drafts, SessionOf(s), File) : s \in Secrets} :
          \/ Kept(row) \/ row.age = "expired" \/ ops' # ops
          \/ \E t \in tasks \ tasks' :
                \/ t.kind \in {"save", "resolved"}
                \/ t.kind = "loaded" /\ t.about.age = "near"

\* A step of the Java editor that puts no row keeps the vault.
LEMMA FewerRowsKeepVault ==
  ASSUME VaultInv, UseJava, drafts' \subseteq drafts, ops' \in Nat,
         \A t \in tasks' : t \in tasks \/ (t.kind = "loaded" => t.about \in drafts)
  PROVE  VaultInv'
BY DEF VaultInv, UseJava, cobol

\* A step that puts one back or anew.
LEMMA PutKeepsVault ==
  ASSUME VaultInv, UseJava, NEW r, SealedRow(r), drafts' = PutRow(drafts, r), ops' \in Nat,
         tasks' \subseteq tasks
  PROVE  VaultInv'
BY DEF VaultInv, UseJava, cobol, PutRow

LEMMA UserKeepsVault ==
  ASSUME VaultInv, UseJava, User \/ Effects
  PROVE  VaultInv' /\ KeepsSaves
<1>1. ops \in Nat
  BY DEF VaultInv
<1>2. \A t \in tasks' : t \in tasks \/ t.kind # "loaded"
  BY DEF User, Effects, Type, SaveDraft, FormatDocument, ResolveConflict, DismissConflict, ClearDrafts,
         CancelMergeReview, ApplyMerge, AcceptCandidate, Flush, RefreshOverlay, RequestMergeReview,
         SaveTask, Task
<1>3. CASE ClearDrafts
  <2>1. drafts' \subseteq drafts /\ ops' = ops + 1
    BY <1>3 DEF ClearDrafts, Bounded, ClearedDb, ClearedOrigin
  <2>. QED  BY <1>1, <1>2, <2>1, FewerRowsKeepVault DEF KeepsSaves
<1>4. CASE ~ClearDrafts
  <2>1. drafts' = drafts /\ ops' \in Nat
    BY <1>1, <1>4
    DEF User, Effects, Type, SaveDraft, FormatDocument, ResolveConflict, DismissConflict,
        CancelMergeReview, ApplyMerge, AcceptCandidate, Flush, RefreshOverlay, RequestMergeReview,
        session, Bounded
  <2>. QED  BY <1>2, <2>1, FewerRowsKeepVault DEF KeepsSaves
<1>. QED  BY <1>3, <1>4

LEMMA EnvironmentKeepsVault ==
  ASSUME VaultInv, UseJava, Environment
  PROVE  VaultInv' /\ KeepsSaves
<1>1. ops \in Nat /\ \A r \in drafts : SealedRow(r)
  BY DEF VaultInv
<1>2. CASE TimePasses
  <2>1. ops' = ops + 1 /\ tasks' = tasks
    BY <1>2 DEF TimePasses, Bounded
  <2>2. PICK row, age : row \in drafts /\ drafts' = PutRow(drafts, [row EXCEPT !.age = age])
    BY <1>2 DEF TimePasses
  <2>3. SealedRow([row EXCEPT !.age = age])
    BY <1>1, <2>2, AgedIsSealed
  <2>. QED  BY <1>1, <2>1, <2>2, <2>3, PutKeepsVault DEF KeepsSaves
<1>3. CASE PurgeExpired
  <2>1. drafts' \subseteq drafts /\ UNCHANGED <<ops, tasks>>
    BY <1>3 DEF PurgeExpired, PurgedDb
  <2>2. \A row \in drafts : row.age = "expired" \/ row \in drafts'
    BY <1>3 DEF PurgeExpired, PurgedDb, InScope
  <2>. QED  BY <1>1, <2>1, <2>2, FewerRowsKeepVault DEF KeepsSaves, Kept, RowOf
<1>4. CASE StartRun \/ Display \/ FetchFile \/ NewSession
  <2>1. drafts' = drafts /\ ops' \in Nat
    BY <1>1, <1>4 DEF StartRun, Display, FetchFile, NewSession, session, Bounded
  <2>2. \A t \in tasks' : t \in tasks \/ t.kind # "loaded"
    BY <1>4 DEF StartRun, Display, FetchFile, NewSession, LandingTasks, Task
  <2>. QED  BY <2>1, <2>2, FewerRowsKeepVault DEF KeepsSaves
<1>. QED  BY <1>2, <1>3, <1>4 DEF Environment

LEMMA SettleKeepsVault ==
  ASSUME VaultInv, UseJava, NEW t \in tasks, Settle(t)
  PROVE  VaultInv' /\ KeepsSaves
<1>1. /\ ops \in Nat /\ \A r \in drafts : SealedRow(r)
      /\ t.kind = "loaded" => SealedRow(t.about)
  BY DEF VaultInv
<1>2. CASE (FinishSave(t) \/ FinishResolved(t)) /\ Done(t)
  <2>1. tasks' = tasks \ {t} /\ ops' = ops /\ t.kind \in {"save", "resolved"}
    BY <1>2 DEF FinishSave, FinishResolved, Done
  <2>2. KeepsSaves
    BY <2>1 DEF KeepsSaves
  <2>3. CASE drafts' = drafts
    BY <1>1, <2>1, <2>2, <2>3, FewerRowsKeepVault
  <2>4. CASE drafts' # drafts
    <3>1. PICK text, input, overlay, resolved : PutDraft(Draft(text, input, overlay, resolved))
      BY <1>2, <2>4 DEF FinishSave, FinishResolved
    <3>. DEFINE d == Draft(text, input, overlay, resolved)
    <3>2. d.version = "v0"
      BY DEF Draft
    <3>. HIDE DEF d
    <3>3. SealedRow(DraftRow(SessionOf(secret), File, d))
      BY <3>2, DraftRowIsSealed
    <3>4. drafts' = PutRow(drafts, DraftRow(SessionOf(secret), File, d))
      BY <3>1 DEF PutDraft, SavedDb, d
    <3>. QED  BY <1>1, <2>1, <2>2, <3>3, <3>4, PutKeepsVault
  <2>. QED  BY <2>3, <2>4
<1>3. CASE FinishLoad(t)
  <2>1. /\ drafts' = WithoutUnreadable(drafts, SessionOf(secret), File) /\ ops' = ops
        /\ \A k \in tasks' : k \in tasks \/ k.about \in drafts
    BY <1>3 DEF FinishLoad, ReadableRow, RowOf, Task
  <2>2. drafts' = drafts
    BY <1>1, <2>1, SealedIsReadable DEF WithoutUnreadable
  <2>. QED  BY <1>1, <2>1, <2>2, FewerRowsKeepVault DEF KeepsSaves
<1>4. CASE FinishLoaded(t) /\ Done(t)
  <2>1. /\ tasks' = tasks \ {t} /\ ops' = ops /\ t.kind = "loaded"
        /\ drafts' = TouchedDb(drafts, t.about)
    BY <1>4 DEF FinishLoaded, Done
  <2>2. CASE t.about.age = "near"
    <3>1. KeepsSaves
      BY <2>1, <2>2 DEF KeepsSaves
    <3>2. drafts' = PutRow(drafts, [t.about EXCEPT !.age = "fresh"])
      BY <2>1, <2>2 DEF TouchedDb
    <3>3. SealedRow([t.about EXCEPT !.age = "fresh"])
      BY <1>1, <2>1, AgedIsSealed
    <3>. QED  BY <1>1, <2>1, <3>1, <3>2, <3>3, PutKeepsVault
  <2>3. CASE t.about.age # "near"
    BY <1>1, <2>1, <2>3, FewerRowsKeepVault DEF TouchedDb, KeepsSaves
  <2>. QED  BY <2>2, <2>3
<1>5. CASE drafts' = drafts /\ ops' = ops /\ \A k \in tasks' : k \in tasks \/ k.kind # "loaded"
  BY <1>1, <1>5, FewerRowsKeepVault DEF KeepsSaves
<1>. QED
  BY <1>2, <1>3, <1>4, <1>5
  DEF Settle, Done, FinishBaseline, SaveFails, FinishMerge, FinishCandidate, FinishFormat,
      FormatDropped, FormatFails, SaveTask, Task, session

\* A step of the workspace that saves nothing.
LEMMA NoSaveKeepsVault ==
  ASSUME VaultInv, UseCobol, drafts' \subseteq drafts,
         \A j \in jobs' : j \in jobs \/ CobolJob(j),
         offered' \in {None, offered} \/ offered'.file # Cobol!Pasted
  PROVE  VaultInv'
BY DEF VaultInv, UseCobol, java

LEMMA SourceUserKeepsVault ==
  ASSUME VaultInv, UseCobol, Cobol!SourceUser
  PROVE  VaultInv'
<1>1. drafts' \subseteq drafts /\ offered' \in {None, offered}
  BY DEF Cobol!SourceUser, Cobol!SetSourceText, Cobol!SetSourceFile, Cobol!ClearWorkspace,
         Cobol!ResolveSourceConflict, Cobol!DismissSourceConflict, Cobol!SaveDraftNow,
         Cobol!ClearSourceDrafts, Cobol!SelectTrustCase, Cobol!SubmitTransform,
         Cobol!SubmitGenerate, Cobol!ClearedDb
<1>2. \A j \in jobs' : j \in jobs \/ CobolJob(j)
  <2>1. CASE \E f \in SourceFiles : Cobol!SetSourceFile(f)
    <3>1. PICK f \in SourceFiles : Cobol!SetSourceFile(f)
      BY <2>1
    <3>2. \A j \in jobs' : \/ j \in jobs \/ j.kind \in {"cases", "input"}
                           \/ j = [kind |-> "load", file |-> f, token |-> token + 1]
      BY <3>1, CommitJobs DEF Cobol!SetSourceFile
    <3>3. f # Cobol!Pasted
      BY PathAssumption
    <3>. QED  BY <3>2, <3>3 DEF CobolJob
  <2>2. CASE \E text : Cobol!ResolveSourceConflict(text)
    <3>1. PICK text : Cobol!ResolveSourceConflict(text)
      BY <2>2
    <3>2. \A j \in jobs' : \/ j \in jobs \/ j.kind \in {"cases", "input"}
                           \/ j = [kind |-> "resolved", text |-> text, file |-> offered.file,
                                   input |-> offered.draft.lastInput]
      BY <3>1, CommitJobs DEF Cobol!ResolveSourceConflict
    <3>3. offered.file # Cobol!Pasted
      BY <3>1 DEF Cobol!ResolveSourceConflict, VaultInv
    <3>. QED  BY <3>2, <3>3 DEF CobolJob
  <2>3. CASE Cobol!SaveDraftNow
    <3>1. \A j \in jobs' : j \in jobs \/ j = [kind |-> "save", draft |-> mounted]
      BY <2>3 DEF Cobol!SaveDraftNow
    <3>2. CobolKey(Cobol!DraftKey(mounted.program, mounted.text, mounted.file))
      BY <2>3, KeysAreCobol DEF Cobol!SaveDraftNow
    <3>. QED  BY <3>1, <3>2 DEF CobolJob
  <2>4. CASE \/ \E text \in TypedSources : Cobol!SetSourceText(text)
             \/ Cobol!ClearWorkspace \/ Cobol!SubmitTransform \/ Cobol!SubmitGenerate
    <3>1. \A j \in jobs' : j \in jobs \/ j.kind \in {"cases", "input"}
      BY <2>4, CommitJobs
      DEF Cobol!SetSourceText, Cobol!ClearWorkspace, Cobol!SubmitTransform, Cobol!SubmitGenerate
    <3>. QED  BY <3>1 DEF CobolJob
  <2>5. CASE \/ Cobol!DismissSourceConflict \/ Cobol!ClearSourceDrafts
             \/ \E case \in cases.list : Cobol!SelectTrustCase(case)
    BY <2>5 DEF Cobol!DismissSourceConflict, Cobol!ClearSourceDrafts, Cobol!SelectTrustCase
  <2>. QED  BY <2>1, <2>2, <2>3, <2>4, <2>5 DEF Cobol!SourceUser
<1>. QED  BY <1>1, <1>2, NoSaveKeepsVault

LEMMA SourceJobKeepsVault ==
  ASSUME VaultInv, UseCobol, NEW j \in jobs, Cobol!SourceJob(j)
  PROVE  VaultInv'
<1>1. CobolJob(j) /\ \A r \in drafts : SealedRow(r) /\ CobolRow(r)
  BY DEF VaultInv, UseCobol
<1>2. CASE Cobol!ReadDraft(j) \/ Cobol!CheckRestore(j)
  <2>1. drafts' \subseteq drafts /\ offered' = offered
    BY <1>2 DEF Cobol!ReadDraft, Cobol!CheckRestore, Cobol!WithoutUnreadable
  <2>2. \A k \in jobs' : k \in jobs \/ (k.kind \in {"found", "restore"} /\ k.file = j.file)
    BY <1>2 DEF Cobol!ReadDraft, Cobol!CheckRestore
  <2>3. j.kind \in {"load", "found"}
    BY <1>2 DEF Cobol!ReadDraft, Cobol!CheckRestore
  <2>. QED  BY <1>1, <2>1, <2>2, <2>3, NoSaveKeepsVault DEF CobolJob
<1>3. CASE Cobol!Restore(j)
  <2>1. drafts' = drafts /\ (offered' = offered \/ offered' = [file |-> j.file, draft |-> j.draft])
    BY <1>3 DEF Cobol!Restore
  <2>2. j.kind = "restore"
    BY <1>3 DEF Cobol!Restore
  <2>3. \A k \in jobs' : k \in jobs \/ k.kind \in {"cases", "input"}
    BY <1>3, CommitJobs DEF Cobol!Restore
  <2>. QED  BY <1>1, <2>1, <2>2, <2>3, NoSaveKeepsVault DEF CobolJob
<1>4. CASE Cobol!SaveResolution(j) \/ Cobol!FinishSaveNow(j)
  <2>1. jobs' = jobs \ {j} /\ offered' = offered
    BY <1>4 DEF Cobol!SaveResolution, Cobol!FinishSaveNow
  <2>2. CASE drafts' = drafts
    BY <2>1, <2>2, NoSaveKeepsVault
  <2>3. CASE drafts' # drafts
    <3>1. PICK program, text, file, content, input, resolved :
            /\ drafts' = Cobol!SavedDb(drafts, Cobol!Me, Cobol!DraftKey(program, text, file),
                                       Cobol!SourceDraft(content, input, resolved))
            /\ CobolKey(Cobol!DraftKey(program, text, file))
      <4>1. CASE Cobol!SaveResolution(j)
        BY <1>1, <2>3, <4>1, KeysAreCobol DEF Cobol!SaveResolution, CobolJob
      <4>2. CASE Cobol!FinishSaveNow(j)
        BY <1>1, <2>3, <4>2 DEF Cobol!FinishSaveNow, CobolJob
      <4>. QED  BY <1>4, <4>1, <4>2
    <3>2. Cobol!SourceDraft(content, input, resolved).version = "v0"
      BY DEF Cobol!SourceDraft
    <3>3. \A r \in drafts' : SealedRow(r) /\ CobolRow(r)
      BY <1>1, <3>1, <3>2, SavedIsCobol
    <3>. QED  BY <2>1, <3>3 DEF VaultInv, UseCobol, java
  <2>. QED  BY <2>2, <2>3
<1>5. CASE Cobol!CasesArrive(j) \/ Cobol!NoteInput(j)
  BY <1>5, NoSaveKeepsVault DEF Cobol!CasesArrive, Cobol!NoteInput
<1>. QED  BY <1>2, <1>3, <1>4, <1>5 DEF Cobol!SourceJob

\* The rows of the workspace are none of the Java file's.
LEMMA CobolIsNotJava ==
  ASSUME VaultInv, UseCobol
  PROVE  KeepsSaves
<1>1. SUFFICES ASSUME NEW s \in Secrets, NEW row \in RowOf(drafts, SessionOf(s), File) PROVE FALSE
  BY DEF KeepsSaves
<1>2. PICK key : CobolKey(key) /\ row.key = DeriveRecordSelector(SessionOf(1), key)
  BY <1>1 DEF VaultInv, UseCobol, CobolRow, RowOf
<1>3. key = File
  BY <1>1, <1>2
  DEF RowOf, DeriveRecordSelector, HmacSelector, DraftKeySelectorFields, SessionOf
<1>. QED  BY <1>2, <1>3 DEF CobolKey, File

LEMMA VaultNext ==
  ASSUME VaultInv, [EditorsNext]_allVars
  PROVE  VaultInv' /\ KeepsSaves
<1>1. CASE UseJava /\ Next
  BY <1>1, UserKeepsVault, EnvironmentKeepsVault, SettleKeepsVault DEF Next
<1>2. CASE UseCobol /\ Cobol!SourceNext
  <2>1. CASE Cobol!MountEditor \/ Cobol!StartAnswered \/ Cobol!RunEnds
    <3>1. drafts' = drafts /\ offered' = offered
      BY <2>1 DEF Cobol!MountEditor, Cobol!StartAnswered, Cobol!RunEnds
    <3>2. \A j \in jobs' : j \in jobs \/ j.kind \in {"cases", "input"}
      BY <2>1, CommitJobs
      DEF Cobol!MountEditor, Cobol!StartAnswered, Cobol!RunEnds, Cobol!InputJob
    <3>3. \A j \in jobs' : j \in jobs \/ CobolJob(j)
      BY <3>2 DEF CobolJob
    <3>. QED  BY <1>2, <3>1, <3>3, NoSaveKeepsVault, CobolIsNotJava
  <2>. QED
    BY <1>2, <2>1, SourceUserKeepsVault, SourceJobKeepsVault, CobolIsNotJava DEF Cobol!SourceNext
<1>3. CASE UNCHANGED <<editor, java, drafts, jobs, offered>>
  BY <1>3 DEF VaultInv, KeepsSaves, java
<1>. QED
  BY <1>1, <1>2, <1>3 DEF EditorsNext, UsePanel, allVars, vars, cobol, java

LEMMA VaultInit == EditorsInit => VaultInv
<1>1. SUFFICES ASSUME EditorsInit PROVE VaultInv
  OBVIOUS
<1>2. ops = 0 /\ tasks = {} /\ jobs = {} /\ offered = None
  BY <1>1 DEF EditorsInit, Init, NoBuffer, Cobol!SourceInit, Cobol!EmptyWorkspace
<1>3. CASE editor = "java"
  <2>1. PICK d : d.version = "v0" /\ drafts \in {{}, SavedDb({}, SessionOf(1), File, d)}
    <3>1. \E d : drafts = {} \/ \E text : d = Draft(text, None, {}, None)
                                          /\ drafts = SavedDb({}, SessionOf(1), File, d)
      BY <1>1, <1>3 DEF EditorsInit, Init
    <3>2. \A text : Draft(text, None, {}, None).version = "v0"
      BY DEF Draft
    <3>. QED  BY <3>1, <3>2
  <2>2. \A r \in drafts : SealedRow(r)
    BY <2>1, DraftRowIsSealed DEF SavedDb, PutRow
  <2>. QED  BY <1>2, <1>3, <2>2 DEF VaultInv
<1>4. CASE editor = "cobol"
  <2>1. \/ drafts = {}
        \/ \E f \in EarlierDrafts : \E text :
              drafts = Cobol!SavedDb({}, Cobol!Me, Cobol!DraftKey(None, FileText[f], f),
                                     Cobol!SourceDraft(text, None, None))
    BY <1>1, <1>4 DEF EditorsInit, Cobol!SourceInit
  <2>2. \A f \in EarlierDrafts : CobolKey(Cobol!DraftKey(None, FileText[f], f))
    BY PathAssumption, KeysAreCobol
  <2>3. \A text : Cobol!SourceDraft(text, None, None).version = "v0"
    BY DEF Cobol!SourceDraft
  <2>4. \A r \in drafts : SealedRow(r) /\ CobolRow(r)
    BY <2>1, <2>2, <2>3, SavedIsCobol
  <2>. QED  BY <1>2, <2>4 DEF VaultInv
<1>5. CASE editor = "repair"
  BY <1>1, <1>2, <1>5 DEF EditorsInit, VaultInv
<1>. QED  BY <1>1, <1>3, <1>4, <1>5 DEF EditorsInit

\* What a save put in the store is lost only to another save, a clear or its
\* age, or to a load that had read a row close to its end, for every number of
\* sessions, saves and loads under way (editorPersistence.ts).
THEOREM SavesAreKept == EditorsSpec => SavesOutlastLoads
<1>1. VaultInv /\ [EditorsNext]_allVars => VaultInv'
  BY VaultNext
<1>2. ASSUME VaultInv, [EditorsNext]_allVars
      PROVE  [KeepsSaves]_vars
  BY <1>2, VaultNext
<1>. QED  BY VaultInit, <1>1, <1>2, PTL DEF EditorsSpec, SavesOutlastLoads, KeepsSaves

-----------------------------------------------------------------------------
(* The seal of a draft.                                                     *)

\* A row says for whom, for which file and with what text it was sealed,
\* wherever it has been put since.
SealedBy(row, o, g, payload) ==
    row.sealed = EncryptPayload(o, DeriveRecordSelector(o, g), DeriveScopeSelector(o), payload)

\* Whatever rows are in the store, a row opens only to the secret and the user
\* it was sealed by, at the place of the file it was sealed for
\* (deriveAesKey, deriveAad).
LEMMA OpensToItsOwn ==
  ASSUME NEW row, NEW s, Opens(s, row), NEW o, NEW g, NEW payload, SealedBy(row, o, g, payload)
  PROVE  /\ o.secret = s.secret /\ o.user = s.user
         /\ row.key = DeriveRecordSelector(o, g)
         /\ DecryptPayload(s, row) = payload /\ payload.version = "v0"
<1>1. /\ row.sealed.under = <<o.secret, o.user>> /\ row.sealed.under = <<s.secret, s.user>>
      /\ row.sealed.payload = payload
      /\ row.sealed.aad = <<RecordSchemaVersion, DeriveRecordSelector(o, g), DeriveScopeSelector(o)>>
      /\ row.sealed.aad = <<RecordSchemaVersion, row.key, row.scope>>
  BY DEF SealedBy, Opens, EncryptPayload, DeriveAesKey, DeriveAad
<1>. QED  BY <1>1 DEF Opens, DecryptPayload

\* A row is found by the secret, the user and the file it is stored under.
LEMMA SelectorsDiffer ==
  ASSUME NEW s, NEW f, NEW o, NEW g, DeriveRecordSelector(s, f) = DeriveRecordSelector(o, g)
  PROVE  s.secret = o.secret /\ s.user = o.user /\ f = g
BY DEF DeriveRecordSelector, HmacSelector, DraftKeySelectorFields

LEMMA ScopesDiffer ==
  ASSUME NEW s, NEW o, DeriveScopeSelector(s) = DeriveScopeSelector(o)
  PROVE  s.secret = o.secret /\ s.user = o.user
BY DEF DeriveScopeSelector, HmacSelector

\* For every store, session and file: what a load reads was saved under this
\* secret, by this user, for this file; what it cannot read it takes away, so
\* that a save is the one row of its file and readable; a save and a clear
\* leave the rows of every other session and file alone, and a clear leaves
\* the session none (saveDraft, loadDraft, clearAll of editorPersistence.ts).
THEOREM DraftsAreOnesOwn ==
  ASSUME NEW db, NEW s, NEW f, NEW payload, payload.version = "v0"
  PROVE  /\ \A r \in ReadableRow(db, s, f) : \A o, g, p : SealedBy(r, o, g, p) =>
              o.secret = s.secret /\ o.user = s.user /\ g = f /\ DecryptPayload(s, r) = p
         /\ RowOf(WithoutUnreadable(db, s, f), s, f) = ReadableRow(db, s, f)
         /\ LET saved == SavedDb(db, s, f, payload)
            IN  /\ ReadableRow(saved, s, f) = {DraftRow(s, f, payload)}
                /\ RowOf(saved, s, f) = {DraftRow(s, f, payload)}
                /\ \A t, g : <<t.secret, t.user, g>> # <<s.secret, s.user, f>> =>
                      RowOf(saved, t, g) = RowOf(db, t, g)
         /\ InScope(ClearedDb(db, s), s) = {}
         /\ \A t : <<t.secret, t.user>> # <<s.secret, s.user>> =>
              InScope(ClearedDb(db, s), t) = InScope(db, t)
<1>1. ASSUME NEW r \in ReadableRow(db, s, f), NEW o, NEW g, NEW p, SealedBy(r, o, g, p)
      PROVE  o.secret = s.secret /\ o.user = s.user /\ g = f /\ DecryptPayload(s, r) = p
  <2>1. Opens(s, r) /\ r.key = DeriveRecordSelector(s, f)
    BY DEF ReadableRow, Readable, RowOf
  <2>2. /\ o.secret = s.secret /\ o.user = s.user /\ r.key = DeriveRecordSelector(o, g)
        /\ DecryptPayload(s, r) = p
    BY <1>1, <2>1, OpensToItsOwn
  <2>3. DeriveRecordSelector(s, f) = DeriveRecordSelector(o, g)
    BY <2>1, <2>2
  <2>4. f = g
    BY <2>3, SelectorsDiffer
  <2>. QED  BY <2>2, <2>4
<1>2. RowOf(WithoutUnreadable(db, s, f), s, f) = ReadableRow(db, s, f)
  BY DEF RowOf, WithoutUnreadable, ReadableRow
<1>3. LET saved == SavedDb(db, s, f, payload)
      IN  /\ ReadableRow(saved, s, f) = {DraftRow(s, f, payload)}
          /\ RowOf(saved, s, f) = {DraftRow(s, f, payload)}
          /\ \A t, g : <<t.secret, t.user, g>> # <<s.secret, s.user, f>> =>
                RowOf(saved, t, g) = RowOf(db, t, g)
  <2>. DEFINE row == DraftRow(s, f, payload)
  <2>1. row.key = DeriveRecordSelector(s, f)
    BY DEF DraftRow
  <2>2. Readable(row, s)
    BY DEF DraftRow, Readable, Opens, EncryptPayload
  <2>. HIDE DEF row
  <2>3. SavedDb(db, s, f, payload) = {r \in db : r.key # row.key} \cup {row}
    BY DEF SavedDb, PutRow, row
  <2>4. ASSUME NEW t, NEW g, <<t.secret, t.user, g>> # <<s.secret, s.user, f>>
        PROVE  DeriveRecordSelector(t, g) # row.key
    BY <2>1, <2>4, SelectorsDiffer
  <2>. QED  BY <2>1, <2>2, <2>3, <2>4 DEF RowOf, ReadableRow, row
<1>4. InScope(ClearedDb(db, s), s) = {}
  BY DEF InScope, ClearedDb
<1>5. ASSUME NEW t, <<t.secret, t.user>> # <<s.secret, s.user>>
      PROVE  InScope(ClearedDb(db, s), t) = InScope(db, t)
  BY <1>5, ScopesDiffer DEF InScope, ClearedDb
<1>. QED  BY <1>1, <1>2, <1>3, <1>4, <1>5

\* The rows TLC puts in the store were sealed by somebody, and are two at most.
LEMMA StoresAreSealed ==
  ASSUME NEW db \in Stores
  PROVE  /\ IsFiniteSet(db)
         /\ \A r \in db : \E o \in Sessions, g \in Files, version \in {"v0", "v1"} :
              SealedBy(r, o, g, PayloadOf(o, g, version))
<1>1. PICK r \in SavedRows \cup MovedRows, q \in MovedRows : db = PutRow({r}, q)
  BY DEF Stores
<1>2. db \in {{r, q}, {q}}
  BY <1>1 DEF PutRow
<1>3. IsFiniteSet(db)
  <2>1. IsFiniteSet({q}) /\ IsFiniteSet({r})
    BY FS_Singleton
  <2>2. IsFiniteSet({r} \cup {q}) /\ {r} \cup {q} = {r, q}
    BY <2>1, FS_AddElement
  <2>. QED  BY <1>2, <2>1, <2>2
<1>4. ASSUME NEW x \in SavedRows \cup MovedRows
      PROVE  \E o \in Sessions, g \in Files, version \in {"v0", "v1"} :
               SealedBy(x, o, g, PayloadOf(o, g, version))
  <2>1. ASSUME NEW o \in Sessions, NEW g \in Files, NEW version \in {"v0", "v1"}
        PROVE  LET row == DraftRow(o, g, PayloadOf(o, g, version))
               IN  /\ DOMAIN row = {"key", "scope", "schema", "age", "sealed"}
                   /\ SealedBy(row, o, g, PayloadOf(o, g, version))
    BY DEF DraftRow, SealedBy
  <2>2. CASE x \in SavedRows
    <3>1. PICK o \in Sessions, g \in Files, version \in {"v0", "v1"},
               schema \in {RecordSchemaVersion, "v2"}, age \in Ages :
            x = SavedRow(o, g, version, schema, age)
      BY <2>2 DEF SavedRows
    <3>2. x.sealed = DraftRow(o, g, PayloadOf(o, g, version)).sealed
      BY <2>1, <3>1 DEF SavedRow
    <3>. QED  BY <2>1, <3>2 DEF SealedBy
  <2>3. CASE x \in MovedRows
    <3>1. PICK o \in Sessions, g \in Files, s \in Sessions, f \in Files : x = MovedRow(o, g, s, f)
      BY <2>3 DEF MovedRows
    <3>2. x.sealed = DraftRow(o, g, PayloadOf(o, g, "v0")).sealed
      BY <2>1, <3>1 DEF MovedRow
    <3>. QED  BY <2>1, <3>2 DEF SealedBy
  <2>. QED  BY <2>2, <2>3
<1>. QED  BY <1>2, <1>3, <1>4

\* A map of a finite set is not larger.
LEMMA ListIsNotLonger ==
  ASSUME NEW db, IsFiniteSet(db), NEW s
  PROVE  Cardinality(ListDrafts(db, s)) <= Cardinality(InScope(db, s))
<1>. DEFINE rows == {r \in InScope(db, s) : r.schema = RecordSchemaVersion /\ Opens(s, r)}
            list == [r \in rows |-> DecryptPayload(s, r)]
<1>1. rows \in SUBSET InScope(db, s) /\ InScope(db, s) \in SUBSET db
  BY DEF InScope
<1>2. IsFiniteSet(rows) /\ IsFiniteSet(InScope(db, s)) /\ Cardinality(rows) <= Cardinality(InScope(db, s))
  <2>1. IsFiniteSet(InScope(db, s))
    BY <1>1, FS_Subset
  <2>. QED  BY <1>1, <2>1, FS_Subset
<1>3. ListDrafts(db, s) = {list[r] : r \in rows}
  BY DEF ListDrafts
<1>. HIDE DEF rows
<1>4. list \in Surjection(rows, ListDrafts(db, s))
  BY <1>3 DEF Surjection
<1>5. Cardinality(ListDrafts(db, s)) <= Cardinality(rows) /\ IsFiniteSet(ListDrafts(db, s))
  BY <1>2, <1>4, FS_Surjection
<1>. QED  BY <1>2, <1>5, FS_CardinalityType

\* The seals hold for the stores of TLC (editorPersistence.ts).
LEMMA SealsAreKept == SealsHold
<1>. SUFFICES ASSUME NEW db \in Stores, NEW s \in Sessions
     PROVE  /\ \A f \in Files :
                 LET found == ReadableRow(db, s, f)
                     after == WithoutUnreadable(db, s, f)
                     saved == SavedDb(after, s, f, PayloadOf(s, f, "v0"))
                 IN  /\ \A r \in found : DecryptPayload(s, r) = PayloadOf(s, f, "v0")
                     /\ RowOf(after, s, f) = found
                     /\ \E r \in ReadableRow(saved, s, f) : r.age = "fresh"
                     /\ Cardinality(RowOf(saved, s, f)) = 1
            /\ CountDrafts(ClearedDb(db, s), s) = 0
            /\ \A t \in Sessions \ {s} : InScope(ClearedDb(db, s), t) = InScope(db, t)
            /\ \A p \in ListDrafts(db, s) : ReadableRow(db, s, p.file) # {}
            /\ Cardinality(ListDrafts(db, s)) <= CountDrafts(db, s)
            /\ PurgedDb(db, s) \subseteq db
            /\ ListDrafts(PurgedDb(db, s), s) \subseteq ListDrafts(db, s)
  BY DEF SealsHold
<1>1. /\ IsFiniteSet(db)
      /\ \A r \in db : \E o \in Sessions, g \in Files, version \in {"v0", "v1"} :
           SealedBy(r, o, g, PayloadOf(o, g, version))
  BY StoresAreSealed
<1>2. \A o \in Sessions : o.secret = s.secret /\ o.user = s.user => o = s
  BY DEF Sessions
<1>3. \A o, g, version : PayloadOf(o, g, version).version = version
                         /\ PayloadOf(o, g, version).file = g
  BY DEF PayloadOf
\* Whose row a session can open.
<1>4. ASSUME NEW r \in db, Opens(s, r)
      PROVE  \E g \in Files : /\ r.key = DeriveRecordSelector(s, g)
                              /\ DecryptPayload(s, r) = PayloadOf(s, g, "v0")
  <2>1. PICK o \in Sessions, g \in Files, version \in {"v0", "v1"} :
          SealedBy(r, o, g, PayloadOf(o, g, version))
    BY <1>1
  <2>2. /\ o.secret = s.secret /\ o.user = s.user /\ r.key = DeriveRecordSelector(o, g)
        /\ DecryptPayload(s, r) = PayloadOf(o, g, version)
        /\ PayloadOf(o, g, version).version = "v0"
    BY <1>4, <2>1, OpensToItsOwn
  <2>3. o = s /\ version = "v0"
    BY <1>2, <1>3, <2>2
  <2>. QED  BY <2>2, <2>3
<1>5. ASSUME NEW f \in Files
      PROVE  LET found == ReadableRow(db, s, f)
                 after == WithoutUnreadable(db, s, f)
                 saved == SavedDb(after, s, f, PayloadOf(s, f, "v0"))
             IN  /\ \A r \in found : DecryptPayload(s, r) = PayloadOf(s, f, "v0")
                 /\ RowOf(after, s, f) = found
                 /\ \E r \in ReadableRow(saved, s, f) : r.age = "fresh"
                 /\ Cardinality(RowOf(saved, s, f)) = 1
  <2>. DEFINE payload == PayloadOf(s, f, "v0")
              after == WithoutUnreadable(db, s, f)
              saved == SavedDb(after, s, f, payload)
  <2>1. ASSUME NEW r \in ReadableRow(db, s, f) PROVE DecryptPayload(s, r) = payload
    <3>1. r \in db /\ r.key = DeriveRecordSelector(s, f) /\ Opens(s, r)
      BY DEF ReadableRow, RowOf, Readable
    <3>2. PICK g \in Files : /\ r.key = DeriveRecordSelector(s, g)
                             /\ DecryptPayload(s, r) = PayloadOf(s, g, "v0")
      BY <1>4, <3>1
    <3>3. DeriveRecordSelector(s, f) = DeriveRecordSelector(s, g)
      BY <3>1, <3>2
    <3>4. f = g
      BY <3>3, SelectorsDiffer
    <3>. QED  BY <3>2, <3>4
  <2>2. payload.version = "v0"
    BY <1>3
  <2>. HIDE DEF payload
  <2>3. /\ RowOf(after, s, f) = ReadableRow(db, s, f)
        /\ ReadableRow(saved, s, f) = {DraftRow(s, f, payload)}
        /\ RowOf(saved, s, f) = {DraftRow(s, f, payload)}
    <3>1. RowOf(after, s, f) = ReadableRow(db, s, f)
      BY DEF RowOf, WithoutUnreadable, ReadableRow
    <3>. HIDE DEF after
    <3>2. /\ ReadableRow(saved, s, f) = {DraftRow(s, f, payload)}
          /\ RowOf(saved, s, f) = {DraftRow(s, f, payload)}
      BY <2>2, DraftsAreOnesOwn
    <3>. QED  BY <3>1, <3>2
  <2>4. DraftRow(s, f, payload).age = "fresh"
    BY DEF DraftRow
  <2>5. Cardinality(RowOf(saved, s, f)) = 1
    BY <2>3, FS_Singleton
  <2>. QED  BY <2>1, <2>3, <2>4, <2>5 DEF payload
<1>6. CountDrafts(ClearedDb(db, s), s) = 0
  BY FS_EmptySet DEF CountDrafts, ClearedDb, InScope
<1>7. \A t \in Sessions \ {s} : InScope(ClearedDb(db, s), t) = InScope(db, t)
  BY <1>2, ScopesDiffer DEF InScope, ClearedDb
<1>8. ASSUME NEW p \in ListDrafts(db, s) PROVE ReadableRow(db, s, p.file) # {}
  <2>1. PICK r \in InScope(db, s) : /\ r.schema = RecordSchemaVersion /\ Opens(s, r)
                                    /\ p = DecryptPayload(s, r)
    BY DEF ListDrafts
  <2>2. r \in db /\ r.scope = DeriveScopeSelector(s)
    BY DEF InScope
  <2>3. PICK g \in Files : r.key = DeriveRecordSelector(s, g) /\ p = PayloadOf(s, g, "v0")
    BY <1>4, <2>1, <2>2
  <2>4. p.file = g
    BY <1>3, <2>3
  <2>. QED  BY <2>1, <2>2, <2>3, <2>4 DEF ReadableRow, RowOf, Readable
<1>9. Cardinality(ListDrafts(db, s)) <= CountDrafts(db, s)
  BY <1>1, ListIsNotLonger DEF CountDrafts
<1>10. /\ PurgedDb(db, s) \subseteq db
       /\ ListDrafts(PurgedDb(db, s), s) \subseteq ListDrafts(db, s)
  BY DEF PurgedDb, ListDrafts, InScope
<1>. QED  BY <1>5, <1>6, <1>7, <1>8, <1>9, <1>10

\* A draft is read only by the session of the secret and the user it was saved
\* under, for the file it is of (editorPersistence.ts).
THEOREM DraftsAreAlwaysSealed == EditorsSpec => []DraftsAreSealed
<1>1. DraftsAreSealed
  BY SealsAreKept DEF DraftsAreSealed
<1>. QED  BY <1>1, PTL
=============================================================================
