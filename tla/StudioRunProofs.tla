--------------------------- MODULE StudioRunProofs ---------------------------
(* Theorems about the Studio's run store, for any number of runs, calls and *)
(* outages, and any views the orchestrator's outcomes give rise to.         *)
EXTENDS StudioRun, StudioDataProofs

-----------------------------------------------------------------------------
(* The inductive invariant.                                                 *)

\* The runs of the backend, numbered in the order of their creation, each for
\* a request that was made.
Numbered ==
    /\ DOMAIN orch = Runs /\ \A n \in Runs : DOMAIN orch[n] = {"status", "art", "asked"}
    /\ Created = 1 .. Cardinality(Created)
    /\ \A n \in Created : orch[n].asked \in 1 .. active
    /\ active \in Nat /\ starts \subseteq 1 .. active

\* A view that is there is of the run n.
ViewOf(v, n) == v # Null => "run" \in DOMAIN v /\ v.run = n
Shown(t) == {t.gen, t.files, t.bt, t.ev} # {Null}

\* There is a snapshot: the store says so, or a recorded run is not on show.
\* (Null is a constant, of which is assumed only that it is no number.)
HasFiles == s.gen # Null \/ s.files # Null
HasPrev == s.prev # Null \/ (history # Null /\ ~HasFiles)

\* The store has the run its last request was answered with, or none while
\* that answer is still to come; its views and the snapshot's are their own.
Current ==
    /\ DOMAIN s = DOMAIN NoRunState
    /\ s.run # Null => s.run \in Created /\ orch[s.run].asked = active /\ active \notin starts
    /\ s.run = Null => \A v \in Views : s[v] = Null
    /\ \A v \in Views : ViewOf(s[v], s.run)
    /\ HasPrev => s.prev.run \in Created /\ \A v \in Views : ViewOf(s.prev[v], s.prev.run)

\* The snapshot is of an older run than the current one, or than the one the
\* open request is for.
Ordered ==
    HasPrev =>
        /\ s.run # Null => s.prev.run < s.run
        /\ \A n \in Created : orch[n].asked = active /\ active \in starts => s.prev.run < n

\* A run is hydrated once: by the loop or by the promise of its answer, and
\* never again when views are there.
HydratedOnce ==
    /\ \A d \in detached : d.run \in Created /\ orch[d.run].asked \notin starts
    /\ \A d, e \in detached : d.run = e.run => d = e
    /\ poller.step # "off" => s.run # Null /\ ~Shown(s) /\ \A d \in detached : d.run # s.run
    /\ Shown(s) => \A d \in detached : d.run # s.run

\* What is being recorded is on show, and what is recorded is not newer than
\* what is on show.
Recorded ==
    /\ \A n \in recording : n = DisplayedRun(s) /\ ArtifactSource(s).files # Null
    /\ history # Null =>
         /\ history.current \in Created
         /\ IF HasFiles THEN history.current <= s.run
            ELSE history.current <= s.prev.run
    /\ HistoryInOrder

IInv == Numbered /\ Current /\ Ordered /\ HydratedOnce /\ Recorded

-----------------------------------------------------------------------------
(* The views.                                                               *)

\* Every view the BFF serves names the run it was asked for, whatever is not
\* served of it, and the checks of the Studio let it pass as it is.
LEMMA ViewsAreOfTheRun ==
  ASSUME NEW n, NEW outage
  PROVE  /\ ViewOf(GeneratedOf(n, outage), n) /\ ViewOf(FilesOf(n, outage), n)
         /\ ViewOf(BuildTestOf(n, outage), n) /\ ViewOf(EvidenceOf(n, outage), n)
         /\ ViewOf(ProgressOf(n, outage), n) /\ ViewOf(WorkflowOf(n, outage), n)
<1>1. Stored(n).id = n
  BY DEF Stored
<1>2. ViewOf(GeneratedOf(n, outage), n)
  BY <1>1 DEF ViewOf, GeneratedOf, Accepted, LiveGeneratedView, IncompleteGeneratedView
<1>3. ViewOf(FilesOf(n, outage), n)
  BY <1>1 DEF ViewOf, FilesOf, Accepted, GeneratedFilesIndex
<1>4. ViewOf(BuildTestOf(n, outage), n)
  BY <1>1 DEF ViewOf, BuildTestOf, Accepted, LiveBuildTestView
<1>5. ViewOf(EvidenceOf(n, outage), n)
  BY <1>1 DEF ViewOf, EvidenceOf, Accepted, LiveEvidenceView
<1>6. ViewOf(ProgressOf(n, outage), n)
  BY <1>1 DEF ViewOf, ProgressOf, Accepted, LiveProgressView
<1>7. ViewOf(WorkflowOf(n, outage), n)
  BY <1>1 DEF ViewOf, WorkflowOf, Accepted, WorkflowView, WorkflowEnvelope
<1>. QED  BY <1>2, <1>3, <1>4, <1>5, <1>6, <1>7

-----------------------------------------------------------------------------
(* Steps that leave the current run.                                        *)

\* A run's number is a number, which Null is not.
LEMMA CreatedAreNumbers ==
  ASSUME NEW n \in Created PROVE n \in Nat /\ n # Null
BY NullAssumption, BoundsAssumption DEF Created, Runs

\* The backend has what it had, and what is new is newer.
BackendGrows ==
    /\ \A n \in Created : n \in Created' /\ orch'[n].asked = orch[n].asked
    /\ \A n \in Created' \ Created : \A m \in Created : m < n

\* The store's run and snapshot stay, with views of that run, and no loop is
\* started; views appear only with the last hydration of the run.
StoreKept ==
    /\ s'.run = s.run /\ s'.prev = s.prev /\ DOMAIN s' = DOMAIN NoRunState
    /\ \A v \in Views : ViewOf(s'[v], s.run) /\ (s.run = Null => s'[v] = Null)
    /\ Shown(s) => s'.gen = s.gen /\ s'.files = s.files
    /\ poller'.step # "off" => poller.step # "off" /\ ~Shown(s')
    /\ Shown(s') => \A d \in detached' : d.run # s.run
    /\ recording' \subseteq recording \cap {DisplayedRun(s')}

LEMMA KeptRecords ==
  ASSUME IInv, BackendGrows, StoreKept, history' = history
  PROVE  Recorded'
<1>. USE DEF IInv
<1>1. /\ HasPrev => s.prev.run \in Created
      /\ s.run # Null => s.run \in Created
      /\ s.run # Null /\ HasPrev => s.prev.run < s.run
  BY DEF Current, Ordered
<1>2. HasFiles => HasFiles' /\ s'.gen = s.gen /\ s'.files = s.files
  BY DEF StoreKept, HasFiles, Shown
<1>3. HasFiles' => s.run # Null
  BY DEF HasFiles, StoreKept, Views
<1>4. ASSUME NEW n \in recording'
      PROVE  n = DisplayedRun(s') /\ ArtifactSource(s').files # Null
  <2>1. /\ n = DisplayedRun(s) /\ n = DisplayedRun(s') /\ ArtifactSource(s).files # Null
        /\ s'.prev = s.prev /\ s'.run = s.run
    BY <1>4 DEF StoreKept, Recorded
  <2>2. CASE ~ShowingHistoricalArtifacts(s)
    <3>1. s.files # Null
      BY <2>1, <2>2 DEF ArtifactSource
    <3>. QED  BY <1>2, <2>1, <3>1 DEF ArtifactSource, ShowingHistoricalArtifacts, HasFiles
  <2>3. CASE ShowingHistoricalArtifacts(s) /\ ShowingHistoricalArtifacts(s')
    BY <2>1, <2>3 DEF ArtifactSource
  <2>4. CASE ShowingHistoricalArtifacts(s) /\ ~ShowingHistoricalArtifacts(s')
    <3>1. s.prev # Null /\ s.prev.run = s.run
      BY <2>1, <2>4 DEF ArtifactSource, DisplayedRun, ShowingHistoricalArtifacts
    <3>2. s.prev.run \in Nat /\ s.prev.run # Null
      BY <1>1, <3>1, CreatedAreNumbers DEF HasPrev
    <3>. QED  BY <1>1, <3>1, <3>2 DEF HasPrev
  <2>. QED  BY <2>2, <2>3, <2>4
<1>5. ASSUME history # Null
      PROVE  /\ history.current \in Created'
             /\ IF HasFiles' THEN history.current <= s'.run
                ELSE history.current <= s'.prev.run
  <2>1. /\ history.current \in Created /\ history.current \in Created'
        /\ IF HasFiles THEN history.current <= s.run
           ELSE HasPrev /\ history.current <= s.prev.run
        /\ s'.prev = s.prev /\ s'.run = s.run
    BY <1>5 DEF Recorded, BackendGrows, StoreKept, HasPrev
  <2>2. CASE HasFiles
    BY <1>2, <2>1, <2>2
  <2>3. CASE ~HasFiles /\ ~HasFiles'
    BY <2>1, <2>3
  <2>4. CASE ~HasFiles /\ HasFiles'
    <3>1. history.current \in Nat /\ s.prev.run \in Nat /\ s.run \in Nat
      BY <1>1, <1>3, <2>1, <2>4, CreatedAreNumbers
    <3>. QED  BY <1>1, <1>3, <2>1, <2>4, <3>1
  <2>. QED  BY <2>2, <2>3, <2>4
<1>6. HistoryInOrder'
  BY DEF Recorded, HistoryInOrder
<1>. QED  BY <1>4, <1>5, <1>6 DEF Recorded

LEMMA KeptInv ==
  ASSUME IInv, Numbered', BackendGrows, StoreKept, history' = history, active' = active,
         starts' \subseteq starts, detached' \subseteq detached
  PROVE  IInv'
<1>0. HasPrev' => HasPrev
  BY DEF StoreKept, HasPrev, HasFiles, Shown, IInv
<1>1. Current'
  BY <1>0 DEF IInv, Current, StoreKept, BackendGrows
<1>2. Ordered'
  <2>. SUFFICES ASSUME HasPrev'
                PROVE  /\ s'.run # Null => s'.prev.run < s'.run
                       /\ \A n \in Created' : orch'[n].asked = active' /\ active' \in starts' => s'.prev.run < n
    BY DEF Ordered
  <2>1. HasPrev /\ s'.prev = s.prev /\ s'.run = s.run /\ s.prev.run \in Created
    BY <1>0 DEF StoreKept, IInv, Current
  <2>. QED  BY <2>1 DEF IInv, Ordered, BackendGrows
<1>3. HydratedOnce'
  <2>1. \A d \in detached' : d.run \in Created' /\ orch'[d.run].asked \notin starts'
    BY DEF IInv, HydratedOnce, BackendGrows
  <2>2. \A d, e \in detached' : d.run = e.run => d = e
    BY DEF IInv, HydratedOnce
  <2>3. poller'.step # "off" => s'.run # Null /\ ~Shown(s)' /\ \A d \in detached' : d.run # s'.run
    BY DEF IInv, HydratedOnce, StoreKept, Shown
  <2>4. Shown(s)' => \A d \in detached' : d.run # s'.run
    BY DEF StoreKept, Shown
  <2>. QED  BY <2>1, <2>2, <2>3, <2>4 DEF HydratedOnce
<1>. QED  BY <1>1, <1>2, <1>3, KeptRecords DEF IInv

-----------------------------------------------------------------------------
(* The steps of the loop and of the answers.                                *)

\* A step that leaves the backend and the requests alone, and drops requests
\* or hydrations at most.
LEMMA StillNumbered ==
  ASSUME IInv, orch' = orch, active' = active, starts' \subseteq starts
  PROVE  Numbered' /\ BackendGrows
<1>1. Created' = Created
  BY DEF Created
<1>2. Numbered'
  BY <1>1 DEF IInv, Numbered
<1>. QED  BY <1>1, <1>2 DEF BackendGrows

\* What a hydration makes of the store: views of the run, and its end.
LEMMA ObservedState ==
  ASSUME Current, s.run # Null, NEW outage, NEW u, u = HydrateRunObservability(s, s.run, outage)
  PROVE  /\ u.run = s.run /\ u.prev = s.prev /\ DOMAIN u = DOMAIN NoRunState
         /\ \A v \in Views : ViewOf(u[v], s.run)
         /\ u.gen = s.gen /\ u.files = s.files /\ u.bt = s.bt /\ u.ev = s.ev /\ u.phase = s.phase
<1>1. DOMAIN s = DOMAIN NoRunState /\ \A v \in Views : ViewOf(s[v], s.run)
  BY DEF Current
<1>2. \E p, w : ViewOf(p, s.run) /\ ViewOf(w, s.run) /\ u = [s EXCEPT !.progress = p, !.workflow = w]
  <2>1. ViewOf(ProgressOf(s.run, outage), s.run) /\ ViewOf(WorkflowOf(s.run, outage), s.run)
    BY ViewsAreOfTheRun
  <2>2. ViewOf(s.progress, s.run) /\ ViewOf(s.workflow, s.run)
    BY <1>1 DEF Views
  <2>3. u = [s EXCEPT !.progress = Or(ProgressOf(s.run, outage), s.progress),
                      !.workflow = Or(WorkflowOf(s.run, outage), s.workflow)]
    BY DEF HydrateRunObservability
  <2>. QED  BY <2>1, <2>2, <2>3 DEF Or
<1>. QED  BY <1>1, <1>2 DEF NoRunState, Views

LEMMA HydratedState ==
  ASSUME Current, s.run # Null, NEW outage, NEW terminal, NEW u,
         u = HydrateRunArtifacts(s, s.run, terminal, outage)
  PROVE  /\ u.run = s.run /\ u.prev = s.prev /\ DOMAIN u = DOMAIN NoRunState
         /\ \A v \in Views : ViewOf(u[v], s.run)
         /\ u.phase \in {"failed", "incomplete", "completed"}
<1>. DEFINE h == HydrateRunObservability(s, s.run, outage)
<1>1. /\ h.run = s.run /\ h.prev = s.prev /\ DOMAIN h = DOMAIN NoRunState
      /\ \A v \in Views : ViewOf(h[v], s.run)
  BY ObservedState
<1>. DEFINE gen == GeneratedOf(s.run, outage)
            files == FilesOf(s.run, outage)
            bt == BuildTestOf(s.run, outage)
            ev == EvidenceOf(s.run, outage)
            arts == ArtifactsOf(s.run, outage)
            phase == HydratedPhase(s, terminal, {gen, files, bt, ev})
<1>2. u = [h EXCEPT !.gen = gen, !.files = files, !.bt = bt, !.ev = ev,
                    !.artifacts = IF arts = Absent THEN Null ELSE arts,
                    !.artifactsError = arts = Absent, !.phase = phase]
  BY DEF HydrateRunArtifacts, HydratedViews
<1>3. phase \in {"failed", "incomplete", "completed"}
  BY DEF HydratedPhase
<1>4. ViewOf(gen, s.run) /\ ViewOf(files, s.run) /\ ViewOf(bt, s.run) /\ ViewOf(ev, s.run)
  BY ViewsAreOfTheRun
<1>. HIDE DEF h, gen, files, bt, ev, arts, phase
<1>5. /\ u.run = h.run /\ u.prev = h.prev /\ DOMAIN u = DOMAIN h /\ u.phase = phase
      /\ u.gen = gen /\ u.files = files /\ u.bt = bt /\ u.ev = ev
      /\ u.progress = h.progress /\ u.workflow = h.workflow
  BY <1>1, <1>2 DEF NoRunState
<1>. QED  BY <1>1, <1>3, <1>4, <1>5 DEF Views

\* A loop is started only when a run begins to run.
LEMMA EffectStartsNothing ==
  ASSUME NEW u, u.run = s.run, u.phase \notin {"starting", "running"} \/ u.phase = s.phase
  PROVE  PollEffect(s, u) \in {poller, Idle}
BY DEF PollEffect

LEMMA HydrationKeepsInv ==
  ASSUME IInv, \/ \E outage \in Outages : Hydrated(outage)
               \/ \E d \in detached, outage \in Outages : DetachedHydrated(d, outage)
  PROVE  IInv'
<1>. USE DEF IInv
<1>1. CASE \E outage \in Outages : Hydrated(outage)
  <2>1. PICK outage \in Outages : Hydrated(outage)
    BY <1>1
  <2>2. /\ poller.step = "hydrating" /\ poller' = Idle
        /\ s' = HydrateRunArtifacts(s, s.run, s.summary.status, outage)
        /\ recording' = StillRecording(recording, s')
        /\ UNCHANGED <<orch, active, starts, detached, history>>
    BY <2>1 DEF Hydrated, PollEnds
  <2>3. s.run # Null /\ ~Shown(s) /\ \A d \in detached : d.run # s.run
    BY <2>2 DEF HydratedOnce
  <2>4. StoreKept
    <3>1. /\ s'.run = s.run /\ s'.prev = s.prev /\ DOMAIN s' = DOMAIN NoRunState
          /\ \A v \in Views : ViewOf(s'[v], s.run)
      BY <2>2, <2>3, HydratedState
    <3>. QED  BY <2>2, <2>3, <3>1 DEF StoreKept, Idle, StillRecording
  <2>. QED  BY <2>2, <2>4, StillNumbered, KeptInv
<1>2. CASE \E d \in detached, outage \in Outages : DetachedHydrated(d, outage)
  <2>1. PICK d \in detached, outage \in Outages : DetachedHydrated(d, outage)
    BY <1>2
  <2>2. /\ detached' = detached \ {d} /\ s' = HydrateRunArtifacts(s, d.run, d.terminal, outage)
        /\ poller' = PollEffect(s, s') /\ recording' = StillRecording(recording, s')
        /\ UNCHANGED <<orch, active, starts, history>>
    BY <2>1 DEF DetachedHydrated, SetState
  <2>3. CASE d.run = s.run
    <3>1. s.run # Null
      BY <2>3, CreatedAreNumbers DEF HydratedOnce
    <3>2. /\ s'.run = s.run /\ s'.prev = s.prev /\ DOMAIN s' = DOMAIN NoRunState
          /\ \A v \in Views : ViewOf(s'[v], s.run)
          /\ s'.phase \in {"failed", "incomplete", "completed"}
      BY <2>2, <2>3, <3>1, HydratedState
    <3>3. poller.step = "off" /\ ~Shown(s) /\ \A e \in detached' : e.run # s.run
      BY <2>2, <2>3 DEF HydratedOnce
    <3>4. poller'.step = "off"
      BY <2>2, <3>2, <3>3, EffectStartsNothing DEF Idle
    <3>5. StoreKept
      BY <2>2, <3>1, <3>2, <3>3, <3>4 DEF StoreKept, StillRecording
    <3>. QED  BY <2>2, <3>5, StillNumbered, KeptInv
  <2>4. CASE d.run # s.run
    <3>1. s' = s
      BY <2>2, <2>4 DEF HydrateRunArtifacts
    <3>2. poller' = poller
      BY <2>2, <3>1 DEF PollEffect
    <3>3. StoreKept
      BY <2>2, <3>1, <3>2 DEF StoreKept, StillRecording, Current, HydratedOnce
    <3>. QED  BY <2>2, <3>3, StillNumbered, KeptInv
  <2>. QED  BY <2>3, <2>4
<1>. QED  BY <1>1, <1>2

\* The views on show stay; those of the progress and of the workflow, and the
\* reference of an export, may be renewed for the same run.
SameViews ==
    /\ s'.run = s.run /\ s'.prev = s.prev /\ DOMAIN s' = DOMAIN NoRunState
    /\ s'.gen = s.gen /\ s'.files = s.files /\ s'.bt = s.bt
    /\ s'.ev = s.ev \/ (s.ev # Null /\ ViewOf(s'.ev, s.run))
    /\ s'.progress = s.progress \/ (s.run # Null /\ ViewOf(s'.progress, s.run))
    /\ s'.workflow = s.workflow \/ (s.run # Null /\ ViewOf(s'.workflow, s.run))

LEMMA SameViewsKeep ==
  ASSUME IInv, SameViews, detached' \subseteq detached,
         poller'.step # "off" => poller.step # "off",
         recording' \subseteq recording \cap {DisplayedRun(s')}
  PROVE  StoreKept
<1>. USE DEF IInv
<1>1. \A v \in Views : ViewOf(s'[v], s.run) /\ (s.run = Null => s'[v] = Null)
  BY DEF SameViews, Current, Views
<1>2. Shown(s') => Shown(s)
  BY DEF SameViews, Shown
<1>3. /\ poller'.step # "off" => poller.step # "off" /\ ~Shown(s')
      /\ Shown(s') => \A d \in detached' : d.run # s.run
  BY <1>2 DEF HydratedOnce
<1>. QED  BY <1>1, <1>3 DEF StoreKept, SameViews

\* A step of the loop but the hydration.
LEMMA PollKeepsInv ==
  ASSUME IInv, \/ PollUnavailable \/ PollFails \/ Timer
               \/ \E fresh \in BOOLEAN : PollAnswered(fresh)
               \/ \E outage \in Outages : Observed(outage)
  PROVE  IInv'
<1>. USE DEF IInv
<1>1. DOMAIN s = DOMAIN NoRunState
  BY DEF Current
<1>2. /\ UNCHANGED <<orch, active, starts, detached, history>>
      /\ recording' = StillRecording(recording, s') /\ poller.step # "off"
  BY DEF PollUnavailable, PollFails, Timer, PollAnswered, Observed, PollStep, PollEnds
<1>3. s.run # Null
  BY <1>2 DEF HydratedOnce
<1>4. SameViews
  <2>1. CASE PollUnavailable
    <3>1. s' = [s EXCEPT !.phase = "unavailable", !.error = "other"]
      BY <2>1 DEF PollUnavailable, PollEnds
    <3>. QED  BY <1>1, <3>1 DEF SameViews, NoRunState
  <2>2. CASE PollFails \/ Timer
    <3>1. s' = s \/ s' = [s EXCEPT !.phase = "failed", !.error = "other"]
      BY <2>2 DEF PollFails, Timer, PollStep, PollEnds
    <3>. QED  BY <1>1, <3>1 DEF SameViews, NoRunState
  <2>3. CASE \E fresh \in BOOLEAN : PollAnswered(fresh)
    <3>1. \E summary : s' = [s EXCEPT !.summary = summary]
      BY <2>3 DEF PollAnswered, PollStep
    <3>. QED  BY <1>1, <3>1 DEF SameViews, NoRunState
  <2>4. CASE \E outage \in Outages : Observed(outage)
    <3>1. \E outage \in Outages : s' = HydrateRunObservability(s, s.run, outage)
      BY <2>4 DEF Observed, PollStep
    <3>. QED  BY <1>3, <3>1, ObservedState DEF SameViews, Views
  <2>. QED  BY <2>1, <2>2, <2>3, <2>4
<1>5. StoreKept
  BY <1>2, <1>4, SameViewsKeep DEF StillRecording
<1>. QED  BY <1>2, <1>5, StillNumbered, KeptInv

\* A step that leaves the store and its loop alone, whatever the backend does.
LEMMA StillKeepsInv ==
  ASSUME IInv, UNCHANGED <<s, active, poller, detached, history>>, starts' \subseteq starts,
         recording' \subseteq recording, Numbered', BackendGrows
  PROVE  IInv'
<1>1. SameViews
  BY DEF IInv, Current, SameViews
<1>2. recording' \subseteq recording \cap {DisplayedRun(s')}
  BY DEF IInv, Recorded
<1>3. StoreKept
  BY <1>1, <1>2, SameViewsKeep
<1>. QED  BY <1>3, KeptInv

\* The answer of a decision is kept with the backend's run as well.
LEMMA DecisionKeepsNumbers ==
  ASSUME IInv, NEW n, NEW trust, active' = active, starts' = starts,
         orch' = [orch EXCEPT ![n].art.stored.trust = trust, ![n].art.workflow.trust = trust]
  PROVE  Numbered' /\ BackendGrows
<1>1. DOMAIN orch = Runs /\ \A m \in Runs : DOMAIN orch[m] = {"status", "art", "asked"}
  BY DEF IInv, Numbered
<1>2. /\ DOMAIN orch' = Runs
      /\ \A m \in Runs : /\ DOMAIN orch'[m] = {"status", "art", "asked"}
                         /\ orch'[m].status = orch[m].status /\ orch'[m].asked = orch[m].asked
  BY <1>1
<1>3. Created' = Created
  BY <1>2 DEF Created
<1>4. Numbered'
  BY <1>2, <1>3 DEF IInv, Numbered, Created
<1>. QED  BY <1>2, <1>3, <1>4 DEF BackendGrows, Created

LEMMA AnswersKeepInv ==
  ASSUME IInv, NEW call \in calls,
         ExportAnswered(call) \/ DecisionAnswered(call) \/ CallFails(call)
  PROVE  IInv'
<1>. USE DEF IInv
<1>1. /\ UNCHANGED <<active, starts, detached, history>>
  BY DEF ExportAnswered, DecisionAnswered, CallFails, CallAnswered
<1>2. Numbered' /\ BackendGrows
  <2>1. orch' = orch \/ \E n, trust :
          orch' = [orch EXCEPT ![n].art.stored.trust = trust, ![n].art.workflow.trust = trust]
    BY DEF ExportAnswered, DecisionAnswered, CallFails
  <2>. QED  BY <1>1, <2>1, StillNumbered, DecisionKeepsNumbers
<1>3. CASE call.run # s.run
  <2>1. UNCHANGED <<s, poller, recording>>
    BY <1>3 DEF ExportAnswered, DecisionAnswered, CallFails, CallAnswered
  <2>. QED  BY <1>1, <1>2, <2>1, StillKeepsInv
<1>4. CASE call.run = s.run /\ SetState(s')
  <2>1. SameViews
    <3>1. DOMAIN s = DOMAIN NoRunState /\ \A v \in Views : ViewOf(s[v], s.run) /\ (s.run = Null => s[v] = Null)
      BY DEF Current
    <3>2. CASE ExportAnswered(call)
      <4>1. s' = s \/ (s.ev # Null /\ s' = [s EXCEPT !.ev.exportRef = "scaffold"])
        BY <1>4, <3>2 DEF ExportAnswered, CallAnswered, SetState
      <4>2. ViewOf(s.ev, s.run)
        BY <3>1 DEF Views
      <4>. QED  BY <3>1, <4>1, <4>2 DEF SameViews, NoRunState, ViewOf
    <3>3. CASE DecisionAnswered(call)
      <4>. DEFINE trust == "intentional_divergence"
                  known == IF s.summary = Null THEN s ELSE [s EXCEPT !.summary.trust = trust]
      <4>1. s' = IF s.workflow = Null THEN known ELSE [known EXCEPT !.workflow.trust = trust]
        BY <1>4, <3>3 DEF DecisionAnswered, CallAnswered, SetState
      <4>2. ViewOf(s.workflow, s.run) /\ (s.run = Null => s.workflow = Null)
        BY <3>1 DEF Views
      <4>3. /\ DOMAIN known = DOMAIN NoRunState /\ known.run = s.run /\ known.prev = s.prev
            /\ known.gen = s.gen /\ known.files = s.files /\ known.bt = s.bt /\ known.ev = s.ev
            /\ known.progress = s.progress /\ known.workflow = s.workflow
        BY <3>1 DEF NoRunState
      <4>. HIDE DEF known
      <4>. QED  BY <4>1, <4>2, <4>3 DEF SameViews, NoRunState, ViewOf
    <3>4. CASE CallFails(call)
      <4>1. s' = s
        BY <1>4, <3>4 DEF CallFails, CallAnswered, SetState
      <4>. QED  BY <3>1, <4>1 DEF SameViews
    <3>. QED  BY <3>2, <3>3, <3>4
  <2>2. s'.phase = s.phase
    <3>1. DOMAIN s = DOMAIN NoRunState
      BY DEF Current
    <3>2. \/ s' = s \/ s' = [s EXCEPT !.ev.exportRef = "scaffold"]
          \/ \E trust : \/ s' = [s EXCEPT !.summary.trust = trust]
                        \/ s' = [s EXCEPT !.workflow.trust = trust]
                        \/ s' = [[s EXCEPT !.summary.trust = trust] EXCEPT !.workflow.trust = trust]
      BY <1>4 DEF ExportAnswered, DecisionAnswered, CallFails, CallAnswered, SetState
    <3>. QED  BY <3>1, <3>2 DEF NoRunState
  <2>3. poller' = poller /\ recording' = StillRecording(recording, s')
    BY <1>4, <2>1, <2>2 DEF SetState, PollEffect, SameViews
  <2>4. StoreKept
    BY <1>1, <2>1, <2>3, SameViewsKeep DEF StillRecording
  <2>. QED  BY <1>1, <1>2, <2>4, KeptInv
<1>5. call.run = s.run => SetState(s')
  BY DEF ExportAnswered, DecisionAnswered, CallFails, CallAnswered, SetState
<1>. QED  BY <1>3, <1>4, <1>5

-----------------------------------------------------------------------------
(* The backend and the starts.                                              *)

\* The number a new run gets is free, and higher than those given.
LEMMA NextRunIsNew ==
  ASSUME Numbered
  PROVE  /\ NextRun \in Nat /\ NextRun \notin Created
         /\ \A n \in Created : n < NextRun
         /\ Created \cup {NextRun} = 1 .. NextRun /\ Cardinality(1 .. NextRun) = NextRun
<1>1. Created \subseteq 1 .. MaxRuns /\ MaxRuns \in Nat
  BY BoundsAssumption DEF Created, Runs
<1>2. IsFiniteSet(Created) /\ Cardinality(Created) \in Nat
  <2>1. IsFiniteSet(1 .. MaxRuns)
    BY <1>1, FS_Interval
  <2>. QED  BY <1>1, <2>1, FS_Subset, FS_CardinalityType
<1>. DEFINE k == Cardinality(Created)
<1>3. k \in Nat /\ Created = 1 .. k /\ NextRun = k + 1
  BY <1>2 DEF Numbered, NextRun
<1>. HIDE DEF k
<1>4. Cardinality(1 .. k + 1) = k + 1
  BY <1>3, FS_Interval
<1>. QED  BY <1>3, <1>4

LEMMA BackendKeepsInv ==
  ASSUME IInv, \/ \E q \in starts : BackendStarts(q)
               \/ \E n \in Created : \E outcome \in Outcomes[n] : OrchestratorFinishes(n, outcome)
  PROVE  IInv'
<1>. USE DEF IInv
<1>1. DOMAIN orch = Runs /\ \A m \in Runs : DOMAIN orch[m] = {"status", "art", "asked"}
  BY DEF Numbered
<1>2. UNCHANGED <<s, active, starts, poller, detached, recording, history>>
  BY DEF BackendStarts, OrchestratorFinishes
<1>3. CASE \E q \in starts : BackendStarts(q)
  <2>1. PICK q \in starts :
          orch' = [orch EXCEPT ![NextRun] = [status |-> "updating", art |-> AtWork, asked |-> q]]
    BY <1>3 DEF BackendStarts
  <2>2. /\ NextRun \in Nat /\ NextRun \notin Created
        /\ \A n \in Created : n < NextRun
        /\ Created \cup {NextRun} = 1 .. NextRun /\ Cardinality(1 .. NextRun) = NextRun
    BY NextRunIsNew
  <2>3. CASE NextRun \notin Runs
    <3>1. DOMAIN orch' = Runs /\ \A m \in Runs : orch'[m] = orch[m]
      BY <1>1, <2>1, <2>3
    <3>2. Created' = Created
      BY <3>1 DEF Created
    <3>3. Numbered' /\ BackendGrows
      BY <1>1, <1>2, <3>1, <3>2 DEF Numbered, BackendGrows, Created
    <3>. QED  BY <1>2, <3>3, StillKeepsInv
  <2>4. CASE NextRun \in Runs
    <3>. DEFINE new == NextRun
    <3>1. /\ DOMAIN orch' = Runs /\ \A m \in Runs \ {new} : orch'[m] = orch[m]
          /\ DOMAIN orch'[new] = {"status", "art", "asked"}
          /\ orch'[new].status = "updating" /\ orch'[new].asked = q
      BY <1>1, <2>1, <2>4
    <3>2. Created' = Created \cup {new}
      BY <2>4, <3>1 DEF Created
    <3>3. q \in 1 .. active
      BY DEF Numbered
    <3>. HIDE DEF new
    <3>4. \A n \in Created : n # new /\ orch'[n] = orch[n]
      BY <2>2, <3>1 DEF new, Created
    <3>5. Created' = 1 .. Cardinality(Created')
      BY <2>2, <3>2 DEF new
    <3>6. \A m \in Runs : DOMAIN orch'[m] = {"status", "art", "asked"}
      BY <1>1, <3>1
    <3>7. \A n \in Created' : orch'[n].asked \in 1 .. active
      BY <3>1, <3>2, <3>3, <3>4 DEF Numbered
    <3>8. Numbered'
      BY <1>2, <3>1, <3>5, <3>6, <3>7 DEF Numbered
    <3>9. BackendGrows
      BY <2>2, <3>2, <3>4 DEF BackendGrows, new
    <3>. QED  BY <1>2, <3>8, <3>9, StillKeepsInv
  <2>. QED  BY <2>3, <2>4
<1>4. CASE \E n \in Created : \E outcome \in Outcomes[n] : OrchestratorFinishes(n, outcome)
  <2>1. PICK n \in Created : \E outcome \in Outcomes[n] : OrchestratorFinishes(n, outcome)
    BY <1>4
  <2>2. PICK outcome \in Outcomes[n] :
          orch' = [orch EXCEPT ![n].status = outcome.status, ![n].art = outcome.art]
    BY <2>1 DEF OrchestratorFinishes
  <2>3. n \in Runs /\ outcome.status # "none"
    BY OutcomeAssumption DEF Created, Terminal
  <2>4. /\ DOMAIN orch' = Runs
        /\ \A m \in Runs : /\ DOMAIN orch'[m] = {"status", "art", "asked"}
                           /\ orch'[m].asked = orch[m].asked
                           /\ orch'[m].status = IF m = n THEN outcome.status ELSE orch[m].status
    BY <1>1, <2>2, <2>3
  <2>5. Created' = Created
    BY <2>3, <2>4 DEF Created
  <2>6. Numbered' /\ BackendGrows
    BY <1>2, <2>4, <2>5 DEF Numbered, BackendGrows, Created
  <2>. QED  BY <1>2, <2>6, StillKeepsInv
<1>. QED  BY <1>3, <1>4

LEMMA StartFailsKeepsInv ==
  ASSUME IInv, NEW q \in starts, NEW error, StartFails(q, error)
  PROVE  IInv'
<1>. USE DEF IInv
<1>1. starts' \subseteq starts /\ UNCHANGED <<orch, active, detached, history>>
  BY DEF StartFails
<1>2. CASE q # active
  <2>1. UNCHANGED <<s, poller, recording>>
    BY <1>2 DEF StartFails
  <2>. QED  BY <1>1, <2>1, StillNumbered, StillKeepsInv
<1>3. CASE q = active
  <2>1. /\ s' = [s EXCEPT !.phase = "failed", !.error = error]
        /\ poller' = PollEffect(s, s') /\ recording' = StillRecording(recording, s')
    BY <1>3 DEF StartFails, SetState
  <2>2. SameViews /\ s'.phase = "failed"
    BY <2>1 DEF SameViews, NoRunState, Current
  <2>3. poller' \in {poller, Idle}
    BY <2>1, <2>2, EffectStartsNothing DEF SameViews
  <2>4. StoreKept
    BY <1>1, <2>1, <2>2, <2>3, SameViewsKeep DEF StillRecording, Idle
  <2>. QED  BY <1>1, <2>4, StillNumbered, KeptInv
<1>. QED  BY <1>2, <1>3

\* The answer of a start: the run of the last request becomes the current one.
\* Nothing is on show of it yet, no promise hydrates it, and the loop that it
\* may start is the first one.
LEMMA StartAnsweredKeepsInv ==
  ASSUME IInv, NEW q \in starts, StartAnswered(q)
  PROVE  IInv'
<1>. USE DEF IInv
<1>. DEFINE n == RunOf(q)
            over == orch[n].status \in Terminal
<1>1. /\ IsCreated(q) /\ starts' = starts \ {q}
      /\ UNCHANGED <<orch, active, history>>
  BY DEF StartAnswered
<1>2. CASE q # active
  <2>1. UNCHANGED <<s, poller, recording, detached>>
    BY <1>2 DEF StartAnswered
  <2>. QED  BY <1>1, <2>1, StillNumbered, StillKeepsInv
<1>3. CASE q = active
  <2>1. n \in Created /\ orch[n].asked = active
    BY <1>1, <1>3 DEF RunOf, IsCreated
  <2>2. s.run = Null /\ \A v \in Views : s[v] = Null
    BY <1>3 DEF Current
  <2>3. n \in Nat /\ n # Null
    BY <2>1, CreatedAreNumbers
  <2>4. /\ s' = [s EXCEPT !.phase = IF over THEN orch[n].status ELSE "running",
                          !.run = n, !.error = Null, !.summary = SummaryOf(n)]
        /\ poller' = PollEffect(s, s') /\ recording' = StillRecording(recording, s')
        /\ detached' = IF over THEN detached \cup {[run |-> n, terminal |-> orch[n].status]}
                       ELSE detached
    BY <1>3 DEF StartAnswered, SetState
  <2>. HIDE DEF n
  <2>5. /\ DOMAIN s' = DOMAIN NoRunState /\ s'.run = n /\ s'.prev = s.prev
        /\ s'.phase = IF over THEN orch[n].status ELSE "running"
        /\ \A v \in Views : s'[v] = s[v]
    BY <2>4 DEF Current, NoRunState, Views
  <2>6. Numbered' /\ BackendGrows /\ Created' = Created
    BY <1>1, StillNumbered DEF Created
  <2>7. Current'
    <3>1. s'.run \in Created' /\ orch'[s'.run].asked = active' /\ active' \notin starts'
      BY <1>1, <1>3, <2>1, <2>5, <2>6
    <3>2. \A v \in Views : ViewOf(s'[v], s'.run)
      BY <2>2, <2>5 DEF ViewOf
    <3>3. HasPrev' => s'.prev.run \in Created' /\ \A v \in Views : ViewOf(s'.prev[v], s'.prev.run)
      BY <1>1, <2>5, <2>6 DEF Current, HasPrev, HasFiles, Views
    <3>. QED  BY <2>3, <2>5, <3>1, <3>2, <3>3 DEF Current
  <2>8. Ordered'
    BY <1>1, <1>3, <2>1, <2>5 DEF Ordered, HasPrev, HasFiles, Views
  <2>9. HydratedOnce'
    <3>1. \A d \in detached : d.run \in Created /\ orch[d.run].asked \in Nat /\ d.run # n
      BY <1>3, <2>1 DEF HydratedOnce, Numbered
    <3>2. \A d \in detached' : d \in detached \/ (over /\ d = [run |-> n, terminal |-> orch[n].status])
      BY <2>4
    <3>3. \A d \in detached' : d.run \in Created' /\ orch'[d.run].asked \notin starts'
      <4>1. \A d \in detached : orch[d.run].asked \notin starts
        BY DEF HydratedOnce
      <4>. QED  BY <1>1, <1>3, <2>1, <2>6, <3>1, <3>2, <4>1
    <3>4. \A d, e \in detached' : d.run = e.run => d = e
      BY <3>1, <3>2 DEF HydratedOnce
    <3>5. ~Shown(s)'
      BY <2>2, <2>5 DEF Shown, Views
    <3>6. poller'.step # "off" => \A d \in detached' : d.run # n
      <4>1. poller'.step # "off" => ~over
        BY <2>3, <2>2, <2>4, <2>5 DEF PollEffect, Idle, Terminal
      <4>. QED  BY <3>1, <3>2, <4>1
    <3>. QED  BY <2>3, <2>5, <3>3, <3>4, <3>5, <3>6 DEF HydratedOnce
  <2>10. Recorded'
    <3>1. ~HasFiles /\ ~HasFiles'
      BY <2>2, <2>5 DEF HasFiles, Views
    <3>2. \A m \in recording' : m = DisplayedRun(s') /\ ArtifactSource(s').files # Null
      <4>1. ASSUME NEW m \in recording'
            PROVE  m = DisplayedRun(s') /\ ArtifactSource(s').files # Null
        <5>1. m = DisplayedRun(s) /\ m = DisplayedRun(s') /\ ArtifactSource(s).files # Null
          BY <2>4 DEF StillRecording, Recorded
        <5>2. s.files = Null /\ s'.files = Null
          BY <2>2, <2>5 DEF Views
        <5>3. ShowingHistoricalArtifacts(s) /\ s.prev # Null /\ m = s.prev.run
          BY <5>1, <5>2 DEF ArtifactSource, DisplayedRun, ShowingHistoricalArtifacts
        <5>4. m # n
          BY <1>3, <2>1, <5>3, CreatedAreNumbers DEF Ordered, Current, HasPrev
        <5>5. ShowingHistoricalArtifacts(s')
          BY <2>5, <5>1, <5>4 DEF DisplayedRun, ArtifactSource
        <5>. QED  BY <2>5, <5>1, <5>3, <5>5 DEF ArtifactSource
      <4>. QED  BY <4>1
    <3>3. history' # Null => history'.current \in Created' /\ history'.current <= s'.prev.run
      BY <1>1, <2>5, <2>6, <3>1 DEF Recorded
    <3>4. HistoryInOrder'
      BY <1>1 DEF Recorded, HistoryInOrder
    <3>. QED  BY <3>1, <3>2, <3>3, <3>4 DEF Recorded
  <2>. QED  BY <2>6, <2>7, <2>8, <2>9, <2>10
<1>. QED  BY <1>2, <1>3

\* The snapshot a start takes: of the current run, or the one there was.
LEMMA SnapshotState ==
  ASSUME IInv, NEW p, p = SnapshotHistoricalRun(s),
         p # Null \/ history # Null \/ HasFiles
  PROVE  /\ p.run \in Created /\ \A v \in Views : ViewOf(p[v], p.run)
         /\ \/ p = s.prev /\ ~HasFiles
            \/ s.run # Null /\ p.run = s.run /\ p.files = s.files
<1>. USE DEF IInv
<1>1. CASE s.run = Null \/ ~Shown(s)
  <2>1. p = s.prev
    BY <1>1 DEF SnapshotHistoricalRun, Shown
  <2>2. ~HasFiles
    BY <1>1 DEF HasFiles, Shown, Current, Views
  <2>. QED  BY <2>1, <2>2 DEF Current, HasPrev
<1>2. CASE s.run # Null /\ Shown(s)
  <2>1. /\ p.run = s.run /\ p.gen = s.gen /\ p.files = s.files /\ p.bt = s.bt /\ p.ev = s.ev
        /\ p.progress = s.progress /\ p.workflow = s.workflow
    BY <1>2 DEF SnapshotHistoricalRun, Shown
  <2>2. \A v \in Views : ViewOf(p[v], p.run)
    BY <2>1 DEF Current, Views
  <2>. QED  BY <1>2, <2>1, <2>2 DEF Current
<1>. QED  BY <1>1, <1>2

\* A new start: the current run becomes the snapshot, and no view is left.
LEMMA StartTransformKeepsInv ==
  ASSUME IInv, StartTransform
  PROVE  IInv'
<1>. USE DEF IInv
<1>. DEFINE p == SnapshotHistoricalRun(s)
<1>1. /\ active' = active + 1 /\ starts' = starts \cup {active + 1}
      /\ s' = [NoRunState EXCEPT !.phase = "starting", !.prev = p]
      /\ poller' = PollEffect(s, s') /\ recording' = StillRecording(recording, s')
      /\ UNCHANGED <<orch, detached, history>>
  BY DEF StartTransform, SetState
<1>2. p # Null \/ history # Null \/ HasFiles =>
         /\ p.run \in Created /\ \A v \in Views : ViewOf(p[v], p.run)
         /\ \/ p = s.prev /\ ~HasFiles
            \/ s.run # Null /\ p.run = s.run /\ p.files = s.files
  BY SnapshotState
<1>. HIDE DEF p
<1>4. /\ DOMAIN s' = DOMAIN NoRunState /\ s'.run = Null /\ s'.prev = p /\ s'.phase = "starting"
      /\ \A v \in Views : s'[v] = Null
  BY <1>1 DEF NoRunState, Views
<1>5. Created' = Created /\ active \in Nat /\ \A n \in Created : orch'[n] = orch[n] /\ orch[n].asked \in 1 .. active
  BY <1>1 DEF Created, Numbered
<1>6. Numbered'
  BY <1>1, <1>5 DEF Numbered
<1>7. Current'
  BY <1>1, <1>2, <1>4, <1>5 DEF Current, ViewOf, HasPrev
<1>8. Ordered'
  BY <1>1, <1>4, <1>5 DEF Ordered
<1>9. HydratedOnce'
  <2>1. poller'.step = "off"
    <3>1. s.run = Null => poller.step = "off"
      BY DEF HydratedOnce
    <3>. QED  BY <1>1, <1>4, <3>1 DEF PollEffect, Idle
  <2>2. ~Shown(s)'
    BY <1>4 DEF Shown, Views
  <2>3. \A d \in detached' : d.run \in Created' /\ orch'[d.run].asked \notin starts'
    BY <1>1, <1>5 DEF HydratedOnce
  <2>. QED  BY <1>1, <2>1, <2>2, <2>3 DEF HydratedOnce
<1>10. Recorded'
  <2>1. ~HasFiles'
    BY <1>4 DEF HasFiles, Views
  <2>2. ASSUME NEW m \in recording'
        PROVE  m = DisplayedRun(s') /\ ArtifactSource(s').files # Null
    <3>1. m = DisplayedRun(s) /\ m = DisplayedRun(s') /\ ArtifactSource(s).files # Null
      BY <1>1 DEF StillRecording, Recorded
    <3>2. p # Null /\ ArtifactSource(s') = p /\ m = p.run
      <4>1. m # Null
        <5>1. s.run # Null => s.run \in Created
          BY DEF Current
        <5>2. s.prev # Null => s.prev.run \in Created
          BY DEF Current, HasPrev
        <5>3. s.files # Null => s.run # Null
          BY DEF Current, Views
        <5>. QED  BY <3>1, <5>1, <5>2, <5>3, CreatedAreNumbers
                  DEF DisplayedRun, ArtifactSource, ShowingHistoricalArtifacts
      <4>. QED  BY <1>4, <3>1, <4>1 DEF DisplayedRun, ArtifactSource, ShowingHistoricalArtifacts, Views
    <3>3. CASE ~ShowingHistoricalArtifacts(s)
      <4>1. s.files # Null /\ HasFiles
        BY <3>1, <3>3 DEF ArtifactSource, HasFiles
      <4>. QED  BY <1>2, <3>1, <3>2, <4>1
    <3>4. CASE ShowingHistoricalArtifacts(s)
      <4>1. HasPrev /\ m = s.prev.run /\ s.prev.files # Null
        BY <3>1, <3>4 DEF ArtifactSource, DisplayedRun, ShowingHistoricalArtifacts, HasPrev
      <4>2. s.run # Null => s.prev.run < s.run /\ s.prev.run \in Nat
        BY <4>1, CreatedAreNumbers DEF Ordered, Current
      <4>3. p = s.prev
        BY <1>2, <3>2, <4>1, <4>2
      <4>. QED  BY <3>1, <3>2, <4>1, <4>3
    <3>. QED  BY <3>3, <3>4
  <2>3. ASSUME history' # Null
        PROVE  history'.current \in Created' /\ history'.current <= s'.prev.run
    <3>1. /\ history.current \in Created
          /\ IF HasFiles THEN history.current <= s.run
             ELSE HasPrev /\ history.current <= s.prev.run
      BY <1>1, <2>3 DEF Recorded, HasPrev
    <3>2. p.run \in Nat /\ history.current \in Nat
      BY <1>1, <1>2, <2>3, <3>1, CreatedAreNumbers
    <3>3. s.run # Null /\ HasPrev => s.prev.run < s.run /\ s.prev.run \in Nat /\ s.run \in Nat
      BY CreatedAreNumbers DEF Ordered, Current
    <3>. QED  BY <1>1, <1>2, <1>4, <1>5, <2>3, <3>1, <3>2, <3>3
  <2>4. HistoryInOrder'
    BY <1>1 DEF Recorded, HistoryInOrder
  <2>. QED  BY <2>1, <2>2, <2>3, <2>4 DEF Recorded
<1>. QED  BY <1>6, <1>7, <1>8, <1>9, <1>10

-----------------------------------------------------------------------------
(* The diff history.                                                        *)

LEMMA FileShownKeepsInv ==
  ASSUME IInv, FileShown
  PROVE  IInv'
<1>. USE DEF IInv
<1>1. /\ ArtifactSource(s).files # Null /\ recording' = recording \cup {DisplayedRun(s)}
      /\ UNCHANGED <<orch, s, active, starts, poller, detached, history>>
  BY DEF FileShown
<1>2. Created' = Created
  BY <1>1 DEF Created
<1>3. Numbered' /\ Current' /\ Ordered' /\ HydratedOnce'
  BY <1>1, <1>2 DEF Numbered, Current, Ordered, HydratedOnce, HasPrev, HasFiles, Shown
<1>4. Recorded'
  BY <1>1, <1>2 DEF Recorded, HasFiles, HistoryInOrder
<1>. QED  BY <1>3, <1>4

\* The hash that is computed is of the run on show, which no recorded run is
\* newer than.
LEMMA HashComputedKeepsInv ==
  ASSUME IInv, NEW n \in recording, HashComputed(n)
  PROVE  IInv'
<1>. USE DEF IInv
<1>1. /\ recording' = recording \ {n} /\ history' = AppendJavaSnapshot(history, n)
      /\ UNCHANGED <<orch, s, active, starts, poller, detached>>
  BY DEF HashComputed
<1>2. Created' = Created
  BY <1>1 DEF Created
<1>3. n = DisplayedRun(s) /\ ArtifactSource(s).files # Null
  BY DEF Recorded
<1>4. \/ HasFiles /\ n = s.run
      \/ ~HasFiles /\ s.prev # Null /\ n = s.prev.run
  BY <1>3 DEF ArtifactSource, DisplayedRun, ShowingHistoricalArtifacts, HasFiles
<1>5. n \in Created
  BY <1>4 DEF Current, HasFiles, HasPrev, Views
<1>6. history # Null => history.current \in Created /\ history.current <= n
  BY <1>4 DEF Recorded
<1>7. history'.current = n
  BY <1>1 DEF AppendJavaSnapshot
<1>8. history'.previous # Null => history'.previous < history'.current
  <2>1. CASE history = Null
    BY <1>1, <2>1 DEF AppendJavaSnapshot
  <2>2. CASE history # Null /\ history.current = n
    BY <1>1, <2>2 DEF AppendJavaSnapshot, Recorded, HistoryInOrder
  <2>3. CASE history # Null /\ history.current # n
    <3>1. history' = [previous |-> history.current, current |-> n]
      BY <1>1, <2>3 DEF AppendJavaSnapshot
    <3>. QED  BY <1>5, <1>6, <2>3, <3>1, CreatedAreNumbers
  <2>. QED  BY <2>1, <2>2, <2>3
<1>9. HasPrev' => HasPrev
  BY <1>1, <1>4 DEF HasPrev, HasFiles
<1>10. Numbered' /\ Current' /\ Ordered' /\ HydratedOnce'
  BY <1>1, <1>2, <1>9 DEF Numbered, Current, Ordered, HydratedOnce, Shown
<1>11. Recorded'
  <2>1. \A m \in recording' : m = DisplayedRun(s') /\ ArtifactSource(s').files # Null
    BY <1>1 DEF Recorded
  <2>2. IF HasFiles' THEN n <= s'.run ELSE n <= s'.prev.run
    BY <1>1, <1>4, <1>5, CreatedAreNumbers DEF HasFiles
  <2>. QED  BY <1>2, <1>5, <1>7, <1>8, <2>1, <2>2 DEF Recorded, HistoryInOrder
<1>. QED  BY <1>10, <1>11

-----------------------------------------------------------------------------
(* The theorems.                                                            *)

LEMMA InitInv == Init => IInv
<1>. SUFFICES ASSUME Init PROVE IInv
  OBVIOUS
<1>1. /\ DOMAIN orch = Runs /\ \A n \in Runs : orch[n] = [status |-> "none", art |-> Null, asked |-> 0]
      /\ s = NoRunState /\ active = 0 /\ starts = {} /\ poller = Idle /\ detached = {}
      /\ recording = {} /\ history = Null
  BY DEF Init
<1>2. Created = {}
  BY <1>1 DEF Created
<1>3. Numbered
  <2>1. Cardinality(Created) = 0
    BY <1>2, FS_EmptySet
  <2>2. Created = 1 .. Cardinality(Created)
    BY <1>2, <2>1
  <2>. QED  BY <1>1, <1>2, <2>2 DEF Numbered
<1>4. Current /\ Ordered
  BY <1>1 DEF Current, Ordered, HasPrev, NoRunState, Views, ViewOf
<1>5. HydratedOnce /\ Recorded
  BY <1>1 DEF HydratedOnce, Recorded, HistoryInOrder, NoRunState, Shown, Idle
<1>. QED  BY <1>3, <1>4, <1>5 DEF IInv

LEMMA NextKeepsInv == IInv /\ [Next]_vars => IInv'
<1>. SUFFICES ASSUME IInv, [Next]_vars PROVE IInv'
  OBVIOUS
<1>1. CASE StartTransform \/ StartGenerate
  BY <1>1, StartTransformKeepsInv DEF StartGenerate
<1>2. CASE Backend
  <2>1. CASE \E q \in starts, error \in {"503", "400"} : StartFails(q, error)
    BY <2>1, StartFailsKeepsInv
  <2>2. CASE \E q \in starts : StartAnswered(q)
    BY <2>2, StartAnsweredKeepsInv
  <2>. QED  BY <1>2, <2>1, <2>2, BackendKeepsInv DEF Backend
<1>3. CASE Polling
  BY <1>3, PollKeepsInv, HydrationKeepsInv DEF Polling
<1>4. CASE Answers
  <2>1. CASE \/ \E current, previous \in Outages : ExplanationAnswered(current, previous)
             \/ ExplanationFails
    <3>1. UNCHANGED <<orch, s, active, starts, poller, detached, recording, history>>
      BY <2>1 DEF ExplanationAnswered, ExplanationFails
    <3>. QED  BY <3>1, StillNumbered, StillKeepsInv
  <2>. QED  BY <1>4, <2>1, AnswersKeepInv DEF Answers
<1>5. CASE FileShown \/ \E n \in recording : HashComputed(n)
  BY <1>5, FileShownKeepsInv, HashComputedKeepsInv
<1>6. CASE \/ ExportParityEvidenceScaffold \/ SubmitIntentionalDivergenceDecision
           \/ AskExplanation \/ UNCHANGED vars
  <2>1. UNCHANGED <<orch, s, active, starts, poller, detached, recording, history>>
    BY <1>6 DEF ExportParityEvidenceScaffold, SubmitIntentionalDivergenceDecision, SendCall,
                AskExplanation, vars
  <2>. QED  BY <2>1, StillNumbered, StillKeepsInv
<1>. QED  BY <1>1, <1>2, <1>3, <1>4, <1>5, <1>6 DEF Next

\* The run store keeps its runs apart: the views of a run stay with its number,
\* in the state and in the snapshot (transformationRun.tsx).
THEOREM Invariance == Spec => []IInv
<1>. QED  BY InitInv, NextKeepsInv, PTL DEF Spec

\* No hydration, however late and by whatever promise, puts a view of one run
\* into the state or the snapshot of another: hydrateRunArtifacts compares the
\* run again, and startTransform takes run and views along together
\* (transformationRun.tsx).
THEOREM ViewsAreTheRuns == Spec => []ViewsBelongToTheRun
<1>1. IInv => ViewsBelongToTheRun
  BY DEF IInv, Current, ViewOf, ViewsBelongToTheRun, HasPrev
<1>. QED  BY <1>1, Invariance, PTL

\* The diff history never puts a newer run before an older one, since a late
\* hash is dropped with the run it was started for (appendJavaSnapshot of
\* diffHistory.ts).
THEOREM HistoryStaysInOrder == Spec => []HistoryInOrder
<1>1. IInv => HistoryInOrder
  BY DEF IInv, Recorded
<1>. QED  BY <1>1, Invariance, PTL

-----------------------------------------------------------------------------
(* What the views say of their run.                                         *)

\* What the orchestrator holds of a run: no verdict before its end, and what
\* a success rests on.
Held(r) ==
    /\ DOMAIN r.art = DOMAIN AtWork /\ DOMAIN r.art.workflow = DOMAIN AtWork.workflow
    /\ r.status \notin Terminal => r.art.workflow.final = Null
    /\ r.status = "completed" => r.art.gen # Unserved
    /\ r.art.workflow.final = "success" =>
          /\ r.art.gen.missing = {} /\ r.art.gen.ref # Null
          /\ r.art.bt.status = "ok" /\ r.art.bt.classification = "match"

\* What is kept of a run r, as state or as snapshot, is no better than r.
FinalOf(v, r) == v # Null => "final" \in DOMAIN v /\ v.final \in {Null, r.art.workflow.final}
GenOf(v, r) ==
    v # Null => /\ r.status \in Terminal /\ v.artifactRef = r.art.gen.ref
                /\ v.status \notin {"unsupported", "incomplete"} /\ r.art.gen.missing = {} =>
                      ~r.art.gen.placeholder
BtOf(v, r) ==
    v # Null => /\ r.status \in Terminal /\ v.generatedArtifactRef = r.art.bt.ref
                /\ v.status = "ok" => r.art.bt.missing = {}
EvOf(v, r) ==
    v # Null => /\ r.status \in Terminal /\ {"status", "generatedArtifactRef"} \subseteq DOMAIN v
                /\ v.generatedArtifactRef = r.art.ev.ref
                /\ v.status = "complete" => r.art.ev.missing = {}
Faithful(t, r) ==
    /\ FinalOf(t.summary, r) /\ FinalOf(t.workflow, r)
    /\ GenOf(t.gen, r) /\ BtOf(t.bt, r) /\ EvOf(t.ev, r)

\* The views are fetched once the run is over, and say what it holds.
Genuine ==
    /\ \A n \in Created : Held(orch[n])
    /\ s.run # Null => Faithful(s, orch[s.run])
    /\ s.prev # Null => Faithful(s.prev, orch[s.prev.run])
    /\ poller.step = "hydrating" => orch[s.run].status \in Terminal
    /\ \A d \in detached : orch[d.run].status \in Terminal

\* What the BFF makes of a finished run, and the Studio accepts, says what the
\* orchestrator holds of it.
LEMMA ViewsAreFaithful ==
  ASSUME NEW n, NEW outage
  PROVE  /\ FinalOf(SummaryOf(n), orch[n]) /\ FinalOf(WorkflowOf(n, outage), orch[n])
         /\ orch[n].status \in Terminal => /\ GenOf(GeneratedOf(n, outage), orch[n])
                                           /\ BtOf(BuildTestOf(n, outage), orch[n])
                                           /\ EvOf(EvidenceOf(n, outage), orch[n])
<1>1. FinalOf(SummaryOf(n), orch[n])
  BY DEF FinalOf, SummaryOf
<1>2. FinalOf(WorkflowOf(n, outage), orch[n])
  BY DEF FinalOf, WorkflowOf, Accepted, WorkflowView, WorkflowEnvelope, EmptyWorkflowSnapshot, Served
<1>3. ASSUME orch[n].status \in Terminal PROVE GenOf(GeneratedOf(n, outage), orch[n])
  <2>. DEFINE up == Served(n, "gen", outage)
              v == LiveGeneratedView(Stored(n), up)
  <2>. SUFFICES ASSUME GeneratedOf(n, outage) # Null PROVE GenOf(v, orch[n])
    BY DEF GenOf, GeneratedOf, Accepted
  <2>1. IsGeneratedView(v)
    BY DEF GeneratedOf, Accepted
  <2>2. up # Unserved
    BY <2>1 DEF IsGeneratedView, LiveGeneratedView, IncompleteGeneratedView
  <2>3. up = orch[n].art.gen
    BY <2>2 DEF Served
  <2>. HIDE DEF up
  <2>4. v.artifactRef = up.ref /\ (up.missing = {} /\ up.placeholder => v.status = "incomplete")
    BY <2>2 DEF LiveGeneratedView, ClassifyGeneratedStatus
  <2>. QED  BY <1>3, <2>3, <2>4 DEF GenOf
<1>4. ASSUME orch[n].status \in Terminal PROVE BtOf(BuildTestOf(n, outage), orch[n])
  <2>. DEFINE up == Served(n, "bt", outage)
              v == LiveBuildTestView(Stored(n), up, <<>>)
  <2>. SUFFICES ASSUME BuildTestOf(n, outage) # Null PROVE BtOf(v, orch[n])
    BY DEF BtOf, BuildTestOf, Accepted
  <2>1. IsBuildTestView(v)
    BY DEF BuildTestOf, Accepted
  <2>2. up # Unserved
    BY <2>1 DEF IsBuildTestView, LiveBuildTestView
  <2>3. up = orch[n].art.bt
    BY <2>2 DEF Served
  <2>. HIDE DEF up
  <2>4. v.generatedArtifactRef = up.ref /\ (v.status = "ok" => up.missing = {})
    BY <2>2 DEF LiveBuildTestView, ClassifyBuildTestStatus
  <2>. QED  BY <1>4, <2>3, <2>4 DEF BtOf
<1>5. ASSUME orch[n].status \in Terminal PROVE EvOf(EvidenceOf(n, outage), orch[n])
  <2>. DEFINE up == Served(n, "ev", outage)
              v == LiveEvidenceView(Stored(n), up)
  <2>. SUFFICES ASSUME EvidenceOf(n, outage) # Null PROVE EvOf(v, orch[n])
    BY DEF EvOf, EvidenceOf, Accepted
  <2>1. IsEvidenceView(v)
    BY DEF EvidenceOf, Accepted
  <2>2. up # Unserved
    BY <2>1 DEF IsEvidenceView, LiveEvidenceView
  <2>3. up = orch[n].art.ev
    BY <2>2 DEF Served
  <2>. HIDE DEF up
  <2>4. /\ {"status", "generatedArtifactRef"} \subseteq DOMAIN v
        /\ v.generatedArtifactRef = up.ref /\ (v.status = "complete" => up.missing = {})
    BY <2>2 DEF LiveEvidenceView
  <2>. QED  BY <1>5, <2>3, <2>4 DEF EvOf
<1>. QED  BY <1>1, <1>2, <1>3, <1>4, <1>5

\* What the orchestrator holds of a finished run stays; of a run at work there
\* is no verdict yet.
Grows(r, q) ==
    /\ r.status \in Terminal => /\ q.status = r.status /\ q.art.gen = r.art.gen
                                /\ q.art.bt = r.art.bt /\ q.art.ev = r.art.ev
                                /\ q.art.workflow.final = r.art.workflow.final
OrchGrows ==
    /\ \A n \in Created : n \in Created' /\ Grows(orch[n], orch'[n])
    /\ \A n \in Created' : Held(orch'[n])

LEMMA FaithfulGrows ==
  ASSUME NEW t, NEW r, NEW q, Faithful(t, r), Held(r), Grows(r, q)
  PROVE  Faithful(t, q)
<1>1. CASE r.status \in Terminal
  BY <1>1 DEF Faithful, FinalOf, GenOf, BtOf, EvOf, Grows
<1>2. CASE r.status \notin Terminal
  <2>1. \A v : FinalOf(v, r) => FinalOf(v, q)
    BY <1>2 DEF FinalOf, Held
  <2>. QED  BY <1>2, <2>1 DEF Faithful, GenOf, BtOf, EvOf
<1>. QED  BY <1>1, <1>2

\* A step that keeps the current run and the snapshot.
LEMMA GenuineKept ==
  ASSUME IInv, Genuine, OrchGrows, s'.run = s.run, s'.prev = s.prev,
         s.run # Null => Faithful(s', orch[s.run]),
         poller'.step = "hydrating" => s.run # Null /\ orch[s.run].status \in Terminal,
         detached' \subseteq detached
  PROVE  Genuine'
<1>. USE DEF IInv
<1>1. ASSUME s.run # Null
      PROVE  s.run \in Created /\ Held(orch[s.run]) /\ Grows(orch[s.run], orch'[s.run])
  BY <1>1 DEF Current, Genuine, OrchGrows
<1>2. ASSUME s.prev # Null
      PROVE  s.prev.run \in Created /\ Held(orch[s.prev.run]) /\ Grows(orch[s.prev.run], orch'[s.prev.run])
  BY <1>2 DEF Current, Genuine, OrchGrows, HasPrev
<1>3. s'.run # Null => Faithful(s', orch'[s'.run])
  BY <1>1, FaithfulGrows
<1>4. s'.prev # Null => Faithful(s'.prev, orch'[s'.prev.run])
  BY <1>2, FaithfulGrows DEF Genuine
<1>5. poller'.step = "hydrating" => orch'[s'.run].status \in Terminal
  BY <1>1 DEF Grows
<1>6. \A d \in detached' : orch'[d.run].status \in Terminal
  BY DEF HydratedOnce, Genuine, OrchGrows, Grows
<1>. QED  BY <1>3, <1>4, <1>5, <1>6 DEF Genuine, OrchGrows

LEMMA OrchStays ==
  ASSUME Genuine, orch' = orch
  PROVE  OrchGrows
<1>1. Created' = Created
  BY DEF Created
<1>. QED  BY <1>1 DEF Genuine, OrchGrows, Grows

\* A step that leaves the store and the loop alone.
LEMMA StillGenuine ==
  ASSUME IInv, Genuine, OrchGrows, UNCHANGED <<s, poller>>, detached' \subseteq detached
  PROVE  Genuine'
<1>1. s.run # Null => Faithful(s', orch[s.run])
  BY DEF Genuine
<1>2. poller'.step = "hydrating" => s.run # Null /\ orch[s.run].status \in Terminal
  BY DEF Genuine, IInv, HydratedOnce
<1>. QED  BY <1>1, <1>2, GenuineKept

\* What the backend does of itself only adds to what it holds.
LEMMA BackendStartsGrows ==
  ASSUME IInv, Genuine, NEW q \in starts, BackendStarts(q)
  PROVE  OrchGrows
<1>. USE DEF IInv
<1>0. DOMAIN orch = Runs /\ \A m \in Runs : DOMAIN orch[m] = {"status", "art", "asked"}
  BY DEF Numbered
<1>1. orch' = [orch EXCEPT ![NextRun] = [status |-> "updating", art |-> AtWork, asked |-> q]]
  BY DEF BackendStarts
<1>2. NextRun \notin Created
  BY NextRunIsNew
<1>. DEFINE new == NextRun
<1>3. Held([status |-> "updating", art |-> AtWork, asked |-> q])
  <2>1. AtWork.workflow.final = Null
    BY DEF AtWork, EmptyWorkflowSnapshot
  <2>2. Null # "success"
    BY NullAssumption
  <2>. QED  BY <2>1, <2>2 DEF Held, Terminal
<1>4. \A m \in Runs : orch'[m] = IF m = new THEN [status |-> "updating", art |-> AtWork, asked |-> q] ELSE orch[m]
  BY <1>0, <1>1
<1>. HIDE DEF new
<1>5. \A n \in Created : n \in Created' /\ orch'[n] = orch[n]
  BY <1>2, <1>4 DEF Created, new
<1>6. \A n \in Created' : n = new \/ n \in Created
  BY <1>4 DEF Created
<1>7. OrchGrows
  BY <1>3, <1>4, <1>5, <1>6 DEF OrchGrows, Genuine, Grows, Created
<1>. QED  BY <1>7

LEMMA OrchestratorFinishesGrows ==
  ASSUME IInv, Genuine, NEW n \in Created, NEW outcome \in Outcomes[n],
         OrchestratorFinishes(n, outcome)
  PROVE  OrchGrows
<1>. USE DEF IInv
<1>0. DOMAIN orch = Runs /\ \A m \in Runs : DOMAIN orch[m] = {"status", "art", "asked"}
  BY DEF Numbered
<1>2. /\ orch[n].status = "updating"
      /\ orch' = [orch EXCEPT ![n].status = outcome.status, ![n].art = outcome.art]
  BY DEF OrchestratorFinishes
<1>3. n \in Runs
  BY DEF Created
<1>4. \A m \in Runs : m # n => orch'[m] = orch[m]
  BY <1>0, <1>2
<1>5. orch'[n].status = outcome.status /\ orch'[n].art = outcome.art
  BY <1>0, <1>2, <1>3
<1>6. Held(orch'[n])
  BY <1>3, <1>5, OutcomeAssumption, SuccessAssumption DEF Held
<1>7. Grows(orch[n], orch'[n])
  BY <1>2 DEF Grows, Terminal
<1>8. Created' \subseteq Created /\ Created \subseteq Created'
  <2>1. outcome.status # "none"
    BY <1>3, OutcomeAssumption DEF Terminal
  <2>2. DOMAIN orch' = Runs
    BY <1>0, <1>2
  <2>. QED  BY <1>3, <1>4, <1>5, <2>1 DEF Created
<1>9. OrchGrows
  <2>1. \A m \in Created : m # n => orch'[m] = orch[m]
    BY <1>4 DEF Created
  <2>. QED  BY <1>6, <1>7, <1>8, <2>1 DEF OrchGrows, Genuine, Grows
<1>. QED  BY <1>9

\* A decision changes the trust of a run and nothing that success rests on.
LEMMA DecisionGrows ==
  ASSUME IInv, Genuine, NEW n, NEW trust,
         orch' = [orch EXCEPT ![n].art.stored.trust = trust, ![n].art.workflow.trust = trust]
  PROVE  OrchGrows
<1>1. DOMAIN orch = Runs /\ \A m \in Runs : DOMAIN orch[m] = {"status", "art", "asked"}
  BY DEF IInv, Numbered
<1>2. DOMAIN AtWork = {"stored", "gen", "files", "bt", "ev", "artifacts", "progress", "workflow"}
  BY DEF AtWork
<1>3. DOMAIN AtWork.workflow = {"final", "failure", "agent", "repairs", "trust"}
  BY DEF AtWork, EmptyWorkflowSnapshot
<1>4. /\ DOMAIN orch' = Runs
      /\ \A m \in Runs : m # n => orch'[m] = orch[m]
  BY <1>1
<1>5. ASSUME n \in Created
      PROVE  /\ orch'[n].status = orch[n].status
             /\ DOMAIN orch'[n].art = DOMAIN orch[n].art
             /\ orch'[n].art.gen = orch[n].art.gen /\ orch'[n].art.bt = orch[n].art.bt
             /\ orch'[n].art.ev = orch[n].art.ev
             /\ orch'[n].art.workflow = [orch[n].art.workflow EXCEPT !.trust = trust]
  <2>1. n \in Runs /\ DOMAIN orch[n].art = DOMAIN AtWork
    BY <1>5 DEF Created, Genuine, Held
  <2>2. /\ orch'[n].status = orch[n].status
        /\ orch'[n].art = [[orch[n].art EXCEPT !.stored.trust = trust] EXCEPT !.workflow.trust = trust]
    BY <1>1, <2>1
  <2>. DEFINE a == orch[n].art
              b == [a EXCEPT !.stored.trust = trust]
              c == [b EXCEPT !.workflow.trust = trust]
  <2>3. DOMAIN a = {"stored", "gen", "files", "bt", "ev", "artifacts", "progress", "workflow"}
    BY <1>2, <2>1
  <2>4. /\ DOMAIN b = DOMAIN a /\ b.gen = a.gen /\ b.bt = a.bt /\ b.ev = a.ev
        /\ b.workflow = a.workflow
    BY <2>3
  <2>. HIDE DEF a, b
  <2>5. /\ DOMAIN c = DOMAIN b /\ c.gen = b.gen /\ c.bt = b.bt /\ c.ev = b.ev
        /\ c.workflow = [b.workflow EXCEPT !.trust = trust]
    BY <2>3, <2>4
  <2>. QED  BY <2>2, <2>4, <2>5 DEF a, b
<1>6. ASSUME n \in Created
      PROVE  /\ DOMAIN orch'[n].art.workflow = DOMAIN orch[n].art.workflow
             /\ orch'[n].art.workflow.final = orch[n].art.workflow.final
  <2>1. DOMAIN orch[n].art.workflow = DOMAIN AtWork.workflow
    BY <1>6 DEF Genuine, Held
  <2>. QED  BY <1>3, <1>5, <1>6, <2>1
<1>7. \A m \in Created : m # n => orch'[m] = orch[m]
  BY <1>4 DEF Created
<1>8. Created' = Created
  <2>1. n \in Runs => orch'[n].status = orch[n].status
    BY <1>1
  <2>. QED  BY <1>4, <2>1 DEF Created
<1>9. \A m \in Created : Grows(orch[m], orch'[m])
  BY <1>5, <1>6, <1>7 DEF Grows
<1>10. \A m \in Created : Held(orch'[m])
  <2>1. n \in Created => Held(orch'[n])
    <3>1. n \in Created => Held(orch[n])
      BY DEF Genuine
    <3>. QED  BY <1>5, <1>6, <3>1 DEF Held
  <2>. QED  BY <1>7, <2>1 DEF Genuine
<1>. QED  BY <1>8, <1>9, <1>10 DEF OrchGrows

LEMMA AnswersGrow ==
  ASSUME IInv, Genuine, NEW call \in calls,
         ExportAnswered(call) \/ DecisionAnswered(call) \/ CallFails(call)
  PROVE  OrchGrows
<1>1. orch' = orch \/ \E n, trust :
        orch' = [orch EXCEPT ![n].art.stored.trust = trust, ![n].art.workflow.trust = trust]
  BY DEF ExportAnswered, DecisionAnswered, CallFails
<1>. QED  BY <1>1, OrchStays, DecisionGrows

LEMMA AnswersGenuine ==
  ASSUME IInv, Genuine, NEW call \in calls,
         ExportAnswered(call) \/ DecisionAnswered(call) \/ CallFails(call)
  PROVE  Genuine'
<1>. USE DEF IInv
<1>1. detached' = detached
  BY DEF ExportAnswered, DecisionAnswered, CallFails, CallAnswered
<1>2. OrchGrows
  BY AnswersGrow
<1>3. CASE call.run # s.run
  <2>1. UNCHANGED <<s, poller>>
    BY <1>3 DEF ExportAnswered, DecisionAnswered, CallFails, CallAnswered
  <2>. QED  BY <1>1, <1>2, <2>1, StillGenuine
<1>4. CASE call.run = s.run
  <2>1. DOMAIN s = DOMAIN NoRunState
    BY DEF Current
  <2>2. /\ s'.run = s.run /\ s'.prev = s.prev /\ s'.phase = s.phase
        /\ s'.gen = s.gen /\ s'.bt = s.bt
        /\ s'.ev = s.ev \/ (s.ev # Null /\ s'.ev = [s.ev EXCEPT !.exportRef = "scaffold"])
        /\ s'.summary = s.summary \/
             \E trust : s.summary # Null /\ s'.summary = [s.summary EXCEPT !.trust = trust]
        /\ s'.workflow = s.workflow \/
             \E trust : s.workflow # Null /\ s'.workflow = [s.workflow EXCEPT !.trust = trust]
    <3>1. CASE ExportAnswered(call)
      <4>1. s' = s \/ (s.ev # Null /\ s' = [s EXCEPT !.ev.exportRef = "scaffold"])
        BY <1>4, <3>1 DEF ExportAnswered, CallAnswered, SetState
      <4>. QED  BY <2>1, <4>1 DEF NoRunState
    <3>2. CASE DecisionAnswered(call)
      <4>. DEFINE trust == "intentional_divergence"
                  known == IF s.summary = Null THEN s ELSE [s EXCEPT !.summary.trust = trust]
      <4>1. s' = IF s.workflow = Null THEN known ELSE [known EXCEPT !.workflow.trust = trust]
        BY <1>4, <3>2 DEF DecisionAnswered, CallAnswered, SetState
      <4>2. /\ DOMAIN known = DOMAIN NoRunState /\ known.run = s.run /\ known.prev = s.prev
            /\ known.phase = s.phase /\ known.workflow = s.workflow
            /\ known.gen = s.gen /\ known.bt = s.bt /\ known.ev = s.ev
            /\ known.summary = s.summary \/
                 (s.summary # Null /\ known.summary = [s.summary EXCEPT !.trust = trust])
        BY <2>1 DEF NoRunState
      <4>. HIDE DEF known
      <4>. QED  BY <4>1, <4>2 DEF NoRunState
    <3>3. CASE CallFails(call)
      BY <1>4, <3>3 DEF CallFails, CallAnswered, SetState
    <3>. QED  BY <3>1, <3>2, <3>3
  <2>3. ASSUME s.run # Null PROVE Faithful(s', orch[s.run])
    <3>. DEFINE r == orch[s.run]
    <3>1. Faithful(s, r)
      BY <2>3 DEF Genuine
    <3>. HIDE DEF r
    <3>2. FinalOf(s'.summary, r) /\ FinalOf(s'.workflow, r)
      BY <2>2, <3>1 DEF Faithful, FinalOf
    <3>3. EvOf(s'.ev, r)
      BY <2>2, <3>1 DEF Faithful, EvOf
    <3>. QED  BY <2>2, <3>1, <3>2, <3>3 DEF Faithful, r
  <2>4. poller' = poller
    BY <1>4, <2>2 DEF ExportAnswered, DecisionAnswered, CallFails, CallAnswered, SetState, PollEffect
  <2>5. poller'.step = "hydrating" => s.run # Null /\ orch[s.run].status \in Terminal
    BY <2>4 DEF Genuine, HydratedOnce
  <2>. QED  BY <1>1, <1>2, <2>2, <2>3, <2>5, GenuineKept
<1>. QED  BY <1>3, <1>4

\* The views of a hydration are those of the finished run.
LEMMA HydratedFaithful ==
  ASSUME Current, s.run # Null, NEW outage, NEW terminal, NEW u,
         orch[s.run].status \in Terminal, Faithful(s, orch[s.run]),
         u = HydrateRunArtifacts(s, s.run, terminal, outage)
  PROVE  u.run = s.run /\ u.prev = s.prev /\ Faithful(u, orch[s.run])
<1>. DEFINE gen == GeneratedOf(s.run, outage)
            files == FilesOf(s.run, outage)
            bt == BuildTestOf(s.run, outage)
            ev == EvidenceOf(s.run, outage)
            arts == ArtifactsOf(s.run, outage)
            phase == HydratedPhase(s, terminal, {gen, files, bt, ev})
            h == HydrateRunObservability(s, s.run, outage)
            r == orch[s.run]
<1>1. DOMAIN s = DOMAIN NoRunState
  BY DEF Current
<1>2. u = [h EXCEPT !.gen = gen, !.files = files, !.bt = bt, !.ev = ev,
                    !.artifacts = IF arts = Absent THEN Null ELSE arts,
                    !.artifactsError = arts = Absent, !.phase = phase]
  BY DEF HydrateRunArtifacts, HydratedViews
<1>3. /\ h.run = s.run /\ h.prev = s.prev /\ DOMAIN h = DOMAIN NoRunState
      /\ h.summary = s.summary /\ h.workflow = Or(WorkflowOf(s.run, outage), s.workflow)
  BY <1>1 DEF HydrateRunObservability, NoRunState
<1>4. /\ GenOf(gen, r) /\ BtOf(bt, r) /\ EvOf(ev, r) /\ FinalOf(WorkflowOf(s.run, outage), r)
  BY ViewsAreFaithful
<1>. HIDE DEF h, gen, files, bt, ev, arts, phase, r
<1>5. /\ u.run = h.run /\ u.prev = h.prev /\ u.gen = gen /\ u.bt = bt /\ u.ev = ev
      /\ u.summary = h.summary /\ u.workflow = h.workflow
  BY <1>2, <1>3 DEF NoRunState
<1>6. FinalOf(s.summary, r) /\ FinalOf(s.workflow, r)
  BY DEF Faithful, r
<1>7. FinalOf(u.workflow, r)
  BY <1>3, <1>4, <1>5, <1>6 DEF Or
<1>8. Faithful(u, r)
  BY <1>3, <1>4, <1>5, <1>6, <1>7 DEF Faithful
<1>. QED  BY <1>3, <1>5, <1>8 DEF r

\* A step of the loop: a summary, the progress, or the views once the run is
\* over.
LEMMA PollGenuine ==
  ASSUME IInv, Genuine,
         \/ PollUnavailable \/ PollFails \/ Timer
         \/ \E fresh \in BOOLEAN : PollAnswered(fresh)
         \/ \E outage \in Outages : Observed(outage)
         \/ \E outage \in Outages : Hydrated(outage)
  PROVE  Genuine'
<1>. USE DEF IInv
<1>. DEFINE r == orch[s.run]
<1>1. DOMAIN s = DOMAIN NoRunState
  BY DEF Current
<1>2. orch' = orch /\ detached' = detached /\ poller.step # "off"
  BY DEF PollUnavailable, PollFails, Timer, PollAnswered, Observed, Hydrated, PollStep, PollEnds
<1>3. s.run # Null /\ OrchGrows /\ Faithful(s, r)
  BY <1>2, OrchStays DEF HydratedOnce, Genuine
<1>. HIDE DEF r
<1>4. CASE PollUnavailable \/ PollFails \/ Timer
  <2>1. /\ s' = s \/ \E phase : s' = [s EXCEPT !.phase = phase, !.error = "other"]
        /\ poller'.step # "hydrating"
    <3>1. CASE PollUnavailable
      BY <3>1 DEF PollUnavailable, PollEnds, Idle
    <3>2. CASE PollFails
      <4>1. CASE poller.errors < MaxErrors
        <5>1. PollStep([from |-> "asking", to |-> "waiting"], poller.errors + 1, s)
          BY <3>2, <4>1 DEF PollFails
        <5>2. s' = s
          BY <5>1 DEF PollStep
        <5>3. poller' = [step |-> "waiting", errors |-> poller.errors + 1]
          BY <5>1 DEF PollStep
        <5>4. poller'.step = "waiting"
          BY <5>3
        <5>. QED  BY <5>2, <5>4
      <4>2. CASE ~(poller.errors < MaxErrors)
        <5>1. PollEnds("asking", [s EXCEPT !.phase = "failed", !.error = "other"])
          BY <3>2, <4>2 DEF PollFails
        <5>. QED  BY <5>1 DEF PollEnds, Idle
      <4>. QED  BY <4>1, <4>2
    <3>3. CASE Timer
      BY <3>3 DEF Timer, PollStep
    <3>. QED  BY <1>4, <3>1, <3>2, <3>3
  <2>2. s'.run = s.run /\ s'.prev = s.prev /\ Faithful(s', r)
    BY <1>1, <1>3, <2>1 DEF Faithful, NoRunState
  <2>. QED  BY <1>2, <1>3, <2>1, <2>2, GenuineKept DEF r
<1>5. CASE \E fresh \in BOOLEAN : PollAnswered(fresh)
  <2>1. PICK fresh \in BOOLEAN : PollAnswered(fresh)
    BY <1>5
  <2>. DEFINE t == IF fresh THEN SummaryOf(s.run)
                   ELSE [SummaryOf(s.run) EXCEPT !.status = "updating", !.final = Null,
                                                 !.failure = Null]
  <2>2. /\ s' = [s EXCEPT !.summary = t]
        /\ poller'.step = "hydrating" => r.status \in Terminal
    BY <2>1 DEF PollAnswered, PollStep, r
  <2>3. FinalOf(t, r)
    BY DEF SummaryOf, FinalOf, r
  <2>. HIDE DEF t
  <2>4. s'.run = s.run /\ s'.prev = s.prev /\ Faithful(s', r)
    BY <1>1, <1>3, <2>2, <2>3 DEF Faithful, NoRunState
  <2>. QED  BY <1>2, <1>3, <2>2, <2>4, GenuineKept DEF r
<1>6. CASE \E outage \in Outages : Observed(outage)
  <2>1. PICK outage \in Outages : s' = HydrateRunObservability(s, s.run, outage)
    BY <1>6 DEF Observed, PollStep
  <2>2. poller'.step # "hydrating"
    BY <1>6 DEF Observed, PollStep
  <2>3. /\ s'.run = s.run /\ s'.prev = s.prev
        /\ s'.gen = s.gen /\ s'.bt = s.bt /\ s'.ev = s.ev /\ s'.summary = s.summary
        /\ s'.workflow = Or(WorkflowOf(s.run, outage), s.workflow)
    BY <1>1, <2>1 DEF HydrateRunObservability, NoRunState
  <2>4. FinalOf(WorkflowOf(s.run, outage), r)
    BY ViewsAreFaithful DEF r
  <2>5. Faithful(s', r)
    BY <1>3, <2>3, <2>4 DEF Faithful, Or
  <2>. QED  BY <1>2, <1>3, <2>2, <2>3, <2>5, GenuineKept DEF r
<1>7. CASE \E outage \in Outages : Hydrated(outage)
  <2>1. PICK outage \in Outages : Hydrated(outage)
    BY <1>7
  <2>2. /\ s' = HydrateRunArtifacts(s, s.run, s.summary.status, outage)
        /\ poller.step = "hydrating" /\ poller'.step # "hydrating"
    BY <2>1 DEF Hydrated, PollEnds, Idle
  <2>3. r.status \in Terminal
    BY <2>2 DEF Genuine, r
  <2>4. s'.run = s.run /\ s'.prev = s.prev /\ Faithful(s', r)
    BY <1>3, <2>2, <2>3, HydratedFaithful DEF r
  <2>. QED  BY <1>2, <1>3, <2>2, <2>4, GenuineKept DEF r
<1>. QED  BY <1>4, <1>5, <1>6, <1>7

LEMMA DetachedGenuine ==
  ASSUME IInv, Genuine, NEW d \in detached, NEW outage, DetachedHydrated(d, outage)
  PROVE  Genuine'
<1>. USE DEF IInv
<1>1. /\ orch' = orch /\ detached' \subseteq detached
      /\ s' = HydrateRunArtifacts(s, d.run, d.terminal, outage) /\ poller' = PollEffect(s, s')
  BY DEF DetachedHydrated, SetState
<1>2. OrchGrows
  BY <1>1, OrchStays
<1>3. CASE d.run # s.run
  <2>1. s' = s
    BY <1>1, <1>3 DEF HydrateRunArtifacts
  <2>2. poller' = poller
    BY <1>1, <2>1 DEF PollEffect
  <2>. QED  BY <1>1, <1>2, <2>1, <2>2, StillGenuine
<1>4. CASE d.run = s.run
  <2>1. s.run # Null /\ orch[s.run].status \in Terminal
    BY <1>4, CreatedAreNumbers DEF HydratedOnce, Genuine
  <2>2. s'.run = s.run /\ s'.prev = s.prev /\ Faithful(s', orch[s.run])
    BY <1>1, <1>4, <2>1, HydratedFaithful DEF Genuine
  <2>. QED  BY <1>1, <1>2, <2>1, <2>2, GenuineKept
<1>. QED  BY <1>3, <1>4

LEMMA StartAnsweredGenuine ==
  ASSUME IInv, Genuine, NEW q \in starts, StartAnswered(q)
  PROVE  Genuine'
<1>. USE DEF IInv
<1>. DEFINE n == RunOf(q)
            over == orch[n].status \in Terminal
<1>1. orch' = orch /\ OrchGrows
  BY OrchStays DEF StartAnswered
<1>2. CASE q # active
  <2>1. UNCHANGED <<s, poller, detached>>
    BY <1>2 DEF StartAnswered
  <2>. QED  BY <1>1, <2>1, StillGenuine
<1>3. CASE q = active
  <2>1. s.run = Null /\ \A v \in Views : s[v] = Null
    BY <1>3 DEF Current
  <2>2. n # Null
    BY CreatedAreNumbers DEF StartAnswered, IsCreated, RunOf
  <2>3. /\ s' = [s EXCEPT !.phase = IF over THEN orch[n].status ELSE "running",
                          !.run = n, !.error = Null, !.summary = SummaryOf(n)]
        /\ poller' = PollEffect(s, s')
        /\ \A d \in detached' : d \in detached \/ (over /\ d = [run |-> n, terminal |-> orch[n].status])
    BY <1>3 DEF StartAnswered, SetState
  <2>4. FinalOf(SummaryOf(n), orch[n])
    BY ViewsAreFaithful
  <2>. HIDE DEF n
  <2>5. /\ s'.run = n /\ s'.prev = s.prev /\ s'.summary = SummaryOf(n)
        /\ \A v \in Views : s'[v] = Null
    BY <2>1, <2>3 DEF Current, NoRunState, Views
  <2>6. Faithful(s', orch[n])
    BY <2>4, <2>5 DEF Faithful, FinalOf, GenOf, BtOf, EvOf, Views
  <2>7. poller'.step # "hydrating"
    BY <2>1, <2>2, <2>3, <2>5 DEF PollEffect, Idle
  <2>8. \A d \in detached' : orch[d.run].status \in Terminal
    BY <2>3 DEF Genuine
  <2>9. Created' = Created
    BY <1>1 DEF Created
  <2>. QED  BY <1>1, <2>5, <2>6, <2>7, <2>8, <2>9 DEF Genuine
<1>. QED  BY <1>2, <1>3

LEMMA StartFailsGenuine ==
  ASSUME IInv, Genuine, NEW q \in starts, NEW error, StartFails(q, error)
  PROVE  Genuine'
<1>. USE DEF IInv
<1>1. orch' = orch /\ OrchGrows /\ detached' = detached
  BY OrchStays DEF StartFails
<1>2. CASE q # active
  <2>1. UNCHANGED <<s, poller>>
    BY <1>2 DEF StartFails
  <2>. QED  BY <1>1, <2>1, StillGenuine
<1>3. CASE q = active
  <2>1. s' = [s EXCEPT !.phase = "failed", !.error = error] /\ poller' = PollEffect(s, s')
    BY <1>3 DEF StartFails, SetState
  <2>2. /\ s'.run = s.run /\ s'.prev = s.prev /\ s'.phase = "failed"
        /\ s'.summary = s.summary /\ \A v \in Views : s'[v] = s[v]
    BY <2>1 DEF Current, NoRunState, Views
  <2>3. s.run # Null => Faithful(s', orch[s.run])
    BY <2>2 DEF Genuine, Faithful, Views
  <2>4. poller'.step = "hydrating" => poller' = poller
    <3>1. PollEffect(s, s') \in {poller, Idle}
      BY <2>2 DEF PollEffect
    <3>2. Idle.step = "off"
      BY DEF Idle
    <3>. QED  BY <2>1, <3>1, <3>2
  <2>5. poller'.step = "hydrating" => s.run # Null /\ orch[s.run].status \in Terminal
    BY <2>4 DEF Genuine, HydratedOnce
  <2>. QED  BY <1>1, <2>2, <2>3, <2>5, GenuineKept
<1>. QED  BY <1>2, <1>3

LEMMA StartTransformGenuine ==
  ASSUME IInv, Genuine, StartTransform
  PROVE  Genuine'
<1>. USE DEF IInv
<1>. DEFINE p == SnapshotHistoricalRun(s)
<1>1. /\ s' = [NoRunState EXCEPT !.phase = "starting", !.prev = p]
      /\ poller' = PollEffect(s, s') /\ UNCHANGED <<orch, detached>>
  BY DEF StartTransform, SetState
<1>2. Created' = Created
  BY <1>1 DEF Created
<1>3. p # Null => Faithful(p, orch[p.run])
  <2>1. CASE s.run = Null \/ ~Shown(s)
    BY <2>1 DEF SnapshotHistoricalRun, Shown, Genuine
  <2>2. CASE s.run # Null /\ Shown(s)
    <3>1. /\ p.run = s.run /\ p.summary = s.summary /\ p.workflow = s.workflow
          /\ p.gen = s.gen /\ p.bt = s.bt /\ p.ev = s.ev
      BY <2>2 DEF SnapshotHistoricalRun, Shown
    <3>. QED  BY <2>2, <3>1 DEF Genuine, Faithful
  <2>. QED  BY <2>1, <2>2
<1>. HIDE DEF p
<1>4. s'.run = Null /\ s'.prev = p
  BY <1>1 DEF NoRunState
<1>5. poller'.step # "hydrating"
  <2>1. s.run = Null => poller.step = "off"
    BY DEF HydratedOnce
  <2>. QED  BY <1>1, <1>4, <2>1 DEF PollEffect, Idle
<1>. QED  BY <1>1, <1>2, <1>3, <1>4, <1>5 DEF Genuine

LEMMA InitGenuine == Init => Genuine
<1>. SUFFICES ASSUME Init PROVE Genuine
  OBVIOUS
<1>1. /\ \A n \in Runs : orch[n] = [status |-> "none", art |-> Null, asked |-> 0]
      /\ s = NoRunState /\ poller = Idle /\ detached = {}
  BY DEF Init
<1>. QED  BY <1>1 DEF Genuine, Created, NoRunState, Idle

LEMMA NextGenuine == IInv /\ Genuine /\ [Next]_vars => Genuine'
<1>. SUFFICES ASSUME IInv, Genuine, [Next]_vars PROVE Genuine'
  OBVIOUS
<1>1. CASE StartTransform \/ StartGenerate
  BY <1>1, StartTransformGenuine DEF StartGenerate
<1>2. CASE Backend
  <2>1. CASE \E q \in starts, error \in {"503", "400"} : StartFails(q, error)
    BY <2>1, StartFailsGenuine
  <2>2. CASE \E q \in starts : StartAnswered(q)
    BY <2>2, StartAnsweredGenuine
  <2>3. CASE \/ \E q \in starts : BackendStarts(q)
             \/ \E n \in Created : \E outcome \in Outcomes[n] : OrchestratorFinishes(n, outcome)
    <3>1. UNCHANGED <<s, poller, detached>>
      BY <2>3 DEF BackendStarts, OrchestratorFinishes
    <3>2. OrchGrows
      BY <2>3, BackendStartsGrows, OrchestratorFinishesGrows
    <3>. QED  BY <3>1, <3>2, StillGenuine
  <2>. QED  BY <1>2, <2>1, <2>2, <2>3 DEF Backend
<1>3. CASE Polling
  BY <1>3, PollGenuine, DetachedGenuine DEF Polling
<1>4. CASE \E call \in calls : ExportAnswered(call) \/ DecisionAnswered(call) \/ CallFails(call)
  BY <1>4, AnswersGenuine
<1>5. CASE \/ ExportParityEvidenceScaffold \/ SubmitIntentionalDivergenceDecision
           \/ AskExplanation \/ FileShown \/ UNCHANGED vars
           \/ \E current, previous \in Outages : ExplanationAnswered(current, previous)
           \/ ExplanationFails
           \/ \E n \in recording : HashComputed(n)
  <2>1. UNCHANGED <<orch, s, poller, detached>>
    BY <1>5 DEF ExportParityEvidenceScaffold, SubmitIntentionalDivergenceDecision, SendCall,
                AskExplanation, FileShown, ExplanationAnswered, ExplanationFails,
                HashComputed, vars
  <2>. QED  BY <2>1, OrchStays, StillGenuine
<1>. QED  BY <1>1, <1>2, <1>3, <1>4, <1>5 DEF Next, Answers

\* Nothing else is shown as a success: no failure code, no agent at work and no
\* objection of the views.
LEMMA ProductSuccess ==
  ASSUME NEW t, DeriveProductState(t) = "success"
  PROVE  /\ t.phase = "completed" /\ ViewVerdict(t) = Null /\ Final(t) = "success"
         /\ t.bt # Null /\ t.bt.status = "ok" /\ t.ev # Null /\ t.ev.status = "complete"
<1>1. \A code : FailureCodeToState(code) # "success"
  BY DEF FailureCodeToState
<1>2. \A agent : Or(ActiveAgentToState(agent), IF t.phase = "starting" THEN "submitting" ELSE "running")
                    # "success"
  BY DEF ActiveAgentToState, Or
<1>3. ViewVerdict(t) # "success"
  BY NullAssumption DEF ViewVerdict
<1>4. Final(t) \notin {"cancelled", "blocked", "failed", "incomplete"}
      /\ t.phase \notin {"idle", "unavailable", "starting", "running"} /\ ViewVerdict(t) = Null
  BY <1>1, <1>2, <1>3 DEF DeriveProductState
<1>5. t.phase = "completed"
  BY <1>1, <1>4 DEF DeriveProductState
<1>. QED  BY <1>1, <1>4, <1>5 DEF DeriveProductState

\* Views that raise no objection hold Java, and references that agree.
LEMMA NoObjection ==
  ASSUME NEW t, ViewVerdict(t) = Null, t.phase = "completed"
  PROVE  t.gen # Null /\ t.gen.status \notin {"unsupported", "incomplete"} /\ ~HashMismatch(t)
BY NullAssumption DEF ViewVerdict

\* What is told of a run that is verified is told by all of its views.
LEMMA ArtifactVerified ==
  ASSUME ArtifactState(s) = "verified"
  PROVE  LET a == ArtifactSource(s)
         IN  /\ a.run # Null /\ a.gen # Null /\ a.bt # Null /\ a.ev # Null
             /\ a.gen.status \notin {"unsupported", "incomplete"}
             /\ a.bt.status = "ok" /\ a.ev.status = "complete"
             /\ a.gen.artifactRef = a.bt.generatedArtifactRef
             /\ a.gen.artifactRef = a.ev.generatedArtifactRef
             /\ Final(a) = "success"
<1>. DEFINE a == ArtifactSource(s)
<1>1. a.gen # Null => a.gen.status \notin {"unsupported", "incomplete"}
  BY DEF ArtifactState
<1>. QED  BY <1>1 DEF ArtifactState

\* A success in the final word of a faithful store or snapshot is the run's.
LEMMA FinalEarned ==
  ASSUME NEW t, NEW r, Faithful(t, r), Final(t) = "success"
  PROVE  r.art.workflow.final = "success"
BY NullAssumption DEF Faithful, FinalOf, Final, Or

\* The green light is earned by the run it is shown for (deriveProductState of
\* types/state.ts, useGeneratedArtifacts), whatever calls failed and however
\* late their answers came.
THEOREM GreenIsAlwaysEarned == Spec => []GreenIsEarned
<1>1. ASSUME IInv, Genuine PROVE GreenIsEarned
  <2>. USE <1>1 DEF IInv
  <2>1. ASSUME NEW t, NEW r, Faithful(t, r), Held(r), Final(t) = "success",
               t.gen # Null, t.gen.status \notin {"unsupported", "incomplete"},
               t.bt # Null, t.bt.status = "ok", t.ev # Null, t.ev.status = "complete",
               {t.bt.generatedArtifactRef, t.ev.generatedArtifactRef} \subseteq
                  {t.gen.artifactRef, Null}
        PROVE  Earned(r.art)
    <3>1. r.art.workflow.final = "success"
      BY <2>1, FinalEarned
    <3>. QED  BY <2>1, <3>1 DEF Faithful, GenOf, BtOf, EvOf, Held, Earned
  <2>2. ASSUME DeriveProductState(s) = "success" PROVE s.run # Null /\ Earned(orch[s.run].art)
    <3>1. /\ s.gen # Null /\ s.gen.status \notin {"unsupported", "incomplete"} /\ ~HashMismatch(s)
          /\ Final(s) = "success" /\ s.bt # Null /\ s.bt.status = "ok"
          /\ s.ev # Null /\ s.ev.status = "complete"
      BY <2>2, ProductSuccess, NoObjection
    <3>2. s.run # Null
      BY <3>1 DEF Current, Views
    <3>3. Faithful(s, orch[s.run]) /\ Held(orch[s.run])
      BY <3>2 DEF Genuine, Current
    <3>4. s.gen.artifactRef # Null
      BY <3>1, <3>3, FinalEarned DEF Faithful, GenOf, Held
    <3>5. {s.bt.generatedArtifactRef, s.ev.generatedArtifactRef} \subseteq {s.gen.artifactRef, Null}
      BY <3>1, <3>4 DEF HashMismatch, RefOf
    <3>. QED  BY <2>1, <3>1, <3>2, <3>3, <3>5
  <2>3. ASSUME ArtifactState(s) = "verified" PROVE Earned(orch[DisplayedRun(s)].art)
    <3>. DEFINE a == ArtifactSource(s)
                r == orch[DisplayedRun(s)]
    <3>1. /\ a.run # Null /\ a.gen # Null /\ a.bt # Null /\ a.ev # Null
          /\ a.gen.status \notin {"unsupported", "incomplete"}
          /\ a.bt.status = "ok" /\ a.ev.status = "complete" /\ Final(a) = "success"
          /\ {a.bt.generatedArtifactRef, a.ev.generatedArtifactRef} \subseteq {a.gen.artifactRef, Null}
      BY <2>3, ArtifactVerified
    <3>2. a = s \/ (a = s.prev /\ s.prev # Null)
      BY DEF ArtifactSource, ShowingHistoricalArtifacts
    <3>3. Faithful(a, r) /\ Held(r)
      BY <3>1, <3>2 DEF DisplayedRun, Genuine, Current, HasPrev
    <3>. QED  BY <2>1, <3>1, <3>3
  <2>. QED  BY <2>2, <2>3 DEF GreenIsEarned
<1>. QED  BY <1>1, InitGenuine, NextGenuine, Invariance, PTL DEF Spec

-----------------------------------------------------------------------------
(* Why the output changed.                                                  *)

\* No step takes from a finished run what the orchestrator holds of it.
LEMMA NextGrows ==
  ASSUME IInv, Genuine, [Next]_vars
  PROVE  OrchGrows
<1>1. CASE Backend
  <2>1. CASE \/ \E q \in starts : BackendStarts(q)
             \/ \E n \in Created : \E outcome \in Outcomes[n] : OrchestratorFinishes(n, outcome)
    BY <2>1, BackendStartsGrows, OrchestratorFinishesGrows
  <2>2. CASE \/ \E q \in starts, error \in {"503", "400"} : StartFails(q, error)
             \/ \E q \in starts : StartAnswered(q)
    BY <2>2, OrchStays DEF StartFails, StartAnswered
  <2>. QED  BY <1>1, <2>1, <2>2 DEF Backend
<1>2. CASE \E call \in calls : ExportAnswered(call) \/ DecisionAnswered(call) \/ CallFails(call)
  BY <1>2, AnswersGrow
<1>3. CASE Polling
  <2>1. orch' = orch
    BY <1>3 DEF Polling, PollUnavailable, PollFails, PollAnswered, Observed, Hydrated, Timer,
                DetachedHydrated, PollStep, PollEnds
  <2>. QED  BY <2>1, OrchStays
<1>4. CASE \/ StartTransform \/ StartGenerate \/ ExportParityEvidenceScaffold
           \/ SubmitIntentionalDivergenceDecision \/ AskExplanation \/ FileShown \/ UNCHANGED vars
           \/ \E current, previous \in Outages : ExplanationAnswered(current, previous)
           \/ ExplanationFails
           \/ \E n \in recording : HashComputed(n)
  <2>1. orch' = orch
    BY <1>4 DEF StartTransform, StartGenerate, ExportParityEvidenceScaffold,
                SubmitIntentionalDivergenceDecision, SendCall, AskExplanation, FileShown,
                ExplanationAnswered, ExplanationFails, HashComputed, vars
  <2>. QED  BY <2>1, OrchStays
<1>. QED  BY <1>1, <1>2, <1>3, <1>4 DEF Next, Answers

\* The explanation panel asks for runs that exist, and what it was answered
\* stays supported by them.
Supported ==
    /\ DOMAIN explained = {"asked", "data"}
    /\ explained.asked # Null => \A i \in 1 .. 2 : explained.asked[i] \in Created
    /\ explained.data # Null => \A i \in 1 .. 2 : explained.data.runs[i] \in Created
    /\ ExplainedOnlyFromEvidence

\* A view of Java that was served names the source of the run, and a view of
\* evidence that was not served is incomplete.
LEMMA ArtifactsExplain ==
  ASSUME NEW n, NEW outage
  PROVE  LET a == ExplanationArtifacts(n, outage)
         IN  /\ a.status = orch[n].status
             /\ "ev" \in outage.calls => a.evidence = "incomplete"
             /\ "gen" \notin outage.calls /\ orch[n].art.gen # Unserved =>
                   a.source = IF orch[n].art.gen.source = Absent THEN Null
                              ELSE orch[n].art.gen.source
<1>. DEFINE gen == LiveGeneratedView(Stored(n), Served(n, "gen", outage))
            bt  == LiveBuildTestView(Stored(n), Served(n, "bt", outage), <<>>)
            ev  == LiveEvidenceView(Stored(n), Served(n, "ev", outage))
            a   == ExplanationArtifacts(n, outage)
<1>1. "ev" \in outage.calls => ev.status = "incomplete"
  BY DEF LiveEvidenceView, Served
<1>2. "gen" \notin outage.calls /\ orch[n].art.gen # Unserved => gen.sourceHash = orch[n].art.gen.source
  BY DEF LiveGeneratedView, Served
<1>3. Stored(n).status = orch[n].status
  BY DEF Stored
<1>. HIDE DEF gen, bt, ev
<1>4. /\ a.status = Stored(n).status /\ a.evidence = ev.status
      /\ a.source = IF gen.sourceHash = Absent THEN Null ELSE gen.sourceHash
  BY DEF ExplanationArtifacts, LoadOutputChangeRunArtifacts, gen, bt, ev
<1>. QED  BY <1>1, <1>2, <1>3, <1>4

\* What an explanation that is there rests on.
LEMMA ExplanationRests ==
  ASSUME NEW a, NEW b, BuildOutputChangeExplanation(a, b).status = "available"
  PROVE  /\ a.status = "completed" /\ b.status = "completed"
         /\ a.evidence # "incomplete" /\ b.evidence # "incomplete"
         /\ BuildOutputChangeExplanation(a, b).primary = "cobol_edit" => a.source # b.source
<1>. DEFINE changed == ChangedCategories(a, b)
            one == Cardinality(changed) = 1
<1>1. UnavailableReason(a, b) = Null
  BY DEF BuildOutputChangeExplanation
<1>2. /\ {a.status, b.status} = {"completed"} /\ "incomplete" \notin {a.evidence, b.evidence}
  BY <1>1, NullAssumption DEF UnavailableReason
<1>3. BuildOutputChangeExplanation(a, b).primary =
        IF one THEN CHOOSE c \in changed : TRUE ELSE Null
  BY <1>1 DEF BuildOutputChangeExplanation
<1>4. one => changed # {}
  BY FS_EmptySet
<1>5. "cobol_edit" \in changed => a.source # b.source
  BY DEF ChangedCategories
<1>. HIDE DEF changed
<1>6. one => (CHOOSE c \in changed : TRUE) \in changed
  BY <1>4
<1>. QED  BY <1>2, <1>3, <1>5, <1>6, NullAssumption

LEMMA NextSupported == IInv /\ Genuine /\ Supported /\ [Next]_vars => Supported'
<1>. SUFFICES ASSUME IInv, Genuine, Supported, [Next]_vars PROVE Supported'
  OBVIOUS
<1>1. OrchGrows
  BY NextGrows
<1>2. \A n \in Created : n \in Created' /\ Grows(orch[n], orch'[n])
  BY <1>1 DEF OrchGrows
<1>3. \A n \in Created : orch[n].status = "completed" =>
          orch'[n].status = "completed" /\ orch'[n].art.gen = orch[n].art.gen
  BY <1>2 DEF Grows, Terminal
<1>4. ASSUME explained'.asked \in {explained.asked, Null}, explained'.data = explained.data,
             DOMAIN explained' = DOMAIN explained
      PROVE  Supported'
  <2>. DEFINE data == explained.data
  <2>1. ASSUME data # Null, data.answer.status = "available"
        PROVE  \A i \in 1 .. 2 : orch'[data.runs[i]].status = orch[data.runs[i]].status
                                 /\ orch'[data.runs[i]].art.gen = orch[data.runs[i]].art.gen
    BY <1>3, <2>1 DEF Supported, ExplainedOnlyFromEvidence
  <2>2. ExplainedOnlyFromEvidence'
    <3>1. explained'.data = data
      BY <1>4
    <3>2. ASSUME data # Null, data.answer.status = "available"
          PROVE  /\ \A i \in 1 .. 2 : /\ orch'[data.runs[i]].status = "completed"
                                      /\ "ev" \notin data.lost[i]
                 /\ data.answer.primary = "cobol_edit" =>
                      \/ \E i \in 1 .. 2 : "gen" \in data.lost[i]
                      \/ orch'[data.runs[1]].art.gen.source # orch'[data.runs[2]].art.gen.source
      <4>1. ExplainedOnlyFromEvidence
        BY DEF Supported
      <4>2. 1 \in 1 .. 2 /\ 2 \in 1 .. 2
        OBVIOUS
      <4>3. \A i \in 1 .. 2 : orch'[data.runs[i]].status = orch[data.runs[i]].status
                              /\ orch'[data.runs[i]].art.gen = orch[data.runs[i]].art.gen
        BY <2>1, <3>2
      <4>. QED  BY <3>2, <4>1, <4>2, <4>3 DEF ExplainedOnlyFromEvidence
    <3>. HIDE DEF data
    <3>. QED  BY <3>1, <3>2 DEF ExplainedOnlyFromEvidence
  <2>. QED  BY <1>2, <1>4, <2>2 DEF Supported
<1>5. CASE AskExplanation
  <2>1. /\ explained' = [asked |-> <<s.run, s.prev.run>>, data |-> Null] /\ s.prev # Null
        /\ s.run # Null
    BY <1>5 DEF AskExplanation, Act
  <2>2. s.run \in Created /\ s.prev.run \in Created
    BY <2>1 DEF IInv, Current, HasPrev
  <2>. QED  BY <1>2, <2>1, <2>2 DEF Supported, ExplainedOnlyFromEvidence
<1>6. CASE \E current, previous \in Outages : ExplanationAnswered(current, previous)
  <2>1. PICK current \in Outages, previous \in Outages : ExplanationAnswered(current, previous)
    BY <1>6
  <2>. DEFINE runs == explained.asked
              a == ExplanationArtifacts(runs[1], current)
              b == ExplanationArtifacts(runs[2], previous)
              answer == BuildOutputChangeExplanation(a, b)
              lost == <<current.calls \cap {"gen", "ev"}, previous.calls \cap {"gen", "ev"}>>
  <2>2. /\ explained' = [asked |-> Null, data |-> [runs |-> runs, lost |-> lost, answer |-> answer]]
        /\ runs # Null /\ orch' = orch
    BY <2>1 DEF ExplanationAnswered
  <2>3. runs[1] \in Created /\ runs[2] \in Created
    BY <2>2 DEF Supported
  <2>4. ASSUME answer.status = "available"
        PROVE  /\ orch[runs[1]].status = "completed" /\ orch[runs[2]].status = "completed"
               /\ "ev" \notin lost[1] /\ "ev" \notin lost[2]
               /\ answer.primary = "cobol_edit" =>
                     \/ "gen" \in lost[1] \/ "gen" \in lost[2]
                     \/ orch[runs[1]].art.gen.source # orch[runs[2]].art.gen.source
    <3>. HIDE DEF runs
    <3>1. /\ a.status = "completed" /\ b.status = "completed"
          /\ a.evidence # "incomplete" /\ b.evidence # "incomplete"
          /\ answer.primary = "cobol_edit" => a.source # b.source
      BY <2>4, ExplanationRests
    <3>2. /\ orch[runs[1]].status = "completed" /\ orch[runs[2]].status = "completed"
          /\ "ev" \notin current.calls /\ "ev" \notin previous.calls
      BY <3>1, ArtifactsExplain
    <3>3. orch[runs[1]].art.gen # Unserved /\ orch[runs[2]].art.gen # Unserved
      BY <2>3, <3>2 DEF Genuine, Held
    <3>4. ASSUME "gen" \notin current.calls, "gen" \notin previous.calls,
                 orch[runs[1]].art.gen.source = orch[runs[2]].art.gen.source
          PROVE  a.source = b.source
      BY <3>3, <3>4, ArtifactsExplain
    <3>. QED  BY <3>1, <3>2, <3>4
  <2>. HIDE DEF answer, lost, runs
  <2>5. explained'.data # Null =>
          /\ explained'.data.runs = runs /\ explained'.data.lost = lost
          /\ explained'.data.answer = answer
    BY <2>2
  <2>6. ExplainedOnlyFromEvidence'
    BY <2>2, <2>4, <2>5 DEF ExplainedOnlyFromEvidence
  <2>7. DOMAIN explained' = {"asked", "data"} /\ explained'.asked = Null
    BY <2>2
  <2>. QED  BY <1>2, <2>3, <2>5, <2>6, <2>7 DEF Supported
<1>7. CASE ExplanationFails
  <2>1. explained' = [explained EXCEPT !.asked = Null]
    BY <1>7 DEF ExplanationFails
  <2>. QED  BY <1>4, <2>1 DEF Supported
<1>8. CASE UNCHANGED explained
  BY <1>4, <1>8
<1>9. CASE Backend \/ Polling
  <2>1. UNCHANGED explained
    BY <1>9 DEF Backend, Polling, BackendStarts, OrchestratorFinishes, StartFails, StartAnswered,
                PollUnavailable, PollFails, PollAnswered, Observed, Hydrated, Timer,
                DetachedHydrated, PollStep, PollEnds
  <2>. QED  BY <1>8, <2>1
<1>10. CASE \/ StartTransform \/ StartGenerate \/ ExportParityEvidenceScaffold
            \/ SubmitIntentionalDivergenceDecision \/ FileShown \/ UNCHANGED vars
            \/ \E n \in recording : HashComputed(n)
            \/ \E call \in calls : ExportAnswered(call) \/ DecisionAnswered(call) \/ CallFails(call)
  <2>1. UNCHANGED explained
    BY <1>10 DEF StartTransform, StartGenerate, ExportParityEvidenceScaffold, SendCall,
                 SubmitIntentionalDivergenceDecision, FileShown, HashComputed, ExportAnswered,
                 DecisionAnswered, CallFails, CallAnswered, vars
  <2>. QED  BY <1>8, <2>1
<1>. QED  BY <1>5, <1>6, <1>7, <1>9, <1>10 DEF Next, Answers

\* Two completed runs whose evidence was served are behind every explanation,
\* and a COBOL edit is its one cause only when the sources differ
\* (outputChangeExplanation.ts).
THEOREM ExplanationsAreSupported == Spec => []ExplainedOnlyFromEvidence
<1>1. Init => Supported
  BY DEF Init, Supported, ExplainedOnlyFromEvidence
<1>2. Supported => ExplainedOnlyFromEvidence
  BY DEF Supported
<1>. QED  BY <1>1, <1>2, InitGenuine, NextGenuine, NextSupported, Invariance, PTL DEF Spec

-----------------------------------------------------------------------------
(* What the panels make of data, whatever the run is.                       *)

\* The table of outputs in the equivalence panel (buildOutputDiff).
THEOREM DiffsAreFaithful == Spec => []DiffIsFaithful
<1>1. ASSUME NEW expected \in Outputs, NEW actual \in Outputs
      PROVE  /\ TextWithout("added", OutputDiff(expected, actual)) = expected
             /\ TextWithout("removed", OutputDiff(expected, actual)) = actual
  <2>1. PICK V : V = {expected[i] : i \in DOMAIN expected} \cup {actual[i] : i \in DOMAIN actual}
    OBVIOUS
  <2>2. expected \in Seq(V) /\ actual \in Seq(V)
    <3>1. /\ expected \in Seq({expected[i] : i \in DOMAIN expected})
          /\ actual \in Seq({actual[i] : i \in DOMAIN actual})
      BY OutputsAssumption
    <3>2. /\ {expected[i] : i \in DOMAIN expected} \subseteq V
          /\ {actual[i] : i \in DOMAIN actual} \subseteq V
      BY <2>1
    <3>. QED  BY <3>1, <3>2, SeqMonotonic
  <2>. QED  BY <2>2, NoLineIsLost
<1>2. ASSUME NEW expected \in Outputs, NEW actual \in Outputs
      PROVE  With(OutputDiff(expected, actual),
                  LAMBDA rows : /\ TextWithout("added", rows) = expected
                                /\ TextWithout("removed", rows) = actual)
  <2>1. PICK table : table = OutputDiff(expected, actual)
    OBVIOUS
  <2>2. /\ TextWithout("added", table) = expected
        /\ TextWithout("removed", table) = actual
    BY <1>1, <2>1
  <2>3. {(/\ TextWithout("added", v) = expected
          /\ TextWithout("removed", v) = actual) : v \in {table}} = {TRUE}
    BY <2>2
  <2>4. CHOOSE r \in {(/\ TextWithout("added", v) = expected
                       /\ TextWithout("removed", v) = actual) : v \in {table}} : TRUE
    BY <2>3
  <2>. QED  BY <2>1, <2>4 DEF With
<1>3. DiffIsFaithful
  BY <1>2 DEF DiffIsFaithful
<1>. QED  BY <1>3, PTL

\* The trust cases and the fixtures that are served (trust-cases.ts,
\* acceptance-fixtures.ts, the trust-case routes of server.ts).
THEOREM TrustCasesFit == Spec => []TrustCasesAreConsistent
<1>1. TrustCasesAreConsistent
  BY RegistriesFit DEF TrustCasesAreConsistent
<1>. QED  BY <1>1, PTL

\* What the BFF passes on against what the Studio reads (runViews.ts,
\* diagnostics.ts, server.ts against apiClient.ts), and the telemetry of both.
THEOREM EveryAnswerIsRead == Spec => []AnswersAreReadable
<1>1. AnswersAreReadable
  BY RefsAreRead, DiagnosticsAreRead, ProgressIsRead, WorkflowIsRead, AnswersAreRead,
     ServicesAreRead, OverlaysAreRead, EventsAgree DEF AnswersAreReadable
<1>. QED  BY <1>1, PTL
=============================================================================
