--------------------------- MODULE BffRunsProofs ---------------------------
(* Theorems about BffRuns, for any set of handlers and any number of runs.  *)
EXTENDS BffRuns, TLAPS

-----------------------------------------------------------------------------
(* The inductive invariant.                                                 *)

LiveRuns == [status : StatusSet \cup {"none"}, class : Classes, trust : 0 .. 2,
             java : BOOLEAN]
Calls == {"start", "run", "workflow", "traceability", "decision", "forward"}
Was == [status : StatusSet, trust : 0 .. 2]
Answers ==
    {Refused}
    \cup [ok : {TRUE}, live : RunIds, status : {"starting"}]
    \cup [ok : {TRUE}, status : StatusSet \cup {"none"}]
    \cup [ok : {TRUE}, class : Classes, trust : 0 .. 2]
    \cup [ok : {TRUE}, regions : BOOLEAN]
    \cup [ok : {TRUE}, trust : {2}]
Answered == [at : {"answered"}, call : Calls, run : 0 .. MaxRuns, was : Was, answer : Answers]

Shapes ==
    /\ store \in [RunIds -> StoredRuns]
    /\ orch \in [RunIds -> LiveRuns]
    /\ request \in [Handlers -> Requests \cup Answered]

\* What is stored of a run was true of the orchestrator's run o.
Behind(s, o) ==
    /\ o.status # "none"
    /\ Rank(s.status) <= Rank(o.status)
    /\ s.status \in Terminal => s.status = o.status
    /\ s.class # "none" => s.class = o.class
    /\ s.trust <= o.trust
    /\ s.regions => o.java

StoreBehind ==
    \A r \in RunIds :
        IF store[r].mode = "live"
        THEN store[r].live \in RunIds /\ Behind(store[r], orch[store[r].live])
        ELSE store[r].live = 0

\* The call q is about a live run, by its id.
AboutLive(q) ==
    /\ q.run \in RunIds
    /\ store[q.run].mode = "live" /\ store[q.run].live \in RunIds
OrchOf(q) == orch[store[q.run].live]

WasBehind(q) ==
    /\ q.was.trust <= OrchOf(q).trust
    /\ q.was.status \in Terminal => q.was.status = OrchOf(q).status

\* What a waiting call has kept of the store is not ahead of the orchestrator.
AskedBehind(q) ==
    /\ q.call \in {"run", "workflow", "traceability", "forward"} =>
          AboutLive(q) /\ q.id = LiveId(store[q.run].live)
    /\ q.call \in {"run", "workflow"} => WasBehind(q)
    /\ q.call = "run" => Rank(q.was.status) <= Rank(OrchOf(q).status)
    /\ q.call = "decision" => q.run \in RunIds /\ q.id = BffId(q.run)

\* Neither is an answer that has not been applied, and a poll's answer is not
\* behind the status the poll had seen.
AnswerBehind(q) ==
    LET a == q.answer IN
    /\ q.call = "start" /\ a.ok =>
          /\ a.live \in RunIds /\ orch[a.live].status # "none" /\ a.status = "starting"
    /\ q.call \in {"run", "workflow", "traceability"} => AboutLive(q)
    /\ q.call \in {"run", "workflow"} => WasBehind(q)
    /\ q.call = "run" /\ a.ok =>
          /\ a.status \in StatusSet
          /\ Rank(q.was.status) <= Rank(a.status)
          /\ Rank(a.status) <= Rank(OrchOf(q).status)
          /\ a.status \in Terminal => a.status = OrchOf(q).status
    /\ q.call = "workflow" /\ a.ok =>
          /\ a.class \in Classes /\ a.trust \in 0 .. 2
          /\ a.class # "none" => a.class = OrchOf(q).class
          /\ a.trust <= OrchOf(q).trust
    /\ q.call = "traceability" /\ a.ok =>
          a.regions \in BOOLEAN /\ (a.regions => OrchOf(q).java)
    /\ q.call = "decision" => ~a.ok

CallBehind(q) ==
    /\ q.at = "asked" => AskedBehind(q)
    /\ q.at = "answered" => AnswerBehind(q)

IInv == Shapes /\ StoreBehind /\ \A h \in Handlers : CallBehind(request[h])

-----------------------------------------------------------------------------
(* What every step keeps.                                                   *)

\* A run of the orchestrator only moves forward.
Later(o, n) ==
    /\ n.status # "none"
    /\ Rank(o.status) <= Rank(n.status)
    /\ o.status \in Terminal => n.status = o.status
    /\ o.class # "none" => n.class = o.class
    /\ o.trust <= n.trust
    /\ o.java => n.java
OrchKept == \A l \in RunIds : orch[l].status # "none" => Later(orch[l], orch'[l])

\* A stored run keeps its live run.
StoreKept ==
    \A r \in RunIds : store[r].mode = "live" =>
        store'[r].mode = "live" /\ store'[r].live = store[r].live

\* Ranks are numbers, and only the terminal statuses have the highest one.
LEMMA Ranks ==
    /\ \A s : Rank(s) \in 0 .. 2
    /\ \A s \in StatusSet : Rank(s) = 2 <=> s \in Terminal
    /\ StatusSet = {"starting", "updating", "completed", "failed"}
<1>1. StatusSet = {"starting", "updating", "completed", "failed"}
  <2>1. {Statuses[i] : i \in 1 .. 4} = {Statuses[1], Statuses[2], Statuses[3], Statuses[4]}
    BY SMT
  <2> QED BY <2>1 DEF StatusSet, Statuses
<1>2. \A s : Rank(s) \in 0 .. 2
  BY DEF Rank
<1>3. \A s \in StatusSet : Rank(s) = 2 <=> s \in Terminal
  BY <1>1 DEF Rank, Terminal
<1> QED BY <1>1, <1>2, <1>3

\* What was behind stays behind when the orchestrator moves on.
LEMMA StillBehind ==
    ASSUME NEW s \in StoredRuns, NEW o \in LiveRuns, NEW n \in LiveRuns,
           Behind(s, o), Later(o, n)
    PROVE  Behind(s, n)
BY Ranks DEF Behind, Later, StoredRuns, LiveRuns

\* A call is kept in the same state of affairs by a run that moves on.
LEMMA CallKept ==
    ASSUME Shapes, Shapes', StoreBehind, StoreKept, OrchKept,
           NEW q \in Requests \cup Answered, CallBehind(q)
    PROVE  CallBehind(q)'
<1>1. ASSUME AboutLive(q)
      PROVE  /\ AboutLive(q)' /\ Later(OrchOf(q), OrchOf(q)')
             /\ store'[q.run].live = store[q.run].live
             /\ OrchOf(q) \in LiveRuns /\ OrchOf(q)' \in LiveRuns
  <2>1. q.run \in RunIds /\ store[q.run].mode = "live" /\ store[q.run].live \in RunIds
    BY <1>1 DEF AboutLive
  <2>2. /\ store'[q.run].mode = "live"
        /\ store'[q.run].live = store[q.run].live
    BY <2>1 DEF StoreKept
  <2>3. orch[store[q.run].live].status # "none"
    BY <2>1 DEF StoreBehind, Behind
  <2>4. Later(orch[store[q.run].live], orch'[store[q.run].live])
    BY <2>1, <2>3 DEF OrchKept
  <2> QED BY <2>1, <2>2, <2>4 DEF AboutLive, OrchOf, Shapes
<1>2. CASE q = Idle
  BY <1>2 DEF CallBehind, Idle
<1>3. CASE q.at = "asked" /\ q \in Requests /\ q # Idle
  <2>1. AskedBehind(q) /\ q.was \in Was /\ q.call \in Calls
    BY <1>3 DEF CallBehind, Requests, Was, Calls
  <2>2. AskedBehind(q)'
    <3>1. CASE q.call \in {"run", "workflow", "traceability", "forward"}
      BY <1>1, <2>1, <3>1, Ranks DEF AskedBehind, WasBehind, Later, LiveRuns, Was
    <3>2. CASE q.call \in {"start", "decision"}
      BY <2>1, <3>2 DEF AskedBehind
    <3> QED BY <2>1, <3>1, <3>2 DEF Calls
  <2> QED BY <1>3, <2>2 DEF CallBehind
<1>4. CASE q.at = "answered" /\ q \in Answered
  <2>1. AnswerBehind(q) /\ q.was \in Was /\ q.call \in Calls
    BY <1>4 DEF CallBehind, Answered
  <2>2. AnswerBehind(q)'
    <3>1. CASE q.call \in {"run", "workflow", "traceability"}
      BY <1>1, <2>1, <3>1, Ranks DEF AnswerBehind, WasBehind, Later, LiveRuns, Was
    <3>2. CASE q.call = "start"
      <4>1. q.answer.ok => orch'[q.answer.live].status # "none"
        BY <2>1, <3>2 DEF AnswerBehind, OrchKept, Later
      <4> QED BY <2>1, <3>2, <4>1 DEF AnswerBehind
    <3>3. CASE q.call \in {"forward", "decision"}
      BY <2>1, <3>3 DEF AnswerBehind
    <3> QED BY <2>1, <3>1, <3>2, <3>3 DEF Calls
  <2> QED BY <1>4, <2>2 DEF CallBehind
<1> QED BY <1>2, <1>3, <1>4 DEF Requests, Answered

\* The store is kept by a run that moves on.
LEMMA StoreStays ==
    ASSUME Shapes, Shapes', StoreBehind, store' = store, OrchKept
    PROVE  StoreBehind' /\ StoreKept
<1>1. ASSUME NEW r \in RunIds, store[r].mode = "live"
      PROVE  Behind(store[r], orch'[store[r].live])
  <2>1. store[r].live \in RunIds /\ Behind(store[r], orch[store[r].live])
    BY <1>1 DEF StoreBehind
  <2>2. Later(orch[store[r].live], orch'[store[r].live])
    BY <2>1 DEF OrchKept, Behind
  <2> QED BY <2>1, <2>2, StillBehind DEF Shapes
<1> QED BY <1>1 DEF StoreBehind, StoreKept, Behind

\* What every step does.
Kept == IInv' /\ StoreKept /\ OrchKept

\* A step keeps the invariant if each call is the same or not ahead.
LEMMA CallStep ==
    ASSUME IInv, Shapes', StoreKept, OrchKept, StoreBehind',
           \A g \in Handlers : request'[g] = request[g] \/ CallBehind(request[g])'
    PROVE  Kept
<1> SUFFICES ASSUME NEW g \in Handlers PROVE CallBehind(request[g])'
  BY DEF IInv, Kept
<1>1. CASE request'[g] = request[g]
  <2>1. request[g] \in Requests \cup Answered /\ CallBehind(request[g])
    BY DEF IInv, Shapes
  <2>2. \A q \in Requests \cup Answered : CallBehind(q) => CallBehind(q)'
    BY CallKept DEF IInv
  <2> QED BY <1>1, <2>1, <2>2
<1> QED BY <1>1

\* What the orchestrator does not touch stays.
LEMMA OrchSame == ASSUME Shapes, UNCHANGED orch PROVE OrchKept
BY Ranks DEF OrchKept, Later, Shapes, LiveRuns

-----------------------------------------------------------------------------
(* Requests that arrive.                                                    *)

\* A handler goes on to wait with call q.
LEMMA AskStep ==
    ASSUME IInv, NEW h \in Handlers, NEW q \in Requests, CallBehind(q),
           request' = [request EXCEPT ![h] = q], UNCHANGED <<store, orch>>
    PROVE  Kept
<1>1. Shapes'
  BY DEF IInv, Shapes
<1>2. OrchKept
  BY OrchSame DEF IInv
<1>3. StoreBehind' /\ StoreKept
  BY <1>1, <1>2, StoreStays DEF IInv
<1>4. CallBehind(q)'
  BY <1>1, <1>2, <1>3, CallKept DEF IInv
<1>5. \A g \in Handlers : request'[g] = request[g] \/ request'[g] = q
  BY DEF IInv, Shapes
<1>6. \A g \in Handlers : request'[g] = q => CallBehind(request[g])'
  BY <1>4 DEF CallBehind, AskedBehind, AnswerBehind, AboutLive, OrchOf
<1> QED BY <1>1, <1>2, <1>3, <1>5, <1>6, CallStep

\* What Ask makes a handler wait with.
Asked(call, r, id, stored) ==
    [at |-> "asked", call |-> call, run |-> r, id |-> id,
     was |-> [status |-> stored.status, trust |-> stored.trust]]

LEMMA AskedShape ==
    ASSUME NEW call \in Calls, NEW r \in 0 .. MaxRuns, NEW stored,
           stored.status \in StatusSet, stored.trust \in 0 .. 2, NEW kind \in {"bff", "live"}, NEW i \in 0 .. MaxRuns
    PROVE  Asked(call, r, <<kind, i>>, stored) \in Requests
BY DEF Asked, Requests, Calls

LEMMA NoRunShape ==
    /\ NoRun \in StoredRuns
    /\ \A t \in 0 .. 2 : [NoRun EXCEPT !.trust = t] \in StoredRuns
    /\ 0 \in 0 .. MaxRuns /\ RunIds \subseteq 0 .. MaxRuns
<1>1. 0 \in 0 .. MaxRuns /\ RunIds \subseteq 0 .. MaxRuns
  BY RunBoundAssumption DEF RunIds
<1>2. NoRun \in StoredRuns
  BY <1>1, Ranks DEF NoRun, StoredRuns, Classes
<1>3. \A t \in 0 .. 2 : [NoRun EXCEPT !.trust = t] \in StoredRuns
  BY <1>2 DEF StoredRuns
<1> QED BY <1>1, <1>2, <1>3

LEMMA ArriveStep ==
    ASSUME IInv, NEW h \in Handlers, Arrive(h)
    PROVE  Kept
<1> USE NoRunShape
<1>1. Shapes /\ StoreBehind
  BY DEF IInv
<1>2. ASSUME NEW route \in StartRoutes, SubmitStart(h, route)
      PROVE  Kept
  <2> DEFINE q == Asked("start", 0, LiveId(0), NoRun)
  <2>1. q \in Requests
    BY AskedShape DEF LiveId, Calls, StoredRuns
  <2>2. CallBehind(q)
    BY DEF CallBehind, AskedBehind, Asked
  <2>3. request' = [request EXCEPT ![h] = q] /\ UNCHANGED <<store, orch>>
    BY <1>2 DEF SubmitStart, Ask, Asked
  <2> HIDE DEF q
  <2> QED BY <2>1, <2>2, <2>3, AskStep
<1>3. ASSUME NEW r \in Stored, NEW call \in {"run", "workflow", "traceability", "forward"},
             NEW stored \in StoredRuns,
             store[r].live # 0, stored.trust <= store[r].trust,
             call \in {"run", "workflow"} => stored.status \in {"starting", store[r].status},
             Ask(h, call, r, LiveId(store[r].live), stored), UNCHANGED <<store, orch>>
      PROVE  Kept
  <2> DEFINE q == Asked(call, r, LiveId(store[r].live), stored)
  <2>0. /\ r \in RunIds /\ store[r] \in StoredRuns
        /\ store[r].mode = "live" /\ store[r].live \in RunIds
        /\ Behind(store[r], orch[store[r].live])
        /\ orch[store[r].live] \in LiveRuns
    BY <1>1, <1>3 DEF Stored, Shapes, StoreBehind
  <2>1. q \in Requests
    BY <1>3, <2>0, AskedShape DEF LiveId, Calls, StoredRuns
  <2>2. CallBehind(q)
    <3>1. /\ q.at = "asked" /\ q.call = call /\ q.run = r /\ q.id = LiveId(store[r].live)
          /\ q.was.status = stored.status /\ q.was.trust = stored.trust
      BY DEF Asked
    <3>2. AboutLive(q) /\ OrchOf(q) = orch[store[r].live]
      BY <2>0, <3>1 DEF AboutLive, OrchOf
    <3>3. call \in {"run", "workflow"} => WasBehind(q)
      BY <1>3, <2>0, <3>1, <3>2 DEF WasBehind, Behind, StoredRuns, LiveRuns, Terminal
    <3>4. call = "run" => Rank(q.was.status) <= Rank(OrchOf(q).status)
      BY <1>3, <2>0, <3>1, <3>2, Ranks DEF Behind, Rank
    <3> HIDE DEF q
    <3> QED BY <1>3, <3>1, <3>2, <3>3, <3>4 DEF CallBehind, AskedBehind
  <2>3. request' = [request EXCEPT ![h] = q]
    BY <1>3 DEF Ask, Asked
  <2> HIDE DEF q
  <2> QED BY <1>3, <2>1, <2>2, <2>3, AskStep
<1>4. ASSUME NEW r \in Stored, GetRun(h, r) \/ PollWorkflow(h, r) \/ PollTraceability(h, r)
                                \/ \E route \in ForwardRoutes : Forward(h, route, r)
      PROVE  Kept
  <2>1. r \in RunIds /\ store[r] \in StoredRuns /\ store[r].trust \in 0 .. 2
    BY <1>1 DEF Stored, Shapes, StoredRuns
  <2>2. [NoRun EXCEPT !.trust = store[r].trust] \in StoredRuns
        /\ [NoRun EXCEPT !.trust = store[r].trust].trust = store[r].trust
        /\ [NoRun EXCEPT !.trust = store[r].trust].status = "starting"
        /\ NoRun.trust = 0
    BY <2>1 DEF NoRun
  <2>3. CASE GetRun(h, r)
    BY <1>3, <2>1, <2>3 DEF GetRun, Refreshable
  <2>4. CASE PollWorkflow(h, r)
    <3> DEFINE stored == [NoRun EXCEPT !.trust = store[r].trust]
    <3>1. stored \in StoredRuns /\ stored.trust <= store[r].trust
          /\ stored.status = "starting"
      BY <2>1, <2>2
    <3>2. /\ Ask(h, "workflow", r, LiveId(store[r].live), stored)
          /\ store[r].live # 0 /\ UNCHANGED <<store, orch>>
      BY <2>4 DEF PollWorkflow, Refreshable
    <3> HIDE DEF stored
    <3> QED BY <1>3, <3>1, <3>2
  <2>5. CASE PollTraceability(h, r)
    BY <1>3, <2>1, <2>2, <2>5 DEF PollTraceability, Refreshable
  <2>6. CASE \E route \in ForwardRoutes : Forward(h, route, r)
    BY <1>3, <2>1, <2>2, <2>6 DEF Forward
  <2> QED BY <1>4, <2>3, <2>4, <2>5, <2>6
<1>5. ASSUME NEW r \in Stored, SubmitDecision(h, r)
      PROVE  Kept
  <2> DEFINE q == Asked("decision", r, BffId(r), NoRun)
  <2>0. r \in RunIds
    BY DEF Stored
  <2>1. q \in Requests
    BY <2>0, AskedShape DEF BffId, Calls, StoredRuns
  <2>2. CallBehind(q)
    BY <2>0 DEF CallBehind, AskedBehind, Asked
  <2>3. request' = [request EXCEPT ![h] = q] /\ UNCHANGED <<store, orch>>
    BY <1>5 DEF SubmitDecision, Ask, Asked
  <2> HIDE DEF q
  <2> QED BY <2>1, <2>2, <2>3, AskStep
<1>6. CASE StartDiagnosticFixture(h)
  <2> DEFINE made == [NoRun EXCEPT !.mode = "diagnostic-fixture", !.status = "completed"]
  <2>1. PICK r \in Unused(Stored) : store' = [store EXCEPT ![r] = made]
    BY <1>6 DEF StartDiagnosticFixture
  <2>2. r \in RunIds /\ store[r].mode = "none" /\ UNCHANGED <<orch, request>>
    BY <1>6 DEF StartDiagnosticFixture, Unused, Stored
  <2>3. made \in StoredRuns /\ made.mode = "diagnostic-fixture" /\ made.live = 0
    BY Ranks DEF NoRun, StoredRuns, Classes
  <2> HIDE DEF made
  <2>4. \A i \in RunIds : store'[i] = IF i = r THEN made ELSE store[i]
    BY <1>1, <2>1, <2>2 DEF Shapes
  <2>5. Shapes'
    BY <1>1, <2>1, <2>2, <2>3 DEF Shapes
  <2>6. OrchKept
    BY <1>1, <2>2, OrchSame
  <2>7. StoreBehind' /\ StoreKept
    BY <1>1, <2>2, <2>3, <2>4 DEF StoreBehind, StoreKept, Behind
  <2> QED BY <2>2, <2>5, <2>6, <2>7, CallStep
<1> QED BY <1>2, <1>4, <1>5, <1>6 DEF Arrive, PollRun, WatchRun

-----------------------------------------------------------------------------
(* Calls that are answered.                                                 *)

\* A waiting call, and what is kept of it with its answer.
LEMMA WaitingCall ==
    ASSUME IInv, NEW h \in Handlers, request[h].at = "asked"
    PROVE  /\ request[h] \in Requests /\ AskedBehind(request[h])
           /\ request[h].call \in Calls /\ request[h].run \in 0 .. MaxRuns
           /\ request[h].was \in Was
           /\ request[h].id[1] \in {"bff", "live"} /\ request[h].id[2] \in 0 .. MaxRuns
<1>1. request[h] \in Requests \cup Answered /\ CallBehind(request[h])
  BY DEF IInv, Shapes
<1>2. request[h] \in Requests /\ request[h] # Idle
  BY <1>1 DEF Answered, Idle
<1> QED BY <1>1, <1>2 DEF CallBehind, Requests, Calls, Was

LEMMA AnswerStep ==
    ASSUME IInv, NEW h \in Handlers, NEW a \in Answers, request[h].at = "asked",
           Answer(h, a), UNCHANGED store,
           orch' \in [RunIds -> LiveRuns], OrchKept,
           request'[h] = [at |-> "answered", call |-> request[h].call,
                          run |-> request[h].run, was |-> request[h].was, answer |-> a]
                => AnswerBehind(request[h])'
    PROVE  Kept
<1>1. /\ request'[h] = [at |-> "answered", call |-> request[h].call,
                        run |-> request[h].run, was |-> request[h].was, answer |-> a]
      /\ \A g \in Handlers : g # h => request'[g] = request[g]
  BY DEF Answer, IInv, Shapes
<1>2. request'[h] \in Answered
  BY <1>1, WaitingCall DEF Answered
<1>3. request' \in [Handlers -> Requests \cup Answered]
  BY <1>1, <1>2 DEF Answer, IInv, Shapes
<1>4. Shapes'
  BY <1>3 DEF IInv, Shapes
<1>5. StoreBehind' /\ StoreKept
  BY <1>4, StoreStays DEF IInv
<1>6. CallBehind(request[h])'
  BY <1>1 DEF CallBehind
<1> QED BY <1>1, <1>4, <1>5, <1>6, CallStep

\* A handler is done with its call.
LEMMA FinishStep ==
    ASSUME IInv, NEW h \in Handlers, Finish(h), store' \in [RunIds -> StoredRuns],
           UNCHANGED orch, StoreBehind', StoreKept
    PROVE  Kept
<1>1. \A g \in Handlers : request'[g] = IF g = h THEN Idle ELSE request[g]
  BY DEF Finish, IInv, Shapes
<1>2. Shapes'
  BY DEF Finish, IInv, Shapes, Requests
<1>3. CallBehind(request[h])'
  BY <1>1 DEF CallBehind, Idle
<1>4. OrchKept
  BY OrchSame DEF IInv
<1> QED BY <1>1, <1>2, <1>3, <1>4, CallStep

\* A call about a live run is answered from that run.
LEMMA AskedOf ==
    ASSUME IInv, NEW h \in Handlers, request[h].at = "asked",
           request[h].call \in {"run", "workflow", "traceability", "forward"}
    PROVE  /\ AboutLive(request[h])
           /\ request[h].id[2] = store[request[h].run].live
           /\ OrchOf(request[h]) = orch[request[h].id[2]]
           /\ orch[request[h].id[2]] \in LiveRuns
           /\ orch[request[h].id[2]].status \in StatusSet
<1>1. AskedBehind(request[h])
  BY WaitingCall
<1>2. /\ AboutLive(request[h]) /\ request[h].id[2] = store[request[h].run].live
  BY <1>1 DEF AskedBehind, LiveId
<1>3. /\ store[request[h].run].live \in RunIds
      /\ orch[store[request[h].run].live].status # "none"
  BY <1>2 DEF AboutLive, IInv, StoreBehind, Behind
<1> QED BY <1>2, <1>3 DEF OrchOf, IInv, Shapes, LiveRuns

LEMMA ServeStep ==
    ASSUME IInv, NEW h \in Handlers, Serve(h)
    PROVE  Kept
<1>0. Shapes /\ StoreBehind /\ orch \in [RunIds -> LiveRuns]
  BY DEF IInv, Shapes
<1>1. CASE UNCHANGED <<store, orch>> /\ Answer(h, Refused) /\ request[h].at = "asked"
  <2>1. OrchKept
    BY <1>0, <1>1, OrchSame
  <2>2. AskedBehind(request[h]) /\ request[h].call \in Calls
    BY <1>1, WaitingCall
  <2>3. ASSUME request'[h] = [at |-> "answered", call |-> request[h].call,
                     run |-> request[h].run, was |-> request[h].was, answer |-> Refused]
        PROVE  AnswerBehind(request[h])'
    BY <1>1, <2>2, <2>3 DEF AskedBehind, AnswerBehind, WasBehind, AboutLive, OrchOf, Refused
  <2> QED BY <1>0, <1>1, <2>1, <2>3, AnswerStep DEF Answers
<1>2. ASSUME OrchestratorStarts(h), NEW l \in Unused(Known),
             orch' = [orch EXCEPT ![l] = Accepted],
             \/ Answer(h, [ok |-> TRUE, live |-> l, status |-> "starting"])
             \/ Answer(h, Refused)
      PROVE  Kept
  <2>1. l \in RunIds /\ orch[l].status = "none"
    BY DEF Unused, Known
  <2>2. Accepted \in LiveRuns /\ Accepted.status = "starting"
    <3>1. NoLive \in LiveRuns
      BY Ranks DEF NoLive, LiveRuns, Classes
    <3> QED BY <3>1, Ranks DEF Accepted, LiveRuns
  <2>3. \A i \in RunIds : orch'[i] = IF i = l THEN Accepted ELSE orch[i]
    BY <1>0, <1>2
  <2>4. orch' \in [RunIds -> LiveRuns]
    BY <1>0, <1>2, <2>2
  <2>5. OrchKept
    BY <1>0, <2>1, <2>3, Ranks DEF OrchKept, Later, LiveRuns
  <2>6. request[h].at = "asked" /\ request[h].call = "start" /\ UNCHANGED store
    BY <1>2 DEF OrchestratorStarts, Waiting
  <2>7. CASE Answer(h, [ok |-> TRUE, live |-> l, status |-> "starting"])
    <3> DEFINE a == [ok |-> TRUE, live |-> l, status |-> "starting"]
    <3>1. a \in Answers /\ a.live = l /\ a.status = "starting"
      BY <2>1 DEF Answers
    <3> HIDE DEF a
    <3>2. ASSUME request'[h] = [at |-> "answered", call |-> request[h].call,
                     run |-> request[h].run, was |-> request[h].was, answer |-> a]
          PROVE  AnswerBehind(request[h])'
      BY <2>1, <2>2, <2>3, <2>6, <3>1, <3>2 DEF AnswerBehind
    <3>3. Answer(h, a)
      BY <2>7 DEF a
    <3> QED BY <2>4, <2>5, <2>6, <3>1, <3>2, <3>3, AnswerStep
  <2>8. CASE Answer(h, Refused)
    <3>1. ASSUME request'[h] = [at |-> "answered", call |-> request[h].call,
                     run |-> request[h].run, was |-> request[h].was, answer |-> Refused]
          PROVE  AnswerBehind(request[h])'
      BY <2>6, <3>1 DEF AnswerBehind, Refused
    <3> QED BY <2>4, <2>5, <2>6, <2>8, <3>1, AnswerStep DEF Answers
  <2> QED BY <1>2, <2>7, <2>8
<1>3. ASSUME RunIsServed(h) PROVE Kept
  <2>1. request[h].at = "asked" /\ request[h].call = "run" /\ UNCHANGED <<store, orch>>
    BY <1>3 DEF RunIsServed, Waiting
  <2> DEFINE l == request[h].id[2]
             a == [ok |-> TRUE, status |-> orch[l].status]
  <2>2. OrchOf(request[h]) = orch[l] /\ AboutLive(request[h])
        /\ orch[l].status \in StatusSet
    BY <2>1, AskedOf
  <2>3. a \in Answers /\ a.status = orch[l].status
    BY <2>2 DEF Answers
  <2>4. Answer(h, a)
    BY <1>3 DEF RunIsServed
  <2>5. AskedBehind(request[h])
    BY <2>1, WaitingCall
  <2> HIDE DEF a, l
  <2>6. ASSUME request'[h] = [at |-> "answered", call |-> request[h].call,
                     run |-> request[h].run, was |-> request[h].was, answer |-> a]
        PROVE  AnswerBehind(request[h])'
    BY <2>1, <2>2, <2>3, <2>5, <2>6, Ranks
       DEF AskedBehind, AnswerBehind, WasBehind, AboutLive, OrchOf
  <2>7. OrchKept
    BY <1>0, <2>1, OrchSame
  <2> QED BY <1>0, <2>1, <2>3, <2>4, <2>6, <2>7, AnswerStep
<1>4. ASSUME WorkflowIsServed(h) PROVE Kept
  <2>1. request[h].at = "asked" /\ request[h].call = "workflow" /\ UNCHANGED <<store, orch>>
    BY <1>4 DEF WorkflowIsServed, Waiting
  <2> DEFINE l == request[h].id[2]
             a == [ok |-> TRUE, class |-> orch[l].class, trust |-> orch[l].trust]
  <2>2. OrchOf(request[h]) = orch[l] /\ AboutLive(request[h]) /\ orch[l] \in LiveRuns
    BY <2>1, AskedOf
  <2>3. /\ a \in Answers /\ a.class = orch[l].class /\ a.trust = orch[l].trust
        /\ orch[l].class \in Classes /\ orch[l].trust \in 0 .. 2
    BY <2>2 DEF Answers, LiveRuns
  <2>4. Answer(h, a)
    BY <1>4 DEF WorkflowIsServed
  <2>5. AskedBehind(request[h])
    BY <2>1, WaitingCall
  <2> HIDE DEF a, l
  <2>6. ASSUME request'[h] = [at |-> "answered", call |-> request[h].call,
                     run |-> request[h].run, was |-> request[h].was, answer |-> a]
        PROVE  AnswerBehind(request[h])'
    BY <2>1, <2>2, <2>3, <2>5, <2>6
       DEF AskedBehind, AnswerBehind, WasBehind, AboutLive, OrchOf
  <2>7. OrchKept
    BY <1>0, <2>1, OrchSame
  <2> QED BY <1>0, <2>1, <2>3, <2>4, <2>6, <2>7, AnswerStep
<1>5. ASSUME TraceabilityIsServed(h) PROVE Kept
  <2>1. request[h].at = "asked" /\ request[h].call = "traceability"
        /\ UNCHANGED <<store, orch>>
    BY <1>5 DEF TraceabilityIsServed, Waiting
  <2> DEFINE l == request[h].id[2]
             a == [ok |-> TRUE, regions |-> orch[l].java]
  <2>2. OrchOf(request[h]) = orch[l] /\ AboutLive(request[h]) /\ orch[l] \in LiveRuns
    BY <2>1, AskedOf
  <2>3. a \in Answers /\ a.regions = orch[l].java /\ orch[l].java \in BOOLEAN
    BY <2>2 DEF Answers, LiveRuns
  <2>4. Answer(h, a)
    BY <1>5 DEF TraceabilityIsServed
  <2> HIDE DEF a, l
  <2>5. ASSUME request'[h] = [at |-> "answered", call |-> request[h].call,
                     run |-> request[h].run, was |-> request[h].was, answer |-> a]
        PROVE  AnswerBehind(request[h])'
    BY <2>1, <2>2, <2>3, <2>5 DEF AnswerBehind, AboutLive, OrchOf
  <2>6. OrchKept
    BY <1>0, <2>1, OrchSame
  <2> QED BY <1>0, <2>1, <2>3, <2>4, <2>5, <2>6, AnswerStep
<1>6. ASSUME DecisionIsServed(h) PROVE Kept
  <2>1. request[h].at = "asked" /\ request[h].call = "decision" /\ UNCHANGED store
    BY <1>6 DEF DecisionIsServed, Waiting
  <2>2. request[h].id[1] = "bff"
    BY <2>1, WaitingCall DEF AskedBehind, BffId
  <2>3. Answer(h, Refused) /\ UNCHANGED orch
    BY <1>6, <2>2 DEF DecisionIsServed
  <2> QED BY <1>1, <2>1, <2>3
<1>7. ASSUME ForwardAnswered(h) PROVE Kept
  <2>1. Finish(h) /\ UNCHANGED <<store, orch>>
    BY <1>7 DEF ForwardAnswered
  <2>2. StoreBehind' /\ StoreKept
    BY <1>0, <2>1 DEF StoreBehind, StoreKept, Behind
  <2> QED BY <1>0, <2>1, <2>2, FinishStep DEF Shapes
<1>8. OrchestratorStarts(h) => Kept
  BY <1>1, <1>2 DEF OrchestratorStarts, Waiting
<1>9. CallFails(h) => Kept
  BY <1>1 DEF CallFails
<1> QED BY <1>3, <1>4, <1>5, <1>6, <1>7, <1>8, <1>9 DEF Serve

-----------------------------------------------------------------------------
(* Handlers that go on with an answer.                                      *)

\* An answered call, and what is known of its answer.
LEMMA AnsweredCall ==
    ASSUME IInv, NEW h \in Handlers, request[h].at = "answered"
    PROVE  /\ request[h] \in Answered /\ AnswerBehind(request[h])
           /\ request[h].was \in Was /\ request[h].run \in 0 .. MaxRuns
<1>1. request[h] \in Requests \cup Answered /\ CallBehind(request[h])
  BY DEF IInv, Shapes
<1>2. request[h] \in Answered
  BY <1>1 DEF Requests, Idle
<1> QED BY <1>1, <1>2 DEF CallBehind, Answered

\* A run is stored that is not ahead of the orchestrator.
LEMMA StorePut ==
    ASSUME IInv, NEW r \in RunIds, NEW s \in StoredRuns,
           store' = [store EXCEPT ![r] = s], UNCHANGED orch,
           s.mode = "live", s.live \in RunIds, Behind(s, orch[s.live]),
           store[r].mode = "live" => s.live = store[r].live
    PROVE  StoreBehind' /\ StoreKept /\ store' \in [RunIds -> StoredRuns]
<1>1. \A i \in RunIds : store'[i] = IF i = r THEN s ELSE store[i]
  BY DEF IInv, Shapes
<1>2. store' \in [RunIds -> StoredRuns]
  BY DEF IInv, Shapes
<1>3. StoreBehind'
  BY <1>1 DEF IInv, StoreBehind, Behind
<1> QED BY <1>1, <1>2, <1>3 DEF StoreKept

\* The run of an answered poll.
LEMMA AnsweredOf ==
    ASSUME IInv, NEW h \in Handlers, request[h].at = "answered",
           request[h].call \in {"run", "workflow", "traceability"}
    PROVE  LET r == request[h].run IN
           /\ r \in RunIds /\ store[r] \in StoredRuns /\ store[r].mode = "live"
           /\ store[r].live \in RunIds /\ orch[store[r].live] \in LiveRuns
           /\ Behind(store[r], orch[store[r].live])
           /\ OrchOf(request[h]) = orch[store[r].live]
<1>1. AboutLive(request[h])
  BY AnsweredCall DEF AnswerBehind
<1> QED BY <1>1 DEF AboutLive, OrchOf, IInv, Shapes, StoreBehind

LEMMA ResumeStep ==
    ASSUME IInv, NEW h \in Handlers, Resume(h)
    PROVE  Kept
<1> DEFINE a == request[h].answer
           r == request[h].run
<1>0. ASSUME UNCHANGED <<store, orch>>, Finish(h) PROVE Kept
  <2>1. StoreBehind' /\ StoreKept
    BY <1>0 DEF StoreBehind, StoreKept, Behind, IInv
  <2> QED BY <1>0, <2>1, FinishStep DEF IInv, Shapes
<1>1. ASSUME NEW s \in StoredRuns, store' = [store EXCEPT ![r] = s],
             UNCHANGED orch, Finish(h),
             request[h].at = "answered", request[h].call \in {"workflow", "traceability"},
             s.mode = "live", s.live = store[r].live, Behind(s, orch[s.live])
      PROVE  Kept
  <2>1. r \in RunIds /\ s.live \in RunIds
    BY <1>1, AnsweredOf
  <2> HIDE DEF r
  <2> QED BY <1>1, <2>1, StorePut, FinishStep
<1>2. ASSUME FinishStart(h) PROVE Kept
  <2>1. request[h].at = "answered" /\ request[h].call = "start"
        /\ Finish(h) /\ UNCHANGED orch
    BY <1>2 DEF FinishStart, Returned
  <2>2. CASE a.ok
    <3>1. a.live \in RunIds /\ orch[a.live].status # "none" /\ a.status = "starting"
      BY <2>1, <2>2, AnsweredCall DEF AnswerBehind
    <3> DEFINE made == [NoRun EXCEPT !.mode = "live", !.live = a.live,
                                     !.status = CoerceLiveStatus(a.status)]
    <3>2. PICK i \in Unused(Stored) : store' = [store EXCEPT ![i] = made]
      BY <1>2, <2>2 DEF FinishStart
    <3>3. i \in RunIds /\ store[i].mode = "none"
      BY DEF Unused, Stored
    <3>4. /\ made.mode = "live" /\ made.live = a.live /\ made.status = "starting"
          /\ made.class = "none" /\ made.trust = 0 /\ ~made.regions
          /\ made \in StoredRuns
      <4>1. CoerceLiveStatus(a.status) = "starting"
        BY <3>1, Ranks DEF CoerceLiveStatus
      <4>2. made = [NoRun EXCEPT !.mode = "live", !.live = a.live, !.status = "starting"]
        BY <4>1
      <4>3. /\ NoRun \in StoredRuns /\ NoRun.class = "none" /\ NoRun.trust = 0
            /\ ~NoRun.regions
        BY NoRunShape DEF NoRun
      <4>4. a.live \in 0 .. MaxRuns /\ "starting" \in StatusSet
        BY <3>1, NoRunShape, Ranks
      <4> HIDE DEF a, made
      <4> QED BY <4>2, <4>3, <4>4 DEF StoredRuns
    <3> HIDE DEF a, made
    <3>5. orch[a.live] \in LiveRuns
      BY <3>1 DEF IInv, Shapes
    <3>6. Behind(made, orch[a.live])
      BY <3>1, <3>4, <3>5, Ranks DEF Behind, LiveRuns, Rank, Terminal
    <3> QED BY <2>1, <3>1, <3>2, <3>3, <3>4, <3>6, StorePut, FinishStep
  <2>3. CASE ~a.ok
    BY <1>0, <1>2, <2>1, <2>3 DEF FinishStart
  <2> QED BY <2>2, <2>3
<1>3. ASSUME ApplyWorkflow(h) PROVE Kept
  <2>1. request[h].at = "answered" /\ request[h].call = "workflow"
        /\ Finish(h) /\ UNCHANGED orch
    BY <1>3 DEF ApplyWorkflow, AnswerPoll, Returned
  <2>2. CASE a.ok
    <3> DEFINE s == SnapshotPatch(store[r], request[h].was, a)
    <3>1. store' = [store EXCEPT ![r] = s]
      BY <1>3, <2>2 DEF ApplyWorkflow, AnswerPoll
    <3>2. /\ store[r] \in StoredRuns /\ store[r].mode = "live" /\ store[r].live \in RunIds
          /\ orch[store[r].live] \in LiveRuns /\ Behind(store[r], orch[store[r].live])
          /\ OrchOf(request[h]) = orch[store[r].live]
      BY <2>1, AnsweredOf
    <3>3. /\ a.class \in Classes /\ a.trust \in 0 .. 2
          /\ a.class # "none" => a.class = orch[store[r].live].class
          /\ a.trust <= orch[store[r].live].trust
          /\ request[h].was.trust <= orch[store[r].live].trust
          /\ request[h].was.trust \in 0 .. 2
      BY <2>1, <2>2, <3>2, AnsweredCall DEF AnswerBehind, WasBehind, Was
    <3> DEFINE now == IF a.trust # 0 THEN a.trust ELSE request[h].was.trust
               trust == IF now # 0 THEN now ELSE store[r].trust
    <3>4. s = [store[r] EXCEPT !.class = a.class, !.trust = trust]
      BY DEF SnapshotPatch
    <3>5. trust \in 0 .. 2 /\ trust <= orch[store[r].live].trust
      BY <3>2, <3>3 DEF StoredRuns, Behind
    <3> HIDE DEF trust, now, s, a, r
    <3>6. /\ s \in StoredRuns /\ s.mode = "live" /\ s.live = store[r].live
          /\ s.class = a.class /\ s.trust = trust /\ s.status = store[r].status
          /\ s.regions = store[r].regions
      BY <3>2, <3>3, <3>4, <3>5 DEF StoredRuns
    <3>7. Behind(s, orch[s.live])
      BY <3>2, <3>3, <3>5, <3>6 DEF Behind
    <3> QED BY <1>1, <2>1, <3>1, <3>6, <3>7 DEF r
  <2>3. CASE ~a.ok
    BY <1>0, <1>3, <2>1, <2>3 DEF ApplyWorkflow, AnswerPoll
  <2> QED BY <2>2, <2>3
<1>4. ASSUME ApplyTraceability(h) PROVE Kept
  <2>1. request[h].at = "answered" /\ request[h].call = "traceability"
        /\ Finish(h) /\ UNCHANGED orch
    BY <1>4 DEF ApplyTraceability, Returned
  <2>2. CASE a.ok
    <3> DEFINE s == [store[r] EXCEPT !.regions = a.regions]
    <3>2. /\ r \in RunIds
          /\ store[r] \in StoredRuns /\ store[r].mode = "live" /\ store[r].live \in RunIds
          /\ orch[store[r].live] \in LiveRuns /\ Behind(store[r], orch[store[r].live])
          /\ OrchOf(request[h]) = orch[store[r].live]
      BY <2>1, AnsweredOf
    <3>1. store' = [store EXCEPT ![r] = s]
      BY <1>4, <2>2, <3>2 DEF ApplyTraceability, IInv, Shapes
    <3>3. a.regions \in BOOLEAN /\ (a.regions => orch[store[r].live].java)
      BY <2>1, <2>2, <3>2, AnsweredCall DEF AnswerBehind
    <3> HIDE DEF s, a, r
    <3>4. /\ s \in StoredRuns /\ s.mode = "live" /\ s.live = store[r].live
          /\ s.class = store[r].class /\ s.trust = store[r].trust
          /\ s.status = store[r].status /\ s.regions = a.regions
      BY <3>2, <3>3 DEF StoredRuns, s
    <3>5. Behind(s, orch[s.live])
      BY <3>2, <3>3, <3>4 DEF Behind
    <3> QED BY <1>1, <2>1, <3>1, <3>4, <3>5 DEF r
  <2>3. CASE ~a.ok
    BY <1>0, <1>4, <2>1, <2>3 DEF ApplyTraceability
  <2> QED BY <2>2, <2>3
<1>5. ASSUME ApplyDecision(h) PROVE Kept
  <2>1. ~a.ok
    BY <1>5, AnsweredCall DEF ApplyDecision, Returned, AnswerBehind
  <2> QED BY <1>0, <1>5, <2>1 DEF ApplyDecision
<1>6. ASSUME ApplyRun(h) PROVE Kept
  <2>1. request[h].at = "answered" /\ request[h].call = "run" /\ UNCHANGED orch
    BY <1>6 DEF ApplyRun, Returned
  <2>2. /\ r \in RunIds
        /\ store[r] \in StoredRuns /\ store[r].mode = "live" /\ store[r].live \in RunIds
        /\ orch[store[r].live] \in LiveRuns /\ Behind(store[r], orch[store[r].live])
        /\ OrchOf(request[h]) = orch[store[r].live]
    BY <2>1, AnsweredOf
  <2> DEFINE fresh == [store[r] EXCEPT !.status = CoerceLiveStatus(a.status)]
             kept == IF a.ok THEN fresh ELSE store[r]
             left == IF a.ok THEN fresh ELSE request[h].was
  <2>3. store' = [store EXCEPT ![r] = kept]
    BY <1>6, <2>2 DEF ApplyRun, IInv, Shapes
  <2>4. Ask(h, "workflow", r, LiveId(store[r].live), left)
    BY <1>6 DEF ApplyRun
  <2>5. /\ a.ok => /\ a.status \in StatusSet
                   /\ Rank(a.status) <= Rank(orch[store[r].live].status)
                   /\ a.status \in Terminal => a.status = orch[store[r].live].status
        /\ request[h].was.trust <= orch[store[r].live].trust
        /\ request[h].was.status \in Terminal =>
              request[h].was.status = orch[store[r].live].status
        /\ request[h].was.trust \in 0 .. 2 /\ request[h].was.status \in StatusSet
    BY <2>1, <2>2, AnsweredCall DEF AnswerBehind, WasBehind, Was
  <2>6. a.ok => CoerceLiveStatus(a.status) = a.status
    BY <2>5 DEF CoerceLiveStatus
  <2> HIDE DEF a, r
  <2>7. /\ kept \in StoredRuns /\ kept.mode = "live" /\ kept.live = store[r].live
        /\ kept.class = store[r].class /\ kept.trust = store[r].trust
        /\ kept.status = IF a.ok THEN a.status ELSE store[r].status
        /\ kept.regions = store[r].regions
    BY <2>2, <2>5, <2>6 DEF StoredRuns
  <2>8. /\ left.trust = IF a.ok THEN store[r].trust ELSE request[h].was.trust
        /\ left.status = IF a.ok THEN a.status ELSE request[h].was.status
    BY <2>2, <2>5, <2>6 DEF StoredRuns
  <2>9. /\ left.trust \in 0 .. 2 /\ left.trust <= orch[store[r].live].trust
        /\ left.status \in StatusSet
        /\ left.status \in Terminal => left.status = orch[store[r].live].status
    BY <2>2, <2>5, <2>8 DEF StoredRuns, Behind
  <2> HIDE DEF fresh, kept, left
  <2>10. Behind(kept, orch[kept.live])
    BY <2>2, <2>5, <2>7 DEF Behind
  <2>11. StoreBehind' /\ StoreKept /\ store' \in [RunIds -> StoredRuns]
    BY <2>1, <2>2, <2>3, <2>7, <2>10, StorePut
  <2> DEFINE q == Asked("workflow", r, LiveId(store[r].live), left)
  <2>12. request' = [request EXCEPT ![h] = q]
    BY <2>4 DEF Ask, Asked
  <2>13. q \in Requests
    BY <2>2, <2>9, NoRunShape, AskedShape DEF LiveId, Calls
  <2>14. /\ q.at = "asked" /\ q.call = "workflow" /\ q.run = r
         /\ q.id = LiveId(store[r].live)
         /\ q.was.trust = left.trust /\ q.was.status = left.status
    BY DEF Asked
  <2> HIDE DEF q
  <2>15. /\ request'[h] = q
         /\ \A g \in Handlers : g # h => request'[g] = request[g]
    BY <2>12 DEF IInv, Shapes
  <2>16. Shapes'
    BY <2>1, <2>11, <2>12, <2>13 DEF IInv, Shapes
  <2>17. store'[r].mode = "live" /\ store'[r].live = store[r].live
    BY <2>2, <2>3, <2>7 DEF IInv, Shapes
  <2>18. CallBehind(request[h])'
    BY <2>1, <2>2, <2>9, <2>14, <2>15, <2>17
       DEF CallBehind, AskedBehind, WasBehind, AboutLive, OrchOf
  <2>19. OrchKept
    BY <2>1, OrchSame DEF IInv
  <2> QED BY <2>11, <2>15, <2>16, <2>18, <2>19, CallStep
<1> QED BY <1>2, <1>3, <1>4, <1>5, <1>6 DEF Resume

-----------------------------------------------------------------------------
(* The orchestrator works on.                                               *)

LEMMA WorkStep ==
    ASSUME IInv, NEW l \in RunIds, Work(l)
    PROVE  Kept
<1>0. Shapes /\ StoreBehind /\ orch[l] \in LiveRuns
  BY DEF IInv, Shapes
<1>1. ASSUME NEW n \in LiveRuns, Progress(l, n), Later(orch[l], n)
      PROVE  Kept
  <2>1. \A i \in RunIds : orch'[i] = IF i = l THEN n ELSE orch[i]
    BY <1>0, <1>1 DEF Progress, Shapes
  <2>2. Shapes' /\ store' = store /\ request' = request
    BY <1>0, <1>1 DEF Progress, Shapes
  <2>3. OrchKept
    BY <1>0, <1>1, <2>1, Ranks DEF OrchKept, Later, Shapes, LiveRuns
  <2>4. StoreBehind' /\ StoreKept
    BY <1>0, <2>2, <2>3, StoreStays
  <2> QED BY <2>2, <2>3, <2>4, CallStep
<1>2. CASE Begin(l)
  <2> DEFINE n == [orch[l] EXCEPT !.status = "updating"]
  <2>1. Progress(l, n) /\ orch[l].status = "starting"
    BY <1>2 DEF Begin
  <2>2. n \in LiveRuns /\ n.status = "updating" /\ n.class = orch[l].class
        /\ n.trust = orch[l].trust /\ n.java = orch[l].java
    BY <1>0, Ranks DEF LiveRuns
  <2> HIDE DEF n
  <2>3. Later(orch[l], n)
    BY <1>0, <2>1, <2>2 DEF Later, LiveRuns, Rank, Terminal
  <2> QED BY <1>1, <2>1, <2>2, <2>3
<1>3. CASE Generate(l)
  <2> DEFINE n == [orch[l] EXCEPT !.java = TRUE]
  <2>1. Progress(l, n) /\ orch[l].status = "updating"
    BY <1>3 DEF Generate
  <2>2. n \in LiveRuns /\ n.status = orch[l].status /\ n.class = orch[l].class
        /\ n.trust = orch[l].trust /\ n.java
    BY <1>0, Ranks DEF LiveRuns
  <2> HIDE DEF n
  <2>3. Later(orch[l], n)
    BY <1>0, <2>1, <2>2, Ranks DEF Later, LiveRuns
  <2> QED BY <1>1, <2>1, <2>2, <2>3
<1>4. ASSUME NEW class \in {"success", "failed"}, Seal(l, class)
      PROVE  Kept
  <2> DEFINE trust == IF orch[l].trust = 0 THEN 1 ELSE orch[l].trust
             n == [orch[l] EXCEPT !.class = class, !.trust = trust]
  <2>1. Progress(l, n) /\ orch[l].status = "updating" /\ orch[l].class = "none"
    BY <1>4 DEF Seal
  <2>2. n \in LiveRuns /\ n.status = orch[l].status
        /\ n.trust = trust /\ n.java = orch[l].java
    <3>1. trust \in 0 .. 2 /\ class \in Classes
      BY <1>0 DEF LiveRuns, Classes
    <3> HIDE DEF trust
    <3> QED BY <1>0, <3>1 DEF LiveRuns
  <2> HIDE DEF n
  <2>3. Later(orch[l], n)
    BY <1>0, <2>1, <2>2, Ranks DEF Later, LiveRuns
  <2> QED BY <1>1, <2>1, <2>2, <2>3
<1>5. CASE Close(l)
  <2> DEFINE status == IF orch[l].class = "success" THEN "completed" ELSE "failed"
             n == [orch[l] EXCEPT !.status = status]
  <2>1. Progress(l, n) /\ orch[l].status = "updating"
    BY <1>5 DEF Close
  <2>2. n \in LiveRuns /\ n.status = status /\ n.class = orch[l].class
        /\ n.trust = orch[l].trust /\ n.java = orch[l].java
    BY <1>0, Ranks DEF LiveRuns
  <2>3. Later(orch[l], n)
    <3>1. Rank(status) = 2 /\ status # "none"
      BY DEF Rank
    <3> HIDE DEF n, status
    <3> QED BY <1>0, <2>1, <2>2, <3>1, Ranks DEF Later, LiveRuns, Terminal
  <2> QED BY <1>1, <2>1, <2>2, <2>3
<1> QED BY <1>2, <1>3, <1>4, <1>5 DEF Work

-----------------------------------------------------------------------------
(* The theorems.                                                            *)

LEMMA Initially == Init => IInv
<1> SUFFICES ASSUME Init PROVE IInv
  OBVIOUS
<1>1. NoLive \in LiveRuns
  BY Ranks DEF NoLive, LiveRuns, Classes
<1>2. Shapes
  BY <1>1, NoRunShape DEF Init, Shapes, Requests
<1>3. StoreBehind
  BY DEF Init, StoreBehind, NoRun
<1>4. \A h \in Handlers : CallBehind(request[h])
  BY DEF Init, CallBehind, Idle
<1> QED BY <1>2, <1>3, <1>4 DEF IInv

\* Neither the store, the orchestrator nor a handler moves.
LEMMA Quiet == IInv /\ UNCHANGED <<store, orch, request>> => Kept
<1> SUFFICES ASSUME IInv, UNCHANGED <<store, orch, request>> PROVE Kept
  OBVIOUS
<1>1. Shapes' /\ OrchKept
  BY OrchSame DEF IInv, Shapes
<1>2. StoreBehind' /\ StoreKept
  BY <1>1, StoreStays DEF IInv
<1> QED BY <1>1, <1>2, CallStep

LEMMA Step == IInv /\ [Next]_vars => Kept
<1> SUFFICES ASSUME IInv, [Next]_vars PROVE Kept
  OBVIOUS
<1>1. ASSUME NEW h \in Handlers, Arrive(h) \/ Serve(h) \/ Resume(h) PROVE Kept
  BY <1>1, ArriveStep, ServeStep, ResumeStep
<1>2. ASSUME NEW l \in RunIds, Work(l) PROVE Kept
  BY <1>2, WorkStep
<1>3. ASSUME NEW r \in RunIds, Leave(r) PROVE Kept
  <2>1. UNCHANGED <<store, orch, request>>
    BY <1>3 DEF Leave
  <2> QED BY <2>1, Quiet
<1>4. ASSUME UNCHANGED vars PROVE Kept
  <2>1. UNCHANGED <<store, orch, request>>
    BY <1>4 DEF vars
  <2> QED BY <2>1, Quiet
<1> QED BY <1>1, <1>2, <1>3, <1>4 DEF Next

\* Whatever handlers interleave and whichever calls fail or lose their answer,
\* nothing that the store or a waiting handler holds is ahead of the
\* orchestrator, and an answered poll is not behind the status it had read
\* (server.ts, the routes that await the orchestrator).
THEOREM Invariance == Spec => []IInv
<1>1. IInv /\ [Next]_vars => IInv'
  BY Step DEF Kept
<1> QED BY <1>1, Initially, PTL DEF Spec

-----------------------------------------------------------------------------
(* The Studio's loops.                                                      *)

LoopsTrue ==
    \A r \in RunIds : watch[r] \in Terminal =>
        store[r].mode = "live" /\ watch[r] = orch[store[r].live].status
WInv == watch \in [RunIds -> Loops] /\ awaited \subseteq Handlers /\ LoopsTrue

\* A loop that has ended stays right while its run moves on.
LEMMA EndStays ==
    ASSUME IInv, WInv, Kept, NEW r \in RunIds, watch[r] \in Terminal
    PROVE  store'[r].mode = "live" /\ watch[r] = orch'[store'[r].live].status
<1>1. /\ store[r].mode = "live" /\ store[r].live \in RunIds
      /\ watch[r] = orch[store[r].live].status
      /\ orch[store[r].live].status # "none"
  BY DEF WInv, LoopsTrue, IInv, StoreBehind, Behind
<1>2. store'[r].mode = "live" /\ store'[r].live = store[r].live
  BY <1>1 DEF Kept, StoreKept
<1>3. orch'[store[r].live].status = orch[store[r].live].status
  BY <1>1 DEF Kept, OrchKept, Later
<1> QED BY <1>1, <1>2, <1>3

\* At most the loop on r changes, to one that has not ended or is right.
LEMMA LoopPut ==
    ASSUME IInv, WInv, Kept, NEW r \in RunIds, NEW loop \in Loops,
           watch' = [watch EXCEPT ![r] = loop], awaited' \subseteq Handlers,
           loop \in Terminal =>
               store'[r].mode = "live" /\ loop = orch'[store'[r].live].status
    PROVE  WInv'
<1>1. \A i \in RunIds : watch'[i] = IF i = r THEN loop ELSE watch[i]
  BY DEF WInv
<1>2. watch' \in [RunIds -> Loops]
  BY DEF WInv
<1>3. LoopsTrue'
  BY <1>1, EndStays DEF LoopsTrue
<1> QED BY <1>2, <1>3 DEF WInv

LEMMA LoopsStay ==
    ASSUME IInv, WInv, Kept, watch' = watch, awaited' \subseteq Handlers
    PROVE  WInv'
<1>1. LoopsTrue'
  BY EndStays DEF LoopsTrue
<1> QED BY <1>1 DEF WInv

\* The status a poll is answered with: not ahead of the run, at its end if it is
\* an end.
LEMMA ToldTrue ==
    ASSUME IInv, NEW h \in Handlers, Returned(h, "workflow"), Told(h) \in Terminal
    PROVE  /\ request[h].run \in RunIds /\ store[request[h].run].mode = "live"
           /\ Told(h) = orch[store[request[h].run].live].status
<1> DEFINE r == request[h].run
<1>1. request[h].at = "answered" /\ request[h].call = "workflow"
  BY DEF Returned
<1>2. /\ r \in RunIds /\ store[r].mode = "live"
      /\ Behind(store[r], orch[store[r].live])
      /\ OrchOf(request[h]) = orch[store[r].live]
  BY <1>1, AnsweredOf
<1>3. WasBehind(request[h])
  BY <1>1, AnsweredCall DEF AnswerBehind
<1>4. CASE request[h].answer.ok
  BY <1>2, <1>4 DEF Told, Behind
<1>5. CASE ~request[h].answer.ok
  BY <1>2, <1>3, <1>5 DEF Told, WasBehind
<1> QED BY <1>2, <1>4, <1>5

LEMMA LoopStep ==
    ASSUME IInv, WInv, [Next]_vars, Kept
    PROVE  WInv'
<1> USE DEF watching
<1>1. /\ {"off", "waiting", "asking"} \subseteq Loops /\ Terminal \subseteq Loops
      /\ \A l \in {"off", "waiting", "asking"} : l \notin Terminal
      /\ awaited \subseteq Handlers
  BY DEF Loops, Terminal, WInv
<1>2. ASSUME NEW h \in Handlers, Arrive(h) PROVE WInv'
  <2>1. ASSUME NEW r \in Stored, WatchRun(h, r) PROVE WInv'
    <3>1. r \in RunIds /\ watch' = [watch EXCEPT ![r] = "asking"]
          /\ awaited' = awaited \cup {h}
      BY <2>1 DEF WatchRun, Stored
    <3> QED BY <1>1, <3>1, LoopPut
  <2>2. CASE ~\E r \in Stored : WatchRun(h, r)
    <3>1. UNCHANGED watching
      BY <1>2, <2>2 DEF Arrive, SubmitStart, StartDiagnosticFixture, PollRun,
                        PollWorkflow, PollTraceability, SubmitDecision, Forward
    <3> QED BY <1>1, <3>1, LoopsStay
  <2> QED BY <2>1, <2>2
<1>3. ASSUME NEW h \in Handlers, Serve(h) PROVE WInv'
  <2>1. UNCHANGED watching
    BY <1>3 DEF Serve, OrchestratorStarts, RunIsServed, WorkflowIsServed,
                TraceabilityIsServed, DecisionIsServed, ForwardAnswered, CallFails
  <2> QED BY <1>1, <2>1, LoopsStay
<1>4. ASSUME NEW h \in Handlers, Resume(h) PROVE WInv'
  <2>1. CASE FinishStart(h)
    <3>1. CASE request[h].answer.ok
      <4>1. PICK r \in Unused(Stored), loop \in {"off", "waiting"} :
                watch' = [watch EXCEPT ![r] = loop]
        BY <2>1, <3>1 DEF FinishStart
      <4>2. r \in RunIds /\ awaited' = awaited
        BY <2>1 DEF FinishStart, Unused
      <4> QED BY <1>1, <4>1, <4>2, LoopPut
    <3>2. CASE ~request[h].answer.ok
      <4>1. UNCHANGED watching
        BY <2>1, <3>2 DEF FinishStart
      <4> QED BY <1>1, <4>1, LoopsStay
    <3> QED BY <3>1, <3>2
  <2>2. ASSUME NEW lost \in BOOLEAN, AnswerPoll(h, lost) PROVE WInv'
    <3> DEFINE r == request[h].run
               loop == IF ~lost /\ Told(h) \in Terminal THEN Told(h) ELSE "waiting"
    <3>1. awaited' = awaited \ {h} /\ Returned(h, "workflow") /\ orch' = orch
      BY <2>2 DEF AnswerPoll
    <3>2. CASE h \notin awaited
      BY <1>1, <2>2, <3>1, <3>2, LoopsStay DEF AnswerPoll
    <3>3. CASE h \in awaited
      <4>1. watch' = [watch EXCEPT ![r] = loop]
        BY <2>2, <3>3 DEF AnswerPoll
      <4>2. r \in RunIds
        BY <3>1, AnsweredOf DEF Returned
      <4>3. loop \in Loops
        BY <1>1
      <4>4. ASSUME loop \in Terminal
            PROVE  store'[r].mode = "live" /\ loop = orch'[store'[r].live].status
        <5>1. loop = Told(h)
          BY <1>1, <4>4
        <5>2. store[r].mode = "live" /\ loop = orch[store[r].live].status
          BY <3>1, <4>4, <5>1, ToldTrue
        <5>3. store'[r].mode = "live" /\ store'[r].live = store[r].live
          BY <4>2, <5>2 DEF Kept, StoreKept
        <5> QED BY <3>1, <5>2, <5>3
      <4> HIDE DEF loop, r
      <4> QED BY <1>1, <3>1, <4>1, <4>2, <4>3, <4>4, LoopPut
    <3> QED BY <3>2, <3>3
  <2>3. CASE ApplyRun(h) \/ ApplyTraceability(h) \/ ApplyDecision(h)
    <3>1. UNCHANGED watching
      BY <2>3 DEF ApplyRun, ApplyTraceability, ApplyDecision
    <3> QED BY <1>1, <3>1, LoopsStay
  <2> QED BY <1>4, <2>1, <2>2, <2>3 DEF Resume, ApplyWorkflow
<1>5. ASSUME NEW r \in RunIds, Leave(r) PROVE WInv'
  <2>1. watch' = [watch EXCEPT ![r] = "off"] /\ awaited' \subseteq awaited
    BY <1>5 DEF Leave
  <2> QED BY <1>1, <2>1, LoopPut
<1>6. ASSUME (\E l \in RunIds : Work(l)) \/ UNCHANGED vars PROVE WInv'
  <2>1. UNCHANGED watching
    BY <1>6 DEF vars, Work, Begin, Generate, Seal, Close, Progress
  <2> QED BY <1>1, <2>1, LoopsStay
<1> QED BY <1>2, <1>3, <1>4, <1>5, <1>6 DEF Next

LEMMA LoopInvariance == Spec => []WInv
<1>1. Init => WInv
  BY DEF Init, WInv, Loops, LoopsTrue, Terminal
<1>2. IInv /\ WInv /\ [Next]_vars => WInv'
  BY Step, LoopStep
<1> QED BY <1>1, <1>2, Invariance, PTL DEF Spec

\* The Studio's loop on a run ends only with what the orchestrator says of the
\* run's end, although the answer was put together over two awaits while other
\* polls wrote the same record (GET run, useRunPolling.ts).
THEOREM LoopsEndTruly == Spec => []LoopEndsWithTheRun
<1>1. WInv => LoopEndsWithTheRun
  BY DEF WInv, LoopsTrue, LoopEndsWithTheRun
<1> QED BY <1>1, LoopInvariance, PTL

\* The stored runs and the waiting calls always have their shapes.
THEOREM TypeCorrect == Spec => []TypeOK
<1>1. IInv /\ WInv => TypeOK
  <2> SUFFICES ASSUME IInv, WInv PROVE TypeOK
    OBVIOUS
  <2>1. \A h \in Handlers : request[h] \in Requests \cup Answered
    BY DEF IInv, Shapes
  <2>2. \A h \in Handlers : request[h].at # "answered" => request[h] \in Requests
    BY <2>1 DEF Answered
  <2> QED BY <2>2 DEF TypeOK, IInv, WInv, Shapes, LiveRuns
<1> QED BY <1>1, Invariance, LoopInvariance, PTL

\* The cache of a run, whatever order its answers were applied in, was true of
\* the orchestrator's run of that id (applyLiveRunPayload,
\* applyWorkflowSnapshotToStore, GET traceability).
THEOREM CacheIsNeverAhead == Spec => []CacheNeverAhead
<1>1. IInv => CacheNeverAhead
  BY DEF IInv, StoreBehind, Behind, CacheNeverAhead, Stored
<1> QED BY <1>1, Invariance, PTL

\* A stored status goes back only when an overlapping poll, that had read an
\* older status, writes its answer (GET run compares nothing).
THEOREM OnlyOverlaps == Spec => OnlyOverlapSetsBack
<1> DEFINE NoSetBack(r) ==
        Rank(store'[r].status) < Rank(store[r].status) =>
            \E h \in Handlers :
                /\ Returned(h, "run") /\ request[h].run = r
                /\ Rank(request[h].was.status) < Rank(store[r].status)
<1>1. ASSUME IInv, NEW r \in Stored, store'[r].status = store[r].status
      PROVE  NoSetBack(r)
  BY <1>1, Ranks
<1>2. ASSUME IInv, [Next]_vars, NEW r \in Stored
      PROVE  NoSetBack(r)
  <2>0. r \in RunIds /\ store \in [RunIds -> StoredRuns] /\ store[r].mode # "none"
    BY <1>2 DEF Stored, IInv, Shapes
  <2>1. ASSUME UNCHANGED store PROVE NoSetBack(r)
    BY <1>1, <1>2, <2>1
  <2>2. ASSUME NEW i \in RunIds, NEW s, store' = [store EXCEPT ![i] = s],
               i # r \/ s.status = store[r].status
        PROVE  NoSetBack(r)
    <3>1. store'[r].status = store[r].status
      BY <2>0, <2>2
    <3> QED BY <1>1, <1>2, <3>1
  <2>3. ASSUME NEW h \in Handlers, Arrive(h) PROVE NoSetBack(r)
    <3>1. CASE StartDiagnosticFixture(h)
      BY <2>0, <2>2, <3>1 DEF StartDiagnosticFixture, Unused, Stored
    <3>2. CASE ~StartDiagnosticFixture(h)
      <4>1. UNCHANGED store
        BY <2>3, <3>2 DEF Arrive, SubmitStart, PollRun, WatchRun, GetRun, PollWorkflow, PollTraceability,
                          SubmitDecision, Forward
      <4> QED BY <2>1, <4>1
    <3> QED BY <3>1, <3>2
  <2>4. ASSUME NEW h \in Handlers, Serve(h) PROVE NoSetBack(r)
    <3>1. UNCHANGED store
      BY <2>4 DEF Serve, OrchestratorStarts, RunIsServed, WorkflowIsServed,
                  TraceabilityIsServed, DecisionIsServed, ForwardAnswered, CallFails
    <3> QED BY <2>1, <3>1
  <2>5. ASSUME NEW h \in Handlers, Resume(h) PROVE NoSetBack(r)
    <3> DEFINE a == request[h].answer
               i == request[h].run
    <3>1. CASE FinishStart(h)
      <4>1. CASE a.ok
        BY <2>0, <2>2, <3>1, <4>1 DEF FinishStart, Unused, Stored
      <4>2. CASE ~a.ok
        BY <2>1, <3>1, <4>2 DEF FinishStart
      <4> QED BY <4>1, <4>2
    <3>2. CASE ApplyWorkflow(h)
      <4>1. request[h].at = "answered" /\ request[h].call = "workflow"
        BY <3>2 DEF ApplyWorkflow, AnswerPoll, Returned
      <4>2. i \in RunIds /\ store[i] \in StoredRuns
        BY <1>2, <4>1, AnsweredOf
      <4>3. SnapshotPatch(store[i], request[h].was, a).status = store[i].status
        BY <4>2 DEF SnapshotPatch, StoredRuns
      <4>4. CASE a.ok
        BY <2>2, <3>2, <4>2, <4>3, <4>4 DEF ApplyWorkflow, AnswerPoll
      <4>5. CASE ~a.ok
        BY <2>1, <3>2, <4>5 DEF ApplyWorkflow, AnswerPoll
      <4> QED BY <4>4, <4>5
    <3>3. CASE ApplyTraceability(h)
      <4>1. request[h].at = "answered" /\ request[h].call = "traceability"
        BY <3>3 DEF ApplyTraceability, Returned
      <4>2. i \in RunIds /\ store[i] \in StoredRuns
        BY <1>2, <4>1, AnsweredOf
      <4>3. CASE a.ok
        <5> DEFINE s == [store[i] EXCEPT !.regions = a.regions]
        <5>1. store' = [store EXCEPT ![i] = s]
          BY <2>0, <3>3, <4>2, <4>3 DEF ApplyTraceability
        <5>2. s.status = store[i].status
          BY <4>2 DEF StoredRuns
        <5> HIDE DEF s, a, i
        <5> QED BY <2>2, <4>2, <5>1, <5>2
      <4>4. CASE ~a.ok
        BY <2>1, <3>3, <4>4 DEF ApplyTraceability
      <4> QED BY <4>3, <4>4
    <3>4. CASE ApplyDecision(h)
      <4>1. ~a.ok
        BY <1>2, <3>4, AnsweredCall DEF ApplyDecision, Returned, AnswerBehind
      <4> QED BY <2>1, <3>4, <4>1 DEF ApplyDecision
    <3>5. CASE ApplyRun(h)
      <4>1. request[h].at = "answered" /\ request[h].call = "run"
        BY <3>5 DEF ApplyRun, Returned
      <4>2. i \in RunIds /\ store[i] \in StoredRuns
        BY <1>2, <4>1, AnsweredOf
      <4>3. CASE a.ok /\ i = r
        <5>1. /\ a.status \in StatusSet
              /\ Rank(request[h].was.status) <= Rank(a.status)
          BY <1>2, <4>1, <4>3, AnsweredCall DEF AnswerBehind
        <5>2. CoerceLiveStatus(a.status) = a.status
          BY <5>1 DEF CoerceLiveStatus
        <5>3. store'[r].status = a.status
          BY <2>0, <3>5, <4>2, <4>3, <5>2 DEF ApplyRun, StoredRuns
        <5>4. Returned(h, "run") /\ request[h].run = r
          BY <3>5, <4>3 DEF ApplyRun
        <5> HIDE DEF a, i
        <5> QED BY <5>1, <5>3, <5>4, Ranks
      <4>4. CASE a.ok /\ i # r
        BY <2>2, <3>5, <4>2, <4>4 DEF ApplyRun
      <4>5. CASE ~a.ok
        BY <2>1, <3>5, <4>5 DEF ApplyRun
      <4> QED BY <4>3, <4>4, <4>5
    <3> QED BY <2>5, <3>1, <3>2, <3>3, <3>4, <3>5 DEF Resume
  <2>6. ASSUME NEW l \in RunIds, Work(l) PROVE NoSetBack(r)
    <3>1. UNCHANGED store
      BY <2>6 DEF Work, Begin, Generate, Seal, Close, Progress
    <3> QED BY <2>1, <3>1
  <2>7. ASSUME UNCHANGED vars \/ \E l \in RunIds : Leave(l) PROVE NoSetBack(r)
    BY <2>1, <2>7 DEF vars, Leave
  <2> HIDE DEF NoSetBack
  <2> QED BY <1>2, <2>3, <2>4, <2>5, <2>6, <2>7 DEF Next
<1>3. IInv /\ [Next]_vars =>
        [\A r \in Stored : NoSetBack(r)]_vars
  BY <1>2
<1> QED BY <1>3, Invariance, PTL DEF Spec, OnlyOverlapSetsBack
=============================================================================
