-------------------------- MODULE HarnessCoreProofs --------------------------
(* Theorems about HarnessCore, for any set of handlers and any bounds.      *)
EXTENDS HarnessCore, FiniteSetTheorems, SequenceTheorems, TLAPS

-----------------------------------------------------------------------------
(* The inductive invariant.                                                 *)

Busy(h) == request[h] # Idle

\* No event is from a later life than this one, and what a handler is about to
\* log is from this one.
LivesInOrder ==
    /\ \A i \in DOMAIN events : events[i].life <= life
    /\ \A i \in DOMAIN disk : disk[i].life <= life
    /\ \A h \in Handlers : Busy(h) => request[h].event.life = life

\* A step id of this life was handed out by the tracker.
Numbered(e) == e.tracked /\ e.life = life => e.step \in 1 .. steps[e.run]
StepsHandedOut ==
    /\ \A i \in DOMAIN events : Numbered(events[i])
    /\ \A i \in DOMAIN disk : Numbered(disk[i])
    /\ \A h \in Handlers : request[h].at = "emit" => Numbered(request[h].event)
    /\ \A h \in Handlers :
          request[h].at = "stamp" => (request[h].event.tracked <=> request[h].event.step = 0)

\* Two events with the same tracked step.
Clash(e, f) ==
    e.run = f.run /\ e.life = f.life /\ e.tracked /\ f.tracked /\ e.step = f.step

\* No two clash, in memory, in the file, or on their way to them.
NoClash ==
    /\ \A i, j \in DOMAIN events : i # j => ~Clash(events[i], events[j])
    /\ \A i, j \in DOMAIN disk : i # j => ~Clash(disk[i], disk[j])
    /\ \A g, h \in Handlers :
          g # h /\ request[g].at = "emit" /\ request[h].at = "emit" =>
              ~Clash(request[g].event, request[h].event)
    /\ \A h \in Handlers : request[h].at = "emit" =>
          /\ \A i \in DOMAIN events : ~Clash(request[h].event, events[i])
          /\ \A i \in DOMAIN disk : ~Clash(request[h].event, disk[i])

\* An event of this life that ends a run.
Ends(e) == e.life = life /\ e.what \in Terminal

\* A run has one such event, logged or on its way, with its status.
EndsOnce ==
    /\ \A i \in DOMAIN events : Ends(events[i]) => events[i].what = runs[events[i].run]
    /\ \A h \in Handlers : Busy(h) /\ Ends(request[h].event) =>
          request[h].event.what = runs[request[h].event.run]
    /\ \A i, j \in DOMAIN events :
          Ends(events[i]) /\ Ends(events[j]) /\ events[i].run = events[j].run => i = j
    /\ \A g, h \in Handlers :
          /\ Busy(g) /\ Busy(h) /\ Ends(request[g].event) /\ Ends(request[h].event)
          /\ request[g].event.run = request[h].event.run
          => g = h
    /\ \A h \in Handlers, i \in DOMAIN events :
          Busy(h) /\ Ends(request[h].event) /\ Ends(events[i]) =>
              request[h].event.run # events[i].run

-----------------------------------------------------------------------------
(* Facts about the operators.                                               *)

\* A busy handler has an event, an idle one is neither stamping nor emitting.
LEMMA BusyHasEvent ==
    ASSUME TypeOK, NEW h \in Handlers
    PROVE  /\ Busy(h) => request[h].at \in {"stamp", "emit"} /\ request[h].event \in Events
           /\ request[h].at \in {"stamp", "emit"} => Busy(h)
BY DEF TypeOK, Busy, Idle

\* The file after one more line: longer by it, or spoilt at its last line.
LEMMA AppendedLines ==
    ASSUME disk \in Seq(Events \cup {Bad}), open \in BOOLEAN, NEW e \in Events \cup {Bad}
    PROVE  /\ Appended(e) \in Seq(Events \cup {Bad})
           /\ \A i \in DOMAIN Appended(e) :
                 \/ i \in DOMAIN disk /\ Appended(e)[i] = disk[i]
                 \/ i = Len(Appended(e)) /\ Appended(e)[i] \in {e, Bad}
           /\ ~open => /\ DOMAIN Appended(e) = 1 .. Len(disk) + 1
                       /\ \A i \in DOMAIN disk : Appended(e)[i] = disk[i]
                       /\ Appended(e)[Len(disk) + 1] = e
<1>1. CASE open
  <2>1. DOMAIN disk = 1 .. Len(disk) /\ Len(disk) \in Nat
    BY LenProperties
  <2>2. Appended(e) = [disk EXCEPT ![Len(disk)] = Bad]
    BY <1>1 DEF Appended
  <2>3. Appended(e) \in Seq(Events \cup {Bad})
    <3>1. CASE Len(disk) \in DOMAIN disk
      BY <2>2, <3>1, ExceptSeq
    <3>2. CASE Len(disk) \notin DOMAIN disk
      <4>1. Appended(e) = disk
        BY <2>2, <3>2, <2>1
      <4> QED BY <4>1
    <3> QED BY <3>1, <3>2
  <2>4. DOMAIN Appended(e) = DOMAIN disk
    BY <2>2
  <2>5. Len(Appended(e)) = Len(disk)
    BY <2>3, <2>4, <2>1, LenProperties
  <2> QED BY <1>1, <2>1, <2>2, <2>3, <2>4, <2>5
<1>2. CASE ~open
  BY <1>2, AppendProperties DEF Appended
<1> QED BY <1>1, <1>2

\* What a write to the file does.
LEMMA FileWritten ==
    ASSUME TypeOK, NEW e \in Events, EmitToFile(e)
    PROVE  /\ disk' \in Seq(Events \cup {Bad}) /\ open' \in BOOLEAN /\ torn' \in BOOLEAN
           /\ \/ events' = events
              \/ events' = Append(events, e)
           /\ \A i \in DOMAIN disk' :
                 \/ i \in DOMAIN disk /\ disk'[i] = disk[i]
                 \/ i = Len(disk') /\ disk'[i] \in {e, Bad}
<1>1. /\ disk \in Seq(Events \cup {Bad}) /\ open \in BOOLEAN /\ torn \in BOOLEAN
      /\ e \in Events \cup {Bad} /\ Bad \in Events \cup {Bad}
  BY DEF TypeOK
<1>2. CASE disk' = disk
  BY <1>1, <1>2 DEF EmitToFile
<1>3. CASE disk' = Appended(e)
  BY <1>1, <1>3, AppendedLines DEF EmitToFile
<1>4. CASE disk' = Appended(Bad)
  BY <1>1, <1>4, AppendedLines DEF EmitToFile
<1>5. CASE \E f \in {e, Bad} : disk' = Append(disk, f)
  <2>1. PICK f \in {e, Bad} : disk' = Append(disk, f)
    BY <1>5
  <2>2. /\ disk' \in Seq(Events \cup {Bad}) /\ Len(disk') = Len(disk) + 1
        /\ DOMAIN disk' = 1 .. Len(disk) + 1 /\ DOMAIN disk = 1 .. Len(disk)
        /\ \A i \in 1 .. Len(disk) : disk'[i] = disk[i]
        /\ disk'[Len(disk) + 1] = f
    BY <1>1, <2>1, AppendProperties, LenProperties
  <2>3. Len(disk) \in Nat
    BY <1>1, LenProperties
  <2>4. \A i \in DOMAIN disk' :
           \/ i \in DOMAIN disk /\ disk'[i] = disk[i]
           \/ i = Len(disk') /\ disk'[i] \in {e, Bad}
    BY <2>1, <2>2, <2>3
  <2> QED BY <1>1, <2>2, <2>4 DEF EmitToFile
<1> QED BY <1>2, <1>3, <1>4, <1>5 DEF EmitToFile

\* One more event in memory.
LEMMA OneMoreEvent ==
    ASSUME events \in Seq(Events), NEW e \in Events, events' = Append(events, e)
    PROVE  /\ events' \in Seq(Events)
           /\ DOMAIN events' = 1 .. Len(events) + 1
           /\ DOMAIN events = 1 .. Len(events) /\ Len(events) \in Nat
           /\ \A i \in DOMAIN events : events'[i] = events[i]
           /\ events'[Len(events) + 1] = e
BY AppendProperties, LenProperties

-----------------------------------------------------------------------------
(* Types.                                                                   *)

\* Every step keeps the types.
LEMMA TypeStep == TypeOK /\ [Next]_vars => TypeOK'
<1> SUFFICES ASSUME TypeOK, [Next]_vars PROVE TypeOK'
  OBVIOUS
<1> USE BoundsAssumption DEF TypeOK, RunIds, Statuses, Terminal, log, process
<1>1. CASE Restart
  <2>1. events' \in Seq(Events)
    <3>1. CASE \E i \in DOMAIN disk : disk[i] = Bad
      BY <1>1, <3>1, EmptySeq DEF Restart
    <3>2. CASE ~\E i \in DOMAIN disk : disk[i] = Bad
      <4>1. events' = disk
        BY <1>1, <3>2 DEF Restart
      <4>2. Len(disk) \in Nat /\ \A i \in 1 .. Len(disk) : disk[i] \in Events
        BY <3>2, ElementOfSeq, LenProperties
      <4>3. disk = [i \in 1 .. Len(disk) |-> disk[i]]
        BY LenProperties
      <4> QED BY <4>1, <4>2, <4>3, IsASeq
    <3> QED BY <3>1, <3>2
  <2> QED BY <1>1, <2>1 DEF Restart, Idle
<1>2. ASSUME NEW h \in Handlers, CreateRun(h)
      PROVE  TypeOK'
  <2>1. Event(seq + 1, "starting", 0) \in Events
    BY <1>2 DEF CreateRun, Event, Events
  <2> QED BY <1>2, <2>1 DEF CreateRun, Begin, At
<1>3. ASSUME NEW h \in Handlers, Stamp(h)
      PROVE  TypeOK'
  <2>1. request[h].event \in Events
    BY <1>3, BusyHasEvent DEF Stamp
  <2> DEFINE e == request[h].event
             stamped == IF e.step = 0 THEN [e EXCEPT !.step = steps[e.run] + 1] ELSE e
  <2>2. e.run \in RunIds /\ steps[e.run] + 1 \in Nat
    BY <2>1 DEF Events
  <2>3. stamped \in Events
    BY <2>1, <2>2 DEF Events
  <2>4. steps' \in [RunIds -> Nat]
    BY <1>3, <2>2 DEF Stamp, NextStep
  <2>5. request' \in [Handlers -> {Idle} \cup [at : {"stamp", "emit"}, event : Events]]
    <3>1. \/ request' = [request EXCEPT ![h] = At("emit", stamped)]
          \/ request' = [request EXCEPT ![h] = Idle]
      BY <1>3 DEF Stamp
    <3>2. At("emit", stamped) \in [at : {"stamp", "emit"}, event : Events]
      BY <2>3 DEF At
    <3> HIDE DEF stamped
    <3> QED BY <3>1, <3>2
  <2> QED BY <1>3, <2>4, <2>5 DEF Stamp
<1>4. ASSUME NEW h \in Handlers, Emit(h)
      PROVE  TypeOK'
  <2>1. request[h].event \in Events
    BY <1>4, BusyHasEvent DEF Emit
  <2>2. request' \in [Handlers -> {Idle} \cup [at : {"stamp", "emit"}, event : Events]]
    BY <1>4 DEF Emit
  <2>3. events' \in Seq(Events) /\ disk' \in Seq(Events \cup {Bad})
        /\ open' \in BOOLEAN /\ torn' \in BOOLEAN
    BY <1>4, <2>1, FileWritten, OneMoreEvent DEF Emit
  <2> QED BY <1>4, <2>2, <2>3 DEF Emit
<1>5. ASSUME NEW h \in Handlers, NEW r \in RunIds, NEW status \in Statuses,
             UpdateRun(h, r, status)
      PROVE  TypeOK'
  <2>1. Event(r, status, 0) \in Events
    BY DEF Event, Events
  <2> QED BY <1>5, <2>1 DEF UpdateRun, Begin, At, ValidateRunTransition
<1>6. ASSUME NEW h \in Handlers, NEW r \in RunIds, NEW step \in {0, 1},
             PostEvent(h, r, step)
      PROVE  TypeOK'
  <2>1. Event(r, "external", step) \in Events
    BY DEF Event, Events
  <2> QED BY <1>6, <2>1 DEF PostEvent, Begin, At
<1>7. CASE UNCHANGED vars
  BY <1>7 DEF vars
<1> HIDE DEF TypeOK
<1> QED BY <1>1, <1>2, <1>3, <1>4, <1>5, <1>6, <1>7 DEF Next

\* The registry, the log and the requests of the Harness keep their shapes
\* through every race, failed write and restart.
THEOREM TypeCorrect == Spec => []TypeOK
<1>1. Init => TypeOK
  <2> SUFFICES ASSUME Init PROVE TypeOK
    OBVIOUS
  <2>1. events \in Seq(Events) /\ disk \in Seq(Events \cup {Bad})
    BY EmptySeq DEF Init
  <2>2. request \in [Handlers -> {Idle} \cup [at : {"stamp", "emit"}, event : Events]]
    BY DEF Init
  <2>3. runs \in [RunIds -> Statuses \cup {"none"}] /\ steps \in [RunIds -> Nat]
    BY DEF Init
  <2>4. \A r \in RunIds : runs[r] = "none" <=> r > seq
    BY DEF Init, RunIds
  <2>5. seq \in 0 .. MaxRuns /\ life \in 1 .. MaxLives /\ served \in 0 .. MaxRequests
    BY BoundsAssumption DEF Init
  <2>6. open \in BOOLEAN /\ torn \in BOOLEAN /\ sink \in {"file", "memory"}
    BY DEF Init
  <2> QED BY <2>1, <2>2, <2>3, <2>4, <2>5, <2>6 DEF TypeOK
<1> QED BY <1>1, TypeStep, PTL DEF Spec

-----------------------------------------------------------------------------
(* What the steps do, as far as the invariant is concerned.                 *)

\* A handler that passed its checks: nothing is logged yet.
Begun(h, e) ==
    /\ e \in Events /\ e.life = life /\ (e.tracked <=> e.step = 0)
    /\ request[h] = Idle
    /\ request' = [request EXCEPT ![h] = At("stamp", e)]
    /\ UNCHANGED <<steps, events, disk, open, torn, sink, life>>

LEMMA BeginSteps ==
    ASSUME TypeOK, NEW h \in Handlers
    PROVE  /\ CreateRun(h) => Begun(h, Event(seq + 1, "starting", 0))
           /\ \A r \in RunIds, status \in Statuses :
                 UpdateRun(h, r, status) => Begun(h, Event(r, status, 0))
           /\ \A r \in RunIds, step \in {0, 1} :
                 PostEvent(h, r, step) => Begun(h, Event(r, "external", step))
<1>1. \A r \in RunIds, w \in Statuses \cup {"external"}, step \in {0, 1} :
         LET e == Event(r, w, step)
         IN  e \in Events /\ e.life = life /\ (e.tracked <=> e.step = 0)
  <2>1. life \in 1 .. MaxLives /\ 0 \in Nat /\ 1 \in Nat
    BY DEF TypeOK
  <2> QED BY <2>1 DEF Event, Events
<1>2. CreateRun(h) => seq + 1 \in RunIds
  BY BoundsAssumption DEF CreateRun, TypeOK, RunIds
<1>3. "starting" \in Statuses
  BY DEF Statuses
<1> QED BY <1>1, <1>2, <1>3 DEF CreateRun, UpdateRun, PostEvent, Begin, Begun, log, process

\* A handler stamps its event f, taking the next step of the run if it has
\* none, or gives up.
Stamped(h, f) ==
    LET e == request[h].event IN
    /\ request[h].at = "stamp"
    /\ e \in Events /\ f \in Events
    /\ f.run = e.run /\ f.life = e.life /\ f.what = e.what /\ f.tracked = e.tracked
    /\ IF e.step = 0
       THEN f.step = steps[e.run] + 1 /\ steps' = [steps EXCEPT ![e.run] = @ + 1]
       ELSE f.step = e.step /\ steps' = steps
    /\ \/ request' = [request EXCEPT ![h] = At("emit", f)]
       \/ request' = [request EXCEPT ![h] = Idle]
    /\ UNCHANGED <<runs, events, disk, open, torn, sink, life>>

LEMMA StampStep ==
    ASSUME TypeOK, NEW h \in Handlers, Stamp(h)
    PROVE  \E f \in Events : Stamped(h, f)
<1> DEFINE e == request[h].event
           f == IF e.step = 0 THEN [e EXCEPT !.step = steps[e.run] + 1] ELSE e
<1>1. e \in Events
  BY BusyHasEvent DEF Stamp
<1>2. e.run \in RunIds /\ steps[e.run] + 1 \in Nat
  BY <1>1 DEF TypeOK, Events
<1>3. /\ f \in Events
      /\ f.run = e.run /\ f.life = e.life /\ f.what = e.what /\ f.tracked = e.tracked
      /\ f.step = IF e.step = 0 THEN steps[e.run] + 1 ELSE e.step
  BY <1>1, <1>2 DEF Events
<1>4. \/ request' = [request EXCEPT ![h] = At("emit", f)]
      \/ request' = [request EXCEPT ![h] = Idle]
  BY DEF Stamp
<1>5. steps' = IF e.step = 0 THEN [steps EXCEPT ![e.run] = @ + 1] ELSE steps
  BY DEF Stamp, NextStep
<1> HIDE DEF f
<1>6. Stamped(h, f)
  BY <1>1, <1>3, <1>4, <1>5 DEF Stamped, Stamp, log
<1> QED BY <1>3, <1>6

\* A handler hands its event e to the sink and is done.
Emitted(h, e) ==
    /\ request[h].at = "emit" /\ request[h].event = e /\ e \in Events
    /\ request' = [request EXCEPT ![h] = Idle]
    /\ disk' \in Seq(Events \cup {Bad})
    /\ \/ events' = events
       \/ events' = Append(events, e)
    /\ \A i \in DOMAIN disk' :
          \/ i \in DOMAIN disk /\ disk'[i] = disk[i]
          \/ i = Len(disk') /\ disk'[i] \in {e, Bad}
    /\ UNCHANGED <<runs, steps, sink, life>>

LEMMA EmitStep ==
    ASSUME TypeOK, NEW h \in Handlers, Emit(h)
    PROVE  Emitted(h, request[h].event)
<1>1. request[h].event \in Events
  BY BusyHasEvent DEF Emit
<1>2. CASE sink = "file"
  BY <1>1, <1>2, FileWritten DEF Emit, Emitted, process
<1>3. CASE sink = "memory"
  BY <1>1, <1>3 DEF Emit, Emitted, process, TypeOK
<1> QED BY <1>2, <1>3 DEF TypeOK

\* A new process: nothing is left but the file, which may be given up.
Restarted ==
    /\ life' = life + 1
    /\ runs' = [r \in RunIds |-> "none"]
    /\ request' = [h \in Handlers |-> Idle]
    /\ events' = <<>> \/ events' = disk
    /\ UNCHANGED <<disk, open, torn>>

LEMMA RestartStep == Restart => Restarted
BY DEF Restart, Restarted

\* The steps, in these terms.
LEMMA StepCases ==
    ASSUME TypeOK, [Next]_vars
    PROVE  \/ Restarted
           \/ \E h \in Handlers, e \in Events :
                 \/ Begun(h, e) /\ e.what \notin Terminal /\ runs' = runs
                 \/ /\ Begun(h, e) /\ runs[e.run] \notin Terminal
                    /\ runs' = [runs EXCEPT ![e.run] = e.what]
                 \/ Stamped(h, e) \/ Emitted(h, e)
           \/ UNCHANGED vars
<1>1. ASSUME NEW h \in Handlers, CreateRun(h)
      PROVE  \E e \in Events : /\ Begun(h, e) /\ runs[e.run] \notin Terminal
                               /\ runs' = [runs EXCEPT ![e.run] = e.what]
  <2> DEFINE e == Event(seq + 1, "starting", 0)
  <2>1. Begun(h, e) /\ e \in Events
    BY <1>1, BeginSteps DEF Begun
  <2>2. e.run = seq + 1 /\ e.what = "starting"
    BY DEF Event
  <2>3. seq + 1 \in RunIds /\ seq + 1 > seq
    BY <1>1, BoundsAssumption DEF CreateRun, TypeOK, RunIds
  <2>4. runs[seq + 1] = "none"
    BY <2>3 DEF TypeOK
  <2>5. runs' = [runs EXCEPT ![e.run] = e.what]
    BY <1>1, <2>2 DEF CreateRun
  <2> HIDE DEF e
  <2> QED BY <2>1, <2>2, <2>4, <2>5 DEF Terminal
<1>2. ASSUME NEW h \in Handlers, NEW r \in RunIds, NEW status \in Statuses,
             UpdateRun(h, r, status)
      PROVE  \E e \in Events : /\ Begun(h, e) /\ runs[e.run] \notin Terminal
                               /\ runs' = [runs EXCEPT ![e.run] = e.what]
  <2> DEFINE e == Event(r, status, 0)
  <2>1. Begun(h, e) /\ e \in Events
    BY <1>2, BeginSteps DEF Begun
  <2>2. e.run = r /\ e.what = status
    BY DEF Event
  <2>3. runs[r] \notin Terminal
    BY <1>2 DEF UpdateRun, ValidateRunTransition, Terminal
  <2>4. runs' = [runs EXCEPT ![e.run] = e.what]
    BY <1>2, <2>2 DEF UpdateRun
  <2> HIDE DEF e
  <2> QED BY <2>1, <2>2, <2>3, <2>4
<1>3. ASSUME NEW h \in Handlers, NEW r \in RunIds, NEW step \in {0, 1},
             PostEvent(h, r, step)
      PROVE  \E e \in Events : Begun(h, e) /\ e.what \notin Terminal /\ runs' = runs
  <2> DEFINE e == Event(r, "external", step)
  <2>1. Begun(h, e) /\ e \in Events
    BY <1>3, BeginSteps DEF Begun
  <2>2. e.what \notin Terminal
    BY DEF Event, Terminal
  <2>3. runs' = runs
    BY <1>3 DEF PostEvent, process
  <2> HIDE DEF e
  <2> QED BY <2>1, <2>2, <2>3
<1>4. ASSUME NEW h \in Handlers, Emit(h)
      PROVE  \E e \in Events : Emitted(h, e)
  BY <1>4, EmitStep DEF Emitted
<1> QED BY <1>1, <1>2, <1>3, <1>4, StampStep, RestartStep DEF Next

-----------------------------------------------------------------------------
(* The invariant is inductive.                                              *)

\* A log grows by at most the event e, at its end, or by a spoilt line.
Grown(new, old, e) ==
    \A i \in DOMAIN new :
        \/ i \in DOMAIN old /\ new[i] = old[i]
        \/ i = Len(new) /\ new[i] \in {e, Bad}

LEMMA LogsGrow ==
    ASSUME TypeOK, NEW h \in Handlers, NEW e \in Events, Emitted(h, e)
    PROVE  Grown(events', events, e) /\ Grown(disk', disk, e)
<1>1. events \in Seq(Events)
  BY DEF TypeOK
<1>2. CASE events' = events
  BY <1>2 DEF Emitted, Grown
<1>3. CASE events' = Append(events, e)
  <2>1. Len(events') = Len(events) + 1
    BY <1>1, <1>3, OneMoreEvent, LenProperties
  <2> QED BY <1>1, <1>3, <2>1, OneMoreEvent DEF Emitted, Grown
<1> QED BY <1>2, <1>3 DEF Emitted, Grown

\* Lives only go up, and nothing is from a later one.
LEMMA LivesStep ==
    ASSUME TypeOK, LivesInOrder, [Next]_vars
    PROVE  LivesInOrder'
<1>0. /\ life \in Nat /\ Bad.life = 0
      /\ \A i \in DOMAIN disk : disk[i].life \in Nat
  <2>1. disk \in Seq(Events \cup {Bad}) /\ \A e \in Events \cup {Bad} : e.life \in Nat
    BY DEF TypeOK, Events, Bad
  <2> QED BY <2>1, ElementOfSeq, LenProperties DEF TypeOK, Bad
<1>1. CASE Restarted
  BY <1>0, <1>1 DEF Restarted, LivesInOrder, Busy
<1>2. ASSUME NEW h \in Handlers, NEW e \in Events, Begun(h, e)
      PROVE  LivesInOrder'
  BY <1>2 DEF Begun, LivesInOrder, Busy, At, TypeOK
<1>3. ASSUME NEW h \in Handlers, NEW e \in Events, Stamped(h, e)
      PROVE  LivesInOrder'
  <2>1. /\ request[h].at = "stamp" /\ e.life = request[h].event.life
        /\ \/ request' = [request EXCEPT ![h] = At("emit", e)]
           \/ request' = [request EXCEPT ![h] = Idle]
        /\ UNCHANGED <<events, disk, life>>
    BY <1>3 DEF Stamped
  <2>2. e.life = life
    BY <2>1, BusyHasEvent DEF LivesInOrder
  <2>3. \A g \in Handlers : Busy(g)' => request'[g].event.life = life
    BY <2>1, <2>2 DEF LivesInOrder, Busy, At, TypeOK
  <2> QED BY <2>1, <2>3 DEF LivesInOrder
<1>4. ASSUME NEW h \in Handlers, NEW e \in Events, Emitted(h, e)
      PROVE  LivesInOrder'
  <2>1. e.life = life /\ life' = life
    BY <1>4, BusyHasEvent DEF Emitted, LivesInOrder
  <2>2. Grown(events', events, e) /\ Grown(disk', disk, e)
    BY <1>4, LogsGrow
  <2>3. \A g \in Handlers : Busy(g)' => Busy(g) /\ request'[g] = request[g]
    BY <1>4 DEF Emitted, Busy, TypeOK
  <2> QED BY <1>0, <2>1, <2>2, <2>3 DEF LivesInOrder, Grown
<1>5. CASE UNCHANGED vars
  BY <1>5 DEF vars, log, LivesInOrder, Busy
<1> QED BY <1>1, <1>2, <1>3, <1>4, <1>5, StepCases

\* The logs hold events and spoilt lines.
LEMMA LogEntries ==
    ASSUME TypeOK
    PROVE  /\ \A i \in DOMAIN events : events[i] \in Events
           /\ \A i \in DOMAIN disk : disk[i] \in Events \cup {Bad}
BY ElementOfSeq, LenProperties DEF TypeOK

\* Stamping an event counts up the steps of its run and nothing else, so what
\* was numbered stays so.
LEMMA StampCounts ==
    ASSUME TypeOK, NEW h \in Handlers, NEW f \in Events, Stamped(h, f)
    PROVE  /\ \A r \in RunIds : steps'[r] \in Nat /\ steps[r] <= steps'[r]
           /\ \A e \in Events \cup {Bad} : Numbered(e) => Numbered(e)'
<1>1. /\ life' = life /\ f.run \in RunIds /\ f.run = request[h].event.run
      /\ \/ steps' = [steps EXCEPT ![f.run] = @ + 1]
         \/ steps' = steps
  BY DEF Stamped, Events
<1>2. \A r \in RunIds : steps'[r] \in Nat /\ steps[r] \in Nat /\ steps[r] <= steps'[r]
  BY <1>1 DEF TypeOK
<1>3. \A e \in Events \cup {Bad} : e.tracked => e.run \in RunIds /\ e.step \in Nat
  BY DEF Events, Bad
<1> QED BY <1>1, <1>2, <1>3 DEF Numbered

\* Step ids of this life come from the tracker.
LEMMA StepsStep ==
    ASSUME TypeOK, LivesInOrder, StepsHandedOut, [Next]_vars
    PROVE  StepsHandedOut'
<1>1. CASE Restarted
  <2>1. \A e \in Events \cup {Bad} : e.life <= life => Numbered(e)'
    BY <1>1 DEF Restarted, TypeOK, Events, Bad, Numbered
  <2>2. /\ \A i \in DOMAIN disk : disk[i].life <= life
        /\ \A i \in DOMAIN events' : i \in DOMAIN disk /\ events'[i] = disk[i]
        /\ disk' = disk /\ \A h \in Handlers : request'[h] = Idle
    BY <1>1 DEF Restarted, LivesInOrder
  <2> QED BY <2>1, <2>2, LogEntries DEF StepsHandedOut, Idle
<1>2. ASSUME NEW h \in Handlers, NEW e \in Events, Begun(h, e)
      PROVE  StepsHandedOut'
  <2>1. /\ UNCHANGED <<events, disk, steps, life>>
        /\ e.tracked <=> e.step = 0
        /\ request' = [request EXCEPT ![h] = At("stamp", e)]
    BY <1>2 DEF Begun
  <2>2. \A g \in Handlers : request'[g] = IF g = h THEN At("stamp", e) ELSE request[g]
    BY <2>1 DEF TypeOK
  <2> QED BY <2>1, <2>2 DEF StepsHandedOut, Numbered, At
<1>3. ASSUME NEW h \in Handlers, NEW f \in Events, Stamped(h, f)
      PROVE  StepsHandedOut'
  <2>1. \A e \in Events \cup {Bad} : Numbered(e) => Numbered(e)'
    BY <1>3, StampCounts
  <2>2. Numbered(f)'
    <3>1. /\ request[h].event.tracked <=> request[h].event.step = 0
          /\ request[h].event \in Events
      BY <1>3 DEF Stamped, StepsHandedOut
    <3>2. f.tracked => f.step = steps[f.run] + 1 /\ steps' = [steps EXCEPT ![f.run] = @ + 1]
      BY <1>3, <3>1 DEF Stamped
    <3> QED BY <3>2 DEF Numbered, TypeOK, Events
  <2>3. \A g \in Handlers :
           \/ request'[g] = request[g]
           \/ request'[g] = At("emit", f)
           \/ request'[g] = Idle
    BY <1>3 DEF Stamped, TypeOK
  <2>4. \A g \in Handlers : request[g].at \in {"stamp", "emit"} => request[g].event \in Events
    BY BusyHasEvent
  <2>5. UNCHANGED <<events, disk>>
    BY <1>3 DEF Stamped
  <2> QED BY <2>1, <2>2, <2>3, <2>4, <2>5, LogEntries DEF StepsHandedOut, At, Idle
<1>4. ASSUME NEW h \in Handlers, NEW e \in Events, Emitted(h, e)
      PROVE  StepsHandedOut'
  <2>1. Grown(events', events, e) /\ Grown(disk', disk, e)
    BY <1>4, LogsGrow
  <2>2. Numbered(e) /\ Numbered(Bad)
    BY <1>4 DEF Emitted, StepsHandedOut, Numbered, Bad
  <2>3. UNCHANGED <<steps, life>>
    BY <1>4 DEF Emitted
  <2>4. \A g \in Handlers : request'[g] = request[g] \/ request'[g] = Idle
    BY <1>4 DEF Emitted, TypeOK
  <2> QED BY <2>1, <2>2, <2>3, <2>4 DEF StepsHandedOut, Numbered, Grown, Idle
<1>5. CASE UNCHANGED vars
  BY <1>5 DEF vars, log, process, StepsHandedOut, Numbered
<1> QED BY <1>1, <1>2, <1>3, <1>4, <1>5, StepCases

\* No tracked step is used twice.
LEMMA ClashStep ==
    ASSUME TypeOK, LivesInOrder, StepsHandedOut, NoClash, [Next]_vars
    PROVE  NoClash'
<1>1. CASE Restarted
  <2>1. /\ \A i \in DOMAIN events' : i \in DOMAIN disk /\ events'[i] = disk[i]
        /\ disk' = disk /\ \A h \in Handlers : request'[h] = Idle
    BY <1>1 DEF Restarted
  <2> QED BY <2>1 DEF NoClash, Clash, Idle
<1>2. ASSUME NEW h \in Handlers, NEW e \in Events, Begun(h, e)
      PROVE  NoClash'
  <2>1. /\ UNCHANGED <<events, disk>>
        /\ request' = [request EXCEPT ![h] = At("stamp", e)]
    BY <1>2 DEF Begun
  <2>2. \A g \in Handlers : request'[g] = IF g = h THEN At("stamp", e) ELSE request[g]
    BY <2>1 DEF TypeOK
  <2> QED BY <2>1, <2>2 DEF NoClash, Clash, At
<1>3. ASSUME NEW h \in Handlers, NEW f \in Events, Stamped(h, f)
      PROVE  NoClash'
  <2>1. f.tracked => f.step = steps[f.run] + 1
    BY <1>3 DEF Stamped, StepsHandedOut
  <2>2. f.life = life /\ f.run \in RunIds /\ steps[f.run] \in Nat
    BY <1>3, BusyHasEvent DEF Stamped, LivesInOrder, Events, TypeOK
  <2>3. ASSUME NEW e \in Events \cup {Bad}, Numbered(e)
        PROVE  ~Clash(f, e) /\ ~Clash(e, f)
    BY <2>1, <2>2, <2>3 DEF Numbered, Clash
  <2>4. UNCHANGED <<events, disk>>
    BY <1>3 DEF Stamped
  <2>5. \A g \in Handlers :
           \/ request'[g] = request[g]
           \/ request'[g] = At("emit", f) /\ g = h
           \/ request'[g] = Idle
    BY <1>3 DEF Stamped, TypeOK
  <2>6. \A g \in Handlers : request[g].at = "emit" =>
           request[g].event \in Events /\ Numbered(request[g].event)
    BY BusyHasEvent DEF StepsHandedOut
  <2>7. /\ \A i \in DOMAIN events : events[i] \in Events \cup {Bad} /\ Numbered(events[i])
        /\ \A i \in DOMAIN disk : disk[i] \in Events \cup {Bad} /\ Numbered(disk[i])
    BY LogEntries DEF StepsHandedOut
  <2> QED BY <2>3, <2>4, <2>5, <2>6, <2>7 DEF NoClash, At, Idle
<1>4. ASSUME NEW h \in Handlers, NEW e \in Events, Emitted(h, e)
      PROVE  NoClash'
  <2>1. Grown(events', events, e) /\ Grown(disk', disk, e)
    BY <1>4, LogsGrow
  <2>2. \A f \in Events \cup {Bad} : /\ ~Clash(Bad, f) /\ ~Clash(f, Bad)
                                     /\ (Clash(e, f) <=> Clash(f, e))
    BY DEF Clash, Bad
  <2>3. request[h].at = "emit" /\ request[h].event = e
    BY <1>4 DEF Emitted
  <2>4. \A g \in Handlers : (request'[g] = request[g] /\ g # h) \/ request'[g] = Idle
    BY <1>4 DEF Emitted, TypeOK
  <2>5. /\ \A i \in DOMAIN events : ~Clash(e, events[i]) /\ events[i] \in Events
        /\ \A i \in DOMAIN disk : ~Clash(e, disk[i]) /\ disk[i] \in Events \cup {Bad}
    BY <2>3, LogEntries DEF NoClash
  <2>6. \A i, j \in DOMAIN events' : i # j => ~Clash(events'[i], events'[j])
    BY <2>1, <2>2, <2>5 DEF NoClash, Grown
  <2>7. \A i, j \in DOMAIN disk' : i # j => ~Clash(disk'[i], disk'[j])
    BY <2>1, <2>2, <2>5 DEF NoClash, Grown
  <2>8. \A f, g \in Handlers :
           f # g /\ request'[f].at = "emit" /\ request'[g].at = "emit" =>
               ~Clash(request'[f].event, request'[g].event)
    BY <2>4 DEF NoClash, Idle
  <2>9. \A g \in Handlers : request'[g].at = "emit" =>
           /\ \A i \in DOMAIN events' : ~Clash(request'[g].event, events'[i])
           /\ \A i \in DOMAIN disk' : ~Clash(request'[g].event, disk'[i])
    <3> SUFFICES ASSUME NEW g \in Handlers, request'[g].at = "emit"
                 PROVE  /\ \A i \in DOMAIN events' : ~Clash(request'[g].event, events'[i])
                        /\ \A i \in DOMAIN disk' : ~Clash(request'[g].event, disk'[i])
      OBVIOUS
    <3>1. g # h /\ request'[g] = request[g] /\ request[g].event \in Events
      BY <2>4, BusyHasEvent DEF Idle
    <3>2. ~Clash(request[g].event, e) /\ ~Clash(request[g].event, Bad)
      BY <2>2, <2>3, <3>1 DEF NoClash
    <3> QED BY <2>1, <3>1, <3>2 DEF NoClash, Grown
  <2> QED BY <2>6, <2>7, <2>8, <2>9 DEF NoClash, Clash
<1>5. CASE UNCHANGED vars
  BY <1>5 DEF vars, log, process, NoClash, Clash
<1> QED BY <1>1, <1>2, <1>3, <1>4, <1>5, StepCases

\* A run has at most one terminal event in a life.
LEMMA EndsStep ==
    ASSUME TypeOK, LivesInOrder, EndsOnce, [Next]_vars
    PROVE  EndsOnce'
<1>1. CASE Restarted
  <2>1. /\ \A i \in DOMAIN events' : events'[i].life <= life
        /\ \A h \in Handlers : request'[h] = Idle
        /\ life' = life + 1
    BY <1>1 DEF Restarted, LivesInOrder
  <2>2. \A i \in DOMAIN events' : events'[i].life \in Nat
    <3>1. \A i \in DOMAIN events' : i \in DOMAIN disk /\ events'[i] = disk[i]
      BY <1>1 DEF Restarted
    <3> QED BY <3>1, LogEntries DEF Events, Bad
  <2>3. \A e : e.life \in Nat /\ e.life <= life => ~Ends(e)'
    BY <2>1 DEF Ends, TypeOK
  <2> QED BY <2>1, <2>2, <2>3 DEF EndsOnce, Busy
<1>2. ASSUME NEW h \in Handlers, NEW e \in Events, Begun(h, e),
             e.what \notin Terminal, runs' = runs
      PROVE  EndsOnce'
  <2>1. /\ UNCHANGED <<events, life>>
        /\ request' = [request EXCEPT ![h] = At("stamp", e)]
    BY <1>2 DEF Begun
  <2>2. \A g \in Handlers : \/ request'[g] = request[g]
                            \/ ~Ends(request'[g].event)
    BY <1>2, <2>1 DEF TypeOK, At, Ends
  <2> QED BY <1>2, <2>1, <2>2 DEF EndsOnce, Busy, Ends
<1>3. ASSUME NEW h \in Handlers, NEW e \in Events, Begun(h, e),
             runs[e.run] \notin Terminal, runs' = [runs EXCEPT ![e.run] = e.what]
      PROVE  EndsOnce'
  <2>1. /\ UNCHANGED <<events, life>>
        /\ request' = [request EXCEPT ![h] = At("stamp", e)]
    BY <1>3 DEF Begun
  <2>2. /\ \A i \in DOMAIN events : Ends(events[i]) => events[i].run # e.run
        /\ \A g \in Handlers : Busy(g) /\ Ends(request[g].event) =>
                                   request[g].event.run # e.run
    BY <1>3 DEF EndsOnce, Ends
  <2>3. \A g \in Handlers : \/ request'[g] = request[g]
                            \/ g = h /\ request'[g].event = e
    BY <2>1 DEF TypeOK, At
  <2>4. runs'[e.run] = e.what /\ \A r \in RunIds : r # e.run => runs'[r] = runs[r]
    BY <1>3 DEF TypeOK, Events
  <2>5. /\ \A i \in DOMAIN events : events[i].run \in RunIds
        /\ \A g \in Handlers : Busy(g) => request[g].event.run \in RunIds
    BY LogEntries, BusyHasEvent DEF Events
  <2>6. \A f : Ends(f)' <=> Ends(f)
    BY <2>1 DEF Ends
  <2> QED BY <2>1, <2>2, <2>3, <2>4, <2>5, <2>6 DEF EndsOnce, Busy
<1>4. ASSUME NEW h \in Handlers, NEW f \in Events, Stamped(h, f)
      PROVE  EndsOnce'
  <2>1. /\ Busy(h) /\ UNCHANGED <<runs, events, life>>
        /\ f.run = request[h].event.run /\ f.life = request[h].event.life
        /\ f.what = request[h].event.what
    BY <1>4, BusyHasEvent DEF Stamped
  <2>2. \A g \in Handlers : \/ request'[g] = request[g]
                            \/ g = h /\ request'[g].event = f
                            \/ request'[g] = Idle
    BY <1>4 DEF Stamped, TypeOK, At
  <2>3. \A e : Ends(e)' <=> Ends(e)
    BY <2>1 DEF Ends
  <2>4. Ends(f) <=> Ends(request[h].event)
    BY <2>1 DEF Ends
  <2> QED BY <2>1, <2>2, <2>3, <2>4 DEF EndsOnce, Busy
<1>5. ASSUME NEW h \in Handlers, NEW e \in Events, Emitted(h, e)
      PROVE  EndsOnce'
  <2>1. Grown(events', events, e)
    BY <1>5, LogsGrow
  <2>2. /\ Busy(h) /\ request[h].event = e /\ UNCHANGED <<runs, life>>
    BY <1>5, BusyHasEvent DEF Emitted
  <2>3. \A g \in Handlers : (request'[g] = request[g] /\ g # h) \/ request'[g] = Idle
    BY <1>5 DEF Emitted, TypeOK
  <2>4. (\A f : Ends(f)' <=> Ends(f)) /\ ~Ends(Bad)
    BY <2>2 DEF Ends, Bad, Terminal
  <2> QED BY <2>1, <2>2, <2>3, <2>4 DEF EndsOnce, Busy, Grown
<1>6. CASE UNCHANGED vars
  BY <1>6 DEF vars, log, process, EndsOnce, Busy, Ends
<1> QED BY <1>1, <1>2, <1>3, <1>4, <1>5, <1>6, StepCases

\* Nothing is in memory that is not in the file in the same order, unless a
\* write stopped within a line; only then does the file lack a newline.
DurableInv == (open => torn) /\ ServedIsDurable

LEMMA DurableStep ==
    ASSUME TypeOK, DurableInv, [Next]_vars
    PROVE  DurableInv'
<1>1. CASE Restart
  <2>1. UNCHANGED <<disk, open, torn>>
    BY <1>1 DEF Restart
  <2>2. sink' = "file" => events' = disk
    BY <1>1 DEF Restart
  <2>3. ServedIsDurable'
    <3> SUFFICES ASSUME sink' = "file"
                 PROVE  \E line \in [DOMAIN events' -> DOMAIN disk'] :
                           /\ \A i \in DOMAIN events' : disk'[line[i]] = events'[i]
                           /\ \A i, j \in DOMAIN events' : i < j => line[i] < line[j]
      BY DEF ServedIsDurable
    <3> DEFINE line == [i \in DOMAIN events' |-> i]
    <3>1. events' = disk'
      BY <2>1, <2>2
    <3>2. DOMAIN disk' \subseteq Nat
      BY <2>1, LenProperties DEF TypeOK
    <3>3. line \in [DOMAIN events' -> DOMAIN disk']
      BY <3>1
    <3>4. \A i \in DOMAIN events' : disk'[line[i]] = events'[i]
      BY <3>1
    <3>5. \A i, j \in DOMAIN events' : i < j => line[i] < line[j]
      OBVIOUS
    <3> HIDE DEF line
    <3> QED BY <3>3, <3>4, <3>5
  <2> QED BY <2>1, <2>3 DEF DurableInv
<1>2. ASSUME NEW h \in Handlers, Emit(h)
      PROVE  DurableInv'
  <2> DEFINE e == request[h].event
  <2>1. e \in Events /\ e \in Events \cup {Bad}
    BY <1>2, BusyHasEvent DEF Emit
  <2>2. open' => torn'
    BY <1>2, <2>1 DEF Emit, EmitToFile, DurableInv
  <2>3. ASSUME sink' = "file", ~torn'
        PROVE  \E line \in [DOMAIN events' -> DOMAIN disk'] :
                  /\ \A i \in DOMAIN events' : disk'[line[i]] = events'[i]
                  /\ \A i, j \in DOMAIN events' : i < j => line[i] < line[j]
    <3>1. /\ sink = "file" /\ ~torn /\ ~open
          /\ \/ events' = events /\ disk' = disk
             \/ events' \in {events, Append(events, e)} /\ disk' = Appended(e)
      BY <1>2, <2>3 DEF Emit, EmitToFile, DurableInv
    <3>2. PICK line \in [DOMAIN events -> DOMAIN disk] :
             /\ \A i \in DOMAIN events : disk[line[i]] = events[i]
             /\ \A i, j \in DOMAIN events : i < j => line[i] < line[j]
      BY <3>1 DEF DurableInv, ServedIsDurable
    <3>3. CASE events' = events /\ disk' = disk
      BY <3>2, <3>3
    <3> DEFINE n == Len(events)
               m == Len(disk)
    <3>4. /\ n \in Nat /\ m \in Nat
          /\ DOMAIN events = 1 .. n /\ DOMAIN disk = 1 .. m
      BY LenProperties DEF TypeOK
    <3>5. CASE disk' = Appended(e)
      <4>1. /\ DOMAIN disk' = 1 .. m + 1
            /\ \A i \in 1 .. m : disk'[i] = disk[i]
            /\ disk'[m + 1] = e
        BY <2>1, <3>1, <3>4, <3>5, AppendedLines DEF TypeOK
      <4>2. CASE events' = events
        <5>1. line \in [DOMAIN events' -> DOMAIN disk']
          BY <3>4, <4>1, <4>2
        <5> QED BY <3>2, <3>4, <4>1, <4>2, <5>1
      <4>3. CASE events' = Append(events, e)
        <5>1. /\ DOMAIN events' = 1 .. n + 1
              /\ \A i \in 1 .. n : events'[i] = events[i]
              /\ events'[n + 1] = e
          BY <2>1, <3>4, <4>3, OneMoreEvent DEF TypeOK
        <5> DEFINE longer == [i \in 1 .. n + 1 |-> IF i = n + 1 THEN m + 1 ELSE line[i]]
        <5>2. \A i \in 1 .. n : line[i] \in 1 .. m
          BY <3>4
        <5>3. longer \in [DOMAIN events' -> DOMAIN disk']
          BY <3>4, <4>1, <5>1, <5>2
        <5>4. \A i \in DOMAIN events' : disk'[longer[i]] = events'[i]
          BY <3>2, <3>4, <4>1, <5>1, <5>2
        <5>5. \A i, j \in DOMAIN events' : i < j => longer[i] < longer[j]
          BY <3>2, <3>4, <5>1, <5>2
        <5> HIDE DEF longer
        <5> QED BY <5>3, <5>4, <5>5
      <4> QED BY <3>1, <3>5, <4>2, <4>3, <3>3
    <3> QED BY <3>1, <3>3, <3>5
  <2> QED BY <2>2, <2>3 DEF DurableInv, ServedIsDurable
<1>3. CASE UNCHANGED <<events, disk, open, sink, torn>>
  BY <1>3 DEF DurableInv, ServedIsDurable
<1>4. \A h \in Handlers : CreateRun(h) \/ Stamp(h)
         \/ (\E r \in RunIds : \/ \E status \in Statuses : UpdateRun(h, r, status)
                               \/ \E step \in {0, 1} : PostEvent(h, r, step))
         => UNCHANGED <<events, disk, open, sink, torn>>
  BY DEF CreateRun, Stamp, UpdateRun, PostEvent, log
<1>5. CASE UNCHANGED vars
  BY <1>5, <1>3 DEF vars, log
<1> QED BY <1>1, <1>2, <1>3, <1>4, <1>5 DEF Next

-----------------------------------------------------------------------------
(* The theorems.                                                            *)

\* A set without two different members has at most one.
LEMMA AtMostOne ==
    ASSUME NEW S, \A x, y \in S : x = y
    PROVE  IsFiniteSet(S) /\ Cardinality(S) \in {0, 1} /\ (S # {} => Cardinality(S) = 1)
                          /\ (S = {} => Cardinality(S) = 0)
<1>1. CASE S = {}
  BY <1>1, FS_EmptySet
<1>2. ASSUME NEW x \in S
      PROVE  IsFiniteSet(S) /\ Cardinality(S) = 1
  <2>1. S = {x}
    BY <1>2
  <2> QED BY <2>1, FS_Singleton
<1> QED BY <1>1, <1>2

\* What the invariant says of lives, steps and ends.
IInv == LivesInOrder /\ StepsHandedOut /\ NoClash /\ EndsOnce /\ DurableInv

\* The invariant, which every theorem below rests on.
THEOREM Invariance == Spec => []IInv
<1>1. Init => IInv
  <2> SUFFICES ASSUME Init PROVE IInv
    OBVIOUS
  <2>1. events = <<>> /\ disk = <<>> /\ open = FALSE /\ torn = FALSE
        /\ \A h \in Handlers : request[h] = Idle
    BY DEF Init
  <2>2. LivesInOrder /\ StepsHandedOut /\ NoClash /\ EndsOnce
    BY <2>1 DEF LivesInOrder, StepsHandedOut, NoClash, EndsOnce, Busy, Idle
  <2>3. DurableInv
    <3>1. DOMAIN events = {} /\ DOMAIN disk = {}
      BY <2>1
    <3>2. [i \in {} |-> 0] \in [DOMAIN events -> DOMAIN disk]
      BY <3>1
    <3> QED BY <2>1, <3>1, <3>2 DEF DurableInv, ServedIsDurable
  <2> QED BY <2>2, <2>3 DEF IInv
<1>2. TypeOK /\ IInv /\ [Next]_vars => IInv'
  BY LivesStep, StepsStep, ClashStep, EndsStep, DurableStep DEF IInv
<1> QED BY <1>1, <1>2, TypeCorrect, PTL DEF Spec

\* Whatever updates race, a run ends once in a life of the Harness, and its
\* terminal event says what the registry says (RunStore.Update).
THEOREM RunsEndOnce == Spec => []OneTerminalEvent
<1>1. TypeOK /\ IInv => OneTerminalEvent
  <2> SUFFICES ASSUME TypeOK, IInv, NEW r \in RunIds
               PROVE  LET ends == {e \in InLog(events) : e.run = r /\ e.life = life
                                                         /\ e.what \in Terminal}
                          pending == {h \in Pending(r) : request[h].event.what \in Terminal}
                      IN  /\ Cardinality(ends) + Cardinality(pending) <= 1
                          /\ \A e \in ends \cup {request[h].event : h \in pending} :
                                e.what = runs[r]
    BY DEF OneTerminalEvent
  <2> DEFINE ends == {e \in InLog(events) : e.run = r /\ e.life = life /\ e.what \in Terminal}
             pending == {h \in Pending(r) : request[h].event.what \in Terminal}
  <2>1. EndsOnce /\ \A h \in Handlers : Busy(h) => request[h].event.life = life
    BY DEF IInv, LivesInOrder
  <2>2. \A e \in ends : \E i \in DOMAIN events : e = events[i] /\ Ends(events[i]) /\ events[i].run = r
    BY DEF InLog, Ends
  <2>3. \A h \in pending : /\ h \in Handlers /\ Busy(h)
                           /\ Ends(request[h].event) /\ request[h].event.run = r
    BY <2>1 DEF Pending, Busy, Ends
  <2>4. \A x, y \in ends : x = y
    BY <2>1, <2>2 DEF EndsOnce
  <2>5. \A x, y \in pending : x = y
    BY <2>1, <2>3 DEF EndsOnce
  <2>6. ends = {} \/ pending = {}
    BY <2>1, <2>2, <2>3 DEF EndsOnce
  <2>7. \A e \in ends \cup {request[h].event : h \in pending} : e.what = runs[r]
    BY <2>1, <2>2, <2>3 DEF EndsOnce
  <2> HIDE DEF ends, pending
  <2>8. Cardinality(ends) + Cardinality(pending) <= 1
    BY <2>4, <2>5, <2>6, AtMostOne
  <2> QED BY <2>7, <2>8 DEF ends, pending
<1> QED BY <1>1, TypeCorrect, Invariance, PTL

\* The tracker hands out no step id twice, in whatever order handlers append
\* (RunStepTracker.Next is called outside the lock of the sink).
THEOREM StepsAreUnique == Spec => []TrackedStepsUnique
<1>1. IInv => TrackedStepsUnique
  BY DEF IInv, NoClash, Clash, TrackedStepsUnique
<1> QED BY <1>1, Invariance, PTL

\* What the Harness serves is in its file, in order, as long as no write
\* stopped within a line (JSONLFileEventSink.Emit).
THEOREM ServedEventsAreDurable == Spec => []ServedIsDurable
<1>1. IInv => ServedIsDurable
  BY DEF IInv, DurableInv
<1> QED BY <1>1, Invariance, PTL
=============================================================================
