---------------------------- MODULE HarnessCore ----------------------------
(***************************************************************************)
(* The run registry and the event log of the Agentic Harness Core          *)
(* (services/agentic-harness-core: runstate.go, runstep.go, events.go and  *)
(* the run and event handlers of server.go).                               *)
(*                                                                         *)
(* Runs, their sequence number and the step counters live in memory; every *)
(* event is appended to a JSONL file and, if that worked, to memory.  Each *)
(* HTTP request is a goroutine: the run store, the step tracker and the    *)
(* sink have a lock each, and a handler takes them one after the other, so *)
(* handlers interleave between them.  A write may fail, or stop half way   *)
(* through a line; the process may crash and is restarted with whatever    *)
(* the file holds.                                                         *)
(***************************************************************************)
EXTENDS Naturals, Sequences, FiniteSets

CONSTANTS Handlers,   \* concurrent requests
          MaxRuns,    \* bound: runs created in one life of the process
          MaxRequests,  \* bound: requests that change something, over all lives
          MaxLives    \* bound: lives of the process

ASSUME BoundsAssumption ==
    MaxRuns \in Nat \ {0} /\ MaxRequests \in Nat \ {0} /\ MaxLives \in Nat \ {0}

RunIds == 1 .. MaxRuns   \* run-1, run-2, ...

VARIABLES
    runs,      \* RunStore.runs: status of each run, "none" if it is unknown
    seq,       \* RunStore.seq
    steps,     \* RunStepTracker.steps
    events,    \* InMemoryEventSink.events
    disk,      \* the lines of the event file, Bad where one does not parse
    open,      \* the last line of the file has no newline
    sink,      \* the sink chosen at start: "file" or "memory"
    request,   \* what each handler is about to do
    life,      \* history: which life of the process this is
    served,    \* history: requests so far
    torn       \* history: some write stopped within a line

process == <<runs, seq, steps>>
log == <<events, disk, open, sink, torn>>
vars == <<process, log, request, life, served>>

Statuses == {"starting", "updating", "completed", "failed"}
Terminal == {"completed", "failed"}

\* An event: its run, the run status it reports ("external" for one that a
\* service posts) and its stepId, 0 until it is assigned.  tracked and life are
\* history: the id is the tracker's, and the life the event was made in.
Event(r, what, step) ==
    [run |-> r, what |-> what, step |-> step, tracked |-> step = 0, life |-> life]
Events == [run : RunIds, what : Statuses \cup {"external"}, step : Nat,
           tracked : BOOLEAN, life : 1 .. MaxLives]

\* A line that does not parse.
Bad == [run |-> 0, what |-> "bad", step |-> 0, tracked |-> FALSE, life |-> 0]
Idle == [at |-> "idle"]
At(where, e) == [at |-> where, event |-> e]

Init ==
    /\ runs = [r \in RunIds |-> "none"] /\ seq = 0
    /\ steps = [r \in RunIds |-> 0]
    /\ events = <<>> /\ disk = <<>> /\ open = FALSE /\ sink = "file" /\ torn = FALSE
    /\ request = [h \in Handlers |-> Idle]
    /\ life = 1 /\ served = 0

-----------------------------------------------------------------------------
\* A handler has passed its checks and goes on to emit event e.
Begin(h, e) ==
    /\ request[h] = Idle /\ served < MaxRequests
    /\ request' = [request EXCEPT ![h] = At("stamp", e)]
    /\ served' = served + 1

\* RunStore.Create, under its lock; the run.started event is still to come.
CreateRun(h) ==
    /\ seq < MaxRuns
    /\ seq' = seq + 1
    /\ runs' = [runs EXCEPT ![seq + 1] = "starting"]
    /\ Begin(h, Event(seq + 1, "starting", 0))
    /\ UNCHANGED <<steps, log, life>>

AnyTransition(current, next) == current # "none"  \* mutant of the next
ValidateRunTransition(current, next) ==
    /\ current \in {"starting", "updating"}
    /\ next \in {"updating", "completed", "failed"}

\* RunStore.Update: check and assignment under one lock, then the event.
UpdateRun(h, r, status) ==
    /\ ValidateRunTransition(runs[r], status)
    /\ runs' = [runs EXCEPT ![r] = status]
    /\ Begin(h, Event(r, status, 0))
    /\ UNCHANGED <<seq, steps, log, life>>

\* POST /v0/events: the run must be known and open when it is read; the event
\* is emitted later, without looking again.  The orchestrator numbers its
\* events itself, other services leave stepId out.
PostEvent(h, r, step) ==
    /\ runs[r] \in Statuses \ Terminal
    /\ Begin(h, Event(r, "external", step))
    /\ UNCHANGED <<process, log, life>>

\* RunStepTracker.Next, for an event without a stepId.
NextStepForgotten(r) == UNCHANGED steps  \* mutant of the next
NextStep(r) == steps' = [steps EXCEPT ![r] = @ + 1]

\* emitEvent up to the sink.  An event a service posted is validated only after
\* its step id was taken, and may be refused.
Stamp(h) ==
    /\ request[h].at = "stamp"
    /\ LET e == request[h].event
           stamped == IF e.step = 0 THEN [e EXCEPT !.step = steps[e.run] + 1] ELSE e
       IN  /\ IF e.step = 0 THEN NextStep(e.run) ELSE UNCHANGED steps
           /\ \/ request' = [request EXCEPT ![h] = At("emit", stamped)]
              \/ e.what = "external" /\ request' = [request EXCEPT ![h] = Idle]
    /\ UNCHANGED <<runs, seq, log, life, served>>

\* The file after line e: on a line of its own, unless the last line has no
\* newline; then both become one line, which does not parse.
Appended(e) == IF open THEN [disk EXCEPT ![Len(disk)] = Bad] ELSE Append(disk, e)

\* JSONLFileEventSink.Emit under the sink's lock.  The error of a failed write
\* or sync is only logged by the run handlers.
EmitToMemoryFirst(e) ==  \* mutant of the next: memory is appended to first
    /\ events' = Append(events, e)
    /\ disk' \in {disk, Appended(e)}
    /\ open' = FALSE
    /\ UNCHANGED torn
EmitToFile(e) ==
    \/ /\ disk' = Appended(e) /\ open' = FALSE
       /\ events' = Append(events, e)
       /\ UNCHANGED torn
    \/ \* nothing was written, or all of it but the sync failed
       /\ UNCHANGED <<events, torn>>
       /\ \/ UNCHANGED <<disk, open>>
          \/ disk' = Appended(e) /\ open' = FALSE
    \/ \* part of the line was written: cut off, or all but its newline
       /\ UNCHANGED events
       /\ torn' = TRUE /\ open' = TRUE
       /\ disk' \in IF open THEN {Appended(Bad)} ELSE {Append(disk, Bad), Append(disk, e)}

Emit(h) ==
    /\ request[h].at = "emit"
    /\ LET e == request[h].event IN
          \/ sink = "file" /\ EmitToFile(e)
          \/ sink = "memory" /\ events' = Append(events, e) /\ UNCHANGED <<disk, open, torn>>
    /\ request' = [request EXCEPT ![h] = Idle]
    /\ UNCHANGED <<process, life, sink, served>>

\* NewHarnessService in a new process: an empty registry, and restoreFromDisk;
\* a file with one line that does not parse is not used at all, the service
\* runs on an empty in-memory sink.  What the handlers were doing is lost.
Restart ==
    /\ life < MaxLives
    /\ life' = life + 1
    /\ runs' = [r \in RunIds |-> "none"] /\ seq' = 0
    /\ steps' = [r \in RunIds |-> 0]
    /\ request' = [h \in Handlers |-> Idle]
    /\ IF \E i \in DOMAIN disk : disk[i] = Bad
       THEN sink' = "memory" /\ events' = <<>>
       ELSE sink' = "file" /\ events' = disk
    /\ UNCHANGED <<disk, open, torn, served>>

Next ==
    \/ Restart
    \/ \E h \in Handlers :
          \/ CreateRun(h) \/ Stamp(h) \/ Emit(h)
          \/ \E r \in RunIds :
                \/ \E status \in Statuses : UpdateRun(h, r, status)
                \/ \E step \in {0, 1} : PostEvent(h, r, step)

Spec == Init /\ [][Next]_vars

-----------------------------------------------------------------------------
(* Properties                                                              *)

Pending(r) == {h \in Handlers : request[h] # Idle /\ request[h].event.run = r}
InLog(s) == {s[i] : i \in DOMAIN s}

\* Every variable stays in the set of values the service can give it.
TypeOK ==
    /\ runs \in [RunIds -> Statuses \cup {"none"}]
    /\ seq \in 0 .. MaxRuns
    /\ \A r \in RunIds : runs[r] = "none" <=> r > seq
    /\ steps \in [RunIds -> Nat]
    /\ events \in Seq(Events)
    /\ disk \in Seq(Events \cup {Bad})
    /\ open \in BOOLEAN /\ torn \in BOOLEAN /\ sink \in {"file", "memory"}
    /\ request \in [Handlers -> {Idle} \cup [at : {"stamp", "emit"}, event : Events]]
    /\ life \in 1 .. MaxLives /\ served \in 0 .. MaxRequests

\* Whatever updates race, a run has at most one terminal event of the Harness
\* in a life of the process, logged or on its way, and it reports the status
\* the registry holds.
OneTerminalEvent ==
    \A r \in RunIds :
        LET ends == {e \in InLog(events) : e.run = r /\ e.life = life /\ e.what \in Terminal}
            pending == {h \in Pending(r) : request[h].event.what \in Terminal}
        IN  /\ Cardinality(ends) + Cardinality(pending) <= 1
            /\ \A e \in ends \cup {request[h].event : h \in pending} : e.what = runs[r]

\* Step ids the tracker hands out are never used twice for a run within a life
\* of the process, although handlers append in any order.
TrackedStepsUnique ==
    \A i, j \in DOMAIN events :
        /\ i # j
        /\ events[i].run = events[j].run /\ events[i].life = events[j].life
        /\ events[i].tracked /\ events[j].tracked
        => events[i].step # events[j].step

\* The log the Harness serves is the durable one: as long as no write stopped
\* within a line, every event in memory is in the file, in the same order, so
\* a restart loses none of them.
ServedIsDurable ==
    sink = "file" /\ ~torn =>
        \E line \in [DOMAIN events -> DOMAIN disk] :
            /\ \A i \in DOMAIN events : disk[line[i]] = events[i]
            /\ \A i, j \in DOMAIN events : i < j => line[i] < line[j]

\* "Event envelopes are guaranteed for ... run state changes": a run whose
\* handlers have answered has, in the log, an event with its current status.
StateChangesHaveEvents ==
    \A r \in RunIds :
        runs[r] # "none" /\ Pending(r) = {} =>
            \E e \in InLog(events) : e.run = r /\ e.life = life /\ e.what = runs[r]
=============================================================================
