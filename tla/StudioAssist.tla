---------------------------- MODULE StudioAssist ----------------------------
(***************************************************************************)
(* The Studio's side of a session: bootstrap and sign-in                   *)
(* (lib/editor/sessionBootstrap.ts), the "explain this region" panel       *)
(* (stores/editorAssist.tsx, lib/editor/editorAssistClient.ts) and the     *)
(* telemetry emitter (lib/editor/editorTelemetry.ts), all sharing one      *)
(* cookie, composed with the BFF of module BffSessions.                    *)
(*                                                                         *)
(* Requests to explain are answered in any order, late, or never; an       *)
(* answer that says the session is unknown clears the cookie, whichever    *)
(* session the cookie names by then.  The other routes are atomic: the     *)
(* answer arrives when it is given.                                        *)
(***************************************************************************)
EXTENDS BffSessions, FiniteSetsExt

CONSTANTS QueueMax,   \* EDITOR_TELEMETRY_MAX_QUEUE_SIZE
          BatchSize   \* EDITOR_TELEMETRY_MAX_BATCH_SIZE

MaxRetries == 1       \* EDITOR_TELEMETRY_MAX_RETRY_ATTEMPTS

ASSUME QueueAssumption == {QueueMax, BatchSize} \subseteq Nat \ {0} /\ BatchSize <= QueueMax

VARIABLES
    cookie,    \* the session cookie, 0 when there is none
    shell,     \* where ensureSessionBootstrap of the workbench is
    inflight,  \* bootstrap requests under way: who waits for each
    cached,    \* the newest of them is the shared promise
    calls,     \* callSeqRef
    shown,     \* the call whose result the panel shows, 0 for none
    tele       \* the telemetry queue and the batch under way

studioVars == <<cookie, shell, inflight, cached, calls, shown, tele>>
vars == <<bffVars, ask, studioVars>>

Shell == 0    \* as a waiter; the others are the numbers of asks
NoBatch == [size |-> 0, retries |-> 0]

-----------------------------------------------------------------------------
(* Telemetry                                                               *)

\* flush: nothing if a batch is under way; else the whole queue is the batch.
Flushed(t) ==
    IF t.batch.size > 0 THEN t
    ELSE [queue |-> 0, timer |-> FALSE, batch |-> [NoBatch EXCEPT !.size = t.queue]]
\* emit: a full queue loses its oldest event.
Emitted(t) ==
    LET queue == IF t.queue < QueueMax THEN t.queue + 1 ELSE QueueMax
    IN  IF queue >= BatchSize THEN Flushed([t EXCEPT !.queue = queue])
        ELSE [t EXCEPT !.queue = queue, !.timer = TRUE]

FlushTimer ==
    /\ tele.timer
    /\ tele' = Flushed([tele EXCEPT !.timer = FALSE])
    /\ UNCHANGED <<bffVars, ask, cookie, shell, inflight, cached, calls, shown>>

AfterBatchIdle(t) == [t EXCEPT !.batch = NoBatch]  \* mutant of the next: nothing is started again
\* The end of flush: a full queue goes at once, any other when the timer fires.
AfterBatch(t) ==
    LET free == [t EXCEPT !.batch = NoBatch]
    IN  IF t.queue >= BatchSize THEN Flushed(free)
        ELSE IF t.queue > 0 THEN [free EXCEPT !.timer = TRUE]
        ELSE free
\* sendBatch returned: it is tried once more if it failed, then forgotten.
BatchEnds(ok) ==
    tele' = IF ok \/ tele.batch.retries = MaxRetries THEN AfterBatch(tele)
            ELSE [tele EXCEPT !.batch.retries = @ + 1]

\* POST editor/telemetry: a whole batch is taken or refused; the learning
\* service behind it may refuse or not answer (served).
TelemetryAnswered(served) ==
    /\ tele.batch.size > 0
    /\ sessions' = Touched(cookie)
    /\ cookie' = IF IsLive(cookie) THEN cookie ELSE 0
    /\ BatchEnds(/\ served
                 /\ Refusal("telemetry",
                            {d \in {"session", "too many events"} :
                               IF d = "session" THEN ~IsLive(cookie)
                               ELSE tele.batch.size > MaxEvents}) = 0)
    /\ UNCHANGED <<now, signIns, hits, used, tenant, sessionLock, tenantLock, seqNo, ledger, paid, ask,
                   shell, inflight, cached, calls, shown>>
\* The request never gets there, or its answer never comes back.
TelemetryLost ==
    /\ tele.batch.size > 0
    /\ BatchEnds(FALSE)
    /\ UNCHANGED <<bffVars, ask, cookie, shell, inflight, cached, calls, shown>>

-----------------------------------------------------------------------------
(* Bootstrap and sign-in                                                   *)

\* getSessionBootstrap: join the request that is cached, or make one.
Join(w) ==
    IF cached /\ inflight # <<>>
    THEN inflight' = [inflight EXCEPT ![Len(inflight)] = @ \cup {w}] /\ UNCHANGED cached
    ELSE inflight' = Append(inflight, {w}) /\ cached' = TRUE

\* The workbench finds the BFF healthy, once for every time the page is loaded.
EnsureSessionBootstrap ==
    /\ shell = "start"
    /\ shell' = "bootstrap"
    /\ Join(Shell)
    /\ UNCHANGED <<bffVars, ask, cookie, calls, shown, tele>>

\* The answer, or a failure to get one, ends the request for all who wait: an
\* ask goes on or is dropped, the workbench signs in if it was refused.
BootstrapEnds(i, outcome) ==
    LET waiters == inflight[i]
    IN  /\ inflight' = RemoveAt(inflight, i)
        /\ cached' = (cached /\ i # Len(inflight))
        /\ ask' = [n \in Asks |->
                     IF n \notin waiters THEN ask[n]
                     ELSE IF outcome = "ok" THEN [ask[n] EXCEPT !.at = "ready"]
                     ELSE [ask[n] EXCEPT !.at = "dropped"]]
        /\ shell' = IF Shell \notin waiters THEN shell
                    ELSE IF outcome = "unauthenticated" /\ shell = "bootstrap" THEN "sign in"
                    ELSE "done"
\* POST session/bootstrap
BootstrapAnswered(i) ==
    /\ i \in DOMAIN inflight
    /\ sessions' = Touched(cookie)
    /\ cookie' = IF IsLive(cookie) THEN cookie ELSE 0
    /\ BootstrapEnds(i, IF Refusal("bootstrap", IF IsLive(cookie) THEN {} ELSE {"session"}) = 0
                        THEN "ok" ELSE "unauthenticated")
    /\ UNCHANGED <<now, signIns, hits, used, tenant, sessionLock, tenantLock, seqNo, ledger, paid,
                   calls, shown, tele>>
BootstrapLost(i) ==
    /\ i \in DOMAIN inflight
    /\ BootstrapEnds(i, "network")
    /\ UNCHANGED <<bffVars, cookie, calls, shown, tele>>

\* signInForBootstrap, then forget the shared request and bootstrap once more.
SignInForBootstrap ==
    /\ shell = "sign in"
    /\ SignIn
    /\ IF MayHit
       THEN /\ cookie' = signIns + 1
            /\ shell' = "bootstrap again"
            /\ inflight' = Append(inflight, {Shell})
            /\ cached' = TRUE
       ELSE shell' = "done" /\ UNCHANGED <<cookie, inflight, cached>>
    /\ UNCHANGED <<now, used, tenant, sessionLock, tenantLock, seqNo, ledger, paid, ask, calls, shown, tele>>
\* Fixture sign-in is switched off, or cannot be reached.
SignInRefused ==
    /\ shell = "sign in"
    /\ shell' = "done"
    /\ UNCHANGED <<bffVars, ask, cookie, inflight, cached, calls, shown, tele>>

\* Another tab of the browser, with the same cookie, is refused and signs in.
OtherTabSignsIn ==
    /\ ~IsLive(cookie)
    /\ SignIn
    /\ cookie' = IF MayHit THEN signIns + 1 ELSE 0
    /\ UNCHANGED <<now, used, tenant, sessionLock, tenantLock, seqNo, ledger, paid, ask,
                   shell, inflight, cached, calls, shown, tele>>

\* Any other request behind the session gate.  The trust-case preference is one
\* of them: what it saves is only ever read back, for as long as the session lives.
UseSession ==
    /\ cookie # 0
    /\ sessions' = Touched(cookie)
    /\ cookie' = IF IsLive(cookie) THEN cookie ELSE 0
    /\ UNCHANGED <<now, signIns, hits, used, tenant, sessionLock, tenantLock, seqNo, ledger, paid, ask,
                   shell, inflight, cached, calls, shown, tele>>
-----------------------------------------------------------------------------
(* The panel                                                               *)

\* "Explain this region": the bootstrap gives the redaction patterns.
Explain(n) ==
    /\ ask[n].at = "none"
    /\ \A m \in Asks : m < n => ask[m].at # "none"
    /\ ask' = [ask EXCEPT ![n].at = "bootstrap"]
    /\ Join(n)
    /\ UNCHANGED <<bffVars, cookie, shell, calls, shown, tele>>
\* retry: the same request again, without another bootstrap.
Retry(n) ==
    /\ ask[n].at = "none"
    /\ \A m \in Asks : m < n => ask[m].at # "none"
    /\ calls > 0
    /\ ask' = [ask EXCEPT ![n].at = "ready"]
    /\ UNCHANGED <<bffVars, studioVars>>

\* runExplain and requestExplanation up to the answer.
RunExplain(n) ==
    /\ ask[n].at = "ready"
    /\ calls' = calls + 1
    /\ shown' = 0
    /\ tele' = Emitted(tele)
    /\ ask' = [ask EXCEPT ![n].at = "sent", ![n].call = calls + 1, ![n].session = cookie]
    /\ UNCHANGED <<bffVars, cookie, shell, inflight, cached>>
\* fetch rejects before the BFF sees the request; or the connection breaks after
\* the BFF has refused the call or made it and charged for it.  A body that is
\* lost after its headers is a refusal like others.  (A connection that breaks
\* sooner makes the panel go on sooner; the BFF does the same.)
ExplainLost(n) ==
    /\ \/ /\ ask[n].at = "sent"
          /\ ask' = [ask EXCEPT ![n].at = "answer", ![n].code = "refused"]
       \/ /\ ask[n].at = "answer"
          /\ ask' = [ask EXCEPT ![n].code = IF @ = "refused" THEN @ ELSE "lost",
                                ![n].clears = FALSE]
    /\ UNCHANGED <<bffVars, studioVars>>

\* The result is shown unless a newer call was made; either way its outcome is
\* an event.  What is not in the contract has become a refusal.
ShowResult(n) ==
    /\ ask[n].at = "answer"
    /\ cookie' = IF ask[n].clears THEN 0 ELSE cookie
    /\ tele' = Emitted(tele)
    /\ shown' = IF ask[n].call = calls THEN calls ELSE shown
    /\ ask' = [ask EXCEPT ![n] = [NoAsk EXCEPT !.at = "done"]]
    /\ UNCHANGED <<bffVars, shell, inflight, cached, calls>>

-----------------------------------------------------------------------------
Init ==
    /\ now = 0 /\ sessions = <<>> /\ signIns = 0 /\ hits = <<>>
    /\ used = [id \in Ids |-> 0] /\ tenant = [day |-> 1, used |-> 0]
    /\ sessionLock = [id \in Ids |-> <<>>] /\ tenantLock = <<>>
    /\ seqNo = 0 /\ ledger = <<>> /\ paid = {}
    /\ ask = [n \in Asks |-> NoAsk]
    /\ cookie = 0 /\ shell = "start" /\ inflight = <<>> /\ cached = FALSE
    /\ calls = 0 /\ shown = 0
    /\ tele = [queue |-> 0, timer |-> FALSE, batch |-> NoBatch]

Environment == (SignInElsewhere \/ Tick) /\ UNCHANGED studioVars
BffStep(n) ==
    /\ ExplainArrives(n) \/ EnterTenantLock(n) \/ Consume(n) \/ GatewayAnswers(n)
    /\ UNCHANGED studioVars
BootstrapStep(w) ==
    \E i \in DOMAIN inflight : w \in inflight[i] /\ (BootstrapAnswered(i) \/ BootstrapLost(i))
TelemetryStep == FlushTimer \/ TelemetryLost \/ \E served \in BOOLEAN : TelemetryAnswered(served)
\* The next step of an ask, of which there is one at a time.
AskStep(n) == BootstrapStep(n) \/ RunExplain(n) \/ BffStep(n) \/ ShowResult(n)
UserStep ==
    \/ EnsureSessionBootstrap \/ OtherTabSignsIn \/ UseSession
    \/ \E n \in Asks : Explain(n) \/ Retry(n)
Next ==
    \/ Environment \/ UserStep \/ SignInForBootstrap \/ SignInRefused
    \/ TelemetryStep \/ BootstrapStep(Shell)
    \/ \E n \in Asks : AskStep(n) \/ ExplainLost(n)

\* As long as something is awaited, something awaited ends: the clients and the
\* gateway have time limits, a promise that is settled resumes its handler, and a
\* timer that is set fires.  Which of them is first is left open.
Fairness == WF_vars(TelemetryStep \/ \E n \in Asks : AskStep(n))
Spec == Init /\ [][Next]_vars /\ Fairness

-----------------------------------------------------------------------------
TypeOK ==
    /\ now \in 0 .. MaxTime /\ signIns \in 0 .. MaxSignIns
    /\ Len(sessions) <= MaxSessions
    /\ \A i \in DOMAIN sessions :
         sessions[i] \in [id : 1 .. signIns, last : 0 .. now]
    /\ Len(hits) <= MaxHits
    /\ used \in [Ids -> 0 .. Limit]
    /\ tenant \in [day : 1 .. 1 + MaxTime, used : 0 .. Cap]
    /\ ask \in [Asks -> [at : {"none", "bootstrap", "dropped", "ready", "sent", "session lock",
                               "tenant lock", "gateway", "answer", "done"},
                         call : 0 .. MaxAsks, session : 0 .. MaxSignIns,
                         code : Results,
                         clears : BOOLEAN]]
    /\ cookie \in 0 .. signIns
    /\ shell \in {"start", "bootstrap", "sign in", "bootstrap again", "done"}
    /\ cached => inflight # <<>>
    /\ calls \in 0 .. MaxAsks /\ shown \in 0 .. calls
    /\ tele.queue \in 0 .. QueueMax /\ tele.batch.size \in 0 .. QueueMax


\* Whatever is lost, late or out of order, the editor assist comes to rest:
\* from some time on the panel shows the result of the last call that was made
\* and not of an older one that came late, no ask is still under way, and no
\* event is left behind in the queue without a flush to take it (runExplain,
\* withLock, flush).
EverythingSettles ==
    <>[](/\ shown = calls
         /\ \A n \in Asks : ask[n].at \in {"none", "dropped", "done"}
         /\ tele.queue = 0 /\ tele.batch = NoBatch)
=============================================================================
