---------------------------- MODULE BffSessions ----------------------------
(***************************************************************************)
(* Sessions and the editor assist of the BFF (services/c2c-bff/src:        *)
(* sessionStore.ts, rateLimit.ts, editorExplain.ts, editorTelemetry.ts and *)
(* the routes of server.ts that use them).                                 *)
(*                                                                         *)
(* The store keeps a bounded number of sessions in the order they were     *)
(* made.  A session dies idle, signed out, or pushed out by newer ones,    *)
(* and its cookie does not know.  An explanation is paid for twice, by its *)
(* session and by its tenant's day, under two nested locks; only then is   *)
(* the model gateway called, and whatever came of the call is written to a *)
(* ledger before the editor hears of it.                                   *)
(*                                                                         *)
(* One tenant and one Studio tab; other browsers appear as sign-ins.       *)
(***************************************************************************)
EXTENDS Naturals, Sequences, FiniteSets, BffGate

CONSTANTS MaxTime,      \* bound: the last instant of the clock
          DayLength,    \* instants per UTC day
          Idle,         \* idleTimeoutMs
          MaxSessions,  \* maxSessions
          MaxSignIns,   \* bound: sessions ever made
          MaxHits,      \* sign-ins an address may make within Window
          Window,       \* windowMs
          Limit,        \* explanations per session
          Cap,          \* explanations per tenant and day
          MaxAsks,      \* bound: explanations ever asked for
          MaxEvents     \* EDITOR_TELEMETRY_MAX_EVENTS_PER_BATCH

ASSUME BoundAssumption ==
    /\ {MaxTime, Idle, Window, MaxEvents} \subseteq Nat
    /\ {DayLength, MaxSessions, MaxSignIns, MaxHits, Limit, Cap, MaxAsks} \subseteq Nat \ {0}

VARIABLES
    now,          \* the BFF's clock
    sessions,     \* SessionStore.sessions, oldest first
    signIns,      \* sessions made so far; their ids are 1, 2, ...
    hits,         \* the rate limiter's bucket for the Studio's address
    used,         \* SessionEntry.used, by session
    tenant,       \* TenantEntry
    sessionLock,  \* who holds (the head) and waits for the lock of a session
    tenantLock,   \* the same for the tenant
    seqNo,        \* SequenceCounter
    ledger,       \* entries written, oldest first
    paid,         \* the calls of the gateway that were paid for (history)
    ask           \* each explanation, from the Studio through the BFF and back

bffVars == <<now, sessions, signIns, hits, used, tenant, sessionLock, tenantLock, seqNo, ledger,
             paid>>

Ids == 1 .. MaxSignIns
Asks == 1 .. MaxAsks
Today == 1 + now \div DayLength
NoAsk == [at |-> "none", call |-> 0, session |-> 0, code |-> "none", clears |-> FALSE]
-----------------------------------------------------------------------------
(* sessionStore.ts and rateLimit.ts                                        *)

IsIdle(s) == now - s.last > Idle
IsLive(id) == \E i \in DOMAIN sessions : sessions[i].id = id /\ ~IsIdle(sessions[i])
Without(id) == SelectSeq(sessions, LAMBDA s : s.id # id)
\* get: an idle session is deleted, any other one is touched.
Touched(id) ==
    IF ~IsLive(id) THEN Without(id)
    ELSE [i \in DOMAIN sessions |->
            IF sessions[i].id = id THEN [sessions[i] EXCEPT !.last = now] ELSE sessions[i]]
\* create: sweep the idle ones, evict from the oldest until one more fits.
Created ==
    LET kept == SelectSeq(sessions, LAMBDA s : ~IsIdle(s))
        over == IF Len(kept) >= MaxSessions THEN Len(kept) - MaxSessions + 1 ELSE 0
    IN  Append(SubSeq(kept, over + 1, Len(kept)),
               [id |-> signIns + 1, last |-> now])

\* RateLimiter.consume: the hits inside the sliding window.
RecentHits == SelectSeq(hits, LAMBDA t : t + Window > now)
MayHit == Len(RecentHits) < MaxHits

\* POST session/sign-in, its checks passed but the limiter's.
SignIn ==
    /\ signIns < MaxSignIns
    /\ IF MayHit
       THEN /\ hits' = Append(RecentHits, now)
            /\ sessions' = Created
            /\ signIns' = signIns + 1
       ELSE hits' = RecentHits /\ UNCHANGED <<sessions, signIns>>
\* Someone signs in from another address, with a bucket of its own.
SignInElsewhere ==
    /\ signIns < MaxSignIns
    /\ sessions' = Created
    /\ signIns' = signIns + 1
    /\ UNCHANGED <<now, hits, used, tenant, sessionLock, tenantLock, seqNo, ledger, paid, ask>>

Tick ==
    /\ now < MaxTime
    /\ now' = now + 1
    /\ UNCHANGED <<sessions, signIns, hits, used, tenant, sessionLock, tenantLock, seqNo, ledger, paid, ask>>

-----------------------------------------------------------------------------
(* POST editor/explain                                                     *)

\* The editor's result: what it was refused for is not told apart, nor is how
\* the gateway failed (policy_denied, timeout or gateway_unavailable).  Lost is an
\* answer of the BFF that did not get through.
Results == {"none", "refused", "success", "failed", "unavailable", "lost"}
\* What can be wrong with what the Studio sends: the configuration, the region,
\* the ledger's file and, by now, the session.
ExplainDefects == {{}, {"no gateway"}, {"region"}, {"no ledger"}}

\* resolveEditorAssistSession: the answer clears the cookie of a request whose
\* session the store does not have any more.
ClearsCookie(id, looked) == looked /\ id # 0 /\ ~IsLive(id)

\* Everything up to the await on the budget.  The session is looked up, and so
\* touched or dropped, only if nothing before it was wrong.
ExplainArrives(n) ==
    /\ ask[n].at = "sent"
    /\ \E defects \in ExplainDefects :
         LET id == ask[n].session
             looked == defects \cap {"no gateway", "region"} = {}
             all == IF IsLive(id) THEN defects ELSE defects \cup {"session"}
             status == Refusal("explain", all)
         IN  /\ sessions' = IF looked THEN Touched(id) ELSE sessions
             /\ IF status = 0
                THEN /\ ask' = [ask EXCEPT ![n].at = "session lock"]
                     /\ sessionLock' = [sessionLock EXCEPT ![id] = Append(@, n)]
                ELSE /\ ask' = [ask EXCEPT ![n].at = "answer", ![n].code = "refused",
                                          ![n].clears = ClearsCookie(id, looked)]
                     /\ UNCHANGED sessionLock
    /\ UNCHANGED <<now, signIns, hits, used, tenant, tenantLock, seqNo, ledger, paid>>

\* consume: with the session's lock, wait for the tenant's.
EnterTenantLock(n) ==
    /\ ask[n].at = "session lock"
    /\ Head(sessionLock[ask[n].session]) = n
    /\ ask' = [ask EXCEPT ![n].at = "tenant lock"]
    /\ tenantLock' = Append(tenantLock, n)
    /\ UNCHANGED <<now, sessions, signIns, hits, used, tenant, sessionLock, seqNo, ledger, paid>>

\* refreshTenantForToday
TenantToday == IF tenant.day = Today THEN tenant ELSE [day |-> Today, used |-> 0]
\* With both locks: the tenant's ceiling, then the session's, then pay.
Consume(n) ==
    /\ ask[n].at = "tenant lock"
    /\ Head(tenantLock) = n
    /\ tenantLock' = Tail(tenantLock)
    /\ sessionLock' = [sessionLock EXCEPT ![ask[n].session] = Tail(@)]
    /\ IF TenantToday.used < Cap /\ used[ask[n].session] < Limit
       THEN /\ used' = [used EXCEPT ![ask[n].session] = @ + 1]
            /\ tenant' = [TenantToday EXCEPT !.used = @ + 1]
            /\ ask' = [ask EXCEPT ![n].at = "gateway"]
            /\ paid' = paid \cup {[ask |-> n, session |-> ask[n].session, day |-> Today]}
       ELSE /\ tenant' = TenantToday
            /\ ask' = [ask EXCEPT ![n].at = "answer", ![n].code = "refused"]
            /\ UNCHANGED <<used, paid>>
    /\ UNCHANGED <<now, sessions, signIns, hits, seqNo, ledger>>

\* mapGatewayResponse, and the two ways in which the call itself fails.
GatewayResults == {"success", "failed"}
\* The answer is given a number and written down; the editor is told of it only
\* if it could be written.
GatewayAnswersRefunding(n) ==  \* mutant of the next: a failed call is given back
    /\ ask[n].at = "gateway"
    /\ seqNo' = seqNo + 1
    /\ \E result \in GatewayResults, written \in BOOLEAN :
         /\ ledger' = IF written THEN Append(ledger, [ask |-> n, ref |-> seqNo + 1, code |-> result])
                                 ELSE ledger
         /\ ask' = [ask EXCEPT ![n].at = "answer",
                               ![n].code = IF written THEN result ELSE "unavailable"]
         /\ used' = IF result = "success" THEN used ELSE [used EXCEPT ![ask[n].session] = @ - 1]
    /\ UNCHANGED <<now, sessions, signIns, hits, tenant, sessionLock, tenantLock, paid>>
GatewayAnswers(n) ==
    /\ ask[n].at = "gateway"
    /\ seqNo' = seqNo + 1
    /\ \E result \in GatewayResults, written \in BOOLEAN :
         /\ ledger' = IF written THEN Append(ledger, [ask |-> n, ref |-> seqNo + 1, code |-> result])
                                 ELSE ledger
         /\ ask' = [ask EXCEPT ![n].at = "answer",
                               ![n].code = IF written THEN result ELSE "unavailable"]
    /\ UNCHANGED <<now, sessions, signIns, hits, used, tenant, sessionLock, tenantLock, paid>>

-----------------------------------------------------------------------------
(* Properties of the BFF                                                   *)

\* Every call of the model gateway is paid for and written down: no session
\* makes more than its limit of calls and no tenant more than its cap on a day,
\* whatever sign-ins, evictions, day changes and other calls happen around
\* them; no two entries carry the same reference and no call has two; what the
\* editor is told of a call is what was written, a call that could not be written
\* is reported as unavailable, and an answer that got lost tells nothing (consume,
\* handleEditorExplain).
CallsAreAccounted ==
    /\ \A id \in Ids : Cardinality({p \in paid : p.session = id}) <= Limit
    /\ \A p \in paid : Cardinality({q \in paid : q.day = p.day}) <= Cap
    /\ \A i, j \in DOMAIN ledger :
         i # j => ledger[i].ref # ledger[j].ref /\ ledger[i].ask # ledger[j].ask
    /\ \A i \in DOMAIN ledger : \E p \in paid : p.ask = ledger[i].ask
    /\ \A p \in paid : ask[p.ask].at = "answer" =>
         \/ \E i \in DOMAIN ledger : ledger[i].ask = p.ask /\ ledger[i].code = ask[p.ask].code
         \/ ask[p.ask].code \in {"unavailable", "lost"}

\* The routes behind the session gate (rejectUnauthenticatedStudioJsonRequest):
\* all but those that ask for no session or look for it later.
GatedRoutes ==
    Routes \ (OpenRoutes \cup {"explain", "budget", "csp", "signIn", "preference"})
=============================================================================
