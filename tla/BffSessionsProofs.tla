------------------------- MODULE BffSessionsProofs -------------------------
(* Proofs about the explanations of the BFF and what they cost. *)
EXTENDS StudioAssist, FiniteSetTheorems, SequenceTheorems, TLAPS

-----------------------------------------------------------------------------
(* The inductive invariant.                                                *)

PaidBy(id) == {p \in paid : p.session = id}
PaidOn(day) == {p \in paid : p.day = day}
AskShape == DOMAIN ask = Asks /\ \A n \in Asks : DOMAIN ask[n] = DOMAIN NoAsk
Entries == [ask : Asks, ref : Nat, code : Results]
Shapes ==
    /\ now \in Nat /\ seqNo \in Nat /\ used \in [Ids -> Nat] /\ tenant \in [day : Nat, used : Nat]
    /\ IsFiniteSet(paid) /\ \A p \in paid : p.ask \in Asks /\ p.day \in Nat
    /\ ledger \in Seq(Entries) /\ inflight \in Seq(SUBSET (0 .. MaxAsks))
    /\ AskShape

\* The counters of the budget are the calls that were paid for, and no day is
\* ahead of the clock.
Budgeted ==
    /\ \A id \in Ids : Cardinality(PaidBy(id)) = used[id] /\ used[id] <= Limit
    /\ \A day \in Nat : Cardinality(PaidOn(day)) <= Cap
    /\ Cardinality(PaidOn(tenant.day)) = tenant.used
    /\ tenant.day <= Today /\ \A p \in paid : p.day <= tenant.day

\* Where an ask is tells whether it was paid for and whether it was written.
Called == {"gateway", "answer", "done"}
Written ==
    /\ \A p \in paid : ask[p.ask].at \in Called
    /\ \A n \in Asks : ask[n].at = "gateway" => \E p \in paid : p.ask = n
    /\ \A i \in DOMAIN ledger :
         /\ ledger[i].ref <= seqNo /\ ask[ledger[i].ask].at \in {"answer", "done"}
         /\ \E p \in paid : p.ask = ledger[i].ask
    /\ \A i, j \in DOMAIN ledger :
         i # j => ledger[i].ref # ledger[j].ref /\ ledger[i].ask # ledger[j].ask
    /\ \A p \in paid : ask[p.ask].at = "answer" =>
         \/ \E i \in DOMAIN ledger : ledger[i].ask = p.ask /\ ledger[i].code = ask[p.ask].code
         \/ ask[p.ask].code \in {"unavailable", "lost"}

\* An ask that waits for a bootstrap waits for one only.
Waiting ==
    \A i \in DOMAIN inflight : \A n \in inflight[i] \cap Asks :
        /\ ask[n].at = "bootstrap"
        /\ \A j \in DOMAIN inflight : n \in inflight[j] => j = i

IInv == Shapes /\ Budgeted /\ Written /\ Waiting

-----------------------------------------------------------------------------
(* The clock and the budget.                                               *)

\* The day of the clock (DayLength instants each).
LEMMA TodayType == ASSUME now \in Nat PROVE Today \in Nat
BY BoundAssumption DEF Today

\* An instant later it is the same day or a later one.
LEMMA DaysGrow ==
  ASSUME NEW t \in Nat, NEW d \in Nat \ {0}
  PROVE  /\ 1 + t \div d \in Nat /\ 1 + (t + 1) \div d \in Nat
         /\ 1 + (t + 1) \div d >= 1 + t \div d
<1>1. t \div d \in Nat /\ (t + 1) \div d \in Nat
  OBVIOUS
<1>2. (t + 1) \div d >= t \div d
  OBVIOUS
<1>. QED  BY <1>1, <1>2

\* Time passes, and the day with it.
LEMMA TickKeepsBudget ==
  ASSUME Shapes, Budgeted, now' \in {now, now + 1}, UNCHANGED <<paid, used, tenant>>
  PROVE  Budgeted'
<1>1. Today' >= Today /\ Today \in Nat /\ Today' \in Nat
  <2>1. /\ 1 + now \div DayLength \in Nat /\ 1 + (now + 1) \div DayLength \in Nat
        /\ 1 + (now + 1) \div DayLength >= 1 + now \div DayLength
    <3>1. now \in Nat /\ DayLength \in Nat \ {0}
      BY BoundAssumption DEF Shapes
    <3>. QED  BY <3>1, DaysGrow
  <2>2. Today' \in {Today, 1 + (now + 1) \div DayLength}
    BY DEF Today
  <2>. QED  BY <2>1, <2>2 DEF Today
<1>2. tenant.day \in Nat
  BY DEF Shapes
<1>. QED  BY <1>1, <1>2 DEF Budgeted, PaidBy, PaidOn

\* One more element of a set that is counted.
LEMMA OneMore ==
  ASSUME NEW S, IsFiniteSet(S), NEW P, P \subseteq S, NEW x, x \notin S
  PROVE  Cardinality(P \cup {x}) = Cardinality(P) + 1 /\ Cardinality(P) \in Nat
BY FS_Subset, FS_AddElement, FS_CardinalityType

\* The new day starts with nothing paid (refreshTenantForToday).
LEMMA TenantTodayCounts ==
  ASSUME Shapes, Budgeted
  PROVE  /\ TenantToday \in [day : Nat, used : Nat] /\ TenantToday.day = Today
         /\ Cardinality(PaidOn(Today)) = TenantToday.used
         /\ \A p \in paid : p.day <= Today
<1>1. Today \in Nat
  BY TodayType DEF Shapes
<1>2. CASE tenant.day = Today
  BY <1>2 DEF Shapes, Budgeted, TenantToday
<1>3. CASE tenant.day # Today
  <2>1. tenant.day \in Nat /\ tenant.day < Today
    BY <1>1, <1>3 DEF Shapes, Budgeted
  <2>2. \A p \in paid : p.day \in Nat /\ p.day < Today
    BY <1>1, <2>1 DEF Shapes, Budgeted
  <2>3. PaidOn(Today) = {}
    BY <1>1, <2>2 DEF PaidOn
  <2>. QED  BY <1>1, <1>3, <2>2, <2>3, FS_EmptySet DEF TenantToday
<1>. QED  BY <1>2, <1>3

\* The two counters go up together with what they count, and only below their
\* limits (consume).
LEMMA PayingKeepsBudget ==
  ASSUME Shapes, Budgeted, NEW n \in Asks, NEW id, \A p \in paid : p.ask # n,
         TenantToday.used < Cap, used[id] < Limit, now' = now,
         used' = [used EXCEPT ![id] = @ + 1], tenant' = [TenantToday EXCEPT !.used = @ + 1],
         paid' = paid \cup {[ask |-> n, session |-> id, day |-> Today]}
  PROVE  Budgeted'
<1>. DEFINE new == [ask |-> n, session |-> id, day |-> Today]
<1>1. new \notin paid /\ IsFiniteSet(paid) /\ Today \in Nat /\ Today' = Today
  BY TodayType DEF Shapes, Today
<1>2. ASSUME NEW sid \in Ids
      PROVE  Cardinality(PaidBy(sid)') = used'[sid] /\ used'[sid] <= Limit
  <2>1. CASE sid = id
    <3>1. PaidBy(sid)' = PaidBy(sid) \cup {new}
      BY <2>1 DEF PaidBy
    <3>2. Cardinality(PaidBy(sid)') = Cardinality(PaidBy(sid)) + 1
      BY <1>1, <3>1, OneMore DEF PaidBy
    <3>3. Cardinality(PaidBy(sid)) = used[sid] /\ used[sid] \in Nat
      BY <1>2 DEF Budgeted, Shapes
    <3>4. used'[sid] = used[sid] + 1
      BY <1>2, <2>1 DEF Shapes
    <3>. QED  BY <2>1, <3>2, <3>3, <3>4, BoundAssumption
  <2>2. CASE sid # id
    <3>1. PaidBy(sid)' = PaidBy(sid)
      BY <2>2 DEF PaidBy
    <3>. QED  BY <1>2, <2>2, <3>1 DEF Budgeted, Shapes
  <2>. QED  BY <2>1, <2>2
<1>3. /\ Cardinality(PaidOn(Today)) = TenantToday.used /\ TenantToday \in [day : Nat, used : Nat]
      /\ TenantToday.day = Today /\ \A p \in paid : p.day <= Today
  BY TenantTodayCounts
<1>4. tenant'.day = Today /\ tenant'.used = TenantToday.used + 1
  BY <1>3
<1>5. Cardinality(PaidOn(Today)') = TenantToday.used + 1
  <2>1. PaidOn(Today)' = PaidOn(Today) \cup {new}
    BY <1>1 DEF PaidOn
  <2>. QED  BY <1>1, <1>3, <2>1, OneMore DEF PaidOn
<1>6. ASSUME NEW day \in Nat PROVE Cardinality(PaidOn(day)') <= Cap
  <2>1. CASE day = Today
    BY <1>1, <1>3, <1>5, <2>1, BoundAssumption DEF PaidOn
  <2>2. CASE day # Today
    <3>1. PaidOn(day)' = PaidOn(day)
      BY <2>2 DEF PaidOn
    <3>. QED  BY <1>6, <3>1 DEF Budgeted
  <2>. QED  BY <2>1, <2>2
<1>7. Cardinality(PaidOn(tenant.day)') = tenant'.used
  BY <1>1, <1>4, <1>5 DEF PaidOn
<1>8. \A p \in paid' : p.day <= tenant'.day
  BY <1>1, <1>3, <1>4
<1>. QED  BY <1>1, <1>2, <1>4, <1>6, <1>7, <1>8 DEF Budgeted, PaidBy, PaidOn

-----------------------------------------------------------------------------
(* The asks.                                                               *)

\* A step moves the ask n, and no other.
Moves(n) ==
    /\ AskShape' /\ \A m \in Asks \ {n} : ask'[m] = ask[m]
budgetVars == <<now, used, tenant, paid, seqNo, ledger>>

LosesAnswer(n) ==
    /\ ask[n].at = "answer" /\ ask'[n].at = "answer"
    /\ ask'[n].code \in {ask[n].code, "lost"}

\* An ask that was not paid for moves on, without becoming a call; or the
\* panel takes an answer, or loses it.
LEMMA MoveKeepsWritten ==
  ASSUME Shapes, Written, NEW n \in Asks, Moves(n), UNCHANGED <<paid, seqNo, ledger>>,
         \/ ask[n].at \notin Called /\ ask'[n].at # "gateway"
         \/ ask[n].at = "answer" /\ ask'[n].at = "done"
         \/ LosesAnswer(n)
  PROVE  Written'
<1>1. CASE ask[n].at \notin Called /\ ask'[n].at # "gateway"
  <2>1. \A p \in paid : p.ask \in Asks \ {n} /\ ask'[p.ask] = ask[p.ask]
    BY <1>1 DEF Shapes, Written, Moves
  <2>2. \A i \in DOMAIN ledger : ask'[ledger[i].ask] = ask[ledger[i].ask]
    BY <2>1 DEF Written
  <2>. QED  BY <1>1, <2>1, <2>2 DEF Written, Moves
<1>2. CASE ask[n].at = "answer" /\ ask'[n].at = "done"
  <2>1. \A p \in paid : p.ask \in Asks /\ (p.ask # n => ask'[p.ask] = ask[p.ask])
    BY DEF Shapes, Moves
  <2>2. \A i \in DOMAIN ledger : /\ ledger[i].ask \in Asks
                                 /\ ledger[i].ask # n => ask'[ledger[i].ask] = ask[ledger[i].ask]
    BY <2>1 DEF Written
  <2>. QED  BY <1>2, <2>1, <2>2 DEF Written, Moves, Called
<1>3. CASE LosesAnswer(n)
  <2>1. \A p \in paid : p.ask \in Asks /\ (p.ask # n => ask'[p.ask] = ask[p.ask])
    BY DEF Shapes, Moves
  <2>2. \A i \in DOMAIN ledger : ledger[i].ask \in Asks
    BY <2>1 DEF Written
  <2>3. \A m \in Asks : ask'[m].at = ask[m].at /\ ask'[m].code \in {ask[m].code, "lost"}
    BY <1>3 DEF LosesAnswer, Moves
  <2>. QED  BY <2>1, <2>2, <2>3 DEF Written
<1>. QED  BY <1>1, <1>2, <1>3

LEMMA MoveKeepsWaiting ==
  ASSUME Waiting, NEW n \in Asks, Moves(n), inflight' = inflight, ask[n].at # "bootstrap"
  PROVE  Waiting'
BY DEF Waiting, Moves

\* Together, for a step that leaves the budget and the bootstraps alone.
LEMMA MoveKeepsInv ==
  ASSUME IInv, NEW n \in Asks, Moves(n), UNCHANGED budgetVars, inflight' = inflight,
         ask[n].at # "bootstrap",
         \/ ask[n].at \notin Called /\ ask'[n].at # "gateway"
         \/ ask[n].at = "answer" /\ ask'[n].at = "done"
         \/ LosesAnswer(n)
  PROVE  IInv'
<1>1. Budgeted'
  BY DEF budgetVars, IInv, Budgeted, PaidBy, PaidOn, Today
<1>2. Shapes'
  BY DEF budgetVars, IInv, Shapes, Moves
<1>. QED  BY <1>1, <1>2, MoveKeepsWritten, MoveKeepsWaiting DEF IInv, budgetVars

\* A step that moves no ask.
LEMMA StillKeepsInv ==
  ASSUME IInv, now' \in {now, now + 1}, UNCHANGED <<used, tenant, paid, seqNo, ledger, ask, inflight>>
  PROVE  IInv'
<1>1. Shapes' /\ Written' /\ Waiting'
  BY DEF IInv, Shapes, AskShape, Written, Waiting
<1>. QED  BY <1>1, TickKeepsBudget DEF IInv

-----------------------------------------------------------------------------
(* The panel, and the way to the budget.                                   *)

LEMMA PanelKeepsInv ==
  ASSUME IInv, NEW n \in Asks, Retry(n) \/ RunExplain(n) \/ ExplainLost(n) \/ ShowResult(n)
  PROVE  IInv'
<1>1. UNCHANGED budgetVars /\ inflight' = inflight
  BY DEF Retry, RunExplain, ExplainLost, ShowResult, bffVars, studioVars, budgetVars
<1>2. AskShape
  BY DEF IInv, Shapes
<1>3. Moves(n)
  BY <1>2 DEF Moves, AskShape, Retry, RunExplain, ExplainLost, ShowResult, NoAsk
<1>4. \/ ask[n].at \in {"none", "ready", "sent"} /\ ask'[n].at \in {"ready", "sent", "answer"}
      \/ ask[n].at = "answer" /\ ask'[n].at = "done"
      \/ LosesAnswer(n)
  <2>1. CASE Retry(n)
    BY <1>2, <2>1 DEF AskShape, Retry, NoAsk
  <2>2. CASE RunExplain(n)
    <3>1. ask[n].at = "ready" /\ \E c, s : ask' = [ask EXCEPT ![n].at = "sent", ![n].call = c, ![n].session = s]
      BY <2>2 DEF RunExplain
    <3>. QED  BY <1>2, <3>1 DEF AskShape, NoAsk
  <2>3. CASE ExplainLost(n)
    <3>1. DOMAIN ask = Asks /\ DOMAIN ask[n] = {"at", "call", "session", "code", "clears"}
      BY <1>2 DEF AskShape, NoAsk
    <3>2. CASE ask[n].at = "sent"
      BY <2>3, <3>1, <3>2 DEF ExplainLost
    <3>3. CASE ask[n].at # "sent"
      <4>1. /\ ask[n].at = "answer"
            /\ \E code \in {ask[n].code, "lost"} :
                  ask' = [ask EXCEPT ![n].code = code, ![n].clears = FALSE]
        BY <2>3, <3>1, <3>3 DEF ExplainLost
      <4>. QED  BY <3>1, <4>1 DEF LosesAnswer
    <3>. QED  BY <3>2, <3>3
  <2>4. CASE ShowResult(n)
    BY <1>2, <2>4 DEF AskShape, ShowResult, NoAsk
  <2>. QED  BY <2>1, <2>2, <2>3, <2>4
<1>5. ask[n].at # "bootstrap"
  BY <1>4 DEF LosesAnswer
<1>6. \/ ask[n].at \notin Called /\ ask'[n].at # "gateway"
      \/ ask[n].at = "answer" /\ ask'[n].at = "done"
      \/ LosesAnswer(n)
  BY <1>4 DEF Called
<1>. QED  BY <1>1, <1>3, <1>5, <1>6, MoveKeepsInv

LEMMA ArrivalKeepsInv ==
  ASSUME IInv, NEW n \in Asks, ExplainArrives(n) \/ EnterTenantLock(n), UNCHANGED studioVars
  PROVE  IInv'
<1>1. UNCHANGED budgetVars /\ inflight' = inflight
  BY DEF ExplainArrives, EnterTenantLock, studioVars, budgetVars
<1>2. AskShape
  BY DEF IInv, Shapes
<1>3. \/ ask' = [ask EXCEPT ![n].at = "tenant lock"] /\ ask[n].at = "session lock"
      \/ ask' = [ask EXCEPT ![n].at = "session lock"] /\ ask[n].at = "sent"
      \/ /\ ask[n].at = "sent"
         /\ \E clears : ask' = [ask EXCEPT ![n].at = "answer", ![n].code = "refused", ![n].clears = clears]
  BY DEF ExplainArrives, EnterTenantLock
<1>4. Moves(n) /\ ask'[n].at \in {"session lock", "tenant lock", "answer"}
  BY <1>2, <1>3 DEF Moves, AskShape, NoAsk
<1>. QED  BY <1>1, <1>3, <1>4, MoveKeepsInv DEF Called

-----------------------------------------------------------------------------
(* The call, and what becomes of it.                                       *)

LEMMA ConsumeKeepsInv ==
  ASSUME IInv, NEW n \in Asks, Consume(n), UNCHANGED studioVars
  PROVE  IInv'
<1>. DEFINE id == ask[n].session
            new == [ask |-> n, session |-> id, day |-> Today]
<1>1. AskShape /\ ask[n].at = "tenant lock" /\ UNCHANGED <<now, seqNo, ledger, inflight>>
  BY DEF Consume, studioVars, IInv, Shapes
<1>2. Today' = Today /\ Today \in Nat
  BY <1>1, TodayType DEF Today, IInv, Shapes
<1>3. \A p \in paid : p.ask # n
  BY <1>1 DEF IInv, Written, Called
<1>4. CASE TenantToday.used < Cap /\ used[id] < Limit
  <2>1. /\ used' = [used EXCEPT ![id] = @ + 1] /\ tenant' = [TenantToday EXCEPT !.used = @ + 1]
        /\ ask' = [ask EXCEPT ![n].at = "gateway"] /\ paid' = paid \cup {new}
    BY <1>4 DEF Consume
  <2>2. Budgeted'
    BY <1>1, <1>3, <1>4, <2>1, PayingKeepsBudget DEF IInv
  <2>3. Moves(n) /\ ask'[n].at = "gateway"
    BY <1>1, <2>1 DEF Moves, AskShape, NoAsk
  <2>4. used' \in [Ids -> Nat]
    <3>1. used \in [Ids -> Nat]
      BY DEF IInv, Shapes
    <3>2. \A x \in Ids : used[x] + 1 \in Nat
      BY <3>1
    <3>. QED  BY <2>1, <3>1, <3>2
  <2>5. tenant' \in [day : Nat, used : Nat]
    BY <2>1, TenantTodayCounts DEF IInv
  <2>6. IsFiniteSet(paid') /\ \A p \in paid' : p.ask \in Asks /\ p.day \in Nat
    <3>1. IsFiniteSet(paid) /\ \A p \in paid : p.ask \in Asks /\ p.day \in Nat
      BY DEF IInv, Shapes
    <3>2. new.ask \in Asks /\ new.day \in Nat
      BY <1>2
    <3>. HIDE DEF new
    <3>. QED  BY <2>1, <3>1, <3>2, FS_AddElement
  <2>7. Shapes'
    BY <1>1, <2>3, <2>4, <2>5, <2>6 DEF IInv, Shapes, Moves
  <2>8. Written'
    <3>1. \A p \in paid : p.ask \in Asks \ {n} /\ ask'[p.ask] = ask[p.ask]
      BY <1>3, <2>3 DEF IInv, Shapes, Moves
    <3>2. \A i \in DOMAIN ledger : ask'[ledger[i].ask] = ask[ledger[i].ask]
      BY <3>1 DEF IInv, Written
    <3>3. new \in paid' /\ new.ask = n /\ paid \subseteq paid' /\ \A p \in paid' : p \in paid \/ p = new
      BY <2>1
    <3>4. \A p \in paid' : ask'[p.ask].at \in Called
      BY <2>3, <3>1, <3>3 DEF IInv, Written, Called
    <3>5. \A m \in Asks : ask'[m].at = "gateway" => \E p \in paid' : p.ask = m
      BY <2>3, <3>3 DEF IInv, Written, Moves
    <3>6. \A p \in paid' : ask'[p.ask].at = "answer" => p \in paid
      BY <2>3, <3>3
    <3>. HIDE DEF new, id
    <3>7. ledger' = ledger /\ seqNo' = seqNo
      BY <1>1
    <3>8. \A i \in DOMAIN ledger' :
            /\ ledger'[i].ref <= seqNo' /\ ask'[ledger'[i].ask].at \in {"answer", "done"}
            /\ \E p \in paid' : p.ask = ledger'[i].ask
      BY <3>2, <3>3, <3>7 DEF IInv, Written
    <3>9. \A p \in paid' : ask'[p.ask].at = "answer" =>
            \/ \E i \in DOMAIN ledger' : ledger'[i].ask = p.ask /\ ledger'[i].code = ask'[p.ask].code
            \/ ask'[p.ask].code \in {"unavailable", "lost"}
      BY <3>1, <3>6, <3>7 DEF IInv, Written
    <3>10. \A i, j \in DOMAIN ledger' :
            i # j => ledger'[i].ref # ledger'[j].ref /\ ledger'[i].ask # ledger'[j].ask
      BY <3>7 DEF IInv, Written
    <3>. QED  BY <3>4, <3>5, <3>8, <3>9, <3>10 DEF Written
  <2>9. Waiting'
    BY <1>1, <2>3, MoveKeepsWaiting DEF IInv
  <2>. QED  BY <2>2, <2>7, <2>8, <2>9 DEF IInv
<1>5. CASE ~(TenantToday.used < Cap /\ used[id] < Limit)
  <2>1. /\ tenant' = TenantToday /\ UNCHANGED <<used, paid>>
        /\ ask' = [ask EXCEPT ![n].at = "answer", ![n].code = "refused"]
    BY <1>5 DEF Consume
  <2>2. Moves(n) /\ ask'[n].at = "answer"
    BY <1>1, <2>1 DEF Moves, AskShape, NoAsk
  <2>3. Budgeted'
    <3>1. /\ Cardinality(PaidOn(Today)) = TenantToday.used /\ TenantToday.day = Today
          /\ \A p \in paid : p.day <= Today
      BY TenantTodayCounts DEF IInv
    <3>2. /\ \A sid \in Ids : Cardinality(PaidBy(sid)') = used'[sid] /\ used'[sid] <= Limit
          /\ \A day \in Nat : Cardinality(PaidOn(day)') <= Cap
      BY <2>1 DEF IInv, Budgeted, PaidBy, PaidOn
    <3>3. Cardinality(PaidOn(tenant.day)') = tenant'.used
      BY <2>1, <3>1 DEF PaidOn
    <3>. QED  BY <1>2, <2>1, <3>1, <3>2, <3>3 DEF Budgeted, PaidBy, PaidOn
  <2>4. Shapes'
    BY <1>1, <2>1, <2>2, TenantTodayCounts DEF IInv, Shapes, Moves
  <2>. QED  BY <1>1, <2>1, <2>2, <2>3, <2>4, MoveKeepsWritten, MoveKeepsWaiting DEF IInv, Called
<1>. QED  BY <1>4, <1>5

\* The answer has the next number, and what is told of it is what was written.
LEMMA AnswerKeepsInv ==
  ASSUME IInv, NEW n \in Asks, GatewayAnswers(n), UNCHANGED studioVars
  PROVE  IInv'
<1>1. /\ AskShape /\ ask[n].at = "gateway" /\ seqNo' = seqNo + 1
      /\ UNCHANGED <<now, used, tenant, paid, inflight>>
  BY DEF GatewayAnswers, studioVars, IInv, Shapes
<1>2. PICK result \in GatewayResults, written \in BOOLEAN :
        /\ ledger' = IF written THEN Append(ledger, [ask |-> n, ref |-> seqNo + 1, code |-> result])
                                ELSE ledger
        /\ ask' = [ask EXCEPT ![n].at = "answer",
                              ![n].code = IF written THEN result ELSE "unavailable"]
  BY DEF GatewayAnswers
<1>. DEFINE new == [ask |-> n, ref |-> seqNo + 1, code |-> result]
<1>3. Moves(n) /\ ask'[n].at = "answer" /\ ask'[n].code = IF written THEN result ELSE "unavailable"
  BY <1>1, <1>2 DEF Moves, AskShape, NoAsk
<1>4. new \in Entries /\ seqNo \in Nat /\ ledger \in Seq(Entries)
  BY DEF IInv, Shapes, Entries, GatewayResults, Results
<1>5. new.ask = n /\ new.ref = seqNo + 1 /\ new.code = result
  OBVIOUS
<1>. HIDE DEF new
<1>6. Shapes'
  <2>1. ledger' \in Seq(Entries)
    BY <1>2, <1>4 DEF new
  <2>. QED  BY <1>1, <1>3, <1>4, <2>1 DEF IInv, Shapes, Moves
<1>7. Budgeted'
  BY <1>1 DEF IInv, Budgeted, PaidBy, PaidOn, Today
<1>8. Waiting'
  BY <1>1, <1>3, MoveKeepsWaiting DEF IInv
<1>9. Written'
  <2>1. PICK q \in paid : q.ask = n
    BY <1>1 DEF IInv, Written
  <2>2. \A p \in paid : p.ask \in Asks /\ (p.ask # n => ask'[p.ask] = ask[p.ask])
    BY <1>3 DEF IInv, Shapes, Moves
  <2>3. \A i \in DOMAIN ledger : /\ ledger[i].ask # n /\ ledger[i].ref # seqNo + 1
                                 /\ ledger[i].ref <= seqNo + 1
    <3>1. \A i \in DOMAIN ledger : ledger[i].ref \in Nat
      <4>1. \A e \in Entries : e.ref \in Nat
        BY DEF Entries
      <4>. QED  BY <1>4, <4>1
    <3>2. \A i \in DOMAIN ledger : ask[ledger[i].ask].at # "gateway" /\ ledger[i].ref <= seqNo
      BY DEF IInv, Written
    <3>. QED  BY <1>1, <1>4, <3>1, <3>2
  <2>4. /\ \A i \in DOMAIN ledger : i \in DOMAIN ledger' /\ ledger'[i] = ledger[i]
        /\ \A i \in DOMAIN ledger' : i \in DOMAIN ledger \/ (written /\ i = Len(ledger) + 1 /\ ledger'[i] = new)
        /\ written => Len(ledger) + 1 \in DOMAIN ledger' /\ ledger'[Len(ledger) + 1] = new
    BY <1>2, <1>4 DEF new
  <2>5. \A p \in paid : ask'[p.ask].at \in Called
    BY <1>3, <2>2 DEF IInv, Written, Called
  <2>6. \A m \in Asks : ask'[m].at = "gateway" => \E p \in paid : p.ask = m
    BY <1>3 DEF IInv, Written, Moves
  <2>7. \A i \in DOMAIN ledger' :
          /\ ledger'[i].ref <= seqNo' /\ ask'[ledger'[i].ask].at \in {"answer", "done"}
          /\ \E p \in paid : p.ask = ledger'[i].ask
    <3>. TAKE i \in DOMAIN ledger'
    <3>1. CASE i \in DOMAIN ledger
      BY <1>1, <2>2, <2>3, <2>4, <3>1 DEF IInv, Written
    <3>2. CASE i \notin DOMAIN ledger
      BY <1>1, <1>3, <1>4, <1>5, <2>1, <2>4, <3>2
    <3>. QED  BY <3>1, <3>2
  <2>8. \A i, j \in DOMAIN ledger' :
          i # j => ledger'[i].ref # ledger'[j].ref /\ ledger'[i].ask # ledger'[j].ask
    <3>. TAKE i, j \in DOMAIN ledger'
    <3>1. CASE i \in DOMAIN ledger /\ j \in DOMAIN ledger
      BY <2>4, <3>1 DEF IInv, Written
    <3>2. CASE i \notin DOMAIN ledger \/ j \notin DOMAIN ledger
      BY <1>5, <2>3, <2>4, <3>2
    <3>. QED  BY <3>1, <3>2
  <2>9. \A p \in paid : ask'[p.ask].at = "answer" =>
          \/ \E i \in DOMAIN ledger' : ledger'[i].ask = p.ask /\ ledger'[i].code = ask'[p.ask].code
          \/ ask'[p.ask].code \in {"unavailable", "lost"}
    <3>. TAKE p \in paid
    <3>1. CASE p.ask # n
      BY <2>2, <2>4, <3>1 DEF IInv, Written
    <3>2. CASE p.ask = n
      BY <1>3, <1>5, <2>4, <3>2
    <3>. QED  BY <3>1, <3>2
  <2>. QED  BY <1>1, <2>5, <2>6, <2>7, <2>8, <2>9 DEF Written
<1>. QED  BY <1>6, <1>7, <1>8, <1>9 DEF IInv

-----------------------------------------------------------------------------
(* The bootstrap requests.                                                 *)

\* Who joins a request waits for one more than before, and the others for the
\* same (getSessionBootstrap).
LEMMA JoinAdds ==
  ASSUME NEW w \in 0 .. MaxAsks, inflight \in Seq(SUBSET (0 .. MaxAsks)), Join(w)
  PROVE  /\ inflight' \in Seq(SUBSET (0 .. MaxAsks))
         /\ \A i \in DOMAIN inflight' : \A m \in inflight'[i] :
              m # w => i \in DOMAIN inflight /\ m \in inflight[i]
         /\ \E k : \A i \in DOMAIN inflight' :
              w \in inflight'[i] => i = k \/ (i \in DOMAIN inflight /\ w \in inflight[i])
<1>1. CASE inflight # <<>> /\ inflight' = [inflight EXCEPT ![Len(inflight)] = @ \cup {w}]
  <2>1. Len(inflight) \in DOMAIN inflight /\ inflight[Len(inflight)] \cup {w} \in SUBSET (0 .. MaxAsks)
    BY <1>1
  <2>2. /\ inflight' \in Seq(SUBSET (0 .. MaxAsks)) /\ DOMAIN inflight' = DOMAIN inflight
        /\ \A i \in DOMAIN inflight : i # Len(inflight) => inflight'[i] = inflight[i]
        /\ inflight'[Len(inflight)] = inflight[Len(inflight)] \cup {w}
    BY <1>1, <2>1
  <2>. QED  BY <2>1, <2>2
<1>2. CASE inflight' = Append(inflight, {w})
  <2>1. /\ inflight' \in Seq(SUBSET (0 .. MaxAsks))
        /\ \A i \in DOMAIN inflight' :
             IF i = Len(inflight) + 1 THEN inflight'[i] = {w}
             ELSE i \in DOMAIN inflight /\ inflight'[i] = inflight[i]
    <3>1. {w} \in SUBSET (0 .. MaxAsks)
      OBVIOUS
    <3>. QED  BY <1>2, <3>1
  <2>. QED  BY <2>1
<1>. QED  BY <1>1, <1>2 DEF Join

\* A request that has ended is gone, and the newer ones move up.
LEMMA RemovedMovesUp ==
  ASSUME NEW S, NEW s \in Seq(S), NEW i \in DOMAIN s
  PROVE  /\ RemoveAt(s, i) \in Seq(S)
         /\ \A j \in DOMAIN RemoveAt(s, i) :
              \E old \in DOMAIN s \ {i} :
                /\ old = IF j < i THEN j ELSE j + 1
                /\ RemoveAt(s, i)[j] = s[old]
<1>1. i \in Nat /\ 1 <= i /\ i <= Len(s) /\ Len(s) \in Nat
  OBVIOUS
<1>2. /\ SubSeq(s, 1, i - 1) \in Seq(S) /\ Len(SubSeq(s, 1, i - 1)) = i - 1
      /\ \A j \in 1 .. i - 1 : SubSeq(s, 1, i - 1)[j] = s[j]
  BY <1>1, SubSeqProperties
<1>3. /\ SubSeq(s, i + 1, Len(s)) \in Seq(S) /\ Len(SubSeq(s, i + 1, Len(s))) = Len(s) - i
      /\ \A j \in 1 .. Len(s) - i : SubSeq(s, i + 1, Len(s))[j] = s[i + j]
  BY <1>1, SubSeqProperties
<1>. DEFINE a == SubSeq(s, 1, i - 1)
            b == SubSeq(s, i + 1, Len(s))
<1>4. RemoveAt(s, i) = a \o b
  BY DEF RemoveAt
<1>. HIDE DEF a, b
<1>5. /\ a \in Seq(S) /\ b \in Seq(S) /\ Len(a) = i - 1 /\ Len(b) = Len(s) - i
      /\ \A j \in 1 .. i - 1 : a[j] = s[j]
      /\ \A j \in 1 .. Len(s) - i : b[j] = s[i + j]
  BY <1>2, <1>3 DEF a, b
<1>6. /\ a \o b \in Seq(S) /\ Len(a \o b) = Len(s) - 1
      /\ \A j \in 1 .. Len(s) - 1 : (a \o b)[j] = IF j < i THEN a[j] ELSE b[j - (i - 1)]
  <2>1. /\ a \o b \in Seq(S) /\ Len(a \o b) = Len(a) + Len(b)
        /\ \A j \in 1 .. Len(a) + Len(b) : (a \o b)[j] = IF j <= Len(a) THEN a[j] ELSE b[j - Len(a)]
    BY <1>5, ConcatProperties
  <2>2. Len(a) + Len(b) = Len(s) - 1
    BY <1>1, <1>5
  <2>3. \A j \in 1 .. Len(s) - 1 : j <= Len(a) <=> j < i
    BY <1>1, <1>5
  <2>. QED  BY <1>5, <2>1, <2>2, <2>3
<1>7. ASSUME NEW j \in 1 .. Len(s) - 1
      PROVE  \E old \in DOMAIN s \ {i} :
               old = (IF j < i THEN j ELSE j + 1) /\ (a \o b)[j] = s[old]
  <2>1. CASE j < i
    <3>1. j \in 1 .. i - 1 /\ j \in DOMAIN s \ {i} /\ (a \o b)[j] = a[j]
      BY <1>1, <1>6, <2>1
    <3>. QED  BY <1>5, <2>1, <3>1
  <2>2. CASE ~(j < i)
    <3>1. /\ j - (i - 1) \in 1 .. Len(s) - i /\ j + 1 \in DOMAIN s \ {i}
          /\ (a \o b)[j] = b[j - (i - 1)] /\ i + (j - (i - 1)) = j + 1
      BY <1>1, <1>6, <2>2
    <3>2. b[j - (i - 1)] = s[i + (j - (i - 1))]
      BY <1>5, <3>1
    <3>. QED  BY <2>2, <3>1, <3>2
  <2>. QED  BY <2>1, <2>2
<1>8. DOMAIN (a \o b) = 1 .. Len(s) - 1
  BY <1>6
<1>. QED  BY <1>4, <1>6, <1>7, <1>8

\* The asks of a request that has ended move on or are dropped; none of them
\* was paid for (the settling of the shared promise).
LEMMA BootstrapKeepsInv ==
  ASSUME IInv, NEW i \in DOMAIN inflight, NEW outcome, BootstrapEnds(i, outcome), UNCHANGED budgetVars
  PROVE  IInv'
<1>. DEFINE waiters == inflight[i]
<1>1. /\ AskShape /\ inflight \in Seq(SUBSET (0 .. MaxAsks)) /\ inflight' = RemoveAt(inflight, i)
      /\ ask' = [n \in Asks |->
                   IF n \notin waiters THEN ask[n]
                   ELSE IF outcome = "ok" THEN [ask[n] EXCEPT !.at = "ready"]
                   ELSE [ask[n] EXCEPT !.at = "dropped"]]
  BY DEF BootstrapEnds, IInv, Shapes
<1>2. /\ inflight' \in Seq(SUBSET (0 .. MaxAsks))
      /\ \A j \in DOMAIN inflight' :
           \E old \in DOMAIN inflight \ {i} :
             /\ old = IF j < i THEN j ELSE j + 1
             /\ inflight'[j] = inflight[old]
  BY <1>1, RemovedMovesUp
<1>3. \A n \in Asks : n \notin waiters => ask'[n] = ask[n]
  BY <1>1
<1>4. \A n \in Asks : n \in waiters =>
        ask[n].at = "bootstrap" /\ ask'[n].at \in {"ready", "dropped"} /\ DOMAIN ask'[n] = DOMAIN ask[n]
  BY <1>1 DEF IInv, Waiting, AskShape, NoAsk
<1>5. AskShape'
  <2>1. DOMAIN ask' = Asks
    BY <1>1
  <2>. QED  BY <1>1, <1>3, <1>4, <2>1 DEF AskShape
<1>6. Shapes'
  BY <1>2, <1>5 DEF IInv, Shapes, budgetVars
<1>7. Budgeted'
  BY DEF budgetVars, IInv, Budgeted, PaidBy, PaidOn, Today
<1>8. Written'
  <2>1. \A p \in paid : p.ask \in Asks /\ ask'[p.ask] = ask[p.ask]
    BY <1>3, <1>4 DEF IInv, Shapes, Written, Called
  <2>2. \A k \in DOMAIN ledger : ask'[ledger[k].ask] = ask[ledger[k].ask]
    BY <2>1 DEF IInv, Written
  <2>3. \A n \in Asks : ask'[n].at = "gateway" => ask'[n] = ask[n]
    BY <1>3, <1>4
  <2>4. paid' = paid /\ ledger' = ledger /\ seqNo' = seqNo
    BY DEF budgetVars
  <2>. QED  BY <2>1, <2>2, <2>3, <2>4 DEF IInv, Written
<1>9. Waiting'
  <2>. SUFFICES ASSUME NEW j \in DOMAIN inflight', NEW n \in inflight'[j] \cap Asks
                PROVE  /\ ask'[n].at = "bootstrap"
                       /\ \A k \in DOMAIN inflight' : n \in inflight'[k] => k = j
    BY DEF Waiting
  <2>1. PICK old \in DOMAIN inflight \ {i} :
          old = (IF j < i THEN j ELSE j + 1) /\ inflight'[j] = inflight[old]
    BY <1>2
  <2>2. n \notin waiters /\ ask[n].at = "bootstrap"
    BY <2>1 DEF IInv, Waiting
  <2>3. ASSUME NEW k \in DOMAIN inflight', n \in inflight'[k]
        PROVE  k = j
    <3>1. PICK oldk \in DOMAIN inflight \ {i} :
            oldk = (IF k < i THEN k ELSE k + 1) /\ inflight'[k] = inflight[oldk]
      BY <1>2
    <3>2. oldk = old
      BY <2>1, <2>3, <3>1 DEF IInv, Waiting
    <3>3. k \in Nat /\ j \in Nat /\ i \in Nat
      BY <1>1, <1>2
    <3>. QED  BY <2>1, <3>1, <3>2, <3>3
  <2>. QED  BY <1>3, <2>2, <2>3
<1>. QED  BY <1>6, <1>7, <1>8, <1>9 DEF IInv

LEMMA JoinKeepsInv ==
  ASSUME IInv, UNCHANGED budgetVars,
         NEW w \in 0 .. MaxAsks, Join(w),
         \/ w = Shell /\ ask' = ask
         \/ w \in Asks /\ ask[w].at = "none" /\ ask' = [ask EXCEPT ![w].at = "bootstrap"]
  PROVE  IInv'
<1>1. AskShape /\ inflight \in Seq(SUBSET (0 .. MaxAsks))
  BY DEF IInv, Shapes
<1>2. /\ inflight' \in Seq(SUBSET (0 .. MaxAsks))
      /\ \A i \in DOMAIN inflight' : \A m \in inflight'[i] :
           m # w => i \in DOMAIN inflight /\ m \in inflight[i]
      /\ \E k : \A i \in DOMAIN inflight' :
           w \in inflight'[i] => i = k \/ (i \in DOMAIN inflight /\ w \in inflight[i])
  BY <1>1, JoinAdds
<1>3. Budgeted'
  BY DEF budgetVars, IInv, Budgeted, PaidBy, PaidOn, Today
<1>4. CASE w = Shell /\ ask' = ask
  <2>1. w \notin Asks
    BY <1>4, BoundAssumption DEF Shell, Asks
  <2>2. Waiting'
    BY <1>2, <1>4, <2>1 DEF IInv, Waiting
  <2>3. Shapes' /\ Written'
    BY <1>2, <1>4 DEF IInv, Shapes, AskShape, Written, budgetVars
  <2>. QED  BY <1>3, <2>2, <2>3 DEF IInv
<1>5. CASE w \in Asks /\ ask[w].at = "none" /\ ask' = [ask EXCEPT ![w].at = "bootstrap"]
  <2>1. Moves(w) /\ ask'[w].at = "bootstrap"
    BY <1>1, <1>5 DEF Moves, AskShape, NoAsk
  <2>2. Shapes'
    BY <1>2, <2>1 DEF IInv, Shapes, Moves, budgetVars
  <2>3. Written'
    BY <1>5, <2>1, MoveKeepsWritten DEF IInv, budgetVars, Called
  <2>4. Waiting'
    <3>1. \A i \in DOMAIN inflight : w \notin inflight[i]
      BY <1>5 DEF IInv, Waiting
    <3>2. PICK k : \A i \in DOMAIN inflight' : w \in inflight'[i] => i = k
      BY <1>2, <3>1
    <3>. SUFFICES ASSUME NEW j \in DOMAIN inflight', NEW n \in inflight'[j] \cap Asks
                  PROVE  /\ ask'[n].at = "bootstrap"
                         /\ \A l \in DOMAIN inflight' : n \in inflight'[l] => l = j
      BY DEF Waiting
    <3>3. CASE n = w
      BY <2>1, <3>2, <3>3
    <3>4. CASE n # w
      BY <1>2, <2>1, <3>4 DEF IInv, Waiting, Moves
    <3>. QED  BY <3>3, <3>4
  <2>. QED  BY <1>3, <2>2, <2>3, <2>4 DEF IInv
<1>. QED  BY <1>4, <1>5

\* The shell signs in and asks once more (signInForBootstrap).
LEMMA SignInKeepsInv == ASSUME IInv, SignInForBootstrap PROVE IInv'
<1>1. UNCHANGED budgetVars /\ ask' = ask
  BY DEF SignInForBootstrap, budgetVars
<1>2. inflight' = inflight \/ inflight' = Append(inflight, {Shell})
  BY DEF SignInForBootstrap
<1>3. CASE inflight' = inflight
  <2>1. Shapes' /\ Written' /\ Waiting' /\ Budgeted'
    BY <1>1, <1>3 DEF IInv, Shapes, AskShape, Written, Waiting, budgetVars, Budgeted, PaidBy, PaidOn, Today
  <2>. QED  BY <2>1 DEF IInv
<1>4. CASE inflight' = Append(inflight, {Shell})
  <2>1. inflight \in Seq(SUBSET (0 .. MaxAsks)) /\ {Shell} \in SUBSET (0 .. MaxAsks) /\ Shell \notin Asks
    BY BoundAssumption DEF IInv, Shapes, Shell, Asks
  <2>2. /\ inflight' \in Seq(SUBSET (0 .. MaxAsks))
        /\ \A i \in DOMAIN inflight' :
             inflight'[i] = {Shell} \/ (i \in DOMAIN inflight /\ inflight'[i] = inflight[i])
    BY <1>4, <2>1
  <2>3. Waiting'
    BY <1>1, <2>1, <2>2 DEF IInv, Waiting
  <2>4. Shapes' /\ Written' /\ Budgeted'
    <3>1. Shapes'
      BY <1>1, <2>2 DEF IInv, Shapes, AskShape, budgetVars
    <3>2. Written' /\ Budgeted'
      BY <1>1 DEF IInv, Written, budgetVars, Budgeted, PaidBy, PaidOn, Today
    <3>. QED  BY <3>1, <3>2
  <2>. QED  BY <2>3, <2>4 DEF IInv
<1>. QED  BY <1>2, <1>3, <1>4

-----------------------------------------------------------------------------
(* The theorems.                                                           *)

LEMMA NextKeepsInv == ASSUME IInv, [Next]_vars PROVE IInv'
<1>1. CASE UNCHANGED vars
  BY <1>1, StillKeepsInv DEF vars, bffVars, studioVars
<1>2. CASE Environment
  <2>1. now \in Nat
    BY DEF IInv, Shapes
  <2>. QED  BY <1>2, <2>1, StillKeepsInv DEF Environment, SignInElsewhere, Tick, studioVars
<1>3. CASE OtherTabSignsIn \/ UseSession \/ SignInRefused \/ TelemetryStep
  <2>1. now' = now /\ UNCHANGED <<used, tenant, paid, seqNo, ledger, ask, inflight>>
    BY <1>3 DEF OtherTabSignsIn, UseSession, SignInRefused, TelemetryStep, FlushTimer, TelemetryLost,
                TelemetryAnswered, bffVars
  <2>. QED  BY <2>1, StillKeepsInv
<1>4. CASE EnsureSessionBootstrap
  <2>1. Shell \in 0 .. MaxAsks
    BY BoundAssumption DEF Shell
  <2>2. Join(Shell) /\ ask' = ask /\ UNCHANGED budgetVars
    BY <1>4 DEF EnsureSessionBootstrap, bffVars, budgetVars
  <2>. QED  BY <2>1, <2>2, JoinKeepsInv
<1>5. ASSUME NEW n \in Asks, Explain(n)
      PROVE  IInv'
  <2>1. n \in 0 .. MaxAsks
    BY <1>5, BoundAssumption DEF Asks
  <2>2. /\ Join(n) /\ ask[n].at = "none" /\ ask' = [ask EXCEPT ![n].at = "bootstrap"]
        /\ UNCHANGED budgetVars
    BY <1>5 DEF Explain, bffVars, budgetVars
  <2>. QED  BY <1>5, <2>1, <2>2, JoinKeepsInv
<1>6. CASE SignInForBootstrap
  BY <1>6, SignInKeepsInv
<1>7. ASSUME NEW w, BootstrapStep(w)
      PROVE  IInv'
  <2>1. PICK i \in DOMAIN inflight : BootstrapAnswered(i) \/ BootstrapLost(i)
    BY <1>7 DEF BootstrapStep
  <2>2. UNCHANGED budgetVars /\ \E outcome : BootstrapEnds(i, outcome)
    BY <2>1 DEF BootstrapAnswered, BootstrapLost, bffVars, budgetVars
  <2>. QED  BY <2>2, BootstrapKeepsInv
<1>8. ASSUME NEW n \in Asks, Retry(n) \/ RunExplain(n) \/ ExplainLost(n) \/ ShowResult(n)
      PROVE  IInv'
  BY <1>8, PanelKeepsInv
<1>9. ASSUME NEW n \in Asks, BffStep(n)
      PROVE  IInv'
  BY <1>9, ArrivalKeepsInv, ConsumeKeepsInv, AnswerKeepsInv DEF BffStep
<1>. QED  BY <1>1, <1>2, <1>3, <1>4, <1>5, <1>6, <1>7, <1>8, <1>9 DEF Next, UserStep, AskStep

LEMMA InitHolds == Init => IInv
<1>. SUFFICES ASSUME Init PROVE IInv
  OBVIOUS
<1>1. Cardinality({}) = 0 /\ IsFiniteSet({})
  BY FS_EmptySet
<1>2. /\ now = 0 /\ used = [id \in Ids |-> 0] /\ tenant = [day |-> 1, used |-> 0]
      /\ seqNo = 0 /\ ledger = <<>> /\ paid = {} /\ inflight = <<>> /\ ask = [n \in Asks |-> NoAsk]
  BY DEF Init
<1>3. AskShape /\ \A n \in Asks : ask[n].at = "none"
  BY <1>2 DEF AskShape, NoAsk
<1>4. Shapes
  BY <1>1, <1>2, <1>3 DEF Shapes
<1>5. Budgeted
  <2>1. /\ \A id \in Ids : PaidBy(id) = {} /\ used[id] = 0
        /\ \A day : PaidOn(day) = {}
    BY <1>2 DEF PaidBy, PaidOn
  <2>2. 0 <= Limit /\ 0 <= Cap
    BY BoundAssumption
  <2>3. Today \in Nat /\ tenant.day <= Today
    <3>1. 0 \div DayLength \in Nat
      BY BoundAssumption
    <3>. QED  BY <1>2, <3>1 DEF Today
  <2>. QED  BY <1>1, <1>2, <2>1, <2>2, <2>3 DEF Budgeted
<1>6. Written /\ Waiting
  BY <1>2, <1>3 DEF Written, Waiting
<1>. QED  BY <1>4, <1>5, <1>6 DEF IInv

\* The inductive invariant: the shape of the state, the two counters of the
\* budget, where the paid asks are, and who waits for which bootstrap.
THEOREM Invariance == Spec => []IInv
<1>1. IInv /\ [Next]_vars => IInv'
  BY NextKeepsInv
<1>. QED  BY <1>1, InitHolds, PTL DEF Spec

\* No session makes more calls of the gateway than its limit and no tenant more
\* than its cap on a day; every entry of the ledger has a reference and a call
\* of its own that was paid for; and the editor is told what was written
\* (consume of createEditorAssistBudgetStore, handleEditorExplain).
THEOREM CallsArePaidAndWritten == Spec => []CallsAreAccounted
<1>1. IInv => CallsAreAccounted
  <2>. SUFFICES ASSUME IInv PROVE CallsAreAccounted
    OBVIOUS
  <2>1. \A id \in Ids : Cardinality({p \in paid : p.session = id}) <= Limit
    BY DEF IInv, Budgeted, PaidBy
  <2>2. \A p \in paid : Cardinality({q \in paid : q.day = p.day}) <= Cap
    BY DEF IInv, Shapes, Budgeted, PaidOn
  <2>. QED  BY <2>1, <2>2 DEF CallsAreAccounted, IInv, Written
<1>. QED  BY <1>1, Invariance, PTL

-----------------------------------------------------------------------------
(* The session gate of the routes                                          *)

\* Nothing is known of the elements of a chain but that it is one.
IsSeq(s) == \E T : s \in Seq(T)

LEMMA Lists ==
    ASSUME NEW a, NEW b, NEW c, NEW d, NEW e, NEW f, NEW g, NEW h
    PROVE  /\ IsSeq(<<a>>) /\ IsSeq(<<a, b>>) /\ IsSeq(<<a, b, c>>) /\ IsSeq(<<a, b, c, d, e>>)
           /\ IsSeq(<<a, b, c, d, e, f>>) /\ IsSeq(<<a, b, c, d, e, f, g, h>>)
<1>. DEFINE T == {a, b, c, d, e, f, g, h}
<1>1. {a, b, c, d} \subseteq T /\ {e, f, g, h} \subseteq T
  OBVIOUS
<1>. HIDE DEF T
<1>2. /\ <<a>> \in Seq(T) /\ <<a, b>> \in Seq(T) /\ <<a, b, c>> \in Seq(T)
      /\ <<a, b, c, d, e>> \in Seq(T) /\ <<a, b, c, d, e, f>> \in Seq(T)
      /\ <<a, b, c, d, e, f, g, h>> \in Seq(T)
  BY <1>1
<1>. QED  BY <1>2 DEF IsSeq

LEMMA ShortLists ==
    ASSUME NEW s, \/ s = <<s[1]>> \/ s = <<s[1], s[2]>> \/ s = <<s[1], s[2], s[3]>>
    PROVE  IsSeq(s)
<1>1. CASE s = <<s[1]>>
  BY <1>1, Lists, Zenon
<1>2. CASE s = <<s[1], s[2]>>
  BY <1>2, Lists, Zenon
<1>3. CASE s = <<s[1], s[2], s[3]>>
  BY <1>3, Lists, Zenon
<1>. QED  BY <1>1, <1>2, <1>3

LEMMA Concatenated ==
    ASSUME NEW s, NEW t, IsSeq(s), IsSeq(t)
    PROVE  /\ IsSeq(s \o t)
           /\ Len(s) \in Nat /\ Len(t) \in Nat /\ Len(s \o t) = Len(s) + Len(t)
           /\ \A i \in 1 .. Len(s) : (s \o t)[i] = s[i]
<1>1. PICK T : s \in Seq(T)
  BY DEF IsSeq
<1>2. PICK U : t \in Seq(U)
  BY DEF IsSeq
<1>3. s \in Seq(T \cup U) /\ t \in Seq(T \cup U)
  BY <1>1, <1>2
<1>. QED  BY <1>3, ConcatProperties DEF IsSeq

\* A chain of checks that begins with the given gate.
Begins(gate, chain) ==
    IsSeq(chain) /\ Len(gate) <= Len(chain) /\ \A i \in 1 .. Len(gate) : chain[i] = gate[i]

\* What a handler looks at behind the gate does not move the gate.
LEMMA BeginsFurther ==
    ASSUME NEW gate, IsSeq(gate), NEW chain, Begins(gate, chain), NEW rest, IsSeq(rest)
    PROVE  Begins(gate, chain \o rest)
<1>1. Len(gate) \in Nat
  BY Concatenated
<1>2. /\ IsSeq(chain \o rest) /\ Len(chain) \in Nat /\ Len(rest) \in Nat
      /\ Len(chain \o rest) = Len(chain) + Len(rest)
      /\ \A i \in 1 .. Len(chain) : (chain \o rest)[i] = chain[i]
  BY Concatenated DEF Begins
<1>. QED  BY <1>1, <1>2 DEF Begins

LEMMA Gates == /\ IsSeq(JsonGate) /\ Begins(JsonGate, JsonGate)
               /\ IsSeq(ReadGate) /\ Begins(ReadGate, ReadGate)
<1>1. JsonGate = <<JsonGate[1], JsonGate[2], JsonGate[3]>> /\ ReadGate = <<ReadGate[1], ReadGate[2]>>
  BY DEF JsonGate, ReadGate
<1>2. IsSeq(JsonGate) /\ IsSeq(ReadGate)
  BY <1>1, ShortLists
<1>3. Len(JsonGate) = 3 /\ Len(ReadGate) = 2
  BY DEF JsonGate, ReadGate
<1>. QED  BY <1>2, <1>3 DEF Begins

LEMMA ShortChains ==
    /\ \A tooLarge : IsSeq(Body(tooLarge))
    /\ IsSeq(NoOrchestrator) /\ IsSeq(NoRunner) /\ IsSeq(UnknownRun) /\ IsSeq(NoLiveRun)
    /\ IsSeq(FieldTypes) /\ IsSeq(NoModel) /\ IsSeq(StartRunParityChecks)
<1>1. ASSUME NEW tooLarge PROVE IsSeq(Body(tooLarge))
  <2>. DEFINE s == Body(tooLarge)
  <2>1. s = <<s[1], s[2], s[3]>>
    BY DEF Body
  <2>. QED  BY <2>1, ShortLists
<1>2. /\ NoOrchestrator = <<NoOrchestrator[1]>> /\ NoRunner = <<NoRunner[1]>>
      /\ UnknownRun = <<UnknownRun[1]>> /\ NoLiveRun = <<NoLiveRun[1]>>
      /\ FieldTypes = <<FieldTypes[1]>> /\ NoModel = <<NoModel[1]>>
  BY DEF NoOrchestrator, NoRunner, UnknownRun, NoLiveRun, FieldTypes, NoModel
<1>3. StartRunParityChecks =
        <<StartRunParityChecks[1], StartRunParityChecks[2], StartRunParityChecks[3]>>
  BY DEF StartRunParityChecks
<1>. QED  BY <1>1, <1>2, <1>3, ShortLists

LEMMA LongChains == IsSeq(TransformTrustChecks) /\ IsSeq(JavaFileChecks) /\ IsSeq(UpstreamFileChecks)
<1>1. IsSeq(TransformTrustChecks)
  <2>. DEFINE a == <<"trust case internals", 400>>
              b == <<"catalogue", 500>>
              c == <<"unknown trust case", 400>>
              d == <<"other program", 400>>
              e == <<"unsupported reference", 400>>
  <2>1. TransformTrustChecks = <<a, b, c, d, e>>
    BY DEF TransformTrustChecks
  <2>. HIDE DEF a, b, c, d, e
  <2>. QED  BY <2>1, Lists
<1>2. IsSeq(JavaFileChecks)
  <2>. DEFINE a == <<"no files", 400>>
              b == <<"too many files", 413>>
              c == <<"unsafe path", 400>>
              d == <<"not java", 400>>
              e == <<"duplicate path", 400>>
              f == <<"no content", 400>>
              g == <<"too much", 413>>
              h == <<"entry file", 400>>
  <2>1. JavaFileChecks = <<a, b, c, d, e, f, g, h>>
    BY DEF JavaFileChecks
  <2>. HIDE DEF a, b, c, d, e, f, g, h
  <2>. QED  BY <2>1, Lists
<1>3. IsSeq(UpstreamFileChecks)
  <2>. DEFINE a == <<"no answer", 502>>
              b == <<"truncated", 413>>
              c == <<"no such file", 404>>
              d == <<"path refused", 400>>
              e == <<"upstream error", 502>>
              f == <<"too large", 413>>
  <2>1. UpstreamFileChecks = <<a, b, c, d, e, f>>
    BY DEF UpstreamFileChecks
  <2>. HIDE DEF a, b, c, d, e, f
  <2>. QED  BY <2>1, Lists
<1>. QED  BY <1>1, <1>2, <1>3


\* A chain of named parts, behind a gate.
LEMMA BodyBehind ==
    ASSUME NEW gate \in {JsonGate, ReadGate}, NEW chain, Begins(gate, chain), NEW tooLarge
    PROVE  Begins(gate, chain \o Body(tooLarge))
<1>1. IsSeq(gate)
  BY Gates
<1>2. IsSeq(Body(tooLarge))
  BY ShortChains
<1>. QED  BY <1>1, <1>2, BeginsFurther

LEMMA PartBehind ==
    ASSUME NEW gate \in {JsonGate, ReadGate}, NEW chain, Begins(gate, chain),
           NEW part \in {NoOrchestrator, NoRunner, UnknownRun, NoLiveRun, FieldTypes, NoModel,
                         StartRunParityChecks, TransformTrustChecks, JavaFileChecks,
                         UpstreamFileChecks}
    PROVE  Begins(gate, chain \o part)
<1>1. IsSeq(gate)
  BY Gates
<1>2. IsSeq(part)
  BY ShortChains, LongChains
<1>. QED  BY <1>1, <1>2, BeginsFurther

LEMMA ListBehind ==
    ASSUME NEW gate \in {JsonGate, ReadGate}, NEW chain, Begins(gate, chain), NEW part,
           \/ part = <<part[1]>> \/ part = <<part[1], part[2]>>
           \/ part = <<part[1], part[2], part[3]>>
    PROVE  Begins(gate, chain \o part)
<1>1. IsSeq(gate)
  BY Gates
<1>2. IsSeq(part)
  BY ShortLists
<1>. QED  BY <1>1, <1>2, BeginsFurther

LEMMA NamedGatesBegin == /\ JsonGate \in {JsonGate, ReadGate} /\ Begins(JsonGate, JsonGate)
                         /\ ReadGate \in {JsonGate, ReadGate} /\ Begins(ReadGate, ReadGate)
BY Gates

LEMMA TransformFieldsGated == Begins(JsonGate, TransformFieldChecks)
<1>1. Begins(JsonGate, JsonGate \o Body(413))
  BY NamedGatesBegin, BodyBehind, NamedGatesBegin
<1>2. Begins(JsonGate, JsonGate \o Body(413) \o FieldTypes)
  BY <1>1, PartBehind, NamedGatesBegin
<1>3. Begins(JsonGate, JsonGate \o Body(413) \o FieldTypes \o NoOrchestrator)
  BY <1>2, PartBehind, NamedGatesBegin
<1>. QED  BY <1>3 DEF TransformFieldChecks

LEMMA TransformGated == Begins(JsonGate, TransformChecks)
<1>1. Begins(JsonGate, TransformFieldChecks \o TransformTrustChecks)
  BY TransformFieldsGated, PartBehind, NamedGatesBegin
<1>2. Begins(JsonGate, TransformFieldChecks \o TransformTrustChecks \o NoModel)
  BY <1>1, PartBehind, NamedGatesBegin
<1>. QED  BY <1>2 DEF TransformChecks

LEMMA GenerateGated == Begins(JsonGate, GenerateChecks)
<1>1. Begins(JsonGate, JsonGate \o Body(413))
  BY NamedGatesBegin, BodyBehind, NamedGatesBegin
<1>2. Begins(JsonGate, JsonGate \o Body(413) \o FieldTypes)
  BY <1>1, PartBehind, NamedGatesBegin
<1>3. Begins(JsonGate, JsonGate \o Body(413) \o FieldTypes \o NoOrchestrator)
  BY <1>2, PartBehind, NamedGatesBegin
<1>4. Begins(JsonGate, JsonGate \o Body(413) \o FieldTypes \o NoOrchestrator \o NoModel)
  BY <1>3, PartBehind, NamedGatesBegin
<1>. QED  BY <1>4 DEF GenerateChecks

LEMMA StartRunFieldsGated == Begins(JsonGate, StartRunFieldChecks)
<1>1. Begins(JsonGate, JsonGate \o Body(400))
  BY NamedGatesBegin, BodyBehind, NamedGatesBegin
<1>2. Begins(JsonGate, JsonGate \o Body(400) \o FieldTypes)
  BY <1>1, PartBehind, NamedGatesBegin
<1>. QED  BY <1>2 DEF StartRunFieldChecks

LEMMA StartRunGated == Begins(JsonGate, StartRunChecks)
BY StartRunFieldsGated, PartBehind, NamedGatesBegin DEF StartRunChecks

LEMMA CompileCheckGated == Begins(JsonGate, CompileCheckChecks)
<1>1. Begins(JsonGate, JsonGate \o NoRunner)
  BY NamedGatesBegin, PartBehind, NamedGatesBegin
<1>2. Begins(JsonGate, JsonGate \o NoRunner \o Body(413))
  BY <1>1, BodyBehind, NamedGatesBegin
<1>3. Begins(JsonGate, JsonGate \o NoRunner \o Body(413) \o JavaFileChecks)
  BY <1>2, PartBehind, NamedGatesBegin
<1>. QED  BY <1>3 DEF CompileCheckChecks

LEMMA VerifyGated == Begins(JsonGate, VerifyChecks)
<1>1. Begins(JsonGate, JsonGate \o NoRunner)
  BY NamedGatesBegin, PartBehind, NamedGatesBegin
<1>2. Begins(JsonGate, JsonGate \o NoRunner \o Body(413))
  BY <1>1, BodyBehind, NamedGatesBegin
<1>. DEFINE part == <<<<"run id", 400>>>>
<1>3. part = <<part[1]>>
  OBVIOUS
<1>. HIDE DEF part
<1>4. Begins(JsonGate, JsonGate \o NoRunner \o Body(413) \o part)
  BY <1>2, <1>3, ListBehind, NamedGatesBegin
<1>5. Begins(JsonGate, JsonGate \o NoRunner \o Body(413) \o part \o JavaFileChecks)
  BY <1>4, PartBehind, NamedGatesBegin
<1>. DEFINE part2 == <<<<"overlays", 400>>>>
<1>6. part2 = <<part2[1]>>
  OBVIOUS
<1>. HIDE DEF part2
<1>7. Begins(JsonGate, JsonGate \o NoRunner \o Body(413) \o part \o JavaFileChecks \o part2)
  BY <1>5, <1>6, ListBehind, NamedGatesBegin
<1>. QED  BY <1>7 DEF VerifyChecks, part, part2

LEMMA RepairGated == Begins(JsonGate, RepairChecks)
<1>1. Begins(JsonGate, JsonGate \o NoOrchestrator)
  BY NamedGatesBegin, PartBehind, NamedGatesBegin
<1>2. Begins(JsonGate, JsonGate \o NoOrchestrator \o Body(400))
  BY <1>1, BodyBehind, NamedGatesBegin
<1>. DEFINE part == <<<<"run id", 400>>>>
<1>3. part = <<part[1]>>
  OBVIOUS
<1>. HIDE DEF part
<1>4. Begins(JsonGate, JsonGate \o NoOrchestrator \o Body(400) \o part)
  BY <1>2, <1>3, ListBehind, NamedGatesBegin
<1>5. Begins(JsonGate, JsonGate \o NoOrchestrator \o Body(400) \o part \o UnknownRun)
  BY <1>4, PartBehind, NamedGatesBegin
<1>6. Begins(JsonGate, JsonGate \o NoOrchestrator \o Body(400) \o part \o UnknownRun \o NoLiveRun)
  BY <1>5, PartBehind, NamedGatesBegin
<1>. QED  BY <1>6 DEF RepairChecks, part

LEMMA RepairRoutesGated ==
    /\ Begins(JsonGate, PreviewChecks) /\ Begins(JsonGate, DiagnoseChecks)
    /\ Begins(JsonGate, ApplyChecks) /\ Begins(JsonGate, AcceptChecks)
    /\ Begins(JsonGate, RejectChecks)
<1>. DEFINE preview == <<<<"extra field", 400>>, <<"too many files", 413>>>>
            others == <<<<"proposal ids", 400>>, <<"extra field", 400>>>>
<1>1. preview = <<preview[1], preview[2]>> /\ others = <<others[1], others[2]>>
  OBVIOUS
<1>. HIDE DEF preview, others
<1>2. Begins(JsonGate, RepairChecks \o preview) /\ Begins(JsonGate, RepairChecks \o others)
  BY <1>1, RepairGated, ListBehind, NamedGatesBegin
<1>. QED
  BY <1>2 DEF preview, others, PreviewChecks, DiagnoseChecks, ApplyChecks, AcceptChecks, RejectChecks

LEMMA DecisionGated == Begins(JsonGate, DecisionChecks)
<1>1. Begins(JsonGate, JsonGate \o UnknownRun)
  BY NamedGatesBegin, PartBehind, NamedGatesBegin
<1>2. Begins(JsonGate, JsonGate \o UnknownRun \o NoOrchestrator)
  BY <1>1, PartBehind, NamedGatesBegin
<1>3. Begins(JsonGate, JsonGate \o UnknownRun \o NoOrchestrator \o Body(400))
  BY <1>2, BodyBehind, NamedGatesBegin
<1>4. Begins(JsonGate, JsonGate \o UnknownRun \o NoOrchestrator \o Body(400) \o FieldTypes)
  BY <1>3, PartBehind, NamedGatesBegin
<1>. QED  BY <1>4 DEF DecisionChecks

LEMMA ExportGated == Begins(JsonGate, ExportChecks)
<1>1. Begins(JsonGate, JsonGate \o UnknownRun)
  BY NamedGatesBegin, PartBehind, NamedGatesBegin
<1>. DEFINE part == <<<<"diagnostic run", 409>>>>
<1>2. part = <<part[1]>>
  OBVIOUS
<1>. HIDE DEF part
<1>3. Begins(JsonGate, JsonGate \o UnknownRun \o part)
  BY <1>1, <1>2, ListBehind, NamedGatesBegin
<1>4. Begins(JsonGate, JsonGate \o UnknownRun \o part \o NoLiveRun)
  BY <1>3, PartBehind, NamedGatesBegin
<1>5. Begins(JsonGate, JsonGate \o UnknownRun \o part \o NoLiveRun \o NoOrchestrator)
  BY <1>4, PartBehind, NamedGatesBegin
<1>6. Begins(JsonGate, JsonGate \o UnknownRun \o part \o NoLiveRun \o NoOrchestrator \o Body(400))
  BY <1>5, BodyBehind, NamedGatesBegin
<1>. QED  BY <1>6 DEF ExportChecks, part

LEMMA OutputChangeGated == Begins(JsonGate, OutputChangeChecks)
<1>1. Begins(JsonGate, JsonGate \o Body(400))
  BY NamedGatesBegin, BodyBehind, NamedGatesBegin
<1>2. Begins(JsonGate, JsonGate \o Body(400) \o UnknownRun)
  BY <1>1, PartBehind, NamedGatesBegin
<1>. DEFINE part == <<<<"previous run id", 400>>>>
<1>3. part = <<part[1]>>
  OBVIOUS
<1>. HIDE DEF part
<1>4. Begins(JsonGate, JsonGate \o Body(400) \o UnknownRun \o part)
  BY <1>2, <1>3, ListBehind, NamedGatesBegin
<1>. QED  BY <1>4 DEF OutputChangeChecks, part

LEMMA RunReadGated == Begins(ReadGate, RunReadChecks)
<1>1. Begins(ReadGate, ReadGate \o UnknownRun)
  BY NamedGatesBegin, PartBehind, NamedGatesBegin
<1>. QED  BY <1>1 DEF RunReadChecks

LEMMA FileOfRunGated == Begins(ReadGate, FileOfRunChecks)
<1>. DEFINE part == <<<<"run id", 400>>, <<"unsafe path", 400>>>>
<1>1. part = <<part[1], part[2]>>
  OBVIOUS
<1>. HIDE DEF part
<1>2. Begins(ReadGate, ReadGate \o part)
  BY NamedGatesBegin, <1>1, ListBehind, NamedGatesBegin
<1>3. Begins(ReadGate, ReadGate \o part \o UnknownRun)
  BY <1>2, PartBehind, NamedGatesBegin
<1>. DEFINE part2 == <<<<"diagnostic run", 404>>>>
<1>4. part2 = <<part2[1]>>
  OBVIOUS
<1>. HIDE DEF part2
<1>5. Begins(ReadGate, ReadGate \o part \o UnknownRun \o part2)
  BY <1>3, <1>4, ListBehind, NamedGatesBegin
<1>6. Begins(ReadGate, ReadGate \o part \o UnknownRun \o part2 \o NoLiveRun)
  BY <1>5, PartBehind, NamedGatesBegin
<1>7. Begins(ReadGate, ReadGate \o part \o UnknownRun \o part2 \o NoLiveRun \o NoOrchestrator)
  BY <1>6, PartBehind, NamedGatesBegin
<1>. QED  BY <1>7 DEF FileOfRunChecks, part, part2

LEMMA FormatGated == Begins(JsonGate, FormatChecks)
<1>1. Begins(JsonGate, JsonGate \o NoRunner)
  BY NamedGatesBegin, PartBehind, NamedGatesBegin
<1>2. Begins(JsonGate, JsonGate \o NoRunner \o Body(413))
  BY <1>1, BodyBehind, NamedGatesBegin
<1>. DEFINE part == <<<<"content", 400>>, <<"too much", 413>>>>
<1>3. part = <<part[1], part[2]>>
  OBVIOUS
<1>. HIDE DEF part
<1>4. Begins(JsonGate, JsonGate \o NoRunner \o Body(413) \o part)
  BY <1>2, <1>3, ListBehind, NamedGatesBegin
<1>. QED  BY <1>4 DEF FormatChecks, part

LEMMA TelemetryGated == Begins(JsonGate, TelemetryChecks)
<1>1. Begins(JsonGate, JsonGate \o Body(413))
  BY NamedGatesBegin, BodyBehind, NamedGatesBegin
<1>. DEFINE part == <<<<"envelope", 400>>, <<"too many events", 413>>, <<"event", 400>>>>
<1>2. part = <<part[1], part[2], part[3]>>
  OBVIOUS
<1>. HIDE DEF part
<1>3. Begins(JsonGate, JsonGate \o Body(413) \o part)
  BY <1>1, <1>2, ListBehind, NamedGatesBegin
<1>. QED  BY <1>3 DEF TelemetryChecks, part

LEMMA ReadRoutesGated ==
    /\ Begins(ReadGate, VerdictReadChecks) /\ Begins(ReadGate, TimelineReadChecks)
    /\ Begins(ReadGate, FileReadChecks) /\ Begins(ReadGate, ArtifactReadChecks)
    /\ Begins(ReadGate, BootstrapChecks)
<1>1. Begins(ReadGate, FileOfRunChecks \o UpstreamFileChecks)
  BY FileOfRunGated, PartBehind, NamedGatesBegin
<1>. QED
  BY <1>1, RunReadGated, Gates
     DEF VerdictReadChecks, TimelineReadChecks, FileReadChecks, ArtifactReadChecks, BootstrapChecks

\* Behind the session gate: every route but those that ask for no session or
\* look for it later.
LEMMA GatedChains ==
    ASSUME NEW route \in GatedRoutes
    PROVE  Begins(JsonGate, Checks[route]) \/ Begins(ReadGate, Checks[route])
<1>1. route \in {"transform", "generate", "runs", "compileCheck", "verify", "preview", "diagnose",
                 "apply", "accept", "reject", "decision", "export", "outputChange", "runRead",
                 "verdictRead", "timelineRead", "fileRead", "artifactRead", "format",
                 "telemetry", "bootstrap"}
  BY DEF GatedRoutes, Routes, Checks, OpenRoutes
<1>2. CASE route \in {"transform", "generate", "runs", "compileCheck", "verify"}
  BY <1>2, TransformGated, GenerateGated, StartRunGated, CompileCheckGated, VerifyGated DEF Checks
<1>3. CASE route \in {"preview", "diagnose", "apply", "accept", "reject"}
  BY <1>3, RepairRoutesGated DEF Checks
<1>4. CASE route \in {"decision", "export", "outputChange", "format", "telemetry"}
  BY <1>4, DecisionGated, ExportGated, OutputChangeGated, FormatGated, TelemetryGated DEF Checks
<1>5. CASE route \in {"runRead", "verdictRead", "timelineRead", "fileRead", "artifactRead",
                      "bootstrap"}
  BY <1>5, RunReadGated, ReadRoutesGated DEF Checks
<1>. QED  BY <1>1, <1>2, <1>3, <1>4, <1>5

\* Behind a gate a request without a session is refused in the gate, for any
\* set of other defects: what else is wrong with it is not looked at.
LEMMA GateAnswers ==
    ASSUME NEW route, NEW gate \in {JsonGate, ReadGate}, Begins(gate, Checks[route]),
           NEW defects, "session" \in defects
    PROVE  Refusal(route, defects) \in {401, 403, 415}
<1>. DEFINE chain == Checks[route]
            found == {i \in DOMAIN chain : chain[i][1] \in defects}
            last == Len(gate)
<1>1. /\ last \in {2, 3} /\ gate[last][1] = "session"
      /\ \A i \in 1 .. last : gate[i][2] \in {401, 403, 415}
  <2>1. CASE gate = JsonGate
    <3>1. Len(gate) = 3
      BY <2>1 DEF JsonGate
    <3>2. gate[3][1] = "session"
      BY <2>1 DEF JsonGate
    <3>3. gate[1][2] = 403 /\ gate[2][2] = 415 /\ gate[3][2] = 401
      BY <2>1 DEF JsonGate
    <3>. QED  BY <3>1, <3>2, <3>3
  <2>2. CASE gate = ReadGate
    <3>1. Len(gate) = 2
      BY <2>2 DEF ReadGate
    <3>2. gate[2][1] = "session" /\ \A i \in 1 .. 2 : gate[i][2] \in {401, 403, 415}
      BY <2>2 DEF ReadGate
    <3>. QED  BY <3>1, <3>2
  <2>. QED  BY <2>1, <2>2
<1>2. \A i \in 1 .. last : i \in DOMAIN chain /\ chain[i] = gate[i]
  <2>1. PICK T : chain \in Seq(T)
    BY DEF Begins, IsSeq
  <2>. QED  BY <1>1, <2>1 DEF Begins
<1>3. found \subseteq Nat \ {0} /\ last \in found
  <2>1. PICK T : chain \in Seq(T)
    BY DEF Begins, IsSeq
  <2>. QED  BY <1>1, <1>2, <2>1
<1>. HIDE DEF found, last
<1>4. \E x \in found : x <= last /\ \A y \in found : x <= y
  <2>1. CASE 1 \in found
    BY <2>1, <1>1, <1>3
  <2>2. CASE 1 \notin found /\ 2 \in found
    BY <2>2, <1>1, <1>3
  <2>3. CASE 1 \notin found /\ 2 \notin found
    BY <2>3, <1>1, <1>3
  <2>. QED  BY <2>1, <2>2, <2>3
<1>5. Min(found) \in found /\ Min(found) <= last
  BY <1>1, <1>3, <1>4 DEF Min
<1>6. Min(found) \in 1 .. last
  <2>1. last \in Nat
    BY <1>1
  <2>2. Min(found) \in Nat /\ Min(found) # 0
    BY <1>3, <1>5
  <2>. QED  BY <2>1, <2>2, <1>5
<1>7. Refusal(route, defects) = chain[Min(found)][2]
  BY <1>3 DEF Refusal, found
<1>. QED  BY <1>1, <1>2, <1>6, <1>7

\* Behind the session gate what the answer says does not depend on anything
\* the handler would have found out later
\* (rejectUnauthenticatedStudioJsonRequest), whatever the defects of the
\* request and however many.
THEOREM GateComesFirst ==
    \A route \in GatedRoutes : \A defects :
       "session" \in defects => Refusal(route, defects) \in {401, 403, 415}
BY GatedChains, GateAnswers
=============================================================================
