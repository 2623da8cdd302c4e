------------------------- MODULE WorkflowRunProofs -------------------------
(* Theorems about WorkflowRun, for every value of the three budget limits. *)
EXTENDS WorkflowRun, TLAPS

Positions == {"init"} \cup MainPositions \cup HandlerPositions \cup Ended
Raised == Exceptions \cup {NoException}
Contracts == [state : WorkflowStates \cup {None}, cls : FinalClassifications \cup {None},
              code : FailureCodes \cup {None}, javaRef : Nat]

\* The part of TypeOK that the building blocks Advance, Finalize and Persist
\* are about.
ContractOK ==
    /\ state \in WorkflowStates
    /\ cls \in FinalClassifications \cup {None}
    /\ code \in FailureCodes \cup {None}
    /\ javaRef \in Nat
    /\ saved \in Contracts
    /\ writeFailed \in BOOLEAN
    /\ pc \in Positions
    /\ exc \in Raised

-----------------------------------------------------------------------------
(* The building blocks keep the contract, the position and the exception in *)
(* their types.                                                             *)

\* The exceptions the building blocks raise are exceptions of the model.
LEMMA ExceptionTypes ==
    /\ NoException \in Raised
    /\ \A k \in ExceptionKinds : \A s \in Steps \cup {None} : [kind |-> k, step |-> s] \in Raised
    /\ [kind |-> "other", step |-> None] \in Raised
    /\ [kind |-> "illegal", step |-> None] \in Raised
BY DEF Raised, Exceptions, ExceptionKinds

\* A write of the contract file, or its failure.
LEMMA PersistType ==
    ASSUME ContractOK, NEW snapshot \in Contracts, NEW next \in Positions,
           NEW e \in Raised, NEW onFault \in Positions,
           Persist(snapshot, next, e, onFault)
    PROVE  saved' \in Contracts /\ writeFailed' \in BOOLEAN /\ pc' \in Positions /\ exc' \in Raised
<1>1. saved \in Contracts /\ exc \in Raised
  BY DEF ContractOK
<1>2. saved' \in Contracts /\ pc' \in Positions
  BY <1>1 DEF Persist
<1>3. writeFailed' = writeFailed \/ writeFailed' = TRUE
  BY Zenon DEF Persist
<1>4. writeFailed' \in BOOLEAN
  BY <1>3, Zenon DEF ContractOK
<1>5. exc' \in Raised
  BY <1>1, ExceptionTypes DEF Persist
<1> QED BY <1>2, <1>4, <1>5

\* A move of the contract, refused, persisted or lost to a failed write.
LEMMA AdvanceThenType ==
    ASSUME ContractOK, javaRef' \in Nat, NEW target \in WorkflowStates,
           NEW next \in Positions, NEW e \in Raised, AdvanceThen(target, next, e)
    PROVE  ContractOK'
<1>1. Snapshot(target, cls, code) \in Contracts
  BY DEF Snapshot, ContractOK, Contracts
<1>2. "handler" \in Positions
  BY DEF Positions, HandlerPositions
<1>3. CASE target \in AllowedTransitions[state]
  BY <1>1, <1>2, <1>3, PersistType DEF AdvanceThen, ContractOK
<1>4. CASE target \notin AllowedTransitions[state]
  BY <1>2, <1>4, ExceptionTypes DEF AdvanceThen, ContractOK, Raise
<1> QED BY <1>3, <1>4

\* Sealing the contract.
LEMMA FinalizeType ==
    ASSUME ContractOK, NEW c \in FinalClassifications, NEW f \in FailureCodes \cup {None},
           NEW next \in Positions, NEW onFault \in Positions, Finalize(c, f, next, onFault)
    PROVE  ContractOK'
<1> DEFINE sealed == IF "final_classification" \in AllowedTransitions[state]
                     THEN "final_classification" ELSE state
<1>1. sealed \in WorkflowStates
  BY DEF ContractOK, WorkflowStates
<1>2. cls' = c /\ code' = f /\ state' = sealed /\ javaRef' = javaRef
      /\ Persist(Snapshot(sealed, c, f), next, exc, onFault)
  BY DEF Finalize
<1> HIDE DEF sealed
<1>3. Snapshot(sealed, c, f) \in Contracts
  BY <1>1, <1>2 DEF Snapshot, ContractOK, Contracts
<1>4. exc \in Raised
  BY DEF ContractOK
<1> QED BY <1>1, <1>2, <1>3, <1>4, PersistType DEF ContractOK

\* A move of the contract alone.
LEMMA AdvanceType ==
    ASSUME ContractOK, javaRef' \in Nat, NEW target \in WorkflowStates,
           NEW next \in Positions, Advance(target, next)
    PROVE  ContractOK'
BY AdvanceThenType DEF Advance, ContractOK

\* Any exception that reaches the handler.
LEMMA RaiseType ==
    ASSUME ContractOK, UNCHANGED contract, NEW k \in ExceptionKinds,
           NEW s \in Steps \cup {None}, Raise([kind |-> k, step |-> s])
    PROVE  ContractOK'
<1>1. "handler" \in Positions
  BY DEF Positions, HandlerPositions
<1> QED BY <1>1, ExceptionTypes DEF Raise, contract, ContractOK

\* A failure outside the steps' own error handling.
LEMMA FaultType ==
    ASSUME ContractOK, Fault
    PROVE  ContractOK'
BY RaiseType DEF Fault, ExceptionKinds

\* A failure of a step.
LEMMA StepFaultType ==
    ASSUME ContractOK, NEW s \in Steps, StepFault(s)
    PROVE  ContractOK'
<1>1. PICK k \in {"step", "capability_missing"} : Raise([kind |-> k, step |-> s])
  BY DEF StepFault
<1>2. k \in ExceptionKinds /\ s \in Steps \cup {None} /\ UNCHANGED contract
  BY DEF ExceptionKinds, StepFault
<1> QED BY <1>1, <1>2, RaiseType

\* A step that only moves the thread on.
LEMMA GotoType ==
    ASSUME ContractOK, UNCHANGED contract, NEW next \in Positions, Goto(next)
    PROVE  ContractOK'
BY DEF Goto, contract, ContractOK

-----------------------------------------------------------------------------
\* The rest of TypeOK.
RestOK ==
    /\ request \in Requests
    /\ repairUsed \in Nat /\ assistUsed \in Nat /\ modelUsed \in Nat /\ calls \in Nat
    /\ assist \in AssistReasons
    /\ project \in Nat
    /\ built \in [cand : Nat, ok : BOOLEAN, code : BuildFailureCodes \cup {None}]
    /\ blockCode \in FailureCodes \cup {None}
    /\ evidence \in {None, "materialized", "incomplete"}
    /\ failure \in [code : FailureCodes \cup {None}, status : {"failed", "blocked"}]
    /\ harness \in {"starting", "updating", "completed", "failed"}
    /\ summary \in {"open", "completed", "blocked", "failed"}
    /\ marker \in {"open", "completed", "failed"}

\* TypeOK is the contract part and the rest.
LEMMA TypeParts == (TypeOK <=> ContractOK /\ RestOK) /\ (TypeOK' <=> ContractOK' /\ RestOK')
BY DEF TypeOK, ContractOK, RestOK, Positions, Raised, Contracts

\* The rest keeps its types when it does not change.
LEMMA RestUnchanged ==
    RestOK /\ UNCHANGED <<request, budgets, calls, locals, failure, reports>> => RestOK'
BY DEF RestOK, budgets, locals, reports

\* The steps that touch nothing but the contract, the position and the
\* exception.
LEMMA ContractSteps ==
    ASSUME ContractOK, RestOK,
           \/ InitContract \/ PersistSource \/ RequireCapabilities \/ ParseCobol
           \/ GenerateIr \/ StartBaseline \/ EnterAgent \/ StopAfterGeneration
           \/ Route \/ LoadExpectedOutput \/ EnterRebuild \/ SelectFinalJava
           \/ ModelGuidance \/ FetchLedger \/ FinalizeRun \/ FinalizeGenerateOnly
           \/ PersistCandidate
    PROVE  ContractOK' /\ RestOK'
<1> USE DEF Positions, MainPositions, HandlerPositions, Ended, WorkflowStates
<1>1. CASE InitContract
  <2>1. Snapshot(state, cls, code) \in Contracts
    BY <1>1 DEF InitContract, ContractOK, Contracts, Snapshot
  <2>2. "source" \in Positions /\ "dead" \in Positions /\ exc \in Raised
    BY DEF ContractOK
  <2> QED BY <1>1, <2>1, <2>2, PersistType, RestUnchanged DEF InitContract, ContractOK
<1>2. CASE PersistSource
  BY <1>2, AdvanceType, FaultType, RestUnchanged DEF PersistSource, ContractOK
<1>3. CASE RequireCapabilities
  BY <1>3, RaiseType, GotoType, RestUnchanged DEF RequireCapabilities, Steps, ExceptionKinds
<1>4. CASE ParseCobol
  BY <1>4, AdvanceType, FaultType, StepFaultType, RaiseType, RestUnchanged
     DEF ParseCobol, ContractOK, Steps, ExceptionKinds
<1>5. CASE GenerateIr
  <2>1. CASE \E k \in {"step", "capability_missing"} :
               AdvanceThen("semantic_ir_blocked", "handler", [kind |-> k, step |-> "generate-ir"])
    <3>1. PICK k \in {"step", "capability_missing"} :
               AdvanceThen("semantic_ir_blocked", "handler", [kind |-> k, step |-> "generate-ir"])
      BY <2>1
    <3>2. [kind |-> k, step |-> "generate-ir"] \in Raised
      BY ExceptionTypes DEF ExceptionKinds, Steps
    <3> QED BY <1>5, <3>1, <3>2, AdvanceThenType, RestUnchanged DEF GenerateIr, ContractOK
  <2> QED BY <1>5, <2>1, AdvanceType, FaultType, RestUnchanged DEF GenerateIr, ContractOK
<1>6. CASE StartBaseline \/ EnterAgent \/ StopAfterGeneration \/ EnterRebuild \/ SelectFinalJava
  BY <1>6, AdvanceType, RestUnchanged
     DEF StartBaseline, EnterAgent, StopAfterGeneration, EnterRebuild, SelectFinalJava, ContractOK
<1>7. CASE Route
  BY <1>7, AdvanceType, RestUnchanged DEF Route, ContractOK
<1>8. CASE LoadExpectedOutput
  BY <1>8, FaultType, GotoType, RestUnchanged DEF LoadExpectedOutput
<1>9. CASE ModelGuidance
  BY <1>9, FaultType, GotoType, StepFaultType, RaiseType, RestUnchanged
     DEF ModelGuidance, Steps, ExceptionKinds
<1>10. CASE FetchLedger
  BY <1>10, FaultType, GotoType, RestUnchanged DEF FetchLedger
<1>11. CASE FinalizeRun
  <2>1. FinalClassification(blockCode) \in FinalClassifications
    BY DEF FinalClassification, FinalClassifications
  <2>2. blockCode \in FailureCodes \cup {None}
    BY DEF RestOK
  <2> QED BY <1>11, <2>1, <2>2, FinalizeType, RestUnchanged DEF FinalizeRun
<1>12. CASE FinalizeGenerateOnly
  BY <1>12, FinalizeType, RestUnchanged
     DEF FinalizeGenerateOnly, FinalClassifications, FailureCodes
<1>13. CASE PersistCandidate
  <2>1. javaRef' \in Nat
    BY <1>13 DEF PersistCandidate, RestOK
  <2> QED BY <1>13, <2>1, AdvanceType, RestUnchanged DEF PersistCandidate
<1> QED BY <1>1, <1>2, <1>3, <1>4, <1>5, <1>6, <1>7, <1>8, <1>9, <1>10, <1>11, <1>12, <1>13

\* Blocking the run keeps the types.
LEMMA BlockType ==
    ASSUME ContractOK, javaRef' \in Nat, NEW c, Block(c)
    PROVE  ContractOK' /\ blockCode' = c
<1>1. "run_blocked" \in WorkflowStates /\ "guidance" \in Positions
  BY DEF WorkflowStates, Positions, MainPositions
<1> QED BY <1>1, AdvanceType DEF Block

\* Every failure code the runner can put in the contract is one of the
\* contract's failure codes.
LEMMA CodesAreFailureCodes ==
    /\ BuildFailureCodes \subseteq FailureCodes
    /\ AgentBlockCodes \subseteq FailureCodes
    /\ RepairRefusalCodes \subseteq FailureCodes
    /\ RepairExceptionCodes \subseteq FailureCodes
    /\ \A s \in Steps : FailureCodeForStepName(s) \in FailureCodes
    /\ \A s \in WorkflowStates : FallbackFailureCodeForState(s) \in FailureCodes
<1>1. \A s \in Steps : FailureCodeForStepName(s) \in FailureCodes
  BY DEF Steps, FailureCodeForStepName, FailureCodes
<1>2. \A s \in WorkflowStates : FallbackFailureCodeForState(s) \in FailureCodes
  BY DEF WorkflowStates, FallbackFailureCodeForState, FailureCodes
<1> QED BY <1>1, <1>2 DEF BuildFailureCodes, AgentBlockCodes, RepairRefusalCodes,
                         RepairExceptionCodes, FailureCodes

\* The code the handler derives from an exception is a failure code.
LEMMA ExceptionCode ==
    \A e \in Raised : \A s \in WorkflowStates : FailureCodeFromException(e, s) \in FailureCodes
<1> SUFFICES ASSUME NEW e \in Raised, NEW s \in WorkflowStates
             PROVE  FailureCodeFromException(e, s) \in FailureCodes
  OBVIOUS
<1>1. e.step # None => e.step \in Steps
  BY DEF Raised, Exceptions, NoException
<1> QED BY <1>1, CodesAreFailureCodes DEF FailureCodeFromException, FailureCodes

\* The steps of the agents, the build and the repair loop.
LEMMA LoopSteps ==
    ASSUME ContractOK, RestOK,
           \/ Announce \/ GenerateJava \/ DecideAssist \/ PayAgent \/ InvokeAgent
           \/ ExecuteSourceReference \/ Build \/ Rebuild \/ BlockParity \/ EnterRepair
           \/ PayRepair \/ InvokeRepair
    PROVE  ContractOK' /\ RestOK'
<1> USE DEF Positions, MainPositions, HandlerPositions, Ended, WorkflowStates
<1>1. CASE Announce
  <2>1. ContractOK'
    BY <1>1, GotoType, FaultType DEF Announce
  <2>2. RestOK'
    BY <1>1 DEF Announce, Applied, RestOK, budgets, locals
  <2> QED BY <2>1, <2>2
<1>2. CASE GenerateJava
  <2>1. ContractOK'
    BY <1>2, GotoType, FaultType, StepFaultType, RaiseType DEF GenerateJava, Steps, ExceptionKinds
  <2>2. RestOK'
    BY <1>2 DEF GenerateJava, RestOK, budgets, reports
  <2> QED BY <2>1, <2>2
<1>3. CASE DecideAssist
  <2>1. PICK d \in AssistDecisions :
          /\ assist' = d.reason
          /\ assistUsed' = d.used
          /\ UNCHANGED <<state, cls, code, javaRef>>
          /\ Persist(Snapshot(state, cls, code),
                     IF request.useAgent /\ AssistAuthorised(d.reason) /\ ~request.parity
                     THEN "enter_agent" ELSE "persist_candidate",
                     exc, "handler")
    BY <1>3 DEF DecideAssist
  <2>2. d.reason \in AssistReasons /\ d.used \in Nat
    BY DEF AssistDecisions, AssistReasons, RestOK
  <2>3. Snapshot(state, cls, code) \in Contracts
    BY <2>1 DEF ContractOK, Contracts, Snapshot
  <2>4. ContractOK'
    BY <2>1, <2>3, PersistType DEF ContractOK
  <2>5. RestOK'
    BY <1>3, <2>1, <2>2 DEF DecideAssist, RestOK, reports
  <2> QED BY <2>4, <2>5
<1>4. CASE PayAgent
  <2>1. ContractOK'
    BY <1>4, GotoType, RaiseType DEF PayAgent, Steps, ExceptionKinds
  <2>2. RestOK'
    BY <1>4 DEF PayAgent, RestOK, locals, reports
  <2> QED BY <2>1, <2>2
<1>5. CASE InvokeAgent
  <2>1. ContractOK'
    BY <1>5, GotoType, RaiseType, FaultType
       DEF InvokeAgent, RaiseAgentError, Steps, ExceptionKinds
  <2>2. RestOK'
    BY <1>5, CodesAreFailureCodes DEF InvokeAgent, AgentBlocksRun, RestOK, budgets, reports
  <2> QED BY <2>1, <2>2
<1>6. CASE ExecuteSourceReference
  <2>1. ContractOK'
    BY <1>6, GotoType, FaultType, StepFaultType, AdvanceType
       DEF ExecuteSourceReference, Steps, ContractOK
  <2>2. RestOK'
    BY <1>6 DEF ExecuteSourceReference, FailureCodes, RestOK, budgets, reports
  <2> QED BY <2>1, <2>2
<1>7. CASE Build \/ Rebuild
  <2>1. ContractOK'
    BY <1>7, GotoType, FaultType, StepFaultType DEF Build, Rebuild, RunBuild, Steps
  <2>2. built' \in [cand : Nat, ok : BOOLEAN, code : BuildFailureCodes \cup {None}]
    <3>1. CASE UNCHANGED built
      BY <3>1 DEF RestOK
    <3>2. CASE \E o \in BuildOutcomes : built' = [cand |-> project, ok |-> o.ok, code |-> o.code]
      <4>1. PICK o \in BuildOutcomes : built' = [cand |-> project, ok |-> o.ok, code |-> o.code]
        BY <3>2
      <4>2. o.ok \in BOOLEAN /\ o.code \in BuildFailureCodes \cup {None}
        <5>1. CASE o = [ok |-> TRUE, code |-> None]
          BY <5>1
        <5>2. CASE o \in [ok : {FALSE}, code : BuildFailureCodes]
          BY <5>2
        <5> QED BY <5>1, <5>2 DEF BuildOutcomes
      <4> QED BY <4>1, <4>2 DEF RestOK
    <3> QED BY <1>7, <3>1, <3>2 DEF Build, Rebuild, RunBuild
  <2>3. RestOK'
    BY <1>7, <2>2 DEF Build, Rebuild, RunBuild, RestOK, budgets, reports
  <2> QED BY <2>1, <2>3
<1>8. CASE BlockParity \/ EnterRepair
  <2>1. built.code \in FailureCodes \cup {None}
    BY CodesAreFailureCodes DEF RestOK
  <2>2. ContractOK' /\ blockCode' \in {blockCode, built.code}
    BY <1>8, BlockType, AdvanceType DEF BlockParity, EnterRepair, ContractOK
  <2>3. RestOK'
    BY <1>8, <2>1, <2>2 DEF BlockParity, EnterRepair, RestOK, budgets, reports
  <2> QED BY <2>2, <2>3
<1>9. CASE PayRepair
  <2>1. built.code \in FailureCodes \cup {None}
    BY CodesAreFailureCodes DEF RestOK
  <2>2. ContractOK' /\ blockCode' \in {blockCode, built.code}
    BY <1>9, BlockType, GotoType DEF PayRepair, ContractOK
  <2>3. repairUsed' \in Nat /\ modelUsed' \in Nat
    BY <1>9 DEF PayRepair, RestOK
  <2>4. RestOK'
    BY <1>9, <2>1, <2>2, <2>3 DEF PayRepair, RestOK, reports
  <2> QED BY <2>2, <2>4
<1>10. CASE InvokeRepair
  <2>1. javaRef' \in Nat /\ project' \in Nat /\ calls' \in Nat
    BY <1>10 DEF InvokeRepair, ReplaceCandidate, ContractOK, RestOK
  <2>2. ContractOK'
    BY <1>10, <2>1, BlockType, RaiseType, FaultType, AdvanceType
       DEF InvokeRepair, ExceptionKinds, Steps
  <2>3. blockCode' \in FailureCodes \cup {None}
    BY <1>10, <2>1, BlockType, CodesAreFailureCodes DEF InvokeRepair, RestOK, FailureCodes
  <2>4. RestOK'
    BY <1>10, <2>1, <2>3 DEF InvokeRepair, RestOK, budgets, reports
  <2> QED BY <2>2, <2>4
<1> QED BY <1>1, <1>2, <1>3, <1>4, <1>5, <1>6, <1>7, <1>8, <1>9, <1>10

\* The steps that end the run: evidence, reports and the exception handler.
LEMMA EndingSteps ==
    ASSUME ContractOK, RestOK,
           \/ WriteEvidence \/ RecordEvidence \/ Publish \/ Notify \/ ClassifyFailure
           \/ FinalizeFailure \/ PublishFailure \/ SummariseFailure \/ Crash
    PROVE  ContractOK' /\ RestOK'
<1> USE DEF Positions, MainPositions, HandlerPositions, Ended, WorkflowStates
<1>1. CASE WriteEvidence
  <2>1. ContractOK'
    BY <1>1, GotoType, FaultType, StepFaultType DEF WriteEvidence, Steps
  <2>2. RestOK'
    BY <1>1 DEF WriteEvidence, RestOK, budgets, reports
  <2> QED BY <2>1, <2>2
<1>2. CASE RecordEvidence
  <2>1. ContractOK'
    BY <1>2, AdvanceType DEF RecordEvidence, ContractOK
  <2>2. RestOK'
    BY <1>2 DEF RecordEvidence, BlockAfterIncompleteEvidence, FailureCodes, RestOK, budgets, reports
  <2> QED BY <2>1, <2>2
<1>3. CASE Publish
  <2>1. ContractOK'
    BY <1>3, GotoType, FaultType DEF Publish
  <2>2. RestOK'
    BY <1>3 DEF Publish, RestOK, budgets, locals
  <2> QED BY <2>1, <2>2
<1>4. CASE Notify
  <2>1. ContractOK'
    BY <1>4, GotoType, FaultType DEF Notify
  <2>2. RestOK'
    BY <1>4 DEF Notify, Applied, RestOK, budgets, locals
  <2> QED BY <2>1, <2>2
<1>5. CASE ClassifyFailure
  <2>1. Snapshot(HandlerTarget, cls, code) \in Contracts
    BY <1>5 DEF ClassifyFailure, HandlerTarget, ContractOK, Contracts, Snapshot
  <2>2. HandlerTarget \in WorkflowStates
    BY DEF HandlerTarget
  <2>3. ContractOK'
    <3>1. CASE Persist(Snapshot(HandlerTarget, cls, code), "handler_finalize", exc,
                       "handler_publish") /\ state' = HandlerTarget
      BY <1>5, <2>1, <2>2, <3>1, PersistType DEF ClassifyFailure, ContractOK
    <3>2. CASE UNCHANGED <<state, saved, writeFailed, exc>>
                 /\ pc' \in {"handler_publish", "handler_finalize"}
      BY <1>5, <3>2 DEF ClassifyFailure, ContractOK
    <3> QED BY <1>5, <3>1, <3>2 DEF ClassifyFailure, Goto
  <2>4. FailureCodeFromException(exc, state) \in FailureCodes
    BY ExceptionCode DEF ContractOK
  <2>5. RestOK'
    BY <1>5, <2>4 DEF ClassifyFailure, RestOK, budgets, locals, reports
  <2> QED BY <2>3, <2>5
<1>6. CASE FinalizeFailure
  <2>1. FinalClassificationForFailureCode(failure.code) \in {"blocked", "failed"}
    BY DEF FinalClassificationForFailureCode
  <2>2. failure.code \in FailureCodes \cup {None}
    BY DEF RestOK
  <2>3. ContractOK'
    BY <1>6, <2>1, <2>2, FinalizeType DEF FinalizeFailure, FinalClassifications
  <2>4. RestOK'
    BY <1>6, <2>1 DEF FinalizeFailure, RestOK, budgets, locals, reports
  <2> QED BY <2>3, <2>4
<1>7. CASE PublishFailure
  <2>1. ContractOK'
    BY <1>7, GotoType DEF PublishFailure
  <2>2. RestOK'
    BY <1>7 DEF PublishFailure, Applied, RestOK, budgets, locals
  <2> QED BY <2>1, <2>2
<1>8. CASE SummariseFailure
  <2>1. ContractOK'
    BY <1>8, GotoType DEF SummariseFailure
  <2>2. RestOK'
    BY <1>8 DEF SummariseFailure, RestOK, budgets, locals
  <2> QED BY <2>1, <2>2
<1>9. CASE Crash
  BY <1>9, GotoType, RestUnchanged DEF Crash
<1> QED BY <1>1, <1>2, <1>3, <1>4, <1>5, <1>6, <1>7, <1>8, <1>9

\* Every step of the thread keeps the types.
LEMMA TypeStep == TypeOK /\ [Next]_vars => TypeOK'
<1> SUFFICES ASSUME ContractOK, RestOK, [Next]_vars
             PROVE  ContractOK' /\ RestOK'
  BY TypeParts
<1>1. CASE RunThread \/ Crash
  BY <1>1, ContractSteps, LoopSteps, EndingSteps DEF RunThread
<1>2. CASE UNCHANGED vars
  BY <1>2, RestUnchanged DEF vars, contract, ContractOK
<1> QED BY <1>1, <1>2 DEF Next, Stopped

\* A new run has the types.
LEMMA InitType == Init => TypeOK
<1> SUFFICES ASSUME Init PROVE ContractOK /\ RestOK
  BY TypeParts
<1>1. ContractOK
  BY DEF Init, ContractOK, Positions, WorkflowStates, Contracts, NoContract, Raised
<1>2. built \in [cand : Nat, ok : BOOLEAN, code : BuildFailureCodes \cup {None}]
      /\ failure \in [code : FailureCodes \cup {None}, status : {"failed", "blocked"}]
  BY DEF Init, NoBuild, NoFailure
<1>3. RestOK
  BY <1>2 DEF Init, RestOK, AssistReasons
<1> QED BY <1>1, <1>3

\* Every run of the orchestrator keeps its contract, its budgets and its
\* reports within the values TypeOK names, whatever fails.
THEOREM TypeCorrect == Spec => []TypeOK
BY InitType, TypeStep, PTL DEF Spec

-----------------------------------------------------------------------------
(* The inductive invariant: what the thread's position says of the          *)
(* contract, of the candidate and of the exception.                         *)

\* The contract state at every position that still moves the contract.
StateAtPosition ==
    /\ pc \in {"init", "source"} => state = "run_accepted"
    /\ pc \in {"announce", "capabilities", "parse"} => state = "source_normalized"
    /\ pc = "ir" => state = "cobol_parse_attempted"
    /\ pc = "baseline" => state = "semantic_ir_ready"
    /\ pc \in {"generate", "assist", "enter_agent"} => state = "baseline_generation_attempted"
    /\ pc \in {"pay_agent", "agent"} => state = "transformation_agent_invoked"
    /\ pc = "persist_candidate" =>
          state \in {"baseline_generation_attempted", "transformation_agent_invoked"}
    /\ pc \in {"generate_only", "route", "enter_rebuild"} => state = "java_candidate_persisted"
    /\ pc \in {"reference", "build", "parity_block", "repair", "rebuild", "select"} =>
          state = "build_test_running"
    /\ pc = "expected_output" =>
          state = IF blockCode = None THEN "build_test_running" ELSE "run_blocked"
    /\ pc \in {"pay_repair", "repair_agent"} => state = "verification_repair_invoked"
    /\ pc \in {"guidance", "ledger", "evidence", "record_evidence"} =>
          state \in {"final_java_selected", "run_blocked"}
    /\ pc = "finalize" => state \in {"evidence_materialized", "evidence_incomplete"}
    /\ pc = "finalize_only" => state = "run_blocked"
    /\ pc \in {"publish", "notify"} => Sealed
    /\ pc = "handler_finalize" =>
          state \in {"run_blocked", "evidence_incomplete", "evidence_materialized"}

\* No move was refused, and a failed write-evidence left the contract in a
\* state from which the handler can reach evidence_incomplete.
ExceptionAtHandler ==
    /\ exc.kind # "illegal"
    /\ pc = "handler" /\ exc.step = "write-evidence" /\ exc.kind # "capability_missing" =>
          state \in {"final_java_selected", "run_blocked"}

\* The verdict is recorded with the last transition, with its reason, and the
\* file never holds a verdict the contract does not have.
VerdictRecorded ==
    /\ cls # None <=> Sealed
    /\ cls # None => (cls = "success" <=> code = None)
    /\ saved.cls # None => cls # None
    /\ pc = "handler_finalize" => failure.code # None

\* The contract's Java is the candidate the last build verified.
VerifiedJava == built.ok = TRUE /\ built.cand = javaRef /\ javaRef # 0

LoopPositions == {"generate_only", "route", "reference", "expected_output", "build",
                  "parity_block", "repair", "pay_repair", "repair_agent", "enter_rebuild",
                  "rebuild", "select"}

\* The project the build is given is the Java the contract refers to, and a
\* run reaches its evidence unblocked only with a verified candidate.
CandidateAtPosition ==
    /\ pc \in {"assist", "enter_agent", "pay_agent", "agent", "persist_candidate"} => project # 0
    /\ pc \in LoopPositions => project # 0 /\ javaRef = project
    /\ pc = "reference" => blockCode = None
    /\ pc \in {"parity_block", "repair", "pay_repair"} => built.code # None
    /\ pc = "select" => built.ok = TRUE /\ built.cand = project
    /\ pc \in {"guidance", "ledger", "evidence", "record_evidence"} /\ blockCode = None =>
          VerifiedJava
    /\ pc = "finalize" /\ blockCode = None => VerifiedJava /\ evidence = "materialized"
    /\ cls = "success" => VerifiedJava /\ evidence = "materialized" /\ blockCode = None
    /\ saved.cls = "success" => cls = "success" /\ saved.javaRef = javaRef

\* Nothing is chosen, verified or evidenced before its time: no candidate is
\* replaced once a build has verified one.
EarlyPositions == {"init", "source", "announce", "capabilities", "parse", "ir", "baseline",
                   "generate", "assist", "enter_agent", "pay_agent", "agent",
                   "persist_candidate"}
OutcomeAtPosition ==
    /\ pc \in EarlyPositions => javaRef = 0
    /\ pc \in EarlyPositions \cup (LoopPositions \ {"select"}) => built.ok = FALSE
    /\ pc \in EarlyPositions \cup LoopPositions \cup {"guidance", "ledger", "evidence"} =>
          evidence = None

Parts == /\ StateAtPosition /\ ExceptionAtHandler /\ VerdictRecorded
         /\ CandidateAtPosition /\ OutcomeAtPosition
IInv == TypeOK /\ Parts

-----------------------------------------------------------------------------
\* What a move of the contract does where the state machine allows it.
LEMMA LegalAdvance ==
    ASSUME NEW target, NEW next, NEW e, target \in AllowedTransitions[state],
           AdvanceThen(target, next, e)
    PROVE  /\ state' = target /\ cls' = cls /\ code' = code
           /\ saved' = saved \/ saved' = Snapshot(target, cls, code)
           /\ \/ pc' = next /\ exc' = e
              \/ pc' = "handler" /\ exc' = [kind |-> "other", step |-> None]
BY DEF AdvanceThen, Persist

\* What sealing does where the state machine allows it.
LEMMA LegalFinalize ==
    ASSUME NEW c, NEW f, NEW next, NEW onFault,
           "final_classification" \in AllowedTransitions[state],
           Finalize(c, f, next, onFault)
    PROVE  /\ state' = "final_classification" /\ cls' = c /\ code' = f /\ javaRef' = javaRef
           /\ saved' = saved \/ saved' = Snapshot("final_classification", c, f)
           /\ \/ pc' = next /\ exc' = exc
              \/ /\ pc' = onFault
                 /\ exc' = IF onFault = "handler" THEN [kind |-> "other", step |-> None] ELSE exc
BY DEF Finalize, Persist

\* The moves the runner makes are moves of the state machine.
LEMMA Moves ==
    /\ "source_normalized" \in AllowedTransitions["run_accepted"]
    /\ "cobol_parse_attempted" \in AllowedTransitions["source_normalized"]
    /\ "semantic_ir_ready" \in AllowedTransitions["cobol_parse_attempted"]
    /\ "semantic_ir_blocked" \in AllowedTransitions["cobol_parse_attempted"]
    /\ "baseline_generation_attempted" \in AllowedTransitions["semantic_ir_ready"]
    /\ "transformation_agent_invoked" \in AllowedTransitions["baseline_generation_attempted"]
    /\ "java_candidate_persisted" \in AllowedTransitions["baseline_generation_attempted"]
    /\ "java_candidate_persisted" \in AllowedTransitions["transformation_agent_invoked"]
    /\ "java_candidate_persisted" \in AllowedTransitions["verification_repair_invoked"]
    /\ "build_test_running" \in AllowedTransitions["java_candidate_persisted"]
    /\ "verification_repair_invoked" \in AllowedTransitions["build_test_running"]
    /\ "final_java_selected" \in AllowedTransitions["build_test_running"]
    /\ \A s \in {"final_java_selected", "run_blocked"} :
          {"evidence_materialized", "evidence_incomplete"} \subseteq AllowedTransitions[s]
    /\ \A s \in {"run_blocked", "evidence_materialized", "evidence_incomplete"} :
          "final_classification" \in AllowedTransitions[s]
    /\ \A s \in {"java_candidate_persisted", "build_test_running", "verification_repair_invoked"} :
          "run_blocked" \in AllowedTransitions[s]
BY DEF AllowedTransitions, WorkflowStates

\* The handler can drive every open contract to a state that can be finalised.
LEMMA HandlerMoves ==
    \A s \in WorkflowStates :
        s \notin {"final_java_selected", "run_blocked", "evidence_materialized",
                  "evidence_incomplete", "final_classification"}
        => "run_blocked" \in AllowedTransitions[s]
BY DEF AllowedTransitions, WorkflowStates

\* From the first step to the baseline.
LEMMA IntakeStep ==
    ASSUME IInv,
           \/ InitContract \/ PersistSource \/ Announce \/ RequireCapabilities \/ ParseCobol
           \/ GenerateIr \/ StartBaseline \/ GenerateJava
    PROVE  Parts'
<1> USE DEF StateAtPosition, ExceptionAtHandler, VerdictRecorded, CandidateAtPosition,
            OutcomeAtPosition, EarlyPositions, LoopPositions, VerifiedJava, Sealed, Parts,
            IInv, None
<1>1. CASE InitContract
  BY <1>1 DEF InitContract, Persist, Snapshot, locals
<1>2. CASE PersistSource
  BY <1>2, LegalAdvance, Moves DEF PersistSource, Advance, Fault, Raise, contract, Snapshot, locals
<1>3. CASE Announce
  BY <1>3 DEF Announce, Fault, Raise, Goto, contract, locals
<1>4. CASE RequireCapabilities
  BY <1>4 DEF RequireCapabilities, Raise, Goto, contract, locals
<1>5. CASE ParseCobol
  BY <1>5, LegalAdvance, Moves
     DEF ParseCobol, Advance, Fault, StepFault, Raise, contract, Snapshot, locals
<1>6. CASE GenerateIr
  BY <1>6, LegalAdvance, Moves
     DEF GenerateIr, Advance, Fault, Raise, contract, Snapshot, locals
<1>7. CASE StartBaseline
  BY <1>7, LegalAdvance, Moves DEF StartBaseline, Advance, Snapshot, locals
<1>8. CASE GenerateJava
  BY <1>8 DEF GenerateJava, Goto, Fault, StepFault, Raise, contract
<1> QED BY <1>1, <1>2, <1>3, <1>4, <1>5, <1>6, <1>7, <1>8

\* The assist gate, the transformation agent and the first candidate.
LEMMA AgentStep ==
    ASSUME IInv,
           \/ DecideAssist \/ EnterAgent \/ PayAgent \/ InvokeAgent \/ PersistCandidate
           \/ StopAfterGeneration \/ Route
    PROVE  Parts'
<1> USE DEF StateAtPosition, ExceptionAtHandler, VerdictRecorded, CandidateAtPosition,
            OutcomeAtPosition, EarlyPositions, LoopPositions, VerifiedJava, Sealed, Parts,
            IInv, None
<1>1. CASE DecideAssist
  BY <1>1 DEF DecideAssist, Persist, Snapshot
<1>2. CASE EnterAgent
  BY <1>2, LegalAdvance, Moves DEF EnterAgent, Advance, Snapshot, locals
<1>3. CASE PayAgent
  BY <1>3 DEF PayAgent, Raise, Goto, contract, locals
<1>4. CASE InvokeAgent
  <2>1. project' # 0
    BY <1>4 DEF InvokeAgent, TypeOK
  <2> QED BY <1>4, <2>1 DEF InvokeAgent, RaiseAgentError, Fault, Raise, Goto, contract
<1>5. CASE PersistCandidate
  BY <1>5, LegalAdvance, Moves DEF PersistCandidate, Advance, Snapshot, locals
<1>6. CASE StopAfterGeneration
  BY <1>6, LegalAdvance, Moves DEF StopAfterGeneration, Advance, Snapshot, locals
<1>7. CASE Route
  BY <1>7, LegalAdvance, Moves DEF Route, Advance, Snapshot, locals
<1> QED BY <1>1, <1>2, <1>3, <1>4, <1>5, <1>6, <1>7

\* Blocking the run from the build or the repair loop.
LEMMA LegalBlock ==
    ASSUME state \in {"build_test_running", "verification_repair_invoked"}, NEW c, Block(c)
    PROVE  /\ state' = "run_blocked" /\ cls' = cls /\ code' = code /\ blockCode' = c
           /\ saved' = saved \/ saved' = Snapshot("run_blocked", cls, code)
           /\ \/ pc' = "guidance" /\ exc' = exc
              \/ pc' = "handler" /\ exc' = [kind |-> "other", step |-> None]
BY LegalAdvance, Moves DEF Block, Advance

\* Build, test and the repair loop.
LEMMA LoopStep ==
    ASSUME IInv,
           \/ ExecuteSourceReference \/ LoadExpectedOutput \/ Build \/ Rebuild \/ BlockParity
           \/ EnterRepair \/ PayRepair \/ InvokeRepair \/ EnterRebuild \/ SelectFinalJava
    PROVE  Parts'
<1> USE DEF StateAtPosition, ExceptionAtHandler, VerdictRecorded, CandidateAtPosition,
            OutcomeAtPosition, EarlyPositions, LoopPositions, VerifiedJava, Sealed, Parts,
            IInv, None
<1>1. CASE ExecuteSourceReference
  BY <1>1, LegalAdvance, Moves
     DEF ExecuteSourceReference, StepFault, Fault, Raise, Goto, contract, Advance, Snapshot
<1>2. CASE LoadExpectedOutput
  BY <1>2 DEF LoadExpectedOutput, Fault, Raise, Goto, contract, locals
<1>3. CASE Build \/ Rebuild
  <2>1. CASE UNCHANGED built /\ (StepFault("compile-test-java") \/ Fault)
    BY <1>3, <2>1 DEF Build, Rebuild, RunBuild, StepFault, Fault, Raise, Goto, contract
  <2>2. CASE \E o \in BuildOutcomes :
             /\ built' = [cand |-> project, ok |-> o.ok, code |-> o.code]
             /\ Goto(IF o.ok THEN "select" ELSE IF request.parity THEN "parity_block" ELSE "repair")
             /\ UNCHANGED contract
    <3>1. PICK o \in BuildOutcomes :
             /\ built' = [cand |-> project, ok |-> o.ok, code |-> o.code]
             /\ Goto(IF o.ok THEN "select" ELSE IF request.parity THEN "parity_block" ELSE "repair")
             /\ UNCHANGED contract
      BY <2>2
    <3>2. CASE o = [ok |-> TRUE, code |-> None]
      BY <1>3, <3>1, <3>2 DEF Build, Rebuild, RunBuild, Goto, contract
    <3>3. CASE o \in [ok : {FALSE}, code : BuildFailureCodes]
      BY <1>3, <3>1, <3>3 DEF Build, Rebuild, RunBuild, Goto, contract, BuildFailureCodes
    <3> QED BY <3>1, <3>2, <3>3 DEF BuildOutcomes
  <2> QED BY <1>3, <2>1, <2>2 DEF Build, Rebuild, RunBuild
<1>4. CASE BlockParity
  BY <1>4, LegalBlock DEF BlockParity, Snapshot
<1>5. CASE EnterRepair
  BY <1>5, LegalBlock, LegalAdvance, Moves DEF EnterRepair, Advance, Snapshot
<1>6. CASE PayRepair
  BY <1>6, LegalBlock DEF PayRepair, Goto, contract, Snapshot
<1>7. CASE InvokeRepair
  <2>1. CASE Raise([kind |-> "capability_missing", step |-> "model-guidance"])
             /\ UNCHANGED <<project, javaRef, blockCode, contract>>
    BY <1>7, <2>1 DEF InvokeRepair, Raise, contract
  <2>2. CASE UNCHANGED <<project, javaRef>> /\ \E c : c # None /\ Block(c)
    BY <1>7, <2>2, LegalBlock DEF InvokeRepair, Snapshot
  <2>3. CASE UNCHANGED <<project, javaRef, blockCode>> /\ Fault
    BY <1>7, <2>3 DEF InvokeRepair, Fault, Raise, contract
  <2>4. CASE ReplaceCandidate /\ UNCHANGED blockCode
             /\ Advance("java_candidate_persisted", "enter_rebuild")
    <3>1. project' # 0 /\ javaRef' = project'
      BY <2>4 DEF ReplaceCandidate, TypeOK
    <3> QED BY <1>7, <2>4, <3>1, LegalAdvance, Moves DEF InvokeRepair, Advance, Snapshot
  <2> QED BY <1>7, <2>1, <2>2, <2>3, <2>4
          DEF InvokeRepair, RepairExceptionCodes, RepairRefusalCodes
<1>8. CASE EnterRebuild
  BY <1>8, LegalAdvance, Moves DEF EnterRebuild, Advance, Snapshot, locals
<1>9. CASE SelectFinalJava
  BY <1>9, LegalAdvance, Moves DEF SelectFinalJava, Advance, Snapshot, locals
<1> QED BY <1>1, <1>2, <1>3, <1>4, <1>5, <1>6, <1>7, <1>8, <1>9

\* Evidence, the verdict and its publication.
LEMMA EndStep ==
    ASSUME IInv,
           \/ ModelGuidance \/ FetchLedger \/ WriteEvidence \/ RecordEvidence \/ FinalizeRun
           \/ FinalizeGenerateOnly \/ Publish \/ Notify
    PROVE  Parts'
<1> USE DEF StateAtPosition, ExceptionAtHandler, VerdictRecorded, CandidateAtPosition,
            OutcomeAtPosition, EarlyPositions, LoopPositions, VerifiedJava, Sealed, Parts,
            IInv, None
<1>1. CASE ModelGuidance
  BY <1>1 DEF ModelGuidance, StepFault, Fault, Raise, Goto, contract, locals
<1>2. CASE FetchLedger
  BY <1>2 DEF FetchLedger, Fault, Raise, Goto, contract, locals
<1>3. CASE WriteEvidence
  BY <1>3 DEF WriteEvidence, StepFault, Fault, Raise, Goto, contract
<1>4. CASE RecordEvidence
  BY <1>4, LegalAdvance, Moves DEF RecordEvidence, BlockAfterIncompleteEvidence, Advance, Snapshot
<1>5. CASE FinalizeRun
  BY <1>5, LegalFinalize, Moves DEF FinalizeRun, FinalClassification, Snapshot, locals
<1>6. CASE FinalizeGenerateOnly
  BY <1>6, LegalFinalize, Moves DEF FinalizeGenerateOnly, Snapshot, locals
<1>7. CASE Publish
  BY <1>7 DEF Publish, Fault, Raise, Goto, contract, locals
<1>8. CASE Notify
  BY <1>8 DEF Notify, Fault, Raise, Goto, contract, locals
<1> QED BY <1>1, <1>2, <1>3, <1>4, <1>5, <1>6, <1>7, <1>8

\* run()'s exception handler, and a crash.
LEMMA HandlerStep ==
    ASSUME IInv, ClassifyFailure \/ FinalizeFailure \/ PublishFailure \/ SummariseFailure \/ Crash
    PROVE  Parts'
<1> USE DEF StateAtPosition, ExceptionAtHandler, VerdictRecorded, CandidateAtPosition,
            OutcomeAtPosition, EarlyPositions, LoopPositions, VerifiedJava, Sealed, Parts,
            IInv, None
<1>1. CASE ClassifyFailure
  <2>1. failure'.code # None
    <3>1. FailureCodeFromException(exc, state) \in FailureCodes
      BY ExceptionCode DEF TypeOK, Raised
    <3>2. failure'.code = FailureCodeFromException(exc, state)
      BY <1>1 DEF ClassifyFailure, TypeOK
    <3> QED BY <3>1, <3>2 DEF FailureCodes
  <2>2. CASE AlreadyFinal
    BY <1>1, <2>2 DEF ClassifyFailure, AlreadyFinal, Goto, locals
  <2>3. CASE ~AlreadyFinal /\ UNCHANGED <<state, saved, writeFailed>>
             /\ state \in {"run_blocked", "evidence_incomplete", "evidence_materialized"}
             /\ Goto("handler_finalize")
    BY <1>1, <2>1, <2>3 DEF ClassifyFailure, AlreadyFinal, Goto, locals
  <2>4. CASE ~AlreadyFinal /\ state' = HandlerTarget
             /\ Persist(Snapshot(HandlerTarget, cls, code), "handler_finalize", exc, "handler_publish")
    BY <1>1, <2>1, <2>4 DEF ClassifyFailure, AlreadyFinal, HandlerTarget, Persist, Snapshot, locals
  <2>5. ~AlreadyFinal /\ HandlerTarget \notin AllowedTransitions[state]
          => state \in {"run_blocked", "evidence_incomplete", "evidence_materialized"}
    <3>1. FailedStep(exc) = "write-evidence" => state \in {"final_java_selected", "run_blocked"}
      BY <1>1 DEF ClassifyFailure, FailedStep
    <3> QED BY <3>1, Moves, HandlerMoves DEF HandlerTarget, AlreadyFinal, TypeOK
  <2> QED BY <1>1, <2>2, <2>3, <2>4, <2>5 DEF ClassifyFailure
<1>2. CASE FinalizeFailure
  BY <1>2, LegalFinalize, Moves DEF FinalizeFailure, FinalClassificationForFailureCode, Snapshot, locals
<1>3. CASE PublishFailure
  BY <1>3 DEF PublishFailure, Goto, contract, locals
<1>4. CASE SummariseFailure
  BY <1>4 DEF SummariseFailure, Goto, contract, locals
<1>5. CASE Crash
  BY <1>5 DEF Crash, Goto, contract, locals
<1> QED BY <1>1, <1>2, <1>3, <1>4, <1>5

\* Every step of the thread keeps the inductive invariant.
LEMMA InvStep == IInv /\ [Next]_vars => IInv'
<1> SUFFICES ASSUME IInv, [Next]_vars PROVE TypeOK' /\ Parts'
  BY DEF IInv
<1>1. TypeOK'
  BY TypeStep DEF IInv
<1>2. CASE RunThread \/ Crash
  BY <1>1, <1>2, IntakeStep, AgentStep, LoopStep, EndStep, HandlerStep DEF RunThread
<1>3. CASE UNCHANGED vars
  BY <1>1, <1>3
     DEF vars, contract, locals, IInv, Parts, StateAtPosition, ExceptionAtHandler,
         VerdictRecorded, CandidateAtPosition, OutcomeAtPosition, VerifiedJava, Sealed
<1> QED BY <1>1, <1>2, <1>3 DEF Next, Stopped

\* A new run satisfies the inductive invariant.
LEMMA InvInit == Init => IInv
<1> SUFFICES ASSUME Init PROVE TypeOK /\ Parts
  BY DEF IInv
<1>1. TypeOK
  BY InitType
<1>2. Parts
  BY DEF Init, Parts, StateAtPosition, ExceptionAtHandler, VerdictRecorded, CandidateAtPosition,
         OutcomeAtPosition, VerifiedJava, Sealed, EarlyPositions, LoopPositions, NoException,
         NoContract, NoBuild, None
<1> QED BY <1>1, <1>2

\* At every step of a run the thread's position in run() determines the state
\* of its contract, the candidate that the contract refers to and what is
\* verified of it: the inductive invariant the next theorems rest on.
THEOREM Invariance == Spec => []IInv
BY InvInit, InvStep, PTL DEF Spec

-----------------------------------------------------------------------------
(* The theorems                                                            *)

\* "the runner only ever calls _advance_w02 with valid transitions": no move
\* of the runner is refused, and every finalisation seals the contract.
THEOREM MovesAreLegal == Spec => []AdvanceAlwaysLegal
<1>1. IInv => AdvanceAlwaysLegal
  BY Moves DEF IInv, Parts, StateAtPosition, ExceptionAtHandler, AdvanceAlwaysLegal
<1> QED BY <1>1, Invariance, PTL

\* A contract classified success, in memory or on disk, refers to the Java the
\* last build-test verified, with complete evidence and nothing blocking.
THEOREM SuccessMeansVerified == Spec => []SuccessIsVerified
<1>1. IInv => SuccessIsVerified
  BY DEF IInv, Parts, CandidateAtPosition, VerifiedJava, SuccessIsVerified
<1> QED BY <1>1, Invariance, PTL

\* A verdict has a reason exactly when it is not a success, and only a sealed
\* contract has a verdict.
THEOREM VerdictsAreReasoned == Spec => []VerdictHasReason
<1>1. IInv => VerdictHasReason
  BY DEF IInv, Parts, VerdictRecorded, VerdictHasReason
<1> QED BY <1>1, Invariance, PTL

\* The positions of a thread whose contract is sealed.
LEMMA SealedPositions ==
    IInv /\ Sealed => pc \in {"publish", "notify", "handler", "handler_publish", "handler_summary"}
                              \cup Ended
BY DEF IInv, Parts, StateAtPosition, Sealed, TypeOK, MainPositions, HandlerPositions, Ended

\* From a sealed contract no step moves, reclassifies or rewrites it.
LEMMA SealedStays ==
    ASSUME IInv, Sealed, [Next]_vars
    PROVE  UNCHANGED <<state, cls, code, javaRef, saved, built, evidence>>
<1>1. pc \in {"publish", "notify", "handler", "handler_publish", "handler_summary"} \cup Ended
  BY SealedPositions
<1>2. CASE UNCHANGED vars
  BY <1>2 DEF vars, contract, locals
<1>3. CASE Publish \/ Notify \/ PublishFailure \/ SummariseFailure \/ Crash
  BY <1>3 DEF Publish, Notify, PublishFailure, SummariseFailure, Crash, Fault, contract, locals
<1>4. CASE ClassifyFailure
  BY <1>4 DEF ClassifyFailure, AlreadyFinal, Sealed, locals
<1>5. ~(\/ InitContract \/ PersistSource \/ Announce \/ RequireCapabilities
        \/ ParseCobol \/ GenerateIr \/ StartBaseline \/ GenerateJava
        \/ DecideAssist \/ EnterAgent \/ PayAgent \/ InvokeAgent
        \/ PersistCandidate \/ StopAfterGeneration \/ Route)
  BY <1>1 DEF Ended, InitContract, PersistSource, Announce, RequireCapabilities,
        ParseCobol, GenerateIr, StartBaseline, GenerateJava, DecideAssist, EnterAgent, PayAgent,
        InvokeAgent, PersistCandidate, StopAfterGeneration, Route
<1>6. ~(\/ ExecuteSourceReference \/ LoadExpectedOutput \/ Build \/ BlockParity
        \/ EnterRepair \/ PayRepair \/ InvokeRepair \/ EnterRebuild \/ Rebuild
        \/ SelectFinalJava \/ ModelGuidance \/ FetchLedger \/ WriteEvidence
        \/ RecordEvidence \/ FinalizeRun \/ FinalizeGenerateOnly \/ FinalizeFailure)
  BY <1>1 DEF Ended, ExecuteSourceReference, LoadExpectedOutput, Build, BlockParity, EnterRepair,
        PayRepair, InvokeRepair, EnterRebuild, Rebuild, SelectFinalJava, ModelGuidance,
        FetchLedger, WriteEvidence, RecordEvidence, FinalizeRun, FinalizeGenerateOnly,
        FinalizeFailure
<1> QED BY <1>2, <1>3, <1>4, <1>5, <1>6 DEF Next, RunThread, Stopped

\* No step of the thread, the exception handler after a late failure included,
\* changes a sealed verdict, in memory or on disk.
THEOREM VerdictsAreFrozen == Spec => VerdictFrozen
<1>1. IInv /\ [Next]_vars =>
        [ /\ Sealed => UNCHANGED <<state, cls, code, javaRef>>
          /\ saved.cls # None => saved' = saved ]_vars
  <2> SUFFICES ASSUME IInv, [Next]_vars
               PROVE  /\ Sealed => UNCHANGED <<state, cls, code, javaRef>>
                      /\ saved.cls # None => saved' = saved
    OBVIOUS
  <2>1. saved.cls # None => Sealed
    BY DEF IInv, Parts, VerdictRecorded
  <2> QED BY <2>1, SealedStays
<1> QED BY <1>1, Invariance, PTL DEF Spec, VerdictFrozen

-----------------------------------------------------------------------------
(* The runner implements RunOutcome.                                        *)

\* A step that keeps the Java reference, the build outcome and the evidence,
\* and leaves an open contract open, is invisible in RunOutcome.
LEMMA QuietStep ==
    ASSUME UNCHANGED <<javaRef, built, evidence>>,
           (~Sealed /\ ~Sealed') \/ UNCHANGED <<state, cls, code>>
    PROVE  UNCHANGED Outcome!vars
BY DEF Outcome!vars, Sealed

\* The steps RunOutcome does not see.
LEMMA QuietSteps ==
    ASSUME IInv, ~Sealed,
           \/ InitContract \/ PersistSource \/ Announce \/ RequireCapabilities \/ ParseCobol
           \/ GenerateIr \/ StartBaseline \/ GenerateJava \/ DecideAssist \/ EnterAgent
           \/ PayAgent \/ InvokeAgent \/ StopAfterGeneration \/ Route
           \/ ExecuteSourceReference \/ LoadExpectedOutput \/ BlockParity \/ EnterRepair
           \/ PayRepair \/ EnterRebuild \/ SelectFinalJava \/ ModelGuidance \/ FetchLedger
           \/ RecordEvidence \/ Publish \/ Notify \/ ClassifyFailure \/ PublishFailure
           \/ SummariseFailure \/ Crash
    PROVE  UNCHANGED Outcome!vars
<1> USE DEF contract, locals, Fault, StepFault, Advance, AdvanceThen, Block
<1>1. UNCHANGED <<javaRef, built, evidence>>
  <2>1. CASE \/ InitContract \/ PersistSource \/ Announce \/ RequireCapabilities \/ ParseCobol
             \/ GenerateIr \/ StartBaseline \/ GenerateJava \/ DecideAssist \/ EnterAgent
             \/ PayAgent \/ InvokeAgent \/ StopAfterGeneration \/ Route
    BY <2>1 DEF InitContract, PersistSource, Announce, RequireCapabilities, ParseCobol, GenerateIr,
             StartBaseline, GenerateJava, DecideAssist, EnterAgent, PayAgent, InvokeAgent,
             StopAfterGeneration, Route
  <2>2. CASE \/ ExecuteSourceReference \/ LoadExpectedOutput \/ BlockParity \/ EnterRepair
             \/ PayRepair \/ EnterRebuild \/ SelectFinalJava \/ ModelGuidance \/ FetchLedger
             \/ RecordEvidence \/ Publish \/ Notify \/ ClassifyFailure \/ PublishFailure
             \/ SummariseFailure \/ Crash
    BY <2>2 DEF ExecuteSourceReference, LoadExpectedOutput, BlockParity, EnterRepair,
             PayRepair, EnterRebuild, SelectFinalJava, ModelGuidance, FetchLedger, RecordEvidence,
             Publish, Notify, ClassifyFailure, PublishFailure, SummariseFailure, Crash
  <2> QED BY <2>1, <2>2
<1>2. ~Sealed'
  <2> USE DEF Sealed
  <2>1. CASE \/ InitContract \/ PersistSource \/ Announce \/ RequireCapabilities \/ ParseCobol
             \/ GenerateIr \/ StartBaseline \/ GenerateJava \/ DecideAssist \/ EnterAgent
             \/ PayAgent \/ InvokeAgent \/ StopAfterGeneration \/ Route
    BY <2>1 DEF InitContract, PersistSource, Announce, RequireCapabilities, ParseCobol, GenerateIr,
             StartBaseline, GenerateJava, DecideAssist, EnterAgent, PayAgent, InvokeAgent,
             StopAfterGeneration, Route
  <2>2. CASE \/ ExecuteSourceReference \/ LoadExpectedOutput \/ BlockParity \/ EnterRepair
             \/ PayRepair \/ EnterRebuild \/ SelectFinalJava \/ ModelGuidance \/ FetchLedger
             \/ RecordEvidence \/ Publish \/ Notify \/ ClassifyFailure \/ PublishFailure
             \/ SummariseFailure \/ Crash
    BY <2>2 DEF ExecuteSourceReference, LoadExpectedOutput, BlockParity, EnterRepair,
             PayRepair, EnterRebuild, SelectFinalJava, ModelGuidance, FetchLedger, RecordEvidence,
             Publish, Notify, ClassifyFailure, HandlerTarget, PublishFailure, SummariseFailure, Crash
  <2> QED BY <2>1, <2>2
<1> QED BY <1>1, <1>2, QuietStep

\* The steps RunOutcome sees: a candidate is chosen or verified, the evidence
\* is collected, the verdict is given.
LEMMA VisibleSteps ==
    ASSUME IInv, ~Sealed,
           \/ PersistCandidate \/ InvokeRepair \/ Build \/ Rebuild \/ WriteEvidence
           \/ FinalizeRun \/ FinalizeGenerateOnly \/ FinalizeFailure
    PROVE  [Outcome!Next]_(Outcome!vars)
<1> USE DEF IInv, Parts
<1>1. CASE PersistCandidate
  <2>1. javaRef' \in Nat /\ javaRef' > javaRef /\ built.ok = FALSE
    BY <1>1 DEF PersistCandidate, CandidateAtPosition, OutcomeAtPosition, EarlyPositions, TypeOK
  <2>2. UNCHANGED <<built, evidence>> /\ ~Sealed'
    BY <1>1 DEF PersistCandidate, Advance, AdvanceThen, Sealed, locals
  <2>3. Outcome!Choose
    BY <2>1, <2>2 DEF Outcome!Choose
  <2> QED BY <2>3 DEF Outcome!Next
<1>2. CASE InvokeRepair
  <2>1. UNCHANGED <<built, evidence>>
    BY <1>2 DEF InvokeRepair
  <2>2. ~Sealed'
    BY <1>2 DEF InvokeRepair, Advance, AdvanceThen, Block, Fault, contract, Sealed
  <2>3. CASE UNCHANGED javaRef
    BY <2>1, <2>2, <2>3, QuietStep
  <2>4. CASE ReplaceCandidate
    <3>1. javaRef' \in Nat /\ javaRef' > javaRef /\ built.ok = FALSE
      BY <1>2, <2>4 DEF InvokeRepair, ReplaceCandidate, CandidateAtPosition, OutcomeAtPosition,
                        LoopPositions, EarlyPositions, TypeOK
    <3>2. Outcome!Choose
      BY <2>1, <2>2, <3>1 DEF Outcome!Choose
    <3> QED BY <3>2 DEF Outcome!Next
  <2> QED BY <1>2, <2>3, <2>4 DEF InvokeRepair
<1>3. CASE Build \/ Rebuild
  <2>1. UNCHANGED <<javaRef, evidence>> /\ ~Sealed'
    BY <1>3 DEF Build, Rebuild, RunBuild, StepFault, Fault, contract, Sealed
  <2>2. javaRef = project /\ project # 0 /\ built.ok = FALSE
    BY <1>3 DEF Build, Rebuild, CandidateAtPosition, OutcomeAtPosition, LoopPositions,
                EarlyPositions
  <2>3. CASE UNCHANGED built
    BY <2>1, <2>3, QuietStep
  <2>4. CASE built' = [cand |-> project, ok |-> TRUE, code |-> None]
    <3>1. Outcome!Verify
      BY <2>1, <2>2, <2>4 DEF Outcome!Verify
    <3> QED BY <3>1 DEF Outcome!Next
  <2>5. CASE \E c : built' = [cand |-> project, ok |-> FALSE, code |-> c]
    <3>1. UNCHANGED Outcome!vars
      BY <2>1, <2>2, <2>5 DEF Outcome!vars
    <3> QED BY <3>1
  <2>6. ASSUME NEW o \in BuildOutcomes
        PROVE  \/ o.ok = TRUE /\ o.code = None
               \/ o.ok = FALSE
    <3>1. CASE o = [ok |-> TRUE, code |-> None]
      BY <3>1
    <3>2. CASE o \in [ok : {FALSE}, code : BuildFailureCodes]
      BY <3>2
    <3> QED BY <3>1, <3>2 DEF BuildOutcomes
  <2> QED BY <1>3, <2>3, <2>4, <2>5, <2>6 DEF Build, Rebuild, RunBuild
<1>4. CASE WriteEvidence
  <2>1. UNCHANGED <<javaRef, built>> /\ ~Sealed'
    BY <1>4 DEF WriteEvidence, StepFault, Fault, contract, Sealed
  <2>2. evidence = None
    BY <1>4 DEF WriteEvidence, OutcomeAtPosition
  <2>3. CASE evidence' = "materialized"
    <3>1. Outcome!Collect
      BY <2>1, <2>3 DEF Outcome!Collect
    <3> QED BY <3>1 DEF Outcome!Next
  <2>4. CASE evidence' # "materialized"
    <3>1. UNCHANGED Outcome!vars
      BY <2>1, <2>2, <2>4 DEF Outcome!vars, None
    <3> QED BY <3>1
  <2> QED BY <2>3, <2>4
<1>5. CASE FinalizeRun
  <2>1. Sealed' /\ cls' = FinalClassification(blockCode) /\ code' = blockCode
        /\ UNCHANGED <<javaRef, built, evidence>>
    BY <1>5, LegalFinalize, Moves DEF FinalizeRun, StateAtPosition, Sealed, locals
  <2>2. CASE blockCode = None
    <3>1. VerifiedJava /\ evidence = "materialized"
      BY <1>5, <2>2 DEF FinalizeRun, CandidateAtPosition
    <3>2. cls' = "success" /\ code' = None
      BY <2>1, <2>2 DEF FinalClassification
    <3>3. Outcome!SealSuccess
      BY <2>1, <3>1, <3>2 DEF Outcome!SealSuccess, VerifiedJava
    <3> QED BY <3>3 DEF Outcome!Next
  <2>3. CASE blockCode # None
    <3>1. cls' \in FinalClassifications \ {"success"} /\ code' \in FailureCodes
      BY <2>1, <2>3 DEF FinalClassification, FinalClassifications, TypeOK
    <3>2. Outcome!SealFailure
      BY <2>1, <3>1 DEF Outcome!SealFailure
    <3> QED BY <3>2 DEF Outcome!Next
  <2> QED BY <2>2, <2>3
<1>6. CASE FinalizeGenerateOnly
  <2>1. Sealed' /\ cls' = "incomplete" /\ code' = "generate_only_complete"
        /\ UNCHANGED <<javaRef, built, evidence>>
    BY <1>6, LegalFinalize, Moves DEF FinalizeGenerateOnly, StateAtPosition, Sealed, locals
  <2>2. Outcome!SealFailure
    BY <2>1 DEF Outcome!SealFailure, FinalClassifications, FailureCodes
  <2> QED BY <2>2 DEF Outcome!Next
<1>7. CASE FinalizeFailure
  <2>1. Sealed' /\ cls' = FinalClassificationForFailureCode(failure.code) /\ code' = failure.code
        /\ UNCHANGED <<javaRef, built, evidence>>
    BY <1>7, LegalFinalize, Moves DEF FinalizeFailure, StateAtPosition, Sealed, locals
  <2>2. cls' \in FinalClassifications \ {"success"} /\ code' \in FailureCodes
    BY <1>7, <2>1 DEF FinalizeFailure, FinalClassificationForFailureCode, FinalClassifications,
                      VerdictRecorded, TypeOK
  <2>3. Outcome!SealFailure
    BY <2>1, <2>2 DEF Outcome!SealFailure
  <2> QED BY <2>3 DEF Outcome!Next
<1> QED BY <1>1, <1>2, <1>3, <1>4, <1>5, <1>6, <1>7

\* The runner implements RunOutcome: seen through the run contract, candidates
\* are only replaced while nothing is verified, and the run is sealed once, as
\* a success only for the verified candidate with complete evidence.
THEOREM RunnerImplementsOutcome == Spec => RefinesOutcome
<1>1. Init => Outcome!Init
  BY DEF Init, Outcome!Init, NoBuild, Sealed, None
<1>2. IInv /\ [Next]_vars => [Outcome!Next]_(Outcome!vars)
  <2> SUFFICES ASSUME IInv, [Next]_vars PROVE [Outcome!Next]_(Outcome!vars)
    OBVIOUS
  <2>1. CASE Sealed
    BY <2>1, SealedStays, QuietStep
  <2>2. CASE ~Sealed /\ UNCHANGED vars
    BY <2>2, QuietStep DEF vars, contract, locals, Sealed
  <2>3. CASE ~Sealed /\ (RunThread \/ Crash)
    BY <2>3, QuietSteps, VisibleSteps DEF RunThread
  <2> QED BY <2>1, <2>2, <2>3 DEF Next, Stopped
<1> QED BY <1>1, <1>2, Invariance, PTL DEF Spec, RefinesOutcome, Outcome!Spec

-----------------------------------------------------------------------------
(* What a run reports, and what of it is on disk.                           *)

OnDisk == saved = [state |-> state, cls |-> cls, code |-> code, javaRef |-> javaRef]
Complete(c, f) == c = "success" \/ f = "generate_only_complete"
SaysCompleted == "completed" \in {harness, summary, marker}

\* Unless a write failed, the file holds the contract of every thread that has
\* started; the outcome is published from the file only, and the thread ends
\* with a sealed contract.
DurableAtPosition ==
    /\ ~writeFailed => pc \in {"init", "crashed"} \/ OnDisk
    /\ pc \in {"publish", "notify"} => OnDisk /\ (blockCode = None => Complete(cls, code))
    /\ pc \in {"handler_publish", "handler_summary", "done"} /\ ~writeFailed => Sealed
    /\ code # None => Sealed
    /\ SaysCompleted =>
          saved.cls # None /\ saved.state = "final_classification" /\ Complete(saved.cls, saved.code)

\* The gate let the transformation agent take the place of the baseline.
AgentDecides == AssistAuthorised(assist) /\ ~request.parity

\* From the first candidate on, a run that the agent decides is blocked or has
\* a candidate that is not the baseline.
AgentAtPosition ==
    /\ AgentDecides =>
          /\ pc = "persist_candidate" => blockCode # None \/ project > 1
          /\ pc \in LoopPositions \cup {"finalize_only", "guidance", "ledger", "evidence",
                                        "record_evidence", "finalize"} =>
                blockCode # None \/ javaRef > 1
          /\ Complete(cls, code) => javaRef > 1
    /\ pc \in {"generate_only", "finalize_only"} => blockCode = None
    /\ blockCode # "generate_only_complete" /\ failure.code # "generate_only_complete"

ReportInv == IInv /\ DurableAtPosition /\ AgentAtPosition

\* A move of the contract is on disk when the thread goes on with it.
LEMMA MoveOnDisk ==
    ASSUME NEW target, NEW next, NEW e, target \in AllowedTransitions[state],
           AdvanceThen(target, next, e)
    PROVE  /\ state' = target /\ UNCHANGED <<cls, code>>
           /\ \/ OnDisk' /\ pc' = next
              \/ writeFailed' /\ pc' = "handler"
BY DEF AdvanceThen, Persist, Snapshot, OnDisk

\* So is a sealed contract.
LEMMA SealOnDisk ==
    ASSUME NEW c, NEW f, NEW next, NEW onFault,
           "final_classification" \in AllowedTransitions[state],
           Finalize(c, f, next, onFault)
    PROVE  /\ Sealed' /\ cls' = c /\ code' = f /\ UNCHANGED javaRef
           /\ \/ OnDisk' /\ pc' = next
              \/ writeFailed' /\ pc' = onFault
BY DEF Finalize, Persist, Snapshot, OnDisk, Sealed

LEMMA BlockOnDisk ==
    ASSUME state \in {"build_test_running", "verification_repair_invoked",
                      "java_candidate_persisted"}, NEW c, Block(c)
    PROVE  /\ UNCHANGED <<cls, code>> /\ blockCode' = c
           /\ \/ OnDisk' /\ pc' = "guidance"
              \/ writeFailed' /\ pc' = "handler"
BY MoveOnDisk, Moves DEF Block, Advance

\* A run that is open has reported no completion, and still has not after a
\* step that leaves the contract alone or on disk.
LEMMA OpenStep ==
    ASSUME ReportInv, ~Sealed, UNCHANGED code,
           UNCHANGED reports \/ (harness' \in {harness, "updating"} /\ UNCHANGED <<summary, marker>>),
           \/ UNCHANGED contract /\ pc \notin {"init", "crashed"}
           \/ OnDisk'
           \/ writeFailed',
           pc' \notin {"init", "publish", "notify", "handler_publish", "handler_summary", "done"}
    PROVE  DurableAtPosition'
<1> USE DEF ReportInv, IInv, Parts, VerdictRecorded, DurableAtPosition
<1>1. saved.cls = None /\ ~SaysCompleted /\ code = None
  OBVIOUS
<1>2. ~SaysCompleted'
  BY <1>1 DEF SaysCompleted, reports
<1>3. code' = None
  BY <1>1
<1>4. ~writeFailed' => pc' = "crashed" \/ OnDisk'
  BY DEF contract, OnDisk
<1> QED BY <1>2, <1>3, <1>4 DEF None

\* The steps up to the first candidate.
LEMMA EarlyDurable ==
    ASSUME ReportInv,
           \/ InitContract \/ PersistSource \/ Announce \/ RequireCapabilities \/ ParseCobol
           \/ GenerateIr \/ StartBaseline \/ GenerateJava \/ DecideAssist \/ EnterAgent
           \/ PayAgent \/ InvokeAgent \/ PersistCandidate \/ StopAfterGeneration \/ Route
    PROVE  DurableAtPosition'
<1>1. StateAtPosition /\ (Sealed <=> state = "final_classification")
  BY DEF ReportInv, IInv, Parts, Sealed
<1> USE DEF StateAtPosition, Fault, StepFault, Raise, Goto, Advance
<1>2. CASE InitContract
  BY <1>1, <1>2, OpenStep DEF InitContract, Persist, Snapshot, OnDisk
<1>3. CASE PersistSource \/ StartBaseline \/ EnterAgent
  <2>1. UNCHANGED reports /\ ~Sealed /\ pc \notin {"init", "crashed"}
    BY <1>1, <1>3 DEF PersistSource, StartBaseline, EnterAgent
  <2>2. /\ UNCHANGED code
        /\ UNCHANGED contract \/ OnDisk' \/ writeFailed'
        /\ pc' \in {"announce", "generate", "pay_agent", "handler"}
    BY <1>1, <1>3, MoveOnDisk, Moves DEF PersistSource, StartBaseline, EnterAgent, contract
  <2> QED BY <2>1, <2>2, OpenStep
<1>4. CASE Announce
  <2>1. harness' \in {harness, "updating"} /\ UNCHANGED <<summary, marker, contract>>
        /\ pc' \in {"capabilities", "handler"} /\ pc = "announce"
    BY <1>4 DEF Announce, Applied
  <2> QED BY <1>1, <2>1, OpenStep DEF contract
<1>5. CASE RequireCapabilities \/ GenerateJava \/ PayAgent \/ InvokeAgent
  <2>1. UNCHANGED <<reports, contract>> /\ ~Sealed /\ pc \notin {"init", "crashed"}
        /\ pc' \in {"parse", "assist", "agent", "persist_candidate", "handler"}
    BY <1>1, <1>5 DEF RequireCapabilities, GenerateJava, PayAgent, InvokeAgent, RaiseAgentError
  <2> QED BY <2>1, OpenStep DEF contract
<1>6. CASE ParseCobol \/ GenerateIr
  <2>1. UNCHANGED reports /\ ~Sealed /\ pc \notin {"init", "crashed"}
    BY <1>1, <1>6 DEF ParseCobol, GenerateIr
  <2>2. /\ UNCHANGED code
        /\ UNCHANGED contract \/ OnDisk' \/ writeFailed'
        /\ pc' \in {"ir", "baseline", "handler"}
    BY <1>1, <1>6, MoveOnDisk, Moves DEF ParseCobol, GenerateIr, contract
  <2> QED BY <2>1, <2>2, OpenStep
<1>7. CASE DecideAssist
  BY <1>1, <1>7, OpenStep DEF DecideAssist, Persist, Snapshot, OnDisk
<1>8. CASE PersistCandidate \/ StopAfterGeneration \/ Route
  <2>1. UNCHANGED reports /\ ~Sealed /\ pc \notin {"init", "crashed"}
    BY <1>1, <1>8 DEF PersistCandidate, StopAfterGeneration, Route
  <2>2. /\ UNCHANGED code
        /\ OnDisk' \/ writeFailed'
        /\ pc' \in {"generate_only", "route", "finalize_only", "guidance", "reference", "build",
                    "handler"}
    BY <1>1, <1>8, MoveOnDisk, Moves DEF PersistCandidate, StopAfterGeneration, Route
  <2> QED BY <2>1, <2>2, OpenStep
<1> QED BY <1>2, <1>3, <1>4, <1>5, <1>6, <1>7, <1>8

\* Build, test, the repair loop and the evidence.
LEMMA LoopDurable ==
    ASSUME ReportInv,
           \/ ExecuteSourceReference \/ LoadExpectedOutput \/ Build \/ Rebuild \/ BlockParity
           \/ EnterRepair \/ PayRepair \/ InvokeRepair \/ EnterRebuild \/ SelectFinalJava
           \/ ModelGuidance \/ FetchLedger \/ WriteEvidence \/ RecordEvidence
    PROVE  DurableAtPosition'
<1>1. StateAtPosition /\ (Sealed <=> state = "final_classification")
  BY DEF ReportInv, IInv, Parts, Sealed
<1> USE DEF StateAtPosition, Fault, StepFault, Raise, Goto
<1>2. CASE \/ LoadExpectedOutput \/ Build \/ Rebuild \/ ModelGuidance \/ FetchLedger
           \/ WriteEvidence
  <2>1. UNCHANGED <<reports, contract>> /\ ~Sealed /\ pc \notin {"init", "crashed"}
        /\ pc' \in {"build", "guidance", "select", "parity_block", "repair", "ledger", "evidence",
                    "record_evidence", "handler"}
    BY <1>1, <1>2 DEF LoadExpectedOutput, Build, Rebuild, RunBuild, ModelGuidance, FetchLedger,
                      WriteEvidence
  <2> QED BY <2>1, OpenStep DEF contract
<1>3. CASE BlockParity \/ EnterRepair \/ PayRepair
  <2>1. UNCHANGED reports /\ ~Sealed /\ pc \notin {"init", "crashed"}
    BY <1>1, <1>3 DEF BlockParity, EnterRepair, PayRepair
  <2>2. /\ UNCHANGED code
        /\ UNCHANGED contract \/ OnDisk' \/ writeFailed'
        /\ pc' \in {"guidance", "pay_repair", "repair_agent", "handler"}
    BY <1>1, <1>3, MoveOnDisk, BlockOnDisk, Moves
       DEF BlockParity, EnterRepair, PayRepair, Advance, contract
  <2> QED BY <2>1, <2>2, OpenStep
<1>4. CASE ExecuteSourceReference \/ EnterRebuild \/ SelectFinalJava \/ RecordEvidence
  <2>1. UNCHANGED reports /\ ~Sealed /\ pc \notin {"init", "crashed"}
    BY <1>1, <1>4 DEF ExecuteSourceReference, EnterRebuild, SelectFinalJava, RecordEvidence
  <2>2. /\ UNCHANGED code
        /\ UNCHANGED contract \/ OnDisk' \/ writeFailed'
        /\ pc' \in {"expected_output", "rebuild", "guidance", "finalize", "handler"}
    BY <1>1, <1>4, MoveOnDisk, Moves
       DEF ExecuteSourceReference, EnterRebuild, SelectFinalJava, RecordEvidence, Advance, contract
  <2> QED BY <2>1, <2>2, OpenStep
<1>5. CASE InvokeRepair
  <2>1. UNCHANGED reports /\ ~Sealed /\ pc \notin {"init", "crashed"}
    BY <1>1, <1>5 DEF InvokeRepair
  <2>2. /\ UNCHANGED code
        /\ UNCHANGED contract \/ OnDisk' \/ writeFailed'
        /\ pc' \in {"guidance", "enter_rebuild", "handler"}
    BY <1>1, <1>5, MoveOnDisk, BlockOnDisk, Moves DEF InvokeRepair, Advance, contract
  <2> QED BY <2>1, <2>2, OpenStep
<1> QED BY <1>2, <1>3, <1>4, <1>5

\* The two finalisations of the normal ending, and the publication.
LEMMA EndDurable ==
    ASSUME ReportInv, FinalizeRun \/ FinalizeGenerateOnly \/ Publish \/ Notify
    PROVE  DurableAtPosition'
<1> USE DEF DurableAtPosition, Fault, Raise, Goto
<1>1. /\ DurableAtPosition /\ StateAtPosition /\ VerdictRecorded
      /\ (Sealed <=> state = "final_classification")
  BY DEF ReportInv, IInv, Parts, Sealed
<1>2. ASSUME NEW c, NEW f, c # None, blockCode = None => Complete(c, f), ~Sealed,
             "final_classification" \in AllowedTransitions[state],
             Finalize(c, f, "publish", "handler"), UNCHANGED <<blockCode, reports>>
      PROVE  DurableAtPosition'
  <2>1. /\ Sealed' /\ cls' = c /\ code' = f
        /\ \/ OnDisk' /\ pc' = "publish"
           \/ writeFailed' /\ pc' = "handler"
    BY <1>2, SealOnDisk
  <2>2. ~SaysCompleted'
    BY <1>1, <1>2 DEF VerdictRecorded, SaysCompleted, reports
  <2> QED BY <1>2, <2>1, <2>2 DEF Complete
<1>3. CASE FinalizeRun
  <2>1. FinalClassification(blockCode) # None
        /\ (blockCode = None => Complete(FinalClassification(blockCode), blockCode))
    BY DEF FinalClassification, Complete, None
  <2>2. ~Sealed /\ "final_classification" \in AllowedTransitions[state]
    BY <1>1, <1>3, Moves DEF FinalizeRun, StateAtPosition
  <2> QED BY <1>2, <1>3, <2>1, <2>2 DEF FinalizeRun, locals
<1>4. CASE FinalizeGenerateOnly
  <2>1. ~Sealed /\ "final_classification" \in AllowedTransitions[state]
    BY <1>1, <1>4, Moves DEF FinalizeGenerateOnly, StateAtPosition
  <2> QED BY <1>2, <1>4, <2>1 DEF FinalizeGenerateOnly, Complete, None, locals
<1>5. CASE Publish \/ Notify
  <2>1. Sealed /\ OnDisk /\ UNCHANGED <<contract, blockCode>>
        /\ pc \in {"publish", "notify"} /\ pc' \in {"notify", "handler", "done"}
    BY <1>1, <1>5 DEF Publish, Notify, StateAtPosition, locals
  <2>2. OnDisk' /\ Sealed'
    BY <1>1, <2>1 DEF contract, OnDisk, Sealed
  <2>3. SaysCompleted' => SaysCompleted \/ blockCode = None
    BY <1>5 DEF Publish, Notify, Applied, SaysCompleted
  <2>4. saved' = saved /\ saved.cls = cls /\ saved.code = code
        /\ saved.state = "final_classification" /\ cls # None /\ UNCHANGED <<cls, code>>
    BY <1>1, <2>1 DEF contract, OnDisk, VerdictRecorded
  <2>5. blockCode = None => Complete(cls, code)
    BY <1>1, <2>1
  <2> QED BY <1>1, <2>1, <2>2, <2>3, <2>4, <2>5 DEF Complete
<1> QED BY <1>3, <1>4, <1>5

\* The exception handler, and a crash.
LEMMA HandlerDurable ==
    ASSUME ReportInv,
           ClassifyFailure \/ FinalizeFailure \/ PublishFailure \/ SummariseFailure \/ Crash
    PROVE  DurableAtPosition'
<1> USE DEF DurableAtPosition, Goto
<1>1. /\ DurableAtPosition /\ StateAtPosition /\ VerdictRecorded
      /\ (Sealed <=> state = "final_classification")
  BY DEF ReportInv, IInv, Parts, Sealed
<1>2. CASE ClassifyFailure
  <2>1. UNCHANGED <<cls, code, javaRef, reports>> /\ pc = "handler"
    BY <1>2 DEF ClassifyFailure
  <2>2. CASE UNCHANGED <<state, saved, writeFailed>>
             /\ ((pc' = "handler_publish" /\ Sealed) \/ pc' = "handler_finalize")
    BY <1>1, <2>1, <2>2 DEF OnDisk, SaysCompleted, reports, Sealed
  <2>3. CASE ~Sealed /\ Persist(Snapshot(state', cls, code), "handler_finalize", exc, "handler_publish")
    <3>1. \/ OnDisk' /\ pc' = "handler_finalize"
          \/ writeFailed' /\ pc' = "handler_publish"
      BY <2>1, <2>3 DEF Persist, Snapshot, OnDisk
    <3>2. ~SaysCompleted' /\ code' = None
      BY <1>1, <2>1, <2>3 DEF VerdictRecorded, SaysCompleted, reports
    <3> QED BY <3>1, <3>2
  <2> QED BY <1>1, <1>2, <2>2, <2>3 DEF ClassifyFailure, AlreadyFinal
<1>3. CASE FinalizeFailure
  <2>1. ~Sealed /\ "final_classification" \in AllowedTransitions[state]
    BY <1>1, <1>3, Moves DEF FinalizeFailure, StateAtPosition
  <2>2. Sealed' /\ pc' = "handler_publish" /\ (OnDisk' \/ writeFailed')
    BY <1>3, <2>1, SealOnDisk DEF FinalizeFailure
  <2>3. ~SaysCompleted'
    BY <1>1, <1>3, <2>1 DEF FinalizeFailure, VerdictRecorded, SaysCompleted, reports
  <2> QED BY <2>2, <2>3
<1>4. CASE PublishFailure \/ SummariseFailure
  <2>1. UNCHANGED contract /\ pc \in {"handler_publish", "handler_summary"}
        /\ pc' \in {"handler_summary", "done"}
    BY <1>4 DEF PublishFailure, SummariseFailure
  <2>2. SaysCompleted' => SaysCompleted
    BY <1>4 DEF PublishFailure, SummariseFailure, Applied, SaysCompleted, ReportInv, IInv, TypeOK
  <2> QED BY <1>1, <2>1, <2>2 DEF contract, OnDisk, Sealed
<1>5. CASE Crash
  BY <1>1, <1>5 DEF Crash, contract, reports, OnDisk, Sealed, SaysCompleted
<1> QED BY <1>2, <1>3, <1>4, <1>5

\* The steps of the agent and of the loop that choose or judge a candidate.
LEMMA AgentDecided ==
    ASSUME ReportInv,
           \/ GenerateJava \/ DecideAssist \/ InvokeAgent \/ PersistCandidate \/ InvokeRepair
           \/ Route \/ StopAfterGeneration
    PROVE  AgentAtPosition'
<1> USE DEF AgentAtPosition, LoopPositions, Fault, StepFault, Raise, Goto, Advance
<1>1. /\ TypeOK /\ AgentAtPosition /\ StateAtPosition /\ VerdictRecorded /\ CandidateAtPosition
      /\ code # None => Sealed
  BY DEF ReportInv, IInv, Parts, DurableAtPosition
<1>2. state # "final_classification" => ~Complete(cls, code)
  BY <1>1 DEF Complete, VerdictRecorded, Sealed, None
<1>3. CASE GenerateJava
  <2>1. UNCHANGED <<request, cls, code, blockCode, assist, failure>>
        /\ pc' \in {"assist", "handler"}
    BY <1>3 DEF GenerateJava, contract
  <2>2. ~Complete(cls, code)
    BY <1>1, <1>2, <1>3 DEF GenerateJava, StateAtPosition
  <2> QED BY <1>1, <2>1, <2>2
<1>4. CASE DecideAssist
  <2>1. PICK d \in AssistDecisions :
          /\ assist' = d.reason
          /\ UNCHANGED <<state, cls, code, javaRef>>
          /\ Persist(Snapshot(state, cls, code),
                     IF request.useAgent /\ AssistAuthorised(d.reason) /\ ~request.parity
                     THEN "enter_agent" ELSE "persist_candidate",
                     exc, "handler")
    BY <1>4 DEF DecideAssist
  <2>2. AssistAuthorised(d.reason) => request.useAgent
    BY DEF AssistDecisions, AssistAuthorised
  <2>3. pc' \in {"enter_agent", "persist_candidate", "handler"}
        /\ (AgentDecides' => pc' # "persist_candidate")
    BY <1>4, <2>1, <2>2 DEF DecideAssist, Persist, AgentDecides, AssistAuthorised
  <2>4. ~Complete(cls, code)
    BY <1>1, <1>2, <1>4 DEF DecideAssist, StateAtPosition
  <2> QED BY <1>1, <1>4, <2>1, <2>3, <2>4 DEF DecideAssist
<1>5. CASE InvokeAgent
  <2>1. UNCHANGED <<request, cls, code, javaRef, assist, failure>>
        /\ pc' \in {"persist_candidate", "handler"}
    BY <1>5 DEF InvokeAgent, RaiseAgentError, contract
  <2>2. pc' = "persist_candidate" => project' > 1 \/ blockCode' # None
    BY <1>1, <1>5
       DEF InvokeAgent, RaiseAgentError, AgentBlocksRun, AgentBlockCodes, CandidateAtPosition,
           TypeOK, None
  <2>3. blockCode' # "generate_only_complete"
    BY <1>1, <1>5 DEF InvokeAgent, AgentBlocksRun, AgentBlockCodes
  <2>4. ~Complete(cls, code)
    BY <1>1, <1>2, <1>5 DEF InvokeAgent, StateAtPosition
  <2>5. AgentDecides' <=> AgentDecides
    BY <2>1 DEF AgentDecides
  <2> QED BY <1>1, <2>1, <2>2, <2>3, <2>4, <2>5
<1>6. CASE PersistCandidate
  <2>1. UNCHANGED <<request, cls, code, project, blockCode, assist, failure>> /\ javaRef' = project
    BY <1>6 DEF PersistCandidate, AdvanceThen, locals
  <2>2. pc' \in {"generate_only", "route", "handler"}
        /\ (pc' = "generate_only" => blockCode = None)
    BY <1>1, <1>6, MoveOnDisk, Moves DEF PersistCandidate, StateAtPosition
  <2>3. ~Complete(cls, code)
    BY <1>1, <1>2, <1>6 DEF PersistCandidate, StateAtPosition
  <2>4. AgentDecides' <=> AgentDecides
    BY <2>1 DEF AgentDecides
  <2> QED BY <1>1, <1>6, <2>1, <2>2, <2>3, <2>4 DEF PersistCandidate
<1>7. CASE InvokeRepair
  <2>1. UNCHANGED <<request, cls, code, assist, failure>>
        /\ pc' \in {"guidance", "enter_rebuild", "handler"}
    BY <1>1, <1>7, MoveOnDisk, BlockOnDisk, Moves DEF InvokeRepair, StateAtPosition, contract
  <2>2. \/ UNCHANGED <<javaRef, blockCode>>
        \/ blockCode' \notin {None, "generate_only_complete"} /\ UNCHANGED javaRef
        \/ javaRef' > 1 /\ UNCHANGED blockCode
    BY <1>1, <1>7
       DEF InvokeRepair, Block, ReplaceCandidate, RepairExceptionCodes, RepairRefusalCodes,
           CandidateAtPosition, TypeOK, contract, None
  <2>3. ~Complete(cls, code)
    BY <1>1, <1>2, <1>7 DEF InvokeRepair, StateAtPosition
  <2>4. AgentDecides' <=> AgentDecides
    BY <2>1 DEF AgentDecides
  <2> QED BY <1>1, <1>7, <2>1, <2>2, <2>3, <2>4 DEF InvokeRepair
<1>8. CASE Route \/ StopAfterGeneration
  <2>1. UNCHANGED <<request, cls, code, javaRef, blockCode, assist, failure>>
    BY <1>8 DEF Route, StopAfterGeneration, AdvanceThen, locals
  <2>2. pc' \in {"finalize_only", "guidance", "reference", "build", "handler"}
        /\ (pc' = "finalize_only" => blockCode = None)
        /\ pc \in LoopPositions
    BY <1>1, <1>8, MoveOnDisk, Moves DEF Route, StopAfterGeneration, StateAtPosition
  <2>3. AgentDecides' <=> AgentDecides
    BY <2>1 DEF AgentDecides
  <2> QED BY <1>1, <2>1, <2>2, <2>3
<1> QED BY <1>3, <1>4, <1>5, <1>6, <1>7, <1>8

\* A step that keeps the decision, the Java and the failure code, and unblocks
\* nothing, keeps what is known of the candidate.
LEMMA SameCandidate ==
    ASSUME ReportInv,
           UNCHANGED <<request, assist, javaRef, failure, cls, code>>,
           blockCode' = blockCode \/ blockCode' \notin {None, "generate_only_complete"},
           pc' \notin {"persist_candidate", "generate_only", "finalize_only"},
           pc' \in LoopPositions \cup {"guidance", "ledger", "evidence", "record_evidence",
                                       "finalize"} =>
               pc \in LoopPositions \cup {"guidance", "ledger", "evidence", "record_evidence"}
    PROVE  AgentAtPosition'
BY DEF ReportInv, AgentAtPosition, AgentDecides

\* The other steps of the loop, and the evidence.
LEMMA LoopDecided ==
    ASSUME ReportInv,
           \/ ExecuteSourceReference \/ LoadExpectedOutput \/ Build \/ Rebuild \/ BlockParity
           \/ EnterRepair \/ PayRepair \/ EnterRebuild \/ SelectFinalJava
           \/ ModelGuidance \/ FetchLedger \/ WriteEvidence \/ RecordEvidence
    PROVE  AgentAtPosition'
<1> USE DEF Fault, StepFault, Raise, Goto, Advance, LoopPositions
<1>1. StateAtPosition /\ CandidateAtPosition /\ TypeOK
  BY DEF ReportInv, IInv, Parts
<1>2. CASE \/ LoadExpectedOutput \/ Build \/ Rebuild \/ ModelGuidance \/ FetchLedger
           \/ WriteEvidence
  <2>1. UNCHANGED <<request, contract, assist, failure, blockCode>>
        /\ pc' \in {"build", "guidance", "select", "parity_block", "repair", "ledger", "evidence",
                    "record_evidence", "handler"}
        /\ pc \in LoopPositions \cup {"guidance", "ledger", "evidence"}
    BY <1>1, <1>2 DEF LoadExpectedOutput, Build, Rebuild, RunBuild, ModelGuidance, FetchLedger,
                      WriteEvidence, locals
  <2> QED BY <2>1, SameCandidate DEF contract
<1>3. CASE BlockParity \/ EnterRepair \/ PayRepair
  <2>1. UNCHANGED <<request, javaRef, assist, failure>> /\ pc \in LoopPositions
    BY <1>3 DEF BlockParity, EnterRepair, PayRepair
  <2>2. built.code \notin {None, "generate_only_complete"}
    BY <1>1, <1>3 DEF BlockParity, EnterRepair, PayRepair, CandidateAtPosition, TypeOK,
                      BuildFailureCodes
  <2>3. /\ UNCHANGED <<cls, code>> /\ blockCode' \in {blockCode, built.code}
        /\ pc' \in {"guidance", "pay_repair", "repair_agent", "handler"}
    BY <1>1, <1>3, MoveOnDisk, BlockOnDisk, Moves
       DEF BlockParity, EnterRepair, PayRepair, contract, StateAtPosition
  <2> QED BY <2>1, <2>2, <2>3, SameCandidate
<1>4. CASE EnterRebuild \/ SelectFinalJava
  <2>1. UNCHANGED <<request, javaRef, assist, failure, blockCode>> /\ pc \in LoopPositions
    BY <1>4 DEF EnterRebuild, SelectFinalJava, locals
  <2>2. UNCHANGED <<cls, code>> /\ pc' \in {"rebuild", "guidance", "handler"}
    BY <1>1, <1>4, MoveOnDisk, Moves DEF EnterRebuild, SelectFinalJava, StateAtPosition
  <2> QED BY <2>1, <2>2, SameCandidate
<1>5. CASE ExecuteSourceReference
  <2>1. UNCHANGED <<request, javaRef, assist, failure>> /\ pc \in LoopPositions
        /\ blockCode' \in {blockCode, "unsupported_cobol", "source_reference_failed"}
    BY <1>5 DEF ExecuteSourceReference
  <2>2. UNCHANGED <<cls, code>> /\ pc' \in {"expected_output", "handler"}
    BY <1>1, <1>5, MoveOnDisk, Moves DEF ExecuteSourceReference, StateAtPosition, contract
  <2> QED BY <2>1, <2>2, SameCandidate DEF None
<1>6. CASE RecordEvidence
  <2>1. UNCHANGED <<request, javaRef, assist, failure>> /\ pc = "record_evidence"
        /\ blockCode' \in {blockCode, "evidence_incomplete"}
    BY <1>6 DEF RecordEvidence, BlockAfterIncompleteEvidence
  <2>2. UNCHANGED <<cls, code>> /\ pc' \in {"finalize", "handler"}
    BY <1>1, <1>6, MoveOnDisk, Moves DEF RecordEvidence, StateAtPosition
  <2> QED BY <2>1, <2>2, SameCandidate DEF None
<1> QED BY <1>2, <1>3, <1>4, <1>5, <1>6

\* The intake, the verdict and the exception handler.
LEMMA OtherDecided ==
    ASSUME ReportInv,
           \/ InitContract \/ PersistSource \/ Announce \/ RequireCapabilities \/ ParseCobol
           \/ GenerateIr \/ StartBaseline \/ EnterAgent \/ PayAgent \/ FinalizeRun
           \/ FinalizeGenerateOnly \/ Publish \/ Notify \/ ClassifyFailure \/ FinalizeFailure
           \/ PublishFailure \/ SummariseFailure \/ Crash
    PROVE  AgentAtPosition'
<1> USE DEF Fault, StepFault, Raise, Goto, Advance
<1>1. /\ TypeOK /\ StateAtPosition /\ AgentAtPosition
      /\ pc = "handler_finalize" => failure.code # None
  BY DEF ReportInv, IInv, Parts, VerdictRecorded
<1>2. CASE \/ InitContract \/ PersistSource \/ Announce \/ RequireCapabilities \/ ParseCobol
           \/ GenerateIr \/ StartBaseline \/ EnterAgent \/ PayAgent
  <2>1. UNCHANGED <<request, javaRef, assist, failure, blockCode>>
    BY <1>2 DEF InitContract, PersistSource, Announce, RequireCapabilities, ParseCobol,
            GenerateIr, StartBaseline, EnterAgent, PayAgent, locals, contract
  <2>2. UNCHANGED <<cls, code>>
        /\ pc' \in {"source", "dead", "announce", "capabilities", "parse", "ir", "baseline",
                    "generate", "pay_agent", "agent", "handler"}
    BY <1>1, <1>2, MoveOnDisk, Moves
       DEF InitContract, PersistSource, Announce, RequireCapabilities, ParseCobol, Persist,
            GenerateIr, StartBaseline, EnterAgent, PayAgent, contract, StateAtPosition
  <2> QED BY <2>1, <2>2, SameCandidate DEF LoopPositions
<1>3. CASE Publish \/ Notify \/ PublishFailure \/ SummariseFailure \/ Crash
  <2>1. UNCHANGED <<request, contract, assist, failure, blockCode>>
        /\ pc' \in {"notify", "done", "handler", "handler_summary", "crashed"}
    BY <1>3 DEF Publish, Notify, PublishFailure, SummariseFailure, Crash, locals
  <2> QED BY <2>1, SameCandidate DEF contract, LoopPositions
<1>4. CASE FinalizeRun
  <2>1. UNCHANGED <<request, assist, failure, blockCode>> /\ pc = "finalize"
    BY <1>4 DEF FinalizeRun, locals
  <2>2. cls' = FinalClassification(blockCode) /\ code' = blockCode /\ UNCHANGED javaRef
        /\ pc' \in {"publish", "handler"}
    BY <1>1, <1>4, SealOnDisk, Moves DEF FinalizeRun, StateAtPosition
  <2>3. Complete(cls', code') => blockCode = None
    BY <1>1, <2>2 DEF Complete, FinalClassification, AgentAtPosition
  <2> QED BY <1>1, <2>1, <2>2, <2>3 DEF AgentAtPosition, AgentDecides, LoopPositions
<1>5. CASE FinalizeGenerateOnly
  <2>1. UNCHANGED <<request, assist, failure, blockCode>> /\ pc = "finalize_only"
    BY <1>5 DEF FinalizeGenerateOnly, locals
  <2>2. UNCHANGED javaRef /\ pc' \in {"publish", "handler"}
    BY <1>1, <1>5, SealOnDisk, Moves DEF FinalizeGenerateOnly, StateAtPosition
  <2> QED BY <1>1, <2>1, <2>2 DEF AgentAtPosition, AgentDecides, LoopPositions
<1>6. CASE ClassifyFailure
  <2>1. UNCHANGED <<request, javaRef, cls, code, assist, blockCode>>
        /\ pc' \in {"handler_finalize", "handler_publish"}
    BY <1>6 DEF ClassifyFailure, Persist, locals
  <2>2. failure'.code # "generate_only_complete"
    <3>1. \A e, s : FailureCodeFromException(e, s) # "generate_only_complete"
      BY DEF FailureCodeFromException, FailureCodeForStepName, FallbackFailureCodeForState, None
    <3> QED BY <1>1, <1>6, <3>1 DEF ClassifyFailure, TypeOK
  <2> QED BY <1>1, <2>1, <2>2 DEF AgentAtPosition, AgentDecides, LoopPositions
<1>7. CASE FinalizeFailure
  <2>1. UNCHANGED <<request, assist, blockCode>>
        /\ failure'.code = failure.code
    BY <1>1, <1>7 DEF FinalizeFailure, locals, TypeOK
  <2>2. /\ cls' = FinalClassificationForFailureCode(failure.code) /\ code' = failure.code
        /\ pc' = "handler_publish"
    BY <1>1, <1>7, SealOnDisk, Moves DEF FinalizeFailure, StateAtPosition
  <2>3. ~Complete(cls', code')
    BY <1>1, <2>2 DEF Complete, FinalClassificationForFailureCode, AgentAtPosition
  <2> QED BY <1>1, <2>1, <2>2, <2>3 DEF AgentAtPosition, LoopPositions
<1> QED BY <1>2, <1>3, <1>4, <1>5, <1>6, <1>7

\* Every step of the thread keeps the report invariant.
LEMMA ReportStep == ReportInv /\ [Next]_vars => ReportInv'
<1> SUFFICES ASSUME ReportInv, [Next]_vars
             PROVE  IInv' /\ DurableAtPosition' /\ AgentAtPosition'
  BY DEF ReportInv
<1>1. IInv'
  BY InvStep DEF ReportInv
<1>2. CASE RunThread \/ Crash
  BY <1>1, <1>2, EarlyDurable, LoopDurable, EndDurable, HandlerDurable,
     AgentDecided, LoopDecided, OtherDecided DEF RunThread
<1>3. CASE UNCHANGED vars
  BY <1>1, <1>3 DEF vars, contract, locals, reports, ReportInv, DurableAtPosition, Sealed, OnDisk,
                    SaysCompleted, AgentAtPosition, AgentDecides
<1> QED BY <1>1, <1>2, <1>3 DEF Next, Stopped

\* What a run has on disk at each of its positions, and which candidate its
\* contract can name: for every limit and whatever write or call fails.
THEOREM ReportInvariance == Spec => []ReportInv
<1>1. Init => ReportInv
  <2> SUFFICES ASSUME Init PROVE IInv /\ DurableAtPosition /\ AgentAtPosition
    BY DEF ReportInv
  <2> QED BY InvInit
          DEF Init, DurableAtPosition, AgentAtPosition, AgentDecides, AssistAuthorised, NoFailure,
              SaysCompleted, LoopPositions, None
<1> QED BY <1>1, ReportStep, PTL DEF Spec

\* The Harness, the summary and the step log say "completed" only of a run
\* whose sealed contract is on disk (publish and notify come after
\* _finalize_w02).
THEOREM CompletionsAreDurable == Spec => []CompletedIsDurable
<1>1. ReportInv => CompletedIsDurable
  BY DEF ReportInv, DurableAtPosition, SaysCompleted, Complete, CompletedIsDurable
<1> QED BY <1>1, ReportInvariance, PTL

\* A thread that ends leaves a sealed contract, the same in memory and on disk,
\* unless a write of the contract file failed: the handler seals what the try
\* block left open.
THEOREM EndedRunsAreSealed == Spec => []SealedUnlessWriteFailed
<1>1. ReportInv => SealedUnlessWriteFailed
  BY DEF ReportInv, DurableAtPosition, OnDisk, SealedUnlessWriteFailed
<1> QED BY <1>1, ReportInvariance, PTL

\* When the gate authorised the transformation agent, neither a success nor a
\* completed generate-only run refers to the deterministic baseline.
THEOREM BaselineIsNotTheAgents == Spec => []BaselineNeverStandsIn
<1>1. ReportInv => BaselineNeverStandsIn
  BY DEF ReportInv, AgentAtPosition, AgentDecides, Complete, BaselineNeverStandsIn
<1> QED BY <1>1, ReportInvariance, PTL

-----------------------------------------------------------------------------
(* The budgets, for every value of the three limits: no productive model    *)
(* call is made that was not paid for.                                      *)

\* Up to the agent's own call nothing has been called.
BeforeAgent == EarlyPositions \ {"persist_candidate"}

\* At the two positions from which the gateway is called there is a paid unit
\* left, and the agent's position is reached through the assist gate only.
PaidAtPosition ==
    /\ pc \in BeforeAgent => calls = 0
    /\ pc = "agent" => calls < modelUsed
    /\ pc = "repair_agent" /\ ~ManualRegionBlocks => calls < modelUsed
    /\ pc \in {"enter_agent", "pay_agent", "agent"} => AssistAuthorised(assist)

Budgets ==
    /\ calls <= modelUsed /\ modelUsed <= ModelLimit
    /\ repairUsed <= RepairLimit /\ assistUsed <= AssistLimit
    /\ project <= 1 + calls
    /\ assist # None /\ ManualRegionBlocks => calls <= IF AssistAuthorised(assist) THEN 1 ELSE 0

BudgetInv == TypeOK /\ PaidAtPosition /\ Budgets

\* Where a move of the contract leads the thread.
LEMMA AdvanceLeads ==
    ASSUME NEW target, NEW next, NEW e, AdvanceThen(target, next, e)
    PROVE  pc' \in {next, "handler"}
BY DEF AdvanceThen, Persist, Raise

\* Where a finalisation leads the thread.
LEMMA FinalizeLeads ==
    ASSUME NEW c, NEW f, NEW next, NEW onFault, Finalize(c, f, next, onFault)
    PROVE  pc' \in {next, onFault}
BY DEF Finalize, Persist

\* A step that changes no budget, makes no call and leads to a position that
\* asks for nothing keeps the invariant.
LEMMA IdleStep ==
    ASSUME BudgetInv, UNCHANGED <<request, budgets, calls, project, assist>>,
           pc' \notin BeforeAgent, pc' # "repair_agent"
    PROVE  PaidAtPosition' /\ Budgets'
BY DEF BudgetInv, PaidAtPosition, Budgets, BeforeAgent, EarlyPositions, ManualRegionBlocks,
       AssistAuthorised, budgets

\* The steps up to the transformation agent, its own call included.
LEMMA EarlyBudget ==
    ASSUME BudgetInv,
           \/ InitContract \/ PersistSource \/ Announce \/ RequireCapabilities \/ ParseCobol
           \/ GenerateIr \/ StartBaseline \/ GenerateJava \/ DecideAssist \/ EnterAgent
           \/ PayAgent \/ InvokeAgent
    PROVE  PaidAtPosition' /\ Budgets'
<1> USE DEF BudgetInv, PaidAtPosition, BeforeAgent, EarlyPositions, budgets, locals
<1>1. CASE \/ InitContract \/ PersistSource \/ Announce \/ RequireCapabilities \/ ParseCobol
           \/ GenerateIr \/ StartBaseline
  <2>1. calls = 0 /\ UNCHANGED <<request, budgets, calls, project, assist>>
    BY <1>1 DEF InitContract, PersistSource, Announce, RequireCapabilities, ParseCobol, GenerateIr,
                StartBaseline
  <2>2. pc' \in {"source", "dead", "announce", "capabilities", "parse", "ir", "baseline",
                 "generate", "handler"}
    BY <1>1, AdvanceLeads
       DEF InitContract, PersistSource, Announce, RequireCapabilities, ParseCobol, GenerateIr,
           StartBaseline, Persist, Advance, Fault, StepFault, Raise, Goto
  <2> QED BY <2>1, <2>2 DEF Budgets, ManualRegionBlocks, AssistAuthorised
<1>2. CASE GenerateJava
  <2>1. calls = 0 /\ UNCHANGED <<request, budgets, calls, assist>> /\ project' \in {project, 1}
        /\ pc' \in {"assist", "handler"}
    BY <1>2 DEF GenerateJava, Goto, StepFault, Fault, Raise
  <2> QED BY <2>1 DEF Budgets, ManualRegionBlocks, AssistAuthorised
<1>3. CASE DecideAssist
  <2>1. PICK d \in AssistDecisions :
          /\ assist' = d.reason /\ assistUsed' = d.used
          /\ Persist(Snapshot(state, cls, code),
                     IF request.useAgent /\ AssistAuthorised(d.reason) /\ ~request.parity
                     THEN "enter_agent" ELSE "persist_candidate",
                     exc, "handler")
    BY <1>3 DEF DecideAssist
  <2>2. d.used <= AssistLimit
    BY LimitsAssumption DEF AssistDecisions, Budgets, TypeOK
  <2>3. calls = 0 /\ UNCHANGED <<request, repairUsed, modelUsed, calls, project>>
    BY <1>3 DEF DecideAssist
  <2>4. pc' \in {"enter_agent", "persist_candidate", "handler"}
        /\ (pc' = "enter_agent" => AssistAuthorised(assist'))
    BY <2>1 DEF Persist
  <2> QED BY <2>1, <2>2, <2>3, <2>4 DEF Budgets, AssistAuthorised
<1>4. CASE EnterAgent
  <2>1. UNCHANGED <<request, budgets, calls, project, assist>> /\ pc' \in {"pay_agent", "handler"}
    BY <1>4, AdvanceLeads DEF EnterAgent, Advance
  <2> QED BY <1>4, <2>1 DEF EnterAgent, Budgets, ManualRegionBlocks, AssistAuthorised
<1>5. CASE PayAgent
  <2>1. UNCHANGED <<request, repairUsed, assistUsed, calls, project, assist>>
        /\ (\/ pc' = "agent" /\ modelUsed' = modelUsed + 1 /\ ~ModelBudgetExhausted
            \/ pc' = "handler" /\ UNCHANGED modelUsed)
    BY <1>5 DEF PayAgent, Raise, Goto
  <2> QED BY <1>5, <2>1, LimitsAssumption
          DEF PayAgent, ModelBudgetExhausted, Budgets, ManualRegionBlocks, AssistAuthorised, TypeOK
<1>6. CASE InvokeAgent
  <2>1. UNCHANGED <<request, budgets, assist>> /\ pc' \in {"persist_candidate", "handler"}
    BY <1>6 DEF InvokeAgent, RaiseAgentError, Fault, Raise, Goto
  <2>2. \/ UNCHANGED <<calls, project>>
        \/ calls' = calls + 1 /\ project' \in {project, project + 1}
    BY <1>6 DEF InvokeAgent
  <2> QED BY <1>6, <2>1, <2>2 DEF InvokeAgent, Budgets, ManualRegionBlocks, AssistAuthorised, TypeOK
<1> QED BY <1>1, <1>2, <1>3, <1>4, <1>5, <1>6

\* The two steps of the repair loop that pay for and make the agent's call.
LEMMA RepairBudget ==
    ASSUME BudgetInv, PayRepair \/ InvokeRepair
    PROVE  PaidAtPosition' /\ Budgets'
<1> USE DEF BudgetInv, BeforeAgent, EarlyPositions, budgets
<1>1. CASE PayRepair
  <2>1. UNCHANGED <<request, assistUsed, calls, project, assist>>
    BY <1>1 DEF PayRepair
  <2>2. \/ UNCHANGED <<repairUsed, modelUsed>> /\ pc' \in {"guidance", "handler"}
        \/ /\ repairUsed < RepairLimit /\ repairUsed' = repairUsed + 1
           /\ \/ UNCHANGED modelUsed /\ (pc' \in {"guidance", "handler"} \/ ManualRegionBlocks)
              \/ ~ModelBudgetExhausted /\ modelUsed' = modelUsed + 1
           /\ pc' \in {"guidance", "handler", "repair_agent"}
    BY <1>1, AdvanceLeads, LimitsAssumption DEF PayRepair, Block, Advance, Goto, TypeOK
  <2> QED BY <2>1, <2>2, LimitsAssumption
          DEF ModelBudgetExhausted, Budgets, PaidAtPosition, ManualRegionBlocks, AssistAuthorised,
              TypeOK
<1>2. CASE InvokeRepair
  <2>1. UNCHANGED <<request, budgets, assist>> /\ pc' \in {"guidance", "handler", "enter_rebuild"}
    BY <1>2, AdvanceLeads DEF InvokeRepair, Block, Advance, Fault, Raise
  <2>2. \/ UNCHANGED <<calls, project>>
        \/ ~ManualRegionBlocks /\ calls' = calls + 1 /\ project' \in {project, project + 1}
    BY <1>2 DEF InvokeRepair, ReplaceCandidate
  <2>3. ManualRegionBlocks' <=> ManualRegionBlocks
    BY <2>1 DEF ManualRegionBlocks
  <2>4. ~ManualRegionBlocks => calls < modelUsed
    BY <1>2 DEF InvokeRepair, PaidAtPosition
  <2> QED BY <2>1, <2>2, <2>3, <2>4 DEF Budgets, PaidAtPosition, AssistAuthorised, TypeOK
<1> QED BY <1>1, <1>2

\* Every other step is idle.
LEMMA IdleSteps ==
    ASSUME BudgetInv,
           \/ PersistCandidate \/ StopAfterGeneration \/ Route \/ ExecuteSourceReference
           \/ LoadExpectedOutput \/ Build \/ Rebuild \/ BlockParity \/ EnterRepair \/ EnterRebuild
           \/ SelectFinalJava \/ ModelGuidance \/ FetchLedger \/ WriteEvidence \/ RecordEvidence
           \/ FinalizeRun \/ FinalizeGenerateOnly \/ Publish \/ Notify \/ ClassifyFailure
           \/ FinalizeFailure \/ PublishFailure \/ SummariseFailure \/ Crash
    PROVE  PaidAtPosition' /\ Budgets'
<1> USE AdvanceLeads, FinalizeLeads
    DEF budgets, locals, Advance, Block, Fault, StepFault, Raise, Goto, BeforeAgent, EarlyPositions
<1>1. CASE \/ PersistCandidate \/ StopAfterGeneration \/ Route \/ ExecuteSourceReference
           \/ LoadExpectedOutput
  <2>1. UNCHANGED <<request, budgets, calls, project, assist>>
    BY <1>1 DEF PersistCandidate, StopAfterGeneration, Route, ExecuteSourceReference,
                LoadExpectedOutput
  <2>2. pc' \notin BeforeAgent /\ pc' # "repair_agent"
    BY <1>1 DEF PersistCandidate, StopAfterGeneration, Route, ExecuteSourceReference,
                LoadExpectedOutput
  <2> QED BY <2>1, <2>2, IdleStep
<1>2. CASE Build \/ Rebuild \/ BlockParity \/ EnterRepair \/ EnterRebuild \/ SelectFinalJava
  <2>1. UNCHANGED <<request, budgets, calls, project, assist>>
    BY <1>2 DEF Build, Rebuild, RunBuild, BlockParity, EnterRepair, EnterRebuild, SelectFinalJava
  <2>2. pc' \notin BeforeAgent /\ pc' # "repair_agent"
    BY <1>2 DEF Build, Rebuild, RunBuild, BlockParity, EnterRepair, EnterRebuild, SelectFinalJava
  <2> QED BY <2>1, <2>2, IdleStep
<1>3. CASE \/ ModelGuidance \/ FetchLedger \/ WriteEvidence \/ RecordEvidence \/ FinalizeRun
           \/ FinalizeGenerateOnly \/ Publish \/ Notify
  <2>1. UNCHANGED <<request, budgets, calls, project, assist>>
    BY <1>3 DEF ModelGuidance, FetchLedger, WriteEvidence, RecordEvidence, FinalizeRun,
                FinalizeGenerateOnly, Publish, Notify
  <2>2. pc' \notin BeforeAgent /\ pc' # "repair_agent"
    BY <1>3 DEF ModelGuidance, FetchLedger, WriteEvidence, RecordEvidence, FinalizeRun,
                FinalizeGenerateOnly, Publish, Notify
  <2> QED BY <2>1, <2>2, IdleStep
<1>4. CASE ClassifyFailure \/ FinalizeFailure \/ PublishFailure \/ SummariseFailure \/ Crash
  <2>1. UNCHANGED <<request, budgets, calls, project, assist>>
    BY <1>4 DEF ClassifyFailure, FinalizeFailure, PublishFailure, SummariseFailure, Crash
  <2>2. pc' \notin BeforeAgent /\ pc' # "repair_agent"
    BY <1>4 DEF ClassifyFailure, FinalizeFailure, PublishFailure, SummariseFailure, Crash, Persist
  <2> QED BY <2>1, <2>2, IdleStep
<1> QED BY <1>1, <1>2, <1>3, <1>4

\* Every productive gateway call was paid before it was made, no budget is
\* overdrawn, every candidate beyond the baseline comes from a paid call, and
\* the manual-region rule lets no repair call through: whatever the limits.
THEOREM BudgetsAlwaysHold == Spec => []BudgetsHold
<1>1. Init => BudgetInv
  <2> SUFFICES ASSUME Init PROVE TypeOK /\ PaidAtPosition /\ Budgets
    BY DEF BudgetInv
  <2> QED BY InitType, LimitsAssumption DEF Init, PaidAtPosition, Budgets, AssistAuthorised, None
<1>2. BudgetInv /\ [Next]_vars => BudgetInv'
  <2> SUFFICES ASSUME BudgetInv, [Next]_vars PROVE TypeOK' /\ PaidAtPosition' /\ Budgets'
    BY DEF BudgetInv
  <2>1. TypeOK'
    BY TypeStep DEF BudgetInv
  <2>2. CASE UNCHANGED vars
    BY <2>1, <2>2 DEF vars, budgets, locals, BudgetInv, PaidAtPosition, Budgets, ManualRegionBlocks
  <2>3. CASE RunThread \/ Crash
    BY <2>1, <2>3, EarlyBudget, RepairBudget, IdleSteps DEF RunThread
  <2> QED BY <2>1, <2>2, <2>3 DEF Next, Stopped
<1>3. BudgetInv => BudgetsHold
  BY DEF BudgetInv, Budgets, BudgetsHold
<1> QED BY <1>1, <1>2, <1>3, PTL DEF Spec
=============================================================================
