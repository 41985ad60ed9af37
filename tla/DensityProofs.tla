--------------------------- MODULE DensityProofs ---------------------------
(***************************************************************************)
(* Theorems about Density for every capacity, batch size and limit, and    *)
(* with every fault the model has.  The invariant IInv says, per point of  *)
(* the run, which calls may be open, what the numbers are and which VMIs   *)
(* may exist; the safety properties follow from it.                        *)
(***************************************************************************)
EXTENDS Density, FiniteSetTheorems, TLAPS

-----------------------------------------------------------------------------
(* The cluster.                                                            *)

\* Taking VMIs away keeps the cluster well formed.
LEMMA DropKeepsClusterType ==
  ASSUME ClusterTypeOK, NEW gone, Drop(gone), UNCHANGED inFlight
  PROVE  ClusterTypeOK'
<1>1. running \subseteq present /\ IsFiniteSet(present) /\ Capacity \in Nat
  BY CapacityAssumption DEF ClusterTypeOK
<1>2. IsFiniteSet(running) /\ IsFiniteSet(present')
  BY <1>1, FS_Subset DEF Drop
<1>3. Cardinality(running') <= Cardinality(running)
  BY <1>2, FS_Subset DEF Drop
<1>4. Cardinality(running') \in Nat /\ Cardinality(running) \in Nat
  BY <1>2, FS_Subset, FS_CardinalityType DEF Drop
<1>5. Cardinality(running') <= Capacity
  BY <1>1, <1>3, <1>4 DEF ClusterTypeOK
<1>6. /\ present' \subseteq Int
      /\ running' \subseteq present' /\ failed' \subseteq present'
      /\ running' \cap failed' = {}
      /\ deleting' \subseteq present' /\ aged' \subseteq deleting'
      /\ inFlight' \subseteq Int
  BY DEF ClusterTypeOK, Drop
<1> QED
  BY <1>2, <1>5, <1>6 DEF ClusterTypeOK

\* What the cluster does on its own keeps it well formed; in particular no
\* more VMIs run than its capacity allows.
LEMMA ClusterStepKeepsType ==
  ASSUME ClusterTypeOK, ClusterStep
  PROVE  ClusterTypeOK'
<1> USE CapacityAssumption DEF ClusterTypeOK
<1>1. IsFiniteSet(running) /\ Cardinality(running) \in Nat
  BY FS_Subset, FS_CardinalityType
<1>2. ASSUME NEW n \in present, Start(n)
      PROVE  ClusterTypeOK'
  <2>1. Cardinality(running') = Cardinality(running) + 1
    BY <1>1, <1>2, FS_AddElement DEF Start
  <2> QED
    BY <1>1, <1>2, <2>1 DEF Start
<1>3. ASSUME NEW n \in present, Fail(n)
      PROVE  ClusterTypeOK'
  <2>1. Cardinality(running') <= Cardinality(running) /\ Cardinality(running') \in Nat
    BY <1>1, <1>3, FS_Subset, FS_CardinalityType DEF Fail
  <2> QED
    BY <1>1, <1>3, <2>1 DEF Fail
<1>4. ASSUME NEW n \in present, ForeignDelete(n)
      PROVE  ClusterTypeOK'
  BY <1>4 DEF ForeignDelete
<1>5. ASSUME NEW n \in deleting, Finalize(n)
      PROVE  ClusterTypeOK'
  BY <1>5, DropKeepsClusterType DEF Finalize
<1>6. ASSUME NEW n \in deleting, Age(n)
      PROVE  ClusterTypeOK'
  BY <1>6 DEF Age
<1>7. ASSUME NEW n \in inFlight, Land(n)
      PROVE  ClusterTypeOK'
  BY <1>7, FS_AddElement DEF Land
<1> QED
  BY <1>2, <1>3, <1>4, <1>5, <1>6, <1>7 DEF ClusterStep

\* So do the requests of the run.
LEMMA RequestsKeepClusterType ==
  ASSUME ClusterTypeOK,
         \/ \E n \in Int : CreateAccepted(n) \/ CreateUnanswered(n)
         \/ \E some \in SUBSET present : DeleteThese(some) \/ Strip(some)
  PROVE  ClusterTypeOK'
<1>1. ASSUME NEW n \in Int, CreateAccepted(n) \/ CreateUnanswered(n)
      PROVE  ClusterTypeOK'
  <2>1. IsFiniteSet(present \cup {n})
    BY FS_AddElement DEF ClusterTypeOK
  <2>2. present' \in {present, present \cup {n}}
    BY <1>1 DEF CreateAccepted, CreateUnanswered
  <2>3. IsFiniteSet(present')
    BY <2>1, <2>2 DEF ClusterTypeOK
  <2> QED
    BY <1>1, <2>2, <2>3 DEF ClusterTypeOK, CreateAccepted, CreateUnanswered
<1>2. ASSUME NEW some \in SUBSET present, DeleteThese(some)
      PROVE  ClusterTypeOK'
  BY <1>2 DEF ClusterTypeOK, DeleteThese
<1>3. ASSUME NEW some \in SUBSET present, Strip(some)
      PROVE  ClusterTypeOK'
  BY <1>3, DropKeepsClusterType DEF Strip
<1> QED
  BY <1>1, <1>2, <1>3

-----------------------------------------------------------------------------
(* The invariant.                                                          *)

Early == {"namespace", "warm create", "warm wait", "warm delete", "warm poll", "baseline"}
Creating == {"warm create", "create"}
Waiting == {"warm wait", "wait"}
InBatch == {"create", "wait", "count", "health"}

\* A library call is open only where RunE waits for one.
CallFits ==
  /\ pc \in Creating => call \in {"creating", "ok", "error"}
  /\ pc \in Waiting => call \in {"waiting", "failing"} \cup Outcomes
  /\ pc \notin Creating \cup Waiting => call = "idle"
  /\ call # "creating" => todo = {}

\* The numbers of the ramp: another batch is due only below the limit, and
\* never passes it; the count that leads to the health check is exact.
NumbersFit ==
  /\ pc \in Early => maxReady = 0
  /\ pc \in Ramping /\ MaxVMs > 0 => maxReady < MaxVMs
  /\ pc \in InBatch => batch > 0 /\ (MaxVMs > 0 => maxReady + batch <= MaxVMs)
  /\ pc = "health" => ready = maxReady + batch /\ ready <= Capacity

\* Nothing is decided before the ramp is over.
Undecided ==
  pc \in Early \cup Ramping =>
    stop = "none" /\ runErr = "none" /\ cases["create"] = "none"

\* The VMIs there can be: the warm-up's until it is cleaned up, those of the
\* ramp afterwards.  A Create that is still under way was the last call.
Top == maxReady + (IF pc = "loop" THEN 0 ELSE batch) - 1

NamesFit ==
  /\ todo \cap (present \cup inFlight) = {}
  /\ pc \in Early \ {"warm create"} => inFlight = {}
  /\ pc = "warm create" /\ call # "error" => inFlight = {}
  /\ pc \in {"namespace", "baseline"} => present = {}
  /\ pc = "warm create" => todo \subseteq {WarmUp}
  /\ pc = "create" => todo \subseteq maxReady .. Top
  /\ pc \in Ramping => present \cup inFlight \subseteq 0 .. Top

IInv == TypeOK /\ CallFits /\ NumbersFit /\ Undecided /\ NamesFit /\ MaxWithinLimits

\* The cluster makes no VMI of its own: it only lets a late Create land.
LEMMA ClusterAddsNothing ==
  ASSUME ClusterStep
  PROVE  present' \cup inFlight' \subseteq present \cup inFlight /\ inFlight' \subseteq inFlight
BY DEF ClusterStep, Start, Fail, ForeignDelete, Finalize, Age, Land, Drop

\* Neither the cluster nor a signal breaks the invariant.
LEMMA OutsideKeepsInv ==
  ASSUME IInv, OutsideStep
  PROVE  IInv'
<1>1. ClusterTypeOK'
  BY ClusterStepKeepsType DEF IInv, TypeOK, OutsideStep
<1>2. TypeOK'
  BY <1>1 DEF IInv, TypeOK, ResourceTypeOK, OutsideStep, resourceVars, rampVars, resultVars
<1>3. CallFits' /\ NumbersFit' /\ Undecided' /\ MaxWithinLimits'
  BY DEF IInv, CallFits, NumbersFit, Undecided, MaxWithinLimits, OutsideStep,
         resourceVars, rampVars, resultVars
<1>4. NamesFit'
  <2>1. present' \cup inFlight' \subseteq present \cup inFlight /\ inFlight' \subseteq inFlight
    BY ClusterAddsNothing DEF OutsideStep
  <2>2. UNCHANGED <<pc, call, todo, maxReady, batch>>
    BY DEF OutsideStep, resourceVars, rampVars
  <2>3. Top' = Top
    BY <2>2 DEF Top
  <2> QED
    BY <2>1, <2>2, <2>3 DEF IInv, NamesFit, Early
<1> QED
  BY <1>2, <1>3, <1>4 DEF IInv

\* A step of CreateVMIs or WaitRunning keeps the invariant: it changes the
\* call and what it posted only.
LEMMA LibraryKeepsInv ==
  ASSUME IInv, LibraryStep
  PROVE  IInv'
<1> USE DEF IInv, TypeOK, ResourceTypeOK
<1>1. UNCHANGED <<pc, maxReady, batch, ready, stop, runErr, cases, suiteErr>>
  BY DEF LibraryStep, rampVars, resultVars
<1>2. Top' = Top
  BY <1>1 DEF Top
<1>3. NumbersFit' /\ Undecided' /\ MaxWithinLimits'
  BY <1>1 DEF NumbersFit, Undecided, MaxWithinLimits
<1>4. CASE CreateOne
  <2>1. PICK n \in todo : CreateAccepted(n) /\ todo' = todo \ {n}
                          /\ call' = IF todo = {n} THEN "ok" ELSE "creating"
    BY <1>4 DEF CreateOne
  <2>2. ClusterTypeOK'
    BY <2>1, RequestsKeepClusterType
  <2>3. TypeOK'
    BY <1>1, <1>4, <2>1, <2>2 DEF CreateOne, Outcomes
  <2>4. CallFits'
    BY <1>1, <1>4, <2>1 DEF CallFits, CreateOne, Outcomes, Creating, Waiting
  <2>5. pc \in Creating
    BY <1>4 DEF CreateOne, CallFits, Waiting, Outcomes
  <2>6. NamesFit'
    <3>1. CASE pc = "warm create"
      BY <1>1, <1>4, <2>1, <3>1 DEF NamesFit, CreateOne, CreateAccepted, Early, Ramping
    <3>2. CASE pc = "create"
      <4>1. n \in 0 .. Top
        BY <3>2 DEF NamesFit, Top
      <4> QED
        BY <1>1, <1>2, <1>4, <2>1, <3>2, <4>1
          DEF NamesFit, CreateOne, CreateAccepted, Early, Ramping
    <3> QED
      BY <2>5, <3>1, <3>2 DEF Creating
  <2> QED
    BY <1>3, <2>3, <2>4, <2>6
<1>5. CASE CreateFails
  <2>1. PICK n \in todo : CreateUnanswered(n) /\ unanswered' = unanswered \cup {n}
    BY <1>5 DEF CreateFails
  <2>2. ClusterTypeOK'
    BY <2>1, RequestsKeepClusterType
  <2>3. TypeOK'
    BY <1>1, <1>5, <2>1, <2>2 DEF CreateFails, Outcomes
  <2>4. CallFits'
    BY <1>1, <1>5, <2>1 DEF CallFits, CreateFails, Outcomes, Creating, Waiting
  <2>5. pc \in Creating
    BY <1>5 DEF CreateFails, CallFits, Waiting, Outcomes
  <2>6. NamesFit'
    <3>1. CASE pc = "warm create"
      BY <1>1, <1>5, <2>1, <3>1 DEF NamesFit, CreateFails, CreateUnanswered, Early, Ramping
    <3>2. CASE pc = "create"
      <4>1. n \in 0 .. Top
        BY <3>2 DEF NamesFit, Top
      <4> QED
        BY <1>1, <1>2, <1>5, <2>1, <3>2, <4>1
          DEF NamesFit, CreateFails, CreateUnanswered, Early, Ramping
    <3> QED
      BY <2>5, <3>1, <3>2 DEF Creating
  <2> QED
    BY <1>3, <2>3, <2>4, <2>6
<1>6. CASE Cancel \/ Expire \/ RecordApiError
  <2>1. UNCHANGED <<call, todo, unanswered, waitFor, clusterVars>>
    BY <1>6 DEF Cancel, Expire, RecordApiError
  <2>2. TypeOK'
    BY <1>1, <1>6, <2>1 DEF Cancel, Expire, RecordApiError, ClusterTypeOK, clusterVars
  <2>3. CallFits' /\ NamesFit'
    BY <1>1, <1>2, <2>1 DEF CallFits, NamesFit, clusterVars
  <2> QED
    BY <1>3, <2>2, <2>3
<1>7. CASE \/ \E n \in waitFor : ObserveRunning(n) \/ ObserveDeleted(n) \/ ObserveFailed(n)
           \/ WaitInterrupted \/ WaitFailed
  <2>1. /\ call \in {"waiting", "failing"} /\ call' \in {"waiting", "failing"} \cup Outcomes
        /\ UNCHANGED <<todo, unanswered, apiErr, cancelled, timer, clusterVars>>
        /\ waitFor' \subseteq waitFor
    <3>1. CASE \E n \in waitFor : ObserveRunning(n) \/ ObserveDeleted(n) \/ ObserveFailed(n)
      BY <3>1 DEF ObserveRunning, ObserveDeleted, ObserveFailed, Outcomes
    <3>2. CASE WaitInterrupted \/ WaitFailed
      <4>1. call' \in {"timeout", "error"}
        BY <3>2 DEF WaitInterrupted, WaitFailed, WaitError
      <4> QED
        BY <3>2, <4>1 DEF WaitInterrupted, WaitFailed, Outcomes
    <3> QED
      BY <1>7, <3>1, <3>2
  <2>2. TypeOK'
    BY <1>1, <2>1 DEF ClusterTypeOK, clusterVars, Outcomes
  <2>3. CallFits'
    BY <1>1, <2>1 DEF CallFits, Creating, Waiting, Outcomes
  <2>4. NamesFit'
    BY <1>1, <1>2, <2>1 DEF NamesFit, CallFits, Creating, Waiting, Outcomes, clusterVars, Early
  <2> QED
    BY <1>3, <2>2, <2>3, <2>4
<1> QED
  BY <1>4, <1>5, <1>6, <1>7 DEF LibraryStep, ResourceStep

\* A batch has a VMI, fits the option and stays within the limit.
LEMMA BatchFits ==
  ASSUME TypeOK, MaxVMs > 0 => maxReady < MaxVMs
  PROVE  Batch \in 1 .. BatchSize /\ (MaxVMs > 0 => maxReady + Batch <= MaxVMs)
BY OptionAssumption DEF TypeOK, Batch

\* The run's own counting returns a number that the cluster can run.
LEMMA CountFits ==
  ASSUME ClusterTypeOK
  PROVE  Counted \in Nat /\ Counted <= Capacity
BY FS_Subset, FS_CardinalityType, CapacityAssumption DEF ClusterTypeOK, Counted

\* The steps from the namespace to the end of the warm-up keep the invariant.
LEMMA WarmUpKeepsInv ==
  ASSUME IInv,
         NamespaceNotReady \/ WarmUpCreate \/ WarmUpWait \/ WarmUpRan \/ WarmUpFails
  PROVE  IInv'
<1> USE DEF IInv, TypeOK, ResourceTypeOK, Goto, rampVars, resultVars, resourceVars, clusterVars
<1>1. CASE NamespaceNotReady
  BY <1>1 DEF NamespaceNotReady, ClusterTypeOK, CallFits, NumbersFit, Undecided, NamesFit,
     MaxWithinLimits, Pcs, Ramping, Early, Creating, Waiting, InBatch
<1>2. CASE WarmUpCreate
  <2>1. TypeOK'
    <3>1. {WarmUp} \subseteq Int /\ {WarmUp} # {}
      BY DEF WarmUp
    <3>2. ClusterTypeOK'
      BY <1>2 DEF WarmUpCreate, CallCreate, ClusterTypeOK
    <3>3. ResourceTypeOK'
      BY <1>2, <3>1 DEF WarmUpCreate, CallCreate
    <3> QED
      BY <1>2, <3>2, <3>3 DEF WarmUpCreate, Pcs
  <2>2. CallFits' /\ NumbersFit' /\ Undecided' /\ MaxWithinLimits'
    BY <1>2 DEF WarmUpCreate, CallCreate, CallFits, NumbersFit, Undecided, MaxWithinLimits,
       Ramping, Early, Creating, Waiting, InBatch
  <2>3. NamesFit'
    BY <1>2 DEF WarmUpCreate, CallCreate, NamesFit, Early, Ramping
  <2> QED
    BY <2>1, <2>2, <2>3
<1>3. CASE WarmUpWait
  <2>1. TypeOK'
    <3>1. {WarmUp} \subseteq Int /\ {WarmUp} # {}
      BY DEF WarmUp
    <3>2. ClusterTypeOK'
      BY <1>3 DEF WarmUpWait, CallWait, ClusterTypeOK
    <3>3. ResourceTypeOK'
      BY <1>3, <3>1 DEF WarmUpWait, CallWait
    <3> QED
      BY <1>3, <3>2, <3>3 DEF WarmUpWait, Pcs
  <2>2. CallFits' /\ NumbersFit' /\ Undecided' /\ MaxWithinLimits'
    BY <1>3 DEF WarmUpWait, CallWait, CallFits, NumbersFit, Undecided, MaxWithinLimits,
       Ramping, Early, Creating, Waiting, InBatch
  <2>3. NamesFit'
    BY <1>3 DEF WarmUpWait, CallWait, NamesFit, Early, Ramping
  <2> QED
    BY <2>1, <2>2, <2>3
<1>4. CASE WarmUpRan
  <2>1. TypeOK'
    BY <1>4 DEF WarmUpRan, Return, ClusterTypeOK, Pcs
  <2>2. CallFits' /\ NumbersFit' /\ Undecided' /\ MaxWithinLimits'
    BY <1>4 DEF WarmUpRan, Return, CallFits, NumbersFit, Undecided, MaxWithinLimits,
       Ramping, Early, Creating, Waiting, InBatch
  <2>3. NamesFit'
    BY <1>4 DEF WarmUpRan, Return, NamesFit, Early, Ramping
  <2> QED
    BY <2>1, <2>2, <2>3
<1>5. CASE WarmUpFails
  <2>1. TypeOK'
    BY <1>5 DEF WarmUpFails, Return, ClusterTypeOK, Pcs, Cases
  <2>2. CallFits' /\ NumbersFit' /\ Undecided' /\ MaxWithinLimits'
    BY <1>5 DEF WarmUpFails, Return, CallFits, NumbersFit, Undecided, MaxWithinLimits,
       Ramping, Early, Creating, Waiting, InBatch
  <2>3. NamesFit'
    BY <1>5 DEF WarmUpFails, Return, CallFits, NamesFit, Early, Ramping
  <2> QED
    BY <2>1, <2>2, <2>3
<1> QED
  BY <1>1, <1>2, <1>3, <1>4, <1>5

\* The end of a ramp records well-typed results.
ResultsTyped ==
  /\ pc \in Pcs
  /\ stop \in Stops \cup {"none"}
  /\ runErr \in RunErrs \cup {"none"}
  /\ cases \in [Cases -> {"none", "PASS", "ERROR"}]
  /\ suiteErr \in BOOLEAN

\* RampEnds writes results of their types.
LEMMA RampEndsTyped ==
  ASSUME TypeOK, NEW s \in Stops \cup {"none"}, NEW e \in RunErrs \cup {"none"}, RampEnds(s, e)
  PROVE  ResultsTyped'
<1>1. CreateState(s, e) \in {"none", "PASS", "ERROR"}
  BY DEF CreateState
<1> QED
  BY <1>1 DEF TypeOK, RampEnds, ResultsTyped, Pcs, Cases

\* The steps of the batch loop keep the invariant: a batch is added to the
\* result only when it was created, counted and found healthy.
LEMMA RampKeepsInv ==
  ASSUME IInv
  PROVE  (\/ Baseline \/ NextBatch \/ LoopCancelled \/ BatchCreateFails \/ BatchWait
          \/ BatchWaited \/ CountVMIs \/ CheckHealth) => IInv'
<1> USE OptionAssumption
    DEF IInv, TypeOK, ResourceTypeOK, Goto, rampVars, resultVars, resourceVars, clusterVars
<1>0. \A s, e : CreateState(s, e) \in {"PASS", "ERROR"}
  BY DEF CreateState
<1>e. \A s \in Stops \cup {"none"}, e \in RunErrs \cup {"none"} :
        RampEnds(s, e) => ResultsTyped'
  BY RampEndsTyped
<1>1. ASSUME Baseline
      PROVE  IInv'
  <2>1. TypeOK'
    <3>1. ClusterTypeOK'
      BY <1>1 DEF Baseline, ClusterTypeOK
    <3>2. ResourceTypeOK'
      BY <1>1 DEF Baseline
    <3>3. ResultsTyped'
      BY <1>1, <1>e DEF Baseline, ResultsTyped, Pcs, Ramping, Stops, RunErrs
    <3>4. maxReady' \in Nat /\ batch' \in 0 .. BatchSize /\ ready' \in Nat
      BY <1>1 DEF Baseline
    <3> QED
      BY <3>1, <3>2, <3>3, <3>4 DEF ResultsTyped
  <2>2. CallFits' /\ NumbersFit' /\ Undecided' /\ MaxWithinLimits'
    BY <1>1, <1>0 DEF Baseline, RampEnds, Outcomes,
       CallFits, NumbersFit, Undecided, MaxWithinLimits,
       Ramping, Early, Creating, Waiting, InBatch
  <2>3. NamesFit'
    BY <1>1, <1>0 DEF Baseline, RampEnds, CallFits, NumbersFit, NamesFit, Top,
       Early, Ramping, Creating, Waiting, InBatch, Outcomes
  <2> QED
    BY <2>1, <2>2, <2>3
<1>2. ASSUME NextBatch
      PROVE  IInv'
  <2>1. TypeOK'
    <3>1. Batch \in 1 .. BatchSize
      BY <1>2, BatchFits DEF NextBatch, NumbersFit, Ramping
    <3>2. ClusterTypeOK'
      BY <1>2 DEF NextBatch, ClusterTypeOK
    <3>3. ResourceTypeOK'
      <4>1. todo' \subseteq Int /\ maxReady \in todo'
        BY <1>2, <3>1 DEF NextBatch, CallCreate
      <4> QED
        BY <1>2, <4>1 DEF NextBatch, CallCreate
    <3> QED
      BY <1>2, <3>1, <3>2, <3>3 DEF NextBatch, Pcs, Ramping
  <2>2. CallFits' /\ NumbersFit' /\ Undecided' /\ MaxWithinLimits'
    BY <1>2, BatchFits DEF NextBatch, CallCreate, Outcomes,
       CallFits, NumbersFit, Undecided, MaxWithinLimits,
       Ramping, Early, Creating, Waiting, InBatch
  <2>3. NamesFit'
    BY <1>2, BatchFits DEF NextBatch, CallCreate, CallFits, NumbersFit, NamesFit, Top,
       Early, Ramping, Creating, Waiting, InBatch, Outcomes
  <2> QED
    BY <2>1, <2>2, <2>3
<1>3. ASSUME LoopCancelled
      PROVE  IInv'
  <2>1. TypeOK'
    BY <1>3, <1>0 DEF LoopCancelled, RampEnds, ClusterTypeOK, Pcs, Cases, Stops, RunErrs, Outcomes
  <2>2. CallFits' /\ NumbersFit' /\ Undecided' /\ MaxWithinLimits'
    BY <1>3, <1>0 DEF LoopCancelled, RampEnds, Outcomes,
       CallFits, NumbersFit, Undecided, MaxWithinLimits,
       Ramping, Early, Creating, Waiting, InBatch
  <2>3. NamesFit'
    BY <1>3, <1>0 DEF LoopCancelled, RampEnds, CallFits, NumbersFit, NamesFit, Top,
       Early, Ramping, Creating, Waiting, InBatch, Outcomes
  <2> QED
    BY <2>1, <2>2, <2>3
<1>4. ASSUME BatchCreateFails
      PROVE  IInv'
  <2>1. TypeOK'
    BY <1>4, <1>0
      DEF BatchCreateFails, RampEnds, Return, ClusterTypeOK, Pcs, Cases, Stops, RunErrs, Outcomes
  <2>2. CallFits' /\ NumbersFit' /\ Undecided' /\ MaxWithinLimits'
    BY <1>4, <1>0 DEF BatchCreateFails, RampEnds, Return, Outcomes,
       CallFits, NumbersFit, Undecided, MaxWithinLimits,
       Ramping, Early, Creating, Waiting, InBatch
  <2>3. NamesFit'
    BY <1>4, <1>0 DEF BatchCreateFails, RampEnds, Return, CallFits, NumbersFit, NamesFit, Top,
       Early, Ramping, Creating, Waiting, InBatch, Outcomes
  <2> QED
    BY <2>1, <2>2, <2>3
<1>5. ASSUME BatchWait
      PROVE  IInv'
  <2>1. TypeOK'
    <3>1. ClusterTypeOK'
      BY <1>5 DEF BatchWait, ClusterTypeOK
    <3>2. ResourceTypeOK'
      <4>1. maxReady .. maxReady + batch - 1 \subseteq Int
        BY SMT
      <4> QED
        BY <1>5, <4>1 DEF BatchWait, CallWait
    <3> QED
      BY <1>5, <3>1, <3>2 DEF BatchWait, Pcs, Ramping
  <2>2. CallFits' /\ NumbersFit' /\ Undecided' /\ MaxWithinLimits'
    BY <1>5 DEF BatchWait, CallWait, Outcomes,
       CallFits, NumbersFit, Undecided, MaxWithinLimits,
       Ramping, Early, Creating, Waiting, InBatch
  <2>3. NamesFit'
    BY <1>5 DEF BatchWait, CallWait, CallFits, NumbersFit, NamesFit, Top,
       Early, Ramping, Creating, Waiting, InBatch, Outcomes
  <2> QED
    BY <2>1, <2>2, <2>3
<1>6. ASSUME BatchWaited
      PROVE  IInv'
  <2>1. TypeOK'
    <3>1. ClusterTypeOK'
      BY <1>6 DEF BatchWaited, ClusterTypeOK
    <3>2. ResourceTypeOK'
      BY <1>6 DEF BatchWaited, Return
    <3>3. ResultsTyped'
      BY <1>6, <1>e DEF BatchWaited, ResultsTyped, Pcs, Ramping, Stops, RunErrs
    <3>4. maxReady' \in Nat /\ batch' \in 0 .. BatchSize /\ ready' \in Nat
      BY <1>6 DEF BatchWaited
    <3> QED
      BY <3>1, <3>2, <3>3, <3>4 DEF ResultsTyped
  <2>2. CallFits' /\ NumbersFit' /\ Undecided' /\ MaxWithinLimits'
    BY <1>6, <1>0 DEF BatchWaited, RampEnds, Return, Outcomes,
       CallFits, NumbersFit, Undecided, MaxWithinLimits,
       Ramping, Early, Creating, Waiting, InBatch
  <2>3. NamesFit'
    BY <1>6, <1>0 DEF BatchWaited, RampEnds, Return, CallFits, NumbersFit, NamesFit, Top,
       Early, Ramping, Creating, Waiting, InBatch, Outcomes
  <2> QED
    BY <2>1, <2>2, <2>3
<1>7. ASSUME CountVMIs
      PROVE  IInv'
  <2>1. TypeOK'
    <3>1. ClusterTypeOK'
      BY <1>7 DEF CountVMIs, ClusterTypeOK
    <3>2. ResourceTypeOK'
      BY <1>7 DEF CountVMIs
    <3>3. ResultsTyped'
      BY <1>7, <1>e DEF CountVMIs, ResultsTyped, Pcs, Ramping, Stops, RunErrs
    <3>4. maxReady' \in Nat /\ batch' \in 0 .. BatchSize /\ ready' \in Nat
      BY <1>7, CountFits DEF CountVMIs
    <3> QED
      BY <3>1, <3>2, <3>3, <3>4 DEF ResultsTyped
  <2>2. CallFits' /\ NumbersFit' /\ Undecided' /\ MaxWithinLimits'
    BY <1>7, <1>0, CountFits DEF CountVMIs, RampEnds, Outcomes,
       CallFits, NumbersFit, Undecided, MaxWithinLimits,
       Ramping, Early, Creating, Waiting, InBatch
  <2>3. NamesFit'
    BY <1>7, <1>0, CountFits DEF CountVMIs, RampEnds, CallFits, NumbersFit, NamesFit, Top,
       Early, Ramping, Creating, Waiting, InBatch, Outcomes
  <2> QED
    BY <2>1, <2>2, <2>3
<1>8. ASSUME CheckHealth
      PROVE  IInv'
  <2>1. TypeOK'
    <3>1. ClusterTypeOK'
      BY <1>8 DEF CheckHealth, ClusterTypeOK
    <3>2. ResourceTypeOK'
      BY <1>8 DEF CheckHealth
    <3>3. ResultsTyped'
      BY <1>8, <1>e DEF CheckHealth, ResultsTyped, Pcs, Ramping, Stops, RunErrs
    <3>4. maxReady' \in Nat /\ batch' \in 0 .. BatchSize /\ ready' \in Nat
      BY <1>8 DEF CheckHealth
    <3> QED
      BY <3>1, <3>2, <3>3, <3>4 DEF ResultsTyped
  <2>2. UNCHANGED <<batch, ready, call, todo, present, inFlight>> /\ pc = "health"
    BY <1>8 DEF CheckHealth
  <2>3. CASE maxReady' = maxReady /\ pc' = "metrics"
    BY <2>1, <2>2, <2>3 DEF CallFits, NumbersFit, Undecided, NamesFit, MaxWithinLimits,
       Early, Ramping, Creating, Waiting, InBatch
  <2>4. CASE maxReady' = ready /\ pc' = "metrics"
    BY <2>1, <2>2, <2>4 DEF CallFits, NumbersFit, Undecided, NamesFit, MaxWithinLimits,
       Early, Ramping, Creating, Waiting, InBatch
  <2>5. CASE /\ maxReady' = ready /\ pc' = "loop" /\ (MaxVMs > 0 => maxReady' < MaxVMs)
             /\ UNCHANGED <<stop, runErr, cases>>
    <3>1. ready = maxReady + batch /\ ready <= Capacity /\ ready \in Nat
      BY <2>2 DEF NumbersFit
    <3>2. Top' = Top
      BY <2>2, <2>5, <3>1 DEF Top
    <3>3. CallFits' /\ NumbersFit' /\ Undecided' /\ MaxWithinLimits'
      BY <2>2, <2>5, <3>1 DEF CallFits, NumbersFit, Undecided, MaxWithinLimits,
         Early, Ramping, Creating, Waiting, InBatch
    <3>4. NamesFit'
      BY <2>2, <2>5, <3>2 DEF NamesFit, Early, Ramping
    <3> QED
      BY <2>1, <3>3, <3>4
  <2> QED
    BY <1>8, <2>3, <2>4, <2>5 DEF CheckHealth, RampEnds, LimitReached
<1> QED
  BY <1>1, <1>2, <1>3, <1>4, <1>5, <1>6, <1>7, <1>8

\* The clean-ups, of the warm-up and of the run, keep the invariant.
LEMMA CleanupKeepsInv ==
  ASSUME IInv
  PROVE  (\/ CollectMetrics \/ DeleteAll \/ DeleteFails
          \/ PollEmpty \/ PollStrip \/ PollFails \/ PollTimesOut) => IInv'
<1> SUFFICES ASSUME \/ CollectMetrics \/ DeleteAll \/ DeleteFails
                    \/ PollEmpty \/ PollStrip \/ PollFails \/ PollTimesOut
             PROVE  IInv'
  OBVIOUS
<1> USE DEF IInv, TypeOK
\* What all of them have in common.
<1>1. /\ UNCHANGED <<maxReady, batch, ready, stop, runErr>>
      /\ UNCHANGED <<call, todo, unanswered, waitFor, apiErr, cancelled, timer, inFlight>>
  BY DEF CollectMetrics, DeleteAll, DeleteFails, PollEmpty, PollStrip, PollFails,
     PollTimesOut, rampVars, resourceVars, clusterVars, DeleteThese, Strip
<1>2. present' \subseteq present
  BY DEF CollectMetrics, DeleteAll, DeleteFails, PollEmpty, PollStrip, PollFails,
     PollTimesOut, clusterVars, DeleteThese, Strip, Drop
<1>3. ClusterTypeOK'
  <2>1. CASE UNCHANGED clusterVars
    BY <2>1 DEF clusterVars, ClusterTypeOK
  <2>2. CASE \E some \in SUBSET present : DeleteThese(some) \/ Strip(some)
    BY <2>2, RequestsKeepClusterType
  <2>3. aged \subseteq present /\ Strippable \subseteq present
    BY DEF ClusterTypeOK, Strippable
  <2>4. UNCHANGED clusterVars \/ \E some \in SUBSET present : DeleteThese(some) \/ Strip(some)
    BY <2>3 DEF CollectMetrics, DeleteAll, DeleteFails, PollEmpty, PollStrip, PollFails,
       PollTimesOut
  <2> QED
    BY <2>1, <2>2, <2>4
<1>4. cases' \in [Cases -> {"none", "PASS", "ERROR"}] /\ suiteErr' \in BOOLEAN
  BY DEF CollectMetrics, DeleteAll, DeleteFails, PollEmpty, PollStrip, PollFails,
     PollTimesOut, CleanupFails, resultVars, Cases
<1>5. \/ pc' = pc /\ pc \in {"warm poll", "poll"}
      \/ pc = "warm delete" /\ pc' = "warm poll"
      \/ pc = "warm poll" /\ pc' = "baseline" /\ present = {}
      \/ pc' \in {"delete", "poll", "done"}
  BY DEF CollectMetrics, DeleteAll, DeleteFails, PollEmpty, PollStrip, PollFails,
     PollTimesOut, Goto, CleanupFails, Deleting, Polling, ListEmpty
<1>6. cases'["create"] = cases["create"] \/ pc' \in {"delete", "poll", "done"}
  BY <1>5 DEF CollectMetrics, DeleteAll, DeleteFails, PollEmpty, PollStrip, PollFails,
     PollTimesOut, Goto, CleanupFails, Deleting, Polling, resultVars
<1>7. TypeOK'
  BY <1>1, <1>3, <1>4, <1>5 DEF ResourceTypeOK, Pcs
<1>8. CallFits'
  <2>1. call = "idle"
    BY DEF CollectMetrics, DeleteAll, DeleteFails, PollEmpty, PollStrip, PollFails,
       PollTimesOut, Goto, Deleting, Polling, CallFits, Creating, Waiting
  <2> QED
    BY <1>1, <1>5, <2>1 DEF CallFits, Creating, Waiting
<1>9. NumbersFit' /\ Undecided' /\ MaxWithinLimits'
  BY <1>1, <1>5, <1>6 DEF NumbersFit, Undecided, MaxWithinLimits, Early, Ramping, InBatch
<1>10. NamesFit'
  BY <1>1, <1>2, <1>5 DEF NamesFit, Early, Ramping
<1> QED
  BY <1>7, <1>8, <1>9, <1>10

\* A run starts in the invariant.
LEMMA IInvInit == Init => IInv
<1> SUFFICES ASSUME Init PROVE IInv
  OBVIOUS
<1>1. TypeOK
  <2>1. ClusterTypeOK
    BY FS_EmptySet, CapacityAssumption DEF Init, ClusterInit, ClusterTypeOK
  <2>2. ResourceTypeOK
    BY DEF Init, ResourceInit, ResourceTypeOK
  <2>3. cases \in [Cases -> {"none", "PASS", "ERROR"}]
    BY DEF Init
  <2>4. maxReady \in Nat /\ batch \in 0 .. BatchSize /\ ready \in Nat
    BY OptionAssumption DEF Init
  <2>5. /\ pc \in Pcs /\ suiteErr \in BOOLEAN
        /\ stop \in Stops \cup {"none"} /\ runErr \in RunErrs \cup {"none"}
    BY DEF Init, Pcs
  <2> QED
    BY <2>1, <2>2, <2>3, <2>4, <2>5 DEF TypeOK
<1>2. CallFits /\ NumbersFit /\ Undecided /\ NamesFit /\ MaxWithinLimits
  BY CapacityAssumption, OptionAssumption
  DEF Init, ClusterInit, ResourceInit, CallFits, NumbersFit, Undecided, NamesFit,
      MaxWithinLimits, Early, Ramping, Creating, Waiting, InBatch, Cases
<1> QED
  BY <1>1, <1>2 DEF IInv

\* Every step keeps the invariant.
LEMMA IInvNext == IInv /\ [Next]_vars => IInv'
<1> SUFFICES ASSUME IInv, [Next]_vars PROVE IInv'
  OBVIOUS
<1>1. CASE SuiteStep
  <2>1. CASE NamespaceNotReady \/ WarmUpCreate \/ WarmUpWait \/ WarmUpRan \/ WarmUpFails
    BY <2>1, WarmUpKeepsInv
  <2>2. CASE \/ Baseline \/ NextBatch \/ LoopCancelled \/ BatchCreateFails \/ BatchWait
             \/ BatchWaited \/ CountVMIs \/ CheckHealth
    BY <2>2, RampKeepsInv
  <2>3. CASE \/ CollectMetrics \/ DeleteAll \/ DeleteFails
             \/ PollEmpty \/ PollStrip \/ PollFails \/ PollTimesOut
    BY <2>3, CleanupKeepsInv
  <2> QED
    BY <1>1, <2>1, <2>2, <2>3 DEF SuiteStep
<1>2. CASE LibraryStep
  BY <1>2, LibraryKeepsInv
<1>3. CASE OutsideStep
  BY <1>3, OutsideKeepsInv
<1>4. CASE UNCHANGED vars
  <2>1. UNCHANGED <<pc, maxReady, batch, ready, stop, runErr, cases, suiteErr>>
    BY <1>4 DEF vars, rampVars, resultVars
  <2>2. UNCHANGED <<call, todo, unanswered, waitFor, apiErr, cancelled, timer>>
    BY <1>4 DEF vars, resourceVars
  <2>3. UNCHANGED <<present, running, failed, deleting, aged, inFlight>>
    BY <1>4 DEF vars, clusterVars
  <2>4. TypeOK'
    BY <2>1, <2>2, <2>3 DEF IInv, TypeOK, ClusterTypeOK, ResourceTypeOK
  <2>5. CallFits' /\ NumbersFit' /\ Undecided' /\ MaxWithinLimits'
    BY <2>1, <2>2 DEF IInv, CallFits, NumbersFit, Undecided, MaxWithinLimits
  <2>6. NamesFit'
    BY <2>1, <2>2, <2>3 DEF IInv, NamesFit, Top
  <2> QED
    BY <2>4, <2>5, <2>6 DEF IInv
<1> QED
  BY <1>1, <1>2, <1>3, <1>4 DEF Next, Returned

\* IInv holds in every reachable state.
THEOREM Invariance == Spec => []IInv
BY IInvInit, IInvNext, PTL DEF Spec

\* Type correctness: every variable keeps its type, and the cluster never
\* runs more VMIs than it can.
THEOREM TypeCorrect == Spec => []TypeOK
BY Invariance, PTL DEF IInv

\* The capacity the suite reports is never larger than what the cluster can
\* run nor than maxVMs, whatever fails and in whatever order.
THEOREM MaxIsSafe == Spec => []MaxWithinLimits
BY Invariance, PTL DEF IInv

-----------------------------------------------------------------------------
(* Verdicts.                                                               *)

\* A step leaves what the ramp has found alone, or ends the ramp with one
\* error, which is no capacity stop once the command is cancelled, or
\* confirms a batch.
Untouched ==
  /\ UNCHANGED <<maxReady, stop, runErr>>
  /\ cases'["create"] = "none" <=> cases["create"] = "none"

Ended ==
  /\ pc \in {"baseline"} \cup Ramping
  /\ maxReady' = maxReady
  /\ \/ stop' \in Stops /\ runErr' = "none" /\ ~cancelled
     \/ stop' = "none" /\ runErr' \in RunErrs
  /\ cases'["create"] # "none"

Confirmed ==
  /\ pc = "health"
  /\ maxReady' = ready
  /\ stop' = "none" /\ runErr' = "none"
  /\ \/ LimitReached /\ cases'["create"] # "none"
     \/ ~LimitReached /\ cases'["create"] = "none"

\* Every step leaves the verdict alone, ends the ramp or confirms a batch.
LEMMA StepKinds == IInv /\ [Next]_vars => Untouched \/ Ended \/ Confirmed
<1> SUFFICES ASSUME IInv, [Next]_vars
             PROVE  Untouched \/ Ended \/ Confirmed
  OBVIOUS
<1> USE DEF Goto, rampVars, resultVars
<1>1. cases \in [Cases -> {"none", "PASS", "ERROR"}]
  BY DEF IInv, TypeOK
<1>2. \A s \in Stops \cup {"none"}, e \in RunErrs \cup {"none"} :
        RampEnds(s, e) => stop' = s /\ runErr' = e /\ cases'["create"] # "none"
  BY <1>1 DEF RampEnds, CreateState, Cases
<1>3. CASE LibraryStep \/ OutsideStep \/ UNCHANGED vars
  BY <1>3 DEF LibraryStep, OutsideStep, vars, Untouched
<1>4. CASE NamespaceNotReady \/ WarmUpCreate \/ WarmUpWait \/ WarmUpRan \/ WarmUpFails
  BY <1>1, <1>4 DEF NamespaceNotReady, WarmUpCreate, WarmUpWait, WarmUpRan, WarmUpFails,
     Untouched, Cases
<1>5. CASE \/ CollectMetrics \/ DeleteAll \/ DeleteFails
           \/ PollEmpty \/ PollStrip \/ PollFails \/ PollTimesOut
  BY <1>1, <1>5 DEF CollectMetrics, DeleteAll, DeleteFails, PollEmpty, PollStrip, PollFails,
     PollTimesOut, CleanupFails, Untouched, Cases
<1>6. CASE NextBatch \/ BatchWait
  BY <1>6 DEF NextBatch, BatchWait, Untouched
<1>7. CASE Baseline
  BY <1>2, <1>7 DEF Baseline, Untouched, Ended, Stops, RunErrs
<1>8. CASE LoopCancelled \/ BatchCreateFails
  BY <1>2, <1>8 DEF LoopCancelled, BatchCreateFails, Ended, Ramping, Stops, RunErrs
<1>9. CASE BatchWaited
  BY <1>2, <1>9 DEF BatchWaited, RampDone, Untouched, Ended, Ramping, Stops, RunErrs
<1>10. CASE CountVMIs
  BY <1>2, <1>10 DEF CountVMIs, Untouched, Ended, Ramping, Stops, RunErrs
<1>11. CASE CheckHealth
  <2>1. pc = "health" /\ stop = "none" /\ runErr = "none" /\ cases["create"] = "none"
    BY <1>11 DEF CheckHealth, IInv, Undecided, Ramping
  <2>2. CASE /\ UNCHANGED maxReady
             /\ \/ RampEnds("none", "cancelled") \/ RampEnds("none", "health")
                \/ ~cancelled /\ RampEnds("health", "none")
    BY <1>2, <2>1, <2>2 DEF Ended, Ramping, Stops, RunErrs
  <2>3. CASE /\ maxReady' = ready
             /\ \/ LimitReached /\ RampEnds("none", "none")
                \/ ~LimitReached /\ UNCHANGED <<stop, runErr, resultVars>>
    BY <1>2, <2>1, <2>3 DEF Confirmed, Stops, RunErrs
  <2> QED
    BY <1>11, <2>2, <2>3 DEF CheckHealth, RampDone
<1> QED
  BY <1>3, <1>4, <1>5, <1>6, <1>7, <1>8, <1>9, <1>10, <1>11 DEF Next, SuiteStep, Returned

\* The comment of createVMIsInBatches holds: at most one of the two errors,
\* and none only for a ramp that reached maxVMs.
THEOREM OneVerdictAlways == Spec => []OneVerdict
<1>1. Init => OneVerdict
  BY DEF Init, OneVerdict, Cases
<1>2. IInv /\ OneVerdict /\ [Next]_vars => OneVerdict'
  <2> SUFFICES ASSUME IInv, OneVerdict, [Next]_vars PROVE OneVerdict'
    OBVIOUS
  <2>1. MaxWithinLimits' /\ maxReady' \in Nat /\ MaxVMs \in Nat
    BY IInvNext, OptionAssumption DEF IInv, TypeOK
  <2> QED
    BY <2>1, StepKinds DEF Untouched, Ended, Confirmed, LimitReached, OneVerdict,
       MaxWithinLimits, Stops, RunErrs
<1> QED
  BY <1>1, <1>2, Invariance, PTL DEF Spec

\* No signal is ever reported as a capacity.
THEOREM CancelSafe == Spec => CancelIsNoCapacity
<1>1. IInv /\ [Next]_vars => [cancelled => stop' = stop]_vars
  <2> SUFFICES ASSUME IInv, [Next]_vars, cancelled
               PROVE  stop' = stop
    OBVIOUS
  <2>1. pc \in {"baseline"} \cup Ramping => stop = "none"
    BY DEF IInv, Undecided, Early
  <2> QED
    BY <2>1, StepKinds DEF Untouched, Ended, Confirmed, Ramping
<1> QED
  BY <1>1, Invariance, PTL DEF Spec, CancelIsNoCapacity

-----------------------------------------------------------------------------
(* What the count means.                                                   *)

\* During the ramp only VMIs of the ramp exist, none posted twice.
THEOREM RampAlwaysClean == Spec => []RampIsClean
<1>1. IInv => RampIsClean
  BY DEF IInv, NamesFit, RampIsClean, Top
<1> QED
  BY <1>1, Invariance, PTL

\* n of at most n VMIs are all of them.
LEMMA AllOfThem ==
  ASSUME NEW n \in Nat, NEW S \in SUBSET (0 .. n - 1), Cardinality(S) = n
  PROVE  S = 0 .. n - 1
<1>1. IsFiniteSet(0 .. n - 1) /\ Cardinality(0 .. n - 1) = n
  <2>1. 0 \in Int /\ n - 1 \in Int
    OBVIOUS
  <2>2. /\ IsFiniteSet(0 .. n - 1)
        /\ Cardinality(0 .. n - 1) = IF 0 > n - 1 THEN 0 ELSE (n - 1) - 0 + 1
    BY <2>1, FS_Interval, Zenon
  <2> QED
    BY <2>2
<1> QED
  BY <1>1, FS_Subset

\* The count that leads to the health check proves that every VMI posted so
\* far runs at that moment.
THEOREM CountAlwaysExact == Spec => CountIsExact
<1>1. IInv /\ [Next]_vars =>
        [pc = "count" /\ pc' = "health" => running = 0 .. maxReady + batch - 1]_vars
  <2> SUFFICES ASSUME IInv, [Next]_vars, pc = "count", pc' = "health"
               PROVE  running = 0 .. maxReady + batch - 1
    OBVIOUS
  <2>1. CountVMIs
    BY DEF Next, SuiteStep, LibraryStep, OutsideStep, Returned, vars, Goto, RampEnds,
       NamespaceNotReady, WarmUpCreate, WarmUpWait, WarmUpRan, WarmUpFails,
       Baseline, NextBatch, LoopCancelled, BatchCreateFails, BatchWait, BatchWaited,
       CheckHealth, CollectMetrics, Deleting, Polling,
       DeleteAll, DeleteFails, PollEmpty, PollStrip, PollFails, PollTimesOut
  <2> DEFINE n == maxReady + batch
  <2>2. Cardinality(running) = n
    BY <2>1 DEF CountVMIs, Counted, RampEnds
  <2>3. running \in SUBSET (0 .. n - 1)
    BY DEF IInv, TypeOK, ClusterTypeOK, NamesFit, Top, Ramping
  <2>4. n \in Nat
    BY OptionAssumption DEF IInv, TypeOK
  <2> HIDE DEF n
  <2>5. running = 0 .. n - 1
    BY <2>2, <2>3, <2>4, AllOfThem
  <2>6. maxReady + batch - 1 = n - 1
    BY OptionAssumption DEF IInv, TypeOK, n
  <2> QED
    BY <2>5, <2>6
<1> QED
  BY <1>1, Invariance, PTL DEF Spec, CountIsExact

-----------------------------------------------------------------------------
(* The load on the cluster, and what is left of it.                        *)

\* The VMIs there are or may still come to be.
Alive == present \cup inFlight

AliveIsBounded == IsFiniteSet(Alive) /\ LoadBounded

\* In the ramp the names bound the load.
RampLoadFits == pc \in Ramping => AliveIsBounded

\* Elsewhere only the warm-up adds to it, before the ramp.
LoadFits ==
  /\ pc \in Early => Alive \subseteq {WarmUp}
  /\ AliveIsBounded

\* The warm-up or the capacity is an error of the run.
Errored == \E c \in {"warmup", "create"} : cases[c] = "ERROR"

\* A Create that was not answered ends in an error, and the deferred clean-up
\* finds either an error or a capacity to put its own on.
ErrorsFit ==
  /\ unanswered # {} => Errored \/ (pc \in Creating /\ call = "error")
  /\ pc \in {"delete", "poll"} => Errored \/ cases["create"] # "none"
  /\ pc = "metrics" => cases["create"] # "none"

\* What may still land is a Create that returned an error; the clean-up has
\* reported whatever else is left.
LeakFits ==
  /\ inFlight \subseteq unanswered
  /\ pc = "done" /\ ~(present \subseteq unanswered)
       => suiteErr /\ cases["create"] # "PASS" /\ Errored

\* All that is left of the bounds of a subset.
LEMMA FewerAreBounded ==
  ASSUME NEW some, NEW fewer \in SUBSET some, IsFiniteSet(some),
         NEW bound \in Nat, Cardinality(some) <= bound
  PROVE  IsFiniteSet(fewer) /\ Cardinality(fewer) <= bound
<1>1. /\ IsFiniteSet(fewer) /\ Cardinality(fewer) <= Cardinality(some)
      /\ Cardinality(fewer) \in Nat /\ Cardinality(some) \in Nat
  BY FS_Subset, FS_CardinalityType
<1> QED
  BY <1>1

\* The names of the ramp leave room for no more than one batch above what was
\* confirmed, and for none above the limit.
LEMMA NamesBound == IInv => RampLoadFits
<1> SUFFICES ASSUME IInv, pc \in Ramping PROVE AliveIsBounded
  BY DEF RampLoadFits
<1> DEFINE n == Top + 1
<1>1. Alive \subseteq 0 .. Top
  BY DEF IInv, NamesFit, Alive
<1>2. /\ maxReady \in Nat /\ batch \in Nat /\ batch <= BatchSize /\ maxReady <= Capacity
      /\ MaxVMs > 0 => maxReady <= MaxVMs
  BY OptionAssumption DEF IInv, TypeOK, MaxWithinLimits
<1>3. pc # "loop" => (MaxVMs > 0 => maxReady + batch <= MaxVMs)
  BY DEF IInv, NumbersFit, Ramping, InBatch
<1>4. /\ Top \in Int /\ n \in Nat /\ n <= Capacity + BatchSize /\ (MaxVMs > 0 => n <= MaxVMs)
  BY <1>2, <1>3, OptionAssumption, CapacityAssumption DEF Top
<1>5. IsFiniteSet(0 .. Top) /\ Cardinality(0 .. Top) = n
  BY <1>4, FS_Interval
<1> HIDE DEF n
<1>6. /\ IsFiniteSet(Alive) /\ Cardinality(Alive) <= n
      /\ Cardinality(Alive) \in Nat
  <2>1. Cardinality(0 .. Top) <= n
    BY <1>4, <1>5
  <2>2. IsFiniteSet(Alive) /\ Cardinality(Alive) <= n
    BY <1>1, <1>4, <1>5, <2>1, FewerAreBounded
  <2> QED
    BY <2>2, FS_CardinalityType
<1>7. Capacity + BatchSize \in Nat /\ MaxVMs \in Nat
  BY OptionAssumption, CapacityAssumption
<1>8. Cardinality(Alive) <= Capacity + BatchSize /\ (MaxVMs > 0 => Cardinality(Alive) <= MaxVMs)
  BY <1>4, <1>6, <1>7
<1> QED
  BY <1>6, <1>8 DEF AliveIsBounded, LoadBounded, Alive

\* The VMI of the warm-up is never too many.
LEMMA WarmUpBound ==
  ASSUME NEW S \in SUBSET {WarmUp}
  PROVE  /\ IsFiniteSet(S) /\ Cardinality(S) <= Capacity + BatchSize
         /\ MaxVMs > 0 => Cardinality(S) <= MaxVMs
<1>1. IsFiniteSet({WarmUp}) /\ Cardinality({WarmUp}) = 1
  BY FS_Singleton
<1>2. IsFiniteSet(S) /\ Cardinality(S) <= 1
  BY <1>1, FewerAreBounded
<1>3. Cardinality(S) \in Nat
  BY <1>2, FS_CardinalityType
<1> QED
  BY <1>2, <1>3, OptionAssumption, CapacityAssumption

\* Nothing but a Create adds a VMI.
Shrinks == Alive' \subseteq Alive /\ inFlight' \subseteq inFlight /\ unanswered' = unanswered

Creates == LibraryStep /\ (CreateOne \/ CreateFails)

\* What the other steps of the library and the cluster do.
LEMMA LibraryShrinks == LibraryStep \/ OutsideStep => Creates \/ Shrinks
<1>1. CASE OutsideStep
  BY <1>1, ClusterAddsNothing DEF OutsideStep, resourceVars, Shrinks, Alive
<1>2. CASE LibraryStep /\ ~(CreateOne \/ CreateFails)
  <2>1. UNCHANGED <<unanswered, clusterVars>>
    BY <1>2 DEF LibraryStep, ResourceStep, Cancel, Expire, ObserveRunning, ObserveDeleted,
       ObserveFailed, RecordApiError, WaitInterrupted, WaitFailed
  <2> QED
    BY <2>1 DEF clusterVars, Shrinks, Alive
<1> QED
  BY <1>1, <1>2 DEF Creates

\* So do the steps of RunE.
LEMMA SuiteShrinks == SuiteStep => Shrinks
<1> USE DEF Shrinks, Alive, resourceVars, clusterVars
<1>1. CASE NamespaceNotReady \/ WarmUpCreate \/ WarmUpWait \/ WarmUpRan \/ WarmUpFails
  BY <1>1 DEF NamespaceNotReady, WarmUpCreate, WarmUpWait, WarmUpRan, WarmUpFails, CallCreate,
     CallWait, Return
<1>2. CASE Baseline \/ NextBatch \/ LoopCancelled \/ BatchCreateFails \/ BatchWait
  BY <1>2 DEF Baseline, NextBatch, LoopCancelled, BatchCreateFails, BatchWait, CallCreate,
     CallWait, Return
<1>3. CASE BatchWaited \/ CountVMIs \/ CheckHealth \/ CollectMetrics
  BY <1>3 DEF BatchWaited, CountVMIs, CheckHealth, CollectMetrics, Return
<1>4. CASE DeleteAll \/ DeleteFails \/ PollEmpty \/ PollStrip \/ PollFails \/ PollTimesOut
  BY <1>4 DEF DeleteAll, DeleteFails, PollEmpty, PollStrip, PollFails, PollTimesOut,
     DeleteThese, Strip, Drop
<1> QED
  BY <1>1, <1>2, <1>3, <1>4 DEF SuiteStep

\* The warm-up is left for good.
LEMMA NoWayBack == [Next]_vars /\ pc' \in Early => pc \in Early
<1> SUFFICES ASSUME [Next]_vars, pc' \in Early PROVE pc \in Early
  OBVIOUS
<1> USE DEF Early
<1>1. CASE LibraryStep \/ OutsideStep \/ UNCHANGED vars
  BY <1>1 DEF LibraryStep, OutsideStep, vars
<1>2. CASE NamespaceNotReady \/ WarmUpCreate \/ WarmUpWait \/ WarmUpRan \/ WarmUpFails
  BY <1>2 DEF NamespaceNotReady, WarmUpCreate, WarmUpWait, WarmUpRan, WarmUpFails, Goto
<1>3. CASE Baseline \/ NextBatch \/ LoopCancelled \/ BatchCreateFails \/ BatchWait
  BY <1>3 DEF Baseline, NextBatch, LoopCancelled, BatchCreateFails, BatchWait, Goto, RampEnds
<1>4. CASE BatchWaited \/ CountVMIs \/ CheckHealth \/ CollectMetrics
  BY <1>4 DEF BatchWaited, CountVMIs, CheckHealth, CollectMetrics, Goto, RampEnds
<1>5. CASE DeleteAll \/ DeleteFails \/ PollEmpty \/ PollStrip \/ PollFails \/ PollTimesOut
  BY <1>5 DEF DeleteAll, DeleteFails, PollEmpty, PollStrip, PollFails, PollTimesOut, Deleting,
     Polling, CleanupFails
<1> QED
  BY <1>1, <1>2, <1>3, <1>4, <1>5 DEF Next, SuiteStep, Returned

\* The load stays within its bounds, whatever lands late.
LEMMA LoadNext == IInv /\ LoadFits /\ RampLoadFits' /\ [Next]_vars => LoadFits'
<1> SUFFICES ASSUME IInv, LoadFits, RampLoadFits', [Next]_vars PROVE LoadFits'
  OBVIOUS
<1>1. Shrinks \/ Creates
  BY LibraryShrinks, SuiteShrinks
    DEF Next, Returned, vars, resourceVars, clusterVars, Shrinks, Alive
<1>2. CASE Shrinks
  <2>1. pc' \in Early => Alive' \subseteq {WarmUp}
    BY <1>2, NoWayBack DEF LoadFits, Shrinks
  <2>2. Capacity + BatchSize \in Nat /\ MaxVMs \in Nat
    BY OptionAssumption, CapacityAssumption
  <2>3. /\ IsFiniteSet(Alive) /\ Cardinality(Alive) <= Capacity + BatchSize
        /\ MaxVMs > 0 => Cardinality(Alive) <= MaxVMs
    BY DEF LoadFits, AliveIsBounded, LoadBounded, Alive
  <2>4. Alive' \in SUBSET Alive
    BY <1>2 DEF Shrinks
  <2>5. IsFiniteSet(Alive') /\ Cardinality(Alive') <= Capacity + BatchSize
    BY <2>2, <2>3, <2>4, FewerAreBounded
  <2>6. MaxVMs > 0 => Cardinality(Alive') <= MaxVMs
    BY <2>2, <2>3, <2>4, FewerAreBounded
  <2> QED
    BY <2>1, <2>5, <2>6 DEF LoadFits, AliveIsBounded, LoadBounded, Alive
<1>3. CASE Creates
  <2>1. pc' = pc /\ pc \in Creating
    BY <1>3 DEF Creates, LibraryStep, CreateOne, CreateFails, IInv, CallFits, Waiting, Outcomes
  <2>2. PICK n \in todo : Alive' \subseteq Alive \cup {n}
    BY <1>3 DEF Creates, CreateOne, CreateFails, CreateAccepted, CreateUnanswered, Alive
  <2>3. CASE pc = "create"
    BY <2>1, <2>3 DEF RampLoadFits, Ramping, LoadFits, Early
  <2>4. CASE pc = "warm create"
    <3>1. Alive' \subseteq {WarmUp}
      BY <2>2, <2>4 DEF IInv, NamesFit, LoadFits, Early
    <3>2. AliveIsBounded'
      BY <3>1, WarmUpBound DEF AliveIsBounded, LoadBounded, Alive
    <3> QED
      BY <3>1, <3>2 DEF LoadFits
  <2> QED
    BY <2>1, <2>3, <2>4 DEF Creating
<1> QED
  BY <1>1, <1>2, <1>3

\* The run never loads the cluster with more VMIs than its limit, or, with
\* none, with more than a batch above what fits.
THEOREM LoadAlwaysBounded == Spec => []LoadBounded
<1>1. Init => LoadFits
  <2> SUFFICES ASSUME Init PROVE LoadFits
    OBVIOUS
  <2>1. Alive \subseteq {WarmUp}
    BY DEF Init, ClusterInit, Alive
  <2> QED
    BY <2>1, WarmUpBound DEF LoadFits, AliveIsBounded, LoadBounded, Alive
<1>2. LoadFits => LoadBounded
  BY DEF LoadFits, AliveIsBounded
<1> QED
  BY <1>1, <1>2, Invariance, NamesBound, LoadNext, PTL DEF Spec

\* An error of a case is never taken back.
LEMMA ErroredStays == IInv /\ Errored /\ [Next]_vars => Errored'
<1> SUFFICES ASSUME IInv, Errored, [Next]_vars PROVE Errored'
  OBVIOUS
<1> USE DEF Errored
<1>1. cases \in [Cases -> {"none", "PASS", "ERROR"}]
  BY DEF IInv, TypeOK
<1>2. CASE UNCHANGED cases
  BY <1>2
<1>3. CASE \E c \in Cases : cases' = [cases EXCEPT ![c] = "ERROR"]
  BY <1>1, <1>3 DEF Cases
<1>4. CASE pc \in Early \cup Ramping /\ \E s : cases' = [cases EXCEPT !["create"] = s]
  BY <1>1, <1>4 DEF IInv, Undecided, Cases
<1>5. CASE \E s : cases' = [cases EXCEPT !["metrics"] = s]
  BY <1>1, <1>5 DEF Cases
<1>6. CASE LibraryStep \/ OutsideStep \/ Returned \/ UNCHANGED vars
  BY <1>2, <1>6 DEF LibraryStep, OutsideStep, Returned, vars, resultVars
<1>7. CASE NamespaceNotReady \/ WarmUpCreate \/ WarmUpWait \/ WarmUpRan \/ NextBatch
           \/ BatchWait \/ DeleteAll \/ PollEmpty \/ PollStrip
  BY <1>2, <1>7 DEF NamespaceNotReady, WarmUpCreate, WarmUpWait, WarmUpRan, NextBatch,
     BatchWait, DeleteAll, PollEmpty, PollStrip, resultVars
<1>8. CASE WarmUpFails
  BY <1>3, <1>8 DEF WarmUpFails, Cases
<1>9. CASE Baseline \/ LoopCancelled \/ BatchCreateFails \/ BatchWaited
  BY <1>2, <1>4, <1>9 DEF Baseline, LoopCancelled, BatchCreateFails, BatchWaited, RampEnds,
     Early, Ramping, resultVars
<1>10. CASE CountVMIs \/ CheckHealth
  BY <1>2, <1>4, <1>10 DEF CountVMIs, CheckHealth, RampEnds, Ramping, resultVars
<1>11. CASE CollectMetrics
  BY <1>5, <1>11 DEF CollectMetrics
<1>12. CASE DeleteFails \/ PollFails \/ PollTimesOut
  <2>1. CleanupFails
    BY <1>12 DEF DeleteFails, PollFails, PollTimesOut
  <2> QED
    BY <1>1, <2>1 DEF CleanupFails, Cases
<1> QED
  BY <1>6, <1>7, <1>8, <1>9, <1>10, <1>11, <1>12 DEF Next, SuiteStep

\* Where RunE goes on to the metrics, the capacity has a result.
LEMMA RampEndsDecides ==
  ASSUME TypeOK, NEW newStop, NEW newErr, RampEnds(newStop, newErr)
  PROVE  pc' = "metrics" /\ cases'["create"] # "none" /\ (newErr # "none" => Errored')
BY DEF RampEnds, CreateState, TypeOK, Cases, Errored

\* A Create without an answer and a clean-up that fails both show as errors.
LEMMA ErrorsNext == IInv /\ ErrorsFit /\ [Next]_vars => ErrorsFit'
<1> SUFFICES ASSUME IInv, ErrorsFit, [Next]_vars PROVE ErrorsFit'
  OBVIOUS
<1>1. Errored => Errored'
  BY ErroredStays
<1>2. cases \in [Cases -> {"none", "PASS", "ERROR"}] /\ TypeOK
  BY DEF IInv, TypeOK
<1>3. CASE Creates
  <2>1. pc' = pc /\ pc \in Creating
    BY <1>3 DEF Creates, LibraryStep, CreateOne, CreateFails, IInv, CallFits, Waiting, Outcomes
  <2>2. (unanswered' = unanswered /\ call = "creating") \/ call' = "error"
    BY <1>3 DEF Creates, CreateOne, CreateFails
  <2> QED
    BY <1>1, <2>1, <2>2 DEF ErrorsFit, Creating
<1>4. CASE (LibraryStep \/ OutsideStep \/ Returned \/ UNCHANGED vars) /\ ~Creates
  <2>1. UNCHANGED <<pc, cases, unanswered>>
    BY <1>4, LibraryShrinks DEF LibraryStep, OutsideStep, Returned, vars, resourceVars,
       resultVars, Shrinks
  <2>2. pc \in Creating /\ call = "error" => call' = "error"
    BY <1>4 DEF LibraryStep, OutsideStep, Returned, vars, resourceVars, ResourceStep, Cancel,
       Expire, CreateOne, CreateFails, ObserveRunning, ObserveDeleted, ObserveFailed,
       RecordApiError, WaitInterrupted, WaitFailed
  <2> QED
    BY <1>1, <2>1, <2>2 DEF ErrorsFit
<1>5. CASE SuiteStep
  <2>1. unanswered' = unanswered
    BY <1>5, SuiteShrinks DEF Shrinks
  <2>2. CASE NamespaceNotReady \/ WarmUpCreate \/ WarmUpWait \/ WarmUpRan \/ NextBatch \/ BatchWait
    <3>1. ~(pc \in Creating /\ call = "error")
      BY <2>2 DEF NamespaceNotReady, WarmUpCreate, WarmUpWait, WarmUpRan, NextBatch, BatchWait,
         Goto, Creating, IInv, CallFits, Waiting
    <3>2. pc' \notin {"delete", "poll", "metrics"}
      BY <2>2 DEF NamespaceNotReady, WarmUpCreate, WarmUpWait, WarmUpRan, NextBatch, BatchWait, Goto
    <3> QED
      BY <1>1, <2>1, <3>1, <3>2 DEF ErrorsFit
  <2>3. CASE WarmUpFails
    BY <1>2, <2>1, <2>3 DEF WarmUpFails, ErrorsFit, Errored, Cases
  <2>4. CASE BatchCreateFails
    <3>1. Errored' /\ pc' = "metrics" /\ cases'["create"] # "none"
      BY <1>2, <2>4, RampEndsDecides DEF BatchCreateFails
    <3> QED
      BY <3>1 DEF ErrorsFit
  <2>5. CASE Baseline \/ LoopCancelled \/ BatchWaited \/ CountVMIs \/ CheckHealth
    <3>1. ~(pc \in Creating)
      BY <2>5 DEF Baseline, LoopCancelled, BatchWaited, CountVMIs, CheckHealth, Creating
    <3>2. \/ pc' \in {"loop", "count", "health"}
          \/ \E newStop, newErr : RampEnds(newStop, newErr)
      BY <2>5 DEF Baseline, LoopCancelled, BatchWaited, CountVMIs, CheckHealth
    <3>3. pc' \in {"loop", "count", "health"} \/ (pc' = "metrics" /\ cases'["create"] # "none")
      BY <1>2, <3>2, RampEndsDecides
    <3> QED
      BY <1>1, <2>1, <3>1, <3>3 DEF ErrorsFit
  <2>6. CASE CollectMetrics
    BY <1>1, <1>2, <2>1, <2>6 DEF CollectMetrics, Goto, ErrorsFit, Creating, Cases
  <2>7. CASE DeleteAll \/ PollEmpty \/ PollStrip
    <3>1. /\ pc \notin Creating /\ cases' = cases /\ pc' # "metrics"
          /\ pc' \in {"delete", "poll"} => pc \in {"delete", "poll"}
      BY <2>7 DEF DeleteAll, PollEmpty, PollStrip, Deleting, Polling, Creating, resultVars
    <3> QED
      BY <1>1, <2>1, <3>1 DEF ErrorsFit
  <2>8. CASE DeleteFails \/ PollFails \/ PollTimesOut
    <3>1. CleanupFails /\ pc \in {"warm delete", "warm poll", "delete", "poll"}
      BY <2>8 DEF DeleteFails, PollFails, PollTimesOut, Deleting, Polling
    <3>2. pc' \in {"delete", "done"} /\ (pc' = "delete" => Errored')
      BY <1>2, <3>1 DEF CleanupFails, Errored, Cases
    <3> QED
      BY <1>1, <2>1, <3>1, <3>2 DEF ErrorsFit, Creating
  <2> QED
    BY <1>5, <2>2, <2>3, <2>4, <2>5, <2>6, <2>7, <2>8 DEF SuiteStep
<1> QED
  BY <1>3, <1>4, <1>5 DEF Next

\* Only a Create that returned an error leaves a VMI unnoticed.
LEMMA LeakNext == IInv /\ ErrorsFit /\ LeakFits /\ [Next]_vars => LeakFits'
<1> SUFFICES ASSUME IInv, ErrorsFit, LeakFits, [Next]_vars PROVE LeakFits'
  OBVIOUS
<1>1. inFlight' \subseteq unanswered'
  <2>1. CASE Creates
    BY <2>1 DEF Creates, CreateOne, CreateFails, CreateAccepted, CreateUnanswered, LeakFits
  <2>2. CASE ~Creates
    <3>1. Shrinks
      BY <2>2, LibraryShrinks, SuiteShrinks
      DEF Next, Returned, vars, resourceVars, clusterVars, Shrinks, Alive
    <3> QED
      BY <3>1 DEF Shrinks, LeakFits
  <2> QED
    BY <2>1, <2>2
<1>2. ASSUME pc' = "done", ~(present' \subseteq unanswered')
      PROVE  suiteErr' /\ cases'["create"] # "PASS" /\ Errored'
  <2> USE <1>2
  <2>1. CASE pc = "done"
    <3>1. UNCHANGED <<suiteErr, cases>> /\ Shrinks
      <4>1. ~SuiteStep
        BY <2>1 DEF SuiteStep, NamespaceNotReady, WarmUpCreate, WarmUpWait, WarmUpRan, WarmUpFails,
           Baseline, NextBatch, LoopCancelled, BatchCreateFails, BatchWait, BatchWaited,
           CountVMIs, CheckHealth, CollectMetrics, DeleteAll, DeleteFails, PollEmpty, PollStrip,
           PollFails, PollTimesOut, Goto, Deleting, Polling
      <4>2. ~Creates
        BY <2>1 DEF Creates, CreateOne, CreateFails, IInv, CallFits, Creating, Waiting
      <4>3. Shrinks
        BY <4>1, <4>2, LibraryShrinks
        DEF Next, Returned, vars, resourceVars, clusterVars, Shrinks, Alive
      <4> QED
        BY <4>1, <4>3 DEF Next, LibraryStep, OutsideStep, Returned, vars, resultVars
    <3>2. ~(present \subseteq unanswered)
      BY <3>1 DEF Shrinks, Alive, LeakFits
    <3> QED
      BY <2>1, <3>1, <3>2 DEF LeakFits, Errored
  <2>2. CASE pc # "done"
    <3>1. \/ NamespaceNotReady
          \/ PollEmpty
          \/ (DeleteFails \/ PollFails \/ PollTimesOut) /\ CleanupFails
      <4>1. ~(LibraryStep \/ OutsideStep \/ Returned \/ UNCHANGED vars)
        BY <2>2 DEF LibraryStep, OutsideStep, Returned, vars
      <4>2. ~(WarmUpCreate \/ WarmUpWait \/ WarmUpRan \/ WarmUpFails \/ DeleteAll \/ PollStrip)
        BY <2>2 DEF WarmUpCreate, WarmUpWait, WarmUpRan, WarmUpFails, DeleteAll, PollStrip, Goto
      <4>3. ~(Baseline \/ NextBatch \/ LoopCancelled \/ BatchCreateFails \/ BatchWait)
        BY <2>2 DEF Baseline, NextBatch, LoopCancelled, BatchCreateFails, BatchWait, Goto, RampEnds
      <4>4. ~(BatchWaited \/ CountVMIs \/ CheckHealth \/ CollectMetrics)
        BY <2>2 DEF BatchWaited, CountVMIs, CheckHealth, CollectMetrics, Goto, RampEnds
      <4> QED
        BY <4>1, <4>2, <4>3, <4>4 DEF Next, SuiteStep, DeleteFails, PollFails, PollTimesOut
    <3>2. CASE NamespaceNotReady
      BY <3>2 DEF NamespaceNotReady, Goto, clusterVars, IInv, NamesFit, Early
    <3>3. CASE PollEmpty
      BY <3>3 DEF PollEmpty, ListEmpty, clusterVars
    <3>4. CASE (DeleteFails \/ PollFails \/ PollTimesOut) /\ CleanupFails
      <4>1. /\ suiteErr' = TRUE
            /\ cases' = [cases EXCEPT !["create"] = IF @ = "none" THEN @ ELSE "ERROR"]
        BY <3>4 DEF CleanupFails
      <4>2. "create" \in DOMAIN cases
        BY DEF IInv, TypeOK, Cases
      <4>3. pc \in {"delete", "poll"}
        BY <3>4 DEF CleanupFails, DeleteFails, PollFails, PollTimesOut, Deleting, Polling
      <4>4. Errored'
        <5>1. CASE cases["create"] = "none"
          BY <4>1, <4>3, <5>1, ErroredStays DEF ErrorsFit
        <5>2. CASE cases["create"] # "none"
          BY <4>1, <4>2, <5>2 DEF Errored
        <5> QED
          BY <5>1, <5>2
      <4> QED
        BY <4>1, <4>2, <4>4
    <3> QED
      BY <3>1, <3>2, <3>3, <3>4
  <2> QED
    BY <2>1, <2>2
<1> QED
  BY <1>1, <1>2 DEF LeakFits

\* A VMI that is left behind is reported by a case: by the suite and the
\* capacity too, unless it is one whose Create was not answered.
THEOREM LeakAlwaysReported == Spec => []LeakIsReported
<1>1. Init => ErrorsFit /\ LeakFits
  BY DEF Init, ClusterInit, ResourceInit, ErrorsFit, LeakFits
<1>2. IInv /\ ErrorsFit /\ LeakFits => LeakIsReported
  <2> SUFFICES ASSUME IInv, ErrorsFit, LeakFits, pc = "done", present # {}
               PROVE  LeakIsReported
    BY DEF LeakIsReported
  <2>1. DOMAIN cases = Cases
    BY DEF IInv, TypeOK
  <2>2. CASE present \subseteq unanswered
    BY <2>1, <2>2 DEF ErrorsFit, Creating, Errored, LeakIsReported, Cases
  <2>3. CASE ~(present \subseteq unanswered)
    BY <2>1, <2>3 DEF LeakFits, Errored, LeakIsReported, Cases
  <2> QED
    BY <2>2, <2>3
<1> QED
  BY <1>1, <1>2, Invariance, ErrorsNext, LeakNext, PTL DEF Spec

-----------------------------------------------------------------------------
(* The suite implements the capacity probe.                                *)

\* A batch under way is as large as the option and the limit allow.
BatchIsFull == pc \in InBatch => batch = Batch

\* The invariant about batches under way.
LEMMA BatchAlwaysFull == Spec => []BatchIsFull
<1>1. Init => BatchIsFull
  BY DEF Init, BatchIsFull, InBatch
<1>2. BatchIsFull /\ [Next]_vars => BatchIsFull'
  <2> SUFFICES ASSUME BatchIsFull, [Next]_vars, pc' \in InBatch
               PROVE  batch' = Batch'
    BY DEF BatchIsFull
  <2> USE DEF InBatch, rampVars, Goto
  <2>1. CASE NextBatch
    BY <2>1 DEF NextBatch, Batch
  <2>2. CASE LibraryStep \/ OutsideStep \/ UNCHANGED vars
    BY <2>2 DEF LibraryStep, OutsideStep, vars, BatchIsFull, Batch
  <2>3. CASE BatchWait \/ BatchWaited \/ CountVMIs
    BY <2>3 DEF BatchWait, BatchWaited, CountVMIs, RampEnds, BatchIsFull, Batch
  <2>4. ~(NamespaceNotReady \/ WarmUpCreate \/ WarmUpWait \/ WarmUpRan \/ WarmUpFails)
    BY DEF NamespaceNotReady, WarmUpCreate, WarmUpWait, WarmUpRan, WarmUpFails
  <2>5. ~(Baseline \/ LoopCancelled \/ BatchCreateFails \/ CheckHealth \/ CollectMetrics)
    BY DEF Baseline, LoopCancelled, BatchCreateFails, CheckHealth, CollectMetrics, RampEnds
  <2>6. ~(DeleteAll \/ DeleteFails \/ PollEmpty \/ PollStrip \/ PollFails \/ PollTimesOut)
    BY DEF DeleteAll, DeleteFails, PollEmpty, PollStrip, PollFails, PollTimesOut,
       Deleting, Polling, CleanupFails
  <2> QED
    BY <2>1, <2>2, <2>3, <2>4, <2>5, <2>6 DEF Next, SuiteStep, Returned
<1> QED
  BY <1>1, <1>2, PTL DEF Spec

\* Every step of the suite confirms the next batch within the limits, ends
\* the ramp with a verdict that stays, or is invisible.
THEOREM SuiteImplementsProbe == Spec => ImplementsProbe
<1>1. Init => Probe!Init
  BY DEF Init, Probe!Init, Verdict, Cases
<1>2. IInv /\ IInv' /\ BatchIsFull /\ [Next]_vars => [Probe!Next]_<<maxReady, Verdict>>
  <2> SUFFICES ASSUME IInv, IInv', BatchIsFull, [Next]_vars
               PROVE  Probe!Next \/ UNCHANGED <<maxReady, Verdict>>
    OBVIOUS
  <2>1. CASE Untouched
    BY <2>1 DEF Untouched, Verdict
  <2>2. CASE Ended
    <3>1. Verdict = "open"
      BY <2>2 DEF Ended, IInv, Undecided, Early, Verdict
    <3>2. Verdict' \in {"capacity", "error"}
      BY <2>2 DEF Ended, Stops, RunErrs, Verdict
    <3> QED
      BY <2>2, <3>1, <3>2 DEF Ended, Probe!Next, Probe!Stop
  <2>3. CASE Confirmed
    <3>1. Verdict = "open"
      BY <2>3 DEF Confirmed, IInv, Undecided, Ramping, Verdict
    <3>2. Verdict' = IF LimitReached THEN "limit" ELSE "open"
      BY <2>3 DEF Confirmed, Verdict
    <3>3. maxReady' = maxReady + batch /\ batch = Batch /\ (MaxVMs > 0 => maxReady < MaxVMs)
      BY <2>3 DEF Confirmed, IInv, NumbersFit, BatchIsFull, InBatch, Ramping
    <3>4. maxReady' <= Capacity /\ (MaxVMs > 0 => maxReady' <= MaxVMs)
      BY DEF IInv, MaxWithinLimits
    <3>5. maxReady \in Nat /\ MaxVMs \in Nat /\ BatchSize \in Nat \ {0}
      BY OptionAssumption DEF IInv, TypeOK
    <3>6. Probe!Confirm
      BY <3>1, <3>2, <3>3, <3>4, <3>5 DEF Probe!Confirm, Batch, LimitReached
    <3> QED
      BY <3>6 DEF Probe!Next
  <2> QED
    BY <2>1, <2>2, <2>3, StepKinds
<1> QED
  BY <1>1, <1>2, Invariance, BatchAlwaysFull, PTL DEF Spec, ImplementsProbe, Probe!Spec
=============================================================================
