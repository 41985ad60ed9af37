------------------------------- MODULE Density -------------------------------
(***************************************************************************)
(* internal/suites/density: the suite finds out how many VMIs a cluster    *)
(* runs.  One goroutine goes from the namespace through a warm-up VMI, a   *)
(* ramp of batches and the metrics to the clean-up; pc says where it is.   *)
(* Every action below runs to the next point at which the cluster, the     *)
(* deadline or a signal can interfere.                                     *)
(***************************************************************************)
EXTENDS Resource

CONSTANTS
  BatchSize,  \* option batchSize
  MaxVMs      \* option maxVMs, 0 for a ramp that only the cluster ends

\* Options.Validate rejects anything else before the cluster is touched.
ASSUME OptionAssumption == BatchSize \in Nat \ {0} /\ MaxVMs \in Nat

VARIABLES
  pc,        \* the next step of RunE
  maxReady,  \* VMIs confirmed by the last healthy batch
  batch,     \* size of the batch under way
  ready,     \* VMIs the last count found Running
  stop,      \* capacityStop of the ramp: its kind, or "none"
  runErr,    \* runErr of the ramp: its kind, or "none"
  cases,     \* state of each case result, "none" while there is none
  suiteErr   \* Err of the suite result is set

rampVars == <<maxReady, batch, ready, stop, runErr>>
resultVars == <<cases, suiteErr>>
vars == <<pc, rampVars, resultVars, resourceVars, clusterVars>>

Cases == {"warmup", "create", "metrics"}
Stops == {"startup", "count", "health"}
RunErrs == {"baseline", "preflight", "create", "wait", "count", "health", "cancelled"}

Init ==
  /\ ClusterInit
  /\ ResourceInit
  /\ pc = "namespace"
  /\ maxReady = 0
  /\ batch = 0
  /\ ready = 0
  /\ stop = "none"
  /\ runErr = "none"
  /\ cases = [c \in Cases |-> "none"]
  /\ suiteErr = FALSE

Goto(from, to) == pc = from /\ pc' = to

\* A request under the command's context fails once that is cancelled.
CallError == CallsMayFail \/ cancelled

-----------------------------------------------------------------------------
(* Namespace and warm-up.                                                  *)

\* EnsureNamespace failed: RunE returns before the clean-up is deferred.
NamespaceNotReady ==
  /\ Goto("namespace", "done")
  /\ suiteErr' = TRUE
  /\ UNCHANGED <<rampVars, cases, resourceVars, clusterVars>>

\* The namespace is Active; warmup posts its VMI under one deadline that
\* covers the Create and the wait.
WarmUpCreate ==
  /\ Goto("namespace", "warm create")
  /\ CallCreate({WarmUp})
  /\ timer' = "armed"
  /\ UNCHANGED <<rampVars, resultVars, clusterVars>>

WarmUpWait ==
  /\ call = "ok"
  /\ Goto("warm create", "warm wait")
  /\ CallWait({WarmUp})
  /\ UNCHANGED <<timer, rampVars, resultVars, clusterVars>>

WarmUpRan ==
  /\ call = "ok"
  /\ Goto("warm wait", "warm delete")
  /\ Return
  /\ UNCHANGED <<rampVars, resultVars, clusterVars>>

\* The warm-up failed: its errored case is the only result of the suite.
WarmUpFails ==
  /\ \/ pc = "warm create" /\ call = "error"
     \/ pc = "warm wait" /\ call \in {"timeout", "error"}
  /\ pc' = "delete"
  /\ Return
  /\ cases' = [cases EXCEPT !["warmup"] = "ERROR"]
  /\ UNCHANGED <<rampVars, suiteErr, clusterVars>>

-----------------------------------------------------------------------------
(* The ramp.                                                               *)

\* State of the case "vmi-create": a capacity stop alone leaves it passed.
CreateState(newStop, newErr) == IF newErr = "none" THEN "PASS" ELSE "ERROR"

\* createVMIsUntilFailure turns the end of the ramp into that case.
RampEnds(newStop, newErr) ==
  /\ pc' = "metrics"
  /\ stop' = newStop
  /\ runErr' = newErr
  /\ cases' = [cases EXCEPT !["create"] = CreateState(newStop, newErr)]
  /\ UNCHANGED suiteErr

\* ctx.Err() of the ramp, looked at after each step before its outcome is.
\* Variant: the outcome is taken as it is.
RampGoesOn == FALSE

RampDone == cancelled

\* captureBaseline and the preflight health check; a cluster that is
\* unhealthy before the first batch is an error, not a capacity.
Baseline ==
  /\ pc = "baseline"
  /\ \/ ~cancelled /\ pc' = "loop" /\ UNCHANGED <<stop, runErr, resultVars>>
     \/ CallError /\ RampEnds("none", "baseline")
     \/ RampEnds("none", "preflight")
  /\ UNCHANGED <<maxReady, batch, ready, resourceVars, clusterVars>>

\* for ctx.Err() == nil: the batch is cut so that MaxVMs is not passed, and
\* its VMIs are named from maxReady upwards.
\* Variant: the last batch is not cut.
FullBatch == BatchSize

Batch ==
  IF MaxVMs > 0 /\ MaxVMs - maxReady < BatchSize THEN MaxVMs - maxReady ELSE BatchSize

NextBatch ==
  /\ ~cancelled
  /\ Goto("loop", "create")
  /\ batch' = Batch
  /\ CallCreate(maxReady .. maxReady + Batch - 1)
  /\ UNCHANGED <<maxReady, ready, stop, runErr, timer, resultVars, clusterVars>>

LoopCancelled ==
  /\ cancelled
  /\ pc = "loop"
  /\ RampEnds("none", "cancelled")
  /\ UNCHANGED <<maxReady, batch, ready, resourceVars, clusterVars>>

BatchCreateFails ==
  /\ pc = "create" /\ call = "error"
  /\ Return
  /\ RampEnds("none", "create")
  /\ UNCHANGED <<maxReady, batch, ready, clusterVars>>

BatchWait ==
  /\ call = "ok"
  /\ Goto("create", "wait")
  /\ CallWait(maxReady .. maxReady + batch - 1)
  /\ timer' = "armed"
  /\ UNCHANGED <<rampVars, resultVars, clusterVars>>

\* The wait returned: a cancelled context comes first, then the startup
\* timeout, which is the cluster's limit, then any other error.
BatchWaited ==
  /\ pc = "wait" /\ call \in Outcomes
  /\ \/ RampDone /\ RampEnds("none", "cancelled")
     \/ ~RampDone /\ call = "timeout" /\ RampEnds("startup", "none")
     \/ ~RampDone /\ call = "error" /\ RampEnds("none", "wait")
     \/ ~RampDone /\ call = "ok" /\ pc' = "count" /\ UNCHANGED <<stop, runErr, resultVars>>
  /\ Return
  /\ UNCHANGED <<maxReady, batch, ready, clusterVars>>

\* Variant: VMIs are counted whatever their phase.
CountedAnyPhase == Cardinality(present)

Counted == Cardinality(running)

\* countRunningVMIs lists the VMIs of the run once more; the wait saw each
\* of them Running, but not all of them at the same time.
CountVMIs ==
  /\ pc = "count"
  /\ \/ /\ CallError
        /\ RampEnds("none", IF cancelled THEN "cancelled" ELSE "count")
        /\ UNCHANGED ready
     \/ /\ ~cancelled
        /\ ready' = Counted
        /\ IF ready' = maxReady + batch
           THEN pc' = "health" /\ UNCHANGED <<stop, runErr, resultVars>>
           ELSE RampEnds("count", "none")
  /\ UNCHANGED <<maxReady, batch, resourceVars, clusterVars>>

\* The ramp ends because it reached maxVMs.
\* Variant: a full batch more would not fit.
NoFullBatchLeft == MaxVMs > 0 /\ maxReady' + BatchSize > MaxVMs

LimitReached == MaxVMs > 0 /\ maxReady' >= MaxVMs

\* checkClusterHealth (module HealthGate has its inside): unhealthy is a
\* capacity stop, a failed inspection a run error, and only a healthy
\* cluster confirms the batch.
CheckHealth ==
  /\ pc = "health"
  /\ \/ RampDone /\ RampEnds("none", "cancelled") /\ UNCHANGED maxReady
     \/ ~RampDone /\ CallError /\ RampEnds("none", "health") /\ UNCHANGED maxReady
     \/ ~RampDone /\ RampEnds("health", "none") /\ UNCHANGED maxReady
     \/ /\ ~RampDone
        /\ maxReady' = ready
        /\ IF LimitReached
           THEN RampEnds("none", "none")
           ELSE pc' = "loop" /\ UNCHANGED <<stop, runErr, resultVars>>
  /\ UNCHANGED <<batch, ready, resourceVars, clusterVars>>

CollectMetrics ==
  /\ Goto("metrics", "delete")
  /\ \E ok \in BOOLEAN :
       /\ ok => ~cancelled
       /\ ~ok => CallError
       /\ cases' = [cases EXCEPT !["metrics"] = IF ok THEN "PASS" ELSE "ERROR"]
       /\ suiteErr' = (suiteErr \/ ~ok)
  /\ UNCHANGED <<rampVars, resourceVars, clusterVars>>

-----------------------------------------------------------------------------
(* cleanup, once after the warm-up and once deferred.  Its context is not  *)
(* the command's: a signal does not stop it.                               *)

Deleting == pc \in {"warm delete", "delete"}
Polling == pc \in {"warm poll", "poll"}

\* The clean-up after the warm-up failed: so did the warm-up, and the
\* deferred clean-up starts.  The deferred one failed: cleanupRunResult puts
\* the error on the capacity result and finalizes every case again.
CleanupFails ==
  IF pc \in {"warm delete", "warm poll"}
  THEN /\ pc' = "delete"
       /\ cases' = [cases EXCEPT !["warmup"] = "ERROR"]
       /\ UNCHANGED suiteErr
  ELSE /\ pc' = "done"
       /\ cases' = [cases EXCEPT !["create"] = IF @ = "none" THEN @ ELSE "ERROR"]
       /\ suiteErr' = TRUE

DeleteAll ==
  /\ Deleting
  /\ pc' = IF pc = "delete" THEN "poll" ELSE "warm poll"
  /\ DeleteThese(present)
  /\ UNCHANGED <<rampVars, resultVars, resourceVars>>

\* DeleteCollection is not atomic: it may fail halfway.
DeleteFails ==
  /\ CallsMayFail
  /\ Deleting
  /\ \E some \in SUBSET present : DeleteThese(some)
  /\ CleanupFails
  /\ UNCHANGED <<rampVars, resourceVars>>

\* len(list.Items) == 0.
\* Variant: nothing runs any more.
NoneRuns == running = {}

ListEmpty == present = {}

\* Everything is gone.
PollEmpty ==
  /\ Polling
  /\ ListEmpty
  /\ pc' = IF pc = "poll" THEN "done" ELSE "baseline"
  /\ UNCHANGED <<rampVars, resultVars, resourceVars, clusterVars>>

\* VMIs whose finalizers the round removes.
\* Variant: those of VMIs that failed are left to the controller.
AgedNotFailed == aged \ failed

Strippable == aged

\* One round over the listed VMIs: those deleted for more than 30 s lose
\* their finalizers.  An Update that meets NotFound or Conflict is skipped.
PollStrip ==
  /\ Polling
  /\ Strippable # {}
  /\ \E some \in IF CallsMayFail THEN SUBSET Strippable ELSE {Strippable} : Strip(some)
  /\ UNCHANGED <<pc, rampVars, resultVars, resourceVars>>

\* A List or an Update fails, the latter after some others succeeded.
PollFails ==
  /\ CallsMayFail
  /\ Polling
  /\ \E some \in SUBSET Strippable : Strip(some)
  /\ CleanupFails
  /\ UNCHANGED <<rampVars, resourceVars>>

\* Five minutes are over.  Where the API answers, that is long after every
\* deleted VMI has lost its finalizers: what is left was never deleted.
PollTimesOut ==
  /\ Polling
  /\ present # {}
  /\ CallsMayFail \/ deleting = {}
  /\ CleanupFails
  /\ UNCHANGED <<rampVars, resourceVars, clusterVars>>

-----------------------------------------------------------------------------
SuiteStep ==
  \/ NamespaceNotReady \/ WarmUpCreate \/ WarmUpWait \/ WarmUpRan \/ WarmUpFails
  \/ Baseline \/ NextBatch \/ LoopCancelled
  \/ BatchCreateFails \/ BatchWait \/ BatchWaited
  \/ CountVMIs \/ CheckHealth \/ CollectMetrics
  \/ DeleteAll \/ DeleteFails \/ PollEmpty \/ PollStrip \/ PollFails \/ PollTimesOut

LibraryStep == ResourceStep /\ UNCHANGED <<pc, rampVars, resultVars>>

OutsideStep == ClusterStep /\ UNCHANGED <<pc, rampVars, resultVars, resourceVars>>

\* RunE has returned.
Returned == pc = "done" /\ UNCHANGED vars

Next == SuiteStep \/ LibraryStep \/ OutsideStep \/ Returned

Spec == Init /\ [][Next]_vars

\* The goroutine of the suite runs whenever it can, its calls return, their
\* deadlines pass and time goes on.  Nothing else is promised: the cluster
\* may never start a VMI nor drop a finalizer, and no signal need come.
LibraryProgress ==
  Expire \/ CreateOne \/ CreateFails \/ WaitInterrupted \/ WaitFailed

Fairness ==
  /\ WF_vars(SuiteStep)
  /\ WF_vars(LibraryProgress /\ UNCHANGED <<pc, rampVars, resultVars>>)
  /\ WF_vars(/\ \E n \in deleting : Age(n)
             /\ UNCHANGED <<pc, rampVars, resultVars, resourceVars>>)

FairSpec == Spec /\ Fairness

-----------------------------------------------------------------------------
(* Properties.                                                             *)

Ramping == {"loop", "create", "wait", "count", "health"}
Pcs == {"namespace", "warm create", "warm wait", "warm delete", "warm poll",
        "baseline", "metrics", "delete", "poll", "done"} \cup Ramping

\* Every variable keeps its type.
TypeOK ==
  /\ ClusterTypeOK
  /\ ResourceTypeOK
  /\ pc \in Pcs
  /\ maxReady \in Nat
  /\ batch \in 0 .. BatchSize
  /\ ready \in Nat
  /\ stop \in Stops \cup {"none"}
  /\ runErr \in RunErrs \cup {"none"}
  /\ cases \in [Cases -> {"none", "PASS", "ERROR"}]
  /\ suiteErr \in BOOLEAN

\* The suite never claims more VMIs than the cluster can run, nor more than
\* maxVMs allows.
MaxWithinLimits ==
  /\ maxReady <= Capacity
  /\ MaxVMs > 0 => maxReady <= MaxVMs

\* The run never loads the cluster with more VMIs than the limit it was
\* given, counting Creates that may still land; without a limit, with at
\* most one batch more than fits.
LoadBounded ==
  /\ Cardinality(present \cup inFlight) <= Capacity + BatchSize
  /\ MaxVMs > 0 => Cardinality(present \cup inFlight) <= MaxVMs

\* While the ramp measures, the cluster holds VMIs of the ramp only, so the
\* count by label counts nothing else: the warm-up VMI is gone and no name
\* of the batch is taken before it is posted.
RampIsClean ==
  pc \in Ramping =>
    /\ present \subseteq 0 .. maxReady + (IF pc = "loop" THEN 0 ELSE batch) - 1
    /\ todo \cap (present \cup inFlight) = {}

\* A batch is confirmed only by one List in which every VMI the ramp has
\* posted so far is Running: those of earlier batches did not fail meanwhile.
CountIsExact ==
  [][pc = "count" /\ pc' = "health" => running = 0 .. maxReady + batch - 1]_vars

\* The comment of createVMIsInBatches: at most one of capacityStop and runErr
\* is set.  Neither is set only at the end of a ramp that reached maxVMs.
OneVerdict ==
  /\ stop = "none" \/ runErr = "none"
  /\ cases["create"] # "none" /\ stop = "none" /\ runErr = "none"
       => MaxVMs > 0 /\ maxReady = MaxVMs

\* A signal never turns into a capacity: once the command is cancelled no
\* capacity stop is recorded.
CancelIsNoCapacity == [][cancelled => stop' = stop]_vars

\* A VMI the run leaves behind is reported: by an errored case in any event,
\* also when its Create was carried out after the clean-up found nothing, and
\* as an error of the suite and by the case that claims the capacity, unless
\* its Create was never answered.
LeakIsReported ==
  pc = "done" /\ present # {} =>
    /\ \E c \in DOMAIN cases : cases[c] = "ERROR"
    /\ ~(present \subseteq unanswered) => suiteErr /\ cases["create"] # "PASS"

\* RunE returns, however the cluster behaves and whatever fails.  Without
\* maxVMs it is the finite cluster that ends the ramp.
Termination == <>(pc = "done")

\* The comment of ErrStartupTimeout, "a clean startup deadline", and that of
\* createVMIsInBatches, "any other error (API failure, VMI failed, ...) is a
\* run error": a wait that has seen a VMI fail is no startup timeout.
FailedVMIIsNoTimeout ==
  [][pc = "wait" /\ call = "failing" => call' # "timeout"]_vars

\* The verdict of the ramp, read from the two errors it returns.
Verdict ==
  CASE runErr # "none" -> "error"
    [] runErr = "none" /\ stop # "none" -> "capacity"
    [] runErr = "none" /\ stop = "none" /\ cases["create"] # "none" -> "limit"
    [] OTHER -> "open"

Probe == INSTANCE CapacityProbe
  WITH Ceiling <- Capacity, Step <- BatchSize, Limit <- MaxVMs,
       max <- maxReady, verdict <- Verdict

\* The suite implements the capacity probe: the confirmed count grows batch
\* by batch, within the limits, and the verdict is final.
ImplementsProbe == Probe!Spec
=============================================================================
