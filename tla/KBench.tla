------------------------------- MODULE KBench -------------------------------
(***************************************************************************)
(* The storage suite: a claim, a job that writes to its volume, the log of *)
(* the job's pod and, when all of these are there, the Longhorn metrics of *)
(* the time the job ran.  internal/suites/storage/kbench.go, with          *)
(* pkg/k8s/pvc.go and MonitoringEnabled of pkg/k8s/monitor.go.             *)
(***************************************************************************)
EXTENDS Jobs, Sequences

VARIABLES
  pc,       \* what RunE does next
  claim,    \* the claim: "none", "pending", "bound"
  logged,   \* the state the pod was in when its log was read
  late,     \* numbers of the cases that began after the signal
  results,  \* states of the case results
  suiteErr  \* SuiteResult.Err is set

suiteVars == <<pc, logged, late, results, suiteErr>>
vars == <<jobVars, claim, suiteVars>>

Init ==
  /\ JobsInit
  /\ pc = "start" /\ claim = "none" /\ logged = "none" /\ late = {}
  /\ results = <<>> /\ suiteErr = FALSE

-----------------------------------------------------------------------------
(* The cluster binds the claim when it likes; the pod needs the volume.    *)

ClaimBinds ==
  /\ claim = "pending" /\ claim' = "bound"
  /\ UNCHANGED <<jobVars, suiteVars>>

ClusterStep == JobStep(claim = "bound") /\ UNCHANGED <<claim, suiteVars>>

-----------------------------------------------------------------------------
Reports(state, next) == results' = Append(results, state) /\ pc' = next

CaseStarts(i) == late' = IF cancelled THEN late \cup {i} ELSE late

\* RunE up to kbenchPodPVC: options and namespace.
Starts ==
  /\ pc = "start"
  /\ \/ ~cancelled /\ pc' = "claim" /\ UNCHANGED suiteErr
     \/ CallError /\ pc' = "done" /\ suiteErr' = TRUE
  /\ UNCHANGED <<jobVars, claim, logged, late, results>>

\* CreatePVC.  A claim whose answer is lost is not used.
CreatesClaim ==
  /\ pc = "claim"
  /\ CaseStarts(1)
  /\ \/ ~cancelled /\ claim' = "pending" /\ pc' = "job" /\ call' = "posting" /\ UNCHANGED results
     \/ CallError /\ Reports("ERROR", "report") /\ UNCHANGED <<claim, call>>
  /\ UNCHANGED <<objectVars, mine, found, events, timer, runVars, logged, suiteErr>>

\* The wait for the job: kbench has written its results when it is over.
\* Variant: the wait for the pod alone.
JustReady == FALSE

ForCompletion == TRUE

\* EnsureJobCompleted returns; WaitPVCBound starts a watch of its own.
JobReturns ==
  /\ pc = "job"
  /\ \/ /\ call = "ok"
        /\ pc' = "bound" /\ call' = "claim" /\ timer' = FALSE
        /\ UNCHANGED results
     \/ /\ call = "error"
        /\ Reports("ERROR", "report") /\ call' = "idle"
        /\ UNCHANGED timer
  /\ UNCHANGED <<objectVars, mine, found, events, runVars, claim, logged, late, suiteErr>>

\* WaitPVCBound.
ClaimReturns ==
  /\ pc = "bound"
  /\ \/ call = "claim" /\ claim = "bound" /\ pc' = "logs" /\ UNCHANGED results
     \/ call = "error" /\ Reports("ERROR", "report")
  /\ call' = "idle"
  /\ UNCHANGED <<objectVars, mine, found, events, timer, runVars, claim, logged, late, suiteErr>>

\* The API server has a log only for a pod it still has.
HasLog == pod[found] # "gone"

\* The pod log of a case that has its job, pod and claim.  The monitoring
\* case follows in any case: it needs the node of the pod and the claim.
ReadsLogs ==
  /\ pc = "logs"
  /\ \/ /\ ~cancelled /\ HasLog
        /\ logged' = pod[found]
        /\ Reports("PASS", "monitoring")
     \/ /\ CallError \/ ~HasLog
        /\ Reports("ERROR", "monitoring")
        /\ UNCHANGED logged
  /\ CaseStarts(2)
  /\ UNCHANGED <<jobVars, claim, suiteErr>>

\* Whether the queries may go to Prometheus: MonitoringEnabled has answered.
Enabled == ~cancelled

\* monitoring: the add-on may be missing, not asked for, or not ready; a
\* query may fail, and a validity query that returns no sample has failed.
Monitors ==
  /\ pc = "monitoring"
  /\ \E state \in {"SKIP"} \cup (IF Enabled THEN {"PASS", "ERROR"} ELSE {}) :
       Reports(state, "report")
  /\ UNCHANGED <<jobVars, claim, logged, late, suiteErr>>

\* The parameters are recorded, the result is returned.
Returns ==
  /\ pc = "report" /\ pc' = "done"
  /\ UNCHANGED <<jobVars, claim, logged, late, results, suiteErr>>

\* The waits that a timeout of the options ends.
\* Variant: the pod is waited for without one.
NotForPods == {"job", "claim"}

Waits == {"pod", "job", "claim"}

SuiteStep ==
  \/ Starts \/ CreatesClaim \/ JobReturns \/ ClaimReturns
  \/ ReadsLogs \/ Monitors \/ Returns

Library ==
  (ReadyStep(ForCompletion, Waits) \/ SeesJobEnd) /\ UNCHANGED <<claim, suiteVars>>

Time == TimeIsUp(Waits) /\ UNCHANGED <<claim, suiteVars>>

Finished == pc = "done" /\ UNCHANGED vars

Next ==
  \/ SuiteStep \/ Library \/ Time
  \/ (Relists \/ Signal) /\ UNCHANGED <<claim, suiteVars>>
  \/ ClusterStep \/ ClaimBinds
  \/ Finished

Spec == Init /\ [][Next]_vars

\* The goroutine runs, requests are answered and timeouts pass.  Nothing is
\* assumed of the cluster.
FairSpec == Spec /\ WF_vars(SuiteStep) /\ WF_vars(Library) /\ WF_vars(Time)

-----------------------------------------------------------------------------
\* Every variable keeps its type.
TypeOK ==
  /\ JobsTypeOK
  /\ call \in {"idle", "posting", "pod", "job", "claim", "ok", "error"}
  /\ pc \in {"start", "claim", "job", "bound", "logs", "monitoring", "report", "done"}
  /\ claim \in {"none", "pending", "bound"}
  /\ logged \in {"none", "ready", "succeeded", "failed"}
  /\ late \subseteq {1, 2}
  /\ results \in Seq({"PASS", "ERROR", "SKIP"}) /\ Len(results) <= 2
  /\ suiteErr \in BOOLEAN

Passed(i) == i \in DOMAIN results /\ results[i] = "PASS"

\* The case passes only with a job that completed on a bound claim, though
\* its wait may have met the end of the job by any route, and with the log of
\* its own pod after kbench has written everything to it: a log read earlier
\* would pass as a short one.
PassIsComplete ==
  Passed(1) => /\ job[mine] = "complete" /\ claim = "bound"
               /\ found = mine /\ logged = "succeeded"

\* Metrics are taken for a run that took place: the second case is there
\* only with a complete job, though the first may have lost its log.  And no
\* case passes that began after the signal, as the second one may.
MonitorsARun ==
  /\ Len(results) = 2 => job[mine] = "complete"
  /\ \A i \in late : ~Passed(i)

\* RunE returns, whatever becomes of claim, pod and job.
KBenchEnds == <>(pc = "done")
=============================================================================
