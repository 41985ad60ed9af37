-------------------------------- MODULE Jobs --------------------------------
(***************************************************************************)
(* pkg/k8s/job.go and exec.go: a suite creates a job, waits until its pod  *)
(* is ready or the job is complete, copies files into the pod and runs     *)
(* commands in it.  The waits are watches: what happens in the cluster is  *)
(* noticed later, perhaps when it is no longer so, and a watch that breaks *)
(* and lists again has missed what came and went.                          *)
(*                                                                         *)
(* The kubelet, the job controller and the TTL controller are external.    *)
(* A job has one pod (backoffLimit 0) and is named by the number of its    *)
(* Create: the API server generates a fresh name for each.                 *)
(***************************************************************************)
EXTENDS Integers, FiniteSets

CONSTANTS
  LastJob,       \* bound: how many jobs are created
  CallsMayFail,  \* BOOLEAN: requests and commands may fail
  PodsMayFail    \* BOOLEAN: a pod may fail or be evicted

ASSUME JobsAssumption ==
  /\ LastJob \in Nat
  /\ CallsMayFail \in BOOLEAN /\ PodsMayFail \in BOOLEAN

Jobs == 1 .. LastJob

VARIABLES
  job,        \* of each: "none", "active", "complete", "failed"
  pod,        \* of each: "none", "ready", "succeeded", "failed", "gone"
  collected,  \* finished jobs the TTL controller has deleted
  call,       \* what the library is doing for the suite, or how it ended
  mine,       \* the job that EnsureJobReady has created, 0 before
  found,      \* the job whose pod EnsureJobReady has returned, 0 before
  events,     \* <<job, what>> on their way to the watch of this call
  timer,      \* the timeout of this call is over
  cancelled,  \* SIGINT or SIGTERM came
  jobSuspend  \* option: jobs are created suspended

objectVars == <<job, pod, collected>>
callVars == <<call, mine, found, events, timer>>
runVars == <<cancelled, jobSuspend>>
jobVars == <<objectVars, callVars, runVars>>

JobsInit ==
  /\ job = [j \in Jobs |-> "none"]
  /\ pod = [j \in Jobs |-> "none"]
  /\ collected = {}
  /\ call = "idle"
  /\ mine = 0 /\ found = 0
  /\ events = {}
  /\ timer = FALSE
  /\ cancelled = FALSE
  /\ jobSuspend \in BOOLEAN

-----------------------------------------------------------------------------
(* The watches.                                                            *)

\* The jobs whose pods the watch for readiness lists, by the job-name label.
\* Variant: by the label of suite and run.
OfSuiteAndRun == {j \in Jobs : job[j] # "none"}

Selected == {mine}

\* What a List of the watch under way would find worth reporting.
Shows ==
  IF call = "pod" THEN {<<j, "ready">> : j \in {k \in Selected : pod[k] = "ready"}}
  ELSE IF call = "job" /\ mine \notin collected
    THEN {<<mine, job[mine]>>} \cap (Jobs \X {"complete", "failed"})
  ELSE {}

\* The connection of the watch breaks: it lists again and goes on from there.
Relists ==
  /\ call \in {"pod", "job"}
  /\ events' = Shows
  /\ UNCHANGED <<objectVars, call, mine, found, timer, runVars>>

-----------------------------------------------------------------------------
(* The cluster.                                                            *)

\* The pod runs, hence is Ready; that of a suspended job is never made.
PodStarts(j) ==
  /\ job[j] = "active" /\ pod[j] = "none" /\ ~jobSuspend
  /\ pod' = [pod EXCEPT ![j] = "ready"]
  /\ UNCHANGED <<job, collected>>

PodEnds(j) ==
  /\ \/ pod[j] = "ready" /\ pod' = [pod EXCEPT ![j] = "succeeded"]
     \/ /\ PodsMayFail /\ job[j] = "active" /\ pod[j] \in {"none", "ready"}
        /\ pod' = [pod EXCEPT ![j] = "failed"]
  /\ UNCHANGED <<job, collected>>

\* The job controller turns the end of the pod into a condition of the job.
JobEnds(j) ==
  /\ job[j] = "active" /\ pod[j] \in {"succeeded", "failed"}
  /\ job' = [job EXCEPT ![j] = IF pod[j] = "succeeded" THEN "complete" ELSE "failed"]
  /\ UNCHANGED <<pod, collected>>

\* activeDeadlineSeconds are over; they do not count while it is suspended.
\* Variant: the job has no such deadline.
NeverExceeded(j) == FALSE /\ UNCHANGED objectVars

DeadlineExceeded(j) ==
  /\ job[j] = "active" /\ ~jobSuspend
  /\ job' = [job EXCEPT ![j] = "failed"]
  /\ pod' = [pod EXCEPT ![j] = IF @ = "failed" THEN @ ELSE "gone"]
  /\ UNCHANGED collected

\* ttlSecondsAfterFinished: the job goes, and its pod with it.
Collects(j) ==
  /\ job[j] \in {"complete", "failed"} /\ j \notin collected
  /\ collected' = collected \cup {j}
  /\ pod' = [pod EXCEPT ![j] = "gone"]
  /\ UNCHANGED job

\* Pods start where mayStart; whatever happens is on its way to the watch.
JobStep(mayStart) ==
  /\ UNCHANGED <<call, mine, found, timer, runVars>>
  /\ \E j \in Jobs :
       \/ mayStart /\ PodStarts(j)
       \/ PodEnds(j) \/ JobEnds(j) \/ DeadlineExceeded(j) \/ Collects(j)
  /\ events' = events \cup Shows'

\* The part of it that the job controller is bound to take.
DeadlineStep ==
  /\ UNCHANGED <<call, mine, found, timer, runVars>>
  /\ \E j \in Jobs : DeadlineExceeded(j)
  /\ events' = events \cup Shows'

-----------------------------------------------------------------------------
(* EnsureJobReady and EnsureJobCompleted.                                  *)

CallError == CallsMayFail \/ cancelled

Fresh(j) == job[j] = "none" /\ \A i \in Jobs : i < j => job[i] # "none"

Creates(j) == job' = [job EXCEPT ![j] = "active"]

PostsJob ==
  /\ call = "posting" /\ ~cancelled
  /\ \E j \in Jobs : Fresh(j) /\ Creates(j) /\ mine' = j
  /\ call' = "pod" /\ events' = {} /\ timer' = FALSE
  /\ UNCHANGED <<pod, collected, found, runVars>>

\* The Create fails, or is carried out and its answer lost.
PostFails ==
  /\ call = "posting" /\ CallError
  /\ \/ UNCHANGED job
     \/ \E j \in Jobs : Fresh(j) /\ Creates(j)
  /\ call' = "error"
  /\ UNCHANGED <<pod, collected, mine, found, events, timer, runVars>>

\* The pod is seen Ready: EnsureJobReady returns it, EnsureJobCompleted goes
\* on to wait for the job.
SeesPodReady(completed) ==
  /\ call = "pod"
  /\ \E j \in Jobs : <<j, "ready">> \in events /\ found' = j
  /\ call' = IF completed THEN "job" ELSE "ok"
  /\ timer' = FALSE
  /\ UNCHANGED <<objectVars, mine, runVars>>
  /\ events' = Shows'

\* What the condition of EnsureJobCompleted returns for a finished job.
\* Variant: whatever way it finished.
AnyEnd(what) == "ok"

Verdict(what) == IF what = "complete" THEN "ok" ELSE "error"

SeesJobEnd ==
  /\ call = "job"
  /\ \E what \in {"complete", "failed"} : <<mine, what>> \in events /\ call' = Verdict(what)
  /\ UNCHANGED <<objectVars, mine, found, events, timer, runVars>>

\* A wait returns an error when its timeout is over or its context is done.
GivesUp(waits) ==
  /\ call \in waits /\ (timer \/ cancelled)
  /\ call' = "error"
  /\ UNCHANGED <<objectVars, mine, found, events, timer, runVars>>

TimeIsUp(waits) ==
  /\ call \in waits /\ ~timer
  /\ timer' = TRUE
  /\ UNCHANGED <<objectVars, call, mine, found, events, runVars>>

-----------------------------------------------------------------------------
(* CopyToJobPod and ExecPod.                                               *)

Executing == call \in {"copy", "exec"}

\* What becomes of a stream that is opened: not under a done context.
\* Variant: under a context of its own.
OwnContext(kind) == kind

Opened(kind) == IF cancelled THEN "error" ELSE kind

OpensStream(kind) ==
  /\ call' = Opened(kind)
  /\ timer' = FALSE

\* The stream ends with the command; its pod has to run till then.
Succeeds ==
  /\ Executing /\ pod[found] = "ready"
  /\ call' = "ok"
  /\ UNCHANGED <<objectVars, mine, found, events, timer, runVars>>

CommandFails ==
  /\ Executing /\ CallsMayFail
  /\ call' = "error"
  /\ UNCHANGED <<objectVars, mine, found, events, timer, runVars>>

\* The pod, the context or the connection is gone.
StreamBreaks ==
  /\ Executing /\ (pod[found] # "ready" \/ timer \/ cancelled)
  /\ call' = "error"
  /\ UNCHANGED <<objectVars, mine, found, events, timer, runVars>>

Signal ==
  /\ ~cancelled /\ cancelled' = TRUE
  /\ UNCHANGED <<objectVars, callVars, jobSuspend>>

\* What EnsureJobReady does, sooner or later: requests are answered, and
\* contexts watched.
ReadyStep(completed, waits) ==
  PostsJob \/ PostFails \/ SeesPodReady(completed) \/ GivesUp(waits)

JobsTypeOK ==
  /\ job \in [Jobs -> {"none", "active", "complete", "failed"}]
  /\ pod \in [Jobs -> {"none", "ready", "succeeded", "failed", "gone"}]
  /\ collected \subseteq Jobs
  /\ mine \in 0 .. LastJob /\ found \in 0 .. LastJob
  /\ events \subseteq Jobs \X {"ready", "complete", "failed"}
  /\ timer \in BOOLEAN /\ cancelled \in BOOLEAN /\ jobSuspend \in BOOLEAN
=============================================================================
