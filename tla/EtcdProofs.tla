----------------------------- MODULE EtcdProofs -----------------------------
(***************************************************************************)
(* What holds of the etcd benchmark for any number of jobs and etcd pods   *)
(* and any range of the queries: a case that lost its pod does not pass,   *)
(* each benchmark has the load it is reported with, and the queries see    *)
(* this run only.                                                          *)
(***************************************************************************)
EXTENDS EtcdBench, FiniteSetTheorems, TLAPS

States == {"PASS", "ERROR", "SKIP"}

Before == {"start", "job", "copy"}

After == {"monitor", "queries", "report", "done"}

\* What RunE waits for, and how far the cases are.
PlaceFits ==
  /\ pc = "job" => call \in {"posting", "pod", "ok", "error"}
  /\ pc = "copy" => call \in {"copy", "ok", "error"}
  /\ pc = "cases" => call \in {"idle", "exec", "ok", "error"}
  /\ pc \in {"start"} \cup After => call = "idle"
  /\ pc \in Before => Len(results) = 0
  /\ pc = "cases" => Len(results) <= 4
  /\ pc = "cases" /\ call # "idle" => Len(results) < 4
  /\ pc \in {"monitor", "queries"} => Len(results) = 4
  /\ pc \in Before \cup After => Len(errs) = 0

\* An event tells that the pod is there, or was.
SeenFits ==
  /\ call = "pod" => mine \in Jobs /\ \A e \in events : pod[e[1]] # "none"
  /\ call = "ok" \/ pc \in {"copy", "cases"} => found \in Jobs /\ pod[found] # "none"

\* The commands of a case end it, and none but the last overrides the load.
CasesFit ==
  /\ Len(results) \in {1, 4} => Len(errs) = 0
  /\ Len(results) <= 2 => load = "configured"
  /\ LoadsAsTold

HasError == \E k \in DOMAIN errs : errs[k]

\* A case that was lost has an error, or is in the command that cannot succeed.
DoomedFits ==
  \A i \in doomed :
    /\ i <= Len(results) + 1
    /\ i <= Len(results) => results[i] # "PASS"
    /\ i = Len(results) + 1 =>
         /\ pc = "cases"
         /\ HasError \/ call = "error" \/ (call = "exec" /\ pod[found] # "ready")

\* Nothing has been scraped in the future.
ScrapesFit == \A p \in DOMAIN targets : targets[p] <= now

SuiteInv == PlaceFits /\ SeenFits /\ CasesFit /\ DoomedFits

\* The inductive invariant.
EtcdInv == TypeOK /\ ScrapesFit /\ SuiteInv

-----------------------------------------------------------------------------
(* Lemmas.                                                                 *)

\* What Append does.
LEMMA AppendIs ==
  ASSUME NEW S, NEW s \in Seq(S), NEW e \in S
  PROVE  /\ Append(s, e) \in Seq(S)
         /\ Len(s) \in Nat /\ DOMAIN s = 1 .. Len(s)
         /\ Len(Append(s, e)) = Len(s) + 1
         /\ DOMAIN Append(s, e) = 1 .. Len(s) + 1
         /\ \A i \in 1 .. Len(s) : Append(s, e)[i] = s[i]
         /\ Append(s, e)[Len(s) + 1] = e
  OBVIOUS

\* The four cases, and how many commands they have.
LEMMA CasesAre ==
  /\ Len(Cases) = 4 /\ DOMAIN Cases = 1 .. 4
  /\ Cases[1] = "healthcheck" /\ Cases[2] = "check perf"
  /\ Cases[3] = "serial" /\ Cases[4] = "concurrent"
  /\ Commands(Cases[1]) = 3 /\ Commands(Cases[2]) = 1
  /\ Commands(Cases[3]) = 3 /\ Commands(Cases[4]) = 3
  BY DEF Cases, Commands

\* Which of them comes after k others.
LEMMA CaseAt ==
  ASSUME NEW k \in Nat, k < 4
  PROVE  /\ k <= 1 => Cases[k + 1] \notin Benchmarks
         /\ k = 2 => Cases[k + 1] = "serial"
         /\ k = 3 => Cases[k + 1] = "concurrent"
         /\ Commands(Cases[k + 1]) = IF k = 1 THEN 1 ELSE 3
<1>1. k = 0 \/ k = 1 \/ k = 2 \/ k = 3
  OBVIOUS
<1>2. CASE k = 0
  <2>1. k + 1 = 1 /\ k # 1 /\ k # 2 /\ k # 3
    BY <1>2
  <2> QED
    BY <2>1, CasesAre DEF Benchmarks
<1>3. CASE k = 1
  <2>1. k + 1 = 2 /\ k # 2 /\ k # 3
    BY <1>3
  <2> QED
    BY <1>3, <2>1, CasesAre DEF Benchmarks
<1>4. CASE k = 2
  <2>1. k + 1 = 3 /\ ~(k <= 1) /\ k # 1 /\ k # 3
    BY <1>4
  <2> QED
    BY <2>1, CasesAre
<1>5. CASE k = 3
  <2>1. k + 1 = 4 /\ ~(k <= 1) /\ k # 1 /\ k # 2
    BY <1>5
  <2> QED
    BY <2>1, CasesAre
<1> QED
  BY <1>1, <1>2, <1>3, <1>4, <1>5

\* The results and errors are sequences.
LEMMA EtcdTypes ==
  ASSUME TypeOK
  PROVE  /\ results \in Seq(States) /\ Len(results) \in Nat /\ DOMAIN results = 1 .. Len(results)
         /\ errs \in Seq(BOOLEAN) /\ Len(errs) \in Nat /\ DOMAIN errs = 1 .. Len(errs)
         /\ Jobs \subseteq 0 .. LastJob
<1>1. results \in Seq(States) /\ errs \in Seq(BOOLEAN)
  BY DEF TypeOK, States
<1>2. Jobs \subseteq 0 .. LastJob
  BY JobsAssumption DEF Jobs
<1> QED
  BY <1>1, <1>2

\* No command has run, and what an earlier run has left was scraped before.
LEMMA EtcdInit == Init => EtcdInv
<1> SUFFICES ASSUME Init PROVE EtcdInv
  OBVIOUS
<1>1. JobsTypeOK
  <2>1. 0 \in 0 .. LastJob
    BY JobsAssumption
  <2> QED
    BY <2>1 DEF Init, JobsInit, JobsTypeOK
<1>2. 0 \in 0 .. LastTime /\ -1 \in -1 .. LastTime /\ 0 \in -1 .. LastTime
  BY MonitorAssumption DEF LastTime
<1>3. PICK S \in SUBSET EtcdPods : targets \in [S -> {-1, 0}]
  BY DEF Init, MonitorInit
<1>4. MonitorTypeOK
  BY <1>2, <1>3 DEF Init, MonitorInit, MonitorTypeOK
<1>5. ScrapesFit
  BY <1>3 DEF Init, MonitorInit, ScrapesFit
<1>6. /\ results \in Seq({"PASS", "ERROR", "SKIP"}) /\ Len(results) = 0
      /\ errs \in Seq(BOOLEAN) /\ Len(errs) = 0
  BY DEF Init
<1>7. TypeOK
  <2> DEFINE n == Len(Cases)
  <2>1. n = 4
    BY CasesAre
  <2> HIDE DEF n
  <2>2. Len(results) <= n + 1 /\ Len(errs) < 3
    BY <1>6, <2>1
  <2> QED
    BY <1>1, <1>4, <1>6, <2>2 DEF Init, JobsInit, TypeOK, n
<1>8. PlaceFits /\ SeenFits
  BY <1>6 DEF Init, JobsInit, PlaceFits, SeenFits, Before, After
<1>9. CasesFit /\ DoomedFits
  BY DEF Init, CasesFit, LoadsAsTold, DoomedFits
<1> QED
  BY <1>5, <1>7, <1>8, <1>9 DEF EtcdInv, SuiteInv

-----------------------------------------------------------------------------
(* The job and its pod.                                                    *)

\* No pod comes again.
Onward ==
  /\ \A j \in Jobs : pod[j] # "none" => pod'[j] # "none"
  /\ \A j \in Jobs : pod[j] # "none" /\ pod'[j] = "ready" => pod[j] = "ready"

\* While RunE waits, a command that cannot succeed does not.
LEMMA WaitKeeps ==
  ASSUME EtcdInv, UNCHANGED <<monitorVars, suiteVars>>, Onward, JobsTypeOK', SeenFits',
         \/ call' = call
         \/ pc = "job" /\ call' \in {"posting", "pod", "ok", "error"}
         \/ pc = "copy" /\ call' \in {"copy", "ok", "error"}
         \/ pc = "cases" /\ call # "idle" /\ call' \in {"exec", "ok", "error"},
         pc = "cases" /\ call' # call =>
           \/ call' = "error"
           \/ call = "exec" /\ call' = "ok" /\ pod[found] = "ready",
         pc = "cases" => found' = found
  PROVE  EtcdInv'
<1> USE DEF monitorVars, suiteVars, optionVars
<1>1. TypeOK' /\ ScrapesFit'
  BY DEF EtcdInv, TypeOK, MonitorTypeOK, LastTime, ScrapesFit
<1>2. PlaceFits'
  BY DEF EtcdInv, SuiteInv, PlaceFits, Before, After
<1>3. CasesFit'
  BY DEF EtcdInv, SuiteInv, CasesFit, LoadsAsTold
<1>4. DoomedFits'
  <2> SUFFICES ASSUME NEW i \in doomed, i = Len(results) + 1
               PROVE  /\ pc = "cases"
                      /\ HasError \/ call' = "error" \/ (call' = "exec" /\ pod'[found'] # "ready")
    BY DEF EtcdInv, SuiteInv, DoomedFits, HasError
  <2>1. /\ pc = "cases"
        /\ HasError \/ call = "error" \/ (call = "exec" /\ pod[found] # "ready")
    BY DEF EtcdInv, SuiteInv, DoomedFits
  <2>2. found' = found /\ found \in Jobs /\ pod[found] # "none"
    BY <2>1 DEF EtcdInv, SuiteInv, SeenFits
  <2> QED
    BY <2>1, <2>2 DEF Onward
<1> QED
  BY <1>1, <1>2, <1>3, <1>4 DEF EtcdInv, SuiteInv

\* The cluster starts no pod again.
LEMMA ClusterIs ==
  ASSUME EtcdInv, JobStep(TRUE)
  PROVE  /\ job' \in [Jobs -> {"none", "active", "complete", "failed"}]
         /\ pod' \in [Jobs -> {"none", "ready", "succeeded", "failed", "gone"}]
         /\ collected' \subseteq Jobs
         /\ Onward
         /\ UNCHANGED <<call, mine, found, timer, runVars>>
         /\ events' = events \cup Shows'
<1> USE DEF EtcdInv, TypeOK, JobsTypeOK, Onward
<1>1. UNCHANGED <<call, mine, found, timer, runVars>> /\ events' = events \cup Shows'
  BY DEF JobStep
<1>2. PICK j \in Jobs :
        PodStarts(j) \/ PodEnds(j) \/ JobEnds(j) \/ DeadlineExceeded(j) \/ Collects(j)
  BY DEF JobStep
<1>3. CASE PodStarts(j)
  BY <1>1, <1>3 DEF PodStarts
<1>4. CASE PodEnds(j)
  BY <1>1, <1>4 DEF PodEnds
<1>5. CASE JobEnds(j)
  BY <1>1, <1>5 DEF JobEnds
<1>6. CASE DeadlineExceeded(j)
  BY <1>1, <1>6 DEF DeadlineExceeded
<1>7. CASE Collects(j)
  BY <1>1, <1>7 DEF Collects
<1> QED
  BY <1>2, <1>3, <1>4, <1>5, <1>6, <1>7

\* Jobs and pods that come and go.
LEMMA ClusterKeeps ==
  ASSUME EtcdInv, JobStep(TRUE), UNCHANGED <<monitorVars, suiteVars>>
  PROVE  EtcdInv'
<1>1. /\ job' \in [Jobs -> {"none", "active", "complete", "failed"}]
      /\ pod' \in [Jobs -> {"none", "ready", "succeeded", "failed", "gone"}]
      /\ collected' \subseteq Jobs
      /\ Onward
      /\ UNCHANGED <<call, mine, found, timer, runVars>>
      /\ events' = events \cup Shows'
  BY ClusterIs
<1>2. /\ Shows' \subseteq {e \in Jobs \X {"ready", "complete", "failed"} : pod'[e[1]] # "none"}
      /\ events \subseteq Jobs \X {"ready", "complete", "failed"}
  <2>1. call' # "job" /\ (call' = "pod" => mine' \in Jobs)
    BY <1>1 DEF EtcdInv, TypeOK, SuiteInv, SeenFits
  <2> QED
    BY <2>1 DEF EtcdInv, TypeOK, JobsTypeOK, Shows, Selected
<1>3. JobsTypeOK'
  BY <1>1, <1>2 DEF EtcdInv, TypeOK, JobsTypeOK, runVars
<1>4. SeenFits'
  BY <1>1, <1>2 DEF EtcdInv, SuiteInv, SeenFits, Onward, suiteVars
<1> QED
  BY <1>1, <1>3, <1>4, WaitKeeps

\* The job is created, or not, and its pod seen, perhaps long after it was
\* ready.
LEMMA ReadyKeeps ==
  ASSUME EtcdInv, ReadyStep(FALSE, Waits), UNCHANGED <<monitorVars, suiteVars>>
  PROVE  EtcdInv'
<1> USE DEF runVars, objectVars
<1>1. pc = "job"
  BY DEF ReadyStep, PostsJob, PostFails, SeesPodReady, GivesUp, Waits, EtcdInv, TypeOK, SuiteInv,
         PlaceFits, After
<1>2. UNCHANGED <<pod, collected, cancelled, jobSuspend>> /\ Onward
  BY DEF ReadyStep, PostsJob, PostFails, SeesPodReady, GivesUp, Onward
<1>3. pc' = pc
  BY DEF suiteVars
<1>4. CASE PostsJob
  <2>1. PICK j \in Jobs : Creates(j) /\ mine' = j
    BY <1>4 DEF PostsJob
  <2>2. call' = "pod" /\ events' = {} /\ timer' = FALSE /\ found' = found
    BY <1>4 DEF PostsJob
  <2>3. JobsTypeOK'
    <3>1. mine' \in 0 .. LastJob
      BY <2>1, EtcdTypes DEF EtcdInv
    <3> QED
      BY <1>2, <2>1, <2>2, <3>1 DEF Creates, EtcdInv, TypeOK, JobsTypeOK
  <2>4. SeenFits'
    BY <1>1, <1>3, <2>1, <2>2 DEF SeenFits
  <2> QED
    BY <1>1, <1>2, <2>2, <2>3, <2>4, WaitKeeps
<1>5. CASE PostFails
  <2>1. call' = "error" /\ UNCHANGED <<mine, found, events, timer>>
    BY <1>5 DEF PostFails
  <2>2. JobsTypeOK'
    BY <1>2, <1>5, <2>1 DEF PostFails, Creates, EtcdInv, TypeOK, JobsTypeOK
  <2>3. SeenFits'
    BY <1>1, <1>3, <2>1 DEF SeenFits
  <2> QED
    BY <1>1, <1>2, <2>1, <2>2, <2>3, WaitKeeps
<1>6. CASE SeesPodReady(FALSE)
  <2>1. PICK j \in Jobs : <<j, "ready">> \in events /\ found' = j
    BY <1>6 DEF SeesPodReady
  <2>2. /\ call = "pod" /\ call' = "ok" /\ timer' = FALSE /\ events' = Shows'
        /\ UNCHANGED <<job, mine>>
    BY <1>6 DEF SeesPodReady
  <2>3. pod[j] # "none"
    BY <2>1, <2>2 DEF EtcdInv, SuiteInv, SeenFits
  <2>4. JobsTypeOK'
    <3>1. found' \in 0 .. LastJob
      BY <2>1, EtcdTypes DEF EtcdInv
    <3>2. Shows' = {}
      BY <2>2 DEF Shows
    <3> QED
      BY <1>2, <2>2, <3>1, <3>2 DEF EtcdInv, TypeOK, JobsTypeOK
  <2>5. SeenFits'
    BY <1>2, <2>1, <2>2, <2>3 DEF SeenFits
  <2> QED
    BY <1>1, <1>2, <2>2, <2>4, <2>5, WaitKeeps
<1>7. CASE GivesUp(Waits)
  <2>1. call' = "error" /\ UNCHANGED <<job, mine, found, events, timer>>
    BY <1>7 DEF GivesUp
  <2>2. JobsTypeOK'
    BY <1>2, <2>1 DEF EtcdInv, TypeOK, JobsTypeOK
  <2>3. SeenFits'
    BY <1>1, <1>3, <2>1 DEF SeenFits
  <2> QED
    BY <1>1, <1>2, <2>1, <2>2, <2>3, WaitKeeps
<1> QED
  BY <1>4, <1>5, <1>6, <1>7 DEF ReadyStep

\* What changes neither jobs nor pods nor what is waited for.
LEMMA CallKeeps ==
  ASSUME EtcdInv, UNCHANGED <<monitorVars, suiteVars>>,
         StreamBreaks \/ TimeIsUp(Waits) \/ CommandFails \/ Succeeds \/ Signal \/ Relists
  PROVE  EtcdInv'
<1> USE DEF runVars, objectVars, callVars
<1>1. UNCHANGED <<job, pod, collected, mine, found, jobSuspend>> /\ Onward
  BY DEF StreamBreaks, TimeIsUp, CommandFails, Succeeds, Signal, Relists, Onward
<1>2. \/ call' = call
      \/ call \in {"copy", "exec"} /\ call' = "error"
      \/ call \in {"copy", "exec"} /\ call' = "ok" /\ pod[found] = "ready"
  BY DEF StreamBreaks, TimeIsUp, CommandFails, Succeeds, Signal, Relists, Executing
<1>3. events' = events \/ (call = "pod" /\ call' = "pod" /\ events' = Shows)
  BY DEF StreamBreaks, TimeIsUp, CommandFails, Succeeds, Signal, Relists, EtcdInv, TypeOK
<1>4. timer' \in BOOLEAN /\ cancelled' \in BOOLEAN
  BY DEF StreamBreaks, TimeIsUp, CommandFails, Succeeds, Signal, Relists, EtcdInv, TypeOK,
         JobsTypeOK
<1>5. call = "pod" =>
        Shows \subseteq {e \in Jobs \X {"ready", "complete", "failed"} : pod[e[1]] # "none"}
  BY DEF EtcdInv, TypeOK, JobsTypeOK, SuiteInv, SeenFits, Shows, Selected
<1>6. JobsTypeOK'
  BY <1>1, <1>3, <1>4, <1>5 DEF EtcdInv, TypeOK, JobsTypeOK
<1>7. pc' = pc
  BY DEF suiteVars
<1>8. call' # call => pc \in {"copy", "cases"}
  BY <1>2 DEF EtcdInv, TypeOK, SuiteInv, PlaceFits, After
<1>9. SeenFits'
  BY <1>1, <1>2, <1>3, <1>5, <1>7, <1>8 DEF EtcdInv, SuiteInv, SeenFits
<1>10. pc = "cases" => call # "copy"
  BY DEF EtcdInv, SuiteInv, PlaceFits
<1> QED
  BY <1>1, <1>2, <1>6, <1>8, <1>9, <1>10, WaitKeeps

-----------------------------------------------------------------------------
(* The monitor.                                                            *)

\* Prometheus scrapes now.
LEMMA MonitorIs ==
  ASSUME EtcdInv, NEW callError,
         \/ Applies(callError, cancelled) \/ PollSucceeds \/ PollEnds(cancelled)
         \/ TimePasses \/ PrometheusStep
  PROVE  MonitorTypeOK' /\ ScrapesFit'
<1>1. MonitorTypeOK /\ ScrapesFit
  BY DEF EtcdInv, TypeOK
<1>2. LastTime \in Nat
  BY MonitorAssumption DEF LastTime
<1>3. CASE Applies(callError, cancelled) \/ PollSucceeds \/ PollEnds(cancelled)
  <2>1. UNCHANGED <<targets, unhealthy, now>>
    BY <1>3 DEF Applies, PollSucceeds, PollEnds
  <2>2. /\ monitor' \in {"idle", "apply", "poll", "ok", "error"}
        /\ applied' \in BOOLEAN /\ applyTime' \in {applyTime, now}
    BY <1>1, <1>3 DEF Applies, PollSucceeds, PollEnds, MonitorTypeOK
  <2> QED
    BY <1>1, <2>1, <2>2 DEF MonitorTypeOK, ScrapesFit, LastTime
<1>4. CASE TimePasses
  <2>1. /\ now < LastTime /\ now' = now + 1
        /\ UNCHANGED <<monitor, applied, targets, unhealthy, applyTime>>
    BY <1>4 DEF TimePasses
  <2>2. now' \in 0 .. LastTime /\ now <= now'
    BY <1>1, <1>2, <2>1 DEF MonitorTypeOK
  <2>3. \A p \in DOMAIN targets : targets[p] <= now'
    BY <1>1, <1>2, <2>2 DEF MonitorTypeOK, ScrapesFit
  <2> QED
    BY <1>1, <2>1, <2>2, <2>3 DEF MonitorTypeOK, ScrapesFit, LastTime
<1>5. CASE PrometheusStep
  <2>1. PICK p \in EtcdPods : Discovers(p) \/ Scrapes(p) \/ Drops(p)
    BY <1>5 DEF PrometheusStep
  <2>2. UNCHANGED <<monitor, applied, applyTime, now>>
    BY <1>5 DEF PrometheusStep
  <2>3. -1 \in -1 .. LastTime /\ -1 <= now /\ now \in -1 .. LastTime /\ now <= now
    BY <1>1, <1>2 DEF MonitorTypeOK
  <2>4. /\ DOMAIN targets' \subseteq EtcdPods /\ unhealthy' \subseteq DOMAIN targets'
        /\ \A q \in DOMAIN targets' :
             \/ q \in DOMAIN targets /\ targets'[q] = targets[q]
             \/ targets'[q] = -1
             \/ targets'[q] = now
    <3>1. CASE Discovers(p)
      BY <1>1, <3>1 DEF Discovers, MonitorTypeOK
    <3>2. CASE Scrapes(p)
      BY <1>1, <3>2 DEF Scrapes, MonitorTypeOK
    <3>3. CASE Drops(p)
      BY <1>1, <3>3 DEF Drops, MonitorTypeOK
    <3> QED
      BY <2>1, <3>1, <3>2, <3>3
  <2>5. \A q \in DOMAIN targets' : targets'[q] \in -1 .. LastTime /\ targets'[q] <= now
    BY <1>1, <2>3, <2>4 DEF MonitorTypeOK, ScrapesFit
  <2> QED
    BY <1>1, <2>2, <2>4, <2>5 DEF MonitorTypeOK, ScrapesFit, LastTime
<1> QED
  BY <1>3, <1>4, <1>5

\* The suite waits for the monitor without a call of its own.
LEMMA MonitorKeeps ==
  ASSUME EtcdInv, UNCHANGED <<jobVars, suiteVars>>, Monitoring \/ TimePasses \/ PrometheusStep
  PROVE  EtcdInv'
<1> USE DEF jobVars, objectVars, callVars, runVars, suiteVars, optionVars
<1>1. MonitorTypeOK' /\ ScrapesFit'
  BY MonitorIs DEF Monitoring
<1>2. TypeOK'
  <2>1. JobsTypeOK'
    BY DEF EtcdInv, TypeOK, JobsTypeOK
  <2> QED
    BY <1>1, <2>1 DEF EtcdInv, TypeOK
<1>3. PlaceFits' /\ SeenFits'
  BY DEF EtcdInv, SuiteInv, PlaceFits, SeenFits
<1>4. CasesFit' /\ DoomedFits'
  BY DEF EtcdInv, SuiteInv, CasesFit, LoadsAsTold, DoomedFits, HasError
<1> QED
  BY <1>1, <1>2, <1>3, <1>4 DEF EtcdInv, SuiteInv

\* When the poll has as many ready targets as there are etcd pods, each of
\* them has one, scraped so long after the Apply that the range of the
\* queries lies after it too.
LEMMA PollSeesThisRun ==
  ASSUME EtcdInv, PollSucceeds
  PROVE  /\ now - RangeDuration > applyTime
         /\ \A p \in EtcdPods : p \in DOMAIN targets /\ targets[p] > now - RangeDuration
<1> DEFINE ready == {p \in DOMAIN targets \ unhealthy : Counts(p)}
<1>1. /\ DOMAIN targets \subseteq EtcdPods
      /\ \A p \in DOMAIN targets : targets[p] \in -1 .. LastTime /\ targets[p] <= now
      /\ applyTime \in 0 .. LastTime /\ now \in 0 .. LastTime
  BY DEF EtcdInv, TypeOK, MonitorTypeOK, ScrapesFit
<1>2. ready \subseteq EtcdPods /\ Cardinality(ready) = Cardinality(EtcdPods)
  BY <1>1 DEF PollSucceeds, ReadyCount
<1>3. ready = EtcdPods
  BY <1>2, MonitorAssumption, FS_Subset
<1>4. ASSUME NEW p \in EtcdPods
      PROVE  /\ p \in DOMAIN targets /\ now - RangeDuration > applyTime
             /\ targets[p] > now - RangeDuration
  <2>1. p \in DOMAIN targets /\ targets[p] > applyTime + RangeDuration
    BY <1>3 DEF Counts
  <2>2. /\ RangeDuration \in Nat /\ LastTime \in Nat /\ LastTime <= 2 * RangeDuration
        /\ targets[p] \in Int /\ targets[p] <= now /\ now <= LastTime
        /\ applyTime \in Nat /\ now \in Nat
    BY <1>1, <2>1, MonitorAssumption DEF LastTime
  <2> HIDE DEF ready
  <2> QED
    BY <2>1, <2>2
<1> QED
  BY <1>4, MonitorAssumption

-----------------------------------------------------------------------------
(* RunE.                                                                   *)

\* Nothing has run before the cases.
LEMMA BeforeKeeps == ASSUME EtcdInv, Starts \/ JobReturns \/ CopyReturns PROVE EtcdInv'
<1> USE DEF objectVars, runVars, optionVars
<1>1. /\ UNCHANGED <<job, pod, collected, mine, found, events, cancelled, jobSuspend,
                     monitorVars, errs, results, doomed, load, used>>
      /\ pc \in Before /\ timer' \in BOOLEAN /\ suiteErr' \in BOOLEAN
      /\ \/ pc = "start" /\ pc' = "job" /\ call' = "posting"
         \/ pc = "job" /\ pc' = "copy" /\ call = "ok" /\ call' \in {"copy", "error"}
         \/ pc = "copy" /\ pc' = "cases" /\ call = "ok" /\ call' = "idle"
         \/ pc' = "done" /\ call' = "idle"
  <2>1. CASE Starts
    BY <2>1 DEF Starts, SuiteFails, Before, EtcdInv, TypeOK, JobsTypeOK, SuiteInv, PlaceFits
  <2>2. CASE JobReturns
    BY <2>2 DEF JobReturns, SuiteFails, OpensStream, Opened, Before, EtcdInv, TypeOK, JobsTypeOK
  <2>3. CASE CopyReturns
    BY <2>3 DEF CopyReturns, SuiteFails, Before, EtcdInv, TypeOK, JobsTypeOK
  <2> QED
    BY <2>1, <2>2, <2>3
<1> USE DEF monitorVars
<1>2. Len(results) = 0 /\ Len(errs) = 0
  BY <1>1 DEF EtcdInv, SuiteInv, PlaceFits, Before
<1>3. TypeOK' /\ ScrapesFit'
  <2>1. JobsTypeOK'
    BY <1>1 DEF EtcdInv, TypeOK, JobsTypeOK
  <2>2. MonitorTypeOK' /\ ScrapesFit'
    BY <1>1 DEF EtcdInv, TypeOK, MonitorTypeOK, LastTime, ScrapesFit
  <2>3. /\ call' \in {"idle", "posting", "pod", "copy", "exec", "ok", "error"}
        /\ pc' \in {"start", "job", "copy", "cases", "monitor", "queries", "report", "done"}
    BY <1>1
  <2> QED
    BY <1>1, <2>1, <2>2, <2>3 DEF EtcdInv, TypeOK
<1>4. PlaceFits'
  BY <1>1, <1>2 DEF PlaceFits, Before, After
<1>5. SeenFits'
  BY <1>1 DEF EtcdInv, SuiteInv, SeenFits
<1>6. CasesFit'
  BY <1>1 DEF EtcdInv, SuiteInv, CasesFit, LoadsAsTold
<1>7. DoomedFits'
  <2>1. \A i \in doomed : i # Len(results) + 1
    BY <1>1 DEF EtcdInv, SuiteInv, DoomedFits, Before
  <2> QED
    BY <1>1, <2>1 DEF EtcdInv, SuiteInv, DoomedFits
<1> QED
  BY <1>3, <1>4, <1>5, <1>6, <1>7 DEF EtcdInv, SuiteInv

\* The next command, of a case that is lost or not.
LEMMA ExecutesKeeps == ASSUME EtcdInv, Executes PROVE EtcdInv'
<1> USE DEF objectVars, runVars, monitorVars
<1> DEFINE n == Len(results)
<1>1. /\ UNCHANGED <<job, pod, collected, mine, found, events, cancelled, jobSuspend,
                     monitorVars, pc, errs, results, suiteErr>>
      /\ pc = "cases" /\ call = "idle" /\ timer' = FALSE
      /\ load' = LoadFor(Case)
      /\ used' = IF Case \in Benchmarks THEN used \cup {<<Case, load'>>} ELSE used
      /\ call' \in {"exec", "error"} /\ (cancelled => call' = "error")
  BY DEF Executes, OpensStream, Opened
<1>2. n \in Nat /\ n < 4 /\ DOMAIN results = 1 .. n
  BY CasesAre, EtcdTypes DEF Executes, EtcdInv
<1>3. doomed' = doomed \/ (doomed' = doomed \cup {n + 1} /\ (cancelled \/ pod[found] # "ready"))
  BY DEF Executes
<1>4. n + 1 \in 1 .. 4 /\ ~(n + 1 <= n) /\ n + 1 <= n + 1
  BY <1>2
<1>5. /\ n <= 1 => Case \notin Benchmarks
      /\ n = 2 => Case = "serial"
      /\ n = 3 => Case = "concurrent"
  BY <1>2, CaseAt DEF Case
<1>6. CasesFit'
  <2>1. n <= 2 => load = "configured"
    BY DEF EtcdInv, SuiteInv, CasesFit
  <2>2. CASE n <= 1
    <3>1. Case # "concurrent" /\ Case \notin Benchmarks /\ n <= 2
      BY <1>2, <1>5, <2>2 DEF Benchmarks
    <3> QED
      BY <1>1, <3>1 DEF EtcdInv, SuiteInv, CasesFit, LoadsAsTold, LoadFor
  <2>3. CASE n = 2
    <3>1. load' = "configured" /\ used' = used \cup {<<"serial", "configured">>}
      BY <1>1, <1>5, <2>1, <2>3 DEF LoadFor, Benchmarks
    <3> QED
      BY <1>1, <3>1 DEF EtcdInv, SuiteInv, CasesFit, LoadsAsTold
  <2>4. CASE n = 3
    <3>1. used' = used \cup {<<"concurrent", "concurrent">>}
      BY <1>1, <1>5, <2>4 DEF LoadFor, Benchmarks
    <3>2. ~(n <= 2) /\ n # 1
      BY <2>4
    <3> QED
      BY <1>1, <3>1, <3>2 DEF EtcdInv, SuiteInv, CasesFit, LoadsAsTold
  <2>5. n <= 1 \/ n = 2 \/ n = 3
    BY <1>2
  <2> QED
    BY <2>2, <2>3, <2>4, <2>5
<1>7. TypeOK' /\ ScrapesFit'
  <2>1. JobsTypeOK'
    BY <1>1 DEF EtcdInv, TypeOK, JobsTypeOK
  <2>2. MonitorTypeOK' /\ ScrapesFit'
    BY <1>1 DEF EtcdInv, TypeOK, MonitorTypeOK, LastTime, ScrapesFit
  <2>3. load' \in {"configured", "concurrent"}
    BY <1>1 DEF LoadFor, EtcdInv, TypeOK
  <2>4. used' \subseteq Benchmarks \X {"configured", "concurrent"}
    BY <1>1, <2>3 DEF EtcdInv, TypeOK
  <2>5. doomed' \subseteq DOMAIN Cases
    BY <1>3, <1>4, CasesAre DEF EtcdInv, TypeOK
  <2> QED
    BY <1>1, <2>1, <2>2, <2>3, <2>4, <2>5 DEF EtcdInv, TypeOK
<1>8. PlaceFits'
  BY <1>1, <1>2 DEF EtcdInv, SuiteInv, PlaceFits, Before, After
<1>9. SeenFits'
  BY <1>1 DEF EtcdInv, SuiteInv, SeenFits
<1>10. DoomedFits'
  <2>1. n + 1 \in doomed => HasError
    BY <1>1 DEF EtcdInv, SuiteInv, DoomedFits
  <2>2. n + 1 \in doomed' => HasError' \/ call' = "error" \/ (call' = "exec" /\ pod'[found'] # "ready")
    BY <1>1, <1>3, <2>1 DEF HasError
  <2>3. \A i \in doomed : i <= n + 1 /\ (i <= n => results[i] # "PASS")
    BY DEF EtcdInv, SuiteInv, DoomedFits
  <2>4. \A i \in doomed' : i \in doomed \/ i = n + 1
    BY <1>3
  <2>5. \A i \in doomed' : i <= n + 1 /\ (i <= n => results[i] # "PASS")
    BY <1>4, <2>3, <2>4
  <2> QED
    BY <1>1, <2>2, <2>5 DEF DoomedFits
<1> QED
  BY <1>6, <1>7, <1>8, <1>9, <1>10 DEF EtcdInv, SuiteInv

\* A result comes after those there are; and one that was lost is no pass.
LEMMA ResultKeeps ==
  ASSUME TypeOK, DoomedFits, NEW state \in States, results' = Append(results, state),
         Len(results) + 1 \in doomed => state # "PASS", doomed' = doomed
  PROVE  /\ results' \in Seq(States) /\ Len(results') = Len(results) + 1
         /\ \A i \in doomed' : i <= Len(results') /\ results'[i] # "PASS"
         /\ DoomedFits'
<1> DEFINE n == Len(results)
<1>1. results \in Seq(States) /\ n \in Nat /\ doomed \subseteq 1 .. 4
  BY EtcdTypes, CasesAre DEF TypeOK
<1>2. /\ results' \in Seq(States) /\ Len(results') = n + 1
      /\ \A i \in 1 .. n : results'[i] = results[i]
      /\ results'[n + 1] = state
  BY <1>1, AppendIs
<1>3. ASSUME NEW i \in doomed
      PROVE  i <= n + 1 /\ i # n + 2 /\ results'[i] # "PASS"
  <2>1. i \in 1 .. 4 /\ i <= n + 1
    BY <1>1 DEF DoomedFits
  <2>2. CASE i <= n
    <3>1. i \in 1 .. n
      BY <1>1, <2>1, <2>2
    <3> QED
      BY <1>1, <1>2, <2>1, <2>2, <3>1 DEF DoomedFits
  <2>3. CASE i = n + 1
    BY <1>1, <1>2, <2>3
  <2> QED
    BY <1>1, <2>1, <2>2, <2>3
<1> HIDE DEF n
<1>4. \A i \in doomed : i <= n + 1 /\ i <= (n + 1) + 1 /\ i # (n + 1) + 1
  BY <1>1, <1>3 DEF n
<1>5. \A i \in doomed' : i <= Len(results') /\ results'[i] # "PASS"
  BY <1>2, <1>3, <1>4
<1>6. DoomedFits'
  BY <1>2, <1>4, <1>5 DEF DoomedFits
<1> QED
  BY <1>2, <1>5, <1>6 DEF n

\* A command returns: its error is kept, and those of a case decide on it.
LEMMA CommandReturnsKeeps == ASSUME EtcdInv, CommandReturns PROVE EtcdInv'
<1> USE DEF objectVars, runVars, monitorVars, optionVars
<1> DEFINE n == Len(results)
           m == Len(errs)
           all == Append(errs, call = "error")
<1>1. /\ UNCHANGED <<job, pod, collected, mine, found, events, timer, cancelled, jobSuspend,
                     monitorVars, pc, suiteErr, doomed, load, used>>
      /\ pc = "cases" /\ call \in {"ok", "error"} /\ call' = "idle"
      /\ IF Len(all) = Commands(Case)
         THEN results' = Append(results, State(all)) /\ errs' = <<>>
         ELSE errs' = all /\ results' = results
  BY DEF CommandReturns
<1>2. n \in Nat /\ m \in Nat /\ n < 4
  BY <1>1, EtcdTypes DEF EtcdInv, SuiteInv, PlaceFits
<1>3. /\ all \in Seq(BOOLEAN) /\ Len(all) = m + 1 /\ DOMAIN all = 1 .. m + 1
      /\ DOMAIN errs = 1 .. m
      /\ \A k \in 1 .. m : all[k] = errs[k]
      /\ all[m + 1] = (call = "error")
  <2>1. errs \in Seq(BOOLEAN) /\ (call = "error") \in BOOLEAN
    BY EtcdTypes DEF EtcdInv
  <2> QED
    BY <2>1, AppendIs
<1> HIDE DEF all
<1>4. Commands(Case) = IF n = 1 THEN 1 ELSE 3
  BY <1>2, CaseAt DEF Case
<1>5. HasError \/ call = "error" => \E k \in DOMAIN all : all[k]
  <2>1. 1 .. m \subseteq 1 .. m + 1 /\ m + 1 \in 1 .. m + 1
    BY <1>2
  <2> QED
    BY <1>3, <2>1 DEF HasError
<1>6. n + 1 \in doomed => \E k \in DOMAIN all : all[k]
  <2>1. n + 1 \in doomed => HasError \/ call = "error"
    BY <1>1 DEF EtcdInv, SuiteInv, DoomedFits
  <2> QED
    BY <1>5, <2>1
<1>7. JobsTypeOK' /\ MonitorTypeOK' /\ ScrapesFit'
  <2>1. JobsTypeOK'
    BY <1>1 DEF EtcdInv, TypeOK, JobsTypeOK
  <2> QED
    BY <1>1, <2>1 DEF EtcdInv, TypeOK, MonitorTypeOK, LastTime, ScrapesFit
<1>8. SeenFits'
  BY <1>1 DEF EtcdInv, SuiteInv, SeenFits
<1>9. CASE Len(all) = Commands(Case)
  <2>1. State(all) \in States /\ results' = Append(results, State(all)) /\ errs' = <<>>
    BY <1>1, <1>9 DEF State, States
  <2>2. n + 1 \in doomed => State(all) # "PASS"
    BY <1>6 DEF State
  <2>3. results' \in Seq(States) /\ Len(results') = n + 1 /\ DoomedFits'
    <3>1. TypeOK /\ DoomedFits /\ doomed' = doomed
      BY <1>1 DEF EtcdInv, SuiteInv
    <3> QED
      BY <2>1, <2>2, <3>1, ResultKeeps
  <2>4. Len(errs') = 0 /\ errs' \in Seq(BOOLEAN)
    BY <2>1
  <2>5. n + 1 <= 4 /\ n + 1 <= 4 + 1 /\ (n + 1 <= 2 => n <= 2)
    BY <1>2
  <2> HIDE DEF n, m
  <2>6. TypeOK'
    <3>1. Len(Cases) = 4
      BY CasesAre
    <3>2. Len(results') <= Len(Cases) + 1 /\ Len(errs') < 3
      BY <2>3, <2>4, <2>5, <3>1
    <3>3. results' \in Seq({"PASS", "ERROR", "SKIP"})
      BY <2>3 DEF States
    <3> QED
      BY <1>1, <1>7, <2>4, <3>2, <3>3 DEF EtcdInv, TypeOK
  <2>7. PlaceFits'
    BY <1>1, <2>3, <2>4, <2>5 DEF PlaceFits, Before, After
  <2>8. CasesFit'
    BY <1>1, <2>3, <2>4, <2>5 DEF EtcdInv, SuiteInv, CasesFit, LoadsAsTold, n
  <2> QED
    BY <1>7, <1>8, <2>3, <2>6, <2>7, <2>8 DEF EtcdInv, SuiteInv
<1>10. CASE Len(all) # Commands(Case)
  <2>1. errs' = all /\ results' = results
    BY <1>1, <1>10
  <2>2. n # 1 /\ n # 4 /\ m + 1 < 3
    <3>1. n = 1 => m = 0
      BY DEF EtcdInv, SuiteInv, CasesFit
    <3>2. m < 3
      BY DEF EtcdInv, TypeOK
    <3>3. m + 1 # IF n = 1 THEN 1 ELSE 3
      BY <1>3, <1>4, <1>10
    <3> QED
      BY <1>2, <3>1, <3>2, <3>3
  <2>3. TypeOK'
    BY <1>1, <1>3, <1>7, <2>1, <2>2 DEF EtcdInv, TypeOK
  <2>4. PlaceFits'
    BY <1>1, <2>1 DEF EtcdInv, SuiteInv, PlaceFits, Before, After
  <2>5. CasesFit'
    BY <1>1, <2>1, <2>2 DEF EtcdInv, SuiteInv, CasesFit, LoadsAsTold
  <2>6. DoomedFits'
    <3>1. n + 1 \in doomed => HasError'
      BY <1>6, <2>1 DEF HasError
    <3> QED
      BY <1>1, <2>1, <3>1 DEF EtcdInv, SuiteInv, DoomedFits
  <2> QED
    BY <1>7, <1>8, <2>3, <2>4, <2>5, <2>6 DEF EtcdInv, SuiteInv
<1> QED
  BY <1>9, <1>10

\* The cases are over; what comes after them is no case that can be lost.
LEMMA AfterKeeps ==
  ASSUME EtcdInv, StartsMonitoring \/ MonitorReturns \/ Queries \/ Returns
  PROVE  EtcdInv'
<1> USE DEF jobVars, objectVars, callVars, runVars, optionVars
<1>1. /\ UNCHANGED <<jobVars, applied, targets, unhealthy, applyTime, now, errs, suiteErr,
                     doomed, load, used>>
      /\ pc \in {"cases", "monitor", "queries", "report"} /\ pc' \in After
      /\ monitor' \in {monitor, "apply"}
  BY DEF StartsMonitoring, MonitorReturns, Queries, Returns, Reports, After, monitorVars
<1>2. \/ results' = results /\ (pc = "report" \/ Len(results) = 4)
      \/ /\ Len(results) = 4 /\ pc' = "report"
         /\ \E state \in States : results' = Append(results, state)
  BY CasesAre DEF StartsMonitoring, MonitorReturns, Queries, Returns, Reports, States, EtcdInv,
                  SuiteInv, PlaceFits
<1>3. pc' \in {"monitor", "queries"} => results' = results /\ Len(results) = 4
  BY CasesAre DEF StartsMonitoring, MonitorReturns, Queries, Returns, Reports, EtcdInv, SuiteInv,
                  PlaceFits
<1>4. call = "idle" /\ Len(errs) = 0
  <2>1. CASE pc = "cases"
    <3>1. Len(results) = 4
      BY <1>1, <1>2, <2>1
    <3>2. call = "idle"
      BY <2>1, <3>1 DEF EtcdInv, SuiteInv, PlaceFits
    <3> QED
      BY <2>1, <3>1, <3>2 DEF EtcdInv, SuiteInv, PlaceFits, CasesFit
  <2>2. CASE pc # "cases"
    BY <1>1, <2>2 DEF EtcdInv, SuiteInv, PlaceFits, After
  <2> QED
    BY <2>1, <2>2
<1>5. /\ results' \in Seq(States) /\ Len(results') <= 4 + 1 /\ DoomedFits'
      /\ Len(results') <= 2 => Len(results) <= 2
  <2>1. CASE results' = results
    <3>1. \A i \in doomed : i # Len(results) + 1
      <4>1. CASE pc = "cases"
        <5>1. Len(results) = 4 /\ doomed \subseteq 1 .. 4
          BY <1>1, <1>2, <2>1, <4>1, CasesAre DEF EtcdInv, TypeOK
        <5> QED
          BY <5>1
      <4>2. CASE pc # "cases"
        BY <4>2 DEF EtcdInv, SuiteInv, DoomedFits
      <4> QED
        BY <4>1, <4>2
    <3>2. DoomedFits'
      BY <1>1, <2>1, <3>1 DEF EtcdInv, SuiteInv, DoomedFits
    <3>3. results \in Seq(States)
      BY EtcdTypes DEF EtcdInv
    <3>4. Len(results) <= 4 + 1
      BY CasesAre DEF EtcdInv, TypeOK
    <3> QED
      BY <2>1, <3>2, <3>3, <3>4
  <2>2. CASE Len(results) = 4 /\ \E state \in States : results' = Append(results, state)
    <3>1. PICK state \in States : results' = Append(results, state)
      BY <2>2
    <3>2. Len(results) + 1 \notin doomed
      <4>1. doomed \subseteq 1 .. 4
        BY CasesAre DEF EtcdInv, TypeOK
      <4> QED
        BY <2>2, <4>1
    <3>3. TypeOK /\ DoomedFits /\ doomed' = doomed
      BY <1>1 DEF EtcdInv, SuiteInv
    <3>4. results' \in Seq(States) /\ Len(results') = Len(results) + 1 /\ DoomedFits'
      BY <3>1, <3>2, <3>3, ResultKeeps
    <3>5. Len(results') = 5
      BY <2>2, <3>4
    <3>6. Len(results') <= 4 + 1 /\ ~(Len(results') <= 2)
      BY <3>5
    <3> QED
      BY <3>4, <3>6
  <2> QED
    BY <1>2, <2>1, <2>2
<1>6. MonitorTypeOK' /\ ScrapesFit' /\ JobsTypeOK'
  <2>1. monitor' \in {"idle", "apply", "poll", "ok", "error"}
    BY <1>1 DEF EtcdInv, TypeOK, MonitorTypeOK
  <2>2. JobsTypeOK'
    BY <1>1 DEF EtcdInv, TypeOK, JobsTypeOK
  <2> QED
    BY <1>1, <2>1, <2>2 DEF EtcdInv, TypeOK, MonitorTypeOK, LastTime, ScrapesFit
<1>7. TypeOK'
  <2>1. Len(Cases) = 4
    BY CasesAre
  <2>2. results' \in Seq({"PASS", "ERROR", "SKIP"}) /\ Len(results') <= Len(Cases) + 1
    BY <1>5, <2>1 DEF States
  <2>3. pc' \in {"start", "job", "copy", "cases", "monitor", "queries", "report", "done"}
    BY <1>1 DEF After
  <2> QED
    BY <1>1, <1>6, <2>2, <2>3 DEF EtcdInv, TypeOK
<1>8. PlaceFits'
  BY <1>1, <1>3, <1>4 DEF PlaceFits, Before, After
<1>9. SeenFits'
  BY <1>1, <1>4 DEF EtcdInv, SuiteInv, SeenFits, After
<1>10. CasesFit'
  BY <1>1, <1>4, <1>5 DEF EtcdInv, SuiteInv, CasesFit, LoadsAsTold
<1> QED
  BY <1>5, <1>6, <1>7, <1>8, <1>9, <1>10 DEF EtcdInv, SuiteInv

-----------------------------------------------------------------------------
(* The theorems.                                                           *)

\* The invariant is kept by every step.
LEMMA EtcdNext == EtcdInv /\ [Next]_vars => EtcdInv'
<1> SUFFICES ASSUME EtcdInv, [Next]_vars PROVE EtcdInv'
  OBVIOUS
<1>1. CASE SuiteStep
  BY <1>1, BeforeKeeps, ExecutesKeeps, CommandReturnsKeeps, AfterKeeps DEF SuiteStep
<1>2. CASE Library \/ ((Succeeds \/ CommandFails) /\ UNCHANGED <<monitorVars, suiteVars>>)
  BY <1>2, ReadyKeeps, CallKeeps DEF Library
<1>3. CASE Monitoring \/ Time \/ (PrometheusStep /\ UNCHANGED <<jobVars, suiteVars>>)
  <2>1. CASE TimeIsUp(Waits) /\ UNCHANGED <<monitorVars, suiteVars>>
    BY <2>1, CallKeeps
  <2>2. CASE (Monitoring \/ TimePasses \/ PrometheusStep) /\ UNCHANGED <<jobVars, suiteVars>>
    BY <2>2, MonitorKeeps
  <2> QED
    BY <1>3, <2>1, <2>2 DEF Time, Monitoring
<1>4. CASE (JobStep(TRUE) \/ Relists \/ Signal) /\ UNCHANGED <<monitorVars, suiteVars>>
  BY <1>4, ClusterKeeps, CallKeeps
<1>5. CASE UNCHANGED vars
  <2> USE <1>5 DEF vars, jobVars, objectVars, callVars, runVars, monitorVars, suiteVars, optionVars
  <2>1. JobsTypeOK'
    BY DEF EtcdInv, TypeOK, JobsTypeOK
  <2>2. MonitorTypeOK' /\ ScrapesFit'
    BY DEF EtcdInv, TypeOK, MonitorTypeOK, LastTime, ScrapesFit
  <2>3. TypeOK'
    BY <2>1, <2>2 DEF EtcdInv, TypeOK
  <2>4. PlaceFits' /\ SeenFits'
    BY DEF EtcdInv, SuiteInv, PlaceFits, SeenFits
  <2>5. CasesFit' /\ DoomedFits'
    BY DEF EtcdInv, SuiteInv, CasesFit, LoadsAsTold, DoomedFits, HasError
  <2> QED
    BY <2>2, <2>3, <2>4, <2>5 DEF EtcdInv, SuiteInv
<1> QED
  BY <1>1, <1>2, <1>3, <1>4, <1>5 DEF Next, Finished

\* The invariant holds whatever the cluster and Prometheus do.
THEOREM EtcdInvAlways == Spec => []EtcdInv
  BY EtcdInit, EtcdNext, PTL DEF Spec

\* All variables of the suite, the job library and the monitor keep their
\* types.
THEOREM EtcdTypesAlways == Spec => []TypeOK
<1>1. EtcdInv => TypeOK
  BY DEF EtcdInv
<1> QED
  BY <1>1, EtcdInvAlways, PTL

\* A case that lost its pod, or was interrupted, before one of its commands
\* does not pass.
THEOREM PassAlwaysEarned == Spec => []PassIsEarned
<1>1. EtcdInv => PassIsEarned
  <2> SUFFICES ASSUME EtcdInv, NEW i \in doomed \cap DOMAIN results PROVE results[i] # "PASS"
    BY DEF PassIsEarned
  <2>1. Len(results) \in Nat /\ DOMAIN results = 1 .. Len(results)
    BY EtcdTypes DEF EtcdInv
  <2>2. i <= Len(results)
    BY <2>1
  <2> QED
    BY <2>2 DEF EtcdInv, SuiteInv, DoomedFits
<1> QED
  BY <1>1, EtcdInvAlways, PTL

\* Each benchmark runs with the load it is reported with.
THEOREM LoadsAlwaysAsTold == Spec => []LoadsAsTold
<1>1. EtcdInv => LoadsAsTold
  BY DEF EtcdInv, SuiteInv, CasesFit
<1> QED
  BY <1>1, EtcdInvAlways, PTL

\* When the poll succeeds, the range of the queries lies after this run's
\* Apply, and each etcd pod was scraped in it.
THEOREM QueriesAlwaysSeeThisRun == Spec => QueriesSeeThisRun
<1>1. EtcdInv /\ [Next]_vars =>
        [monitor = "poll" /\ monitor' = "ok" =>
           /\ now - RangeDuration > applyTime
           /\ \A p \in EtcdPods : p \in DOMAIN targets /\ targets[p] > now - RangeDuration]_monitorVars
  <2> SUFFICES ASSUME EtcdInv, [Next]_vars, monitor = "poll", monitor' = "ok"
               PROVE  /\ now - RangeDuration > applyTime
                      /\ \A p \in EtcdPods : p \in DOMAIN targets /\ targets[p] > now - RangeDuration
    OBVIOUS
  <2>1. PollSucceeds
    <3> USE DEF monitorVars
    <3>1. CASE SuiteStep
      BY <3>1 DEF SuiteStep, Starts, JobReturns, CopyReturns, Executes, CommandReturns,
                  StartsMonitoring, MonitorReturns, Queries, Returns
    <3>2. CASE Monitoring
      BY <3>2 DEF Monitoring, Applies, PollEnds
    <3>3. CASE Next /\ ~SuiteStep /\ ~Monitoring
      BY <3>3 DEF Next, Library, Time, TimePasses, PrometheusStep, Finished, vars
    <3>4. CASE UNCHANGED vars
      BY <3>4 DEF vars
    <3> QED
      BY <3>1, <3>2, <3>3, <3>4
  <2> QED
    BY <2>1, PollSeesThisRun
<1> QED
  BY <1>1, EtcdInvAlways, PTL DEF Spec, QueriesSeeThisRun
=============================================================================
