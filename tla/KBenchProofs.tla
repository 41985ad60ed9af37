---------------------------- MODULE KBenchProofs ----------------------------
(***************************************************************************)
(* What holds of the storage suite for every number of jobs and every      *)
(* fault setting: a passing case has a complete job on a bound claim and   *)
(* the whole log of its own pod, metrics are those of a run that took      *)
(* place, and nothing that begins after the signal passes.                 *)
(***************************************************************************)
EXTENDS KBench, TLAPS

-----------------------------------------------------------------------------
(* The inductive invariant.                                                *)

\* The library works while RunE waits for it, and for what RunE waits for.
CallFits ==
  /\ pc = "job" => call \in {"posting", "pod", "job", "ok", "error"}
  /\ pc = "bound" => call \in {"claim", "error"}
  /\ pc \notin {"job", "bound"} => call = "idle"
  /\ call \in {"pod", "job", "ok"} => mine \in Jobs
  /\ call \in {"job", "ok"} => found = mine
  /\ call = "ok" => job[mine] = "complete"

\* However late the watch delivers, it delivers events of this job, and
\* a completion stays true.
EventsFit ==
  /\ call = "pod" => events \subseteq {<<mine, "ready">>}
  /\ call = "job" /\ <<mine, "complete">> \in events => job[mine] = "complete"

\* A complete job has a pod that succeeded, or none any more.
PodsFit == \A j \in Jobs : job[j] = "complete" => pod[j] \in {"succeeded", "gone"}

Measured == mine \in Jobs /\ found = mine /\ job[mine] = "complete"

\* Once the wait for the job is over it is complete, for good.
JobFits == pc \in {"bound", "logs", "monitoring"} => Measured

ClaimFits == pc \in {"logs", "monitoring"} => claim = "bound"

\* The results follow pc, and what the first two of them rest on stays.
ResultsFit ==
  /\ pc \in {"start", "claim", "job", "bound", "logs"} => results = <<>>
  /\ pc = "monitoring" => Len(results) = 1
  /\ Passed(1) => Measured /\ claim = "bound" /\ logged = "succeeded"
  /\ Len(results) = 2 => Measured /\ pc \in {"report", "done"}

\* A case that begins after the signal has failed at once.
LateFits ==
  /\ 1 \in late => Len(results) >= 1 /\ results[1] = "ERROR"
  /\ 2 \in late => cancelled
  /\ 2 \in late /\ Len(results) = 2 => results[2] = "SKIP"

KInv ==
  /\ TypeOK /\ CallFits /\ EventsFit /\ PodsFit
  /\ JobFits /\ ClaimFits /\ ResultsFit /\ LateFits

-----------------------------------------------------------------------------
(* Lemmas.                                                                 *)

States == {"PASS", "ERROR", "SKIP"}

\* What is appended to a result list comes after what is there.
LEMMA Appended ==
  ASSUME NEW s \in Seq(States), NEW e \in States
  PROVE  /\ Append(s, e) \in Seq(States)
         /\ Len(Append(s, e)) = Len(s) + 1
         /\ \A i \in 1 .. Len(s) : Append(s, e)[i] = s[i]
         /\ Append(s, e)[Len(s) + 1] = e
         /\ DOMAIN Append(s, e) = 1 .. Len(s) + 1
  OBVIOUS

\* At most one result is added to at most one.
LEMMA OneMore ==
  ASSUME results \in Seq(States), Len(results) <= 1,
         results' = results \/ \E e \in States : results' = Append(results, e)
  PROVE  results' \in Seq(States) /\ Len(results') <= 2
<1>1. Len(results) \in Nat
  OBVIOUS
<1>2. CASE results' = results
  BY <1>1, <1>2
<1>3. ASSUME NEW e \in States, results' = Append(results, e)
      PROVE  results' \in Seq(States) /\ Len(results') <= 2
  BY <1>1, <1>3, Appended
<1> QED
  BY <1>2, <1>3

\* Nothing has been created or measured yet.
LEMMA KInit == Init => KInv
<1> SUFFICES ASSUME Init PROVE KInv
  OBVIOUS
<1> USE JobsAssumption DEF Init, JobsInit
<1>1. TypeOK
  <2>1. JobsTypeOK
    <3>1. events \subseteq Jobs \X {"ready", "complete", "failed"}
      OBVIOUS
    <3>2. mine \in 0 .. LastJob /\ found \in 0 .. LastJob
      OBVIOUS
    <3> QED
      BY <3>1, <3>2 DEF JobsTypeOK
  <2>2. results \in Seq(States) /\ Len(results) <= 2
    OBVIOUS
  <2> QED
    BY <2>1, <2>2 DEF TypeOK, States
<1>2. CallFits /\ EventsFit /\ PodsFit /\ JobFits /\ ClaimFits
  BY DEF CallFits, EventsFit, PodsFit, JobFits, ClaimFits
<1>3. ResultsFit /\ LateFits
  BY DEF ResultsFit, LateFits, Passed
<1> QED
  BY <1>1, <1>2, <1>3 DEF KInv

\* What the watch would find worth reporting is an event of this job.
LEMMA ShowsFit ==
  ASSUME TypeOK, call \in {"pod", "job"} => mine \in Jobs
  PROVE  /\ Shows \subseteq Jobs \X {"ready", "complete", "failed"}
         /\ call = "pod" => Shows \subseteq {<<mine, "ready">>}
         /\ call = "job" /\ <<mine, "complete">> \in Shows => job[mine] = "complete"
  BY DEF TypeOK, JobsTypeOK, Shows, Selected

\* The cluster never takes back that a job is complete.
LEMMA ClusterKeepsComplete ==
  ASSUME KInv, JobStep(claim = "bound")
  PROVE  /\ job' \in [Jobs -> {"none", "active", "complete", "failed"}]
         /\ pod' \in [Jobs -> {"none", "ready", "succeeded", "failed", "gone"}]
         /\ collected' \subseteq Jobs
         /\ \A j \in Jobs : job[j] = "complete" => job'[j] = "complete"
         /\ PodsFit'
         /\ UNCHANGED <<call, mine, found, timer, runVars>>
         /\ events' = events \cup Shows'
<1> USE DEF KInv, TypeOK, JobsTypeOK, PodsFit
<1>1. UNCHANGED <<call, mine, found, timer, runVars>> /\ events' = events \cup Shows'
  BY DEF JobStep
<1>2. PICK j \in Jobs :
        PodStarts(j) \/ PodEnds(j) \/ JobEnds(j) \/ DeadlineExceeded(j) \/ Collects(j)
  BY DEF JobStep
<1>3. CASE PodStarts(j)
  BY <1>1, <1>3 DEF PodStarts
<1>4. CASE PodEnds(j)
  BY <1>1, <1>4 DEF PodEnds
<1>5. CASE JobEnds(j)
  BY <1>1, <1>5 DEF JobEnds
<1>6. CASE DeadlineExceeded(j)
  BY <1>1, <1>6 DEF DeadlineExceeded
<1>7. CASE Collects(j)
  BY <1>1, <1>7 DEF Collects
<1> QED
  BY <1>2, <1>3, <1>4, <1>5, <1>6, <1>7

-----------------------------------------------------------------------------
(* The steps.  What stays as it is keeps its part of the invariant.        *)

\* The suite's results and the objects they rest on.
resultVars == <<pc, claim, logged, late, results>>

LEMMA ResultsStay ==
  ASSUME KInv, UNCHANGED <<resultVars, mine, found>>, cancelled => cancelled',
         \A j \in Jobs : job[j] = "complete" => job'[j] = "complete"
  PROVE  JobFits' /\ ClaimFits' /\ ResultsFit' /\ LateFits'
<1> USE DEF KInv, resultVars
<1>1. Measured => Measured'
  BY DEF Measured
<1>2. JobFits' /\ ClaimFits'
  BY <1>1 DEF JobFits, ClaimFits
<1>3. ResultsFit'
  BY <1>1 DEF ResultsFit, Passed
<1>4. LateFits'
  BY DEF LateFits
<1> QED
  BY <1>2, <1>3, <1>4

\* While RunE waits for the job there are no results, so the library is
\* free to choose the job and the pod they will be about.
LEMMA WaitingForJob ==
  ASSUME KInv, pc = "job", UNCHANGED <<resultVars, cancelled>>
  PROVE  JobFits' /\ ClaimFits' /\ ResultsFit' /\ LateFits'
<1> USE DEF KInv, resultVars
<1>1. results = <<>> /\ results' = <<>> /\ pc' = "job"
  BY DEF ResultsFit
<1>2. JobFits' /\ ClaimFits'
  BY <1>1 DEF JobFits, ClaimFits
<1>3. ResultsFit'
  BY <1>1 DEF ResultsFit, Passed
<1>4. LateFits'
  BY <1>1 DEF LateFits
<1> QED
  BY <1>2, <1>3, <1>4

\* The library's own steps.
LEMMA LibraryKeeps == KInv /\ Library => KInv'
<1> SUFFICES ASSUME KInv, Library PROVE KInv'
  OBVIOUS
<1> USE JobsAssumption DEF objectVars, runVars
<1>1. UNCHANGED <<claim, suiteVars>>
  BY DEF Library
<1>2. CASE PostsJob
  <2> USE <1>2 DEF PostsJob, Fresh, Creates
  <2>1. pc = "job" /\ UNCHANGED <<resultVars, cancelled>>
    BY <1>1 DEF KInv, CallFits, suiteVars, resultVars
  <2>2. TypeOK'
    <3>1. mine' \in 0 .. LastJob
      BY DEF Jobs
    <3> QED
      BY <1>1, <3>1 DEF KInv, TypeOK, JobsTypeOK, suiteVars
  <2>3. CallFits' /\ EventsFit'
    BY <2>1 DEF CallFits, EventsFit, resultVars
  <2>4. PodsFit'
    BY DEF KInv, TypeOK, JobsTypeOK, PodsFit
  <2> QED
    BY <2>1, <2>2, <2>3, <2>4, WaitingForJob DEF KInv
<1>3. CASE PostFails
  <2> USE <1>3 DEF PostFails, Fresh, Creates
  <2>1. pc = "job" /\ UNCHANGED <<resultVars, cancelled>>
    BY <1>1 DEF KInv, CallFits, suiteVars, resultVars
  <2>2. TypeOK'
    BY <1>1 DEF KInv, TypeOK, JobsTypeOK, suiteVars
  <2>3. CallFits' /\ EventsFit'
    BY <2>1 DEF CallFits, EventsFit, resultVars
  <2>4. PodsFit'
    BY DEF KInv, TypeOK, JobsTypeOK, PodsFit
  <2> QED
    BY <2>1, <2>2, <2>3, <2>4, WaitingForJob DEF KInv
<1>4. CASE SeesPodReady(ForCompletion)
  <2> USE <1>4 DEF SeesPodReady, ForCompletion
  <2>1. pc = "job" /\ UNCHANGED <<resultVars, cancelled>>
    BY <1>1 DEF KInv, CallFits, suiteVars, resultVars
  <2>2. mine \in Jobs /\ mine' = mine /\ found' = mine
    BY DEF KInv, CallFits, EventsFit
  <2>3. /\ Shows' \subseteq Jobs \X {"ready", "complete", "failed"}
        /\ <<mine, "complete">> \in Shows' => job[mine] = "complete"
    BY <2>2 DEF KInv, TypeOK, JobsTypeOK, Shows
  <2>4. TypeOK'
    BY <1>1, <2>2, <2>3 DEF KInv, TypeOK, JobsTypeOK, suiteVars, Jobs
  <2>5. CallFits' /\ EventsFit' /\ PodsFit'
    BY <2>1, <2>2, <2>3 DEF KInv, CallFits, EventsFit, PodsFit, resultVars
  <2> QED
    BY <2>1, <2>4, <2>5, WaitingForJob DEF KInv
<1>5. CASE GivesUp(Waits)
  <2> USE <1>5 DEF GivesUp, Waits
  <2>1. UNCHANGED <<resultVars, mine, found, job, cancelled>>
    BY <1>1 DEF suiteVars, resultVars
  <2>2. TypeOK'
    BY <1>1 DEF KInv, TypeOK, JobsTypeOK, suiteVars
  <2>3. CallFits' /\ EventsFit' /\ PodsFit'
    BY <2>1 DEF KInv, CallFits, EventsFit, PodsFit, resultVars
  <2> QED
    BY <2>1, <2>2, <2>3, ResultsStay DEF KInv
<1>6. CASE SeesJobEnd
  <2> USE <1>6 DEF SeesJobEnd, Verdict
  <2>1. UNCHANGED <<resultVars, mine, found, job, cancelled>>
    BY <1>1 DEF suiteVars, resultVars
  <2>2. TypeOK'
    BY <1>1 DEF KInv, TypeOK, JobsTypeOK, suiteVars
  <2>3. CallFits' /\ EventsFit' /\ PodsFit'
    BY <2>1 DEF KInv, CallFits, EventsFit, PodsFit, resultVars
  <2> QED
    BY <2>1, <2>2, <2>3, ResultsStay DEF KInv
<1> QED
  BY <1>2, <1>3, <1>4, <1>5, <1>6 DEF Library, ReadyStep
\* The suite's steps.  Those before the log has been read add no passing case.
LEMMA SuiteKeeps == KInv /\ SuiteStep => KInv'
<1> SUFFICES ASSUME KInv, SuiteStep PROVE KInv'
  OBVIOUS
<1> USE DEF jobVars, objectVars, callVars, runVars, resultVars
<1> results \in Seq(States)
  BY DEF KInv, TypeOK, States
<1>1. CASE Starts
  <2> USE <1>1 DEF Starts
  <2>1. TypeOK' /\ CallFits' /\ EventsFit' /\ PodsFit'
    BY DEF KInv, TypeOK, JobsTypeOK, CallFits, EventsFit, PodsFit
  <2>2. JobFits' /\ ClaimFits' /\ ResultsFit' /\ LateFits'
    BY DEF KInv, JobFits, ClaimFits, ResultsFit, LateFits, Passed
  <2> QED
    BY <2>1, <2>2 DEF KInv
<1>2. CASE CreatesClaim
  <2> USE <1>2 DEF CreatesClaim, CaseStarts, Reports, CallError
  <2>1. results = <<>>
    BY DEF KInv, ResultsFit
  <2>2. TypeOK'
    <3>1. results' \in Seq(States) /\ Len(results') <= 2
      BY <2>1, OneMore DEF States
    <3> QED
      BY <3>1 DEF KInv, TypeOK, JobsTypeOK, States
  <2>3. CallFits' /\ EventsFit' /\ PodsFit'
    BY DEF KInv, CallFits, EventsFit, PodsFit
  <2>4. JobFits' /\ ClaimFits' /\ ResultsFit' /\ LateFits'
    BY <2>1 DEF KInv, JobFits, ClaimFits, ResultsFit, LateFits, Passed, States
  <2> QED
    BY <2>2, <2>3, <2>4 DEF KInv
<1>3. CASE JobReturns
  <2> USE <1>3 DEF JobReturns, Reports
  <2>1. results = <<>>
    BY DEF KInv, ResultsFit
  <2>2. TypeOK'
    <3>1. results' \in Seq(States) /\ Len(results') <= 2
      BY <2>1, OneMore DEF States
    <3> QED
      BY <3>1 DEF KInv, TypeOK, JobsTypeOK, States
  <2>3. CallFits' /\ EventsFit' /\ PodsFit'
    BY DEF KInv, CallFits, EventsFit, PodsFit
  <2>4. JobFits' /\ ClaimFits' /\ ResultsFit' /\ LateFits'
    BY <2>1
    DEF KInv, CallFits, JobFits, Measured, ClaimFits, ResultsFit, LateFits, Passed, States
  <2> QED
    BY <2>2, <2>3, <2>4 DEF KInv
<1>4. CASE ClaimReturns
  <2> USE <1>4 DEF ClaimReturns, Reports
  <2>1. results = <<>>
    BY DEF KInv, ResultsFit
  <2>2. TypeOK'
    <3>1. results' \in Seq(States) /\ Len(results') <= 2
      BY <2>1, OneMore DEF States
    <3> QED
      BY <3>1 DEF KInv, TypeOK, JobsTypeOK, States
  <2>3. CallFits' /\ EventsFit' /\ PodsFit'
    BY DEF KInv, CallFits, EventsFit, PodsFit
  <2>4. JobFits' /\ ClaimFits' /\ ResultsFit' /\ LateFits'
    BY <2>1
    DEF KInv, JobFits, Measured, ClaimFits, ResultsFit, LateFits, Passed, States
  <2> QED
    BY <2>2, <2>3, <2>4 DEF KInv
<1>5. CASE ReadsLogs
  <2> USE <1>5 DEF ReadsLogs, CaseStarts, Reports, CallError, HasLog
  <2>1. results = <<>> /\ Measured /\ claim = "bound"
    BY DEF KInv, ResultsFit, JobFits, ClaimFits
  <2>2. pod[found] \in {"succeeded", "gone"}
    BY <2>1 DEF KInv, PodsFit, Measured
  <2>3. TypeOK'
    <3>1. results' \in Seq(States) /\ Len(results') <= 2
      BY <2>1, OneMore DEF States
    <3> QED
      BY <2>2, <3>1 DEF KInv, TypeOK, JobsTypeOK, States
  <2>4. CallFits' /\ EventsFit' /\ PodsFit'
    BY DEF KInv, CallFits, EventsFit, PodsFit
  <2>5. JobFits' /\ ClaimFits' /\ ResultsFit'
    <3>1. \/ results' = <<"PASS">> /\ logged' = "succeeded"
          \/ results' = <<"ERROR">>
      BY <2>1, <2>2
    <3>2. /\ Len(results') = 1 /\ pc' = "monitoring"
          /\ Passed(1)' => logged' = "succeeded"
      BY <3>1 DEF Passed
    <3>3. Measured' /\ claim' = "bound"
      BY <2>1 DEF Measured
    <3> QED
      BY <3>2, <3>3 DEF JobFits, ClaimFits, ResultsFit
  <2>6. LateFits'
    BY <2>1 DEF KInv, LateFits, States
  <2> QED
    BY <2>3, <2>4, <2>5, <2>6 DEF KInv
<1>6. CASE Monitors
  <2> USE <1>6 DEF Monitors, Reports, Enabled
  <2>1. Len(results) = 1 /\ Measured /\ claim = "bound"
    BY DEF KInv, ResultsFit, JobFits, ClaimFits
  <2>2. PICK state \in States : /\ results' = Append(results, state)
                                /\ cancelled => state = "SKIP"
    BY DEF States
  <2>3. /\ results' \in Seq(States) /\ Len(results') = 2 /\ DOMAIN results' = 1 .. 2
        /\ results'[1] = results[1] /\ results'[2] = state
    <3>1. 1 \in 1 .. Len(results) /\ Len(results) + 1 = 2
      BY <2>1
    <3> HIDE DEF Monitors
    <3> QED
      BY <2>2, <3>1, Appended
  <2>4. TypeOK'
    BY <2>3 DEF KInv, TypeOK, JobsTypeOK, States
  <2>5. CallFits' /\ EventsFit' /\ PodsFit'
    BY DEF KInv, CallFits, EventsFit, PodsFit
  <2>6. JobFits' /\ ClaimFits' /\ ResultsFit'
    BY <2>1, <2>3 DEF KInv, JobFits, Measured, ClaimFits, ResultsFit, Passed
  <2>7. LateFits'
    BY <2>1, <2>2, <2>3 DEF KInv, LateFits
  <2> QED
    BY <2>4, <2>5, <2>6, <2>7 DEF KInv
<1>7. CASE Returns
  <2> USE <1>7 DEF Returns
  <2>1. TypeOK' /\ CallFits' /\ EventsFit' /\ PodsFit'
    BY DEF KInv, TypeOK, JobsTypeOK, CallFits, EventsFit, PodsFit
  <2>2. JobFits' /\ ClaimFits' /\ ResultsFit' /\ LateFits'
    BY DEF KInv, JobFits, Measured, ClaimFits, ResultsFit, LateFits, Passed
  <2> QED
    BY <2>1, <2>2 DEF KInv
<1> QED
  BY <1>1, <1>2, <1>3, <1>4, <1>5, <1>6, <1>7 DEF SuiteStep
\* The cluster, the watch, the clock and the signal change no result.
LEMMA OthersKeep ==
  ASSUME KInv,
         \/ Time \/ ClusterStep \/ ClaimBinds
         \/ (Relists \/ Signal) /\ UNCHANGED <<claim, suiteVars>>
  PROVE  KInv'
<1> USE DEF objectVars, callVars, runVars, suiteVars, resultVars
<1>1. CASE Time
  <2> USE <1>1 DEF Time, TimeIsUp
  <2>1. TypeOK' /\ CallFits' /\ EventsFit' /\ PodsFit'
    BY DEF KInv, TypeOK, JobsTypeOK, CallFits, EventsFit, PodsFit
  <2> QED
    BY <2>1, ResultsStay DEF KInv
<1>2. CASE Relists /\ UNCHANGED <<claim, suiteVars>>
  <2> USE <1>2 DEF Relists
  <2>1. mine \in Jobs
    BY DEF KInv, CallFits, TypeOK
  <2>2. TypeOK'
    BY <2>1, ShowsFit DEF KInv, TypeOK, JobsTypeOK
  <2>3. CallFits' /\ EventsFit' /\ PodsFit'
    BY <2>1, ShowsFit DEF KInv, CallFits, EventsFit, PodsFit
  <2> QED
    BY <2>2, <2>3, ResultsStay DEF KInv
<1>3. CASE Signal /\ UNCHANGED <<claim, suiteVars>>
  <2> USE <1>3 DEF Signal
  <2>1. TypeOK' /\ CallFits' /\ EventsFit' /\ PodsFit'
    BY DEF KInv, TypeOK, JobsTypeOK, CallFits, EventsFit, PodsFit
  <2> QED
    BY <2>1, ResultsStay DEF KInv
<1>4. CASE ClusterStep
  <2> USE <1>4 DEF ClusterStep
  <2>1. TypeOK' /\ EventsFit' /\ PodsFit'
    <3>1. (call \in {"pod", "job"} => mine \in Jobs)'
      BY ClusterKeepsComplete DEF KInv, CallFits
    <3>2. (Shows \subseteq Jobs \X {"ready", "complete", "failed"})'
      BY <3>1, ClusterKeepsComplete DEF Shows, Selected
    <3>3. TypeOK'
      BY <3>2, ClusterKeepsComplete DEF KInv, TypeOK, JobsTypeOK
    <3>4. /\ call' = "pod" => Shows' \subseteq {<<mine, "ready">>}
          /\ call' = "job" /\ <<mine, "complete">> \in Shows' => job'[mine] = "complete"
      BY <3>1, ClusterKeepsComplete DEF Shows, Selected
    <3>5. EventsFit'
      BY <3>4, ClusterKeepsComplete DEF KInv, EventsFit, CallFits
    <3> QED
      BY <3>3, <3>5, ClusterKeepsComplete
  <2>2. CallFits'
    BY ClusterKeepsComplete DEF KInv, CallFits
  <2> QED
    BY <2>1, <2>2, ClusterKeepsComplete, ResultsStay DEF KInv
<1>5. CASE ClaimBinds
  <2> USE <1>5 DEF ClaimBinds, jobVars
  <2>1. TypeOK' /\ CallFits' /\ EventsFit' /\ PodsFit'
    BY DEF KInv, TypeOK, JobsTypeOK, CallFits, EventsFit, PodsFit
  <2>2. JobFits' /\ ClaimFits' /\ ResultsFit' /\ LateFits'
    BY DEF KInv, JobFits, Measured, ClaimFits, ResultsFit, LateFits, Passed
  <2> QED
    BY <2>1, <2>2 DEF KInv
<1> QED
  BY <1>1, <1>2, <1>3, <1>4, <1>5

LEMMA KNext == KInv /\ [Next]_vars => KInv'
<1> SUFFICES ASSUME KInv, [Next]_vars PROVE KInv'
  OBVIOUS
<1>1. CASE UNCHANGED vars
  <2> USE <1>1 DEF vars, jobVars, objectVars, callVars, runVars, suiteVars, resultVars
  <2>1. TypeOK' /\ CallFits' /\ EventsFit' /\ PodsFit'
    BY DEF KInv, TypeOK, JobsTypeOK, CallFits, EventsFit, PodsFit
  <2> QED
    BY <2>1, ResultsStay DEF KInv
<1>2. CASE Next /\ ~UNCHANGED vars
  BY <1>2, SuiteKeeps, LibraryKeeps, OthersKeep DEF Next, Finished
<1> QED
  BY <1>1, <1>2

-----------------------------------------------------------------------------
(* The theorems.                                                           *)

\* The invariant holds of every run of the storage suite.
THEOREM KInvAlways == Spec => []KInv
  BY KInit, KNext, PTL DEF Spec

\* Every run of the storage suite is well typed.
THEOREM KBenchTypes == Spec => []TypeOK
<1>1. KInv => TypeOK
  BY DEF KInv
<1> QED
  BY <1>1, KInvAlways, PTL

\* A passing case of EnsureJobCompleted and WaitPVCBound has a job that is
\* complete, a claim that is bound and the whole log of the pod of its own
\* job.
THEOREM CompleteAlways == Spec => []PassIsComplete
<1>1. KInv => PassIsComplete
  BY DEF KInv, ResultsFit, Measured, PassIsComplete
<1> QED
  BY <1>1, KInvAlways, PTL

\* There are metrics only of a job that is complete, and what begins after
\* SIGINT or SIGTERM does not pass.
THEOREM MetricsOfARun == Spec => []MonitorsARun
<1>1. KInv => MonitorsARun
  <2> SUFFICES ASSUME KInv PROVE MonitorsARun
    OBVIOUS
  <2>1. late \subseteq {1, 2} /\ results \in Seq(States) /\ Len(results) <= 2
    BY DEF KInv, TypeOK, States
  <2>2. 1 \in late => ~Passed(1)
    BY <2>1 DEF KInv, LateFits, Passed
  <2>3. 2 \in late => ~Passed(2)
    <3>1. Len(results) \in Nat /\ DOMAIN results = 1 .. Len(results)
      BY <2>1
    <3>2. 2 \in 1 .. Len(results) => Len(results) = 2
      BY <2>1, <3>1
    <3> QED
      BY <3>1, <3>2 DEF KInv, LateFits, Passed
  <2>4. Len(results) = 2 => job[mine] = "complete"
    BY DEF KInv, ResultsFit, Measured
  <2> QED
    BY <2>1, <2>2, <2>3, <2>4 DEF MonitorsARun
<1> QED
  BY <1>1, KInvAlways, PTL
=============================================================================
