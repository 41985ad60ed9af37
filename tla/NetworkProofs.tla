--------------------------- MODULE NetworkProofs ---------------------------
(***************************************************************************)
(* What holds of the network suite for any number of cases and of jobs,    *)
(* whatever fails: a measurement that passed has two pods that no other    *)
(* case has, no server that was started is missing from the report, and a  *)
(* case that was lost before it began to measure has not passed.           *)
(***************************************************************************)
EXTENDS Network, FiniteSetTheorems, TLAPS

Between == {"start", "case", "done"}

Starting == {"server job", "client job"}

Serving == {"server job", "server copy", "server command"}

Measuring == {"client job", "client copy", "client command"}

Copying == {"server copy", "client copy"}

Commanding == {"server command", "client command"}

\* What RunE waits for, and which server it has by then.
PlaceFits ==
  /\ pc \in Between => call = "idle"
  /\ pc \in Starting => call \in {"posting", "pod", "ok", "error"}
  /\ pc \in Copying => call \in {"copy", "ok", "error"}
  /\ pc \in Commanding => call \in {"exec", "ok", "error"}
  /\ pc \notin Between => Len(results) < LastCase
  /\ pc \in Between \cup Serving => server = 0
  /\ pc \in Measuring => server \in Jobs

InReport(j) == \E i \in DOMAIN results : j \in results[i].pods

\* What a case has is made, and never was another's.
Made(j) == j \in Jobs /\ job[j] # "none"

Own(j) == Made(j) /\ j # server /\ ~InReport(j)

Returned == call = "ok" \/ pc \in Copying \cup Commanding

\* The job that was created last is the one that is waited for, and the one
\* whose pod is returned: an event of it tells that its pod is there or was.
OwnFits ==
  /\ call = "pod" => /\ Own(mine) /\ events \subseteq {<<mine, "ready">>}
                     /\ events # {} => pod[mine] # "none"
  /\ Returned => Own(mine) /\ found = mine /\ pod[mine] # "none"
  /\ pc \in Measuring => Made(server) /\ ~InReport(server) /\ pod[server] # "none"

\* What is in a report was made; and the report is what it should be.
ReportFits ==
  /\ \A j : InReport(j) => Made(j)
  /\ BetweenTwoPods /\ EvidenceKept

\* A lost case has an error, or is in the command that cannot succeed.
DoomedFits ==
  \A i \in doomed :
    /\ i \in 1 .. Len(results) + 1
    /\ i \in DOMAIN results => results[i].state = "ERROR"
    /\ i = Len(results) + 1 =>
         /\ pc = "client command"
         /\ \/ call = "error"
            \/ call = "exec" /\ (pod[server] # "ready" \/ pod[found] # "ready")

\* The inductive invariant.
NetInv == TypeOK /\ PlaceFits /\ OwnFits /\ ReportFits /\ DoomedFits

Result == [state : {"PASS", "ERROR"}, pods : SUBSET Jobs, commands : 0 .. 2]

Results == Seq(Result)

-----------------------------------------------------------------------------
(* Lemmas.                                                                 *)

\* What Append does.
LEMMA AppendIs ==
  ASSUME NEW S, NEW s \in Seq(S), NEW e \in S
  PROVE  /\ Append(s, e) \in Seq(S)
         /\ Len(s) \in Nat /\ DOMAIN s = 1 .. Len(s)
         /\ Len(Append(s, e)) = Len(s) + 1
         /\ DOMAIN Append(s, e) = DOMAIN s \cup {Len(s) + 1} /\ Len(s) + 1 \notin DOMAIN s
         /\ \A i \in DOMAIN s : Append(s, e)[i] = s[i]
         /\ Append(s, e)[Len(s) + 1] = e
  OBVIOUS

\* The case after n others is one of the cases, and none of the others.
LEMMA OneMore ==
  ASSUME NEW n \in Nat, NEW last \in Nat, n < last
  PROVE  n + 1 \in 1 .. last /\ n + 1 \in 1 .. n + 1 /\ n + 1 \notin 1 .. n
  OBVIOUS

\* The results are a sequence; no job has the number of no job.
LEMMA NetTypes ==
  ASSUME TypeOK
  PROVE  /\ results \in Results /\ Len(results) \in Nat /\ DOMAIN results = 1 .. Len(results)
         /\ 0 \notin Jobs /\ Jobs \subseteq 0 .. LastJob
         /\ LastCase \in Nat
<1>1. results \in Results
  BY DEF TypeOK, Results, Result
<1>2. Len(results) \in Nat /\ DOMAIN results = 1 .. Len(results)
  BY <1>1 DEF Results
<1>3. 0 \notin Jobs /\ Jobs \subseteq 0 .. LastJob /\ LastCase \in Nat
  BY JobsAssumption, NetworkAssumption DEF Jobs
<1> QED
  BY <1>1, <1>2, <1>3

\* Nothing has been created or measured yet.
LEMMA NetInit == Init => NetInv
<1> SUFFICES ASSUME Init PROVE NetInv
  OBVIOUS
<1>1. JobsTypeOK
  <2>1. 0 \in 0 .. LastJob
    BY JobsAssumption
  <2> QED
    BY <2>1 DEF Init, JobsInit, JobsTypeOK
<1>2. results \in Seq(Result) /\ Len(results) = 0 /\ DOMAIN results = {}
  BY DEF Init
<1>3. 0 \in 0 .. LastJob /\ LastCase \in Nat
  BY JobsAssumption, NetworkAssumption
<1>4. TypeOK
  <2>1. results \in Seq(Result) /\ Len(results) <= LastCase
    BY <1>2, <1>3
  <2>2. server \in 0 .. LastJob /\ listening \subseteq Jobs /\ doomed \subseteq 1 .. LastCase
    BY <1>3 DEF Init
  <2> QED
    BY <1>1, <2>1, <2>2 DEF Init, JobsInit, TypeOK, Result
<1>5. PlaceFits /\ OwnFits
  BY DEF Init, JobsInit, PlaceFits, OwnFits, Returned, Between, Starting, Copying, Commanding,
         Measuring
<1>6. ReportFits /\ DoomedFits
  BY <1>2 DEF Init, ReportFits, InReport, BetweenTwoPods, EvidenceKept, DoomedFits
<1> QED
  BY <1>4, <1>5, <1>6 DEF NetInv

\* What is left of jobs and pods in a step: a job that was made stays made,
\* and no pod comes again.
Onward ==
  /\ \A j \in Jobs : job[j] # "none" => job'[j] # "none"
  /\ \A j \in Jobs : pod[j] # "none" => pod'[j] # "none"
  /\ \A j \in Jobs : pod[j] # "none" /\ pod'[j] = "ready" => pod[j] = "ready"

\* While RunE waits, what it has stays its own.
LEMMA WaitKeeps ==
  ASSUME NetInv, UNCHANGED suiteVars, Onward, JobsTypeOK',
         call' \in {"pod", "ok", "error"} \/ call' = call,
         call' # call => pc \notin Between,
         call' = "pod" /\ call # "pod" => pc \in Starting,
         pc = "client command" /\ call' = "ok" =>
           call = "ok" \/ (call = "exec" /\ pod[server] = "ready" /\ pod[found] = "ready"),
         call' = "pod" => /\ Own(mine)' /\ events' \subseteq {<<mine', "ready">>}
                          /\ events' # {} => pod'[mine'] # "none",
         Returned' => Own(mine)' /\ found' = mine' /\ pod'[mine'] # "none",
         pc = "client command" => found' = found
  PROVE  NetInv'
<1> USE DEF suiteVars
<1>1. TypeOK'
  <2>1. call' \in {"idle", "posting", "pod", "copy", "exec", "ok", "error"}
    BY DEF NetInv, TypeOK
  <2> QED
    BY <2>1 DEF NetInv, TypeOK
<1>2. \A j : InReport(j)' <=> InReport(j)
  BY DEF InReport
<1>3. PlaceFits'
  BY DEF NetInv, PlaceFits, Between, Starting, Copying, Commanding
<1>4. \A j : Made(j) => Made(j)'
  BY DEF Onward, Made
<1>5. OwnFits'
  <2>1. pc' \in Measuring => Made(server)' /\ ~InReport(server)' /\ pod'[server'] # "none"
    BY <1>2, <1>4 DEF NetInv, OwnFits, Onward, Made
  <2> QED
    BY <2>1 DEF OwnFits
<1>6. ReportFits'
  BY <1>2, <1>4 DEF NetInv, ReportFits, BetweenTwoPods, EvidenceKept
<1>7. DoomedFits'
  <2> SUFFICES ASSUME NEW i \in doomed, i = Len(results) + 1
               PROVE  /\ pc = "client command"
                      /\ \/ call' = "error"
                         \/ call' = "exec" /\ (pod'[server] # "ready" \/ pod'[found'] # "ready")
    BY DEF NetInv, DoomedFits
  <2>1. /\ pc = "client command"
        /\ \/ call = "error"
           \/ call = "exec" /\ (pod[server] # "ready" \/ pod[found] # "ready")
    BY DEF NetInv, DoomedFits
  <2>2. /\ found' = found /\ server \in Jobs /\ found \in Jobs
        /\ pod[server] # "none" /\ pod[found] # "none"
    BY <2>1 DEF NetInv, OwnFits, Returned, Measuring, Commanding, Own, Made
  <2>3. call' # "pod"
    BY <2>1 DEF Starting
  <2> QED
    BY <2>1, <2>2, <2>3 DEF Onward
<1> QED
  BY <1>1, <1>3, <1>5, <1>6, <1>7 DEF NetInv

-----------------------------------------------------------------------------
(* While RunE waits.                                                       *)

\* What a List of the watch finds is the pod of the job waited for.
LEMMA ShowsFit ==
  ASSUME call \in {"idle", "posting", "pod", "copy", "exec", "ok", "error"},
         call = "pod" => mine \in Jobs
  PROVE  /\ Shows \subseteq Jobs \X {"ready", "complete", "failed"}
         /\ call = "pod" => /\ Shows \subseteq {<<mine, "ready">>}
                            /\ Shows # {} => pod[mine] = "ready"
  BY DEF Shows, Selected

\* The cluster deletes no job that was made without a trace, and starts no
\* pod again.
LEMMA ClusterIs ==
  ASSUME NetInv, JobStep(TRUE)
  PROVE  /\ job' \in [Jobs -> {"none", "active", "complete", "failed"}]
         /\ pod' \in [Jobs -> {"none", "ready", "succeeded", "failed", "gone"}]
         /\ collected' \subseteq Jobs
         /\ Onward
         /\ UNCHANGED <<call, mine, found, timer, runVars>>
         /\ events' = events \cup Shows'
<1> USE DEF NetInv, TypeOK, JobsTypeOK, Onward
<1>1. UNCHANGED <<call, mine, found, timer, runVars>> /\ events' = events \cup Shows'
  BY DEF JobStep
<1>2. PICK j \in Jobs :
        PodStarts(j) \/ PodEnds(j) \/ JobEnds(j) \/ DeadlineExceeded(j) \/ Collects(j)
  BY DEF JobStep
<1>3. CASE PodStarts(j)
  BY <1>1, <1>3 DEF PodStarts
<1>4. CASE PodEnds(j)
  BY <1>1, <1>4 DEF PodEnds
<1>5. CASE JobEnds(j)
  BY <1>1, <1>5 DEF JobEnds
<1>6. CASE DeadlineExceeded(j)
  BY <1>1, <1>6 DEF DeadlineExceeded
<1>7. CASE Collects(j)
  BY <1>1, <1>7 DEF Collects
<1> QED
  BY <1>2, <1>3, <1>4, <1>5, <1>6, <1>7

\* Jobs and pods that come and go.
LEMMA ClusterKeeps == ASSUME NetInv, JobStep(TRUE), UNCHANGED suiteVars PROVE NetInv'
<1> USE DEF suiteVars
<1>1. /\ job' \in [Jobs -> {"none", "active", "complete", "failed"}]
      /\ pod' \in [Jobs -> {"none", "ready", "succeeded", "failed", "gone"}]
      /\ collected' \subseteq Jobs
      /\ Onward
      /\ UNCHANGED <<call, mine, found, timer, runVars>>
      /\ events' = events \cup Shows'
  BY ClusterIs
<1>2. /\ call' \in {"idle", "posting", "pod", "copy", "exec", "ok", "error"}
      /\ call' = "pod" => mine' \in Jobs
  BY <1>1 DEF NetInv, TypeOK, OwnFits, Own, Made
<1>3. /\ Shows' \subseteq Jobs \X {"ready", "complete", "failed"}
      /\ call' = "pod" => /\ Shows' \subseteq {<<mine', "ready">>}
                          /\ Shows' # {} => pod'[mine'] = "ready"
  BY <1>2 DEF Shows, Selected
<1>4. JobsTypeOK'
  BY <1>1, <1>3 DEF NetInv, TypeOK, JobsTypeOK, runVars
<1>5. \A j : Own(j) => Own(j)'
  BY <1>1 DEF Own, Made, InReport, Onward
<1>6. call' = "pod" => /\ Own(mine)' /\ events' \subseteq {<<mine', "ready">>}
                       /\ events' # {} => pod'[mine'] # "none"
  BY <1>1, <1>3, <1>5 DEF NetInv, OwnFits, Own, Made, Onward
<1>7. Returned' => Own(mine)' /\ found' = mine' /\ pod'[mine'] # "none"
  BY <1>1, <1>5 DEF NetInv, OwnFits, Returned, Own, Made, Onward
<1>8. pc = "client command" /\ call' = "ok" => call = "ok"
  BY <1>1
<1> QED
  BY <1>1, <1>4, <1>6, <1>7, <1>8, WaitKeeps

\* A job is created, or the request for it fails, perhaps after its work.
LEMMA PostKeeps ==
  ASSUME NetInv, PostsJob \/ PostFails, UNCHANGED suiteVars
  PROVE  NetInv'
<1> USE DEF suiteVars, runVars
<1>1. call = "posting" /\ pc \in Starting
  BY DEF PostsJob, PostFails, NetInv, TypeOK, PlaceFits, Between, Copying, Commanding, Starting
<1>2. /\ UNCHANGED <<pod, collected, found, cancelled, jobSuspend>>
      /\ job' \in [Jobs -> {"none", "active", "complete", "failed"}]
      /\ \A j \in Jobs : job[j] # "none" => job'[j] # "none"
  BY DEF PostsJob, PostFails, Fresh, Creates, NetInv, TypeOK, JobsTypeOK
<1>3. Onward
  BY <1>2 DEF Onward
<1>4. pc # "client command" /\ pc \notin Between /\ pc \notin Copying \cup Commanding
  BY <1>1 DEF Starting, Between, Copying, Commanding
<1>5. CASE PostsJob
  <2>1. PICK j \in Jobs : Fresh(j) /\ Creates(j) /\ mine' = j
    BY <1>5 DEF PostsJob
  <2>2. call' = "pod" /\ events' = {} /\ timer' = FALSE
    BY <1>5 DEF PostsJob
  <2>3. job'[j] = "active" /\ job[j] = "none"
    BY <2>1 DEF Fresh, Creates, NetInv, TypeOK, JobsTypeOK
  <2>4. j # server /\ ~InReport(j)
    <3>1. server = 0 \/ Made(server)
      BY <1>1 DEF NetInv, PlaceFits, OwnFits, Starting, Serving, Measuring
    <3>2. 0 \notin Jobs
      BY NetTypes DEF NetInv
    <3> QED
      BY <2>3, <3>1, <3>2 DEF NetInv, ReportFits, Made
  <2>5. Own(mine)'
    BY <2>1, <2>3, <2>4 DEF Own, Made, InReport
  <2>6. JobsTypeOK'
    <3>1. mine' \in 0 .. LastJob
      BY <2>1, NetTypes DEF NetInv
    <3> QED
      BY <1>2, <2>2, <3>1 DEF NetInv, TypeOK, JobsTypeOK
  <2>7. ~Returned'
    BY <1>4, <2>2 DEF Returned
  <2> QED
    BY <1>1, <1>2, <1>3, <1>4, <2>2, <2>5, <2>6, <2>7, WaitKeeps
<1>6. CASE PostFails
  <2>1. call' = "error" /\ UNCHANGED <<mine, events, timer>>
    BY <1>6 DEF PostFails
  <2>2. JobsTypeOK'
    BY <1>2, <2>1 DEF NetInv, TypeOK, JobsTypeOK
  <2>3. ~Returned'
    BY <1>4, <2>1 DEF Returned
  <2> QED
    BY <1>1, <1>2, <1>3, <1>4, <2>1, <2>2, <2>3, WaitKeeps
<1> QED
  BY <1>5, <1>6

\* The pod is seen, perhaps long after it was ready.
LEMMA SeesKeeps ==
  ASSUME NetInv, SeesPodReady(FALSE), UNCHANGED suiteVars
  PROVE  NetInv'
<1> USE DEF suiteVars, runVars, objectVars
<1>1. PICK j \in Jobs : <<j, "ready">> \in events /\ found' = j
  BY DEF SeesPodReady
<1>2. /\ call = "pod" /\ call' = "ok" /\ timer' = FALSE /\ events' = Shows'
      /\ UNCHANGED <<job, pod, collected, mine, cancelled, jobSuspend>>
  BY DEF SeesPodReady
<1>3. Own(mine) /\ j = mine /\ pod[mine] # "none"
  BY <1>1, <1>2 DEF NetInv, OwnFits
<1>4. pc \in Starting
  BY <1>2 DEF NetInv, TypeOK, PlaceFits, Between, Copying, Commanding, Starting
<1>5. Own(mine)'
  BY <1>2, <1>3 DEF Own, Made, InReport
<1>6. events' = {}
  BY <1>2 DEF Shows
<1>7. JobsTypeOK'
  <2>1. found' \in 0 .. LastJob
    BY <1>1, NetTypes DEF NetInv
  <2> QED
    BY <1>2, <1>6, <2>1 DEF NetInv, TypeOK, JobsTypeOK
<1>8. Onward
  BY <1>2 DEF Onward
<1>9. pc # "client command" /\ pc \notin Between
  BY <1>4 DEF Starting, Between
<1> QED
  BY <1>1, <1>2, <1>3, <1>5, <1>7, <1>8, <1>9, WaitKeeps

\* What changes neither jobs nor pods nor what is waited for.
LEMMA CallKeeps ==
  ASSUME NetInv, UNCHANGED suiteVars,
         \/ GivesUp({"pod"}) \/ StreamBreaks \/ TimeIsUp(Waits) \/ CommandFails
         \/ Answered /\ Succeeds
         \/ Signal \/ Relists
  PROVE  NetInv'
<1> USE DEF suiteVars, runVars, objectVars, callVars
<1>1. UNCHANGED <<job, pod, collected, mine, found, jobSuspend>>
  BY DEF GivesUp, StreamBreaks, TimeIsUp, CommandFails, Succeeds, Signal, Relists
<1>2. /\ call' = call \/ (call \in {"pod", "copy", "exec"} /\ call' \in {"ok", "error"})
      /\ call = "pod" => call' # "ok"
      /\ pc = "client command" /\ call' = "ok" =>
           call = "ok" \/ (call = "exec" /\ pod[server] = "ready" /\ pod[found] = "ready")
  BY DEF GivesUp, StreamBreaks, TimeIsUp, CommandFails, Succeeds, Signal, Relists, Executing,
         Answered, NetInv, PlaceFits, Commanding
<1>3. events' = events \/ (call \in {"pod", "job"} /\ events' = Shows)
  BY DEF GivesUp, StreamBreaks, TimeIsUp, CommandFails, Succeeds, Signal, Relists
<1>4. timer' \in BOOLEAN /\ cancelled' \in BOOLEAN
  BY DEF GivesUp, StreamBreaks, TimeIsUp, CommandFails, Succeeds, Signal, Relists, NetInv,
         TypeOK, JobsTypeOK
<1>5. /\ Shows \subseteq Jobs \X {"ready", "complete", "failed"}
      /\ call = "pod" => /\ Shows \subseteq {<<mine, "ready">>}
                         /\ Shows # {} => pod[mine] = "ready"
  BY ShowsFit DEF NetInv, TypeOK, OwnFits, Own, Made
<1>6. JobsTypeOK'
  BY <1>1, <1>3, <1>4, <1>5 DEF NetInv, TypeOK, JobsTypeOK
<1>7. Onward
  BY <1>1 DEF Onward
<1>8. Own(mine) => Own(mine)'
  BY <1>1 DEF Own, Made, InReport
<1>9. call' = "pod" => /\ Own(mine)' /\ events' \subseteq {<<mine', "ready">>}
                       /\ events' # {} => pod'[mine'] # "none"
  <2> SUFFICES ASSUME call' = "pod"
               PROVE  /\ Own(mine)' /\ events' \subseteq {<<mine', "ready">>}
                      /\ events' # {} => pod'[mine'] # "none"
    OBVIOUS
  <2>1. call = "pod"
    BY <1>2
  <2>2. Own(mine) /\ events \subseteq {<<mine, "ready">>} /\ (events # {} => pod[mine] # "none")
    BY <2>1 DEF NetInv, OwnFits
  <2> QED
    BY <1>1, <1>3, <1>5, <1>8, <2>1, <2>2
<1>10. Returned' => Returned
  BY <1>2 DEF Returned, NetInv, TypeOK, PlaceFits, Between, Starting, Copying, Commanding
<1>11. Returned' => Own(mine)' /\ found' = mine' /\ pod'[mine'] # "none"
  BY <1>1, <1>8, <1>10 DEF NetInv, OwnFits
<1>12. call' # call => pc \notin Between
  BY <1>2 DEF NetInv, PlaceFits
<1>13. call' = "pod" => call = "pod"
  BY <1>2
<1> QED
  BY <1>1, <1>2, <1>6, <1>7, <1>9, <1>11, <1>12, <1>13, WaitKeeps

-----------------------------------------------------------------------------
(* Reports.                                                                *)

\* What a report adds.
LEMMA ReportIs ==
  ASSUME TypeOK, NEW state \in {"PASS", "ERROR"}, NEW pods \in SUBSET Jobs,
         NEW commands \in {0, 1, 2}, Reports(state, pods, commands)
  PROVE  /\ results' \in Results
         /\ Len(results) \in Nat /\ Len(results') = Len(results) + 1
         /\ DOMAIN results = 1 .. Len(results)
         /\ DOMAIN results' = DOMAIN results \cup {Len(results) + 1}
         /\ Len(results) + 1 \notin DOMAIN results
         /\ \A i \in DOMAIN results : results'[i] = results[i]
         /\ results'[Len(results) + 1].state = state
         /\ results'[Len(results) + 1].pods = pods
         /\ pc' = "case" /\ server' = 0 /\ call' = "idle"
<1> DEFINE r == [state |-> state, pods |-> pods, commands |-> commands]
<1>1. r \in Result /\ r.state = state /\ r.pods = pods
  <2>1. commands \in 0 .. 2
    OBVIOUS
  <2> QED
    BY <2>1 DEF Result
<1>2. results' = Append(results, r) /\ pc' = "case" /\ server' = 0 /\ call' = "idle"
  BY DEF Reports
<1> HIDE DEF r
<1>3. results \in Seq(Result)
  BY NetTypes DEF Results
<1> QED
  BY <1>1, <1>2, <1>3, AppendIs DEF Results

\* A report is good when its pods are of no other case, and it passes only
\* with two of them, when it was not lost; and no server may be missing.
LEMMA ReportKeeps ==
  ASSUME NetInv, pc \notin Between, JobsTypeOK', UNCHANGED <<job, pod, suiteErr>>,
         NEW state \in {"PASS", "ERROR"}, NEW pods \in SUBSET Jobs, NEW commands \in {0, 1, 2},
         Reports(state, pods, commands),
         \A j \in pods : Made(j) /\ ~InReport(j),
         server \in Jobs => server \in pods,
         listening' \subseteq listening \cup pods,
         state = "PASS" => Cardinality(pods) = 2,
         doomed' = doomed,
         Len(results) + 1 \in doomed => state = "ERROR"
  PROVE  NetInv'
<1> DEFINE n == Len(results) + 1
<1>1. /\ results' \in Results
      /\ Len(results) \in Nat /\ Len(results') = n
      /\ DOMAIN results = 1 .. Len(results)
      /\ DOMAIN results' = DOMAIN results \cup {n}
      /\ n \notin DOMAIN results
      /\ \A i \in DOMAIN results : results'[i] = results[i]
      /\ results'[n].state = state
      /\ results'[n].pods = pods
      /\ pc' = "case" /\ server' = 0 /\ call' = "idle"
  BY ReportIs DEF NetInv
<1>2. n <= LastCase /\ n \in Nat
  <2>1. Len(results) < LastCase /\ LastCase \in Nat
    BY NetTypes DEF NetInv, PlaceFits
  <2> QED
    BY <1>1, <2>1
<1>3. \A i \in doomed : i \in DOMAIN results \cup {n}
  <2>1. 1 .. n = DOMAIN results \cup {n}
    BY <1>1
  <2> QED
    BY <2>1 DEF NetInv, DoomedFits
<1>4. n + 1 \notin doomed /\ DOMAIN results' = 1 .. n /\ 1 .. n \subseteq 1 .. n + 1
  <2>1. n + 1 \notin DOMAIN results \cup {n}
    BY <1>1
  <2>2. 1 .. n = DOMAIN results \cup {n}
    BY <1>1
  <2> QED
    BY <1>1, <1>2, <1>3, <2>1, <2>2
<1> HIDE DEF n
<1>5. TypeOK'
  <2>1. 0 \in 0 .. LastJob
    BY JobsAssumption
  <2>2. listening' \subseteq Jobs
    BY DEF NetInv, TypeOK
  <2> QED
    BY <1>1, <1>2, <2>1, <2>2 DEF NetInv, TypeOK, Results, Result
<1>6. PlaceFits' /\ OwnFits'
  BY <1>1 DEF PlaceFits, OwnFits, Returned, Between, Starting, Serving, Copying, Commanding,
              Measuring
<1>7. ReportFits'
  <2>1. \A j : InReport(j)' <=> InReport(j) \/ j \in pods
    BY <1>1 DEF InReport
  <2>2. \A j : InReport(j)' => Made(j)'
    BY <2>1 DEF NetInv, ReportFits, Made
  <2>3. BetweenTwoPods'
    <3>1. \A i \in DOMAIN results : pods \cap results[i].pods = {}
      BY DEF InReport
    <3> QED
      BY <1>1, <3>1 DEF NetInv, ReportFits, BetweenTwoPods
  <2>4. EvidenceKept'
    <3>1. \A j \in listening : InReport(j) \/ j \in pods
      BY DEF NetInv, TypeOK, ReportFits, EvidenceKept, InReport
    <3>2. \A j \in listening' : InReport(j)'
      BY <2>1, <3>1
    <3> QED
      BY <3>2 DEF EvidenceKept, InReport
  <2> QED
    BY <2>2, <2>3, <2>4 DEF ReportFits
<1>8. DoomedFits'
  <2> SUFFICES ASSUME NEW i \in doomed
               PROVE  /\ i \in 1 .. n + 1 /\ results'[i].state = "ERROR"
                      /\ i # n + 1
    BY <1>1 DEF DoomedFits
  <2>1. i \in DOMAIN results \/ i = n
    BY <1>3
  <2>2. i \in 1 .. n + 1 /\ i # n + 1
    BY <1>1, <1>4, <2>1
  <2>3. CASE i \in DOMAIN results
    BY <1>1, <2>2, <2>3 DEF NetInv, DoomedFits
  <2>4. CASE i = n
    BY <1>1, <2>2, <2>4 DEF n
  <2> QED
    BY <2>1, <2>3, <2>4
<1> QED
  BY <1>5, <1>6, <1>7, <1>8 DEF NetInv

-----------------------------------------------------------------------------
(* RunE.                                                                   *)

\* Between the cases nothing is under way.
LEMMA BetweenKeeps == ASSUME NetInv, Starts \/ NextCase \/ Returns PROVE NetInv'
<1> USE DEF jobVars, objectVars, callVars, runVars
<1>1. /\ UNCHANGED <<job, pod, collected, mine, found, events, timer, cancelled, jobSuspend,
                     server, listening, results, doomed>>
      /\ pc \in {"start", "case"} /\ suiteErr' \in BOOLEAN
      /\ \/ pc' \in {"case", "done"} /\ call' = call
         \/ pc' = "server job" /\ call' = "posting" /\ Len(results) < LastCase
  BY DEF Starts, NextCase, Returns, NetInv, TypeOK
<1>2. TypeOK'
  BY <1>1 DEF NetInv, TypeOK, JobsTypeOK
<1>3. call = "idle" /\ server = 0
  BY <1>1 DEF NetInv, PlaceFits, Between
<1>4. PlaceFits'
  BY <1>1, <1>3 DEF PlaceFits, Between, Starting, Serving, Copying, Commanding, Measuring
<1>5. OwnFits'
  BY <1>1, <1>3 DEF OwnFits, Returned, Copying, Commanding, Measuring
<1>6. ReportFits'
  BY <1>1 DEF NetInv, ReportFits, InReport, Made, BetweenTwoPods, EvidenceKept
<1>7. Len(results) + 1 \notin doomed
  BY <1>1 DEF NetInv, DoomedFits
<1>8. DoomedFits'
  BY <1>1, <1>7 DEF NetInv, DoomedFits
<1> QED
  BY <1>2, <1>4, <1>5, <1>6, <1>8 DEF NetInv

\* A stream is opened into the pod that was returned.
LEMMA StreamKeeps ==
  ASSUME NetInv, call = "ok",
         UNCHANGED <<objectVars, mine, found, events, runVars, listening, suiteErr,
                     server, results>>,
         NEW kind, OpensStream(kind),
         \/ pc = "server job" /\ pc' = "server copy" /\ kind = "copy"
         \/ pc = "server copy" /\ pc' = "server command" /\ kind = "exec"
         \/ pc = "client job" /\ pc' = "client copy" /\ kind = "copy"
         \/ pc = "client copy" /\ pc' = "client command" /\ kind = "exec",
         \/ doomed' = doomed
         \/ /\ doomed' = doomed \cup {Len(results) + 1} /\ pc = "client copy"
            /\ cancelled \/ pod[server] # "ready" \/ pod[found] # "ready"
  PROVE  NetInv'
<1> USE DEF objectVars, runVars
<1>1. timer' = FALSE /\ call' \in {kind, "error"} /\ (cancelled => call' = "error")
  BY DEF OpensStream, Opened
<1>2. Len(results) < LastCase /\ pc \notin Between
  BY DEF NetInv, PlaceFits, Between
<1>3. Len(results) \in Nat /\ DOMAIN results = 1 .. Len(results) /\ LastCase \in Nat
  BY NetTypes DEF NetInv
<1>4. Len(results) + 1 \in 1 .. LastCase /\ Len(results) + 1 \in 1 .. Len(results) + 1
      /\ Len(results) + 1 \notin DOMAIN results
  BY <1>2, <1>3, OneMore
<1>5. TypeOK'
  <2>1. doomed' \subseteq 1 .. LastCase
    BY <1>4 DEF NetInv, TypeOK
  <2>2. JobsTypeOK'
    BY <1>1 DEF NetInv, TypeOK, JobsTypeOK
  <2> QED
    BY <1>1, <2>1, <2>2 DEF NetInv, TypeOK
<1>6. PlaceFits'
  BY <1>1, <1>2 DEF NetInv, PlaceFits, Between, Starting, Serving, Copying, Commanding, Measuring
<1>7. OwnFits'
  <2>1. Own(mine) /\ found = mine /\ pod[mine] # "none"
    BY DEF NetInv, OwnFits, Returned
  <2>2. Own(mine)'
    BY <2>1 DEF Own, Made, InReport
  <2>3. pc' \in Measuring => pc \in Measuring
    BY DEF Measuring
  <2>4. pc' \in Measuring => Made(server)' /\ ~InReport(server)' /\ pod'[server'] # "none"
    BY <2>3 DEF NetInv, OwnFits, Made, InReport
  <2>5. call' # "pod"
    BY <1>1
  <2> QED
    BY <2>1, <2>2, <2>4, <2>5 DEF OwnFits
<1>8. ReportFits'
  BY DEF NetInv, ReportFits, InReport, Made, BetweenTwoPods, EvidenceKept
<1>9. DoomedFits'
  <2>1. Len(results) + 1 \notin doomed
    BY DEF NetInv, DoomedFits
  <2>2. ASSUME NEW i \in doomed
        PROVE  /\ i \in 1 .. Len(results) + 1 /\ i # Len(results) + 1
               /\ i \in DOMAIN results => results[i].state = "ERROR"
    BY <2>1 DEF NetInv, DoomedFits
  <2>3. ASSUME Len(results) + 1 \in doomed'
        PROVE  /\ pc' = "client command"
               /\ \/ call' = "error"
                  \/ call' = "exec" /\ (pod'[server'] # "ready" \/ pod'[found'] # "ready")
    BY <1>1, <2>1, <2>3
  <2>4. \A i \in doomed' : i \in doomed \/ i = Len(results) + 1
    OBVIOUS
  <2> QED
    BY <1>4, <2>2, <2>3, <2>4 DEF DoomedFits
<1> QED
  BY <1>5, <1>6, <1>7, <1>8, <1>9 DEF NetInv

\* The server's job and copy return.  There is nothing to report yet.
LEMMA ServerSetUpKeeps ==
  ASSUME NetInv, ServerJobReturns \/ ServerCopyReturns
  PROVE  NetInv'
<1> USE DEF objectVars, runVars
<1>1. /\ UNCHANGED <<job, pod, collected, mine, found, events, cancelled, jobSuspend, listening,
                     suiteErr, doomed>>
      /\ pc \in {"server job", "server copy"}
  BY DEF ServerJobReturns, ServerCopyReturns
<1>2. CASE call = "error"
  <2>1. Reports("ERROR", {}, 0) /\ timer' = timer
    BY <1>2 DEF ServerJobReturns, ServerCopyReturns
  <2>2. JobsTypeOK'
    BY <1>1, <2>1 DEF NetInv, TypeOK, JobsTypeOK
  <2>3. server \notin Jobs /\ pc \notin Between
    BY <1>1, NetTypes DEF NetInv, PlaceFits, Serving, Between
  <2>4. {} \in SUBSET Jobs /\ \A j \in {} : Made(j) /\ ~InReport(j)
    OBVIOUS
  <2>5. listening' \subseteq listening \cup {} /\ UNCHANGED <<job, pod, suiteErr, doomed>>
    BY <1>1
  <2> HIDE DEF objectVars, runVars
  <2> QED
    BY <2>1, <2>2, <2>3, <2>4, <2>5, ReportKeeps
<1>3. CASE call = "ok"
  <2>1. CASE ServerJobReturns
    <3>1. Continues("server copy") /\ OpensStream("copy") /\ pc = "server job"
      BY <1>3, <2>1 DEF ServerJobReturns
    <3> QED
      BY <1>1, <1>3, <3>1, StreamKeeps DEF Continues
  <2>2. CASE ServerCopyReturns
    <3>1. Continues("server command") /\ OpensStream("exec") /\ pc = "server copy"
      BY <1>3, <2>2 DEF ServerCopyReturns
    <3> QED
      BY <1>1, <1>3, <3>1, StreamKeeps DEF Continues
  <2> QED
    BY <2>1, <2>2
<1> QED
  BY <1>2, <1>3 DEF ServerJobReturns, ServerCopyReturns

\* The server runs: its pod is that of the case from here on, or is reported.
LEMMA ServerCommandKeeps == ASSUME NetInv, ServerCommandReturns PROVE NetInv'
<1> USE DEF objectVars, runVars
<1>1. /\ UNCHANGED <<job, pod, collected, mine, found, events, timer, cancelled, jobSuspend,
                     suiteErr, doomed>>
      /\ pc = "server command" /\ call \in {"ok", "error"}
      /\ listening' \subseteq listening \cup {found}
  BY DEF ServerCommandReturns
<1>2. Own(found) /\ found = mine /\ pod[found] # "none"
  BY <1>1 DEF NetInv, OwnFits, Returned, Commanding
<1>3. server = 0 /\ server \notin Jobs /\ Len(results) < LastCase
  BY <1>1, NetTypes DEF NetInv, PlaceFits, Serving, Between
<1>4. JobsTypeOK'
  BY <1>1 DEF NetInv, TypeOK, JobsTypeOK
<1>5. CASE Reports("ERROR", {found}, 1)
  <2>1. pc \notin Between /\ {found} \in SUBSET Jobs
    BY <1>1, <1>2 DEF Between, Own, Made
  <2> QED
    BY <1>1, <1>2, <1>3, <1>4, <1>5, <2>1, ReportKeeps DEF Own
<1>6. CASE /\ pc' = "client job" /\ call' = "posting" /\ server' = found /\ UNCHANGED results
           /\ listening' = listening \cup {found}
  <2>1. TypeOK'
    <3>1. found \in Jobs /\ found \in 0 .. LastJob
      BY <1>2, NetTypes DEF NetInv, Own, Made
    <3> QED
      BY <1>1, <1>4, <1>6, <3>1 DEF NetInv, TypeOK
  <2>2. PlaceFits'
    BY <1>2, <1>3, <1>6 DEF PlaceFits, Between, Starting, Serving, Copying, Commanding, Measuring,
                            Own, Made
  <2>3. OwnFits'
    <3>1. Made(server)' /\ ~InReport(server)' /\ pod'[server'] # "none"
      BY <1>1, <1>2, <1>6 DEF Own, Made, InReport
    <3>2. ~Returned' /\ call' # "pod"
      BY <1>6 DEF Returned, Copying, Commanding
    <3> QED
      BY <3>1, <3>2 DEF OwnFits
  <2>4. ReportFits'
    <3>1. \A j : (InReport(j)' <=> InReport(j)) /\ (Made(j)' <=> Made(j))
      BY <1>1, <1>6 DEF InReport, Made
    <3>2. BetweenTwoPods'
      BY <1>6 DEF NetInv, ReportFits, BetweenTwoPods
    <3>3. \A j \in listening : InReport(j)
      BY <1>3 DEF NetInv, TypeOK, ReportFits, EvidenceKept, InReport
    <3>4. EvidenceKept'
      BY <1>6, <3>3 DEF EvidenceKept, InReport
    <3> QED
      BY <3>1, <3>2, <3>4 DEF NetInv, ReportFits
  <2>5. DoomedFits'
    <3>1. Len(results) + 1 \notin doomed
      BY <1>1 DEF NetInv, DoomedFits
    <3> QED
      BY <1>1, <1>6, <3>1 DEF NetInv, DoomedFits
  <2> QED
    BY <2>1, <2>2, <2>3, <2>4, <2>5 DEF NetInv
<1> QED
  BY <1>5, <1>6 DEF ServerCommandReturns

\* The client's job and copy return.  The server is in what is reported.
LEMMA ClientSetUpKeeps ==
  ASSUME NetInv, ClientJobReturns \/ ClientCopyReturns
  PROVE  NetInv'
<1> USE DEF objectVars, runVars
<1>1. /\ UNCHANGED <<job, pod, collected, mine, found, events, cancelled, jobSuspend, listening,
                     suiteErr>>
      /\ pc \in {"client job", "client copy"}
  BY DEF ClientJobReturns, ClientCopyReturns
<1>2. Made(server) /\ ~InReport(server)
  BY <1>1 DEF NetInv, OwnFits, Measuring
<1>3. CASE call = "error"
  <2>1. Reports("ERROR", {server}, 1) /\ timer' = timer /\ doomed' = doomed
    BY <1>3 DEF ClientJobReturns, ClientCopyReturns, Kept
  <2>2. JobsTypeOK'
    BY <1>1, <2>1 DEF NetInv, TypeOK, JobsTypeOK
  <2>3. {server} \in SUBSET Jobs /\ pc \notin Between
    BY <1>1, <1>2 DEF Made, Between
  <2> QED
    BY <1>1, <1>2, <2>1, <2>2, <2>3, ReportKeeps
<1>4. CASE call = "ok"
  <2>1. CASE ClientJobReturns
    <3>1. Continues("client copy") /\ OpensStream("copy") /\ pc = "client job" /\ doomed' = doomed
      BY <1>4, <2>1 DEF ClientJobReturns
    <3> QED
      BY <1>1, <1>4, <3>1, StreamKeeps DEF Continues
  <2>2. CASE ClientCopyReturns
    <3>1. /\ Continues("client command") /\ OpensStream("exec") /\ pc = "client copy"
          /\ doomed' = IF cancelled \/ pod[server] # "ready" \/ pod[found] # "ready"
                       THEN doomed \cup {Len(results) + 1} ELSE doomed
      BY <1>4, <2>2 DEF ClientCopyReturns
    <3>2. \/ doomed' = doomed
          \/ /\ doomed' = doomed \cup {Len(results) + 1}
             /\ cancelled \/ pod[server] # "ready" \/ pod[found] # "ready"
      BY <3>1
    <3> QED
      BY <1>1, <1>4, <3>1, <3>2, StreamKeeps DEF Continues
  <2> QED
    BY <2>1, <2>2
<1> QED
  BY <1>3, <1>4 DEF ClientJobReturns, ClientCopyReturns

\* The measurement is over, and both pods are reported.
LEMMA ClientCommandKeeps == ASSUME NetInv, ClientCommandReturns PROVE NetInv'
<1> USE DEF objectVars, runVars
<1>1. /\ UNCHANGED <<job, pod, collected, mine, found, events, timer, cancelled, jobSuspend,
                     listening, suiteErr, doomed>>
      /\ pc = "client command" /\ call \in {"ok", "error"}
      /\ Reports(StateOfCase, {server, found}, 2)
  BY DEF ClientCommandReturns
<1>2. Made(server) /\ ~InReport(server) /\ Own(found)
  BY <1>1 DEF NetInv, OwnFits, Returned, Measuring, Commanding
<1>3. {server, found} \in SUBSET Jobs /\ pc \notin Between
  BY <1>1, <1>2 DEF Own, Made, Between
<1>4. Cardinality({server, found}) = 2
  <2>1. IsFiniteSet({server}) /\ Cardinality({server}) = 1
    BY FS_Singleton
  <2>2. found \notin {server} /\ {server, found} = {server} \cup {found}
    BY <1>2 DEF Own
  <2>3. Cardinality({server} \cup {found}) = Cardinality({server}) + 1
    BY <2>1, <2>2, FS_AddElement
  <2> QED
    BY <2>1, <2>2, <2>3
<1>5. /\ StateOfCase \in {"PASS", "ERROR"}
      /\ Len(results) + 1 \in doomed => StateOfCase = "ERROR"
  <2>1. Len(results) + 1 \in doomed => call = "error"
    BY <1>1 DEF NetInv, DoomedFits
  <2> QED
    BY <1>1, <2>1 DEF StateOfCase
<1>6. JobsTypeOK'
  BY <1>1 DEF NetInv, TypeOK, JobsTypeOK
<1>7. \A j \in {server, found} : Made(j) /\ ~InReport(j)
  BY <1>2 DEF Own
<1> QED
  BY <1>1, <1>3, <1>4, <1>5, <1>6, <1>7, ReportKeeps

-----------------------------------------------------------------------------
(* The theorems.                                                           *)

\* The invariant holds for any number of cases, whatever fails.
THEOREM NetInvAlways == Spec => []NetInv
<1>1. NetInv /\ [Next]_vars => NetInv'
  <2> SUFFICES ASSUME NetInv, [Next]_vars PROVE NetInv'
    OBVIOUS
  <2>1. CASE SuiteStep
    BY <2>1, BetweenKeeps, ServerSetUpKeeps, ServerCommandKeeps, ClientSetUpKeeps,
       ClientCommandKeeps DEF SuiteStep
  <2>2. CASE Library \/ Time \/ (((Answered /\ Succeeds) \/ CommandFails) /\ UNCHANGED suiteVars)
    BY <2>2, PostKeeps, SeesKeeps, CallKeeps DEF Library, ReadyStep, Time
  <2>3. CASE (JobStep(TRUE) \/ Relists \/ Signal) /\ UNCHANGED suiteVars
    BY <2>3, ClusterKeeps, CallKeeps
  <2>4. CASE UNCHANGED vars
    <3> USE <2>4 DEF vars, jobVars, objectVars, callVars, runVars, suiteVars
    <3>1. JobsTypeOK'
      BY DEF NetInv, TypeOK, JobsTypeOK
    <3>2. TypeOK'
      BY <3>1 DEF NetInv, TypeOK
    <3>3. PlaceFits'
      BY DEF NetInv, PlaceFits
    <3>4. OwnFits'
      BY DEF NetInv, OwnFits, Returned, Own, Made, InReport
    <3>5. ReportFits'
      BY DEF NetInv, ReportFits, InReport, Made, BetweenTwoPods, EvidenceKept
    <3>6. DoomedFits'
      BY DEF NetInv, DoomedFits
    <3> QED
      BY <3>2, <3>3, <3>4, <3>5, <3>6 DEF NetInv
  <2> QED
    BY <2>1, <2>2, <2>3, <2>4 DEF Next, Finished
<1> QED
  BY NetInit, <1>1, PTL DEF Spec

\* All variables of the suite and of the job library keep their types.
THEOREM NetworkTypes == Spec => []TypeOK
<1>1. NetInv => TypeOK
  BY DEF NetInv
<1> QED
  BY <1>1, NetInvAlways, PTL

\* A measurement that passed was taken between two pods, and no pod is in
\* the reports of two cases.
THEOREM AlwaysBetweenTwoPods == Spec => []BetweenTwoPods
<1>1. NetInv => BetweenTwoPods
  BY DEF NetInv, ReportFits
<1> QED
  BY <1>1, NetInvAlways, PTL

\* Whatever goes wrong with a client, the report has the pod of its server.
THEOREM EvidenceAlwaysKept == Spec => []EvidenceKept
<1>1. NetInv => EvidenceKept
  BY DEF NetInv, ReportFits
<1> QED
  BY <1>1, NetInvAlways, PTL

\* A case that was lost before it began to measure does not pass.
THEOREM PassAlwaysMeasured == Spec => []PassIsMeasured
<1>1. NetInv => PassIsMeasured
  BY DEF NetInv, DoomedFits, PassIsMeasured
<1> QED
  BY <1>1, NetInvAlways, PTL
=============================================================================
