----------------------------- MODULE EtcdBench -----------------------------
(***************************************************************************)
(* The etcd benchmark: one job whose pod gets the tools, four cases of     *)
(* commands in that pod, and the etcd metrics from Prometheus.             *)
(* internal/suites/etcd/benchmark.go on pkg/k8s.                           *)
(*                                                                         *)
(* Of the options the cases share, the model keeps the load of the put     *)
(* benchmark, "configured" until a case overrides it.                      *)
(***************************************************************************)
EXTENDS Jobs, PodMonitor, Sequences

VARIABLES
  pc,        \* what RunE does next
  load,      \* o.PutLoadSize with the two counts that go with it
  errs,      \* of the commands of the case under way: has it an error?
  results,   \* states of the case results
  suiteErr,  \* SuiteResult.Err is set
  used,      \* <<case, load>> of the benchmarks run
  doomed     \* cases that found the pod or the run gone at one of their commands

optionVars == <<load, used>>
suiteVars == <<pc, errs, results, suiteErr, doomed, optionVars>>
vars == <<jobVars, monitorVars, suiteVars>>

Cases == <<"healthcheck", "check perf", "serial", "concurrent">>
Commands(c) == IF c = "check perf" THEN 1 ELSE 3

Init ==
  /\ JobsInit /\ MonitorInit
  /\ pc = "start"
  /\ load = "configured" /\ used = {}
  /\ errs = <<>> /\ results = <<>> /\ suiteErr = FALSE /\ doomed = {}

-----------------------------------------------------------------------------
SuiteFails == pc' = "done" /\ suiteErr' = TRUE

\* Options, EnsureEtcdReady and EnsureNamespace.
Starts ==
  /\ pc = "start"
  /\ \/ ~cancelled /\ pc' = "job" /\ call' = "posting" /\ UNCHANGED suiteErr
     \/ CallError /\ SuiteFails /\ UNCHANGED call
  /\ UNCHANGED <<objectVars, mine, found, events, timer, runVars, monitorVars,
                 errs, results, doomed, optionVars>>

\* EnsureJobReady returns; CopyToJobPod opens its stream.
JobReturns ==
  /\ pc = "job"
  /\ \/ call = "ok" /\ pc' = "copy" /\ OpensStream("copy") /\ UNCHANGED suiteErr
     \/ call = "error" /\ SuiteFails /\ call' = "idle" /\ UNCHANGED timer
  /\ UNCHANGED <<objectVars, mine, found, events, runVars, monitorVars,
                 errs, results, doomed, optionVars>>

CopyReturns ==
  /\ pc = "copy"
  /\ \/ call = "ok" /\ pc' = "cases" /\ UNCHANGED suiteErr
     \/ call = "error" /\ SuiteFails
  /\ call' = "idle"
  /\ UNCHANGED <<objectVars, mine, found, events, timer, runVars, monitorVars,
                 errs, results, doomed, optionVars>>

-----------------------------------------------------------------------------
(* The loop over the cases.                                                *)

Case == Cases[Len(results) + 1]
Benchmarks == {"serial", "concurrent"}

\* The load after the optsOverride of a case, which writes into the options
\* that all cases share.
\* Variant: the overrides are all evaluated when the table is built.
WithTable(c) == "concurrent"

LoadFor(c) == IF c = "concurrent" THEN "concurrent" ELSE load

\* The next command of a case; with the first one the case begins.
Executes ==
  /\ pc = "cases" /\ Len(results) < Len(Cases) /\ call = "idle"
  /\ load' = LoadFor(Case)
  /\ used' = IF Case \in Benchmarks THEN used \cup {<<Case, load'>>} ELSE used
  /\ doomed' = IF cancelled \/ pod[found] # "ready"
               THEN doomed \cup {Len(results) + 1} ELSE doomed
  /\ OpensStream("exec")
  /\ UNCHANGED <<objectVars, mine, found, events, runVars, monitorVars,
                 pc, errs, results, suiteErr>>

\* FinalizeState.
\* Variants: it is not called; it looks at the first command only.
NotFinal(errors) == "UNKNOWN"

ByFirst(errors) == IF errors[1] THEN "ERROR" ELSE "PASS"

State(errors) == IF \E i \in DOMAIN errors : errors[i] THEN "ERROR" ELSE "PASS"

\* ExecPod returns; an error goes into the result of the command and the
\* next command is run.
CommandReturns ==
  /\ pc = "cases" /\ call \in {"ok", "error"}
  /\ LET all == Append(errs, call = "error")
     IN IF Len(all) = Commands(Case)
        THEN results' = Append(results, State(all)) /\ errs' = <<>>
        ELSE errs' = all /\ UNCHANGED results
  /\ call' = "idle"
  /\ UNCHANGED <<objectVars, mine, found, events, timer, runVars, monitorVars,
                 pc, suiteErr, doomed, optionVars>>

-----------------------------------------------------------------------------
(* monitoring.                                                             *)

Reports(state) == results' = Append(results, state) /\ pc' = "report"

\* The add-on is asked for: it may be missing, disabled, or not to be had.
StartsMonitoring ==
  /\ pc = "cases" /\ Len(results) = Len(Cases)
  /\ \/ ~cancelled /\ pc' = "monitor" /\ monitor' = "apply" /\ UNCHANGED results
     \/ Reports("SKIP") /\ UNCHANGED monitor
  /\ UNCHANGED <<jobVars, applied, targets, unhealthy, applyTime, now,
                 errs, suiteErr, doomed, optionVars>>

\* EnsurePodMonitor returns; without it there are no queries.
MonitorReturns ==
  /\ pc = "monitor"
  /\ \/ monitor = "ok" /\ pc' = "queries" /\ UNCHANGED results
     \/ monitor = "error" /\ Reports("SKIP")
  /\ UNCHANGED <<jobVars, monitorVars, errs, suiteErr, doomed, optionVars>>

\* execPromQL: six queries, each of which may fail.
Queries ==
  /\ pc = "queries"
  /\ \/ ~cancelled /\ Reports("PASS")
     \/ CallError /\ Reports("ERROR")
  /\ UNCHANGED <<jobVars, monitorVars, errs, suiteErr, doomed, optionVars>>

\* The parameters are recorded, the result is returned.
Returns ==
  /\ pc = "report" /\ pc' = "done"
  /\ UNCHANGED <<jobVars, monitorVars, errs, results, suiteErr, doomed, optionVars>>

SuiteStep ==
  \/ Starts \/ JobReturns \/ CopyReturns
  \/ Executes \/ CommandReturns
  \/ StartsMonitoring \/ MonitorReturns \/ Queries \/ Returns

\* The pod of the suite is waited for with a timeout; commands have none.
Waits == {"pod"}

Library == (ReadyStep(FALSE, Waits) \/ StreamBreaks) /\ UNCHANGED <<monitorVars, suiteVars>>

Monitoring ==
  (Applies(CallError, cancelled) \/ PollSucceeds \/ PollEnds(cancelled))
    /\ UNCHANGED <<jobVars, suiteVars>>

Time ==
  \/ TimeIsUp(Waits) /\ UNCHANGED <<monitorVars, suiteVars>>
  \/ TimePasses /\ UNCHANGED <<jobVars, suiteVars>>

Finished == pc = "done" /\ UNCHANGED vars

Next ==
  \/ SuiteStep \/ Library \/ Monitoring \/ Time
  \/ (Succeeds \/ CommandFails) /\ UNCHANGED <<monitorVars, suiteVars>>
  \/ (JobStep(TRUE) \/ Relists \/ Signal) /\ UNCHANGED <<monitorVars, suiteVars>>
  \/ PrometheusStep /\ UNCHANGED <<jobVars, suiteVars>>
  \/ Finished

Spec == Init /\ [][Next]_vars

\* The goroutine runs, requests are answered, timeouts pass, and the job
\* controller enforces activeDeadlineSeconds.  A command need not end, nor a
\* pod start, nor Prometheus scrape.
FairSpec ==
  /\ Spec
  /\ WF_vars(SuiteStep) /\ WF_vars(Library) /\ WF_vars(Monitoring) /\ WF_vars(Time)
  /\ WF_vars(DeadlineStep /\ UNCHANGED <<monitorVars, suiteVars>>)

-----------------------------------------------------------------------------
\* Every variable keeps its type.
TypeOK ==
  /\ JobsTypeOK /\ MonitorTypeOK
  /\ call \in {"idle", "posting", "pod", "copy", "exec", "ok", "error"}
  /\ pc \in {"start", "job", "copy", "cases", "monitor", "queries", "report", "done"}
  /\ load \in {"configured", "concurrent"}
  /\ used \subseteq Benchmarks \X {"configured", "concurrent"}
  /\ errs \in Seq(BOOLEAN) /\ Len(errs) < 3
  /\ results \in Seq({"PASS", "ERROR", "SKIP"}) /\ Len(results) <= Len(Cases) + 1
  /\ suiteErr \in BOOLEAN
  /\ doomed \subseteq DOMAIN Cases

\* A case that lost its pod, or was interrupted, before one of its commands
\* does not pass, whichever command that was.
PassIsEarned == \A i \in doomed \cap DOMAIN results : results[i] # "PASS"

\* The serial benchmark runs with the configured load and the concurrent one
\* with its own, though both read the same record.
LoadsAsTold == used \subseteq {<<"serial", "configured">>, <<"concurrent", "concurrent">>}

\* RunE returns, though commands may hang: the deadline of the job ends them.
BenchEnds == <>(pc = "done")
=============================================================================
