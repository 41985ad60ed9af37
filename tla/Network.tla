------------------------------ MODULE Network ------------------------------
(***************************************************************************)
(* The network suite: for each of its cases a server job and a client job, *)
(* with a tool copied into each pod, the server started in the one and the *)
(* measurement run in the other.  internal/suites/network; netperf and     *)
(* iperf3 take the same steps.  No job is deleted, so that the pods of one *)
(* case are still there in the next.                                       *)
(***************************************************************************)
EXTENDS Jobs, Sequences

CONSTANT LastCase  \* how many cases there are: 7 in the code

ASSUME NetworkAssumption == LastCase \in Nat /\ LastJob >= 2 * LastCase

VARIABLES
  pc,        \* what RunE does next
  server,    \* the job of the server pod of the case under way, 0 without
  listening, \* jobs in whose pods a server was started
  results,   \* case results: state, pods of the objects, commands run
  suiteErr,  \* SuiteResult.Err is set
  doomed     \* cases that began to measure with a pod or the run already gone

suiteVars == <<pc, server, listening, results, suiteErr, doomed>>
vars == <<jobVars, suiteVars>>

Init ==
  /\ JobsInit
  /\ pc = "start" /\ server = 0 /\ listening = {}
  /\ results = <<>> /\ suiteErr = FALSE /\ doomed = {}

-----------------------------------------------------------------------------
\* The case ends, and the next one begins.
Reports(state, pods, commands) ==
  /\ results' = Append(results, [state |-> state, pods |-> pods, commands |-> commands])
  /\ pc' = "case"
  /\ server' = 0
  /\ call' = "idle"

Continues(next) == pc' = next /\ UNCHANGED <<server, results>>

\* Options and EnsureNamespace.
Starts ==
  /\ pc = "start"
  /\ \/ ~cancelled /\ pc' = "case" /\ UNCHANGED suiteErr
     \/ CallError /\ pc' = "done" /\ suiteErr' = TRUE
  /\ UNCHANGED <<jobVars, server, listening, results, doomed>>

\* The loop of RunE: neither an errored case nor a signal ends it.
NextCase ==
  /\ pc = "case" /\ Len(results) < LastCase
  /\ pc' = "server job" /\ call' = "posting"
  /\ UNCHANGED <<objectVars, mine, found, events, timer, runVars,
                 server, listening, results, suiteErr, doomed>>

Returns ==
  /\ pc = "case" /\ Len(results) = LastCase
  /\ pc' = "done"
  /\ UNCHANGED <<jobVars, server, listening, results, suiteErr, doomed>>

-----------------------------------------------------------------------------
(* The server.  What fails before its command leaves nothing to report.    *)

ServerJobReturns ==
  /\ pc = "server job"
  /\ \/ call = "ok" /\ Continues("server copy") /\ OpensStream("copy")
     \/ call = "error" /\ Reports("ERROR", {}, 0) /\ UNCHANGED timer
  /\ UNCHANGED <<objectVars, mine, found, events, runVars, listening, suiteErr, doomed>>

ServerCopyReturns ==
  /\ pc = "server copy"
  /\ \/ call = "ok" /\ Continues("server command") /\ OpensStream("exec")
     \/ call = "error" /\ Reports("ERROR", {}, 0) /\ UNCHANGED timer
  /\ UNCHANGED <<objectVars, mine, found, events, runVars, listening, suiteErr, doomed>>

\* The server runs on in the background.  Its pod is that of the case from
\* here on, and an address of the requested family is looked for in it.
ServerCommandReturns ==
  /\ pc = "server command"
  /\ \/ /\ call = "ok"
        /\ listening' = listening \cup {found}
        /\ \/ pc' = "client job" /\ call' = "posting" /\ server' = found /\ UNCHANGED results
           \/ CallsMayFail /\ Reports("ERROR", {found}, 1)
     \/ call = "error" /\ Reports("ERROR", {found}, 1) /\ UNCHANGED listening
  /\ UNCHANGED <<objectVars, mine, found, events, timer, runVars, suiteErr, doomed>>

-----------------------------------------------------------------------------
(* The client.                                                             *)

\* What a case has to show when its client cannot be set up.
\* Variant: nothing.
Nothing == {}

Kept == {server}

ClientJobReturns ==
  /\ pc = "client job"
  /\ \/ call = "ok" /\ Continues("client copy") /\ OpensStream("copy")
     \/ call = "error" /\ Reports("ERROR", Kept, 1) /\ UNCHANGED timer
  /\ UNCHANGED <<objectVars, mine, found, events, runVars, listening, suiteErr, doomed>>

ClientCopyReturns ==
  /\ pc = "client copy"
  /\ \/ /\ call = "ok" /\ Continues("client command") /\ OpensStream("exec")
        /\ doomed' = IF cancelled \/ pod[server] # "ready" \/ pod[found] # "ready"
                     THEN doomed \cup {Len(results) + 1} ELSE doomed
     \/ call = "error" /\ Reports("ERROR", Kept, 1) /\ UNCHANGED <<timer, doomed>>
  /\ UNCHANGED <<objectVars, mine, found, events, runVars, listening, suiteErr>>

\* FinalizeState: by the errors of both commands.
\* Variants: it is not called; the error of the client is not recorded.
NotFinal == "UNKNOWN"

OfServer == "PASS"

StateOfCase == IF call = "ok" THEN "PASS" ELSE "ERROR"

ClientCommandReturns ==
  /\ pc = "client command" /\ call \in {"ok", "error"}
  /\ Reports(StateOfCase, {server, found}, 2)
  /\ UNCHANGED <<objectVars, mine, found, events, timer, runVars, listening, suiteErr, doomed>>

SuiteStep ==
  \/ Starts \/ NextCase \/ Returns
  \/ ServerJobReturns \/ ServerCopyReturns \/ ServerCommandReturns
  \/ ClientJobReturns \/ ClientCopyReturns \/ ClientCommandReturns

-----------------------------------------------------------------------------
\* Pods are waited for, and commands run, with a timeout; a copy has none.
Waits == {"pod", "exec"}

\* A measurement needs the server of its case at the other end.
Answered == pc = "client command" => server \in listening /\ pod[server] = "ready"

Library == (ReadyStep(FALSE, {"pod"}) \/ StreamBreaks) /\ UNCHANGED suiteVars

Time == TimeIsUp(Waits) /\ UNCHANGED suiteVars

Finished == pc = "done" /\ UNCHANGED vars

Next ==
  \/ SuiteStep \/ Library \/ Time
  \/ ((Answered /\ Succeeds) \/ CommandFails) /\ UNCHANGED suiteVars
  \/ (JobStep(TRUE) \/ Relists \/ Signal) /\ UNCHANGED suiteVars
  \/ Finished

Spec == Init /\ [][Next]_vars

\* The goroutine runs, requests are answered, timeouts pass, and the job
\* controller enforces activeDeadlineSeconds.
FairSpec ==
  /\ Spec
  /\ WF_vars(SuiteStep) /\ WF_vars(Library) /\ WF_vars(Time)
  /\ WF_vars(DeadlineStep /\ UNCHANGED suiteVars)

-----------------------------------------------------------------------------
\* Every variable keeps its type.
TypeOK ==
  /\ JobsTypeOK
  /\ call \in {"idle", "posting", "pod", "copy", "exec", "ok", "error"}
  /\ pc \in {"start", "case", "server job", "server copy", "server command",
             "client job", "client copy", "client command", "done"}
  /\ server \in 0 .. LastJob /\ listening \subseteq Jobs
  /\ results \in Seq([state : {"PASS", "ERROR"}, pods : SUBSET Jobs, commands : 0 .. 2])
  /\ Len(results) <= LastCase
  /\ suiteErr \in BOOLEAN /\ doomed \subseteq 1 .. LastCase

\* A measurement that passed was taken between two pods of its own case, not
\* within one and not against a server of another case, though pods of the
\* same suite and run are all over the namespace and a watch may deliver what
\* it saw long ago.
BetweenTwoPods ==
  \A i \in DOMAIN results :
    /\ results[i].state = "PASS" => Cardinality(results[i].pods) = 2
    /\ \A j \in DOMAIN results \ {i} : results[i].pods \cap results[j].pods = {}

\* A server that was started is in the objects of a case: whatever goes wrong
\* with the client, the report has the pod and the output of its server.
EvidenceKept ==
  \A j \in listening : j = server \/ \E i \in DOMAIN results : j \in results[i].pods

\* A case does not pass when its server had gone, its client had, or the run
\* was interrupted before it began to measure: an hour may lie between the
\* start of the server and that of the client.
PassIsMeasured == \A i \in doomed \cap DOMAIN results : results[i].state = "ERROR"

\* RunE returns, with a report of every case, though commands hang.
NetworkEnds == <>(pc = "done" /\ (suiteErr \/ Len(results) = LastCase))
=============================================================================
