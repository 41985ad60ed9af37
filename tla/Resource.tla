------------------------------ MODULE Resource ------------------------------
(***************************************************************************)
(* pkg/resource: CreateVMIs posts the VMIs of a batch one after the other, *)
(* WaitRunning watches the run's VMIs until all the named ones have been   *)
(* seen Running.  The caller starts a call with CallCreate or CallWait and *)
(* reads its outcome in call: "ok", "timeout" (the error wraps             *)
(* ErrStartupTimeout) or "error" (any other error).                        *)
(*                                                                         *)
(* The watch may lag behind the cluster.  Observing an event at the moment *)
(* it happens loses nothing: an event changes only waitFor and the outcome *)
(* of the call, which nobody reads before, so a late delivery has the      *)
(* effect of one that came in time.                                        *)
(***************************************************************************)
EXTENDS VMICluster

CONSTANT CallsMayFail  \* BOOLEAN: a request to the API server may fail

ASSUME CallAssumption == CallsMayFail \in BOOLEAN

VARIABLES
  call,        \* "idle", "creating", "waiting", "failing" or the outcome
  todo,        \* VMIs CreateVMIs has not posted yet
  unanswered,  \* VMIs whose Create returned an error
  waitFor,     \* the map pending: VMIs WaitRunning has not seen Running
  apiErr,      \* the channel apiErrors holds an error of the list or watch
  cancelled,   \* the context of the command is cancelled (a signal)
  timer        \* deadline of the derived context: "off", "armed", "expired"

resourceVars ==
  <<call, todo, unanswered, waitFor, apiErr, cancelled, timer>>

Outcomes == {"ok", "timeout", "error"}

ResourceInit ==
  /\ call = "idle"
  /\ todo = {}
  /\ unanswered = {}
  /\ waitFor = {}
  /\ apiErr = FALSE
  /\ cancelled = FALSE
  /\ timer = "off"

\* ctx.Err() # nil for the context the current call was given.
\* Variant: only a signal ends a call.
OnlySignals == cancelled

CtxDone == cancelled \/ timer = "expired"

-----------------------------------------------------------------------------
(* The context.                                                            *)

\* SIGINT or SIGTERM: signal.NotifyContext cancels the command's context.
Cancel ==
  /\ ~cancelled
  /\ cancelled' = TRUE
  /\ UNCHANGED <<call, todo, unanswered, waitFor, apiErr, timer, clusterVars>>

\* The deadline passes.  A context that is cancelled first keeps the error
\* context.Canceled, so its deadline no longer matters.
Expire ==
  /\ timer = "armed"
  /\ ~cancelled
  /\ timer' = "expired"
  /\ UNCHANGED <<call, todo, unanswered, waitFor, apiErr, cancelled, clusterVars>>

-----------------------------------------------------------------------------
(* CreateVMIs.                                                             *)

CallCreate(names) ==
  /\ call' = "creating"
  /\ todo' = names
  /\ UNCHANGED <<unanswered, waitFor, apiErr, cancelled>>

IsNext(n) == n \in todo /\ \A m \in todo : n <= m

\* One accepted Create; the rate limit between two of them is not modelled.
CreateOne ==
  /\ call = "creating"
  /\ ~CtxDone
  /\ \E n \in todo :
       /\ IsNext(n)
       /\ CreateAccepted(n)
       /\ todo' = todo \ {n}
       /\ call' = IF todo = {n} THEN "ok" ELSE "creating"
  /\ UNCHANGED <<unanswered, waitFor, apiErr, cancelled, timer>>

\* A Create fails, or the context ends before or during it; a name that is
\* taken already is refused (AlreadyExists).  The rest of the batch is
\* not posted.
CreateFails ==
  /\ call = "creating"
  /\ \E n \in todo :
       /\ IsNext(n)
       /\ CallsMayFail \/ CtxDone \/ n \in present
       /\ CreateUnanswered(n)
       /\ unanswered' = unanswered \cup {n}
  /\ todo' = {}
  /\ call' = "error"
  /\ UNCHANGED <<waitFor, apiErr, cancelled, timer>>

-----------------------------------------------------------------------------
(* WaitRunning.                                                            *)

CallWait(names) ==
  /\ call' = "waiting"
  /\ waitFor' = names
  /\ apiErr' = FALSE
  /\ UNCHANGED <<todo, unanswered, cancelled>>

\* vmiRunningCondition, case Running: only this shrinks pending.  The select
\* between an event and ctx.Done() is random, so the context may be done.
ObserveRunning(n) ==
  /\ call = "waiting"
  /\ n \in waitFor \cap running
  /\ waitFor' = waitFor \ {n}
  /\ call' = IF waitFor = {n} THEN "ok" ELSE "waiting"
  /\ UNCHANGED <<todo, unanswered, apiErr, cancelled, timer, clusterVars>>

\* vmiRunningCondition, case Deleted.  A watch that opened after the VMI was
\* gone has no such event.
ObserveDeleted(n) ==
  /\ call = "waiting"
  /\ n \in waitFor \ present
  /\ call' = "error"
  /\ UNCHANGED <<todo, unanswered, waitFor, apiErr, cancelled, timer, clusterVars>>

\* vmiRunningCondition, case Failed: the status of the launcher pod is read,
\* for at most 5 s and under a context of its own.
ObserveFailed(n) ==
  /\ call = "waiting"
  /\ n \in waitFor \cap failed
  /\ call' = "failing"
  /\ UNCHANGED <<todo, unanswered, waitFor, apiErr, cancelled, timer, clusterVars>>

\* A List or Watch fails; the informer retries it.
RecordApiError ==
  /\ CallsMayFail
  /\ call \in {"waiting", "failing"}
  /\ ~CtxDone
  /\ apiErr' = TRUE
  /\ UNCHANGED <<call, todo, unanswered, waitFor, cancelled, timer, clusterVars>>

\* probeStartupErrors reads every VMI that is still pending: a read that
\* fails, for a VMI that is gone too, is an API error.
ProbeErrors ==
  {e \in BOOLEAN : /\ waitFor \subseteq present \/ e
                   /\ e => CallsMayFail \/ ~(waitFor \subseteq present)}

\* The error WaitRunning returns once UntilWithSync returned one: a startup
\* timeout only if the deadline passed, that error says "interrupted", and
\* neither the watch nor the probe met an API error.
WaitError(interrupted) ==
  IF timer = "expired"
  THEN \E probeErr \in ProbeErrors :
         call' = IF interrupted /\ ~apiErr /\ ~probeErr THEN "timeout" ELSE "error"
  ELSE call' = "error"

\* UntilWithSync returns because its context is done.
WaitInterrupted ==
  /\ call = "waiting"
  /\ CtxDone
  /\ WaitError(TRUE)
  /\ UNCHANGED <<todo, unanswered, waitFor, apiErr, cancelled, timer, clusterVars>>

\* UntilWithSync returns the error of the condition: "VMI failed", joined
\* with the error of the launcher probe if it had one.  A probe that ran
\* into its own 5 s limit returns context.DeadlineExceeded, which
\* wait.Interrupted finds in the joined error.
WaitFailed ==
  /\ call = "failing"
  /\ \E probe \in {"answered", "refused", "timed out"} :
       /\ probe # "answered" => CallsMayFail
       /\ WaitError(probe = "timed out")
  /\ UNCHANGED <<todo, unanswered, waitFor, apiErr, cancelled, timer, clusterVars>>

\* The caller takes the outcome; the context of the call is gone with it.
Return ==
  /\ call' = "idle"
  /\ timer' = "off"
  /\ waitFor' = {}
  /\ apiErr' = FALSE
  /\ UNCHANGED <<todo, unanswered, cancelled>>

ResourceStep ==
  \/ Cancel
  \/ Expire
  \/ CreateOne
  \/ CreateFails
  \/ \E n \in waitFor : ObserveRunning(n) \/ ObserveDeleted(n) \/ ObserveFailed(n)
  \/ RecordApiError
  \/ WaitInterrupted
  \/ WaitFailed

ResourceTypeOK ==
  /\ call \in {"idle", "creating", "waiting", "failing"} \cup Outcomes
  /\ todo \subseteq Int
  /\ call = "creating" => todo # {}
  /\ unanswered \subseteq Int
  /\ waitFor \subseteq Int
  /\ apiErr \in BOOLEAN
  /\ cancelled \in BOOLEAN
  /\ timer \in {"off", "armed", "expired"}
=============================================================================
