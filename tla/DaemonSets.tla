----------------------------- MODULE DaemonSets -----------------------------
(***************************************************************************)
(* pkg/k8s/daemonset.go and exec.go: a daemon set is created once, polled  *)
(* until its status tells of a finished rollout, and the pods that carry   *)
(* its labels are listed.  The status is written by a controller of its    *)
(* own, and tells of the past; the List is a request of its own again.     *)
(*                                                                         *)
(* Controller, kubelet and taints are external.  A node has one pod of the *)
(* daemon set at a time, <<node, number>>: number counts those it has had. *)
(* <<node, 0>> is the pod of the daemon set of an earlier run, which       *)
(* nothing deletes in a namespace that stays.                              *)
(***************************************************************************)
EXTENDS Integers, FiniteSets

CONSTANTS
  Nodes,          \* the nodes of the cluster
  Leftovers,      \* those with a pod of the daemon set of an earlier run
  LastPod,        \* bound: how many pods of the daemon set a node has had
  CallsMayFail    \* BOOLEAN: requests and commands may fail

ASSUME DaemonSetsAssumption ==
  /\ IsFiniteSet(Nodes) /\ Leftovers \subseteq Nodes
  /\ LastPod \in Nat /\ CallsMayFail \in BOOLEAN

Pods == Nodes \X (0 .. LastPod)

VARIABLES
  eligible,   \* nodes whose taints the daemon set tolerates
  made,       \* the daemon set exists
  status,     \* its status: generation observed, pods desired, pods ready
  number,     \* of each node: which pod of the daemon set it has, or had last
  phase,      \* of that pod: "none", "pending", "ready", "terminating"
  steady,     \* nodes eligible since the Create whose pod was never evicted
  call,       \* what the library is doing for the suite, or how it ended
  listed,     \* pods that EnsureDaemonSetReady returned and that are left
  target,     \* the pod the command runs in, if any
  timer,      \* waitTimeout is over
  cancelled   \* SIGINT or SIGTERM came

clusterVars == <<eligible, made, status, number, phase, steady>>
callVars == <<call, listed, target, timer>>
setVars == <<clusterVars, callVars, cancelled>>

DaemonSetsInit ==
  /\ eligible \in SUBSET Nodes
  /\ made = FALSE
  /\ status = [observed |-> FALSE, desired |-> 0, ready |-> 0]
  /\ number = [n \in Nodes |-> 0] /\ phase = [n \in Nodes |-> "none"]
  /\ steady = {}
  /\ call = "idle" /\ listed = {} /\ target = {}
  /\ timer = FALSE /\ cancelled = FALSE

-----------------------------------------------------------------------------
(* The cluster.                                                            *)

\* A stream into a pod ends with the container it runs in.
BreaksStreamInto(n) ==
  call' = IF call = "exec" /\ <<n, number[n]>> \in target THEN "error" ELSE call

PodComes(n) ==
  /\ made /\ n \in eligible /\ phase[n] = "none" /\ number[n] < LastPod
  /\ number' = [number EXCEPT ![n] = @ + 1]
  /\ phase' = [phase EXCEPT ![n] = "pending"]
  /\ UNCHANGED <<eligible, steady, call>>

PodStarts(n) ==
  /\ phase[n] = "pending"
  /\ phase' = [phase EXCEPT ![n] = "ready"]
  /\ UNCHANGED <<eligible, number, steady, call>>

\* "sleep" is over after activeDeadline: the container ends and is started
\* again.
SleepEnds(n) ==
  /\ phase[n] = "ready"
  /\ phase' = [phase EXCEPT ![n] = "pending"]
  /\ BreaksStreamInto(n)
  /\ UNCHANGED <<eligible, number, steady>>

Terminates(n) ==
  phase' = [phase EXCEPT ![n] = IF @ = "none" THEN @ ELSE "terminating"]

PodIsEvicted(n) ==
  /\ phase[n] \in {"pending", "ready"}
  /\ Terminates(n)
  /\ steady' = steady \ {n}
  /\ UNCHANGED <<eligible, number, call>>

PodGoes(n) ==
  /\ phase[n] = "terminating"
  /\ phase' = [phase EXCEPT ![n] = "none"]
  /\ BreaksStreamInto(n)
  /\ UNCHANGED <<eligible, number, steady>>

\* A taint comes, and the pod has to go; or a taint goes.
NodeTurns(n) ==
  /\ made
  /\ \/ n \in eligible /\ eligible' = eligible \ {n} /\ Terminates(n)
     \/ n \notin eligible /\ eligible' = eligible \cup {n} /\ UNCHANGED phase
  /\ steady' = steady \ {n}
  /\ UNCHANGED <<number, call>>

\* The daemon set controller writes down what it sees.
StatusIsWritten ==
  /\ made
  /\ status' = [observed |-> TRUE, desired |-> Cardinality(eligible),
                ready |-> Cardinality({n \in eligible : phase[n] = "ready"})]
  /\ UNCHANGED <<eligible, number, phase, steady, call>>

\* What kubelets are bound to do: a sleep and a termination take their time
\* and end.
PodEnds(n) ==
  /\ SleepEnds(n) \/ PodGoes(n)
  /\ UNCHANGED <<made, status, listed, target, timer, cancelled>>

DaemonStep ==
  \/ \E n \in Nodes :
       /\ PodComes(n) \/ PodStarts(n) \/ PodIsEvicted(n) \/ NodeTurns(n)
       /\ UNCHANGED <<made, status, listed, target, timer, cancelled>>
  \/ \E n \in Nodes : PodEnds(n)
  \/ StatusIsWritten /\ UNCHANGED <<made, listed, target, timer, cancelled>>

-----------------------------------------------------------------------------
(* EnsureDaemonSetReady.                                                   *)

CallError == CallsMayFail \/ cancelled

Makes == made' = TRUE /\ steady' = eligible

PostsDaemonSet ==
  /\ call = "posting" /\ ~cancelled
  /\ Makes
  /\ call' = "poll"
  /\ UNCHANGED <<eligible, status, number, phase, listed, target, timer, cancelled>>

\* The Create fails, or is carried out and its answer lost.
PostFails ==
  /\ call = "posting" /\ CallError
  /\ Makes \/ UNCHANGED <<made, steady>>
  /\ call' = "error"
  /\ UNCHANGED <<eligible, status, number, phase, listed, target, timer, cancelled>>

\* The condition of the poll.
\* Variant: the counts agree, whatever they were counted for.
CountsAgree == status.desired = status.ready

RolledOut == status.observed /\ status.desired = status.ready

\* A Get that fails, like one that finds the rollout under way, is followed
\* by another: only a Get that succeeds and finds it finished changes
\* anything.
PollSucceeds ==
  /\ call = "poll" /\ ~cancelled
  /\ RolledOut
  /\ call' = "list" /\ timer' = FALSE
  /\ UNCHANGED <<clusterVars, listed, target, cancelled>>

\* Variant: nothing but a signal ends the poll.
OnSignal == cancelled

PollGivesUp == timer \/ cancelled

PollEnds ==
  /\ call = "poll" /\ PollGivesUp
  /\ call' = "error" /\ timer' = FALSE
  /\ UNCHANGED <<clusterVars, listed, target, cancelled>>

OwnPods == {<<n, number[n]>> : n \in {k \in Nodes : phase[k] # "none"}}

\* The pods with the labels of the daemon set.
\* Variant: those of the suite, of whatever run.
OfSuite == OwnPods \cup Leftovers \X {0}

Labelled == OwnPods

ListsPods ==
  /\ call = "list" /\ ~cancelled
  /\ listed' = Labelled
  /\ call' = "ok"
  /\ UNCHANGED <<clusterVars, target, timer, cancelled>>

ListFails ==
  /\ call = "list" /\ CallError
  /\ call' = "error"
  /\ UNCHANGED <<clusterVars, listed, target, timer, cancelled>>

TimeIsUp ==
  /\ call = "poll" /\ ~timer
  /\ timer' = TRUE
  /\ UNCHANGED <<clusterVars, call, listed, target, cancelled>>

-----------------------------------------------------------------------------
(* ExecPod.                                                                *)

\* The pod has a container to run a command in.
Alive(p) ==
  p[2] = 0 \/ (number[p[1]] = p[2] /\ phase[p[1]] \in {"ready", "terminating"})

OpensStream(p) ==
  /\ target' = {p}
  /\ call' = IF Alive(p) /\ ~cancelled THEN "exec" ELSE "error"

Succeeds ==
  /\ call = "exec"
  /\ call' = "ok"
  /\ UNCHANGED <<clusterVars, listed, target, timer, cancelled>>

CommandFails ==
  /\ call = "exec" /\ CallsMayFail
  /\ call' = "error"
  /\ UNCHANGED <<clusterVars, listed, target, timer, cancelled>>

\* The context of the stream is done.
StreamBreaks ==
  /\ call = "exec" /\ cancelled
  /\ call' = "error"
  /\ UNCHANGED <<clusterVars, listed, target, timer, cancelled>>

Signal ==
  /\ ~cancelled /\ cancelled' = TRUE
  /\ UNCHANGED <<clusterVars, callVars>>

\* What the library does, sooner or later: requests are answered, and
\* contexts watched.
Library ==
  \/ PostsDaemonSet \/ PostFails \/ PollSucceeds \/ PollEnds
  \/ ListsPods \/ ListFails \/ StreamBreaks

DaemonSetsTypeOK ==
  /\ eligible \subseteq Nodes /\ steady \subseteq Nodes
  /\ made \in BOOLEAN /\ timer \in BOOLEAN /\ cancelled \in BOOLEAN
  /\ status \in [observed : BOOLEAN, desired : 0 .. Cardinality(Nodes),
                 ready : 0 .. Cardinality(Nodes)]
  /\ number \in [Nodes -> 0 .. LastPod]
  /\ phase \in [Nodes -> {"none", "pending", "ready", "terminating"}]
  /\ call \in {"idle", "posting", "poll", "list", "exec", "ok", "error"}
  /\ listed \subseteq Pods /\ target \subseteq Pods
=============================================================================
