----------------------------- MODULE HealthGate -----------------------------
(***************************************************************************)
(* The health gate of the density suite: captureBaseline notes which       *)
(* service containers there are and how often each instance of them has    *)
(* restarted; checkClusterHealth then compares the cluster with that after *)
(* every batch.  A check reads the cluster in four requests, and the       *)
(* cluster changes between them.                                           *)
(*                                                                         *)
(* A service stands for one container of one pod name that healthPods      *)
(* lists; a pod that is deleted and comes back under its name has a new    *)
(* uid.  Density keeps of all this the outcomes only.                      *)
(***************************************************************************)
EXTENDS Integers

CONSTANTS
  Nodes,
  Services,     \* containers of control-plane, Harvester and KubeVirt pods
  Harvester,    \* those in namespace harvester-system
  Etcd,         \* those with the label component=etcd
  MaxUid,       \* bound: how often a pod is replaced
  MaxRestarts,  \* bound: how often a container restarts
  CallsMayFail  \* BOOLEAN: a request to the API server may fail

ASSUME HealthAssumption ==
  /\ Harvester \subseteq Services
  /\ Etcd \subseteq Services \ Harvester
  /\ Nodes # {}
  /\ MaxUid \in Nat /\ MaxRestarts \in Nat
  /\ CallsMayFail \in BOOLEAN

VARIABLES
  unfit,     \* nodes that are not Ready or under pressure
  pods,      \* the pod of each service: alive, ready, uid, restarts
  step,      \* what the gate does next; "idle" while a batch is under way
  verdict,   \* of the last check: "none", "healthy", "unhealthy", "error"
  listed,    \* control-plane pods the first List of healthPods returned
  restarts,  \* baseline.restarts: instance -> restart count
  known,     \* baseline.containers
  late       \* the 30 s of the check are over

clusterVars == <<unfit, pods>>
gateVars == <<step, verdict, listed, restarts, known, late>>
vars == <<clusterVars, gateVars>>

Pods == [alive : BOOLEAN, ready : BOOLEAN, uid : 0 .. MaxUid, restarts : 0 .. MaxRestarts]

Alive(S) == {s \in S : pods[s].alive}
NotReady(S) == {s \in Alive(S) : ~pods[s].ready}

Init ==
  /\ unfit = {}
  /\ pods \in [Services -> {p \in Pods : p.alive /\ p.uid = 0}]
  /\ step = "capture"
  /\ verdict = "none"
  /\ listed = <<>>
  /\ restarts = <<>>
  /\ known = {}
  /\ late = FALSE

-----------------------------------------------------------------------------
(* The cluster.                                                            *)

NodeTurns(n) ==
  /\ unfit' = IF n \in unfit THEN unfit \ {n} ELSE unfit \cup {n}
  /\ UNCHANGED pods

\* The Ready condition of the pod turns.
PodTurns(s) ==
  /\ pods[s].alive
  /\ pods' = [pods EXCEPT ![s].ready = ~@]
  /\ UNCHANGED unfit

ContainerRestarts(s) ==
  /\ pods[s].alive /\ pods[s].restarts < MaxRestarts
  /\ pods' = [pods EXCEPT ![s].restarts = @ + 1, ![s].ready = FALSE]
  /\ UNCHANGED unfit

PodGoes(s) ==
  /\ pods[s].alive
  /\ pods' = [pods EXCEPT ![s].alive = FALSE]
  /\ UNCHANGED unfit

PodComesBack(s) ==
  /\ ~pods[s].alive /\ pods[s].uid < MaxUid
  /\ pods' = [pods EXCEPT ![s] =
       [alive |-> TRUE, ready |-> FALSE, uid |-> @.uid + 1, restarts |-> 0]]
  /\ UNCHANGED unfit

ClusterStep ==
  \/ \E n \in Nodes : NodeTurns(n)
  \/ \E s \in Services :
       PodTurns(s) \/ ContainerRestarts(s) \/ PodGoes(s) \/ PodComesBack(s)

-----------------------------------------------------------------------------
(* captureBaseline.                                                        *)

CallError == CallsMayFail \/ late

Ends(v) == step' = "stopped" /\ verdict' = v

\* What a List returns of the pods of S.
\* Variant: without its namespace.
EveryNamespace(S) == [s \in Alive(Services) |-> pods[s]]

Listing(S) == [s \in Alive(S) |-> pods[s]]

ListControlPlane(from, to) ==
  /\ step = from
  /\ \/ ~late /\ step' = to /\ listed' = Listing(Services \ Harvester) /\ UNCHANGED verdict
     \/ CallError /\ Ends("error") /\ UNCHANGED listed
  /\ UNCHANGED <<restarts, known, late>>

CaptureControlPlane == ListControlPlane("capture", "capture harvester")

\* Appended lists, and a map whose old keys keep their values.
Joined(old, new) ==
  [x \in DOMAIN old \cup DOMAIN new |-> IF x \in DOMAIN old THEN old[x] ELSE new[x]]

\* All pods of healthPods, once the second List is in.
HealthPods == Joined(listed, Listing(Harvester))

\* The key of baseline.restarts.
\* Variant: a pod is taken for the same as long as its name is.
ByName(s, pod) == <<s, 0>>

Instance(s, pod) == <<s, pod.uid>>

Counts(seen) == [k \in {Instance(s, seen[s]) : s \in DOMAIN seen} |-> seen[k[1]].restarts]

\* captureBaseline: without a Harvester pod there is no baseline.
CaptureHarvester ==
  /\ step = "capture harvester"
  /\ \/ /\ ~late /\ Alive(Harvester) # {}
        /\ step' = "idle"
        /\ restarts' = Counts(HealthPods)
        /\ known' = DOMAIN HealthPods
        /\ UNCHANGED verdict
     \/ /\ CallError \/ Alive(Harvester) = {}
        /\ Ends("error")
        /\ UNCHANGED <<restarts, known>>
  /\ listed' = <<>>
  /\ UNCHANGED late

-----------------------------------------------------------------------------
(* checkClusterHealth.                                                     *)

StartCheck ==
  /\ step = "idle" /\ step' = "nodes"
  /\ late' = FALSE
  /\ UNCHANGED <<verdict, listed, restarts, known>>

\* Thirty seconds pass.
TimePasses ==
  /\ step \notin {"idle", "stopped"} /\ ~late
  /\ late' = TRUE
  /\ UNCHANGED <<step, verdict, listed, restarts, known>>

\* checkNodes.
CheckNodes ==
  /\ step = "nodes"
  /\ \/ ~late /\ unfit = {} /\ step' = "etcd" /\ UNCHANGED verdict
     \/ ~late /\ unfit # {} /\ Ends("unhealthy")
     \/ CallError /\ Ends("error")
  /\ UNCHANGED <<listed, restarts, known, late>>

\* When the timeout of EnsureEtcdReady ends its polling.
\* Variant: never, on a context without end.
NeverTimesOut == FALSE

EtcdTimesOut == late

\* EnsureEtcdReady polls until a List shows every etcd pod ready; a poll
\* that does not changes nothing.  Without a pod, or when the time is over,
\* it returns an error.
CheckEtcd ==
  /\ step = "etcd"
  /\ \/ /\ ~late /\ Alive(Etcd) # {} /\ NotReady(Etcd) = {}
        /\ step' = "control plane" /\ UNCHANGED verdict
     \/ ~late /\ Alive(Etcd) = {} /\ Ends("error")
     \/ EtcdTimesOut /\ Ends("error")
  /\ UNCHANGED <<listed, restarts, known, late>>

\* So it does, at once, when a List fails.  The step is none of CheckEtcd: no
\* fairness may bring the failure about that spares the timeout.
EtcdListFails ==
  /\ step = "etcd" /\ CallsMayFail
  /\ Ends("error")
  /\ UNCHANGED <<listed, restarts, known, late>>

CheckControlPlane == ListControlPlane("control plane", "harvester")

\* Containers of the baseline that no pod lists any more.
\* Variant: they are not looked for.
NothingMissing(seen) == {}

Missing(seen) == known \ DOMAIN seen

Restarted(seen) ==
  {s \in DOMAIN seen : /\ Instance(s, seen[s]) \in DOMAIN restarts
                       /\ seen[s].restarts > restarts[Instance(s, seen[s])]}

\* checkControlPlanePods: instances it has not met before join the baseline
\* with the restarts they have by now.
CheckHarvester ==
  /\ step = "harvester"
  /\ \/ /\ ~late
        /\ LET seen == HealthPods
               sick == {s \in DOMAIN seen : ~seen[s].ready}
           IN IF sick \cup Restarted(seen) \cup Missing(seen) # {}
              THEN Ends("unhealthy") /\ UNCHANGED restarts
              ELSE /\ step' = "idle"
                   /\ verdict' = "healthy"
                   /\ restarts' = Joined(restarts, Counts(seen))
     \/ CallError /\ Ends("error") /\ UNCHANGED restarts
  /\ listed' = <<>>
  /\ UNCHANGED <<known, late>>

GateStep ==
  \/ CaptureControlPlane \/ CaptureHarvester
  \/ CheckNodes \/ CheckEtcd \/ CheckControlPlane \/ CheckHarvester

\* The gate has returned its last verdict.
Stopped == step = "stopped" /\ UNCHANGED vars

Next ==
  \/ (GateStep \/ EtcdListFails \/ StartCheck \/ TimePasses) /\ UNCHANGED clusterVars
  \/ ClusterStep /\ UNCHANGED gateVars
  \/ Stopped

Spec == Init /\ [][Next]_vars

-----------------------------------------------------------------------------
(* Properties.  Those about faults are in HealthHistory.                   *)

\* Every variable keeps its type; a baseline knows the containers it counts.
TypeOK ==
  /\ unfit \subseteq Nodes
  /\ pods \in [Services -> Pods]
  /\ step \in {"capture", "capture harvester", "idle", "nodes", "etcd",
               "control plane", "harvester", "stopped"}
  /\ verdict \in {"none", "healthy", "unhealthy", "error"}
  /\ DOMAIN listed \subseteq Services \ Harvester
  /\ DOMAIN restarts \subseteq Services \X (0 .. MaxUid)
  /\ known \subseteq Services
  /\ late \in BOOLEAN

\* A check is over within its thirty seconds, though etcd never gets ready and
\* no request fails.
CheckEnds == step = "nodes" ~> step \in {"idle", "stopped"}
=============================================================================
