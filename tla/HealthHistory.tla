--------------------------- MODULE HealthHistory ---------------------------
(***************************************************************************)
(* HealthGate with what a bystander who sees the whole cluster notes down: *)
(* the faults that lasted from the start of a check, those there were at   *)
(* any moment of it, and the restart count each instance had when the gate *)
(* first listed it.  The properties compare the verdicts with these notes. *)
(***************************************************************************)
EXTENDS HealthGate

VARIABLES
  lasting,  \* faults present in every state of this check so far
  met,      \* some fault was there in some state of this check
  first     \* <<service, uid>> -> restarts, when the gate met the instance

historyVars == <<lasting, met, first>>

RestartedSince(s) ==
  /\ pods[s].alive
  /\ <<s, pods[s].uid>> \in DOMAIN first
  /\ pods[s].restarts > first[<<s, pods[s].uid>>]

\* What is wrong with the cluster now.
Faults ==
  {<<"node", n>> : n \in unfit}
    \cup {<<"not ready", s>> : s \in NotReady(Services)}
    \cup {<<"gone", s>> : s \in known \ Alive(Services)}
    \cup {<<"restarted", s>> : s \in {t \in Services : RestartedSince(t)}}

HistoryInit == Init /\ lasting = {} /\ met = FALSE /\ first = <<>>

\* The gate has a full listing: the baseline, or a pods check that passed.
Listed ==
  /\ step \in {"capture harvester", "harvester"} /\ step' = "idle"

Checking == step \in {"nodes", "etcd", "control plane", "harvester"}

Begins == step = "idle" /\ step' = "nodes"

HistoryStep ==
  /\ first' = IF Listed
              THEN Joined(first,
                     [k \in {<<s, HealthPods[s].uid>> : s \in DOMAIN HealthPods}
                        |-> HealthPods[k[1]].restarts])
              ELSE first
  /\ lasting' = IF Begins THEN Faults'
                ELSE IF Checking' THEN lasting \cap Faults' ELSE {}
  /\ met' = IF Begins THEN Faults' # {} ELSE Checking' /\ (met \/ Faults' # {})

HistorySpec == HistoryInit /\ [][Next /\ HistoryStep]_<<vars, historyVars>>

\* The goroutine of the suite runs, requests are answered, and time passes.
\* No request need fail: wherever one of GateStep may, it may be answered, too.
\* Nothing is assumed of the cluster.
FairSpec ==
  /\ HistorySpec
  /\ WF_<<vars, historyVars>>(GateStep /\ UNCHANGED clusterVars /\ HistoryStep)
  /\ WF_<<vars, historyVars>>(TimePasses /\ UNCHANGED clusterVars /\ HistoryStep)

-----------------------------------------------------------------------------
Judges(v) == Checking /\ ~Checking' /\ verdict' = v

\* A fault that lasts from the start of a check to its end never passes: not
\* a sick node, not a pod that is not ready, not a service of the baseline
\* that is gone, and not a restart of an instance since the gate met it,
\* though the check sees every part of the cluster at another moment.
LastingFaultStops == [][Judges("healthy") => lasting = {}]_<<vars, historyVars>>

\* The gate calls the cluster unhealthy, which the ramp takes for a capacity,
\* only for a fault there was during the check.
UnhealthyIsReal == [][Judges("unhealthy") => met]_<<vars, historyVars>>
=============================================================================
