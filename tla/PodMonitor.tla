----------------------------- MODULE PodMonitor -----------------------------
(***************************************************************************)
(* EnsurePodMonitor of pkg/k8s/monitor.go: the pod monitor of the etcd     *)
(* benchmark is applied, and Prometheus' targets are polled until each     *)
(* etcd pod has been scraped long enough after that for a query over       *)
(* RangeDuration to see nothing older.                                     *)
(*                                                                         *)
(* Prometheus and its operator are external.  A monitor that an earlier    *)
(* run left in the namespace has targets that are scraped already.  Time   *)
(* is counted in intervals of a scrape.  Prometheus acts and time passes   *)
(* while the poll waits: what came before is in the initial states.        *)
(***************************************************************************)
EXTENDS Integers, FiniteSets

CONSTANTS
  EtcdPods,       \* the etcd pods EnsureEtcdReady has counted
  RangeDuration,  \* option monitoringRangeDuration, in intervals
  WaitTimeout     \* option monitoringWaitPodMonitorTimeout

\* EnsureEtcdReady does not return without a pod.  The defaults: "2x the
\* EtcdRangeDuration to allow for Prometheus to scrape".
ASSUME MonitorAssumption ==
  /\ IsFiniteSet(EtcdPods) /\ EtcdPods # {}
  /\ RangeDuration \in Nat \ {0}
  /\ WaitTimeout \in Nat /\ WaitTimeout <= 2 * RangeDuration

VARIABLES
  monitor,    \* EnsurePodMonitor: "idle", "apply", "poll", "ok", "error"
  applied,    \* there is a pod monitor of that name
  targets,    \* active targets: etcd pod -> its last scrape, -1 for none
  unhealthy,  \* targets whose last scrape failed
  applyTime,
  now

monitorVars == <<monitor, applied, targets, unhealthy, applyTime, now>>

\* The latest time there is: that of a poll that runs into its timeout.
LastTime == WaitTimeout

MonitorInit ==
  /\ monitor = "idle"
  /\ applied \in BOOLEAN
  /\ \E S \in IF applied THEN SUBSET EtcdPods ELSE {{}} : targets \in [S -> {-1, 0}]
  /\ unhealthy \in SUBSET DOMAIN targets
  /\ applyTime = 0 /\ now = 0

-----------------------------------------------------------------------------
(* Prometheus.                                                             *)

\* The operator has configured the monitor, and the pod is discovered.
Discovers(p) ==
  /\ applied /\ p \notin DOMAIN targets
  /\ targets' = [q \in DOMAIN targets \cup {p} |-> IF q = p THEN -1 ELSE targets[q]]
  /\ UNCHANGED unhealthy

Scrapes(p) ==
  /\ p \in DOMAIN targets
  /\ targets' = [targets EXCEPT ![p] = now]
  /\ \/ unhealthy' = unhealthy \ {p}
     \/ unhealthy' = unhealthy \cup {p}

\* The pod is replaced, or its target dropped.
Drops(p) ==
  /\ p \in DOMAIN targets
  /\ targets' = [q \in DOMAIN targets \ {p} |-> targets[q]]
  /\ unhealthy' = unhealthy \ {p}

PrometheusStep ==
  /\ monitor = "poll"
  /\ \E p \in EtcdPods : Discovers(p) \/ Scrapes(p) \/ Drops(p)
  /\ UNCHANGED <<monitor, applied, applyTime, now>>

TimePasses ==
  /\ monitor = "poll" /\ now < LastTime
  /\ now' = now + 1
  /\ UNCHANGED <<monitor, applied, targets, unhealthy, applyTime>>

-----------------------------------------------------------------------------
\* Server-side apply: a monitor left by an earlier run is taken over.
Applies(callError, done) ==
  /\ monitor = "apply"
  /\ \/ ~done /\ applied' = TRUE /\ monitor' = "poll" /\ applyTime' = now
     \/ callError /\ applied' \in {applied, TRUE} /\ monitor' = "error" /\ UNCHANGED applyTime
  /\ UNCHANGED <<targets, unhealthy, now>>

\* The age a scrape has to have for its target to count.
\* Variant: after the monitor was applied is enough.
SinceApplied(p) == targets[p] > applyTime

Counts(p) == targets[p] > applyTime + RangeDuration

ReadyCount == Cardinality({p \in DOMAIN targets \ unhealthy : Counts(p)})

\* A poll that has all etcd pods; one that has not, or fails, changes nothing.
PollSucceeds ==
  /\ monitor = "poll" /\ ReadyCount = Cardinality(EtcdPods)
  /\ monitor' = "ok"
  /\ UNCHANGED <<applied, targets, unhealthy, applyTime, now>>

TimedOut(done) == done \/ now >= applyTime + WaitTimeout

PollEnds(done) ==
  /\ monitor = "poll" /\ TimedOut(done)
  /\ monitor' = "error"
  /\ UNCHANGED <<applied, targets, unhealthy, applyTime, now>>

-----------------------------------------------------------------------------
MonitorTypeOK ==
  /\ monitor \in {"idle", "apply", "poll", "ok", "error"}
  /\ applied \in BOOLEAN
  /\ DOMAIN targets \subseteq EtcdPods /\ unhealthy \subseteq DOMAIN targets
  /\ \A p \in DOMAIN targets : targets[p] \in -1 .. LastTime
  /\ applyTime \in 0 .. LastTime /\ now \in 0 .. LastTime

\* When EnsurePodMonitor returns, the range of the queries lies after this
\* run's Apply, and each etcd pod has its last scrape in it: what a monitor
\* of an earlier run has left in Prometheus is neither waited on nor queried.
QueriesSeeThisRun ==
  [][monitor = "poll" /\ monitor' = "ok" =>
       /\ now - RangeDuration > applyTime
       /\ \A p \in EtcdPods : p \in DOMAIN targets /\ targets[p] > now - RangeDuration]_monitorVars
=============================================================================
