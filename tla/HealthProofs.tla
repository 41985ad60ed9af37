---------------------------- MODULE HealthProofs ----------------------------
(***************************************************************************)
(* What holds of the health gate for any nodes and any services, however   *)
(* often these fail: no check passes over a fault that lasted, and none    *)
(* calls the cluster unhealthy without a fault.                            *)
(***************************************************************************)
EXTENDS HealthHistory, TLAPS

allVars == <<vars, historyVars>>

Capturing == {"capture", "capture harvester"}

\* The bystander has noted the restart counts the baseline has.
NotesFit ==
  /\ first = restarts
  /\ step \in Capturing => restarts = <<>>

\* The notes about this check are about now, too.
FaultsFit == Checking => lasting \subseteq Faults /\ (Faults # {} => met)

\* What is listed are pods.
ListingFits == \A s \in DOMAIN listed : listed[s] \in Pods

\* What the first List of the pods showed was a fault when it did.
ListedFits ==
  step = "harvester" =>
    /\ DOMAIN listed \subseteq Services \ Harvester
    /\ \A s \in DOMAIN listed : ~listed[s].ready \/ s \in Restarted(listed) => met
    /\ (known \ Harvester) \ DOMAIN listed # {} => met

\* No lasting fault has passed a part of the check that looks for it.
LastingFits ==
  /\ step \in {"etcd", "control plane", "harvester"} =>
       \A n \in Nodes : <<"node", n>> \notin lasting
  /\ step = "harvester" =>
       \A s \in Services \ Harvester :
         /\ <<"not ready", s>> \in lasting => s \in DOMAIN listed /\ ~listed[s].ready
         /\ <<"gone", s>> \in lasting => s \notin DOMAIN listed
         /\ <<"restarted", s>> \in lasting => s \in Restarted(listed)

HealthInv == TypeOK /\ ListingFits /\ NotesFit /\ FaultsFit /\ ListedFits /\ LastingFits

-----------------------------------------------------------------------------
(* Types.                                                                  *)

\* An empty listing is of nothing.
LEMMA NothingListed == DOMAIN <<>> = {}
  BY SMT

\* Nothing in the first listing is of namespace harvester-system.
LEMMA ListingDomain == \A S : DOMAIN Listing(S) = Alive(S)
  BY DEF Listing

LEMMA JoinedDomain == \A f, g : DOMAIN Joined(f, g) = DOMAIN f \cup DOMAIN g
  BY DEF Joined

\* Instances are numbered by the pods that were listed.
LEMMA HealthPodsFit ==
  ASSUME TypeOK
  PROVE  /\ DOMAIN HealthPods = DOMAIN listed \cup Alive(Harvester)
         /\ DOMAIN HealthPods \subseteq Services
         /\ \A s \in Alive(Harvester) : HealthPods[s] = pods[s]
         /\ \A s \in DOMAIN listed : HealthPods[s] = listed[s]
  BY HealthAssumption DEF TypeOK, HealthPods, Joined, Listing, Alive

\* The domain of the baseline's counts.
LEMMA CountsDomain ==
  \A seen : DOMAIN Counts(seen) = {<<s, seen[s].uid>> : s \in DOMAIN seen}
  BY DEF Counts, Instance

\* The cluster keeps its types.
LEMMA ClusterTypes ==
  ASSUME TypeOK, ClusterStep
  PROVE  unfit' \subseteq Nodes /\ pods' \in [Services -> Pods]
<1>1. CASE \E n \in Nodes : NodeTurns(n)
  BY <1>1 DEF TypeOK, NodeTurns
<1>2. ASSUME NEW s \in Services, PodTurns(s)
      PROVE  unfit' \subseteq Nodes /\ pods' \in [Services -> Pods]
  BY <1>2 DEF TypeOK, PodTurns, Pods
<1>3. ASSUME NEW s \in Services, ContainerRestarts(s)
      PROVE  unfit' \subseteq Nodes /\ pods' \in [Services -> Pods]
  <2>1. pods[s] \in Pods
    BY DEF TypeOK
  <2>2. pods[s].restarts + 1 \in 0 .. MaxRestarts
    BY <1>3, <2>1, HealthAssumption DEF ContainerRestarts, Pods
  <2> DEFINE new == [pods[s] EXCEPT !.restarts = pods[s].restarts + 1, !.ready = FALSE]
  <2>3. new \in Pods
    BY <2>1, <2>2 DEF Pods
  <2>4. pods' = [pods EXCEPT ![s] = new] /\ unfit' = unfit
    BY <1>3 DEF TypeOK, ContainerRestarts
  <2> QED BY <2>3, <2>4 DEF TypeOK
<1>4. ASSUME NEW s \in Services, PodGoes(s)
      PROVE  unfit' \subseteq Nodes /\ pods' \in [Services -> Pods]
  BY <1>4 DEF TypeOK, PodGoes, Pods
<1>5. ASSUME NEW s \in Services, PodComesBack(s)
      PROVE  unfit' \subseteq Nodes /\ pods' \in [Services -> Pods]
  <2>1. pods[s] \in Pods
    BY DEF TypeOK
  <2>2. pods[s].uid + 1 \in 0 .. MaxUid /\ 0 \in 0 .. MaxRestarts
    BY <1>5, <2>1, HealthAssumption DEF PodComesBack, Pods
  <2> DEFINE new == [alive |-> TRUE, ready |-> FALSE, uid |-> pods[s].uid + 1, restarts |-> 0]
  <2>3. new \in Pods
    BY <2>2 DEF Pods
  <2>4. pods' = [pods EXCEPT ![s] = new] /\ unfit' = unfit
    BY <1>5 DEF TypeOK, PodComesBack
  <2> QED BY <2>3, <2>4 DEF TypeOK
<1> QED BY <1>1, <1>2, <1>3, <1>4, <1>5 DEF ClusterStep

\* One List of pods, that of the baseline or that of a check.
LEMMA ListTypes ==
  ASSUME TypeOK, ListingFits, UNCHANGED clusterVars,
         NEW from, NEW to \in {"capture harvester", "harvester"}, ListControlPlane(from, to)
  PROVE  TypeOK' /\ ListingFits'
<1>1. CASE listed' = Listing(Services \ Harvester) /\ step' = to /\ UNCHANGED verdict
  <2>1. DOMAIN listed' \subseteq Services \ Harvester
    BY <1>1, ListingDomain DEF Alive
  <2>2. ListingFits'
    BY <1>1 DEF ListingFits, Listing, Alive, TypeOK
  <2> QED BY <1>1, <2>1, <2>2 DEF TypeOK, ListControlPlane, clusterVars
<1>2. CASE Ends("error") /\ UNCHANGED listed
  BY <1>2 DEF TypeOK, ListingFits, ListControlPlane, clusterVars, Ends
<1> QED BY <1>1, <1>2 DEF ListControlPlane

\* A full listing joins the baseline.
LEMMA CountsFit ==
  ASSUME TypeOK, ListingFits
  PROVE  DOMAIN Counts(HealthPods) \subseteq Services \X (0 .. MaxUid)
<1>1. \A s \in DOMAIN HealthPods : s \in Services /\ HealthPods[s] \in Pods
  BY HealthPodsFit, HealthAssumption DEF ListingFits, TypeOK, Alive
<1>2. \A s \in DOMAIN HealthPods : HealthPods[s].uid \in 0 .. MaxUid
  BY <1>1 DEF Pods
<1>3. \A s \in DOMAIN HealthPods : <<s, HealthPods[s].uid>> \in Services \X (0 .. MaxUid)
  BY <1>1, <1>2
<1>4. DOMAIN Counts(HealthPods) = {<<s, HealthPods[s].uid>> : s \in DOMAIN HealthPods}
  BY CountsDomain
<1> QED BY <1>3, <1>4

\* Every step keeps the types.
LEMMA TypesNext == TypeOK /\ ListingFits /\ [Next]_vars => TypeOK' /\ ListingFits'
<1> SUFFICES ASSUME TypeOK, ListingFits, [Next]_vars PROVE TypeOK' /\ ListingFits'
  OBVIOUS
<1>1. CASE UNCHANGED vars
  BY <1>1 DEF TypeOK, ListingFits, vars, clusterVars, gateVars
<1>2. CASE ClusterStep /\ UNCHANGED gateVars
  BY <1>2, ClusterTypes DEF TypeOK, ListingFits, gateVars
<1>3. CASE (StartCheck \/ TimePasses) /\ UNCHANGED clusterVars
  BY <1>3 DEF TypeOK, ListingFits, StartCheck, TimePasses, clusterVars
<1>4. CASE CaptureControlPlane /\ UNCHANGED clusterVars
  BY <1>4, ListTypes DEF CaptureControlPlane
<1>5. CASE CaptureHarvester /\ UNCHANGED clusterVars
  <2>1. DOMAIN listed' = {}
    BY <1>5, NothingListed DEF CaptureHarvester
  <2>2. DOMAIN restarts' \subseteq Services \X (0 .. MaxUid) /\ known' \subseteq Services
    BY <1>5, CountsFit, HealthPodsFit DEF CaptureHarvester, TypeOK
  <2> QED BY <1>5, <2>1, <2>2 DEF TypeOK, ListingFits, CaptureHarvester, Ends, clusterVars
<1>6. CASE (CheckNodes \/ CheckEtcd \/ EtcdListFails) /\ UNCHANGED clusterVars
  BY <1>6 DEF TypeOK, ListingFits, CheckNodes, CheckEtcd, EtcdListFails, Ends, clusterVars
<1>7. CASE CheckControlPlane /\ UNCHANGED clusterVars
  BY <1>7, ListTypes DEF CheckControlPlane
<1>8. CASE CheckHarvester /\ UNCHANGED clusterVars
  <2>1. DOMAIN listed' = {}
    BY <1>8, NothingListed DEF CheckHarvester
  <2>2. DOMAIN restarts' \subseteq Services \X (0 .. MaxUid)
    BY <1>8, CountsFit, JoinedDomain DEF CheckHarvester, TypeOK
  <2> QED BY <1>8, <2>1, <2>2 DEF TypeOK, ListingFits, CheckHarvester, Ends, clusterVars
<1> QED
  BY <1>1, <1>2, <1>3, <1>4, <1>5, <1>6, <1>7, <1>8 DEF Next, GateStep, Stopped

-----------------------------------------------------------------------------
(* The notes.                                                              *)

\* What the bystander adds to the notes is what the baseline gets.
LEMMA NotesNext ==
  ASSUME NotesFit, Next, HistoryStep
  PROVE  NotesFit'
<1> DEFINE Met == [k \in {<<s, HealthPods[s].uid>> : s \in DOMAIN HealthPods}
                     |-> HealthPods[k[1]].restarts]
<1>1. Met = Counts(HealthPods)
  BY DEF Counts, Instance
<1> HIDE DEF Met
<1>2. first' = IF Listed THEN Joined(first, Counts(HealthPods)) ELSE first
  BY <1>1 DEF HistoryStep, Met
<1>3. CASE CaptureHarvester /\ step' = "idle"
  <2>1. restarts' = Counts(HealthPods) /\ first = <<>> /\ Listed
    BY <1>3 DEF CaptureHarvester, NotesFit, Capturing, Ends, Listed
  <2>2. Joined(<<>>, Counts(HealthPods)) = Counts(HealthPods)
    BY NothingListed DEF Joined, Counts
  <2> QED BY <1>2, <1>3, <2>1, <2>2 DEF NotesFit, Capturing
<1>4. CASE CheckHarvester /\ step' = "idle"
  <2>1. restarts' = Joined(restarts, Counts(HealthPods)) /\ Listed
    BY <1>4 DEF CheckHarvester, Ends, Listed
  <2> QED BY <1>2, <1>4, <2>1 DEF NotesFit, Capturing
<1>5. CASE ~Listed /\ UNCHANGED restarts /\ (step' \in Capturing => step \in Capturing)
  BY <1>2, <1>5 DEF NotesFit
<1>6. ~((CaptureHarvester \/ CheckHarvester) /\ step' = "idle") =>
        ~Listed /\ UNCHANGED restarts /\ (step' \in Capturing => step \in Capturing)
  BY DEF Next, GateStep, ClusterStep, gateVars, vars, Stopped, Listed, Capturing, Ends,
         CaptureControlPlane, CaptureHarvester, StartCheck, TimePasses, CheckNodes,
         CheckEtcd, EtcdListFails,
         CheckControlPlane, CheckHarvester, ListControlPlane
<1> QED BY <1>3, <1>4, <1>5, <1>6

\* The notes about a check follow the cluster.
LEMMA FaultsNext == HistoryStep => FaultsFit'
  BY DEF HistoryStep, FaultsFit, Begins, Checking

\* Within a check, what has been noted stays noted.
LEMMA StillNoted ==
  ASSUME HistoryStep, Checking, Checking'
  PROVE  lasting' \subseteq lasting /\ (met => met')
  BY DEF HistoryStep, Begins, Checking

\* The gate is at the last request of a check, as it was.
Waits ==
  /\ step = "harvester" /\ step' = "harvester"
  /\ UNCHANGED <<listed, restarts, known>>

\* The first List of a check is answered.
Lists ==
  /\ step = "control plane"
  /\ listed' = Listing(Services \ Harvester)
  /\ UNCHANGED <<clusterVars, restarts, known>>

\* How the gate gets to the last request of a check.
LEMMA ToHarvester == Next /\ step' = "harvester" => Waits \/ Lists
  BY DEF Next, GateStep, ClusterStep, gateVars, clusterVars, vars, Stopped, Ends, Waits, Lists,
         CaptureControlPlane, CaptureHarvester, StartCheck, TimePasses, CheckNodes,
         CheckEtcd, EtcdListFails,
         CheckControlPlane, CheckHarvester, ListControlPlane

\* What the first List shows is wrong with the cluster then, and the other
\* way round.
LEMMA ListingShows ==
  ASSUME Lists, first' = restarts', NEW s \in Services \ Harvester
  PROVE  /\ <<"not ready", s>> \in Faults' <=> s \in DOMAIN listed' /\ ~listed'[s].ready
         /\ <<"gone", s>> \in Faults' <=> s \in known' \ DOMAIN listed'
         /\ <<"restarted", s>> \in Faults' <=> s \in Restarted(listed)'
<1>1. /\ DOMAIN listed' = Alive(Services \ Harvester)
      /\ \A t \in DOMAIN listed' : listed'[t] = pods[t]
      /\ pods' = pods
  BY DEF Lists, Listing, clusterVars
<1>2. s \in DOMAIN listed' <=> pods'[s].alive
  BY <1>1 DEF Alive
<1>3. <<"not ready", s>> \in Faults' <=> s \in NotReady(Services)'
  BY DEF Faults
<1>4. <<"gone", s>> \in Faults' <=> s \in (known \ Alive(Services))'
  BY DEF Faults
<1>5. <<"restarted", s>> \in Faults' <=> RestartedSince(s)'
  BY DEF Faults
<1>6. s \in NotReady(Services)' <=> s \in DOMAIN listed' /\ ~listed'[s].ready
  BY <1>1, <1>2 DEF NotReady, Alive
<1>7. s \in (known \ Alive(Services))' <=> s \in known' \ DOMAIN listed'
  BY <1>2 DEF Alive
<1>8. RestartedSince(s)' <=> s \in Restarted(listed)'
  BY <1>1, <1>2 DEF RestartedSince, Restarted, Instance
<1> QED BY <1>3, <1>4, <1>5, <1>6, <1>7, <1>8

\* The invariant about the first List of a check.
LEMMA ListedNext ==
  ASSUME HealthInv, Next, HistoryStep, TypeOK', NotesFit', FaultsFit'
  PROVE  ListedFits'
<1> SUFFICES ASSUME step' = "harvester" PROVE ListedFits'
  BY DEF ListedFits
<1>1. CASE Waits
  <2>1. met => met'
    BY <1>1, StillNoted DEF Waits, Checking
  <2> QED BY <1>1, <2>1 DEF Waits, HealthInv, ListedFits, Restarted
<1>2. CASE Lists
  <2>1. first' = restarts' /\ (Faults' # {} => met')
    BY DEF NotesFit, FaultsFit, Checking
  <2>2. DOMAIN listed' \subseteq Services \ Harvester
    BY DEF TypeOK
  <2>3. ASSUME NEW s \in DOMAIN listed', ~listed'[s].ready \/ s \in Restarted(listed)'
        PROVE  met'
    <3>1. <<"not ready", s>> \in Faults' \/ <<"restarted", s>> \in Faults'
      BY <1>2, <2>1, <2>2, <2>3, ListingShows
    <3> QED BY <2>1, <3>1
  <2>4. ASSUME NEW s \in (known' \ Harvester) \ DOMAIN listed'
        PROVE  met'
    <3>1. s \in Services \ Harvester
      BY DEF TypeOK
    <3>2. <<"gone", s>> \in Faults'
      BY <1>2, <2>1, <3>1, ListingShows
    <3> QED BY <2>1, <3>2
  <2> QED BY <2>2, <2>3, <2>4 DEF ListedFits
<1> QED BY <1>1, <1>2, ToHarvester

\* A check that is beyond the nodes has found none unfit.
LEMMA BeyondNodes ==
  ASSUME Next, HistoryStep, step' \in {"etcd", "control plane", "harvester"}
  PROVE  \/ step \in {"etcd", "control plane", "harvester"}
         \/ step = "nodes" /\ unfit' = {}
BY DEF Next, GateStep, ClusterStep, gateVars, clusterVars, vars, Stopped, Ends,
       CaptureControlPlane, CaptureHarvester, StartCheck, TimePasses, CheckNodes,
       CheckEtcd, EtcdListFails,
       CheckControlPlane, CheckHarvester, ListControlPlane

\* The invariant about the faults that last.
LEMMA LastingNext ==
  ASSUME HealthInv, Next, HistoryStep, NotesFit', FaultsFit'
  PROVE  LastingFits'
<1>1. ASSUME step' \in {"etcd", "control plane", "harvester"}, NEW n \in Nodes
      PROVE  <<"node", n>> \notin lasting'
  <2>1. CASE step \in {"etcd", "control plane", "harvester"}
    BY <1>1, <2>1, StillNoted DEF Checking, HealthInv, LastingFits
  <2>2. CASE unfit' = {}
    <3>1. <<"node", n>> \notin Faults'
      BY <2>2 DEF Faults
    <3> QED BY <1>1, <3>1 DEF FaultsFit, Checking
  <2> QED BY <1>1, <2>1, <2>2, BeyondNodes
<1>2. ASSUME step' = "harvester", NEW s \in Services \ Harvester
      PROVE  /\ <<"not ready", s>> \in lasting' => s \in DOMAIN listed' /\ ~listed'[s].ready
             /\ <<"gone", s>> \in lasting' => s \notin DOMAIN listed'
             /\ <<"restarted", s>> \in lasting' => s \in Restarted(listed)'
  <2>1. CASE Waits
    <3>1. lasting' \subseteq lasting
      BY <2>1, StillNoted DEF Waits, Checking
    <3> QED BY <2>1, <3>1 DEF Waits, HealthInv, LastingFits, Restarted
  <2>2. CASE Lists
    <3>1. lasting' \subseteq Faults' /\ first' = restarts'
      BY <1>2 DEF FaultsFit, Checking, NotesFit
    <3> QED BY <2>2, <3>1, ListingShows
  <2> QED BY <1>2, <2>1, <2>2, ToHarvester
<1> QED BY <1>1, <1>2 DEF LastingFits

\* The invariant holds at the start, and every step keeps it.
LEMMA HealthStart == HistoryInit => HealthInv
<1> SUFFICES ASSUME HistoryInit PROVE HealthInv
  OBVIOUS
<1>1. unfit \subseteq Nodes /\ pods \in [Services -> Pods]
  BY DEF HistoryInit, Init
<1> QED
  BY <1>1, NothingListed
  DEF HistoryInit, Init, HealthInv, TypeOK, ListingFits, NotesFit, FaultsFit, ListedFits,
      LastingFits, Checking

LEMMA HealthNext == HealthInv /\ [Next /\ HistoryStep]_allVars => HealthInv'
<1> SUFFICES ASSUME HealthInv, [Next /\ HistoryStep]_allVars PROVE HealthInv'
  OBVIOUS
<1>1. CASE UNCHANGED allVars
  <2>1. UNCHANGED <<unfit, pods, step, verdict, listed, restarts, known, late>>
    BY <1>1 DEF allVars, vars, clusterVars, gateVars
  <2>2. UNCHANGED <<lasting, met, first>>
    BY <1>1 DEF allVars, historyVars
  <2>3. TypeOK' /\ ListingFits' /\ NotesFit'
    BY <2>1, <2>2 DEF HealthInv, TypeOK, ListingFits, NotesFit
  <2>4. Faults' = Faults
    BY <2>1, <2>2 DEF Faults, NotReady, Alive, RestartedSince
  <2> QED
    BY <2>1, <2>2, <2>3, <2>4
    DEF HealthInv, FaultsFit, ListedFits, LastingFits, Checking, Restarted, Instance
<1>2. CASE Next /\ HistoryStep
  <2>1. TypeOK' /\ ListingFits'
    BY <1>2, TypesNext DEF HealthInv
  <2>2. NotesFit' /\ FaultsFit'
    BY <1>2, NotesNext, FaultsNext DEF HealthInv
  <2>3. ListedFits' /\ LastingFits'
    BY <1>2, <2>1, <2>2, ListedNext, LastingNext
  <2> QED BY <2>1, <2>2, <2>3 DEF HealthInv
<1> QED BY <1>1, <1>2

-----------------------------------------------------------------------------
(* The theorems.                                                           *)

\* The invariant of the gate with its bystander, whatever fails and however
\* the cluster changes between the requests of a check.
THEOREM HealthInvAlways == HistorySpec => []HealthInv
  BY HealthStart, HealthNext, PTL DEF HistorySpec, allVars

\* Type correctness of captureBaseline and checkClusterHealth, for any
\* cluster.
THEOREM HealthTypes == HistorySpec => []TypeOK
<1>1. HealthInv => TypeOK
  BY DEF HealthInv
<1> QED BY <1>1, HealthInvAlways, PTL

\* What the second List finds wrong is a fault that is there; what the first
\* found wrong was one.
LEMMA UnhealthyStep ==
  ASSUME HealthInv, [Next /\ HistoryStep]_allVars, Judges("unhealthy")
  PROVE  met
<1>1. Next
  BY DEF allVars, vars, gateVars, Judges, Checking
<1>2. (Faults # {} => met)
  BY DEF HealthInv, FaultsFit, Judges
<1>3. CASE CheckNodes
  <2>1. unfit # {} /\ unfit \subseteq Nodes
    BY <1>3 DEF CheckNodes, Ends, Judges, Checking, HealthInv, TypeOK
  <2> QED BY <1>2, <2>1 DEF Faults
<1>4. CASE CheckHarvester
  <2> DEFINE seen == HealthPods
  <2> DEFINE sick == {s \in DOMAIN seen : ~seen[s].ready}
  <2>1. step = "harvester" /\ sick \cup Restarted(seen) \cup Missing(seen) # {}
    BY <1>4 DEF CheckHarvester, Ends, Judges, Checking
  <2>2. PICK s : s \in sick \cup Restarted(seen) \cup Missing(seen)
    BY <2>1
  <2>3. CASE s \in DOMAIN listed
    <3>1. seen[s] = listed[s] /\ s \in DOMAIN seen
      BY <2>3, HealthPodsFit DEF HealthInv
    <3>2. ~listed[s].ready \/ s \in Restarted(listed)
      BY <2>2, <2>3, <3>1 DEF Missing, Restarted
    <3> QED BY <2>1, <2>3, <3>2 DEF HealthInv, ListedFits
  <2>4. CASE s \in Alive(Harvester)
    <3>1. seen[s] = pods[s] /\ s \in DOMAIN seen /\ s \in Services /\ pods[s].alive
      BY <2>4, HealthPodsFit DEF HealthInv, Alive
    <3>2. s \in NotReady(Services) \/ RestartedSince(s)
      BY <2>2, <3>1
      DEF Missing, Restarted, NotReady, Alive, RestartedSince, HealthInv, NotesFit, Instance
    <3> QED BY <1>2, <3>1, <3>2 DEF Faults
  <2>5. CASE s \notin DOMAIN seen
    <3>1. s \in known /\ s \notin DOMAIN listed /\ s \notin Alive(Harvester)
      BY <2>2, <2>5, HealthPodsFit DEF Missing, Restarted, HealthInv
    <3>2. CASE s \in Harvester
      <4>1. s \in known \ Alive(Services)
        BY <3>1, <3>2 DEF Alive
      <4> QED BY <1>2, <4>1 DEF Faults
    <3>3. CASE s \notin Harvester
      BY <2>1, <3>1, <3>3 DEF HealthInv, ListedFits
    <3> QED BY <3>2, <3>3
  <2> QED BY <2>3, <2>4, <2>5, HealthPodsFit DEF HealthInv
<1>5. CheckNodes \/ CheckHarvester
  BY <1>1
  DEF Judges, Checking, Next, GateStep, ClusterStep, gateVars, vars, Stopped, Ends,
      CaptureControlPlane, CaptureHarvester, StartCheck, TimePasses, CheckEtcd, EtcdListFails,
      CheckControlPlane, ListControlPlane
<1> QED BY <1>3, <1>4, <1>5

\* The ramp takes a cluster for unhealthy, and its size for a capacity, only
\* for a fault there was during the check.
THEOREM UnhealthyAlwaysReal == HistorySpec => UnhealthyIsReal
<1>1. HealthInv /\ [Next /\ HistoryStep]_allVars => [Judges("unhealthy") => met]_allVars
  BY UnhealthyStep
<1> QED BY <1>1, HealthInvAlways, PTL DEF HistorySpec, UnhealthyIsReal, allVars

\* Nothing that has lasted is left when a check passes.
LEMMA HealthyStep ==
  ASSUME HealthInv, [Next /\ HistoryStep]_allVars, Judges("healthy")
  PROVE  lasting = {}
<1>1. Next
  BY DEF allVars, vars, gateVars, Judges, Checking
<1>2. CheckHarvester
  BY <1>1
  DEF Judges, Checking, Next, GateStep, ClusterStep, gateVars, vars, Stopped, Ends, CheckNodes,
      CaptureControlPlane, CaptureHarvester, StartCheck, TimePasses, CheckEtcd, EtcdListFails,
      CheckControlPlane, ListControlPlane
<1> DEFINE seen == HealthPods
<1> DEFINE sick == {s \in DOMAIN seen : ~seen[s].ready}
<1>3. step = "harvester" /\ sick = {} /\ Restarted(seen) = {} /\ Missing(seen) = {}
  BY <1>2 DEF CheckHarvester, Ends, Judges
<1>4. lasting \subseteq Faults
  BY DEF HealthInv, FaultsFit, Judges
<1>5. \A n \in Nodes : <<"node", n>> \notin lasting
  BY <1>3 DEF HealthInv, LastingFits
<1>6. ASSUME NEW s \in Services \ Harvester
      PROVE  /\ <<"not ready", s>> \notin lasting
             /\ s \in known => <<"gone", s>> \notin lasting
             /\ <<"restarted", s>> \notin lasting
  <2>1. s \in DOMAIN seen <=> s \in DOMAIN listed
    BY HealthPodsFit DEF HealthInv, Alive
  <2>2. s \in DOMAIN listed => seen[s] = listed[s]
    BY HealthPodsFit DEF HealthInv
  <2>3. s \in DOMAIN listed => listed[s].ready
    BY <1>3, <2>1, <2>2
  <2>4. s \notin Restarted(listed)
    BY <1>3, <2>1, <2>2 DEF Restarted
  <2>5. s \in known => s \in DOMAIN listed
    BY <1>3, <2>1 DEF Missing
  <2> QED BY <1>3, <2>3, <2>4, <2>5 DEF HealthInv, LastingFits
<1>7. ASSUME NEW s \in Harvester
      PROVE  /\ <<"not ready", s>> \notin Faults
             /\ <<"gone", s>> \notin Faults
             /\ <<"restarted", s>> \notin Faults
  <2>1. s \in Services
    BY HealthAssumption
  <2>2. pods[s].alive => s \in DOMAIN seen /\ seen[s] = pods[s]
    BY HealthPodsFit DEF HealthInv, Alive
  <2>3. s \in DOMAIN seen => pods[s].alive
    BY HealthPodsFit DEF HealthInv, Alive, TypeOK
  <2>4. s \notin NotReady(Services)
    BY <1>3, <2>2 DEF NotReady, Alive
  <2>5. s \notin known \ Alive(Services)
    BY <1>3, <2>1, <2>3 DEF Missing, Alive
  <2>6. ~RestartedSince(s)
    BY <1>3, <2>2 DEF RestartedSince, Restarted, Instance, HealthInv, NotesFit
  <2> QED BY <2>4, <2>5, <2>6 DEF Faults
<1>8. ASSUME NEW f \in lasting
      PROVE  FALSE
  <2>1. \/ \E n \in Nodes : f = <<"node", n>>
        \/ \E s \in Services : f = <<"not ready", s>>
        \/ \E s \in known : f = <<"gone", s>>
        \/ \E s \in Services : f = <<"restarted", s>>
    BY <1>4, <1>8 DEF Faults, NotReady, Alive, HealthInv, TypeOK
  <2>2. known \subseteq Services
    BY DEF HealthInv, TypeOK
  <2> QED BY <1>4, <1>5, <1>6, <1>7, <2>1, <2>2
<1> QED BY <1>8

\* A fault of a node or a service that lasts from the start of a check to its
\* end is never taken for a healthy cluster.
THEOREM LastingFaultAlwaysStops == HistorySpec => LastingFaultStops
<1>1. HealthInv /\ [Next /\ HistoryStep]_allVars => [Judges("healthy") => lasting = {}]_allVars
  BY HealthyStep
<1> QED BY <1>1, HealthInvAlways, PTL DEF HistorySpec, LastingFaultStops, allVars
=============================================================================
