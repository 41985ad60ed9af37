----------------------------- MODULE VMICluster -----------------------------
(***************************************************************************)
(* The virtual machine instances of one run as the cluster holds them.     *)
(* KubeVirt, the scheduler and the API server are not in the repository:   *)
(* this module is external, and keeps what internal/suites/density and     *)
(* pkg/resource observe of them: which VMIs carry the run label, their     *)
(* phase, their deletion timestamp, and a compute capacity that bounds how *)
(* many run at once.                                                       *)
(*                                                                         *)
(* A VMI is named by a number: the ramp's "<run>-density-vmi-<i>" is i and *)
(* the warm-up's "<run>-density-warmup" is WarmUp.                         *)
(***************************************************************************)
EXTENDS Integers, FiniteSets

CONSTANTS
  Capacity,        \* how many VMIs of this run the cluster can run at once
  VmisMayFail,     \* BOOLEAN: a VMI may reach phase Failed
  OthersMayDelete  \* BOOLEAN: somebody else may delete a VMI of this run

ASSUME CapacityAssumption == Capacity \in Nat
ASSUME ClusterFaultAssumption ==
  /\ VmisMayFail \in BOOLEAN
  /\ OthersMayDelete \in BOOLEAN

WarmUp == -1

VARIABLES
  present,   \* VMIs a List with the run's label selector returns
  running,   \* those in phase Running
  failed,    \* those in phase Failed; the others are not Running yet
  deleting,  \* those with a deletion timestamp: only finalizers keep them
  aged,      \* those whose deletion timestamp is more than 30 s old
  inFlight   \* Create requests whose client gave up and that may still land

clusterVars == <<present, running, failed, deleting, aged, inFlight>>

ClusterInit ==
  /\ present = {}
  /\ running = {}
  /\ failed = {}
  /\ deleting = {}
  /\ aged = {}
  /\ inFlight = {}

-----------------------------------------------------------------------------
(* What the cluster does on its own.                                       *)

\* virt-handler reports phase Running; a VMI being deleted is not started.
Start(n) ==
  /\ n \in present \ (running \cup failed \cup deleting)
  /\ Cardinality(running) < Capacity
  /\ running' = running \cup {n}
  /\ UNCHANGED <<present, failed, deleting, aged, inFlight>>

\* The VMI reaches phase Failed, from Running or before it ever ran.
Fail(n) ==
  /\ VmisMayFail
  /\ n \in present \ failed
  /\ running' = running \ {n}
  /\ failed' = failed \cup {n}
  /\ UNCHANGED <<present, deleting, aged, inFlight>>

\* Objects vanish from the API once the last finalizer of a deleted one goes.
Drop(gone) ==
  /\ present' = present \ gone
  /\ running' = running \ gone
  /\ failed' = failed \ gone
  /\ deleting' = deleting \ gone
  /\ aged' = aged \ gone

\* virt-controller removes its finalizer from a deleted VMI.
Finalize(n) ==
  /\ n \in deleting
  /\ Drop({n})
  /\ UNCHANGED inFlight

\* Thirty seconds pass since the deletion timestamp of n.
Age(n) ==
  /\ n \in deleting \ aged
  /\ aged' = aged \cup {n}
  /\ UNCHANGED <<present, running, failed, deleting, inFlight>>

\* A Create the client no longer waits for reaches the API server.
Land(n) ==
  /\ n \in inFlight
  /\ inFlight' = inFlight \ {n}
  /\ present' = present \cup {n}
  /\ UNCHANGED <<running, failed, deleting, aged>>

\* Somebody else deletes a VMI of the run.
ForeignDelete(n) ==
  /\ OthersMayDelete
  /\ n \in present \ deleting
  /\ deleting' = deleting \cup {n}
  /\ UNCHANGED <<present, running, failed, aged, inFlight>>

ClusterStep ==
  \/ \E n \in present : Start(n) \/ Fail(n) \/ ForeignDelete(n)
  \/ \E n \in deleting : Finalize(n) \/ Age(n)
  \/ \E n \in inFlight : Land(n)

-----------------------------------------------------------------------------
(* What the cluster does on a request of the run.                          *)

\* POST of a VMI that is accepted and answered.
CreateAccepted(n) ==
  /\ n \notin present
  /\ present' = present \cup {n}
  /\ UNCHANGED <<running, failed, deleting, aged, inFlight>>

\* POST of a VMI whose client sees an error: it was refused, or it took
\* effect and the answer was lost, or it is still on its way.
CreateUnanswered(n) ==
  /\ \/ UNCHANGED <<present, inFlight>>
     \/ n \notin present /\ present' = present \cup {n} /\ UNCHANGED inFlight
     \/ n \notin present /\ inFlight' = inFlight \cup {n} /\ UNCHANGED present
  /\ UNCHANGED <<running, failed, deleting, aged>>

\* DELETE of the collection reaches the VMIs in some.
DeleteThese(some) ==
  /\ deleting' = deleting \cup some
  /\ UNCHANGED <<present, running, failed, aged, inFlight>>

\* PUT without finalizers of the deleted VMIs in some.
Strip(some) ==
  /\ Drop(some)
  /\ UNCHANGED inFlight

ClusterTypeOK ==
  /\ present \subseteq Int /\ IsFiniteSet(present)
  /\ running \subseteq present
  /\ failed \subseteq present
  /\ running \cap failed = {}
  /\ deleting \subseteq present
  /\ aged \subseteq deleting
  /\ inFlight \subseteq Int
  /\ Cardinality(running) <= Capacity
=============================================================================
