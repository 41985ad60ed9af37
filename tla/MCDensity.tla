----------------------------- MODULE MCDensity -----------------------------
(***************************************************************************)
(* Density on small clusters.  The configurations choose the capacity, the *)
(* batch, the limit and the faults; the names a VMI can have follow.       *)
(***************************************************************************)
EXTENDS Density

\* Names a VMI of the run can have.
Names == {WarmUp} \cup 0 .. Capacity + BatchSize - 1

\* A deleted VMI does not outlive the clean-up because its finalizers are
\* never removed (the comment in cleanup), as long as the API answers.
StuckFinalizersGo ==
  \A n \in Names : (Polling /\ n \in deleting) ~> (n \notin present)
=============================================================================
