--------------------------- MODULE CapacityProbe ---------------------------
(***************************************************************************)
(* What the density suite promises: it confirms VMIs batch by batch, never *)
(* more than the cluster or the limit allows, and ends with one verdict    *)
(* that nothing changes afterwards, the confirmed count included.          *)
(***************************************************************************)
EXTENDS Integers

CONSTANTS Ceiling,  \* what the cluster can run
          Step,     \* size of a batch
          Limit     \* what the user allows, 0 for no limit

VARIABLES
  max,     \* VMIs confirmed so far
  verdict  \* "open", then "capacity", "error" or "limit"

Init == max = 0 /\ verdict = "open"

\* A batch is confirmed: a full one, or the last one up to the limit.
Confirm ==
  /\ verdict = "open"
  /\ max' <= Ceiling
  /\ \/ max' = max + Step /\ (Limit = 0 \/ max' < Limit) /\ verdict' = "open"
     \/ max' = Limit /\ max < Limit /\ Limit <= max + Step /\ verdict' = "limit"

\* The ramp stops before the limit is reached.
Stop ==
  /\ verdict = "open"
  /\ verdict' \in {"capacity", "error"}
  /\ max' = max

Next == Confirm \/ Stop

Spec == Init /\ [][Next]_<<max, verdict>>
=============================================================================
