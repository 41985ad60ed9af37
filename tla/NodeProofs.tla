----------------------------- MODULE NodeProofs -----------------------------
(***************************************************************************)
(* What holds of the node capacity suite for every finite set of nodes,    *)
(* whatever happens to their taints and pods: a disk case that passes has  *)
(* every node that was steady, each of them once, and none of its rows is  *)
(* one that could not be read.                                             *)
(***************************************************************************)
EXTENDS NodeCapacity, FiniteSetTheorems, TLAPS

\* Where the suite and the library are, and what there is by then.
PlaceFits ==
  /\ pc \in {"os", "node", "disk", "done"} => call = "idle"
  /\ pc = "daemon set" => call \in {"posting", "poll", "list", "ok", "error"}
  /\ pc = "pod" => call \in {"idle", "exec", "ok", "error"}
  /\ pc \in {"os", "node"} => Len(results) = 0
  /\ pc \in {"disk", "daemon set", "pod"} => Len(results) = 1
  /\ pc = "done" => Len(results) = 2
  /\ pc \notin {"node", "pod"} => rows = <<>>
  /\ ~(pc = "pod" /\ call # "idle") => target = {}
  /\ pc = "pod" /\ call # "idle" => \E p \in Pods : target = {p}

\* A node is steady only while it is eligible and from the Create on, which
\* is before any status.
SteadyFits ==
  /\ steady \subseteq eligible
  /\ ~made => steady = {} /\ ~status.observed
  /\ pc \in {"os", "node", "disk"} \/ call = "posting" => ~made

HavePods == \A n \in steady : phase[n] \in {"pending", "ready"}

Waited == pc = "pod" \/ (pc = "daemon set" /\ call \in {"list", "ok"})

\* A rollout that a status has called finished is one for the steady nodes.
PodsFit == RolledOut \/ Waited => HavePods

InRows(n) == \E i \in DOMAIN rows : rows[i].node = n

\* A steady node is still to be asked, or being asked, or in a row.
ListFits ==
  /\ pc = "pod" \/ (pc = "daemon set" /\ call = "ok") =>
       \A n \in steady : InRows(n) \/ \E p \in listed \cup target : p[1] = n
  /\ InventoryComplete

\* A node that is still to be asked is in no row, and is asked once.
RowsFit ==
  /\ \A i, j \in DOMAIN rows : i # j => rows[i].node # rows[j].node
  /\ pc = "node" => \A i \in DOMAIN rows : rows[i].node \notin unread
  /\ pc = "pod" => \A i \in DOMAIN rows : \A p \in listed \cup target : rows[i].node # p[1]
  /\ \A p, q \in listed \cup target : p[1] = q[1] => p = q
  /\ listed \cap target = {}
  /\ OneRowPerNode

HasError == \E i \in DOMAIN rows : rows[i].err

\* A case with a row that could not be read has an error, or will.
DoomedFits ==
  \A i \in doomed :
    /\ i <= Len(results) + 1
    /\ i <= Len(results) => results[i].state = "ERROR"
    /\ i = Len(results) + 1 => HasError \/ (pc = "pod" /\ call = "error")

\* The inductive invariant.
NodeInv ==
  TypeOK /\ PlaceFits /\ SteadyFits /\ PodsFit /\ ListFits /\ RowsFit /\ DoomedFits

Row == [node : Nodes, err : BOOLEAN]

Result == [state : {"PASS", "ERROR"}, nodes : Seq(Nodes)]

Rows == Seq(Row)

Results == Seq(Result)

NodesIn(all) == [i \in DOMAIN all |-> all[i].node]

-----------------------------------------------------------------------------
(* Sequences.                                                              *)

\* What Append does.
LEMMA AppendIs ==
  ASSUME NEW S, NEW s \in Seq(S), NEW e \in S
  PROVE  /\ Append(s, e) \in Seq(S)
         /\ Len(s) \in Nat /\ DOMAIN s = 1 .. Len(s)
         /\ Len(Append(s, e)) = Len(s) + 1 /\ DOMAIN Append(s, e) = 1 .. Len(s) + 1
         /\ \A i \in 1 .. Len(s) : i \in 1 .. Len(s) + 1 /\ Append(s, e)[i] = s[i]
         /\ Len(s) + 1 \in 1 .. Len(s) + 1 /\ Append(s, e)[Len(s) + 1] = e
         /\ \A i \in 1 .. Len(s) + 1 : i \in 1 .. Len(s) \/ i = Len(s) + 1
  OBVIOUS

\* What is in a sequence, and its indices.
LEMMA SequenceIs ==
  ASSUME NEW S, NEW s \in Seq(S)
  PROVE  Len(s) \in Nat /\ DOMAIN s = 1 .. Len(s) /\ \A i \in DOMAIN s : s[i] \in S
  OBVIOUS

\* The nodes of a sequence of rows.
LEMMA NodesOfRows ==
  ASSUME NEW all \in Rows
  PROVE  /\ NodesIn(all) \in Seq(Nodes) /\ DOMAIN NodesIn(all) = DOMAIN all
         /\ \A i \in DOMAIN all : NodesIn(all)[i] = all[i].node
<1>1. Len(all) \in Nat /\ DOMAIN all = 1 .. Len(all) /\ \A i \in DOMAIN all : all[i] \in Row
  BY SequenceIs DEF Rows
<1>2. \A i \in DOMAIN all : all[i].node \in Nodes
  BY <1>1 DEF Row
<1>3. [i \in 1 .. Len(all) |-> all[i].node] \in Seq(Nodes)
  BY <1>1, <1>2
<1> QED
  BY <1>1, <1>3 DEF NodesIn

\* What a row adds.
LEMMA RowIs ==
  ASSUME rows \in Rows, NEW n \in Nodes, NEW err \in BOOLEAN, AddsRow(n, err)
  PROVE  /\ rows' \in Rows
         /\ DOMAIN rows' = DOMAIN rows \cup {Len(rows) + 1} /\ Len(rows) + 1 \notin DOMAIN rows
         /\ \A i \in DOMAIN rows : rows'[i] = rows[i]
         /\ rows'[Len(rows) + 1] = [node |-> n, err |-> err]
<1> DEFINE r == [node |-> n, err |-> err]
<1>1. r \in Row
  BY DEF Row
<1>2. rows' = Append(rows, r)
  BY DEF AddsRow
<1> HIDE DEF r
<1>3. /\ Append(rows, r) \in Rows
      /\ Len(rows) \in Nat /\ DOMAIN rows = 1 .. Len(rows)
      /\ DOMAIN Append(rows, r) = 1 .. Len(rows) + 1
      /\ \A i \in 1 .. Len(rows) : Append(rows, r)[i] = rows[i]
      /\ Append(rows, r)[Len(rows) + 1] = r
  BY <1>1, AppendIs DEF Rows
<1>4. /\ 1 .. Len(rows) + 1 = 1 .. Len(rows) \cup {Len(rows) + 1}
      /\ Len(rows) + 1 \notin 1 .. Len(rows)
  BY <1>3
<1> QED
  BY <1>2, <1>3, <1>4 DEF r

\* What a report adds.
LEMMA ReportIs ==
  ASSUME results \in Results, NEW state \in {"PASS", "ERROR"}, NEW all \in Rows,
         NEW next, Reports(state, all, next)
  PROVE  /\ results' \in Results
         /\ Len(results) \in Nat /\ Len(results') = Len(results) + 1
         /\ DOMAIN results = 1 .. Len(results) /\ DOMAIN results' = 1 .. Len(results) + 1
         /\ \A i \in 1 .. Len(results) : results'[i] = results[i]
         /\ results'[Len(results) + 1].state = state
         /\ results'[Len(results) + 1].nodes = NodesIn(all)
         /\ rows' = <<>> /\ pc' = next
<1> DEFINE r == [state |-> state, nodes |-> NodesIn(all)]
<1>1. r \in Result
  BY NodesOfRows DEF Result
<1>2. results' = Append(results, r) /\ rows' = <<>> /\ pc' = next
  BY DEF Reports, NodesIn
<1> HIDE DEF r
<1>3. /\ Append(results, r) \in Results
      /\ Len(results) \in Nat /\ Len(Append(results, r)) = Len(results) + 1
      /\ DOMAIN results = 1 .. Len(results)
      /\ DOMAIN Append(results, r) = 1 .. Len(results) + 1
      /\ \A i \in 1 .. Len(results) : Append(results, r)[i] = results[i]
      /\ Append(results, r)[Len(results) + 1] = r
  BY <1>1, AppendIs DEF Results
<1> QED
  BY <1>2, <1>3 DEF r

-----------------------------------------------------------------------------
(* The first state.                                                        *)

\* No case has begun, and nothing is made.
LEMMA NodeInit == Init => NodeInv
<1> SUFFICES ASSUME Init PROVE NodeInv
  OBVIOUS
<1>1. Cardinality(Nodes) \in Nat
  BY DaemonSetsAssumption, FS_CardinalityType
<1>2. TypeOK
  <2>1. status \in [observed : BOOLEAN, desired : 0 .. Cardinality(Nodes),
                    ready : 0 .. Cardinality(Nodes)]
    BY <1>1 DEF Init, DaemonSetsInit
  <2>2. number \in [Nodes -> 0 .. LastPod]
    BY DaemonSetsAssumption DEF Init, DaemonSetsInit
  <2>3. DaemonSetsTypeOK
    BY <2>1, <2>2 DEF Init, DaemonSetsInit, DaemonSetsTypeOK
  <2> QED
    BY <2>3 DEF Init, TypeOK
<1>3. PlaceFits /\ SteadyFits
  BY DEF Init, DaemonSetsInit, PlaceFits, SteadyFits
<1>4. PodsFit /\ ListFits /\ RowsFit /\ DoomedFits
  BY DEF Init, DaemonSetsInit, PodsFit, HavePods, ListFits, InventoryComplete, Passed, RowsFit,
         OneRowPerNode, DoomedFits
<1> QED
  BY <1>2, <1>3, <1>4 DEF NodeInv

-----------------------------------------------------------------------------
(* What the cluster does.                                                  *)

\* A pod that comes, starts, restarts, is evicted or goes, or a node that
\* turns.
LEMMA PodStepIs ==
  ASSUME NodeInv, NEW n \in Nodes,
         PodComes(n) \/ PodStarts(n) \/ SleepEnds(n) \/ PodIsEvicted(n) \/ PodGoes(n)
           \/ NodeTurns(n)
  PROVE  /\ eligible' \subseteq Nodes
         /\ number' \in [Nodes -> 0 .. LastPod]
         /\ phase' \in [Nodes -> {"none", "pending", "ready", "terminating"}]
         /\ call' = call \/ (call = "exec" /\ call' = "error")
         /\ steady' \subseteq steady /\ steady' \subseteq eligible'
         /\ HavePods => HavePods'
<1>1. /\ eligible \subseteq Nodes /\ steady \subseteq eligible
      /\ number \in [Nodes -> 0 .. LastPod] /\ LastPod \in Nat
      /\ phase \in [Nodes -> {"none", "pending", "ready", "terminating"}]
  BY DaemonSetsAssumption DEF NodeInv, TypeOK, DaemonSetsTypeOK, SteadyFits
<1>2. CASE PodComes(n)
  <2>1. number[n] \in 0 .. LastPod /\ number[n] < LastPod
    BY <1>1, <1>2 DEF PodComes
  <2>2. number[n] + 1 \in 0 .. LastPod
    BY <1>1, <2>1
  <2> QED
    BY <1>1, <1>2, <2>2 DEF PodComes, HavePods
<1>3. CASE PodStarts(n)
  BY <1>1, <1>3 DEF PodStarts, HavePods
<1>4. CASE SleepEnds(n)
  BY <1>1, <1>4 DEF SleepEnds, BreaksStreamInto, HavePods
<1>5. CASE PodIsEvicted(n)
  BY <1>1, <1>5 DEF PodIsEvicted, Terminates, HavePods
<1>6. CASE PodGoes(n)
  BY <1>1, <1>6 DEF PodGoes, BreaksStreamInto, HavePods
<1>7. CASE NodeTurns(n)
  BY <1>1, <1>7 DEF NodeTurns, Terminates, HavePods
<1> QED
  BY <1>2, <1>3, <1>4, <1>5, <1>6, <1>7

\* A status with as many pods ready as desired was written when every
\* eligible node had its pod.
LEMMA StatusIs ==
  ASSUME NodeInv, StatusIsWritten
  PROVE  /\ status' \in [observed : BOOLEAN, desired : 0 .. Cardinality(Nodes),
                         ready : 0 .. Cardinality(Nodes)]
         /\ RolledOut' => HavePods'
<1> DEFINE up == {n \in eligible : phase[n] = "ready"}
<1>1. eligible \subseteq Nodes /\ steady \subseteq eligible
  BY DEF NodeInv, TypeOK, DaemonSetsTypeOK, SteadyFits
<1>2. IsFiniteSet(Nodes) /\ IsFiniteSet(eligible) /\ up \subseteq eligible
  BY <1>1, DaemonSetsAssumption, FS_Subset
<1>3. /\ Cardinality(Nodes) \in Nat /\ Cardinality(eligible) \in Nat /\ Cardinality(up) \in Nat
      /\ Cardinality(eligible) <= Cardinality(Nodes) /\ Cardinality(up) <= Cardinality(eligible)
  BY <1>1, <1>2, FS_Subset, FS_CardinalityType
<1>4. Cardinality(up) = Cardinality(eligible) => up = eligible
  BY <1>2, FS_Subset
<1> HIDE DEF up
<1>5. status' = [observed |-> TRUE, desired |-> Cardinality(eligible), ready |-> Cardinality(up)]
  BY DEF StatusIsWritten, up
<1>6. UNCHANGED <<phase, steady>>
  BY DEF StatusIsWritten
<1>7. status' \in [observed : BOOLEAN, desired : 0 .. Cardinality(Nodes),
                   ready : 0 .. Cardinality(Nodes)]
  BY <1>3, <1>5
<1>8. RolledOut' => HavePods'
  <2> SUFFICES ASSUME RolledOut' PROVE HavePods'
    OBVIOUS
  <2>1. Cardinality(eligible) = Cardinality(up)
    BY <1>5 DEF RolledOut
  <2>2. steady \subseteq up
    BY <1>1, <1>4, <2>1
  <2> QED
    BY <1>6, <2>2 DEF HavePods, up
<1> QED
  BY <1>7, <1>8

\* All of it together.
LEMMA DaemonStepIs ==
  ASSUME NodeInv, DaemonStep
  PROVE  /\ DaemonSetsTypeOK'
         /\ UNCHANGED <<made, listed, target, timer, cancelled>>
         /\ call' = call \/ (call = "exec" /\ call' = "error")
         /\ steady' \subseteq steady /\ steady' \subseteq eligible'
         /\ ~made => ~status'.observed
         /\ HavePods => HavePods'
         /\ RolledOut' => HavePods'
<1>1. UNCHANGED <<made, listed, target, timer, cancelled>>
  BY DEF DaemonStep, PodEnds
<1>2. DaemonSetsTypeOK /\ steady \subseteq eligible /\ (RolledOut => HavePods)
  BY DEF NodeInv, TypeOK, SteadyFits, PodsFit
<1>3. ~made => ~status.observed
  BY DEF NodeInv, SteadyFits
<1>4. CASE StatusIsWritten
  <2>1. UNCHANGED <<eligible, number, phase, steady, call>> /\ made
    BY <1>4 DEF StatusIsWritten
  <2>2. HavePods => HavePods'
    BY <2>1 DEF HavePods
  <2> QED
    BY <1>1, <1>2, <1>4, <2>1, <2>2, StatusIs DEF DaemonSetsTypeOK
<1>5. ASSUME NEW n \in Nodes, UNCHANGED status,
             PodComes(n) \/ PodStarts(n) \/ SleepEnds(n) \/ PodIsEvicted(n) \/ PodGoes(n)
               \/ NodeTurns(n)
      PROVE  /\ DaemonSetsTypeOK'
             /\ call' = call \/ (call = "exec" /\ call' = "error")
             /\ steady' \subseteq steady /\ steady' \subseteq eligible'
             /\ HavePods => HavePods'
  <2>1. /\ eligible' \subseteq Nodes
        /\ number' \in [Nodes -> 0 .. LastPod]
        /\ phase' \in [Nodes -> {"none", "pending", "ready", "terminating"}]
        /\ call' = call \/ (call = "exec" /\ call' = "error")
        /\ steady' \subseteq steady /\ steady' \subseteq eligible'
        /\ HavePods => HavePods'
    BY <1>5, PodStepIs
  <2> QED
    BY <1>1, <1>2, <1>5, <2>1 DEF DaemonSetsTypeOK
<1>6. CASE \E n \in Nodes :
             /\ PodComes(n) \/ PodStarts(n) \/ SleepEnds(n) \/ PodIsEvicted(n) \/ PodGoes(n)
                  \/ NodeTurns(n)
             /\ UNCHANGED status
  <2>1. UNCHANGED status
    BY <1>6
  <2> QED
    BY <1>1, <1>2, <1>3, <1>5, <1>6, <2>1 DEF RolledOut
<1> QED
  BY <1>4, <1>6 DEF DaemonStep, PodEnds

\* While the suite waits, the cluster breaks nothing.
LEMMA ClusterKeeps ==
  ASSUME NodeInv, DaemonStep, UNCHANGED suiteVars
  PROVE  NodeInv'
<1> USE DEF suiteVars
<1>1. /\ DaemonSetsTypeOK'
      /\ UNCHANGED <<made, listed, target, timer, cancelled>>
      /\ call' = call \/ (call = "exec" /\ call' = "error")
      /\ steady' \subseteq steady /\ steady' \subseteq eligible'
      /\ ~made => ~status'.observed
      /\ HavePods => HavePods'
      /\ RolledOut' => HavePods'
  BY DaemonStepIs
<1>2. TypeOK'
  BY <1>1 DEF NodeInv, TypeOK
<1>3. call' # call => pc = "pod"
  BY <1>1 DEF NodeInv, TypeOK, PlaceFits
<1>4. PlaceFits'
  BY <1>1, <1>3 DEF NodeInv, PlaceFits
<1>5. SteadyFits'
  BY <1>1 DEF NodeInv, SteadyFits
<1>6. PodsFit'
  BY <1>1, <1>3 DEF NodeInv, PodsFit, Waited
<1>7. ListFits'
  <2>1. ListFits
    BY DEF NodeInv
  <2>2. InventoryComplete'
    <3> DEFINE inventory == {results[2].nodes[i] : i \in DOMAIN results[2].nodes}
    <3>1. inventory' = inventory /\ (Passed(2)' <=> Passed(2))
      BY DEF Passed
    <3>2. Passed(2) => steady \subseteq inventory
      BY <2>1 DEF ListFits, InventoryComplete
    <3> HIDE DEF inventory
    <3>3. Passed(2)' => steady' \subseteq inventory'
      BY <1>1, <3>1, <3>2
    <3> QED
      BY <3>3 DEF InventoryComplete, inventory
  <2>3. \A n : InRows(n)' <=> InRows(n)
    BY DEF InRows
  <2>4. ASSUME pc = "pod" \/ (pc = "daemon set" /\ call = "ok"), NEW n \in steady'
        PROVE  InRows(n) \/ \E p \in listed \cup target : p[1] = n
    BY <1>1, <2>1, <2>4 DEF ListFits
  <2> QED
    BY <1>1, <1>3, <2>2, <2>3, <2>4 DEF ListFits
<1>8. RowsFit'
  BY <1>1 DEF NodeInv, RowsFit, OneRowPerNode
<1>9. DoomedFits'
  BY <1>1 DEF NodeInv, DoomedFits, HasError
<1> QED
  BY <1>2, <1>4, <1>5, <1>6, <1>7, <1>8, <1>9 DEF NodeInv

-----------------------------------------------------------------------------
(* What the library does.                                                  *)

\* The Create.
LEMMA PostKeeps ==
  ASSUME NodeInv, PostsDaemonSet \/ PostFails, UNCHANGED suiteVars
  PROVE  NodeInv'
<1> USE DEF suiteVars
<1>1. /\ call = "posting" /\ call' \in {"poll", "error"}
      /\ UNCHANGED <<eligible, status, number, phase, listed, target, timer, cancelled>>
      /\ (made' = TRUE /\ steady' = eligible) \/ UNCHANGED <<made, steady>>
  BY DEF PostsDaemonSet, PostFails, Makes
<1>2. pc = "daemon set" /\ ~made /\ ~status.observed /\ Len(results) = 1 /\ steady = {}
  BY <1>1 DEF NodeInv, TypeOK, PlaceFits, SteadyFits
<1>3. TypeOK'
  BY <1>1 DEF NodeInv, TypeOK, DaemonSetsTypeOK
<1>4. PlaceFits'
  BY <1>1, <1>2 DEF NodeInv, PlaceFits
<1>5. SteadyFits'
  BY <1>1, <1>2 DEF NodeInv, SteadyFits
<1>6. PodsFit'
  BY <1>1, <1>2 DEF PodsFit, RolledOut, Waited
<1>7. ~Passed(2)'
  <2>1. DOMAIN results = 1 .. 1
    BY <1>2, SequenceIs DEF NodeInv, TypeOK
  <2> QED
    BY <2>1 DEF Passed
<1>8. ListFits'
  BY <1>1, <1>2, <1>7 DEF ListFits, InventoryComplete
<1>9. RowsFit'
  BY <1>1 DEF NodeInv, RowsFit, OneRowPerNode
<1>10. DoomedFits'
  BY <1>1, <1>2 DEF NodeInv, DoomedFits, HasError
<1> QED
  BY <1>3, <1>4, <1>5, <1>6, <1>8, <1>9, <1>10 DEF NodeInv

\* The List.
LEMMA ListKeeps ==
  ASSUME NodeInv, ListsPods, UNCHANGED suiteVars
  PROVE  NodeInv'
<1> USE DEF suiteVars
<1>1. /\ call = "list" /\ call' = "ok" /\ listed' = OwnPods
      /\ UNCHANGED <<clusterVars, target, timer, cancelled>>
  BY DEF ListsPods, Labelled
<1>2. pc = "daemon set" /\ target = {} /\ HavePods /\ steady \subseteq Nodes
  BY <1>1 DEF NodeInv, TypeOK, DaemonSetsTypeOK, PlaceFits, PodsFit, Waited
<1>3. OwnPods \subseteq Pods /\ \A p, q \in OwnPods : p[1] = q[1] => p = q
  <2>1. number \in [Nodes -> 0 .. LastPod]
    BY DEF NodeInv, TypeOK, DaemonSetsTypeOK
  <2>2. \A p \in OwnPods : \E n \in Nodes : p = <<n, number[n]>>
    BY DEF OwnPods
  <2>3. \A n \in Nodes : <<n, number[n]>> \in Pods /\ <<n, number[n]>>[1] = n
    BY <2>1 DEF Pods
  <2>4. OwnPods \subseteq Pods
    BY <2>2, <2>3
  <2>5. ASSUME NEW p \in OwnPods, NEW q \in OwnPods, p[1] = q[1] PROVE p = q
    <3>1. PICK n \in Nodes : p = <<n, number[n]>>
      BY <2>2
    <3>2. PICK k \in Nodes : q = <<k, number[k]>>
      BY <2>2
    <3>3. n = k
      BY <2>5, <3>1, <3>2
    <3> QED
      BY <3>1, <3>2, <3>3
  <2> QED
    BY <2>4, <2>5
<1>4. \A n \in steady : <<n, number[n]>> \in OwnPods
  BY <1>2 DEF HavePods, OwnPods
<1>5. TypeOK'
  BY <1>1, <1>3 DEF NodeInv, TypeOK, DaemonSetsTypeOK, clusterVars, Pods
<1>6. PlaceFits'
  BY <1>1, <1>2 DEF NodeInv, PlaceFits
<1>7. SteadyFits'
  BY <1>1 DEF NodeInv, SteadyFits, clusterVars
<1>8. PodsFit'
  BY <1>1, <1>2 DEF PodsFit, HavePods, clusterVars
<1>9. ListFits'
  <2>1. \A n \in steady : \E p \in listed' \cup target' : p[1] = n
    <3> SUFFICES ASSUME NEW n \in steady PROVE \E p \in listed' : p[1] = n
      OBVIOUS
    <3>1. <<n, number[n]>> \in listed' /\ <<n, number[n]>>[1] = n
      BY <1>1, <1>4
    <3> QED
      BY <3>1
  <2>2. InventoryComplete'
    BY <1>1 DEF NodeInv, ListFits, InventoryComplete, Passed, clusterVars
  <2> QED
    BY <1>1, <2>1, <2>2 DEF ListFits, clusterVars
<1>10. RowsFit'
  <2>1. listed' \cup target' = OwnPods /\ listed' \cap target' = {} /\ pc' = "daemon set"
    BY <1>1, <1>2
  <2>2. \A p, q \in listed' \cup target' : p[1] = q[1] => p = q
    BY <1>3, <2>1
  <2> QED
    <3>1. OneRowPerNode'
      BY DEF NodeInv, RowsFit, OneRowPerNode
    <3>2. \A i, j \in DOMAIN rows' : i # j => rows'[i].node # rows'[j].node
      BY DEF NodeInv, RowsFit
    <3> QED
      BY <2>1, <2>2, <3>1, <3>2 DEF RowsFit
<1>11. DoomedFits'
  BY <1>1, <1>2 DEF NodeInv, DoomedFits, HasError
<1> QED
  BY <1>5, <1>6, <1>7, <1>8, <1>9, <1>10, <1>11 DEF NodeInv

\* The rest of what the library does, and a signal.
LEMMA CallKeeps ==
  ASSUME NodeInv, UNCHANGED suiteVars,
         PollSucceeds \/ PollEnds \/ ListFails \/ StreamBreaks \/ TimeIsUp \/ Succeeds
           \/ CommandFails \/ Signal
  PROVE  NodeInv'
<1> USE DEF suiteVars
<1>1. UNCHANGED <<clusterVars, listed, target>>
  BY DEF PollSucceeds, PollEnds, ListFails, StreamBreaks, TimeIsUp, Succeeds, CommandFails,
         Signal, callVars
<1>2. timer' \in BOOLEAN /\ cancelled' \in BOOLEAN
  BY DEF PollSucceeds, PollEnds, ListFails, StreamBreaks, TimeIsUp, Succeeds, CommandFails,
         Signal, callVars, NodeInv, TypeOK, DaemonSetsTypeOK
<1>3. \/ call' = call
      \/ call = "poll" /\ call' = "list" /\ RolledOut
      \/ call \in {"poll", "list"} /\ call' = "error"
      \/ call = "exec" /\ call' \in {"ok", "error"}
  BY DEF PollSucceeds, PollEnds, ListFails, StreamBreaks, TimeIsUp, Succeeds, CommandFails,
         Signal, callVars
<1>4. /\ call = "exec" => pc = "pod"
      /\ call \in {"poll", "list"} => pc = "daemon set"
  BY DEF NodeInv, TypeOK, PlaceFits
<1>5. TypeOK'
  BY <1>1, <1>2, <1>3 DEF NodeInv, TypeOK, DaemonSetsTypeOK, clusterVars
<1>6. PlaceFits'
  BY <1>1, <1>3, <1>4 DEF NodeInv, PlaceFits
<1>7. SteadyFits'
  BY <1>1, <1>3 DEF NodeInv, SteadyFits, clusterVars
<1>8. PodsFit'
  BY <1>1, <1>3, <1>4 DEF NodeInv, PodsFit, Waited, RolledOut, HavePods, clusterVars
<1>9. ListFits'
  BY <1>1, <1>3, <1>4 DEF NodeInv, ListFits, InRows, InventoryComplete, Passed, clusterVars
<1>10. RowsFit'
  BY <1>1 DEF NodeInv, RowsFit, OneRowPerNode
<1>11. DoomedFits'
  BY <1>3 DEF NodeInv, DoomedFits, HasError
<1> QED
  BY <1>5, <1>6, <1>7, <1>8, <1>9, <1>10, <1>11 DEF NodeInv

-----------------------------------------------------------------------------
(* What the suite does.                                                    *)

\* The types, with the names they have here.
LEMMA SuiteTypes ==
  ASSUME NodeInv
  PROVE  /\ DaemonSetsTypeOK /\ unread \subseteq Nodes
         /\ rows \in Rows /\ results \in Results /\ doomed \subseteq {1, 2}
         /\ pc \in {"os", "node", "disk", "daemon set", "pod", "done"}
         /\ call \in {"idle", "posting", "poll", "list", "exec", "ok", "error"}
  BY DEF NodeInv, TypeOK, DaemonSetsTypeOK, Row, Result, Rows, Results

\* What follows a case.
EndsCase(next) ==
  \/ next = "disk" /\ pc \in {"os", "node"}
  \/ next = "done" /\ pc \in {"disk", "daemon set", "pod"}

\* What a case that passes has been through.
EndsWell(all) ==
  /\ all = rows /\ ~HasError /\ call # "error"
  /\ pc = "node" \/ (pc = "pod" /\ listed = {})

Distinct(nodes) == \A i, j \in DOMAIN nodes : i # j => nodes[i] # nodes[j]

\* No rows are a sequence, too.
LEMMA NoRows == <<>> \in Rows /\ DOMAIN <<>> = {} /\ Distinct(NodesIn(<<>>))
<1>1. <<>> \in Rows
  BY DEF Rows
<1>2. DOMAIN <<>> = {}
  OBVIOUS
<1>3. DOMAIN NodesIn(<<>>) = {}
  BY <1>2 DEF NodesIn
<1> QED
  BY <1>1, <1>2, <1>3 DEF Distinct

\* The rows of a case are of different nodes.
LEMMA OwnRows == ASSUME NodeInv PROVE rows \in Rows /\ Distinct(NodesIn(rows))
<1>1. rows \in Rows
  BY SuiteTypes
<1>2. \A i, j \in DOMAIN rows : i # j => rows[i].node # rows[j].node
  BY DEF NodeInv, RowsFit
<1> QED
  BY <1>1, <1>2 DEF Distinct, NodesIn

\* The end of a case: one that passes has been through all of its nodes or
\* pods, and has no row with an error.
LEMMA ReportKeeps ==
  ASSUME NodeInv, NEW state \in {"PASS", "ERROR"}, NEW all \in Rows, NEW next,
         Distinct(NodesIn(all)), Reports(state, all, next),
         EndsCase(next),
         call' = "idle", target = {},
         UNCHANGED <<clusterVars, listed, target, timer, cancelled, unread, doomed>>,
         state = "PASS" => EndsWell(all)
  PROVE  NodeInv'
<1> USE DEF clusterVars
<1>2. /\ results' \in Results
      /\ Len(results) \in Nat /\ Len(results') = Len(results) + 1
      /\ DOMAIN results = 1 .. Len(results) /\ DOMAIN results' = 1 .. Len(results) + 1
      /\ \A i \in 1 .. Len(results) : results'[i] = results[i]
      /\ results'[Len(results) + 1].state = state
      /\ results'[Len(results) + 1].nodes = NodesIn(all)
      /\ rows' = <<>> /\ pc' = next
  BY SuiteTypes, ReportIs
<1>2a. rows' = <<>> /\ pc' = next
  BY <1>2
<1>2b. rows' \in Rows
  BY <1>2a, NoRows
<1>2c. Len(results) \in Nat /\ Len(results') = Len(results) + 1
  BY <1>2
<1>2d. \/ pc' = "disk" /\ pc \in {"os", "node"}
       \/ pc' = "done" /\ pc \in {"disk", "daemon set", "pod"}
  BY <1>2a DEF EndsCase
<1>2e. \/ pc' = "disk" /\ pc \in {"os", "node"} /\ Len(results) = 0
       \/ pc' = "done" /\ pc \in {"disk", "daemon set", "pod"} /\ Len(results) = 1
  BY <1>2d DEF NodeInv, PlaceFits
<1>3. Len(results) \in {0, 1} /\ Len(results') \in {1, 2} /\ Len(results') = Len(results) + 1
  <2>1. Len(results) = 0 \/ Len(results) = 1
    BY <1>2e
  <2>2. CASE Len(results) = 0
    BY <1>2c, <2>2
  <2>3. CASE Len(results) = 1
    BY <1>2c, <2>3
  <2> QED
    BY <2>1, <2>2, <2>3
<1>3a. pc' = "disk" => Len(results) = 0
  BY <1>2e
<1>3b. pc' = "done" => Len(results) = 1
  BY <1>2e
<1>4. TypeOK'
  <2>1. DaemonSetsTypeOK'
    BY SuiteTypes DEF DaemonSetsTypeOK
  <2>2. results' \in Results
    BY <1>2
  <2>3. pc' \in {"disk", "done"}
    BY <1>2d
  <2> QED
    BY <1>2a, <1>2b, <2>1, <2>2, <2>3, SuiteTypes DEF TypeOK, Result, Row, Rows, Results
<1>5. PlaceFits'
  <2>1. pc' = "disk" => Len(results') = 1
    BY <1>3, <1>3a
  <2>2. pc' = "done" => Len(results') = 2
    BY <1>3, <1>3b
  <2> QED
    BY <1>2a, <1>2d, <2>1, <2>2 DEF PlaceFits
<1>6. SteadyFits'
  BY <1>2d DEF NodeInv, SteadyFits
<1>7. PodsFit'
  BY <1>2d DEF NodeInv, PodsFit, RolledOut, Waited, HavePods
<1>8. InventoryComplete'
  <2> SUFFICES ASSUME Passed(2)'
               PROVE  steady' \subseteq {results'[2].nodes[i] : i \in DOMAIN results'[2].nodes}
    BY DEF InventoryComplete
  <2>1. 2 \in DOMAIN results' /\ results'[2].state = "PASS"
    BY DEF Passed
  <2>2. DOMAIN results' = 1 .. Len(results')
    BY <1>2
  <2>3. Len(results) = 1
    BY <1>3, <2>1, <2>2
  <2>3a. pc \notin {"os", "node"}
    <3>1. Len(results) # 0
      BY <2>3
    <3> QED
      BY <3>1 DEF NodeInv, PlaceFits
  <2>4. results'[2].state = state /\ results'[2].nodes = NodesIn(all)
    BY <1>2, <2>3
  <2>5. all = rows /\ pc = "pod" /\ listed = {}
    BY <2>1, <2>3a, <2>4 DEF EndsWell
  <2>6. \A n \in steady : InRows(n)
    BY <2>5 DEF NodeInv, ListFits
  <2>7. DOMAIN NodesIn(rows) = DOMAIN rows /\ \A i \in DOMAIN rows : NodesIn(rows)[i] = rows[i].node
    BY SuiteTypes, NodesOfRows
  <2> QED
    BY <2>4, <2>5, <2>6, <2>7 DEF InRows
<1>9. ListFits'
  BY <1>2d, <1>8 DEF ListFits
<1>10. OneRowPerNode'
  <2> SUFFICES ASSUME NEW k \in DOMAIN results' PROVE Distinct(results'[k].nodes)
    BY DEF OneRowPerNode, Distinct
  <2>1. CASE k \in 1 .. Len(results)
    <3>1. k \in DOMAIN results /\ results'[k] = results[k]
      BY <1>2, <2>1
    <3>2. Distinct(results[k].nodes)
      BY <3>1 DEF NodeInv, RowsFit, OneRowPerNode, Distinct
    <3> QED
      BY <3>1, <3>2
  <2>2. CASE k = Len(results) + 1
    <3>1. results'[k].nodes = NodesIn(all)
      BY <1>2, <2>2
    <3> QED
      BY <3>1
  <2>3. k \in 1 .. Len(results) \/ k = Len(results) + 1
    <3>1. k \in 1 .. Len(results) + 1 /\ Len(results) \in Nat
      BY <1>2
    <3> QED
      BY <3>1
  <2> QED
    BY <2>1, <2>2, <2>3
<1>11. RowsFit'
  <2>1. /\ \A p, q \in listed \cup target : p[1] = q[1] => p = q
        /\ listed \cap target = {}
    BY DEF NodeInv, RowsFit
  <2>2. DOMAIN rows' = {}
    BY <1>2a, NoRows
  <2> QED
    BY <1>2d, <1>10, <2>1, <2>2 DEF RowsFit
<1>12. DoomedFits'
  <2> SUFFICES ASSUME NEW i \in doomed
               PROVE  i <= Len(results') /\ results'[i].state = "ERROR"
    <3>1. doomed' = doomed
      OBVIOUS
    <3>2. ASSUME NEW i \in doomed
          PROVE  /\ i <= Len(results') + 1 /\ i # Len(results') + 1
                 /\ results'[i].state = "ERROR"
      <4>1. i \in {1, 2} /\ i <= Len(results') /\ results'[i].state = "ERROR"
        BY SuiteTypes
      <4> QED
        BY <1>3, <4>1
    <3> QED
      BY <3>1, <3>2 DEF DoomedFits
  <2>1. i <= Len(results) + 1 /\ i \in {1, 2}
    BY SuiteTypes DEF NodeInv, DoomedFits
  <2>2. CASE i <= Len(results)
    <3>1. results[i].state = "ERROR"
      BY <2>2 DEF NodeInv, DoomedFits
    <3>2. i \in 1 .. Len(results) /\ Len(results) + 1 = Len(results')
      BY <1>3, <2>1, <2>2
    <3>3. results'[i] = results[i]
      BY <1>2, <3>2
    <3> QED
      BY <1>3, <2>1, <2>2, <3>1, <3>3
  <2>3. CASE i = Len(results) + 1
    <3>1. HasError \/ (pc = "pod" /\ call = "error")
      BY <2>3 DEF NodeInv, DoomedFits
    <3>2. results'[i].state = state /\ i = Len(results')
      BY <1>2, <2>3
    <3>3. state = "ERROR"
      BY <3>1 DEF EndsWell
    <3> QED
      BY <1>3, <2>1, <3>2, <3>3
  <2>4. i <= Len(results) \/ i = Len(results) + 1
    BY <1>3, <2>1
  <2> QED
    BY <2>2, <2>3, <2>4
<1> QED
  BY <1>4, <1>5, <1>6, <1>7, <1>9, <1>11, <1>12 DEF NodeInv

\* "node os info" begins, or ends at once.
LEMMA ListsNodesKeeps == ASSUME NodeInv, ListsNodes PROVE NodeInv'
<1>1. pc = "os" /\ UNCHANGED <<setVars, doomed>> /\ call = "idle" /\ target = {} /\ rows = <<>>
  BY DEF ListsNodes, NodeInv, PlaceFits
<1>2. CASE unread' = Nodes /\ pc' = "node" /\ UNCHANGED <<rows, results>>
  <2> USE DEF setVars, clusterVars, callVars
  <2>1. TypeOK'
    BY <1>1, <1>2 DEF NodeInv, TypeOK, DaemonSetsTypeOK
  <2>2. PlaceFits' /\ SteadyFits'
    BY <1>1, <1>2 DEF NodeInv, PlaceFits, SteadyFits
  <2>3. PodsFit'
    BY <1>1, <1>2 DEF NodeInv, PodsFit, RolledOut, Waited, HavePods
  <2>4. ListFits'
    BY <1>1, <1>2 DEF NodeInv, ListFits, InventoryComplete, Passed
  <2>5. RowsFit'
    BY <1>1, <1>2 DEF NodeInv, RowsFit, OneRowPerNode
  <2>6. DoomedFits'
    BY <1>1, <1>2 DEF NodeInv, DoomedFits, HasError
  <2> QED
    BY <2>1, <2>2, <2>3, <2>4, <2>5, <2>6 DEF NodeInv
<1>3. CASE Reports("ERROR", <<>>, "disk") /\ UNCHANGED unread
  BY <1>1, <1>3, NoRows, ReportKeeps DEF EndsCase, setVars, callVars
<1> QED
  BY <1>2, <1>3 DEF ListsNodes

\* Either case ends with what its rows say.
LEMMA CollectedKeeps == ASSUME NodeInv, NodesCollected \/ PodsCollected PROVE NodeInv'
<1>1. State(rows) \in {"PASS", "ERROR"} /\ (State(rows) = "PASS" => ~HasError)
  BY DEF State, HasError
<1>2. CASE NodesCollected
  <2>1. /\ pc = "node" /\ Reports(State(rows), rows, "disk")
        /\ UNCHANGED <<setVars, unread, doomed>>
    BY <1>2 DEF NodesCollected
  <2>2. call = "idle" /\ target = {}
    BY <2>1 DEF NodeInv, PlaceFits
  <2>3. State(rows) = "PASS" => EndsWell(rows)
    BY <1>1, <2>1, <2>2 DEF EndsWell
  <2> QED
    BY <1>1, <2>1, <2>2, <2>3, OwnRows, ReportKeeps DEF EndsCase, setVars, callVars
<1>3. CASE PodsCollected
  <2>1. /\ pc = "pod" /\ call = "idle" /\ listed = {} /\ Reports(State(rows), rows, "done")
        /\ UNCHANGED <<setVars, unread, doomed>>
    BY <1>3 DEF PodsCollected
  <2>2. target = {}
    BY <2>1 DEF NodeInv, PlaceFits
  <2>3. State(rows) = "PASS" => EndsWell(rows)
    BY <1>1, <2>1, <2>2 DEF EndsWell
  <2> QED
    BY <1>1, <2>1, <2>2, <2>3, OwnRows, ReportKeeps DEF EndsCase, setVars, callVars
<1> QED
  BY <1>2, <1>3

\* A row takes nothing away from the others.
LEMMA RowAdds ==
  ASSUME NodeInv, NEW n \in Nodes, ~InRows(n), NEW err \in BOOLEAN, AddsRow(n, err)
  PROVE  /\ rows' \in Rows
         /\ \A k : InRows(k)' <=> InRows(k) \/ k = n
         /\ (HasError \/ err) => HasError'
         /\ \A i, j \in DOMAIN rows' : i # j => rows'[i].node # rows'[j].node
<1>1. /\ rows' \in Rows
      /\ DOMAIN rows' = DOMAIN rows \cup {Len(rows) + 1} /\ Len(rows) + 1 \notin DOMAIN rows
      /\ \A i \in DOMAIN rows : rows'[i] = rows[i]
      /\ rows'[Len(rows) + 1] = [node |-> n, err |-> err]
  BY SuiteTypes, RowIs
<1> DEFINE last == Len(rows) + 1
<1>2. /\ DOMAIN rows' = DOMAIN rows \cup {last} /\ last \notin DOMAIN rows
      /\ \A i \in DOMAIN rows : rows'[i] = rows[i]
      /\ rows'[last].node = n /\ rows'[last].err = err
  BY <1>1
<1> HIDE DEF last
<1>3. \A i \in DOMAIN rows : rows[i].node # n
  BY DEF InRows
<1>4. \A i, j \in DOMAIN rows : i # j => rows[i].node # rows[j].node
  BY DEF NodeInv, RowsFit
<1>5. \A i, j \in DOMAIN rows' : i # j => rows'[i].node # rows'[j].node
  BY <1>2, <1>3, <1>4
<1>6. \A k : InRows(k)' <=> InRows(k) \/ k = n
  BY <1>2 DEF InRows
<1>7. (HasError \/ err) => HasError'
  BY <1>2 DEF HasError
<1> QED
  BY <1>1, <1>5, <1>6, <1>7

\* A row of "node os info".
LEMMA CollectsNodeKeeps == ASSUME NodeInv, CollectsNode PROVE NodeInv'
<1> DEFINE i0 == Len(results) + 1
<1>1. pc = "node" /\ UNCHANGED <<setVars, pc, results>>
  BY DEF CollectsNode
<1>2. PICK n \in unread : /\ unread' = unread \ {n}
                          /\ \/ ~cancelled /\ AddsRow(n, FALSE)
                             \/ AddsRow(n, TRUE)
  BY DEF CollectsNode
<1>3. PICK err \in BOOLEAN : AddsRow(n, err) /\ (cancelled => err)
  BY <1>2
<1>4. n \in Nodes /\ ~InRows(n)
  BY <1>1, SuiteTypes DEF NodeInv, RowsFit, InRows
<1>5. /\ rows' \in Rows
      /\ \A k : InRows(k)' <=> InRows(k) \/ k = n
      /\ (HasError \/ err) => HasError'
      /\ \A i, j \in DOMAIN rows' : i # j => rows'[i].node # rows'[j].node
  BY <1>3, <1>4, RowAdds
<1>6. Len(results) = 0 /\ i0 = 1
  BY <1>1 DEF NodeInv, PlaceFits
<1> HIDE DEF i0
<1>7. doomed' = IF cancelled THEN doomed \cup {i0} ELSE doomed
  BY DEF CollectsNode, Doomed, i0
<1> USE DEF setVars, clusterVars, callVars
<1>8. TypeOK'
  <2>1. unread' \subseteq Nodes /\ doomed' \subseteq {1, 2}
    BY <1>2, <1>6, <1>7, SuiteTypes
  <2>2. DaemonSetsTypeOK'
    BY <1>1, SuiteTypes DEF DaemonSetsTypeOK
  <2> QED
    BY <1>1, <1>5, <2>1, <2>2, SuiteTypes DEF TypeOK, Rows, Row, Results, Result
<1>9. PlaceFits' /\ SteadyFits'
  BY <1>1 DEF NodeInv, PlaceFits, SteadyFits
<1>10. PodsFit'
  BY <1>1 DEF NodeInv, PodsFit, RolledOut, Waited, HavePods
<1>11. ListFits'
  BY <1>1 DEF NodeInv, ListFits, InventoryComplete, Passed
<1>12. RowsFit'
  <2>1. \A i \in DOMAIN rows' : rows'[i].node \notin unread'
    <3>1. \A k : InRows(k) => k \notin unread
      BY <1>1 DEF NodeInv, RowsFit, InRows
    <3>2. \A k : InRows(k)' => k \notin unread'
      BY <1>2, <1>5, <3>1
    <3> QED
      BY <3>2 DEF InRows
  <2>2. /\ \A p, q \in listed \cup target : p[1] = q[1] => p = q
        /\ listed \cap target = {} /\ OneRowPerNode'
    BY <1>1 DEF NodeInv, RowsFit, OneRowPerNode
  <2> QED
    BY <1>1, <1>5, <2>1, <2>2 DEF RowsFit
<1>13. DoomedFits'
  <2> SUFFICES ASSUME NEW i \in doomed'
               PROVE  /\ i <= Len(results) + 1
                      /\ i <= Len(results) => results[i].state = "ERROR"
                      /\ i = Len(results) + 1 => HasError'
    BY <1>1 DEF DoomedFits
  <2>1. CASE i \in doomed
    <3>1. /\ i <= Len(results) + 1
          /\ i <= Len(results) => results[i].state = "ERROR"
          /\ i = Len(results) + 1 => HasError
      BY <1>1, <2>1 DEF NodeInv, DoomedFits
    <3> QED
      BY <1>5, <3>1
  <2>2. CASE cancelled /\ i = i0
    <3>1. HasError'
      BY <1>3, <1>5, <2>2
    <3>2. i <= Len(results) + 1 /\ ~(i <= Len(results))
      BY <1>6, <2>2
    <3> QED
      BY <3>1, <3>2
  <2> QED
    BY <1>7, <2>1, <2>2
<1> QED
  BY <1>8, <1>9, <1>10, <1>11, <1>12, <1>13 DEF NodeInv

\* While no case ends, what the cases have is what they had.
LEMMA OneRowStays == ASSUME OneRowPerNode, UNCHANGED results PROVE OneRowPerNode'
  BY DEF OneRowPerNode

\* "node disk info" begins, or has its pods.
LEMMA DiskKeeps ==
  ASSUME NodeInv,
         \/ pc = "disk" /\ pc' = "daemon set" /\ call' = "posting"
         \/ pc = "daemon set" /\ call = "ok" /\ pc' = "pod" /\ call' = "idle",
         UNCHANGED <<clusterVars, listed, target, timer, cancelled, unread, rows, results, doomed>>
  PROVE  NodeInv'
<1> USE DEF clusterVars
<1>1. rows = <<>> /\ DOMAIN rows = {} /\ target = {}
  BY NoRows DEF NodeInv, PlaceFits
<1>2. TypeOK'
  BY SuiteTypes DEF TypeOK, DaemonSetsTypeOK, Rows, Row, Results, Result
<1>3. PlaceFits'
  BY <1>1 DEF NodeInv, PlaceFits
<1>4. SteadyFits'
  BY DEF NodeInv, SteadyFits
<1>5. PodsFit'
  BY DEF NodeInv, PodsFit, RolledOut, Waited, HavePods
<1>6. ListFits'
  BY DEF NodeInv, ListFits, InRows, InventoryComplete, Passed
<1>7. RowsFit'
  <2>1. OneRowPerNode'
    BY OneRowStays DEF NodeInv, RowsFit
  <2>2. /\ \A p, q \in listed \cup target : p[1] = q[1] => p = q
        /\ listed \cap target = {}
    BY DEF NodeInv, RowsFit
  <2>3. DOMAIN rows' = {}
    BY <1>1
  <2> QED
    BY <2>1, <2>2, <2>3 DEF RowsFit
<1>8. DoomedFits'
  BY DEF NodeInv, DoomedFits, HasError
<1> QED
  BY <1>2, <1>3, <1>4, <1>5, <1>6, <1>7, <1>8 DEF NodeInv

\* Options and namespace: the daemon set is made next, or the case is over.
LEMMA DiskStartsKeeps == ASSUME NodeInv, DiskStarts PROVE NodeInv'
<1>1. /\ pc = "disk" /\ call = "idle" /\ target = {}
      /\ UNCHANGED <<clusterVars, listed, target, timer, cancelled, unread, doomed>>
  BY DEF DiskStarts, NodeInv, PlaceFits
<1>2. CASE pc' = "daemon set" /\ call' = "posting" /\ UNCHANGED <<rows, results>>
  BY <1>1, <1>2, DiskKeeps
<1>3. CASE Reports("ERROR", <<>>, "done") /\ UNCHANGED call
  BY <1>1, <1>3, NoRows, ReportKeeps DEF EndsCase
<1> QED
  BY <1>2, <1>3 DEF DiskStarts

\* With the pods of the daemon set, or without.
LEMMA DaemonSetReturnsKeeps == ASSUME NodeInv, DaemonSetReturns PROVE NodeInv'
<1>1. /\ pc = "daemon set" /\ target = {} /\ call' = "idle"
      /\ UNCHANGED <<clusterVars, listed, target, timer, cancelled, unread, doomed>>
  BY DEF DaemonSetReturns, NodeInv, PlaceFits
<1>2. CASE call = "ok" /\ pc' = "pod" /\ UNCHANGED <<rows, results>>
  BY <1>1, <1>2, DiskKeeps
<1>3. CASE call = "error" /\ Reports("ERROR", <<>>, "done")
  BY <1>1, <1>3, NoRows, ReportKeeps DEF EndsCase
<1> QED
  BY <1>2, <1>3 DEF DaemonSetReturns

\* The next pod.
LEMMA ExecutesKeeps == ASSUME NodeInv, Executes PROVE NodeInv'
<1> DEFINE i0 == Len(results) + 1
<1>1. /\ pc = "pod" /\ call = "idle" /\ target = {}
      /\ UNCHANGED <<clusterVars, timer, cancelled, pc, unread, rows, results>>
  BY DEF Executes, NodeInv, PlaceFits
<1>2. PICK p \in listed : /\ OpensStream(p) /\ listed' = listed \ {p}
                          /\ Doomed(cancelled \/ ~Alive(p))
  BY DEF Executes
<1>3. target' = {p} /\ p \in Pods /\ call' \in {"exec", "error"}
  BY <1>2, SuiteTypes DEF OpensStream, DaemonSetsTypeOK
<1>4. Len(results) = 1 /\ i0 = 2
  <2>1. Len(results) = 1
    BY <1>1 DEF NodeInv, PlaceFits
  <2> QED
    BY <2>1
<1> HIDE DEF i0
<1>5. /\ doomed' \subseteq doomed \cup {i0}
      /\ i0 \in doomed' => i0 \in doomed \/ call' = "error"
  BY <1>2 DEF Doomed, OpensStream, i0
<1>6. listed' \cup target' = listed \cup target /\ listed' \cap target' = {}
  BY <1>1, <1>2, <1>3
<1> USE DEF clusterVars
<1>7. TypeOK'
  <2>1. listed' \subseteq Pods /\ target' \subseteq Pods /\ doomed' \subseteq {1, 2}
    BY <1>2, <1>3, <1>4, <1>5, SuiteTypes DEF DaemonSetsTypeOK
  <2> QED
    BY <1>1, <1>3, <2>1, SuiteTypes DEF TypeOK, DaemonSetsTypeOK, Rows, Row, Results, Result
<1>8. PlaceFits'
  BY <1>1, <1>3 DEF NodeInv, PlaceFits
<1>9. SteadyFits'
  BY <1>1, <1>3 DEF NodeInv, SteadyFits
<1>10. PodsFit'
  BY <1>1 DEF NodeInv, PodsFit, RolledOut, Waited, HavePods
<1>11. ListFits'
  <2>1. \A n \in steady : InRows(n) \/ \E q \in listed \cup target : q[1] = n
    BY <1>1 DEF NodeInv, ListFits
  <2>2. \A n : InRows(n)' <=> InRows(n)
    BY <1>1 DEF InRows
  <2>3. InventoryComplete'
    BY <1>1 DEF NodeInv, ListFits, InventoryComplete, Passed
  <2> QED
    BY <1>1, <1>6, <2>1, <2>2, <2>3 DEF ListFits
<1>12. RowsFit'
  BY <1>1, <1>6 DEF NodeInv, RowsFit, OneRowPerNode
<1>13. DoomedFits'
  <2> SUFFICES ASSUME NEW i \in doomed'
               PROVE  /\ i <= Len(results) + 1
                      /\ i <= Len(results) => results[i].state = "ERROR"
                      /\ i = Len(results) + 1 => HasError \/ call' = "error"
    BY <1>1 DEF DoomedFits, HasError
  <2>1. CASE i \in doomed
    <3>1. call # "error"
      BY <1>1
    <3> QED
      BY <2>1, <3>1 DEF NodeInv, DoomedFits
  <2>2. CASE i \notin doomed
    <3>1. i = i0 /\ call' = "error"
      BY <1>5, <2>2
    <3>2. i <= Len(results) + 1 /\ ~(i <= Len(results))
      BY <1>4, <3>1
    <3> QED
      BY <3>1, <3>2
  <2> QED
    BY <2>1, <2>2
<1> QED
  BY <1>7, <1>8, <1>9, <1>10, <1>11, <1>12, <1>13 DEF NodeInv

\* What the pod said, or that it said nothing.
LEMMA CommandReturnsKeeps == ASSUME NodeInv, CommandReturns PROVE NodeInv'
<1>1. /\ pc = "pod" /\ call \in {"ok", "error"} /\ call' = "idle" /\ target' = {}
      /\ UNCHANGED <<clusterVars, listed, timer, cancelled, pc, unread, results, doomed>>
  BY DEF CommandReturns
<1>2. PICK p \in target : AddsRow(p[1], call = "error")
  BY DEF CommandReturns
<1> DEFINE err == call = "error"
           n == p[1]
<1>3. target = {p} /\ p \in Pods
  BY <1>1, <1>2 DEF NodeInv, PlaceFits
<1>4. n \in Nodes /\ ~InRows(n)
  BY <1>1, <1>3 DEF NodeInv, RowsFit, InRows, Pods
<1>5. err \in BOOLEAN /\ AddsRow(n, err)
  BY <1>2
<1> HIDE DEF err, n
<1>6. /\ rows' \in Rows
      /\ \A k : InRows(k)' <=> InRows(k) \/ k = n
      /\ (HasError \/ err) => HasError'
      /\ \A i, j \in DOMAIN rows' : i # j => rows'[i].node # rows'[j].node
  BY <1>4, <1>5, RowAdds
<1> USE DEF clusterVars
<1>7. TypeOK'
  BY <1>1, <1>6, SuiteTypes DEF TypeOK, DaemonSetsTypeOK, Rows, Row, Results, Result
<1>8. PlaceFits'
  BY <1>1 DEF NodeInv, PlaceFits
<1>9. SteadyFits'
  BY <1>1 DEF NodeInv, SteadyFits
<1>10. PodsFit'
  BY <1>1 DEF NodeInv, PodsFit, RolledOut, Waited, HavePods
<1>11. ListFits'
  <2>1. \A k \in steady : InRows(k) \/ \E q \in listed \cup target : q[1] = k
    BY <1>1 DEF NodeInv, ListFits
  <2>2. \A k \in steady : InRows(k)' \/ \E q \in listed : q[1] = k
    BY <1>3, <1>6, <2>1 DEF n
  <2>3. InventoryComplete'
    BY <1>1 DEF NodeInv, ListFits, InventoryComplete, Passed
  <2> QED
    BY <1>1, <2>2, <2>3 DEF ListFits
<1>12. RowsFit'
  <2>1. \A p1, p2 \in listed \cup target : p1[1] = p2[1] => p1 = p2
    BY DEF NodeInv, RowsFit
  <2>2. \A k : InRows(k)' => \A q \in listed : k # q[1]
    <3>1. \A k : InRows(k) => \A q \in listed : k # q[1]
      BY <1>1 DEF NodeInv, RowsFit, InRows
    <3>2. \A q \in listed : n # q[1]
      <4>1. p \notin listed
        BY <1>3 DEF NodeInv, RowsFit
      <4> QED
        BY <1>3, <2>1, <4>1 DEF n
    <3> QED
      BY <1>6, <3>1, <3>2
  <2>3. \A i \in DOMAIN rows' : \A q \in listed' \cup target' : rows'[i].node # q[1]
    BY <1>1, <2>2 DEF InRows
  <2>4. OneRowPerNode'
    BY <1>1 DEF NodeInv, RowsFit, OneRowPerNode
  <2> QED
    BY <1>1, <1>6, <2>1, <2>3, <2>4 DEF RowsFit
<1>13. DoomedFits'
  <2>1. (pc = "pod" /\ call = "error") => HasError'
    BY <1>6 DEF err
  <2> QED
    BY <1>1, <1>6, <2>1 DEF NodeInv, DoomedFits
<1> QED
  BY <1>7, <1>8, <1>9, <1>10, <1>11, <1>12, <1>13 DEF NodeInv

-----------------------------------------------------------------------------
(* The theorems.                                                           *)

\* The invariant holds whatever the cluster does, and with any set of nodes.
THEOREM NodeInvAlways == Spec => []NodeInv
<1>1. NodeInv /\ [Next]_vars => NodeInv'
  <2> SUFFICES ASSUME NodeInv, [Next]_vars PROVE NodeInv'
    OBVIOUS
  <2>1. CASE SuiteStep
    BY <2>1, ListsNodesKeeps, CollectsNodeKeeps, CollectedKeeps, DiskStartsKeeps,
       DaemonSetReturnsKeeps, ExecutesKeeps, CommandReturnsKeeps DEF SuiteStep
  <2>2. CASE (Library \/ TimeIsUp \/ Succeeds \/ CommandFails) /\ UNCHANGED suiteVars
    BY <2>2, PostKeeps, ListKeeps, CallKeeps DEF Library
  <2>3. CASE Cluster(Signal) \/ Cluster(DaemonStep)
    BY <2>3, CallKeeps, ClusterKeeps DEF Cluster
  <2>4. CASE UNCHANGED vars
    <3> USE <2>4 DEF vars, setVars, clusterVars, callVars, suiteVars
    <3>1. TypeOK' /\ PlaceFits' /\ SteadyFits'
      BY DEF NodeInv, TypeOK, DaemonSetsTypeOK, PlaceFits, SteadyFits
    <3>2. PodsFit' /\ DoomedFits'
      BY DEF NodeInv, PodsFit, RolledOut, Waited, HavePods, DoomedFits, HasError
    <3>3. ListFits'
      BY DEF NodeInv, ListFits, InRows, InventoryComplete, Passed
    <3>4. RowsFit'
      BY DEF NodeInv, RowsFit, OneRowPerNode
    <3> QED
      BY <3>1, <3>2, <3>3, <3>4 DEF NodeInv
  <2> QED
    BY <2>1, <2>2, <2>3, <2>4 DEF Next, Finished
<1> QED
  BY NodeInit, <1>1, PTL DEF Spec

\* All variables of the suite, of the library and of the cluster keep their
\* types.
THEOREM NodeTypes == Spec => []TypeOK
<1>1. NodeInv => TypeOK
  BY DEF NodeInv
<1> QED
  BY <1>1, NodeInvAlways, PTL

\* A disk case that passes has every steady node, though the status of the
\* daemon set tells of the past.
THEOREM CompleteInventory == Spec => []InventoryComplete
<1>1. NodeInv => InventoryComplete
  BY DEF NodeInv, ListFits
<1> QED
  BY <1>1, NodeInvAlways, PTL

\* No node is reported twice.
THEOREM OneRowAlways == Spec => []OneRowPerNode
<1>1. NodeInv => OneRowPerNode
  BY DEF NodeInv, RowsFit
<1> QED
  BY <1>1, NodeInvAlways, PTL

\* A case with a row that could not be read does not pass.
THEOREM PassAlwaysRead == Spec => []PassIsRead
<1>1. NodeInv => PassIsRead
  <2> SUFFICES ASSUME NodeInv, NEW i \in doomed, Passed(i) PROVE FALSE
    BY DEF PassIsRead
  <2>1. i \in DOMAIN results /\ results[i].state = "PASS"
    BY DEF Passed
  <2>2. Len(results) \in Nat /\ DOMAIN results = 1 .. Len(results)
    BY SuiteTypes, SequenceIs DEF Results
  <2>3. i <= Len(results)
    BY <2>1, <2>2
  <2>4. results[i].state = "ERROR"
    BY <2>3 DEF NodeInv, DoomedFits
  <2> QED
    BY <2>1, <2>4
<1> QED
  BY <1>1, NodeInvAlways, PTL

=============================================================================
