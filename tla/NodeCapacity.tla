---------------------------- MODULE NodeCapacity ----------------------------
(***************************************************************************)
(* The node capacity suite, internal/suites/nodes/capacity.go: a case that *)
(* asks the API server about each node, and a case that asks each node, by *)
(* a command in its pod of a daemon set.  Both collect a row per node, and *)
(* a row that could not be had does not end a case.                        *)
(***************************************************************************)
EXTENDS DaemonSets, Sequences

VARIABLES
  pc,       \* what RunE does next
  unread,   \* nodes listed whose pods have not been counted yet
  rows,     \* of the case under way: node, and whether the row has an error
  results,  \* of the cases: state, and the nodes of the rows
  doomed    \* cases with a row that nothing could have been read for

suiteVars == <<pc, unread, rows, results, doomed>>
vars == <<setVars, suiteVars>>

Init ==
  /\ DaemonSetsInit
  /\ pc = "os" /\ unread = {} /\ rows = <<>> /\ results = <<>> /\ doomed = {}

\* FinalizeState: by the errors of all rows.
\* Variant: it goes by the last row.
ByLast(all) == IF all # <<>> /\ all[Len(all)].err THEN "ERROR" ELSE "PASS"

State(all) == IF \E i \in DOMAIN all : all[i].err THEN "ERROR" ELSE "PASS"

Reports(state, all, next) ==
  /\ results' = Append(results, [state |-> state, nodes |-> [i \in DOMAIN all |-> all[i].node]])
  /\ rows' = <<>>
  /\ pc' = next

AddsRow(n, err) == rows' = Append(rows, [node |-> n, err |-> err])

Doomed(isSo) == doomed' = IF isSo THEN doomed \cup {Len(results) + 1} ELSE doomed

-----------------------------------------------------------------------------
(* "node os info".                                                         *)

ListsNodes ==
  /\ pc = "os"
  /\ \/ ~cancelled /\ unread' = Nodes /\ pc' = "node" /\ UNCHANGED <<rows, results>>
     \/ CallError /\ Reports("ERROR", <<>>, "disk") /\ UNCHANGED unread
  /\ UNCHANGED <<setVars, doomed>>

\* The running pods of a node are counted, and what its status says is
\* copied, or the row is the error.
CollectsNode ==
  /\ pc = "node"
  /\ unread # {}
  /\ LET n == CHOOSE k \in unread : TRUE IN
       /\ unread' = unread \ {n}
       /\ \/ ~cancelled /\ AddsRow(n, FALSE)
          \/ CallError /\ AddsRow(n, TRUE)
  /\ Doomed(cancelled)
  /\ UNCHANGED <<setVars, pc, results>>

NodesCollected ==
  /\ pc = "node" /\ unread = {}
  /\ Reports(State(rows), rows, "disk")
  /\ UNCHANGED <<setVars, unread, doomed>>

-----------------------------------------------------------------------------
(* "node disk info", whatever became of the first case.                    *)

\* Options and EnsureNamespace.
DiskStarts ==
  /\ pc = "disk"
  /\ \/ ~cancelled /\ pc' = "daemon set" /\ call' = "posting" /\ UNCHANGED <<rows, results>>
     \/ CallError /\ Reports("ERROR", <<>>, "done") /\ UNCHANGED call
  /\ UNCHANGED <<clusterVars, listed, target, timer, cancelled, unread, doomed>>

DaemonSetReturns ==
  /\ pc = "daemon set"
  /\ \/ call = "ok" /\ pc' = "pod" /\ UNCHANGED <<rows, results>>
     \/ call = "error" /\ Reports("ERROR", <<>>, "done")
  /\ call' = "idle"
  /\ UNCHANGED <<clusterVars, listed, target, timer, cancelled, unread, doomed>>

\* lsblk in the next pod of the list, which was made some time ago.
Executes ==
  /\ pc = "pod" /\ call = "idle"
  /\ \E p \in listed :
       /\ OpensStream(p)
       /\ listed' = listed \ {p}
       /\ Doomed(cancelled \/ ~Alive(p))
  /\ UNCHANGED <<clusterVars, timer, cancelled, pc, unread, rows, results>>

CommandReturns ==
  /\ pc = "pod" /\ call \in {"ok", "error"}
  /\ \E p \in target : AddsRow(p[1], call = "error")
  /\ call' = "idle" /\ target' = {}
  /\ UNCHANGED <<clusterVars, listed, timer, cancelled, pc, unread, results, doomed>>

PodsCollected ==
  /\ pc = "pod" /\ call = "idle" /\ listed = {}
  /\ Reports(State(rows), rows, "done")
  /\ UNCHANGED <<setVars, unread, doomed>>

SuiteStep ==
  \/ ListsNodes \/ CollectsNode \/ NodesCollected
  \/ DiskStarts \/ DaemonSetReturns \/ Executes \/ CommandReturns \/ PodsCollected

\* After its return nothing in the cluster matters any more.
Cluster(step) == pc # "done" /\ step /\ UNCHANGED suiteVars

Finished == pc = "done" /\ UNCHANGED vars

Next ==
  \/ SuiteStep
  \/ (Library \/ TimeIsUp \/ Succeeds \/ CommandFails) /\ UNCHANGED suiteVars
  \/ Cluster(Signal) \/ Cluster(DaemonStep)
  \/ Finished

Spec == Init /\ [][Next]_vars

\* The goroutine runs, requests are answered, the timeout passes; the sleep
\* in a pod and the termination of a pod end.  A rollout need not end, nor a
\* command.
FairSpec ==
  /\ Spec
  /\ WF_vars(SuiteStep)
  /\ WF_vars(Library /\ UNCHANGED suiteVars)
  /\ WF_vars(TimeIsUp /\ UNCHANGED suiteVars)
  /\ \A n \in Nodes : WF_vars(Cluster(PodEnds(n)))

-----------------------------------------------------------------------------
\* Every variable keeps its type.
TypeOK ==
  /\ DaemonSetsTypeOK
  /\ pc \in {"os", "node", "disk", "daemon set", "pod", "done"}
  /\ unread \subseteq Nodes
  /\ rows \in Seq([node : Nodes, err : BOOLEAN])
  /\ results \in Seq([state : {"PASS", "ERROR"}, nodes : Seq(Nodes)])
  /\ doomed \subseteq {1, 2}

Passed(i) == i \in DOMAIN results /\ results[i].state = "PASS"

\* A disk case that passes has the disks of every node the daemon set was for
\* all the time and kept its pod on, though the status that ended the wait is
\* an old one, and one that nobody has written yet has no pods to wait for.
InventoryComplete ==
  Passed(2) => steady \subseteq {results[2].nodes[i] : i \in DOMAIN results[2].nodes}

\* A node is in a report once, though pods of earlier runs of the same suite
\* are still in the namespace.
OneRowPerNode ==
  \A k \in DOMAIN results : LET nodes == results[k].nodes IN
    \A i, j \in DOMAIN nodes : i # j => nodes[i] # nodes[j]

\* A case with a row for which nothing could be read, since the pod had gone
\* after it was listed or the run was interrupted, does not pass for the rows
\* that could.
PassIsRead == \A i \in doomed : ~Passed(i)

\* RunE returns with both cases, though the rollout never ends and commands
\* hang.
NodesEnd == <>(pc = "done" /\ Len(results) = 2)
=============================================================================
