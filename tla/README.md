# TLA+ models of hvperf

`hvperf` (`harvester/harvester-perf`) runs performance suites against a Harvester
cluster: a command line, a registry of suites, a library of Kubernetes waits, and
the suites, each of which makes objects, watches them, measures and cleans up.
The program is one process with one goroutine that matters; what is hard is
everything it meets on the way: a cluster that changes between two requests, watches
that see each object at another moment, deadlines and signals that race with
answers, requests whose answers are lost, deletions that are not over when the next
run begins.

Paths below are relative to `src/`.

## Inventory

| Component | Source | State it keeps | Operations | Interacts with | Modelled in |
|---|---|---|---|---|---|
| density suite | `internal/suites/density` | confirmed VMIs, batch, capacity stop, run error, case results | `RunE`, `warmup`, `createVMIsInBatches`, `countRunningVMIs`, `cleanup`, `cleanupRunResult` | VMI library, health gate, Prometheus, API server | `Density`, `CapacityProbe` |
| VMI library | `pkg/resource` | names still pending, API errors seen, deadline | `CreateVMIs`, `WaitRunning`, probes of launcher pods | watch and API server | `Resource`, `VMICluster` |
| health gate | `density.go`, `pkg/k8s/etcd.go` | baseline of restarts and containers | `captureBaseline`, `checkClusterHealth`, `EnsureEtcdReady` | API server | `HealthGate`, `HealthHistory` |
| run command | `cmd/run.go`, `main.go` | results so far, options per suite | `runCmd.RunE`, `runSuites`, deferred clean-up, `outRun`, signals | registry, options, suites | `RunCmd` |
| registry | `pkg/suites/registry.go` | registered suites | `Find` | run command | `RunCmd` |
| namespace | `pkg/k8s/ns.go` | none | `EnsureNamespace` | API server, the run before | `RunCmd` |
| options | `pkg/suites/options.go`, `internal/suites/options` | none | `Canonicalize`, `Merge`, `FromOptions` | run command, suites | `Options`, `RunCmd` |
| results | `pkg/suites/result.go` | case state | `FinalizeState`, `With*` | suites | each suite's module (its cases) |
| jobs, daemon sets, claims | `pkg/k8s/{job,daemonset,pvc,exec}.go` | none | `EnsureJobReady`, `EnsureJobCompleted`, `EnsureDaemonSetReady`, `CreatePVC`, `WaitPVCBound`, `ExecPod`, `CopyToJobPod` | API server, job, daemon set and TTL controllers | `Jobs`, `KBench`, `DaemonSets` |
| pod monitor | `pkg/k8s/monitor.go` | time of the Apply | `EnsurePodMonitor`, `MonitoringEnabled` | Prometheus targets | `PodMonitor` |
| storage suite | `internal/suites/storage` | case results | `RunE`, `kbenchPodPVC`, `monitoring` | jobs, claims, Prometheus | `KBench` |
| etcd benchmark suite | `internal/suites/etcd` | shared options, case results | `RunE`, four cases of commands, `monitoring` | jobs, pod monitor, Prometheus | `EtcdBench` |
| network suite | `internal/suites/network` | case results | `RunE`, `iperf3`, `netperf` | jobs | `Network` |
| node capacity suite | `internal/suites/nodes` | rows, case results | `RunE`, `execNodeOSInfo`, `execNodeDiskInfo` | API server, daemon sets | `NodeCapacity` |
| footprint suite | `internal/suites/resourcefootprint` | case results | `RunE` (reads only) | API server | `RunCmd` (as a suite without a namespace) |
| tools | `cmd/tools.go` | files of the tools directory | install, list, uninstall | file system, the command before | `ToolInstall` |
| printing | `cmd/{report,list,version}.go`, `pkg/suites/{marshal,progress}.go` | none | formatting | standard output | not modelled |

What makes each of them correct, and what is hard about it:

* **Density suite.** The number it reports is a capacity of the cluster: confirmed
  by a moment at which all VMIs ran, never above a limit, never the by-product of a
  signal, a lost request or the suite's own mistakes. The ramp has one verdict. What
  it made is gone at the end, or the report says otherwise. It ends.
* **VMI library.** `ErrStartupTimeout`, which the suite reads as "the cluster is
  full", is kept apart from failures although both reach it as errors of a watch.
* **Health gate.** Four requests at four moments make one verdict: no lasting fault
  passes, and no healthy cluster is called full.
* **Run command and options.** Everything is checked before anything is made, in
  whatever spelling it is written; a suite works with what the user wrote for it and no
  other; every suite reports; the namespace is there while a suite
  works and goes afterwards, also when runs follow each other closely.
* **Jobs, claims, pod monitor.** A wait ends with the object in the state the caller
  relies on, whichever of its states the watch skipped, and never with an object of
  somebody else; it ends also when that state cannot come any more.
* **Storage, etcd and network suites.** A case that passes was measured: on its own
  pods, which were there until the end, with the load it was told, with all of its log. A
  case that fails keeps what it has. All cases are reported, and the suite ends though
  commands hang.

* **Node capacity.** A case that passes has a row for every node it was for, each once,
  though the status it waited for tells of the past and the pods it listed may be gone.
* **Tools.** An install that reports no error has installed everything, whatever an
  interrupted command left; an entry that fails costs no other one; nothing is removed
  without a yes.

The `hazards` of `PROJECT.json` list these at their lines; the three that no property
covers say why.

## Modules

`VMICluster` is external: KubeVirt and the API server as far as the run's VMIs are
concerned. `present`, `running`, `failed`, `deleting` are what a List with the run
label would return; `aged` are the VMIs deleted more than 30 s ago, `inFlight`
the Creates that nobody waits for any more and that may still land. The cluster has a
`Capacity`, may let VMIs fail, may have them deleted by others.

`Resource` is `pkg/resource`. A call is `creating`, `waiting` or `failing` (a Failed
VMI was seen and its launcher pod is being probed) until it has an outcome. `timer`
is the deadline of the derived context, `cancelled` the command's. An event of the
watch is observed at the moment it happens: this loses nothing, because all a
late delivery can do is change `waitFor` later.

`Density` is `internal/suites/density`. `pc` names the next step of `RunE`; an action
runs to the next point at which cluster, deadline or signal can interfere. `stop`
and `runErr` are the two errors `createVMIsInBatches` returns, by kind; `cases` the
state of each case result. The health gate appears with its three outcomes.

`CapacityProbe` is the abstract specification of the suite: it confirms batches within
the limits and ends with one verdict. `Density` implements it with `maxReady` for
`max` and the verdict read from the two errors (`ImplementsProbe`).

`HealthGate` opens the gate: `captureBaseline` and `checkClusterHealth` with one action
per request, nodes that turn unfit, pods that turn not ready, restart, go and come
back under their name with a new uid. `HealthHistory` adds a bystander's notes, from
which the properties are stated.

`Options` has the functions of `pkg/suites/options.go`: `Fits` is the absence of an error
of `Canonicalize`, `Canonicalized` its result, `Merge` and `OfStruct` what a suite does
with the layers. A key a user wrote is a pair of its letters and its look, so that two
spellings of one key, which the code refuses, are two keys; values are scalars or
options again, as deep as the schemas nest.

`RunCmd` is the run command with registry, options and `EnsureNamespace`. A
configuration is a function from sections to such options, and `options` the struct of
the suite under way. The namespace has the phases of the cluster; runs follow each other
on one cluster, so a run can meet the Terminating namespace of the one before. What a suite
does in its namespace is `Works`. `CannotSetUp` is an error of
the clients, the `--config` file or the tools directory, before any effect. Only the first
argument of the command counts, as in the code.

`Jobs` is the library of jobs, shared by three suites: what the cluster does with a job
and its pod (`job`, `pod`, `collected`, all external but for the deadline, which the
library sets) and what the library is doing for the suite (`call`). `events` is what
the watch under way has still to deliver, so an event may be seen when it is no
longer true, and `Relists` is a watch that broke: what came and went in between is never
seen. A stream into a pod (`copy`, `exec`) ends with the pod, with the context, or with
its command, and a command may hang.

`KBench`, `EtcdBench` and `Network` are the suites on top, each with its own `pc` and
case results: `KBench` adds the claim and the log, `Network` the two jobs of a case
and the servers that listen, `EtcdBench` the options its cases share and the pod
monitor. `late` and `doomed` are bystander's notes: which cases began, or went on, when
nothing good could come of it. `PodMonitor` is `EnsurePodMonitor` against
Prometheus' targets and a clock counted in scrapes; it is checked as a part
of `EtcdBench`.

`DaemonSets` is `EnsureDaemonSetReady` and `ExecPod` against a cluster whose nodes turn
eligible or not and whose pods come, restart, are evicted and go; `status` is written by
a controller at moments of its own, and `listed` is the answer to one List. `number`
tells the pods of a node apart, and pod 0 is one of an earlier run in a namespace that
stays. `NodeCapacity` is the suite on top, with both of its cases; `steady` (nodes
eligible since the Create that kept their pod) and `doomed` (cases with a row for which
nothing could be read) are bystander's notes.

`ToolInstall` is `hvperf tool`: `install` goes through an archive entry by entry, a
file is opened (and what it had is gone), copied and closed, and after an error in an
entry the loop goes on; `uninstall` asks and removes. Commands follow each other in one
directory, each may be killed between two steps, and `files` says of which entry a file
is and whether it is whole.

`MC*` modules give the constants for TLC; the smaller modules get theirs from the
configuration. The modules whose names end in `Proofs` hold
the theorems. Names that a comment introduces with "Variant" are deviations a bug would
make, kept to see that each property notices.

## Runs

| Run | Bounds | What it shows |
|---|---|---|
| `density_faults` | capacity 4, batches of 2, `maxVMs` 3 | the last batch is cut, every request may fail or be answered late, VMIs may fail or be deleted by others, a signal at any time: all safety properties and the refinement |
| `density_live` | capacity 3, batches of 2, no limit | the cluster ends the ramp in its second batch: `RunE` returns, and a deleted VMI does not outlive the clean-up, though VMIs may never start and keep their finalizers |
| `density_timeout` | capacity 1, one VMI | violation: a failed VMI is reported as a startup timeout |
| `health_gate` | one node, an etcd and a Harvester pod, one replacement and one restart each | lasting faults stop the ramp, only real ones do, and a check ends whatever the cluster does |
| `run_all` | two runs, an exclusive suite and two others, four arguments, nine configurations, two namespaces | the properties of the run command and of the options; a run ends though its namespace stays Terminating |
| `run_maxvms` | one run | violation: `maxVMs` in a density block is refused |
| `run_back_to_back` | two runs | violation: a run gives up on a namespace that is gone |
| `kbench` | one job | the storage suite passes only what was measured, by a job that completed and with the whole log, and nothing that began after the signal; it ends with nothing assumed of the cluster |
| `etcd_bench` | one job, two etcd pods, range 2, timeout 4 scrapes | cases pass by all of their commands, run with their own load; the monitor's poll succeeds only when each pod has a scrape in a range that lies after the Apply; the suite ends |
| `network` | two cases, four jobs | each measurement has its own two pods, a failed case keeps its server, all cases are reported |
| `nodes` | two nodes, one with a pod of an earlier run, two pods of the daemon set per node | a passing disk case has every steady node, each once, and no row that could not be read; both cases are reported though the rollout never ends and commands hang |
| `tools` | three commands, an archive with a tool twice and one with a tool in a directory, one tool in both | an install without an error is whole, a bad entry costs no other one, and nothing goes without a yes, whatever was killed before |

Why the bounds are enough. In the ramp everything that happens more than once happens
a second time within two batches: VMIs of an earlier batch can fail during a later one, the
last batch can be cut, and with capacity 3 the second batch can be too large. A third
batch repeats the second. What the number and the verdict promise without `maxVMs` is
not run but proved, for every limit, 0 included. One warm-up and one deferred clean-up are all there is. In
the gate two services cover the two listings, with a check before and after a
fault, and one replacement and one restart tell the uid from the name. Two runs are
the least that follow each other, and a third meets nothing the second did not. `KBench`
and `EtcdBench` create one job. The seven cases of the network suite share nothing but the
namespace and the context, so two show what one may do to the next. The pod monitor
needs two pods for a count that is reached by the wrong ones, a range above 1 to tell
"after the Apply" from "a range after the Apply", and the timeout is the default, twice
the range. Two nodes are the least of which one can be steady while the other is not, and
a second pod of a node is another one than was listed. Three commands are an install
after an uninstall after an install; the archives share a tool, so that one command
meets the file of another, and a second entry of one name is the least that replaces. The
safety properties of all runs that pass are also proved, for all bounds.

### Fairness

`Density` assumes weak fairness of the suite's own steps, of the progress of a call
(requests return, deadlines pass) and of the 30 seconds after a deletion. That is the
Go scheduler, the timeouts in the code and the clock. Nothing is assumed of KubeVirt: a
VMI need not start, fail or lose a finalizer. `Termination` without `maxVMs` rests on
the finite capacity. `HealthGate` assumes its goroutine, that its requests return, and its 30
seconds. A List of etcd that fails is an action of its own (`EtcdListFails`) without
fairness: a poll of an etcd that never gets ready is ended by the timeout alone, and
`CheckEnds` rests on it. `RunCmd` assumes
its goroutine and the timeout of the namespace wait; `Signal`, `NextRun` and
the end of a namespace's deletion may never come. The suites on jobs assume their
goroutine, answers to requests and the timeouts of the waits. `KBench` needs no more: all
it does is requests and waits. `EtcdBench` and `Network` run commands that may hang and
copies without a deadline, and rest on the job controller to end a job, and with it
its pod, after `activeDeadlineSeconds`. Pods need not start, commands need not end,
Prometheus need not scrape. `NodeCapacity` assumes its goroutine, answers to requests,
the timeout of the wait, and that a pod's `sleep` (`activeDeadline`) and the termination
of a pod end: nothing else ends a command that hangs. A rollout need not end.
`ToolInstall` states no liveness: a download has no timeout.

### What disagrees with the code's own words

Three runs end in a violation, each of a sentence of the repository (`findings` quote
them): `ErrStartupTimeout` can hide a failed VMI; `maxVMs`, which the options of the
density suite have, is not in its schema, so that no configuration may set it and the
limited ramp of `density_faults` is reached through the package only; and the timeout
meant for back-to-back runs does not help one whose namespace disappears while it waits.

Smaller things the models made visible, without a run:

* `README.md:135` says files are extracted flat; `installTools` keeps the directories of
  a name and makes none, so such an entry always fails (`Deep` in `ToolInstall`).
* An installed file keeps the mode it had: the mode given to `OpenFile` is for new files.
* `config validate` checks sections of all suites, `run` refuses those of suites that
  are not selected (`DEVELOPMENT.md:158` says so itself).
* An etcd that is not ready is a run error of the density suite, not a capacity stop.
* The etcd suite records its options after its last case has overridden some of them.
* The clean-up function that the comment of `EnsurePodMonitor` speaks of is not in the
  code: no action of `PodMonitor` deletes a monitor.

## Proofs

`DensityProofs` proves, for every capacity, batch size, limit and fault setting:

* `TypeCorrect`, `MaxIsSafe`, `RampAlwaysClean` and `Invariance` from the inductive
  invariant `IInv`. `MaxWithinLimits` alone is not inductive: that a batch is confirmed
  within the capacity needs that the count was taken over VMIs of the cluster
  (`TypeOK`), that it equalled the size so far plus the batch (`NumbersFit`), that the batch
  was cut to the limit and that VMIs are named from `maxReady` upwards
  (`NamesFit`); that the ramp has not been decided while it goes on is `Undecided`;
  that the call the library works on is the one the suite is waiting for is `CallFits`.
* `OneVerdictAlways` (a ramp that is over has one verdict, proved and not run) and
  `CancelSafe`: the verdict changes only in steps that end the ramp, and each of these
  sets one error or, at the limit, none.
* `CountAlwaysExact`: n Running VMIs among at most n names are all of them.
* `LoadAlwaysBounded`: in the ramp the names in use bound the number of VMIs (`NamesBound`);
  `LoadFits` counts the requests in flight along with the VMIs, to which only a Create adds
  (`Creates`, `Shrinks`), and after the ramp none is sent any more.
* `LeakAlwaysReported`: what may still land after the clean-up is a Create that went
  unanswered (`LeakFits`). It is an error of the warm-up or of the capacity, which no later
  step takes back (`ErrorsFit`, `ErroredStays`), although the clean-up itself succeeded. Of
  anything else that is left the failed clean-up makes an error of the suite and of
  the capacity.
* `SuiteImplementsProbe`: the initial state maps to the initial state of
  `CapacityProbe` and each step to a `Confirm`, a `Stop` or a stutter. It uses
  `BatchAlwaysFull`, that a batch under way has the full size the limit allows.

`RunProofs` proves, for every registry, argument and configuration, the types and all
safety properties of `RunCmd`. `SuiteAlwaysHoused` and `NothingLeft` come from `HouseInv`,
which adds to the two properties that a run that has been through its clean-up leaves the
default namespace not Active or has logged. The rest comes from `RunInv`: the suites are
what `Found` returns for the argument and have passed both checks (`SuitesFit`), the
results are of a prefix of them (`ResultsFit`), and the options are those of the suite
under way, whatever ran before it (`StructFits`). Two things are proved of operators on
the way:

* The loop of `Find`. `SetInduction`, that a set with 0 and the successor of each of its
  members has all natural numbers, follows from the well-foundedness of `<`. With it
  `FoundLoops` shows that the recursive definition of `Found` has a function that fits
  it, and `FoundInOrder`, over the rounds of the loop (`TakenInOrder`), that it returns
  each registered name once, where the argument first has it. `AllAlwaysReport` is that of
  the results, and `NothingBeforeAllValid` needs it to count the suites of an
  exclusive one.
* The layers of the options. `At(o, f)` is the set of values `o` has under a name, one at
  most. `CopiedAt` and `MergeAt` turn each layer into "the first of the two that has one",
  `CanonicalizedAt` says that canonical keys have the values that were written in whatever
  spelling, and `OfStructAt` that the struct takes them. `ScalarField` and `NestedField`
  chain them into `OptionsAlwaysEffective`. It holds because nested options are in no
  layer but a suite's defaults and its own section: `Copied`, which lays a
  suite's section over the global one, replaces them whole, and would lose what a user
  wrote for one of them in "global". That is the third part of `SchemaAssumption`.

`KBenchProofs` proves, for every number of jobs and every fault setting, the types and all
safety properties of `KBench` from `KInv`. That a passing case has a complete job is not
inductive: between the event and its use the watch may lag, break, or be overtaken by the
TTL controller. `EventsFit` says that what is still to be delivered is about this job and
that a completion among it is true, `PodsFit` that a complete job's pod succeeded or is
gone, so that a log there is is a whole one; `JobFits`, `ClaimFits` and `ResultsFit` carry this
through the steps of `RunE`, and `LateFits` relates the signal to the results.
`ResultsStay` and `WaitingForJob` are the two reasons why a step leaves the results alone:
what they rest on is not taken back, or there are none yet.

`NodeProofs` proves, for every finite set of nodes, the types and all safety properties of
`NodeCapacity` from `NodeInv`. The wait looks at two counts of a moment that is
past, and the List is later still, so that `InventoryComplete` needs a chain of facts:
`PodsFit`, that counts which agree were taken when each eligible node had its pod (equal
cardinalities of a set and its subset), and that a steady node keeps its pod from then
on; `SteadyFits`, that nodes are steady only while eligible and that before the Create no
status is observed; `ListFits`, that a steady node is still to be asked, being asked or in a
row. `RowsFit` is the same for "at most once", and `DoomedFits` relates a pod that had gone
to the row it leaves and that row to the state of the case.

`ToolProofs` proves, for all archives, names and numbers of commands, the types and all
properties of `ToolInstall` from `ToolInv`. `DoneIsInstalled` says that every regular entry
the loop is through with, which none it has begun replaces, is installed whole or has an
error; it survives a step because an entry with the name of the one under way cannot be
among them. `EntryFits` places the entry under way, and `CommandFits` says that a loop that ends without a
broken archive has come to its end.

`NetworkProofs` proves, for any number of cases and jobs, the types and all safety
properties of `Network` from `NetInv`. Two facts about jobs carry it, and both are about
the past: a job, once made, stays made (so a fresh one is in no report: `OwnFits`), and a
pod that was ready once never comes back (so a command into a pod that had gone cannot
end well: `DoomedFits`, which needs `OwnFits` to know that the pod was there at all).
`ReportFits` says that what is in a report was made. `WaitKeeps` gathers what all steps
outside `RunE` have in common, and `ReportKeeps` what the seven ways to end a case have.

`EtcdProofs` proves, for any number of jobs, any etcd pods and any range, the types and
all safety properties of `EtcdBench` from `EtcdInv`, and `QueriesSeeThisRun` of its pod
monitor. For the latter `PollSeesThisRun` shows that as many ready targets as etcd
pods are all of them (equal cardinalities again), that none was scraped in the future
(`ScrapesFit`), and that the two bounds of a scrape leave room for the range only with a
timeout of at most twice the range. The proof also needs an etcd pod: with none the
poll would succeed at once, before anything was scraped, and it is `EnsureEtcdReady` that
excludes this (`pkg/k8s/etcd.go`, "no etcd pods found"). Hence `MonitorAssumption` has both.

`HealthProofs` proves, for any nodes and services, the types and both safety properties of
the health gate from `HealthInv`. Verdicts are given at the last of four requests about what
lasted, or was met, during all of them. So `ListedFits` keeps what the first List of pods
showed until the second one is in, `LastingFits` says which faults the requests so far have
excluded, and `NotesFit` that the baseline and the bystander have the same restart counts,
which makes a restart in the one a restart in the other.

The assumptions are those named in the modules: natural capacity and limit, a positive
batch size (what `Options.Validate` demands), the exclusive and housed suites are
registered, finitely many nodes, at least one etcd pod, no wait above twice the range,
archives and arguments that are sequences. `SchemaAssumption` is about
`internal/suites/options/default.go`: the global defaults have no options in them, a
default has options in it if and only if its field is a struct, and a field that is a struct
has a default of the suite, none of "global", and is not `toolsDir`.
`TestSchemaKeysMapToStructFields` (`internal/suites/options/schema_test.go`) checks the larger
part of it on the real schemas; TLC evaluates all of it on those of `MCRun`.

Only model-checked is liveness (`Termination`, `StuckFinalizersGo`, `CheckEnds`, `RunEnds`,
`KBenchEnds`, `BenchEnds`, `NetworkEnds`, `NodesEnd`), which is out of the prover's reach
under fairness. Every safety property that a passing run checks is a theorem.

## Abstractions

* `DeleteCollection` and one round of stripping finalizers are single steps that may
  fail halfway; the Updates between two polls touch VMIs that are deleted and cannot
  run again.
* The clean-up's five minutes are over only while requests fail or while what is left
  was never deleted: with an API that answers, stripping takes 30 seconds.
* The rate limit between Creates, the texts of errors, metrics values and timestamps
  are left out.
* `NewOptions` and `FromOptions` have one shape in every suite: `Struct` and `CannotDecode`
  stand for all of them.
* `List` of nodes is never empty in `HealthGate`. Pods of jobs are not among `Services`.
* A namespace is `absent`, `Active` or `Terminating`; the watch of `EnsureNamespace`
  sees the phase of the moment.
* The watch of a job delivers its pending events in any order and an event once at
  least; the claim's wait, which comes after the job has used the claim, sees the claim
  of the moment.
* A job has one pod (`backoffLimit` 0), its name is generated and thus fresh. Copying
  several files into a pod is one stream.
* Which address families a server pod has is a failure that may happen; profiles,
  arguments and output of the tools are left out.
* A monitor of an earlier run with its targets is in the initial states of `PodMonitor`;
  Prometheus and the clock act while the poll waits. The wait is at most twice the
  range, as the defaults have it: with a longer one a pod's last scrape may be older than the
  range queried. The number of etcd pods is that of the suite's start.
* The values that metrics queries return are left out: they are reported, not judged.
* Defaults are a part of those in `internal/suites/options`, enough for each case of the
  functions on options; `toolsDir` stands for the paths a suite derives from it.
* A status of the daemon set is true at the moment it is written. A cluster with no
  eligible node gives a disk case that passes with no row: nothing was to be asked.
* The rows of "node os info" come in a fixed order, since the answer to one List is
  gone through in its order.
* In `ToolInstall` a signal is left out (it cancels a context that the commands do not
  look at), and so is what else is in the directory.

## Not modelled

Printing, clients and flags (set-up and formatting without state), Prometheus queries
beyond their failure, the footprint suite's reading of usages, which is one request
per value, and the constructors of results.

## Plan

Done: all suites with their libraries, the run command with its options, the pod monitor,
the tools; proofs about the ramp, the health gate, the namespace, the storage, etcd, network
and node capacity suites and the tools.

1. Storage suite: the window of the validity queries against the life of the volume. It
   needs a clock of scrapes as in `PodMonitor`, next to the states of `KBench`.
2. Overlapping runs: two processes in one namespace, run identifiers of one second. Nothing
   in the repository promises anything of these, so a promise comes first.
3. A `readyTimeout` of 0, which is no timeout: `NetworkEnds` and `BenchEnds` take positive
   ones.
