------------------------------- MODULE RunCmd -------------------------------
(***************************************************************************)
(* "hvperf run": cmd/run.go, the registry, and EnsureNamespace, which every*)
(* suite that makes objects calls first.  A run checks its argument and    *)
(* its configuration, then runs the suites one after the other in one      *)
(* namespace, which it deletes at the end if that is the default one.      *)
(* Runs follow each other back to back on one cluster, so that a run can   *)
(* meet the namespace its predecessor is still deleting.                   *)
(*                                                                         *)
(* A configuration maps section names to options as users write them; what *)
(* a suite does in its namespace is left to the modules of the suites.     *)
(***************************************************************************)
EXTENDS Integers, SequencesExt, Options

CONSTANTS
  Registered,     \* names of the registered suites
  Exclusive,      \* those that do not run with others
  Housed,         \* those that make objects and call EnsureNamespace
  Schema,         \* section name -> default options, "global" included
  Fields,         \* suite -> fields of its options struct -> fields of these
  Args,           \* arguments of "run": sequences of names
  Configs,        \* contents of --config: functions from sections to options
  Bad,            \* scalars that no suite can use
  LastRun,        \* bound: how many runs there are
  Namespaces,     \* "default" and custom ones
  CallsMayFail    \* BOOLEAN: a request to the API server may fail

Sections == Registered \cup {"global"}

ASSUME RunAssumption ==
  /\ Exclusive \subseteq Registered /\ Housed \subseteq Registered
  /\ "global" \notin Registered
  /\ Sections \subseteq DOMAIN Schema /\ Registered \subseteq DOMAIN Fields
  /\ LastRun \in Nat \ {0}
  /\ "default" \in Namespaces
  /\ CallsMayFail \in BOOLEAN
  /\ \A names \in Args : names \in Seq(Range(names))

\* The defaults of internal/suites/options and the structs they are for: a
\* default and its field have the same shape, and a field that is a struct
\* is in the suite's defaults and in nobody else's.
ASSUME SchemaAssumption ==
  /\ \A k \in DOMAIN Schema["global"] : ~IsOptions(Schema["global"][k])
  /\ \A s \in Registered :
       /\ \A k \in DOMAIN Schema[s] \cap DOMAIN Fields[s] :
            IsOptions(Schema[s][k]) <=> Fields[s][k] # {}
       /\ \A k \in DOMAIN Fields[s] :
            Fields[s][k] # {} =>
              k \in DOMAIN Schema[s] \ (DOMAIN Schema["global"] \cup {"toolsDir"})

VARIABLES
  run,        \* number of the run
  pc,         \* what it does next
  args,       \* argSuites
  runOptions, \* what loadRunOptions read
  namespace, keepAlive,
  testSuites, \* what suites.Find returned
  options,    \* the options struct of the suite under way
  results,    \* of the suites so far: name and whether it has an error
  cancelled,  \* SIGINT or SIGTERM came
  logged,     \* the clean-up logged that it could not delete the namespace
  phase       \* of each namespace: "absent", "Active", "Terminating"

inputVars == <<run, args, runOptions, namespace, keepAlive>>
vars == <<inputVars, pc, testSuites, options, results, cancelled, logged, phase>>

Init ==
  /\ run = 1
  /\ pc = "find"
  /\ args \in Args
  /\ runOptions \in Configs
  /\ namespace \in Namespaces
  /\ keepAlive \in BOOLEAN
  /\ testSuites = <<>> /\ options = <<>> /\ results = <<>>
  /\ cancelled = FALSE /\ logged = FALSE
  /\ phase = [n \in Namespaces |-> "absent"]

Over == pc \in {"printed", "refused"}

\* The next run starts: a new process on the same cluster.
NextRun ==
  /\ Over /\ run < LastRun
  /\ run' = run + 1
  /\ pc' = "find"
  /\ args' \in Args
  /\ runOptions' \in Configs
  /\ namespace' \in Namespaces
  /\ keepAlive' \in BOOLEAN
  /\ testSuites' = <<>> /\ options' = <<>> /\ results' = <<>>
  /\ cancelled' = FALSE /\ logged' = FALSE
  /\ UNCHANGED phase

-----------------------------------------------------------------------------
(* Before any suite runs.                                                  *)

\* There are no clients, the file of --config cannot be read, or the path of
\* the tools is not to be had.
CannotSetUp ==
  /\ pc = "find"
  /\ pc' = "refused"
  /\ UNCHANGED <<inputVars, testSuites, options, results, cancelled, logged, phase>>

\* The loop of suites.Find, with one name: a registered one is taken unless
\* it has been.
\* Variant: as often as it is named.
TakenAgain(found, name) == IF name \in Registered THEN Append(found, name) ELSE found

Taken(found, name) ==
  IF name \in Registered \ Range(found) THEN Append(found, name) ELSE found

\* With all of them: each registered name once, in the order of the argument.
Found(names) ==
  LET found[i \in 0 .. Len(names)] ==
        IF i = 0 THEN <<>> ELSE Taken(found[i - 1], names[i])
  IN found[Len(names)]

\* ErrSuiteExclusiveConflict.
Conflict(found) == Len(found) > 1 /\ Range(found) \cap Exclusive # {}

Find ==
  /\ pc = "find"
  /\ IF Range(args) \subseteq Registered /\ ~Conflict(Found(args))
     THEN testSuites' = Found(args) /\ pc' = "canonicalize"
     ELSE pc' = "refused" /\ UNCHANGED testSuites
  /\ UNCHANGED <<inputVars, options, results, cancelled, logged, phase>>

\* canonicalizeRunOptions returns no error for these suites: every section
\* is "global" or one of theirs, and fits its schema.
\* Variant: sections of other suites are left alone.
KnownSections(config, these) ==
  \A s \in DOMAIN config \cap (these \cup {"global"}) : Fits(config[s], Schema[s])

Canonical(config, these) ==
  /\ DOMAIN config \subseteq these \cup {"global"}
  /\ \A s \in DOMAIN config : Fits(config[s], Schema[s])

Canonicalize ==
  /\ pc = "canonicalize"
  /\ pc' = IF Canonical(runOptions, Range(testSuites)) THEN "next suite" ELSE "refused"
  /\ UNCHANGED <<inputVars, testSuites, options, results, cancelled, logged, phase>>

-----------------------------------------------------------------------------
(* runSuites.                                                              *)

Suite == testSuites[Len(results) + 1]

Given(section) ==
  IF section \in DOMAIN runOptions THEN Canonicalized(runOptions[section]) ELSE NoOptions

\* What a suite is handed: a map of its own with the global section, its own
\* section over that and toolsDir over both.
Layered(suite) ==
  Copied(Copied(Given("global"), Given(suite)), [toolsDir |-> Scalar("run")])

\* What it makes of that: NewOptions, the same in every suite.
Struct(suite) ==
  OfStruct(Merge(Merge(Schema["global"], Schema[suite]), Layered(suite)), Fields[suite])

Starts ==
  /\ pc = "next suite" /\ Len(results) < Len(testSuites)
  /\ options' = Struct(Suite)
  /\ pc' = "suite"
  /\ UNCHANGED <<inputVars, testSuites, results, cancelled, logged, phase>>

Report(err) ==
  /\ results' = Append(results, [suite |-> Suite, err |-> err])
  /\ pc' = "next suite"

CallError == CallsMayFail \/ cancelled

\* FromOptions returns an error, and with it NewOptions and the suite.
CannotDecode ==
  /\ pc = "suite" /\ ~Decodes(options, Bad)
  /\ Report(TRUE)
  /\ UNCHANGED <<inputVars, testSuites, options, cancelled, logged, phase>>

\* A suite that only reads needs no namespace.
OnlyReads ==
  /\ pc = "suite" /\ Decodes(options, Bad) /\ Suite \notin Housed
  /\ \E err \in BOOLEAN : Report(err)
  /\ UNCHANGED <<inputVars, testSuites, options, cancelled, logged, phase>>

\* Apply fails, or is carried out and its answer lost.
ApplyFails ==
  /\ pc = "suite" /\ Decodes(options, Bad) /\ Suite \in Housed /\ CallError
  /\ Report(TRUE)
  /\ \/ phase' = [phase EXCEPT ![namespace] = IF @ = "absent" THEN "Active" ELSE @]
     \/ UNCHANGED phase
  /\ UNCHANGED <<inputVars, testSuites, options, cancelled, logged>>

\* EnsureNamespace applies the namespace once: one that is Terminating is
\* patched and stays so.
ApplyNamespace ==
  /\ pc = "suite" /\ Decodes(options, Bad) /\ Suite \in Housed /\ ~cancelled
  /\ phase' = [phase EXCEPT ![namespace] = IF @ = "absent" THEN "Active" ELSE @]
  /\ pc' = "namespace"
  /\ UNCHANGED <<inputVars, testSuites, options, results, cancelled, logged>>

\* The condition of the watch.
\* Variant: the namespace is there.
Exists == phase[namespace] # "absent"

IsReady == phase[namespace] = "Active"

NamespaceReady ==
  /\ pc = "namespace" /\ IsReady
  /\ pc' = "work"
  /\ UNCHANGED <<inputVars, testSuites, options, results, cancelled, logged, phase>>

\* When the watch may give up: at its timeout, which an answering API server
\* and an Active namespace forestall, or on a signal.
\* Variant: on a signal only.
OnSignal == cancelled

GivesUp == CallError \/ ~IsReady

NamespaceNotReady ==
  /\ pc = "namespace" /\ GivesUp
  /\ Report(TRUE)
  /\ UNCHANGED <<inputVars, testSuites, options, cancelled, logged, phase>>

\* The suite does its work in the namespace and returns.
Works ==
  /\ pc = "work"
  /\ \E err \in BOOLEAN : Report(err)
  /\ UNCHANGED <<inputVars, testSuites, options, cancelled, logged, phase>>

\* Whether the deferred function deletes the namespace, under a context
\* that a signal does not cancel.
\* Variant: under the context of the command.
DeletesUnlessCancelled == ~keepAlive /\ namespace = "default" /\ ~cancelled

Deletes == ~keepAlive /\ namespace = "default"

\* The loop is over; a NotFound is no error.
CleanUp ==
  /\ pc = "next suite" /\ Len(results) = Len(testSuites)
  /\ pc' = "print"
  /\ IF Deletes
     THEN \/ /\ phase' = [phase EXCEPT !["default"] =
                            IF @ = "Active" THEN "Terminating" ELSE @]
             /\ UNCHANGED logged
          \/ /\ CallsMayFail
             /\ logged' = TRUE
             /\ UNCHANGED phase
     ELSE UNCHANGED <<phase, logged>>
  /\ UNCHANGED <<inputVars, testSuites, options, results, cancelled>>

\* outRun prints the results, whatever errors they hold.
OutRun ==
  /\ pc = "print"
  /\ pc' = "printed"
  /\ UNCHANGED <<inputVars, testSuites, options, results, cancelled, logged, phase>>

-----------------------------------------------------------------------------
\* A signal cancels the context of the command and nothing else.
Signal ==
  /\ ~Over /\ ~cancelled
  /\ cancelled' = TRUE
  /\ UNCHANGED <<inputVars, pc, testSuites, options, results, logged, phase>>

\* The namespace controller has emptied a deleted namespace.
NamespaceVanishes(n) ==
  /\ phase[n] = "Terminating"
  /\ phase' = [phase EXCEPT ![n] = "absent"]
  /\ UNCHANGED <<inputVars, pc, testSuites, options, results, cancelled, logged>>

RunStep ==
  \/ Find \/ Canonicalize \/ Starts \/ CannotDecode \/ OnlyReads \/ ApplyNamespace \/ ApplyFails
  \/ NamespaceReady \/ NamespaceNotReady \/ Works \/ CleanUp \/ OutRun

Finished == Over /\ run = LastRun /\ UNCHANGED vars

Next ==
  \/ RunStep \/ CannotSetUp \/ NextRun \/ Signal \/ Finished
  \/ \E n \in Namespaces : NamespaceVanishes(n)

Spec == Init /\ [][Next]_vars

\* The process runs and its waits time out; the next run, a signal and the
\* end of a deletion may or may not come.
FairSpec == Spec /\ WF_vars(RunStep)

-----------------------------------------------------------------------------
(* Properties.                                                             *)

\* A key is there in two spellings.
Twice(o) == \E j, k \in DOMAIN o : j # k /\ j[1] = k[1]

\* The values that users gave an option: one at most.
Written(o, name) == {o[k] : k \in {j \in DOMAIN o : j[1] = name}}

WrittenIn(section, name) ==
  IF section \in DOMAIN runOptions THEN Written(runOptions[section], name) ELSE {}

\* The values options have under a name, and the first of two sets with any.
At(o, name) == {o[k] : k \in {name} \cap DOMAIN o}

FirstOf(these, others) == IF these # {} THEN these ELSE others

Effective(f) ==
  IF f = "toolsDir" THEN {Scalar("run")}
  ELSE FirstOf(WrittenIn(Suite, f),
               FirstOf(WrittenIn("global", f),
                       FirstOf(At(Schema[Suite], f), At(Schema["global"], f))))

EffectiveIn(f, g) ==
  FirstOf(UNION {Written(o.options, g) : o \in WrittenIn(Suite, f)},
          At(Schema[Suite][f].options, g))

\* Every variable keeps its type.
TypeOK ==
  /\ run \in 1 .. LastRun
  /\ pc \in {"find", "canonicalize", "next suite", "suite", "namespace", "work",
             "print", "printed", "refused"}
  /\ args \in Args /\ runOptions \in Configs
  /\ namespace \in Namespaces /\ keepAlive \in BOOLEAN
  /\ Range(testSuites) \subseteq Registered /\ IsInjective(testSuites)
  /\ options # NoOptions => \E suite \in Registered : DOMAIN options \subseteq DOMAIN Fields[suite]
  /\ Len(results) <= Len(testSuites)
  /\ {cancelled, logged} \subseteq BOOLEAN
  /\ phase \in [Namespaces -> {"absent", "Active", "Terminating"}]

\* "The run fails fast, before touching the cluster": no suite starts, and
\* no namespace is made or deleted, with a name or an option that is wrong,
\* however deep it is and whichever suite it is for, nor with an exclusive
\* suite next to another one.
NothingBeforeValid ==
  [][pc' = "suite" \/ (phase' # phase /\ ~\E n \in Namespaces : NamespaceVanishes(n))
       => /\ Range(args) \subseteq Registered
          /\ Range(args) \cap Exclusive # {} => Cardinality(Range(args)) = 1
          /\ \A s \in DOMAIN runOptions :
               /\ s \in Range(args) \cup {"global"}
               /\ ~Twice(runOptions[s])
               /\ \A k \in DOMAIN runOptions[s] :
                    /\ k[1] \in DOMAIN Schema[s]
                    /\ IsOptions(runOptions[s][k]) =>
                         \A j \in DOMAIN runOptions[s][k].options :
                           j[1] \in DOMAIN Schema[s][k[1]].options]_vars

\* A run that prints reports every suite it was asked for, once and in the
\* order of the argument, though suites fail and a signal cuts them short.
AllReport ==
  pc = "printed" =>
    /\ {results[i].suite : i \in DOMAIN results} = Range(args)
    /\ Len(results) = Cardinality(Range(args))
    /\ \A i, j \in DOMAIN results :
         i < j => \E a, b \in DOMAIN args :
                    /\ a < b /\ args[a] = results[i].suite /\ args[b] = results[j].suite
                    /\ \A c \in 1 .. b - 1 : args[c] # args[b]

\* A field of the struct a suite works with has what the user wrote for it,
\* in whatever spelling, in the suite's section or else in the global one,
\* and the default otherwise, each nested option by itself; no option of a
\* suite that ran before it, and the toolsDir of the run.
EffectiveOptions ==
  pc \in {"suite", "namespace", "work"} =>
    \A f \in DOMAIN Fields[Suite] :
      IF Fields[Suite][f] = {}
      THEN At(options, f) = Effective(f)
      ELSE \A g \in Fields[Suite][f] : At(options[f].options, g) = EffectiveIn(f, g)

\* While a suite works, its namespace is Active: the end of a run before it
\* does not take the namespace away.
SuiteHasNamespace == pc = "work" => phase[namespace] = "Active"

\* A run in the default namespace that is not to be kept does not leave it
\* behind Active, with what its suites made, after a signal and failed suites
\* either, unless it logs that the Delete failed.
NoLeftovers ==
  pc = "printed" /\ namespace = "default" /\ ~keepAlive /\ ~logged
    => phase["default"] # "Active"

\* Every run ends, though a namespace may stay Terminating for ever.
RunEnds == pc = "find" ~> Over

\* "Options is the density block of hvperf.yaml": a configuration that sets
\* nothing but fields of the options structs of the suites that run, in their
\* own sections, is not refused.
BlockIsAccepted ==
  [][pc = "canonicalize" /\ pc' = "refused"
       => \E s \in DOMAIN runOptions :
            \/ s \notin Range(testSuites) \/ Twice(runOptions[s])
            \/ \E k \in DOMAIN runOptions[s] :
                 \/ k[1] \notin DOMAIN Fields[s]
                 \/ IsOptions(runOptions[s][k]) # (Fields[s][k[1]] # {})
                 \/ IsOptions(runOptions[s][k]) /\
                      \E j \in DOMAIN runOptions[s][k].options : j[1] \notin Fields[s][k[1]]]_vars

\* The timeout is there to "accommodate for cleanup in back-to-back test
\* runs": a run gives up on its namespace only if that is still Terminating.
BackToBack ==
  [][pc = "namespace" /\ pc' = "next suite" /\ ~CallError
       => phase[namespace] = "Terminating"]_vars
=============================================================================
