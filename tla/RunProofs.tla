----------------------------- MODULE RunProofs -----------------------------
(***************************************************************************)
(* What holds of back-to-back runs for every registry, argument and        *)
(* configuration: a suite never works in a namespace that is going away,   *)
(* and a run leaves the default namespace behind only if it says so;       *)
(* nothing is touched before all of the input is valid; every suite that   *)
(* was named reports once, in order; and each works with what the user     *)
(* wrote for it, or else its defaults.                                     *)
(***************************************************************************)
EXTENDS RunCmd, WellFoundedInduction, FiniteSetTheorems, TLAPS

-----------------------------------------------------------------------------
(* Induction over the length of the argument.                              *)

\* Induction on the natural numbers, for a set of them: one with 0 and the
\* successors of its members has all, or the least other one is a successor.
LEMMA SetInduction ==
  ASSUME NEW S, 0 \in S, \A n \in Nat : n \in S => n + 1 \in S
  PROVE  Nat \subseteq S
<1> DEFINE Less == {ss \in Nat \X Nat : ss[1] < ss[2]}
<1> DEFINE Others == Nat \ S
<1> SUFFICES ASSUME Others # {} PROVE FALSE
  OBVIOUS
<1>1. IsWellFoundedOn(Less, Nat)
  BY NatLessThanWellFounded DEF OpToRel
<1>2. \A i, j \in Nat : i < j => <<i, j>> \in Less
  OBVIOUS
<1>3. Others \subseteq Nat
  OBVIOUS
<1> HIDE DEF Less, Others
<1>4. PICK least \in Others : \A other \in Others : ~(<<other, least>> \in Less)
  BY <1>1, <1>3, WFMin
<1> USE DEF Others
<1>5. least # 0 /\ least - 1 \in Nat /\ least - 1 < least
  BY <1>4
<1>6. least - 1 \in S
  BY <1>2, <1>4, <1>5
<1>7. (least - 1) + 1 = least
  BY <1>4
<1> QED
  BY <1>4, <1>5, <1>6, <1>7

\* What the loop of Find has found after i names: the recursive definition
\* has a function that fits it.
Loop(found, names, n) ==
  found = [i \in 0 .. n |-> IF i = 0 THEN <<>> ELSE Taken(found[i - 1], names[i])]

LEMMA FoundLoops ==
  ASSUME NEW S, NEW names \in Seq(S)
  PROVE  \E found : Loop(found, names, Len(names)) /\ Found(names) = found[Len(names)]
<1> DEFINE Exist == {n \in Nat : \E found : Loop(found, names, n)}
<1>1. 0 \in Exist
  <2> DEFINE found == [i \in 0 .. 0 |-> <<>>]
  <2>1. Loop(found, names, 0)
    BY DEF Loop
  <2> QED
    BY <2>1
<1>2. ASSUME NEW n \in Nat, n \in Exist
      PROVE  n + 1 \in Exist
  <2>1. PICK found : Loop(found, names, n)
    BY <1>2
  <2> DEFINE longer ==
        [i \in 0 .. n + 1 |-> IF i = n + 1 THEN Taken(found[n], names[i]) ELSE found[i]]
  <2>2. \A i \in 0 .. n : longer[i] = found[i]
    OBVIOUS
  <2>3. \A i \in 0 .. n + 1 :
          longer[i] = IF i = 0 THEN <<>> ELSE Taken(longer[i - 1], names[i])
    <3> TAKE i \in 0 .. n + 1
    <3>1. CASE i = n + 1
      BY <2>2, <3>1
    <3>2. CASE i \in 0 .. n
      <4>1. found[i] = IF i = 0 THEN <<>> ELSE Taken(found[i - 1], names[i])
        BY <2>1, <3>2 DEF Loop
      <4>2. i # 0 => longer[i - 1] = found[i - 1]
        BY <2>2, <3>2
      <4> QED
        BY <2>2, <3>2, <4>1, <4>2
    <3> QED
      BY <3>1, <3>2
  <2>4. Loop(longer, names, n + 1)
    BY <2>3 DEF Loop
  <2> QED
    BY <2>4
<1> HIDE DEF Exist
<1>3. Nat \subseteq Exist
  BY <1>1, <1>2, SetInduction
<1>4. \E found : Loop(found, names, Len(names))
  BY <1>3 DEF Exist
<1> DEFINE chosen == CHOOSE found : Loop(found, names, Len(names))
<1>5. Loop(chosen, names, Len(names))
  BY <1>4
<1>6. Found(names) = chosen[Len(names)]
  BY DEF Found, Loop
<1> QED
  BY <1>5, <1>6

\* The place b of the argument is the first with its name.
First(names, b) == \A c \in 1 .. b - 1 : names[c] # names[b]

\* What is found among the first n names are the registered ones, each at
\* the place it is first named.
InOrder(found, names, n) ==
  /\ found \in Seq(Registered)
  /\ Range(found) = {names[i] : i \in 1 .. n} \cap Registered
  /\ \A i, j \in DOMAIN found :
       i < j => \E a, b \in 1 .. n :
                  a < b /\ names[a] = found[i] /\ names[b] = found[j] /\ First(names, b)

\* One round of the loop.
LEMMA TakenInOrder ==
  ASSUME NEW S, NEW names \in Seq(S), NEW n \in Nat, n + 1 <= Len(names),
         NEW found, InOrder(found, names, n)
  PROVE  InOrder(Taken(found, names[n + 1]), names, n + 1)
<1> DEFINE name == names[n + 1]
<1>1. {names[i] : i \in 1 .. n + 1} = {names[i] : i \in 1 .. n} \cup {name}
  OBVIOUS
<1>2. CASE name \notin Registered \ Range(found)
  <2>1. Taken(found, name) = found
    BY <1>2 DEF Taken
  <2>2. Range(found) = {names[i] : i \in 1 .. n + 1} \cap Registered
    BY <1>1, <1>2 DEF InOrder
  <2>3. 1 .. n \subseteq 1 .. n + 1
    OBVIOUS
  <2> HIDE DEF name
  <2>4. InOrder(found, names, n + 1)
    BY <2>2, <2>3 DEF InOrder
  <2> QED
    BY <2>1, <2>4 DEF name
<1>3. CASE name \in Registered \ Range(found)
  <2> DEFINE longer == Append(found, name)
  <2>1. Taken(found, name) = longer
    BY <1>3 DEF Taken
  <2>2. /\ longer \in Seq(Registered)
        /\ DOMAIN longer = DOMAIN found \cup {Len(found) + 1}
        /\ \A i \in DOMAIN found : longer[i] = found[i]
        /\ longer[Len(found) + 1] = name
        /\ DOMAIN found = 1 .. Len(found) /\ Len(found) \in Nat
    BY <1>3 DEF InOrder
  <2> HIDE DEF longer
  <2>3. Range(longer) = Range(found) \cup {name}
    BY <2>2 DEF Range
  <2>4. Range(longer) = {names[i] : i \in 1 .. n + 1} \cap Registered
    BY <1>1, <1>3, <2>3 DEF InOrder
  <2>5. First(names, n + 1)
    BY <1>3 DEF InOrder, First
  <2>6. ASSUME NEW i \in DOMAIN longer, NEW j \in DOMAIN longer, i < j
        PROVE  \E a, b \in 1 .. n + 1 :
                 a < b /\ names[a] = longer[i] /\ names[b] = longer[j] /\ First(names, b)
    <3>1. i \in DOMAIN found /\ longer[i] = found[i]
      BY <2>2, <2>6
    <3>2. CASE j \in DOMAIN found
      <4>1. PICK a \in 1 .. n, b \in 1 .. n :
              a < b /\ names[a] = found[i] /\ names[b] = found[j] /\ First(names, b)
        BY <2>6, <3>1, <3>2 DEF InOrder
      <4> QED
        BY <2>2, <3>1, <3>2, <4>1
    <3>3. CASE j = Len(found) + 1
      <4>1. found[i] \in Range(found)
        BY <3>1 DEF Range
      <4>2. PICK a \in 1 .. n : names[a] = found[i]
        BY <4>1 DEF InOrder
      <4>3. a < n + 1 /\ a \in 1 .. n + 1 /\ n + 1 \in 1 .. n + 1
        OBVIOUS
      <4> QED
        BY <2>2, <2>5, <3>1, <3>3, <4>2, <4>3
    <3> QED
      BY <2>2, <3>2, <3>3
  <2> QED
    BY <2>1, <2>2, <2>4, <2>6 DEF InOrder
<1> QED
  BY <1>2, <1>3

\* suites.Find returns the registered names of its argument in the order
\* they are first named.
LEMMA FoundInOrder ==
  ASSUME NEW S, NEW names \in Seq(S)
  PROVE  InOrder(Found(names), names, Len(names))
<1>1. PICK found : Loop(found, names, Len(names)) /\ Found(names) = found[Len(names)]
  BY FoundLoops
<1> DEFINE Fit == {n \in Nat : n <= Len(names) => InOrder(found[n], names, n)}
<1>2. Len(names) \in Nat
  OBVIOUS
<1>3. 0 \in Fit
  <2>1. found[0] = <<>>
    BY <1>1, <1>2 DEF Loop
  <2>2. InOrder(<<>>, names, 0)
    BY DEF InOrder, Range
  <2> QED
    BY <2>1, <2>2
<1>4. ASSUME NEW n \in Nat, n \in Fit
      PROVE  n + 1 \in Fit
  <2> SUFFICES ASSUME n + 1 <= Len(names)
               PROVE  InOrder(found[n + 1], names, n + 1)
    BY <1>2
  <2>1. found[n + 1] = Taken(found[n], names[n + 1])
    <3>1. n + 1 \in 0 .. Len(names) /\ n + 1 # 0 /\ (n + 1) - 1 = n
      BY <1>2
    <3> QED
      BY <1>1, <3>1 DEF Loop
  <2>2. InOrder(found[n], names, n)
    BY <1>2, <1>4
  <2> QED
    BY <2>1, <2>2, TakenInOrder
<1> HIDE DEF Fit
<1>5. Nat \subseteq Fit
  BY <1>3, <1>4, SetInduction
<1> QED
  BY <1>1, <1>2, <1>5 DEF Fit

\* No suite is found twice.
LEMMA FoundOnce ==
  ASSUME NEW S, NEW names \in Seq(S)
  PROVE  /\ IsInjective(Found(names))
         /\ Cardinality(Range(Found(names))) = Len(Found(names))
<1> DEFINE found == Found(names)
<1>1. InOrder(found, names, Len(names))
  BY FoundInOrder
<1> HIDE DEF found
<1>2. found \in Seq(Registered) /\ DOMAIN found = 1 .. Len(found) /\ Len(found) \in Nat
  BY <1>1 DEF InOrder
<1>3. \A i, j \in DOMAIN found : i < j => found[i] # found[j]
  BY <1>1 DEF InOrder, First
<1>4. IsInjective(found)
  BY <1>2, <1>3 DEF IsInjective
<1>5. Cardinality(Range(found)) = Len(found)
  <2>1. found \in Bijection(1 .. Len(found), Range(found))
    BY <1>2, <1>4 DEF Bijection, Injection, Surjection, IsInjective, Range
  <2>2. ExistsBijection(1 .. Len(found), Range(found))
    BY <2>1 DEF ExistsBijection
  <2> QED
    BY <1>2, <2>2, FS_CountingElements
<1> QED
  BY <1>4, <1>5 DEF found

-----------------------------------------------------------------------------
(* The namespace.                                                          *)

Phases == {"absent", "Active", "Terminating"}

\* The run has been through its deferred clean-up.
Cleaned == pc \in {"print", "printed"}

\* The inductive invariant: both properties, the second from the clean-up
\* on, and the types they need.
HouseInv ==
  /\ namespace \in Namespaces
  /\ phase \in [Namespaces -> Phases]
  /\ SuiteHasNamespace
  /\ Cleaned /\ Deletes /\ ~logged => phase["default"] # "Active"

\* The first run starts without a namespace.
LEMMA HouseInit == Init => HouseInv
  BY RunAssumption DEF Init, HouseInv, Phases, SuiteHasNamespace, Cleaned

\* The steps that leave the namespaces alone, but for the one that finds
\* them ready, neither start a suite's work nor clean up.
LEMMA QuietStepsKeepHouse ==
  ASSUME HouseInv,
         \/ CannotSetUp \/ Find \/ Canonicalize \/ Starts \/ CannotDecode \/ OnlyReads
         \/ NamespaceNotReady \/ Works \/ OutRun \/ Signal
  PROVE  HouseInv'
<1>1. UNCHANGED <<namespace, keepAlive, phase, logged>>
  BY DEF CannotSetUp, Find, Canonicalize, Starts, CannotDecode, OnlyReads, NamespaceNotReady, Works,
         OutRun, Signal, inputVars
<1>2. pc' = "work" => pc = "work"
  BY DEF CannotSetUp, Find, Canonicalize, Starts, CannotDecode, OnlyReads, NamespaceNotReady, Works,
         OutRun, Signal, Report
<1>3. Cleaned' => Cleaned
  BY DEF CannotSetUp, Find, Canonicalize, Starts, CannotDecode, OnlyReads, NamespaceNotReady, Works,
         OutRun, Signal, Report, Cleaned
<1> QED
  BY <1>1, <1>2, <1>3 DEF HouseInv, SuiteHasNamespace, Deletes

\* So do the steps that change a namespace, the one that finds it ready and
\* the start of the next run.
LEMMA HouseNext == HouseInv /\ [Next]_vars => HouseInv'
<1> SUFFICES ASSUME HouseInv, [Next]_vars
             PROVE  HouseInv'
  OBVIOUS
<1>1. CASE CannotSetUp \/ Find \/ Canonicalize \/ Starts \/ CannotDecode \/ OnlyReads
             \/ NamespaceNotReady \/ Works \/ OutRun \/ Signal
  BY <1>1, QuietStepsKeepHouse
<1>2. CASE ApplyNamespace
  BY <1>2 DEF ApplyNamespace, HouseInv, SuiteHasNamespace, Phases, Cleaned, inputVars
<1>3. CASE NamespaceReady
  BY <1>3 DEF NamespaceReady, IsReady, HouseInv, SuiteHasNamespace, Cleaned, inputVars
<1>3a. CASE ApplyFails
  BY <1>3a DEF ApplyFails, Report, HouseInv, SuiteHasNamespace, Phases, Cleaned, inputVars
<1>4. CASE CleanUp
  BY <1>4, RunAssumption
  DEF CleanUp, Deletes, HouseInv, SuiteHasNamespace, Phases, Cleaned, inputVars
<1>5. CASE NextRun
  BY <1>5 DEF NextRun, HouseInv, SuiteHasNamespace, Cleaned
<1>6. ASSUME NEW n \in Namespaces, NamespaceVanishes(n)
      PROVE  HouseInv'
  <2>1. phase[n] = "Terminating" /\ phase' = [phase EXCEPT ![n] = "absent"]
    BY <1>6 DEF NamespaceVanishes
  <2>2. UNCHANGED <<namespace, keepAlive, pc, logged>>
    BY <1>6 DEF NamespaceVanishes, inputVars
  <2> QED
    BY <2>1, <2>2 DEF HouseInv, SuiteHasNamespace, Phases, Cleaned, Deletes
<1>7. CASE UNCHANGED vars
  BY <1>7 DEF vars, inputVars, HouseInv, SuiteHasNamespace, Cleaned, Deletes
<1> QED
  BY <1>1, <1>2, <1>3, <1>4, <1>5, <1>6, <1>7, <1>3a DEF Next, RunStep, Finished

\* The invariant holds of every run.
THEOREM HouseAlways == Spec => []HouseInv
  BY HouseInit, HouseNext, PTL DEF Spec

\* A suite works in an Active namespace only, though the run before may have
\* left its own to be deleted.
THEOREM SuiteAlwaysHoused == Spec => []SuiteHasNamespace
<1>1. HouseInv => SuiteHasNamespace
  BY DEF HouseInv
<1> QED
  BY <1>1, HouseAlways, PTL

\* A run that was to clean up and has printed leaves no Active default
\* namespace, or has logged that it could not delete it.
THEOREM NothingLeft == Spec => []NoLeftovers
<1>1. HouseInv => NoLeftovers
  BY DEF HouseInv, NoLeftovers, Cleaned, Deletes
<1> QED
  BY <1>1, HouseAlways, PTL

-----------------------------------------------------------------------------
(* The list of suites.                                                     *)

Working == {"suite", "namespace", "work"}

\* The argument and the configuration have been checked.
Checked == {"next suite", "print", "printed"} \cup Working

InputsFit ==
  /\ run \in 1 .. LastRun
  /\ args \in Args /\ runOptions \in Configs
  /\ namespace \in Namespaces /\ keepAlive \in BOOLEAN
  /\ cancelled \in BOOLEAN /\ logged \in BOOLEAN
  /\ pc \in {"find", "canonicalize", "refused"} \cup Checked

\* The suites are those Find has found, and both checks have passed when
\* they run.
SuitesFit ==
  /\ testSuites \in {<<>>, Found(args)}
  /\ pc \in {"canonicalize"} \cup Checked =>
       testSuites = Found(args) /\ Range(args) \subseteq Registered /\ ~Conflict(testSuites)
  /\ pc \in Checked => Canonical(runOptions, Range(testSuites))

Rows == [suite : Registered, err : BOOLEAN]

\* The results are of a prefix of them.
ResultsFit ==
  /\ results \in Seq(Rows)
  /\ Len(results) <= Len(testSuites)
  /\ \A i \in DOMAIN results : results[i].suite = testSuites[i]
  /\ pc \notin Checked => results = <<>>
  /\ pc \in Working => Len(results) < Len(testSuites)
  /\ pc \in {"print", "printed"} => Len(results) = Len(testSuites)

\* The options are what the suite under way is to have, or one before it had.
StructFits ==
  /\ options # NoOptions => \E suite \in Registered : options = Struct(suite)
  /\ pc \in Working => options = Struct(Suite)

RunInv == InputsFit /\ SuitesFit /\ ResultsFit /\ StructFits

\* The suites are a sequence of registered ones, in which none is twice.
LEMMA SuitesAreListed ==
  ASSUME NEW names \in Args, NEW found \in {<<>>, Found(names)}
  PROVE  found \in Seq(Registered) /\ IsInjective(found)
<1>1. names \in Seq(Range(names))
  BY RunAssumption
<1>2. Found(names) \in Seq(Registered) /\ IsInjective(Found(names))
  BY <1>1, FoundInOrder, FoundOnce DEF InOrder
<1>3. <<>> \in Seq(Registered) /\ IsInjective(<<>>)
  BY DEF IsInjective
<1> QED
  BY <1>2, <1>3

\* The options of a suite depend on the configuration only.
LEMMA StructKept ==
  ASSUME UNCHANGED runOptions
  PROVE  \A suite : Struct(suite)' = Struct(suite)
  BY DEF Struct, Layered, Given

\* A sequence with one more element.
LEMMA Appended ==
  ASSUME NEW S, NEW s \in Seq(S), NEW e \in S
  PROVE  LET t == Append(s, e) IN
         /\ t \in Seq(S)
         /\ Len(t) = Len(s) + 1
         /\ \A i \in DOMAIN s : i # Len(s) + 1 /\ t[i] = s[i]
         /\ t[Len(s) + 1] = e
         /\ DOMAIN t = DOMAIN s \cup {Len(s) + 1}
<1> DEFINE t == Append(s, e)
<1>1. DOMAIN s = 1 .. Len(s) /\ Len(s) \in Nat
  OBVIOUS
<1>2. t \in Seq(S) /\ Len(t) = Len(s) + 1
  OBVIOUS
<1>3. DOMAIN t = 1 .. Len(s) + 1
  BY <1>1, <1>2
<1> QED
  BY <1>1, <1>2, <1>3

\* A suite ends, with or without an error.
Ended == \E err \in BOOLEAN : Report(err)

\* Such a step adds one result, of the suite under way.
LEMMA EndedKeeps ==
  ASSUME RunInv, pc \in Working, Ended,
         UNCHANGED <<inputVars, testSuites, options, cancelled, logged>>
  PROVE  RunInv'
<1>1. PICK err \in BOOLEAN : Report(err)
  BY DEF Ended
<1>2. testSuites \in Seq(Registered)
  BY SuitesAreListed DEF RunInv, InputsFit, SuitesFit
<1>3. Len(results) \in Nat /\ Len(results) < Len(testSuites) /\ Len(testSuites) \in Nat
  BY <1>2 DEF RunInv, ResultsFit
<1>4. Suite \in Registered /\ Suite = testSuites[Len(results) + 1]
  BY <1>2, <1>3 DEF Suite
<1> DEFINE row == [suite |-> Suite, err |-> err]
<1>5. row \in Rows /\ row.suite = Suite
  BY <1>4 DEF Rows
<1>6. results' = Append(results, row) /\ pc' = "next suite"
  BY <1>1 DEF Report
<1> HIDE DEF row
<1>7. /\ results' \in Seq(Rows)
      /\ Len(results') = Len(results) + 1
      /\ \A i \in DOMAIN results : i # Len(results) + 1 /\ results'[i] = results[i]
      /\ results'[Len(results) + 1] = row
      /\ DOMAIN results' = DOMAIN results \cup {Len(results) + 1}
  <2>1. results \in Seq(Rows) /\ row \in Rows
    BY <1>5 DEF RunInv, ResultsFit
  <2>2. results' = Append(results, row)
    BY <1>6
  <2> QED
    BY <2>1, <2>2, Appended
<1>8. ResultsFit'
  <2>1. ASSUME NEW i \in DOMAIN results' PROVE results'[i].suite = testSuites'[i]
    BY <1>4, <1>5, <1>7 DEF RunInv, ResultsFit
  <2>2. Len(results') <= Len(testSuites')
    BY <1>3, <1>7
  <2> QED
    BY <1>6, <1>7, <2>1, <2>2 DEF ResultsFit, Checked, Working
<1>9. InputsFit' /\ SuitesFit'
  BY <1>6 DEF RunInv, InputsFit, SuitesFit, Checked, Working, inputVars, Canonical, Conflict
<1>10. StructFits'
  BY <1>6, StructKept DEF RunInv, StructFits, Working, inputVars
<1> QED
  BY <1>8, <1>9, <1>10 DEF RunInv

\* A step that leaves the list, the options and the results alone and does
\* not get on in it.
LEMMA StaysKeeps ==
  ASSUME RunInv, UNCHANGED <<inputVars, testSuites, options, results>>,
         cancelled' \in BOOLEAN, logged' \in BOOLEAN,
         \/ pc' = pc
         \/ pc = "find" /\ pc' = "refused"
         \/ pc \in Working /\ pc' \in Working
         \/ pc = "print" /\ pc' = "printed"
         \/ pc = "next suite" /\ pc' = "print" /\ Len(results) = Len(testSuites)
  PROVE  RunInv'
<1>1. InputsFit' /\ SuitesFit'
  BY DEF RunInv, InputsFit, SuitesFit, Checked, Working, inputVars, Canonical, Conflict
<1>2. ResultsFit'
  BY DEF RunInv, ResultsFit, Checked, Working
<1>3. StructFits'
  BY StructKept DEF RunInv, StructFits, Working, inputVars, Suite
<1> QED
  BY <1>1, <1>2, <1>3 DEF RunInv

\* suites.Find.
LEMMA FindKeeps ==
  ASSUME RunInv, Find
  PROVE  RunInv'
<1>1. results = <<>>
  BY DEF RunInv, ResultsFit, Find, Checked, Working
<1>2. InputsFit'
  BY DEF RunInv, InputsFit, Find, inputVars
<1>3. SuitesFit'
  BY DEF RunInv, SuitesFit, Find, inputVars, Checked, Working
<1>4. testSuites' \in Seq(Registered)
  BY <1>2, <1>3, SuitesAreListed DEF InputsFit, SuitesFit
<1>5. ResultsFit'
  BY <1>1, <1>4 DEF ResultsFit, Find, Checked, Working, Rows
<1>6. StructFits'
  BY StructKept DEF RunInv, StructFits, Find, inputVars, Working
<1> QED
  BY <1>2, <1>3, <1>5, <1>6 DEF RunInv

\* canonicalizeRunOptions.
LEMMA CanonicalizeKeeps ==
  ASSUME RunInv, Canonicalize
  PROVE  RunInv'
<1>1. InputsFit' /\ SuitesFit'
  BY DEF RunInv, InputsFit, SuitesFit, Canonicalize, inputVars, Checked, Working, Canonical,
         Conflict
<1>2. ResultsFit'
  BY DEF RunInv, ResultsFit, Canonicalize, Checked, Working
<1>3. StructFits'
  BY StructKept DEF RunInv, StructFits, Canonicalize, inputVars, Working
<1> QED
  BY <1>1, <1>2, <1>3 DEF RunInv

\* The next suite of runSuites.
LEMMA StartsKeeps ==
  ASSUME RunInv, Starts
  PROVE  RunInv'
<1>1. InputsFit' /\ SuitesFit'
  BY DEF RunInv, InputsFit, SuitesFit, Starts, inputVars, Checked, Working, Canonical, Conflict
<1>2. ResultsFit'
  BY DEF RunInv, ResultsFit, Starts, Checked, Working
<1>3. Suite \in Registered
  <2>1. testSuites \in Seq(Registered)
    BY SuitesAreListed DEF RunInv, InputsFit, SuitesFit
  <2>2. results \in Seq(Rows) /\ Len(results) < Len(testSuites)
    BY DEF Starts, RunInv, ResultsFit
  <2>3. Len(results) \in Nat /\ Len(testSuites) \in Nat
    BY <2>1, <2>2
  <2>4. Len(results) + 1 \in 1 .. Len(testSuites)
    BY <2>2, <2>3
  <2> QED
    BY <2>1, <2>4 DEF Suite
<1>4. options' = Struct(Suite) /\ Suite' = Suite /\ \A suite : Struct(suite)' = Struct(suite)
  BY StructKept DEF Starts, Suite, inputVars
<1>5. StructFits'
  <2>1. Struct(Suite)' = Struct(Suite)
    BY <1>4 DEF Struct, Layered, Given, Starts, inputVars
  <2> QED
    BY <1>3, <1>4, <2>1 DEF StructFits
<1> QED
  BY <1>1, <1>2, <1>5 DEF RunInv

\* The invariant holds at the start of the first run.
LEMMA FirstRun == Init => RunInv
<1> SUFFICES ASSUME Init PROVE RunInv
  OBVIOUS
<1>1. InputsFit
  <2>1. 1 \in 1 .. LastRun
    BY RunAssumption
  <2> QED
    BY <2>1 DEF Init, InputsFit
<1>2. SuitesFit
  BY DEF Init, SuitesFit, Checked, Working
<1>3. ResultsFit /\ StructFits
  BY DEF Init, ResultsFit, StructFits, Checked, Working, NoOptions
<1> QED
  BY <1>1, <1>2, <1>3 DEF RunInv

\* So does the start of a run after another.
LEMMA NextRunKeeps ==
  ASSUME RunInv, NextRun
  PROVE  RunInv'
<1>1. InputsFit'
  <2>1. run + 1 \in 1 .. LastRun
    BY RunAssumption DEF NextRun, RunInv, InputsFit
  <2> QED
    BY <2>1 DEF NextRun, InputsFit
<1>2. SuitesFit'
  BY DEF NextRun, SuitesFit, Checked, Working
<1>3. ResultsFit' /\ StructFits'
  BY DEF NextRun, ResultsFit, StructFits, Checked, Working, NoOptions
<1> QED
  BY <1>1, <1>2, <1>3 DEF RunInv

\* Every step keeps the invariant.
LEMMA RunNext == RunInv /\ [Next]_vars => RunInv'
<1> SUFFICES ASSUME RunInv, [Next]_vars PROVE RunInv'
  OBVIOUS
<1>1. CASE Find
  BY <1>1, FindKeeps
<1>2. CASE Canonicalize
  BY <1>2, CanonicalizeKeeps
<1>3. CASE Starts
  BY <1>3, StartsKeeps
<1>4. CASE CannotDecode \/ OnlyReads \/ ApplyFails \/ NamespaceNotReady \/ Works
  <2>1. pc \in Working /\ Ended
    BY <1>4 DEF CannotDecode, OnlyReads, ApplyFails, NamespaceNotReady, Works, Working, Ended
  <2>2. UNCHANGED <<inputVars, testSuites, options, cancelled, logged>>
    BY <1>4 DEF CannotDecode, OnlyReads, ApplyFails, NamespaceNotReady, Works
  <2> QED
    BY <2>1, <2>2, EndedKeeps
<1>5. CASE CannotSetUp \/ ApplyNamespace \/ NamespaceReady \/ CleanUp \/ OutRun \/ Signal
  <2>1. UNCHANGED <<inputVars, testSuites, options, results>>
    BY <1>5 DEF CannotSetUp, ApplyNamespace, NamespaceReady, CleanUp, OutRun, Signal
  <2>2. cancelled' \in BOOLEAN /\ logged' \in BOOLEAN
    BY <1>5 DEF CannotSetUp, ApplyNamespace, NamespaceReady, CleanUp, OutRun, Signal,
        RunInv, InputsFit
  <2>3. \/ pc' = pc
        \/ pc = "find" /\ pc' = "refused"
        \/ pc \in Working /\ pc' \in Working
        \/ pc = "print" /\ pc' = "printed"
        \/ pc = "next suite" /\ pc' = "print" /\ Len(results) = Len(testSuites)
    BY <1>5 DEF CannotSetUp, ApplyNamespace, NamespaceReady, CleanUp, OutRun, Signal, Working
  <2> QED
    BY <2>1, <2>2, <2>3, StaysKeeps
<1>6. CASE NextRun
  BY <1>6, NextRunKeeps
<1>7. CASE UNCHANGED vars \/ \E n \in Namespaces : NamespaceVanishes(n)
  <2>1. UNCHANGED <<inputVars, pc, testSuites, options, results, cancelled, logged>>
    BY <1>7 DEF vars, NamespaceVanishes
  <2> QED
    BY <2>1, StaysKeeps DEF RunInv, InputsFit
<1> QED
  BY <1>1, <1>2, <1>3, <1>4, <1>5, <1>6, <1>7 DEF Next, RunStep, Finished

\* The invariant about the list of suites, for every registry, argument and
\* configuration.
THEOREM RunInvAlways == Spec => []RunInv
  BY FirstRun, RunNext, PTL DEF Spec

\* Type correctness of the run command.
THEOREM RunTypes == Spec => []TypeOK
<1>1. RunInv /\ HouseInv => TypeOK
  <2> SUFFICES ASSUME RunInv, HouseInv PROVE TypeOK
    OBVIOUS
  <2>1. testSuites \in Seq(Registered) /\ IsInjective(testSuites)
    BY SuitesAreListed DEF RunInv, InputsFit, SuitesFit
  <2>2. Range(testSuites) \subseteq Registered
    BY <2>1 DEF Range
  <2>3. \A suite : DOMAIN Struct(suite) \subseteq DOMAIN Fields[suite]
    BY DEF Struct, OfStruct
  <2>4. options # NoOptions =>
          \E suite \in Registered : DOMAIN options \subseteq DOMAIN Fields[suite]
    BY <2>3 DEF RunInv, StructFits
  <2> QED
    BY <2>1, <2>2, <2>4
    DEF TypeOK, RunInv, InputsFit, ResultsFit, HouseInv, Phases, Checked, Working
<1> QED
  BY <1>1, RunInvAlways, HouseAlways, PTL

\* A run that prints has one result of every suite that was named, in the
\* order of the argument.
THEOREM AllAlwaysReport == Spec => []AllReport
<1>1. RunInv => AllReport
  <2> SUFFICES ASSUME RunInv, pc = "printed"
               PROVE  /\ {results[i].suite : i \in DOMAIN results} = Range(args)
                      /\ Len(results) = Cardinality(Range(args))
                      /\ \A i, j \in DOMAIN results :
                           i < j => \E a, b \in DOMAIN args :
                                      /\ a < b
                                      /\ args[a] = results[i].suite /\ args[b] = results[j].suite
                                      /\ \A c \in 1 .. b - 1 : args[c] # args[b]
    BY DEF AllReport
  <2>1. testSuites = Found(args) /\ Range(args) \subseteq Registered
    BY DEF RunInv, SuitesFit, Checked
  <2>2. args \in Seq(Range(args))
    BY RunAssumption DEF RunInv, InputsFit
  <2>3. DOMAIN args = 1 .. Len(args)
    BY <2>2
  <2>4. InOrder(testSuites, args, Len(args)) /\ Cardinality(Range(testSuites)) = Len(testSuites)
    BY <2>1, <2>2, FoundInOrder, FoundOnce
  <2>5. Range(testSuites) = Range(args)
    BY <2>1, <2>3, <2>4 DEF InOrder, Range
  <2>6. /\ Len(results) = Len(testSuites)
        /\ DOMAIN results = DOMAIN testSuites
        /\ \A i \in DOMAIN results : results[i].suite = testSuites[i]
    BY <2>4 DEF RunInv, ResultsFit, InOrder
  <2>7. {results[i].suite : i \in DOMAIN results} = Range(args)
    BY <2>5, <2>6 DEF Range
  <2>8. ASSUME NEW i \in DOMAIN results, NEW j \in DOMAIN results, i < j
        PROVE  \E a, b \in DOMAIN args :
                 /\ a < b
                 /\ args[a] = results[i].suite /\ args[b] = results[j].suite
                 /\ \A c \in 1 .. b - 1 : args[c] # args[b]
    <3>1. PICK a \in 1 .. Len(args), b \in 1 .. Len(args) :
            a < b /\ args[a] = testSuites[i] /\ args[b] = testSuites[j] /\ First(args, b)
      BY <2>4, <2>6, <2>8 DEF InOrder
    <3> QED
      BY <2>3, <2>6, <3>1 DEF First
  <2> QED
    BY <2>4, <2>5, <2>6, <2>7, <2>8
<1> QED
  BY <1>1, RunInvAlways, PTL

\* A run that has been checked has nothing wrong with it.
LEMMA CheckedIsValid ==
  ASSUME RunInv, pc \in Checked
  PROVE  /\ Range(args) \subseteq Registered
         /\ Range(args) \cap Exclusive # {} => Cardinality(Range(args)) = 1
         /\ \A s \in DOMAIN runOptions :
              /\ s \in Range(args) \cup {"global"}
              /\ ~Twice(runOptions[s])
              /\ \A k \in DOMAIN runOptions[s] :
                   /\ k[1] \in DOMAIN Schema[s]
                   /\ IsOptions(runOptions[s][k]) =>
                        \A j \in DOMAIN runOptions[s][k].options :
                          j[1] \in DOMAIN Schema[s][k[1]].options
<1>1. /\ testSuites = Found(args) /\ Range(args) \subseteq Registered
      /\ ~Conflict(testSuites) /\ Canonical(runOptions, Range(testSuites))
  BY DEF RunInv, SuitesFit
<1>2. args \in Seq(Range(args))
  BY RunAssumption DEF RunInv, InputsFit
<1>3. InOrder(testSuites, args, Len(args)) /\ Cardinality(Range(testSuites)) = Len(testSuites)
  BY <1>1, <1>2, FoundInOrder, FoundOnce
<1>4. Range(testSuites) = Range(args)
  <2>1. DOMAIN args = 1 .. Len(args)
    BY <1>2
  <2> QED
    BY <1>1, <1>3, <2>1 DEF InOrder, Range
<1>5. ASSUME Range(args) \cap Exclusive # {}
      PROVE  Cardinality(Range(args)) = 1
  <2>1. Len(testSuites) \in Nat /\ ~(Len(testSuites) > 1)
    BY <1>1, <1>3, <1>4, <1>5 DEF Conflict, InOrder
  <2>2. Len(testSuites) # 0
    BY <1>3, <1>4, <1>5 DEF InOrder, Range
  <2> QED
    BY <1>3, <1>4, <2>1, <2>2
<1>6. ASSUME NEW s \in DOMAIN runOptions
      PROVE  s \in Range(args) \cup {"global"} /\ Fits(runOptions[s], Schema[s])
  BY <1>1, <1>4 DEF Canonical
<1> QED
  BY <1>1, <1>5, <1>6 DEF Fits, KeysFit, Twice

\* No suite starts and no namespace is touched with an argument or a
\* configuration that is wrong in any part.
THEOREM NothingBeforeAllValid == Spec => NothingBeforeValid
<1> DEFINE Touches ==
      pc' = "suite" \/ (phase' # phase /\ ~\E n \in Namespaces : NamespaceVanishes(n))
<1>1. RunInv /\ [Next]_vars => (Touches => pc \in Checked)
  <2> SUFFICES ASSUME Next \/ UNCHANGED vars, RunInv, Touches
               PROVE  pc \in Checked
    OBVIOUS
  <2>1. CASE pc' = "suite"
    BY <2>1
    DEF Next, RunStep, NextRun, Signal, Finished, vars, NamespaceVanishes, CannotSetUp,
        Find, Canonicalize,
        Starts, CannotDecode, OnlyReads, ApplyNamespace, ApplyFails, NamespaceReady,
        NamespaceNotReady, Works, CleanUp, OutRun, Report, Checked, Working
  <2>2. CASE phase' # phase /\ ~\E n \in Namespaces : NamespaceVanishes(n)
    BY <2>2
    DEF Next, RunStep, NextRun, Signal, Finished, vars, CannotSetUp, Find, Canonicalize,
        Starts, CannotDecode, OnlyReads, ApplyNamespace, ApplyFails, NamespaceReady,
        NamespaceNotReady, Works, CleanUp, OutRun, Checked, Working
  <2> QED
    BY <2>1, <2>2
<1> DEFINE Valid ==
      /\ Range(args) \subseteq Registered
      /\ Range(args) \cap Exclusive # {} => Cardinality(Range(args)) = 1
      /\ \A s \in DOMAIN runOptions :
           /\ s \in Range(args) \cup {"global"}
           /\ ~Twice(runOptions[s])
           /\ \A k \in DOMAIN runOptions[s] :
                /\ k[1] \in DOMAIN Schema[s]
                /\ IsOptions(runOptions[s][k]) =>
                     \A j \in DOMAIN runOptions[s][k].options :
                       j[1] \in DOMAIN Schema[s][k[1]].options
<1>2. RunInv /\ pc \in Checked => Valid
  BY CheckedIsValid
<1>3. RunInv /\ [Next]_vars => [Touches => Valid]_vars
  BY <1>1, <1>2
<1>4. Spec => [][Touches => Valid]_vars
  BY <1>3, RunInvAlways, PTL DEF Spec
<1> QED
  BY <1>4 DEF NothingBeforeValid

-----------------------------------------------------------------------------
(* The options.                                                            *)

\* maps.Copy: the value copied, or else the old one.
LEMMA CopiedAt ==
  \A o, other, name : At(Copied(o, other), name) = FirstOf(At(other, name), At(o, name))
<1> TAKE o, other, name
<1>1. CASE name \in DOMAIN other
  BY <1>1 DEF At, Copied, FirstOf
<1>2. CASE name \notin DOMAIN other
  BY <1>2 DEF At, Copied, FirstOf
<1> QED
  BY <1>1, <1>2

\* So does Merge, where not both have options.
LEMMA MergeAt ==
  ASSUME NEW o, NEW other, NEW name,
         name \in DOMAIN o \cap DOMAIN other => ~IsOptions(o[name]) \/ ~IsOptions(other[name])
  PROVE  At(Merge(o, other), name) = FirstOf(At(other, name), At(o, name))
<1>1. At(Merge(o, other), name) = At(Copied(o, other), name)
  BY DEF At, Merge, Copied
<1> QED
  BY <1>1, CopiedAt

\* A struct takes the values there are for its fields.
LEMMA OfStructAt ==
  ASSUME NEW o, NEW fields, NEW name \in DOMAIN fields,
         name \in DOMAIN o => ~IsOptions(o[name])
  PROVE  At(OfStruct(o, fields), name) = At(o, name)
  BY DEF At, OfStruct

\* Keys of any spelling, renamed, have the values that were written.
LEMMA RenamedAt ==
  ASSUME NEW o, NEW schema, KeysFit(o, schema), NEW name
  PROVE  At(Renamed(o), name) = Written(o, name)
<1>1. CASE \E k \in DOMAIN o : k[1] = name
  <2>1. PICK k \in DOMAIN o : k[1] = name
    BY <1>1
  <2>2. \A j \in DOMAIN o : j[1] = name => j = k
    BY <2>1 DEF KeysFit
  <2>3. (CHOOSE j \in DOMAIN o : j[1] = name) = k
    BY <2>1, <2>2
  <2>4. name \in DOMAIN Renamed(o) /\ Renamed(o)[name] = o[k]
    BY <2>1, <2>3 DEF Renamed
  <2>5. Written(o, name) = {o[k]}
    BY <2>1, <2>2 DEF Written
  <2>6. At(Renamed(o), name) = {o[k]}
    BY <2>4 DEF At
  <2> QED
    BY <2>5, <2>6
<1>2. CASE ~\E k \in DOMAIN o : k[1] = name
  <2>1. name \notin DOMAIN Renamed(o)
    BY <1>2 DEF Renamed
  <2> QED
    BY <1>2, <2>1 DEF At, Written
<1> QED
  BY <1>1, <1>2

\* A value as Canonicalize returns it.
Shaped(v) == IF IsOptions(v) THEN Nested(Renamed(v.options)) ELSE v

\* In options that fit their schema a name is written once at most, with a
\* value of the shape of its default.
LEMMA FitsOnce ==
  ASSUME NEW o, NEW schema, Fits(o, schema), NEW name, NEW v \in Written(o, name)
  PROVE  /\ Written(o, name) = {v}
         /\ name \in DOMAIN schema
         /\ IsOptions(v) <=> IsOptions(schema[name])
         /\ IsOptions(v) => /\ KeysFit(v.options, schema[name].options)
                            /\ \A j \in DOMAIN v.options : ~IsOptions(v.options[j])
<1>1. PICK k \in DOMAIN o : k[1] = name /\ v = o[k]
  BY DEF Written
<1>2. \A j \in DOMAIN o : j[1] = name => j = k
  BY <1>1 DEF Fits, KeysFit
<1>3. Written(o, name) = {v}
  BY <1>1, <1>2 DEF Written
<1>4. name \in DOMAIN schema
  BY <1>1 DEF Fits, KeysFit
<1>5. IsOptions(v) = IsOptions(schema[name])
  BY <1>1 DEF Fits
<1>6. IsOptions(v) => /\ KeysFit(v.options, schema[name].options)
                     /\ \A j \in DOMAIN v.options : ~IsOptions(v.options[j])
  BY <1>1 DEF Fits
<1> QED
  BY <1>3, <1>4, <1>5, <1>6

\* Canonicalize keeps what was written.
LEMMA CanonicalizedAt ==
  ASSUME NEW o, NEW schema, Fits(o, schema), NEW name
  PROVE  At(Canonicalized(o), name) = {Shaped(v) : v \in Written(o, name)}
<1>1. At(Renamed(o), name) = Written(o, name)
  BY RenamedAt DEF Fits
<1>2. At(Canonicalized(o), name) = {Shaped(v) : v \in At(Renamed(o), name)}
  BY DEF At, Canonicalized, Shaped
<1> QED
  BY <1>1, <1>2

\* What the sections of a checked configuration hold.
LEMMA GivenAt ==
  ASSUME NEW these, Canonical(runOptions, these), NEW section, NEW name
  PROVE  /\ At(Given(section), name) = {Shaped(v) : v \in WrittenIn(section, name)}
         /\ \A v \in WrittenIn(section, name) :
              /\ WrittenIn(section, name) = {v}
              /\ name \in DOMAIN Schema[section]
              /\ IsOptions(v) <=> IsOptions(Schema[section][name])
              /\ IsOptions(v) => KeysFit(v.options, Schema[section][name].options)
<1>1. CASE section \in DOMAIN runOptions
  <2> DEFINE o == runOptions[section]
  <2>1. Fits(o, Schema[section])
    BY <1>1 DEF Canonical
  <2>2. Given(section) = Canonicalized(o) /\ WrittenIn(section, name) = Written(o, name)
    BY <1>1 DEF Given, WrittenIn
  <2> HIDE DEF o
  <2> QED
    BY <2>1, <2>2, CanonicalizedAt, FitsOnce
<1>2. CASE section \notin DOMAIN runOptions
  <2>1. DOMAIN <<>> = {}
    BY SMT
  <2> QED
    BY <1>2, <2>1 DEF Given, WrittenIn, At, NoOptions
<1> QED
  BY <1>1, <1>2

\* The value under a name.
LEMMA AtValue == \A o, name : name \in DOMAIN o => o[name] \in At(o, name)
  BY DEF At

\* A scalar field of the struct has its effective value.
LEMMA ScalarField ==
  ASSUME NEW these, Canonical(runOptions, these), Suite \in Registered,
         NEW f \in DOMAIN Fields[Suite], Fields[Suite][f] = {}
  PROVE  At(Struct(Suite), f) = Effective(f)
<1> DEFINE mine == Given(Suite)
           everybodys == Given("global")
           layers == Copied(Copied(everybodys, mine), [toolsDir |-> Scalar("run")])
           defaults == Merge(Schema["global"], Schema[Suite])
           merged == Merge(defaults, layers)
<1>1. /\ f \in DOMAIN Schema["global"] => ~IsOptions(Schema["global"][f])
      /\ f \in DOMAIN Schema[Suite] => ~IsOptions(Schema[Suite][f])
  BY SchemaAssumption
<1>2. ASSUME NEW section \in {Suite, "global"}
      PROVE  /\ At(Given(section), f) = WrittenIn(section, f)
             /\ \A v \in WrittenIn(section, f) : ~IsOptions(v)
  <2>1. \A v \in WrittenIn(section, f) : ~IsOptions(v)
    BY <1>1, <1>2, GivenAt
  <2>2. \A v \in WrittenIn(section, f) : Shaped(v) = v
    BY <2>1 DEF Shaped
  <2>3. At(Given(section), f) = {Shaped(v) : v \in WrittenIn(section, f)}
    BY GivenAt
  <2> QED
    BY <2>1, <2>2, <2>3
<1>3. At([toolsDir |-> Scalar("run")], f) = IF f = "toolsDir" THEN {Scalar("run")} ELSE {}
  <2> DEFINE dir == [toolsDir |-> Scalar("run")]
  <2>1. DOMAIN dir = {"toolsDir"} /\ dir["toolsDir"] = Scalar("run")
    OBVIOUS
  <2> HIDE DEF dir
  <2>2. At(dir, f) = IF f = "toolsDir" THEN {Scalar("run")} ELSE {}
    <3>1. CASE f = "toolsDir"
      BY <2>1, <3>1 DEF At
    <3>2. CASE f # "toolsDir"
      BY <2>1, <3>2 DEF At
    <3> QED
      BY <3>1, <3>2
  <2> QED
    BY <2>2 DEF dir
<1>4. ~IsOptions(Scalar("run"))
  BY DEF IsOptions, Scalar
<1>5. At(layers, f) = IF f = "toolsDir" THEN {Scalar("run")}
                      ELSE FirstOf(WrittenIn(Suite, f), WrittenIn("global", f))
  <2> HIDE DEF mine, everybodys
  <2>1. At(layers, f) = FirstOf(At([toolsDir |-> Scalar("run")], f),
                                FirstOf(At(mine, f), At(everybodys, f)))
    BY CopiedAt
  <2>2. At(mine, f) = WrittenIn(Suite, f) /\ At(everybodys, f) = WrittenIn("global", f)
    BY <1>2 DEF mine, everybodys
  <2> QED
    BY <1>3, <2>1, <2>2 DEF FirstOf
<1>6. \A v \in At(layers, f) : ~IsOptions(v)
  BY <1>2, <1>4, <1>5 DEF FirstOf
<1>7. At(defaults, f) = FirstOf(At(Schema[Suite], f), At(Schema["global"], f))
  BY <1>1, MergeAt
<1>8. \A v \in At(defaults, f) : ~IsOptions(v)
  BY <1>1, <1>7 DEF At, FirstOf
<1> HIDE DEF layers, defaults
<1>9. At(merged, f) = FirstOf(At(layers, f), At(defaults, f))
  BY <1>6, AtValue, MergeAt
<1>10. \A v \in At(merged, f) : ~IsOptions(v)
  BY <1>6, <1>8, <1>9 DEF FirstOf
<1> HIDE DEF merged
<1>11. At(OfStruct(merged, Fields[Suite]), f) = At(merged, f)
  BY <1>10, AtValue, OfStructAt
<1>12. Struct(Suite) = OfStruct(merged, Fields[Suite])
  BY DEF Struct, Layered, merged, layers, defaults
<1>13. At(merged, f) = Effective(f)
  BY <1>5, <1>7, <1>9 DEF Effective, FirstOf
<1> QED
  BY <1>11, <1>12, <1>13

\* A field that is a struct has the effective value in each of its fields.
LEMMA NestedField ==
  ASSUME NEW these, Canonical(runOptions, these), Suite \in Registered,
         NEW f \in DOMAIN Fields[Suite], NEW g \in Fields[Suite][f]
  PROVE  At(Struct(Suite)[f].options, g) = EffectiveIn(f, g)
<1> DEFINE mine == Given(Suite)
           everybodys == Given("global")
           dir == [toolsDir |-> Scalar("run")]
           layers == Copied(Copied(everybodys, mine), dir)
           defaults == Merge(Schema["global"], Schema[Suite])
           merged == Merge(defaults, layers)
           default == Schema[Suite][f]
<1>1. /\ f \in DOMAIN Schema[Suite] /\ f \notin DOMAIN Schema["global"]
      /\ f # "toolsDir" /\ IsOptions(default)
  BY SchemaAssumption
<1>2. f \in DOMAIN defaults /\ defaults[f] = default
  BY <1>1 DEF Merge, Copied
<1>3. WrittenIn("global", f) = {} /\ At(everybodys, f) = {}
  BY <1>1, GivenAt
<1>4. At(layers, f) = At(mine, f)
  <2>1. DOMAIN dir = {"toolsDir"}
    OBVIOUS
  <2> HIDE DEF mine, everybodys, dir
  <2>2. At(dir, f) = {}
    BY <1>1, <2>1 DEF At
  <2>3. At(layers, f) = FirstOf(At(dir, f), FirstOf(At(mine, f), At(everybodys, f)))
    BY CopiedAt
  <2> QED
    BY <1>3, <2>2, <2>3 DEF FirstOf
<1>5. At(mine, f) = {Shaped(v) : v \in WrittenIn(Suite, f)}
  BY GivenAt
<1> HIDE DEF layers, defaults, mine, default
<1>6. Struct(Suite) = OfStruct(merged, Fields[Suite])
  BY DEF Struct, Layered, merged, layers, defaults, mine
<1>7. ASSUME f \in DOMAIN merged, IsOptions(merged[f])
      PROVE  At(Struct(Suite)[f].options, g) = At(merged[f].options, g)
  <2> HIDE DEF merged
  <2>1. Struct(Suite)[f].options =
          [j \in DOMAIN merged[f].options \cap Fields[Suite][f] |-> merged[f].options[j]]
    BY <1>6, <1>7 DEF OfStruct, Nested
  <2> QED
    BY <2>1 DEF At
<1>8. CASE WrittenIn(Suite, f) = {}
  <2>1. f \notin DOMAIN layers
    BY <1>4, <1>5, <1>8 DEF At
  <2>2. f \in DOMAIN merged /\ merged[f] = default
    BY <1>2, <2>1 DEF Merge, Copied
  <2>3. At(Struct(Suite)[f].options, g) = At(default.options, g)
    BY <1>1, <1>7, <2>2
  <2> QED
    BY <1>8, <2>3 DEF EffectiveIn, FirstOf, default
<1>9. ASSUME NEW v \in WrittenIn(Suite, f)
      PROVE  At(Struct(Suite)[f].options, g) = EffectiveIn(f, g)
  <2>1. WrittenIn(Suite, f) = {v} /\ IsOptions(v) /\ KeysFit(v.options, default.options)
    BY <1>1, <1>9, GivenAt DEF default
  <2>2. Shaped(v) = Nested(Renamed(v.options))
    BY <2>1 DEF Shaped
  <2>3. At(layers, f) = {Nested(Renamed(v.options))}
    BY <1>4, <1>5, <2>1, <2>2
  <2>4. f \in DOMAIN layers /\ layers[f] = Nested(Renamed(v.options))
    BY <2>3 DEF At
  <2>5. /\ IsOptions(layers[f])
        /\ layers[f].options = Renamed(v.options)
    BY <2>4 DEF IsOptions, Nested
  <2>6. f \in DOMAIN merged /\ merged[f] = Nested(Copied(default.options, Renamed(v.options)))
    BY <1>1, <1>2, <2>4, <2>5 DEF Merge
  <2>7. IsOptions(merged[f]) /\ merged[f].options = Copied(default.options, Renamed(v.options))
    BY <2>6 DEF IsOptions, Nested
  <2> HIDE DEF merged
  <2>8. At(Struct(Suite)[f].options, g) =
          FirstOf(At(Renamed(v.options), g), At(default.options, g))
    BY <1>7, <2>6, <2>7, CopiedAt
  <2>9. At(Renamed(v.options), g) = Written(v.options, g)
    BY <2>1, RenamedAt
  <2>10. UNION {Written(o.options, g) : o \in WrittenIn(Suite, f)} = Written(v.options, g)
    BY <2>1
  <2> QED
    BY <2>8, <2>9, <2>10 DEF EffectiveIn, default
<1> QED
  BY <1>8, <1>9

\* Every suite is handed what was written for it, or else its defaults, and
\* nothing of the suites before it.
THEOREM OptionsAlwaysEffective == Spec => []EffectiveOptions
<1>1. RunInv => EffectiveOptions
  <2> SUFFICES ASSUME RunInv, pc \in Working, NEW f \in DOMAIN Fields[Suite]
               PROVE  IF Fields[Suite][f] = {}
                      THEN At(options, f) = Effective(f)
                      ELSE \A g \in Fields[Suite][f] :
                             At(options[f].options, g) = EffectiveIn(f, g)
    BY DEF EffectiveOptions, Working
  <2>1. options = Struct(Suite) /\ Canonical(runOptions, Range(testSuites))
    BY DEF RunInv, StructFits, SuitesFit, Checked
  <2>2. Suite \in Registered
    <3>1. testSuites \in Seq(Registered) /\ results \in Seq(Rows) /\ Len(results) < Len(testSuites)
      BY SuitesAreListed DEF RunInv, InputsFit, SuitesFit, ResultsFit
    <3>2. Len(results) \in Nat /\ Len(testSuites) \in Nat
      BY <3>1
    <3>3. Len(results) + 1 \in 1 .. Len(testSuites)
      BY <3>1, <3>2
    <3> QED
      BY <3>1, <3>3 DEF Suite
  <2>3. Fields[Suite][f] = {} => At(options, f) = Effective(f)
    BY <2>1, <2>2, ScalarField
  <2>4. ASSUME NEW g \in Fields[Suite][f]
        PROVE  At(options[f].options, g) = EffectiveIn(f, g)
    BY <2>1, <2>2, NestedField
  <2> QED
    BY <2>3, <2>4
<1> QED
  BY <1>1, RunInvAlways, PTL
=============================================================================
