----------------------------- MODULE ToolProofs -----------------------------
(***************************************************************************)
(* What holds of "hvperf tool" for all archives, paths and numbers of      *)
(* commands: an install without an error has installed everything, a bad   *)
(* entry costs no other one, and nothing goes without a yes.               *)
(***************************************************************************)
EXTENDS ToolInstall, TLAPS

\* The entry under way has no file of its own yet.
Within == {"open file", "copy"}

\* The regular entries that the loop is through with and that none it has
\* begun replaces.
Done ==
  {i \in 1 .. entry :
     /\ archive[i].regular
     /\ pc \in Within => i # entry
     /\ \A j \in 1 .. entry :
          archive[j].regular /\ archive[j].name = archive[i].name => j <= i}

\* Where in a command there is an entry, and what its file is like.
EntryFits ==
  /\ pc \in Within \cup {"close"} => entry > 0 /\ archive[entry].regular
  /\ pc = "copy" =>
       Name \in DOMAIN files /\ files[Name] = [entry |-> entry, whole |-> FALSE]
  /\ pc \in {"open", "confirm", "remove"} \/ (pc = "idle" /\ exit = "none")
       => entry = 0 /\ errored = {}

\* How a command goes on and ends.
CommandFits ==
  /\ pc # "idle" => exit = "none"
  /\ pc # "end"
  /\ pc \in {"confirm", "remove"} => archive = <<>>
  /\ pc = "remove" => answered
  /\ pc = "list" \/ exit = "ok" => errored = {} /\ entry = Len(archive)
  /\ pc = "idle" /\ exit = "error" /\ ~broken /\ entry > 0 => entry = Len(archive)

\* What the loop is through with is there, unless it has an error.
DoneIsInstalled == exit # "killed" => \A i \in Done \ errored : Installed(i)

\* The inductive invariant.
ToolInv == TypeOK /\ EntryFits /\ CommandFits /\ DoneIsInstalled

-----------------------------------------------------------------------------
(* The first state, and the parts of the invariant one by one.             *)

\* What can be in "archive" is a sequence of entries.
LEMMA ArchivesAreSequences ==
  ASSUME NEW a \in Archives \cup {<<>>}
  PROVE  /\ a \in Seq([name : Names, regular : BOOLEAN])
         /\ Len(a) \in Nat /\ DOMAIN a = 1 .. Len(a)
<1>1. a \in Seq([name : Names, regular : BOOLEAN])
  <2>1. CASE a \in Archives
    BY <2>1, ToolsAssumption
  <2>2. CASE a = <<>>
    BY <2>2
  <2> QED
    BY <2>1, <2>2
<1> QED
  BY <1>1

\* In particular the archive under way.
LEMMA ArchiveIsSequence ==
  ASSUME TypeOK
  PROVE  /\ archive \in Seq([name : Names, regular : BOOLEAN])
         /\ Len(archive) \in Nat /\ DOMAIN archive = 1 .. Len(archive)
<1>1. archive \in Archives \cup {<<>>}
  BY DEF TypeOK
<1> QED
  BY <1>1, ArchivesAreSequences

\* The tools directory is not there at first, and no command has run.
LEMMA ToolInit == Init => ToolInv
<1> SUFFICES ASSUME Init PROVE ToolInv
  OBVIOUS
<1>1. TypeOK
  <2>1. count \in 0 .. LastCommand
    BY ToolsAssumption DEF Init
  <2>2. entry \in 0 .. Len(archive) /\ archive \in Archives \cup {<<>>}
    BY DEF Init
  <2>3. files = [n \in {} |-> 0] /\ DOMAIN files = {}
    BY DEF Init, NoFiles
  <2> QED
    BY <2>1, <2>2, <2>3 DEF Init, TypeOK
<1>2. EntryFits /\ CommandFits
  BY DEF Init, EntryFits, CommandFits, Within
<1>3. Done = {}
  BY DEF Init, Done
<1> QED
  BY <1>1, <1>2, <1>3 DEF ToolInv, DoneIsInstalled

\* Entries are counted up to the length of the archive.
LEMMA EntryIsCount ==
  ASSUME TypeOK
  PROVE  entry \in Nat /\ entry <= Len(archive) /\ Len(archive) \in Nat
<1>1. Len(archive) \in Nat /\ entry \in 0 .. Len(archive)
  BY ArchiveIsSequence DEF TypeOK
<1> QED
  BY <1>1

\* Commands begin with an entry count of 0 and leave the files where they
\* are.
LEMMA TypesOfStart ==
  ASSUME TypeOK, NEW next, Starts(next), archive' \in Archives \cup {<<>>},
         answered' \in BOOLEAN, dir' \in BOOLEAN,
         next \in {"open", "list", "confirm", "remove"}
  PROVE  TypeOK'
<1>1. archive' \in Seq([name : Names, regular : BOOLEAN]) /\ Len(archive') \in Nat
  BY ArchivesAreSequences
<1>2. DOMAIN files' \subseteq Names
  BY DEF Starts, Older, TypeOK
<1>3. \A n \in DOMAIN files' : files'[n] \in [entry : 0 .. Len(archive'), whole : BOOLEAN]
  BY <1>1 DEF Starts, Older, TypeOK
<1>4. count' \in 0 .. LastCommand
  BY ToolsAssumption DEF Starts, TypeOK
<1>5. entry' = 0 /\ errored' = {} /\ broken' = FALSE
  BY DEF Starts
<1>5a. Len(archive') \in Nat
  BY <1>1
<1>5b. entry' \in 0 .. Len(archive')
  BY <1>5, <1>5a
<1>6. pc' = next /\ exit' = "none"
  BY DEF Starts
<1> QED
  BY <1>2, <1>3, <1>4, <1>5, <1>5b, <1>6 DEF TypeOK

\* What is in a sequence of entries is an entry.
LEMMA ElementIsInSet ==
  ASSUME NEW S, NEW s \in Seq(S), NEW i \in 1 .. Len(s)
  PROVE  s[i] \in S
  OBVIOUS

\* The entry under way is one of the archive.
LEMMA EntryOfArchive ==
  ASSUME TypeOK, EntryFits, pc \in Within \cup {"close"}
  PROVE  entry \in DOMAIN archive /\ entry \in 0 .. Len(archive) /\ Name \in Names
<1>1. entry \in Nat /\ entry > 0 /\ entry <= Len(archive)
  BY EntryIsCount DEF EntryFits
<1>2. entry \in 1 .. Len(archive) /\ Len(archive) \in Nat
  BY <1>1, ArchiveIsSequence
<1>3. archive[entry] \in [name : Names, regular : BOOLEAN]
  <2> DEFINE Entries == [name : Names, regular : BOOLEAN]
  <2>1. archive \in Seq(Entries)
    BY ArchiveIsSequence
  <2> HIDE DEF Entries
  <2>2. archive[entry] \in Entries
    BY <1>2, <2>1, ElementIsInSet
  <2> QED
    BY <2>2 DEF Entries
<1>4. DOMAIN archive = 1 .. Len(archive)
  BY ArchiveIsSequence
<1>5. Name \in Names
  BY <1>3 DEF Name
<1> QED
  BY <1>2, <1>4, <1>5

\* A file of the entry under way is one like the others.
LEMMA FilesWith ==
  ASSUME TypeOK, EntryFits, pc \in Within \cup {"close"}, UNCHANGED archive,
         NEW whole \in BOOLEAN, files' = With([entry |-> entry, whole |-> whole])
  PROVE  /\ DOMAIN files' \subseteq Names
         /\ \A n \in DOMAIN files' : files'[n] \in [entry : 0 .. Len(archive'), whole : BOOLEAN]
<1>1. entry \in 0 .. Len(archive) /\ Name \in Names
  BY EntryOfArchive
<1>2. /\ DOMAIN files \subseteq Names
      /\ \A n \in DOMAIN files : files[n] \in [entry : 0 .. Len(archive), whole : BOOLEAN]
  BY DEF TypeOK
<1> QED
  BY <1>1, <1>2 DEF With

\* The next entry is one of the archive, too.
LEMMA NextEntryCounts ==
  ASSUME TypeOK, NextEntry
  PROVE  entry' = entry + 1 /\ entry' \in 0 .. Len(archive) /\ entry' > 0
<1>1. entry < Len(archive) /\ entry' = entry + 1
  BY DEF NextEntry
<1>2. entry \in Nat /\ Len(archive) \in Nat
  BY EntryIsCount
<1> QED
  BY <1>1, <1>2

\* Every step keeps the types.
LEMMA TypesKept == TypeOK /\ EntryFits /\ [Next]_vars => TypeOK'
<1> SUFFICES ASSUME TypeOK, EntryFits, [Next]_vars PROVE TypeOK'
  OBVIOUS
<1>1. CASE Install
  BY <1>1, TypesOfStart DEF Install, TypeOK
<1>2. CASE List
  BY <1>2, TypesOfStart DEF List, TypeOK
<1>3. CASE Uninstall
  BY <1>3, TypesOfStart DEF Uninstall, TypeOK
<1>4. CASE OpensFile
  <2>1. UNCHANGED <<commandVars, readVars, exit, dir>> /\ pc' = "copy"
    BY <1>4 DEF OpensFile
  <2>2. /\ DOMAIN files' \subseteq Names
        /\ \A n \in DOMAIN files' : files'[n] \in [entry : 0 .. Len(archive'), whole : BOOLEAN]
    BY <1>4, FilesWith DEF OpensFile, Within, commandVars
  <2> QED
    BY <2>1, <2>2 DEF TypeOK, commandVars, readVars
<1>5. CASE Copies
  <2>1. UNCHANGED <<commandVars, readVars, exit, dir>> /\ pc' = "close"
    BY <1>5 DEF Copies
  <2>2. /\ DOMAIN files' \subseteq Names
        /\ \A n \in DOMAIN files' : files'[n] \in [entry : 0 .. Len(archive'), whole : BOOLEAN]
    BY <1>5, FilesWith DEF Copies, Within, commandVars
  <2> QED
    BY <2>1, <2>2 DEF TypeOK, commandVars, readVars
<1>6. CASE OpenFileFails
  <2>1. entry \in DOMAIN archive
    BY <1>6, EntryOfArchive DEF OpenFileFails, Within
  <2>2. /\ UNCHANGED <<commandVars, entry, broken, exit, dir, files>>
        /\ errored' = errored \cup {entry} /\ pc' = "next"
    BY <1>6 DEF OpenFileFails, Recorded, Continue
  <2> QED
    BY <2>1, <2>2 DEF TypeOK, commandVars
<1>7. CASE CopyFails
  <2>1. entry \in DOMAIN archive
    BY <1>7, EntryOfArchive DEF CopyFails, Within
  <2>2. /\ UNCHANGED <<commandVars, entry, exit, dir>>
        /\ errored' = errored \cup {entry} /\ pc' = "next" /\ broken' \in BOOLEAN
    BY <1>7 DEF CopyFails, Recorded, Continue
  <2>3. /\ DOMAIN files' \subseteq DOMAIN files
        /\ \A n \in DOMAIN files' : files'[n] = files[n]
    BY <1>7 DEF CopyFails, Without
  <2> QED
    BY <2>1, <2>2, <2>3 DEF TypeOK, commandVars
<1>8. CASE CloseFails
  <2>1. entry \in DOMAIN archive
    BY <1>8, EntryOfArchive DEF CloseFails
  <2>2. /\ UNCHANGED <<commandVars, entry, broken, exit, dir>>
        /\ errored' = errored \cup {entry} /\ pc' = "next"
    BY <1>8 DEF CloseFails, Recorded, Continue
  <2>3. /\ DOMAIN files' \subseteq Names
        /\ \A n \in DOMAIN files' : files'[n] \in [entry : 0 .. Len(archive'), whole : BOOLEAN]
    BY <1>8, FilesWith DEF CloseFails, commandVars
  <2> QED
    BY <2>1, <2>2, <2>3 DEF TypeOK, commandVars
<1>9. CASE NextEntry
  <2>1. entry' \in 0 .. Len(archive)
    BY <1>9, NextEntryCounts
  <2>2. /\ UNCHANGED <<commandVars, errored, broken, exit, dir, files>>
        /\ pc' \in {"open file", "next"}
    BY <1>9 DEF NextEntry
  <2> QED
    BY <2>1, <2>2 DEF TypeOK, commandVars
<1>10. CASE RemovesFile
  <2>1. /\ DOMAIN files' \subseteq DOMAIN files
        /\ \A n \in DOMAIN files' : files'[n] = files[n]
    BY <1>10 DEF RemovesFile
  <2>2. UNCHANGED <<commandVars, readVars, pc, exit, dir>>
    BY <1>10 DEF RemovesFile
  <2> QED
    BY <2>1, <2>2 DEF TypeOK, commandVars, readVars
<1>11. CASE Killed \/ CannotOpen \/ Opens \/ Closes \/ EndsArchive \/ Lists \/ Declines
              \/ RemoveFails
  <2>1. UNCHANGED <<commandVars, readVars, dir, files>>
    BY <1>11 DEF Killed, CannotOpen, Opens, Closes, EndsArchive, Lists, Declines, RemoveFails
  <2>2. pc' \in {"idle", "next", "list"} /\ exit' \in {exit, "killed", "error", "ok"}
    BY <1>11 DEF Killed, CannotOpen, Opens, Closes, EndsArchive, Lists, Declines, Leave,
           RemoveFails, Exits
  <2> QED
    BY <2>1, <2>2 DEF TypeOK, commandVars, readVars
<1>12. CASE NextFails \/ Confirms \/ RemovesDir
  BY <1>12 DEF NextFails, Confirms, RemovesDir, Exits, TypeOK, commandVars, readVars
<1>13. CASE UNCHANGED vars
  BY <1>13 DEF vars, commandVars, readVars, TypeOK
<1> QED
  BY <1>1, <1>2, <1>3, <1>4, <1>5, <1>6, <1>7, <1>8, <1>9, <1>10, <1>11, <1>12, <1>13
  DEF Next, Finished

\* Every step keeps the order of a command.
LEMMA CommandKept ==
  TypeOK /\ EntryFits /\ CommandFits /\ [Next]_vars => EntryFits' /\ CommandFits'
<1> SUFFICES ASSUME TypeOK, EntryFits, CommandFits, [Next]_vars
             PROVE  EntryFits' /\ CommandFits'
  OBVIOUS
<1> USE DEF EntryFits, CommandFits, Within, commandVars, readVars
<1>1. CASE Install \/ List \/ Uninstall
  BY <1>1 DEF Install, List, Uninstall, Starts
<1>2. CASE OpensFile
  <2>1. Name' = Name
    BY <1>2 DEF OpensFile, Name
  <2> QED
    BY <1>2, <2>1 DEF OpensFile, With
<1>3. CASE Copies \/ CopyFails
  BY <1>3 DEF Copies, CopyFails, Continue
<1>4. CASE OpenFileFails \/ CloseFails
  BY <1>4 DEF OpenFileFails, CloseFails, Continue
<1>5. CASE NextEntry
  <2>1. entry' = entry + 1 /\ UNCHANGED archive
    BY <1>5 DEF NextEntry
  <2>2. /\ pc' \in {"open file", "next"} /\ exit' = "none"
        /\ pc' = "open file" => archive[entry'].regular
    BY <1>5, <2>1 DEF NextEntry
  <2>3. entry' > 0
    BY <1>5, NextEntryCounts
  <2>4. EntryFits'
    BY <2>1, <2>2, <2>3
  <2>5. CommandFits'
    BY <2>2
  <2> QED
    BY <2>4, <2>5
<1>6. CASE Killed
  BY <1>6 DEF Killed, Exits
<1>6b. CASE CannotOpen
  BY <1>6b DEF CannotOpen, Exits
<1>6c. CASE NextFails
  BY <1>6c DEF NextFails, Exits
<1>6a. CASE Opens \/ Closes
  BY <1>6a DEF Opens, Closes
<1>7. CASE EndsArchive
  BY <1>7 DEF EndsArchive, Exits
<1>8. CASE Lists
  BY <1>8 DEF Lists, Exits
<1>9. CASE Confirms
  BY <1>9 DEF Confirms
<1>9a. CASE RemovesFile
  BY <1>9a DEF RemovesFile
<1>9b. CASE RemoveFails
  BY <1>9b DEF RemoveFails, Exits
<1>10. CASE Declines \/ RemovesDir
  <2>1. Len(archive) = 0
    BY <1>10 DEF Declines, RemovesDir
  <2> QED
    BY <1>10, <2>1 DEF Declines, Leave, RemovesDir, Exits
<1>11. CASE UNCHANGED vars
  BY <1>11 DEF vars, Name
<1> QED
  BY <1>1, <1>2, <1>3, <1>4, <1>5, <1>6, <1>6a, <1>6b, <1>6c, <1>7, <1>8, <1>9,
     <1>9a, <1>9b, <1>10, <1>11 DEF Next, Finished

-----------------------------------------------------------------------------
(* What the loop is through with.                                          *)

\* Nothing is taken back while the files stay and no entry is done with.
LEMMA FilesStay ==
  ASSUME DoneIsInstalled, exit # "killed",
         UNCHANGED <<archive, files>>, Done' \ errored' \subseteq Done \ errored
  PROVE  DoneIsInstalled'
  BY DEF DoneIsInstalled, Installed

\* No entry that is done with has the name of the one under way.
LEMMA OtherNames ==
  ASSUME TypeOK, EntryFits, pc \in Within \cup {"close"},
         NEW i \in Done, i # entry
  PROVE  archive[i].name # Name
<1>1. entry \in Nat /\ entry > 0 /\ archive[entry].regular /\ i \in 1 .. entry
  BY EntryIsCount DEF EntryFits, Done
<1>2. archive[entry].name = archive[i].name => entry <= i
  BY <1>1 DEF Done
<1> QED
  BY <1>1, <1>2 DEF Name

\* While a file of the entry under way is written, those of entries that
\* are done with stay as they are.
LEMMA OtherFilesStay ==
  ASSUME TypeOK, EntryFits, DoneIsInstalled, exit # "killed",
         pc \in Within \cup {"close"}, UNCHANGED archive,
         \A n \in DOMAIN files \ {Name} : n \in DOMAIN files' /\ files'[n] = files[n],
         Done' \ errored' \subseteq (Done \ errored) \ {entry}
  PROVE  DoneIsInstalled'
<1> SUFFICES ASSUME NEW i \in Done' \ errored' PROVE Installed(i)'
  BY DEF DoneIsInstalled
<1>1. i \in Done \ errored /\ i # entry
  OBVIOUS
<1>2. archive[i].name # Name
  BY <1>1, OtherNames
<1>3. Installed(i)
  BY <1>1 DEF DoneIsInstalled
<1> QED
  BY <1>2, <1>3 DEF Installed

\* Every step keeps what the loop is through with.
LEMMA InstalledKept == ToolInv /\ [Next]_vars => DoneIsInstalled'
<1> SUFFICES ASSUME ToolInv, [Next]_vars PROVE DoneIsInstalled'
  OBVIOUS
<1> USE DEF ToolInv
<1>1. CASE Install \/ List \/ Uninstall
  <2>1. entry' = 0
    BY <1>1 DEF Install, List, Uninstall, Starts
  <2> QED
    BY <2>1 DEF DoneIsInstalled, Done
<1>2. CASE NextEntry
  <2>1. exit # "killed" /\ UNCHANGED <<archive, files, errored>>
    BY <1>2 DEF NextEntry, CommandFits, commandVars
  <2>2. entry \in Nat /\ entry' = entry + 1 /\ pc = "next"
    BY <1>2, EntryIsCount DEF NextEntry
  <2>3. entry' \notin Done'
    BY <1>2, <2>1, <2>2 DEF NextEntry, Done, Within
  <2>4. Done' \subseteq Done
    <3> SUFFICES ASSUME NEW i \in Done' PROVE i \in Done
      OBVIOUS
    <3>1. i \in 1 .. entry' /\ i # entry'
      BY <2>3 DEF Done
    <3>2. i \in 1 .. entry /\ \A j \in 1 .. entry : j \in 1 .. entry'
      BY <2>2, <3>1
    <3>3. /\ archive[i].regular
          /\ \A j \in 1 .. entry' :
               archive[j].regular /\ archive[j].name = archive[i].name => j <= i
      BY <2>1 DEF Done
    <3> QED
      BY <2>2, <3>2, <3>3 DEF Done, Within
  <2> QED
    BY <2>1, <2>4, FilesStay
<1>3. CASE OpensFile
  <2>1. exit # "killed" /\ pc \in Within /\ pc' \in Within
    BY <1>3 DEF OpensFile, CommandFits, Within
  <2>2. UNCHANGED <<archive, errored, entry>>
    BY <1>3 DEF OpensFile, commandVars, readVars
  <2>3. Done' \ errored' \subseteq (Done \ errored) \ {entry}
    BY <2>1, <2>2 DEF Done
  <2> QED
    BY <1>3, <2>1, <2>2, <2>3, OtherFilesStay DEF OpensFile, With
<1>4. CASE OpenFileFails \/ CopyFails
  <2>1. exit # "killed" /\ pc \in Within /\ pc' \notin Within
    BY <1>4 DEF OpenFileFails, CopyFails, Continue, CommandFits, Within
  <2>2. UNCHANGED <<archive, entry>> /\ errored' = errored \cup {entry}
    BY <1>4 DEF OpenFileFails, CopyFails, Recorded, commandVars
  <2>3. Done' \ errored' \subseteq (Done \ errored) \ {entry}
    BY <2>1, <2>2 DEF Done
  <2>4. files' \in {Without, files}
    BY <1>4 DEF OpenFileFails, CopyFails
  <2> QED
    BY <2>1, <2>2, <2>3, <2>4, OtherFilesStay DEF Without
<1>5. CASE Copies
  <2>1. exit # "killed" /\ pc = "copy" /\ pc' = "close"
    BY <1>5 DEF Copies, CommandFits
  <2>2. UNCHANGED <<archive, errored, entry>> /\ Name' = Name
    BY <1>5 DEF Copies, commandVars, readVars, Name
  <2> SUFFICES ASSUME NEW i \in Done' \ errored' PROVE Installed(i)'
    BY DEF DoneIsInstalled
  <2>3. CASE i = entry
    BY <1>5, <2>2, <2>3 DEF Copies, With, Installed, Name
  <2>4. CASE i # entry
    <3>1. i \in Done \ errored
      BY <2>1, <2>2, <2>4 DEF Done
    <3>2. archive[i].name # Name
      BY <2>1, <2>4, <3>1, OtherNames DEF Within
    <3>3. Installed(i)
      BY <2>1, <3>1 DEF DoneIsInstalled
    <3> QED
      BY <1>5, <2>2, <3>2, <3>3 DEF Copies, With, Installed
  <2> QED
    BY <2>3, <2>4
<1>6. CASE CloseFails
  <2>1. exit # "killed" /\ pc = "close" /\ pc' \notin Within
    BY <1>6 DEF CloseFails, Continue, CommandFits, Within
  <2>2. UNCHANGED <<archive, entry>> /\ errored' = errored \cup {entry}
    BY <1>6 DEF CloseFails, Recorded, commandVars
  <2>3. Done' \ errored' \subseteq (Done \ errored) \ {entry}
    BY <2>1, <2>2 DEF Done, Within
  <2> QED
    BY <1>6, <2>1, <2>2, <2>3, OtherFilesStay DEF CloseFails, With
<1>7. CASE Opens \/ NextFails \/ CannotOpen \/ Closes \/ EndsArchive \/ Lists
  <2>1. exit # "killed" /\ UNCHANGED <<archive, files, entry, errored>>
    BY <1>7 DEF Opens, NextFails, CannotOpen, Closes, EndsArchive, Lists, Exits,
           CommandFits, commandVars, readVars
  <2>2. pc \notin Within /\ pc' \notin Within
    BY <1>7 DEF Opens, NextFails, CannotOpen, Closes, EndsArchive, Lists, Exits, Within
  <2>3. Done' = Done
    BY <2>1, <2>2 DEF Done
  <2> QED
    BY <2>1, <2>3, FilesStay
<1>8. CASE Confirms \/ Declines \/ RemovesFile \/ RemovesDir \/ RemoveFails
  <2>1. entry' = 0
    BY <1>8 DEF Confirms, Declines, RemovesFile, RemovesDir, RemoveFails, EntryFits,
           commandVars, readVars
  <2> QED
    BY <2>1 DEF DoneIsInstalled, Done
<1>9. CASE Killed
  BY <1>9 DEF Killed, Exits, DoneIsInstalled
<1>10. CASE UNCHANGED vars
  BY <1>10 DEF vars, commandVars, readVars, DoneIsInstalled, Done, Installed
<1> QED
  BY <1>1, <1>2, <1>3, <1>4, <1>5, <1>6, <1>7, <1>8, <1>9, <1>10 DEF Next, Finished

-----------------------------------------------------------------------------
(* The theorems.                                                           *)

\* The invariant holds of all commands, one after the other.
THEOREM ToolInvAlways == Spec => []ToolInv
<1>1. ToolInv /\ [Next]_vars => ToolInv'
  BY TypesKept, CommandKept, InstalledKept DEF ToolInv
<1> QED
  BY ToolInit, <1>1, PTL DEF Spec

\* All variables of "hvperf tool" keep their types.
THEOREM ToolTypes == Spec => []TypeOK
<1>1. ToolInv => TypeOK
  BY DEF ToolInv
<1> QED
  BY <1>1, ToolInvAlways, PTL

\* An entry that is the last of its name is done with at the end.
LEMMA LatestIsDone ==
  ASSUME ToolInv, entry = Len(archive), pc \notin Within
  PROVE  Latest \subseteq Done
  BY ArchiveIsSequence DEF ToolInv, Latest, Regular, Done

\* An install without an error leaves every tool of its archive whole and in
\* its last version, after whatever commands.
THEOREM WholeAlways == Spec => []InstalledIsWhole
<1>1. ToolInv => InstalledIsWhole
  <2> SUFFICES ASSUME ToolInv, exit = "ok" PROVE \A i \in Latest : Installed(i)
    BY DEF InstalledIsWhole
  <2>1. pc = "idle" /\ errored = {} /\ entry = Len(archive)
    BY DEF ToolInv, CommandFits
  <2>2. Latest \subseteq Done
    BY <2>1, LatestIsDone DEF Within
  <2> QED
    BY <2>1, <2>2 DEF ToolInv, DoneIsInstalled
<1> QED
  BY <1>1, ToolInvAlways, PTL

\* An entry that cannot be written costs no other one.
THEOREM OthersAlways == Spec => []OthersAreInstalled
<1>1. ToolInv => OthersAreInstalled
  <2> SUFFICES ASSUME ToolInv, pc \in {"idle", "list"}, exit # "killed", ~broken, entry > 0
               PROVE  \A i \in Latest \ errored : Installed(i)
    BY DEF OthersAreInstalled
  <2>1. exit \in {"none", "ok", "error"} /\ entry \in Nat
    BY EntryIsCount DEF ToolInv, TypeOK
  <2>2. entry = Len(archive)
    BY <2>1 DEF ToolInv, CommandFits, EntryFits
  <2>3. Latest \subseteq Done
    BY <2>2, LatestIsDone DEF Within
  <2> QED
    BY <2>3 DEF ToolInv, DoneIsInstalled
<1> QED
  BY <1>1, ToolInvAlways, PTL

\* A tool goes with a yes, or for an entry of its own name that was begun
\* over it and has an error.
THEOREM KeepsAlways == Spec => KeepsUnlessTold
<1> DEFINE Keeps ==
      \A n \in DOMAIN files \ DOMAIN files' :
        answered \/ (files[n].entry # 0 /\ files[n].entry \in errored')
<1>1. ToolInv /\ [Next]_vars => [Keeps]_vars
  <2> SUFFICES ASSUME ToolInv, [Next]_vars PROVE Keeps
    OBVIOUS
  <2>1. CASE CopyFails
    <3>1. pc = "copy" /\ entry # 0 /\ files[Name] = [entry |-> entry, whole |-> FALSE]
      BY <2>1, ArchiveIsSequence DEF CopyFails, ToolInv, EntryFits, Within, TypeOK
    <3>2. errored' = errored \cup {entry}
      BY <2>1 DEF CopyFails, Recorded
    <3>3. DOMAIN files \ DOMAIN files' \subseteq {Name}
      BY <2>1 DEF CopyFails, Without
    <3> QED
      BY <3>1, <3>2, <3>3
  <2>2. CASE RemovesFile
    BY <2>2 DEF RemovesFile, ToolInv, CommandFits
  <2>3. CASE Install \/ List \/ Uninstall
    <3>1. files' = Older
      BY <2>3 DEF Install, List, Uninstall, Starts
    <3> QED
      BY <3>1 DEF Older
  <2>4. CASE OpensFile \/ Copies \/ CloseFails
    BY <2>4 DEF OpensFile, Copies, CloseFails, With
  <2>5. CASE UNCHANGED files
    BY <2>5
  <2> QED
    BY <2>1, <2>2, <2>3, <2>4, <2>5
    DEF Next, Killed, CannotOpen, Opens, NextEntry, NextFails, OpenFileFails, Closes,
        EndsArchive, Lists, Confirms, Declines, RemovesDir, RemoveFails, Finished, vars
<1> QED
  BY <1>1, ToolInvAlways, PTL DEF KeepsUnlessTold, Spec
=============================================================================
