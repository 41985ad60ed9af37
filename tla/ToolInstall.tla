----------------------------- MODULE ToolInstall -----------------------------
(***************************************************************************)
(* "hvperf tool": cmd/tools.go.  "install" unpacks an archive over the     *)
(* tools directory entry by entry, and goes on after an entry that it      *)
(* cannot write; "list" shows what is in the directory; "uninstall" removes*)
(* all of it after a confirmation.  Commands follow each other, and each   *)
(* may be killed between any two steps: a signal only cancels a context    *)
(* that these commands never look at, so that it takes a kill to stop one. *)
(***************************************************************************)
EXTENDS Integers, Sequences

CONSTANTS
  Names,          \* paths of entries, as filepath.Clean leaves them
  Deep,           \* those with a directory in them
  Archives,       \* archives: sequences of entries, a path and a type each
  LastCommand,    \* bound: how many commands there are
  CallsMayFail    \* BOOLEAN: the file system and the source may fail

ASSUME ToolsAssumption ==
  /\ Deep \subseteq Names
  /\ \A a \in Archives : a \in Seq([name : Names, regular : BOOLEAN])
  /\ LastCommand \in Nat /\ CallsMayFail \in BOOLEAN

VARIABLES
  count,     \* number of the command
  pc,        \* what it does next
  exit,      \* of "install", "list", "uninstall": its error or none
  answered,  \* "uninstall" got a yes, from its flag or its user
  archive,   \* the one under way, <<>> for other commands
  entry,     \* how many entries Next has returned
  errored,   \* entries in readErr
  broken,    \* Next has failed, or is bound to: the error is in readErr, too
  dir,       \* toolsDir exists
  files      \* names in it -> the entry a file is of, 0 for an earlier
             \* command's, and whether all of it is there

commandVars == <<count, answered, archive>>
readVars == <<entry, errored, broken>>
vars == <<commandVars, readVars, pc, exit, dir, files>>

NoFiles == [n \in {} |-> 0]

Init ==
  /\ count = 0 /\ pc = "idle" /\ exit = "none" /\ answered = FALSE
  /\ archive = <<>> /\ entry = 0 /\ errored = {} /\ broken = FALSE
  /\ dir = FALSE /\ files = NoFiles

-----------------------------------------------------------------------------
(* Commands.                                                               *)

Older == [n \in DOMAIN files |-> [files[n] EXCEPT !.entry = 0]]

Starts(next) ==
  /\ pc = "idle" /\ count < LastCommand
  /\ count' = count + 1
  /\ pc' = next /\ exit' = "none"
  /\ entry' = 0 /\ errored' = {} /\ broken' = FALSE
  /\ files' = Older

\* MkdirAll, which may fail.
Install ==
  /\ Starts("open")
  /\ archive' \in Archives /\ answered' = FALSE
  /\ dir' = TRUE \/ (CallsMayFail /\ dir' = dir)

List == Starts("list") /\ archive' = <<>> /\ answered' = FALSE /\ UNCHANGED dir

\* skipUninstallConfirm.
Uninstall ==
  /\ archive' = <<>>
  /\ \/ Starts("confirm") /\ answered' = FALSE
     \/ Starts("remove") /\ answered' = TRUE
  /\ UNCHANGED dir

Exits(how) == pc' = "idle" /\ exit' = how

\* A kill: what has been done to the directory stays.
Killed ==
  /\ pc # "idle"
  /\ Exits("killed")
  /\ UNCHANGED <<commandVars, readVars, dir, files>>

-----------------------------------------------------------------------------
(* installTools.                                                           *)

\* The source cannot be had, or is no archive; or the directory cannot be
\* made or opened.
CannotOpen ==
  /\ pc = "open" /\ (CallsMayFail \/ ~dir)
  /\ Exits("error")
  /\ UNCHANGED <<commandVars, readVars, dir, files>>

Opens ==
  /\ pc = "open" /\ dir
  /\ pc' = "next"
  /\ UNCHANGED <<commandVars, readVars, exit, dir, files>>

\* The next entry; one that is no regular file is skipped.
NextEntry ==
  /\ pc = "next" /\ ~broken /\ entry < Len(archive)
  /\ entry' = entry + 1
  /\ pc' = IF archive[entry + 1].regular THEN "open file" ELSE "next"
  /\ UNCHANGED <<commandVars, errored, broken, exit, dir, files>>

\* Next fails, and would fail again: the archive is cut off, or its bytes
\* make no entry.
NextFails ==
  /\ pc = "next" /\ (broken \/ CallsMayFail)
  /\ broken' = TRUE
  /\ Exits("error")
  /\ UNCHANGED <<commandVars, entry, errored, dir, files>>

Name == archive[entry].name

With(f) == [n \in DOMAIN files \cup {Name} |-> IF n = Name THEN f ELSE files[n]]

Without == [n \in DOMAIN files \ {Name} |-> files[n]]

\* O_TRUNC: what was there is gone before anything is copied.
OpensFile ==
  /\ pc = "open file" /\ Name \notin Deep
  /\ files' = With([entry |-> entry, whole |-> FALSE])
  /\ pc' = "copy"
  /\ UNCHANGED <<commandVars, readVars, exit, dir>>

\* After an error in an entry.
\* Variant: the loop is left.
Stop == "end"

Continue == "next"

\* What an error adds to readErr.
\* Variant: it is logged, and that is all.
Unrecorded == errored

Recorded == errored \cup {entry}

\* The file is as it was.  No entry makes a directory, so one in a directory
\* of the archive always ends here.
OpenFileFails ==
  /\ pc = "open file" /\ (CallsMayFail \/ Name \in Deep)
  /\ errored' = Recorded
  /\ pc' = Continue
  /\ UNCHANGED <<commandVars, entry, broken, exit, dir, files>>

Copies ==
  /\ pc = "copy"
  /\ files' = With([entry |-> entry, whole |-> TRUE])
  /\ pc' = "close"
  /\ UNCHANGED <<commandVars, readVars, exit, dir>>

\* The archive cannot be read on, for good, or the file not be written on.
\* What there is of it is removed, unless that fails, too.
CopyFails ==
  /\ pc = "copy" /\ CallsMayFail
  /\ errored' = Recorded
  /\ broken' \in BOOLEAN
  /\ files' \in {Without, files}
  /\ pc' = Continue
  /\ UNCHANGED <<commandVars, entry, exit, dir>>

Closes ==
  /\ pc = "close"
  /\ pc' = "next"
  /\ UNCHANGED <<commandVars, readVars, exit, dir, files>>

\* A file whose Close fails stays, and may lack what was to be written late.
CloseFails ==
  /\ pc = "close" /\ CallsMayFail
  /\ errored' = Recorded
  /\ \E whole \in BOOLEAN : files' = With([entry |-> entry, whole |-> whole])
  /\ pc' = Continue
  /\ UNCHANGED <<commandVars, entry, broken, exit, dir>>

\* io.EOF: without an error the tools are listed.
EndsArchive ==
  /\ \/ pc = "next" /\ ~broken /\ entry = Len(archive)
     \/ pc = "end"
  /\ IF errored = {} THEN pc' = "list" /\ UNCHANGED exit ELSE Exits("error")
  /\ UNCHANGED <<commandVars, readVars, dir, files>>

-----------------------------------------------------------------------------
\* listTools: ReadDir.
Lists ==
  /\ pc = "list"
  /\ \/ dir /\ Exits("ok")
     \/ (CallsMayFail \/ ~dir) /\ Exits("error")
  /\ UNCHANGED <<commandVars, readVars, dir, files>>

-----------------------------------------------------------------------------
(* uninstallTools.  An answer that is neither yes nor no is asked for      *)
(* again.                                                                  *)

Confirms ==
  /\ pc = "confirm"
  /\ answered' = TRUE
  /\ pc' = "remove"
  /\ UNCHANGED <<count, archive, readVars, exit, dir, files>>

\* What the end of the input stands for.
\* Variant: a yes.
Remove == pc' = "remove" /\ UNCHANGED exit

Leave == Exits("ok")

Declines ==
  /\ pc = "confirm"
  /\ Leave
  /\ UNCHANGED <<commandVars, readVars, dir, files>>

\* RemoveAll, a file after the other, and the directory once it is empty.
RemovesFile ==
  /\ pc = "remove"
  /\ \E n \in DOMAIN files : files' = [k \in DOMAIN files \ {n} |-> files[k]]
  /\ UNCHANGED <<commandVars, readVars, pc, exit, dir>>

RemovesDir ==
  /\ pc = "remove" /\ files = NoFiles
  /\ dir' = FALSE
  /\ Exits("ok")
  /\ UNCHANGED <<commandVars, readVars, files>>

RemoveFails ==
  /\ pc = "remove" /\ CallsMayFail
  /\ Exits("error")
  /\ UNCHANGED <<commandVars, readVars, dir, files>>

Finished == pc = "idle" /\ count = LastCommand /\ UNCHANGED vars

Next ==
  \/ Install \/ List \/ Uninstall \/ Killed
  \/ CannotOpen \/ Opens \/ NextEntry \/ NextFails
  \/ OpensFile \/ OpenFileFails \/ Copies \/ CopyFails \/ Closes \/ CloseFails
  \/ EndsArchive \/ Lists
  \/ Confirms \/ Declines \/ RemovesFile \/ RemovesDir \/ RemoveFails
  \/ Finished

Spec == Init /\ [][Next]_vars

-----------------------------------------------------------------------------
(* Properties.                                                             *)

Regular == {i \in DOMAIN archive : archive[i].regular}

\* The entries that a later one of the same name does not replace.
Latest == {i \in Regular : \A j \in Regular : archive[j].name = archive[i].name => j <= i}

Installed(i) ==
  LET n == archive[i].name IN n \in DOMAIN files /\ files[n] = [entry |-> i, whole |-> TRUE]

\* Every variable keeps its type.
TypeOK ==
  /\ count \in 0 .. LastCommand
  /\ pc \in {"idle", "open", "next", "open file", "copy", "close", "end", "list",
             "confirm", "remove"}
  /\ exit \in {"none", "ok", "error", "killed"}
  /\ archive \in Archives \cup {<<>>}
  /\ entry \in 0 .. Len(archive) /\ errored \subseteq DOMAIN archive
  /\ answered \in BOOLEAN /\ broken \in BOOLEAN /\ dir \in BOOLEAN
  /\ DOMAIN files \subseteq Names
  /\ \A n \in DOMAIN files : files[n] \in [entry : 0 .. Len(archive), whole : BOOLEAN]

\* After an install without an error there is every tool of the archive, all
\* of it and in its last version, whatever an earlier command has left there
\* half written or half removed.
InstalledIsWhole == exit = "ok" => \A i \in Latest : Installed(i)

\* An entry that cannot be written costs no other one: unless the archive
\* itself cannot be read on, an install that has begun to read it and ends
\* has every tool without an error of its own.
OthersAreInstalled ==
  pc \in {"idle", "list"} /\ exit # "killed" /\ ~broken /\ entry > 0
    => \A i \in Latest \ errored : Installed(i)

\* A tool that was there before a command goes only with a yes, or for an
\* entry of its name that took its place.
KeepsUnlessTold ==
  [][\A n \in DOMAIN files \ DOMAIN files' :
       answered \/ (files[n].entry # 0 /\ files[n].entry \in errored')]_vars
=============================================================================
