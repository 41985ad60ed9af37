------------------------------ MODULE MCTools ------------------------------
(***************************************************************************)
(* Archives with tools in common, one of them with a tool twice, and one   *)
(* with a tool in a directory.                                             *)
(***************************************************************************)
EXTENDS ToolInstall

MCNames == {"etcd-bench", "netperf", "bin", "bin/iperf3"}
MCDeep == {"bin/iperf3"}

Tool(name) == [name |-> name, regular |-> TRUE]
Directory(name) == [name |-> name, regular |-> FALSE]

MCArchives ==
  {<<Tool("netperf"), Tool("etcd-bench"), Tool("netperf")>>,
   <<Directory("bin"), Tool("bin/iperf3"), Tool("etcd-bench")>>}
=============================================================================
