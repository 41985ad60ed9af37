------------------------------ MODULE MCHealth ------------------------------
(***************************************************************************)
(* One node, an etcd pod and a Harvester pod: every kind of fault and all  *)
(* four requests of a check, with faults that come and go between them.    *)
(***************************************************************************)
EXTENDS HealthHistory

CONSTANTS node1, etcd, virt

MCNodes == {node1}
MCServices == {etcd, virt}
MCHarvester == {virt}
MCEtcd == {etcd}
=============================================================================
