-------------------------- MODULE MCEtcdMaintenance --------------------------
(* The three servers of the inventory, in its order. *)
EXTENDS EtcdMaintenance
CONSTANTS s1, s2, s3
ThreeServers == <<s1, s2, s3>>
=============================================================================
