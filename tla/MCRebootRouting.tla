--------------------------- MODULE MCRebootRouting ---------------------------
(***************************************************************************)
(* Host a carries an etcd server, host b an agent that starts by itself    *)
(* and one the inventory does not know, host c an agent that stays down,   *)
(* and host d is marked unsafe.                                            *)
(***************************************************************************)
EXTENDS RebootRouting
CONSTANTS a, b, c, d, server, agent, ghost, idle
FourHosts == <<a, b, c, d>>
VmHosts == [n \in {server, agent, ghost, idle} |->
    IF n = server THEN a ELSE IF n = idle THEN c ELSE b]
=============================================================================
