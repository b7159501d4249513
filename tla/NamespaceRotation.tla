------------------------- MODULE NamespaceRotation -------------------------
(***************************************************************************)
(* rotate_namespaces: the order in which a run of the runner reaper visits  *)
(* its namespaces depends on the wall-clock slot it starts in and on        *)
(* nothing else.                                                            *)
(***************************************************************************)
EXTENDS Integers, Sequences

\* Broken variant: always from the start.
NoOffset(n, t, period) == 0

\* The slot of a run that starts at t.
RotationOffset(n, t, period) == (t \div period) % n

\* namespaces[offset:] + namespaces[:offset]
RotateNamespaces(namespaces, t, period) ==
    LET n == Len(namespaces)
        offset == RotationOffset(n, t, period)
    IN  [i \in 1..n |-> namespaces[((i - 1 + offset) % n) + 1]]
=============================================================================
