---------------------------- MODULE LeakCollector ----------------------------
(***************************************************************************)
(* What a collector of leaked objects promises, apart from how it finds     *)
(* them: an object is live from its creation until its owner lets go of it, *)
(* and only then may it be collected.  A job's pod may be lost to the       *)
(* cluster at any time; the job's credentials are let go of with it.        *)
(***************************************************************************)
CONSTANTS
    Objects,        \* everything that may exist: <<kind, name, uid>>
    Initial         \* the objects that exist from the start and stay live

VARIABLES live, leaked

CredentialOf(o) == <<"secret", o[2], o[3]>>

Init == live = Initial /\ leaked \subseteq Objects \ Initial

Create(o) ==
    /\ o \notin live \cup leaked
    /\ live' = live \cup {o}
    /\ UNCHANGED leaked

\* A job is over or given up: whatever it still holds is leaked.
Release(S) ==
    /\ S # {} /\ S \subseteq live \ Initial
    /\ live' = live \ S
    /\ leaked' = leaked \cup S

\* The pod of a running job disappears, and the job ends with it.
Lose(o) ==
    /\ o \in live \ Initial /\ o[1] = "pod"
    /\ CredentialOf(o) \in live
    /\ live' = live \ {o, CredentialOf(o)}
    /\ leaked' = leaked \cup {CredentialOf(o)}

\* By the collector or by the owner's own late cleanup.
Collect(o) ==
    /\ o \in leaked
    /\ leaked' = leaked \ {o}
    /\ UNCHANGED live

Next ==
    \/ \E o \in Objects : Create(o) \/ Lose(o) \/ Collect(o)
    \/ \E S \in SUBSET live : Release(S)

Spec == Init /\ [][Next]_<<live, leaked>>
=============================================================================
