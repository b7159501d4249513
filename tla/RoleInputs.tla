------------------------------ MODULE RoleInputs ------------------------------
(***************************************************************************)
(* check-role-inputs.py: the roles that the playbooks invoke find the      *)
(* inputs they assert, an opt-in role is opted into or out of, and no      *)
(* variable of the inventory is one that nobody reads.                     *)
(*                                                                         *)
(* A name is a sequence of words: role <<"k3s">> owns <<"k3s", "token">>.  *)
(* A value is [kind, ref]: "empty", "false", "set", "ref" (a template that *)
(* is another variable) or "opaque" (one the gate cannot evaluate).        *)
(***************************************************************************)
EXTENDS Sequences, Integers, FiniteSets

StartsWith(name, role) == Len(name) > Len(role) /\ SubSeq(name, 1, Len(role)) = role
Flag(role) == Append(role, "enabled")

(* A namespace of variables: a set of <<name, value>>. *)
Names(ns) == {p[1] : p \in ns}
Lookup(ns, name) == (CHOOSE p \in ns : p[1] = name)[2]
Over(ns, defaults) == ns \cup {p \in defaults : p[1] \notin Names(ns)}
Refused(entries) == \E e \in entries : ~e.reason   \* parse_allow_disabled

(***************************************************************************)
(* Opt-in roles.                                                           *)
(***************************************************************************)
OptInRoles(roles) ==
    {r.name : r \in {x \in roles : /\ Flag(x.name) \in Names(x.defaults)
                                   /\ Lookup(x.defaults, Flag(x.name)).kind \in {"empty", "false"}}}

(* Invocations in blocks, which the scan does not enter, are not seen. *)
RoleInvocations(plays) == {i \in plays : ~i.block}

Examined(in) == {i \in RoleInvocations(in.plays) : i.role \in OptInRoles(in.roles)}
OptInsStale(in) == OptInRoles(in.roles) = {} \/ (Examined(in) = {} /\ ~in.allowEmpty)
OptInProblem(in) ==
    \E i \in Examined(in) : /\ i.role \notin {e.name : e \in in.allowDisabled}
                            /\ Flag(i.role) \notin Names(in.assigned) /\ Flag(i.role) \notin i.when

(***************************************************************************)
(* Required inputs.                                                        *)
(***************************************************************************)
(* A condition is [var, negated, modelled]; what the context holds is not  *)
(* rendered for it, so a template is as good as a true value.              *)
Truthy(context, var) == var \in Names(context) /\ Lookup(context, var).kind \in {"set", "ref", "opaque"}
ReachableByDefault(conditions, context) ==
    \A c \in conditions : c.modelled /\ (Truthy(context, c.var) <=> ~c.negated)

AssertedInputs(role, context) ==
    UNION {{v \in a.vars : StartsWith(v, role.name)} : a \in {x \in role.asserts : ReachableByDefault(x.conditions, context)}}

(* Rendered once: what a template refers to is not rendered in its turn. *)
RendersEmpty(value, context) ==
    \/ value.kind = "empty"
    \/ value.kind = "ref" /\ (value.ref \notin Names(context) \/ Lookup(context, value.ref).kind = "empty")

(* Broken variant: any template is a value. *)
DefaultGapRaw(defaults, var, context, assigned) ==
    var \notin Names(defaults) \/ Lookup(defaults, var).kind = "empty"

(* No default, or one that renders empty and refers to nothing that is     *)
(* assigned where the context does not reach, in host variables, say.      *)
DefaultGap(defaults, var, context, assigned) ==
    \/ var \notin Names(defaults)
    \/ LET value == Lookup(defaults, var)
       IN  /\ RendersEmpty(value, context)
           /\ ~(value.kind = "ref" /\ value.ref \in Names(assigned) \ Names(context))

Invoked(in) == {r \in in.roles : \E i \in RoleInvocations(in.plays) : i.role = r.name}
Required(in) ==
    {p \in UNION {{r} \X AssertedInputs(r, Over(in.groupVars, r.defaults)) : r \in Invoked(in)} :
        DefaultGap(p[1].defaults, p[2], Over(in.groupVars, p[1].defaults), in.assigned)}
RequiredStale(in) == Required(in) = {} /\ ~in.allowEmpty
RequiredProblem(in) == \E p \in Required(in) : p[2] \notin Names(in.assigned)

(***************************************************************************)
(* Unknown inputs.                                                         *)
(***************************************************************************)
Owned(in) == {v \in Names(in.assigned) : \E r \in in.roles : StartsWith(v, r.name)}
UnknownStale(in) ==
    in.roles = {} \/ ~in.sources \/ Refused(in.allowUnknown) \/ (Owned(in) = {} /\ ~in.allowEmpty)
UnknownProblem(in) == \E v \in Owned(in) : v \notin {e.name : e \in in.allowUnknown} /\ v \notin in.text

(* in is [directories, skip, allowEmpty, allowDisabled, allowUnknown,      *)
(* parses, roles, plays, groupVars, assigned, sources, text].  An arm that *)
(* has nothing to look at is an error, whatever the others found.          *)
Arms == {"opt-ins", "required-inputs", "unknown-inputs"}
Stale(in, arm) == CASE arm = "opt-ins" -> OptInsStale(in) [] arm = "required-inputs" -> RequiredStale(in)
                    [] OTHER -> UnknownStale(in)
Problem(in, arm) == CASE arm = "opt-ins" -> OptInProblem(in) [] arm = "required-inputs" -> RequiredProblem(in)
                      [] OTHER -> UnknownProblem(in)
Verdict(in) ==
    IF ~in.directories \/ Arms \subseteq in.skip \/ Refused(in.allowDisabled) \/ ~in.parses
       \/ (\E arm \in Arms \ in.skip : Stale(in, arm)) THEN 2
    ELSE IF \E arm \in Arms \ in.skip : Problem(in, arm) THEN 1 ELSE 0
=============================================================================
