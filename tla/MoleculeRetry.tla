----------------------------- MODULE MoleculeRetry -----------------------------
(***************************************************************************)
(* molecule-retry.sh: a molecule test whose setup fails is run again, one  *)
(* that got as far as a test stage is not.  An attempt is [rc, banners]:   *)
(* its exit status and the kinds of stage banners in its log, "setup" and  *)
(* "test" (converge, idempotence, side_effect, verify); none at all means  *)
(* that molecule's output is no longer understood.                         *)
(***************************************************************************)
EXTENDS Integers, Sequences

(* Broken variant: the test banners are looked for first and alone. *)
RetriesAnyFormat(attempt) == attempt.rc # 0 /\ "test" \notin attempt.banners

Retries(attempt) == attempt.rc # 0 /\ "test" \notin attempt.banners /\ attempt.banners # {}

(* outcomes holds what each attempt would come to; its length is MOL_MAX.  *)
Run(outcomes) ==
    LET last == CHOOSE k \in DOMAIN outcomes :
                    /\ ~Retries(outcomes[k]) \/ k = Len(outcomes)
                    /\ \A j \in 1..k - 1 : Retries(outcomes[j])
    IN  [attempts |-> last, exit |-> outcomes[last].rc]
=============================================================================
