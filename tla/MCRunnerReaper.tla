--------------------------- MODULE MCRunnerReaper ---------------------------
(***************************************************************************)
(* Instances of RunnerReaper for TLC.  In ReaperSweep, name 1 is a foreign  *)
(* pod that carries the label but not the executor name, name 3 one that    *)
(* has the name but not the label, and name 2 is the jobs'.  In             *)
(* ReaperBudget the jobs' name is 1 and the foreign labelled one 2, so that *)
(* a page whose DELETE spends the budget is followed by another.            *)
(***************************************************************************)
EXTENDS RunnerReaper

OneNs == <<"gitlab-runner">>
TwoNs == <<"gitlab-runner-privileged", "gitlab-runner">>

NsOfOne == [n \in Names |-> "gitlab-runner"]
NsOfTwo == [n \in Names |-> IF n < 3 THEN "gitlab-runner-privileged" ELSE "gitlab-runner"]
=============================================================================
