---------------------------- MODULE MCReplaceTxn ----------------------------
(* Instances of ReplaceTxn: a key of availability_submissions is a user    *)
(* and a plan, a key of scheduling_results is a plan.                      *)
EXTENDS ReplaceTxn, TLC

CONSTANTS Users, Plans

SubmissionKeys == Users \X Plans
SubmissionParentsOf == [k \in SubmissionKeys |-> {k[1], k[2]}]
SubmissionParents == Users \cup Plans

ResultKeys == Plans
ResultParentsOf == [k \in ResultKeys |-> {k}]

Symmetry == Permutations(Requests) \cup Permutations(Users) \cup Permutations(Plans)
=============================================================================
