---------------------------- MODULE MCRecruiting ----------------------------
(***************************************************************************)
(* Instances of Recruiting for TLC: one recruiter wrote every posting.     *)
(***************************************************************************)
EXTENDS Recruiting, TLC

CONSTANT FirstUser

OneRecruiter == [j \in Jobs |-> FirstUser]
Symmetry == Permutations(Requests)
=============================================================================
