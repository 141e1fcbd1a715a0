----------------------------- MODULE MCSessions -----------------------------
(***************************************************************************)
(* Instances of Sessions for TLC.  Requests are interchangeable.           *)
(***************************************************************************)
EXTENDS Sessions, TLC

Symmetry == Permutations(Requests)
=============================================================================
