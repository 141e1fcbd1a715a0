---------------------------- MODULE MCEmailCodes ----------------------------
(***************************************************************************)
(* Instances of EmailCodes for TLC: the requests are interchangeable, and  *)
(* so are the digits, whose hashes are only compared.                      *)
(***************************************************************************)
EXTENDS EmailCodes, TLC

Symmetry == Permutations(Requests) \cup Permutations(Digits)
=============================================================================
