---------------------------- MODULE MCModeration ----------------------------
(***************************************************************************)
(* Instances of Moderation for TLC: a post, with or without a comment, of  *)
(* a first user.                                                           *)
(***************************************************************************)
EXTENDS Moderation, TLC

CONSTANT FirstUser

WriterIsFirst == [t \in Things |-> FirstUser]

\* Reports with the one reference of their type.
Plain == {r \in Refs : Cardinality({x \in DOMAIN r : r[x] # Null}) = 1}

OfThings == {r \in Plain : r.user = Null}

Symmetry == Permutations(Requests)
=============================================================================
