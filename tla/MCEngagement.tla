---------------------------- MODULE MCEngagement ----------------------------
(***************************************************************************)
(* Instances of Engagement for TLC: the requests are interchangeable.      *)
(***************************************************************************)
EXTENDS Engagement, TLC

Migrated == {"users", "posts", "comments", "likes", "bookmarks"}
AsMigrated == {Migrated}
WithOrWithoutView == {Migrated, Migrated \cup {"Post"}}

Symmetry == Permutations(Requests)
=============================================================================
