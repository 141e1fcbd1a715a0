------------------------- MODULE MCDocumentReviews --------------------------
(***************************************************************************)
(* Instances of DocumentReviews for TLC: the requests are interchangeable, *)
(* and so are the administrators.                                          *)
(***************************************************************************)
EXTENDS DocumentReviews, TLC

Symmetry == Permutations(Requests) \cup Permutations(Admins)
=============================================================================
