----------------------------- MODULE MCUploads ------------------------------
(***************************************************************************)
(* Instances of Uploads for TLC: beside a URL of another server, the full  *)
(* URLs that deleteFile takes for the path of a profile image, and those   *)
(* that show one.  A behaviour happens in a world: the accounts, files,    *)
(* posts and full URLs that take part in it; the others stay as they were. *)
(***************************************************************************)
EXTENDS Uploads, TLC

CONSTANT Worlds

VARIABLE world    \* bound: who and what takes part

Elsewhere == <<"elsewhere", None>>
LinksDeleting == {Elsewhere} \cup {<<"deletes", f>> : f \in ProfileImages}
LinksShowing == {Elsewhere} \cup {<<"shows", f>> : f \in ProfileImages}

FileDeleted == [l \in Links |-> IF l[1] = "deletes" THEN l[2] ELSE None]
FileShown == [l \in Links |-> IF l[1] = "shows" THEN l[2] ELSE None]

World == [accounts : SUBSET Users, files : SUBSET Files, posts : SUBSET Posts,
          links : SUBSET Links]

\* Everything at once.
Whole == {[accounts |-> Users, files |-> Files, posts |-> Posts, links |-> Links]}

\* Posts and one account with an image; one account with two images, or with
\* any full URL; two accounts and the URLs that lead to the image of either.
PostsAndOne == {w \in World :
    /\ Cardinality(w.accounts) = 1 /\ w.posts = Posts /\ w.links = {Elsewhere}
    /\ PostImages \subseteq w.files /\ Cardinality(w.files \cap ProfileImages) = 1}
OneReplacing == {w \in World :
    /\ Cardinality(w.accounts) = 1 /\ w.posts = {} /\ w.links = Links
    /\ w.files = ProfileImages}
TwoAccounts == {w \in World :
    /\ Cardinality(w.accounts) = 2 /\ w.posts = {} /\ w.links = Links
    /\ w.files \subseteq ProfileImages /\ Cardinality(w.files) = 1}
Apart == PostsAndOne \cup OneReplacing \cup TwoAccounts

Within ==
    /\ \A u \in Users \ world.accounts : u \in users /\ profile[u] = None
    /\ \A r \in Requests : req[r].pc \in {"idle", "purge", "delete"}
                               \/ req[r].user \in world.accounts
    /\ \A f \in Files \ world.files : disk[f] = "none"
    /\ \A p \in Posts \ world.posts : post[p] = "none"
    /\ \A u \in Users : profile[u] \in Links => profile[u] \in world.links

MCInit == Init /\ world \in Worlds /\ Within
MCNext == Next /\ UNCHANGED world /\ Within'
MCSpec == MCInit /\ [][MCNext]_<<vars, world>>

Symmetry == Permutations(ProfileImages) \cup Permutations(Requests)
                \cup Permutations(Users)
=============================================================================
