------------------------------ MODULE Uploads -------------------------------
(***************************************************************************)
(* The image files of posts and profiles and what refers to them           *)
(* (uploads.service.ts, posts.service.ts, admin.service.ts), and the       *)
(* nightly job that deletes the files nothing refers to                    *)
(* (orphan-cleanup.service.ts).                                            *)
(*                                                                         *)
(* The disk and the database are changed one after the other, never at     *)
(* once.  A file gets a random name, so each is written once.  A file is   *)
(* aged when it is older than the hour the job waits; neither an upload    *)
(* nor the job takes that long (GrowOld).                                  *)
(***************************************************************************)
EXTENDS Naturals, FiniteSets

CONSTANTS
    Users, Posts, Requests,
    PostImages, ProfileImages,   \* names of files, by directory
    None,                        \* no profile image, no file
    Links,                       \* full URLs an account may have as its image
    Deletes,                     \* the file deleteFile makes of a full URL
    Shows,                       \* the file of this server a full URL shows
    BatchSize,                   \* BATCH_SIZE
    MaxFaults                    \* bound on crashes and failed runs

Files == PostImages \cup ProfileImages

ASSUME UploadsAssumption ==
    /\ IsFiniteSet(Posts) /\ Users # {}
    /\ PostImages \cap ProfileImages = {} /\ Links \cap Files = {}
    /\ None \notin Files \cup Links \cup Posts
    /\ Deletes \in [Links -> Files \cup {None}]
    /\ Shows \in [Links -> Files \cup {None}]
    /\ BatchSize \in Nat \ {0} /\ MaxFaults \in Nat

VARIABLES
    users,     \* accounts that exist
    disk,      \* file: "none", "fresh", "aged" or "gone"
    post,      \* "none", "up" or "gone"
    content,   \* the images in the content of a post
    profile,   \* column profileImage
    req,
    job,       \* the cleanup: its step, what it has read and has yet to delete
    kept,      \* history: references that have been there since the job began
    lost,      \* history: profile images deleted through a full URL, or by a
               \* deletion that a crash cut off before it cleared the column
    faults

vars == <<users, disk, post, content, profile, req, job, kept, lost, faults>>

Image == ProfileImages \cup Links \cup {None}
Request == [pc : {"idle", "save", "set", "drop", "unlink", "clear", "purge",
                  "delete"},
            user : Users, file : Image, old : Image, post : Posts \cup {None},
            images : SUBSET PostImages]
Idle == [pc |-> "idle", user |-> CHOOSE u \in Users : TRUE, file |-> None,
         old |-> None, post |-> None, images |-> {}]

\* settled: profile images whose upload had ended when the job began.
Job == [pc : {"idle", "posts", "listPosts", "sweepPosts",
              "profiles", "listProfiles", "sweepProfiles"},
        skip : Nat, used : SUBSET Files, todo : SUBSET Files,
        settled : SUBSET ProfileImages]
JobIdle == [pc |-> "idle", skip |-> 0, used |-> {}, todo |-> {}, settled |-> {}]

OnDisk(f) == disk[f] \in {"fresh", "aged"}
Saving(f) == \E r \in Requests : req[r].file = f

\* Types; what is to be deleted is old, and only posts that are up have images.
TypeOK ==
    /\ users \subseteq Users
    /\ disk \in [Files -> {"none", "fresh", "aged", "gone"}]
    /\ post \in [Posts -> {"none", "up", "gone"}]
    /\ content \in [Posts -> SUBSET PostImages]
    /\ profile \in [Users -> Image]
    /\ req \in [Requests -> Request]
    /\ job \in Job
    /\ kept \subseteq Posts \X PostImages
    /\ lost \subseteq ProfileImages
    /\ faults \in Nat
    /\ \A f \in job.todo : disk[f] \in {"aged", "gone"}
    /\ \A p \in Posts : post[p] # "up" => content[p] = {}

-----------------------------------------------------------------------------
Finish(r) == req' = [req EXCEPT ![r] = Idle]
Unlinked(files) ==
    [f \in Files |-> IF f \in files /\ OnDisk(f) THEN "gone" ELSE disk[f]]

\* deleteFile takes /uploads/ out of a URL, joins the rest to the directory
\* and looks only whether the result lies below it: of an image's own path it
\* makes that file, of a full URL no file or any other.
Named(i) == IF i \in Links THEN Deletes[i] ELSE i

\* The profile image that goes when the URL i is taken for a path.
ThroughLink(i) == IF i \in Links THEN {Deletes[i]} \cap ProfileImages ELSE {}

Init ==
    /\ users = Users
    /\ disk = [f \in Files |-> "none"]
    /\ post = [p \in Posts |-> "none"]
    /\ content = [p \in Posts |-> {}]
    /\ profile \in [Users -> {None} \cup {l \in Links : Deletes[l] = None
                                                   /\ Shows[l] = None}]
    /\ req = [r \in Requests |-> Idle]
    /\ job = JobIdle /\ kept = {} /\ lost = {} /\ faults = 0

board == <<post, content, kept>>

\* updateProfileImage reads the old image (the account may be gone by now) ...
UploadRead(r, u) ==
    /\ req[r].pc = "idle"
    /\ req' = [req EXCEPT ![r] = [Idle EXCEPT !.pc = "save", !.user = u,
                                              !.old = profile[u]]]
    /\ UNCHANGED <<users, disk, board, profile, job, lost, faults>>

\* ... saves the new one under a new name ...
UploadSave(r, f) ==
    /\ req[r].pc = "save" /\ disk[f] = "none"
    /\ disk' = [disk EXCEPT ![f] = "fresh"]
    /\ req' = [req EXCEPT ![r] = [@ EXCEPT !.pc = "set", !.file = f]]
    /\ UNCHANGED <<users, board, profile, job, lost, faults>>

\* ... refers to it ...
UploadSet(r) ==
    LET u == req[r].user IN
    /\ req[r].pc = "set"
    /\ IF u \in users
         THEN /\ profile' = [profile EXCEPT ![u] = req[r].file]
              /\ req' = [req EXCEPT ![r].pc = "drop"]
         ELSE Finish(r) /\ UNCHANGED profile
    /\ UNCHANGED <<users, disk, board, job, lost, faults>>

\* Mutant of UploadDrop: the image the account has now is deleted.
UploadDropCurrent(r) ==
    /\ req[r].pc = "drop"
    /\ disk' = Unlinked({Named(profile[req[r].user])})
    /\ lost' = lost \cup ThroughLink(profile[req[r].user])
    /\ Finish(r)
    /\ UNCHANGED <<users, board, profile, job, faults>>

\* ... and deletes the old one.
UploadDrop(r) ==
    /\ req[r].pc = "drop"
    /\ disk' = Unlinked({Named(req[r].old)})
    /\ lost' = lost \cup ThroughLink(req[r].old)
    /\ Finish(r)
    /\ UNCHANGED <<users, board, profile, job, faults>>

\* deleteProfileImage: read, delete the file, set the column to null.
DeleteRead(r, u) ==
    /\ req[r].pc = "idle" /\ profile[u] # None
    /\ req' = [req EXCEPT ![r] = [Idle EXCEPT !.pc = "unlink", !.user = u,
                                              !.old = profile[u]]]
    /\ UNCHANGED <<users, disk, board, profile, job, lost, faults>>

DeleteUnlink(r) ==
    /\ req[r].pc = "unlink"
    /\ disk' = Unlinked({Named(req[r].old)})
    /\ lost' = lost \cup ThroughLink(req[r].old)
    /\ req' = [req EXCEPT ![r].pc = "clear"]
    /\ UNCHANGED <<users, board, profile, job, faults>>

DeleteClear(r) ==
    /\ req[r].pc = "clear"
    /\ profile' = [profile EXCEPT ![req[r].user] = None]
    /\ Finish(r)
    /\ UNCHANGED <<users, disk, board, job, lost, faults>>

\* users.update takes any full URL for a profileImage.  The name of a file is
\* random: no URL holds it before an account or an editor was told of it.
SetLink(u, l) ==
    /\ u \in users
    /\ \A f \in Files \cap {Deletes[l], Shows[l]} :
          disk[f] # "none" /\ ~\E r \in Requests : req[r].pc = "set" /\ req[r].file = f
    /\ profile' = [profile EXCEPT ![u] = l]
    /\ UNCHANGED <<users, disk, board, req, job, lost, faults>>

\* An account is deleted; its image stays on the disk.
DeleteUser(u) ==
    /\ u \in users
    /\ users' = users \ {u}
    /\ profile' = [profile EXCEPT ![u] = None]
    /\ UNCHANGED <<disk, board, req, job, lost, faults>>

\* The editor uploads an image before there is a post that has it.
PostImageUpload(f) ==
    /\ disk[f] = "none"
    /\ disk' = [disk EXCEPT ![f] = "fresh"]
    /\ UNCHANGED <<users, board, profile, req, job, lost, faults>>

\* posts.create and posts.update take any content.
WritePost(p, images) ==
    /\ post[p] # "gone" /\ \A f \in images : disk[f] # "none"
    /\ post' = [post EXCEPT ![p] = "up"]
    /\ content' = [content EXCEPT ![p] = images]
    /\ kept' = {k \in kept : k[1] = p => k[2] \in images}
    /\ UNCHANGED <<users, disk, profile, req, job, lost, faults>>

\* posts.remove, deletePost, bulkDeletePosts: the images in the content that
\* was read are deleted, then the post.
RemoveRead(r, p) ==
    /\ req[r].pc = "idle" /\ post[p] = "up"
    /\ req' = [req EXCEPT ![r] = [Idle EXCEPT !.pc = "purge", !.post = p,
                                              !.images = content[p]]]
    /\ UNCHANGED <<users, disk, board, profile, job, lost, faults>>

RemovePurge(r) ==
    /\ req[r].pc = "purge"
    /\ disk' = Unlinked(req[r].images)
    /\ req' = [req EXCEPT ![r].pc = "delete"]
    /\ UNCHANGED <<users, board, profile, job, lost, faults>>

RemoveDelete(r) ==
    LET p == req[r].post IN
    /\ req[r].pc = "delete"
    /\ post' = [post EXCEPT ![p] = "gone"]
    /\ content' = [content EXCEPT ![p] = {}]
    /\ kept' = {k \in kept : k[1] # p}
    /\ Finish(r)
    /\ UNCHANGED <<users, disk, profile, job, lost, faults>>

\* A file gets older than an hour: not while its upload is in progress, nor
\* during a run of the job that began before the upload ended.
GrowOld(f) ==
    /\ disk[f] = "fresh" /\ ~Saving(f)
    /\ f \in ProfileImages /\ job.pc # "idle" => f \in job.settled
    /\ disk' = [disk EXCEPT ![f] = "aged"]
    /\ UNCHANGED <<users, board, profile, req, job, lost, faults>>

-----------------------------------------------------------------------------
(* The cleanup job.                                                        *)

\* handleCron, or an admin's call; a run in progress makes it return.
JobStart ==
    /\ job.pc = "idle"
    /\ job' = [JobIdle EXCEPT !.pc = "posts",
                 !.settled = {f \in ProfileImages : OnDisk(f) /\ ~Saving(f)}]
    /\ kept' = {k \in Posts \X PostImages : k[2] \in content[k[1]]}
    /\ UNCHANGED <<users, disk, post, content, profile, req, lost, faults>>

Up == {p \in Posts : post[p] = "up"}

\* How many rows a page holds; which ones is open, as the query has no order.
PageSize ==
    LET rest == IF Cardinality(Up) > job.skip THEN Cardinality(Up) - job.skip ELSE 0
    IN  IF rest < BatchSize THEN rest ELSE BatchSize

\* Mutant of Noted: each page forgets the ones before.
NotedLast(page) == UNION {content[p] : p \in page}

Noted(page) == job.used \cup UNION {content[p] : p \in page}

JobReadPosts ==
    /\ job.pc = "posts"
    /\ \E page \in SUBSET Up :
          /\ Cardinality(page) = PageSize
          /\ job' = [job EXCEPT !.used = Noted(page), !.skip = @ + BatchSize,
                       !.pc = IF PageSize < BatchSize THEN "listPosts" ELSE "posts"]
    /\ UNCHANGED <<users, disk, board, profile, req, lost, faults>>

\* Mutant of Orphans: the age of a file is not looked at.
OrphansOfAnyAge(dir) == {f \in dir : OnDisk(f) /\ f \notin job.used}

\* The files to delete: on the disk, old, and not noted.
Orphans(dir) == {f \in dir : disk[f] = "aged" /\ f \notin job.used}

JobList ==
    /\ job.pc \in {"listPosts", "listProfiles"}
    /\ job' = IF job.pc = "listPosts"
                THEN [job EXCEPT !.pc = "sweepPosts", !.todo = Orphans(PostImages)]
                ELSE [job EXCEPT !.pc = "sweepProfiles", !.todo = Orphans(ProfileImages)]
    /\ UNCHANGED <<users, disk, board, profile, req, lost, faults>>

\* A file that is gone by now is counted as an error.
JobDelete(f) ==
    /\ f \in job.todo
    /\ disk' = Unlinked({f})
    /\ job' = [job EXCEPT !.todo = @ \ {f}]
    /\ UNCHANGED <<users, board, profile, req, lost, faults>>

\* The prefix /uploads/profile/ is taken out of each image.  What is left is
\* the name of a file only where the image is the file's own path: of a full
\* URL the host stays, also when it is this server's.
JobReadProfiles ==
    /\ job.pc = "profiles"
    /\ job' = [job EXCEPT !.pc = "listProfiles",
                 !.used = {profile[u] : u \in Users} \cap ProfileImages]
    /\ UNCHANGED <<users, disk, board, profile, req, lost, faults>>

JobEndSweep ==
    /\ job.pc \in {"sweepPosts", "sweepProfiles"} /\ job.todo = {}
    /\ job' = IF job.pc = "sweepPosts" THEN [job EXCEPT !.pc = "profiles"]
                                       ELSE JobIdle
    /\ kept' = {}
    /\ UNCHANGED <<users, disk, post, content, profile, req, lost, faults>>

\* A query or the listing of a directory fails: the run ends, and the finally
\* block lets the next one start.
JobFail ==
    /\ faults < MaxFaults
    /\ job.pc \in {"posts", "listPosts", "profiles", "listProfiles"}
    /\ faults' = faults + 1
    /\ job' = JobIdle /\ kept' = {}
    /\ UNCHANGED <<users, disk, post, content, profile, req, lost>>

\* The server dies between two steps of anything.
Crash ==
    /\ faults < MaxFaults
    /\ faults' = faults + 1
    /\ req' = [r \in Requests |-> Idle]
    /\ job' = JobIdle /\ kept' = {}
    /\ lost' = lost \cup
         {f \in ProfileImages : \E r \in Requests : req[r].pc = "clear" /\ req[r].old = f}
    /\ UNCHANGED <<users, disk, post, content, profile>>

JobStep ==
    \/ JobReadPosts \/ JobList \/ JobReadProfiles \/ JobEndSweep
    \/ \E f \in Files : JobDelete(f)

Next ==
    \/ \E r \in Requests :
          \/ \E u \in Users : UploadRead(r, u) \/ DeleteRead(r, u)
          \/ \E f \in ProfileImages : UploadSave(r, f)
          \/ UploadSet(r) \/ UploadDrop(r) \/ DeleteUnlink(r) \/ DeleteClear(r)
          \/ \E p \in Posts : RemoveRead(r, p)
          \/ RemovePurge(r) \/ RemoveDelete(r)
    \/ \E u \in Users : DeleteUser(u) \/ \E l \in Links : SetLink(u, l)
    \/ \E f \in PostImages : PostImageUpload(f)
    \/ \E p \in Posts, images \in SUBSET PostImages : WritePost(p, images)
    \/ \E f \in Files : GrowOld(f)
    \/ JobStart \/ JobStep \/ JobFail \/ Crash

Spec == Init /\ [][Next]_vars

-----------------------------------------------------------------------------
(* What the files promise.                                                 *)

\* The job never deletes the image an account has by its own path, also one
\* that is uploaded or replaced while it runs: it waits an hour, and looks the
\* accounts up before it lists the files.
ProfileImagesKept ==
    [][\A f \in job.todo : JobDelete(f) => \A u \in Users : profile[u] # f]_vars

\* Nor one that a post has had since before the run.  It holds as long as the
\* posts fit one page; orphan-cleanup.service.ts:79 says it of any number.
PostImagesKept ==
    [][\A f \in job.todo : JobDelete(f) => \A p \in Posts : <<p, f>> \notin kept]_vars

\* An account's own image is on the disk, however uploads, deletions and the
\* job interleave, except while the request that deleted it has yet to clear
\* the column, for ever if a crash kept it from that, and when deleteFile made
\* that file of some full URL.
ProfileOnDisk ==
    \A u \in Users : profile[u] \in ProfileImages =>
        \/ OnDisk(profile[u])
        \/ profile[u] \in lost
        \/ \E r \in Requests : /\ req[r].pc = "clear" /\ req[r].user = u
                              /\ req[r].old = profile[u]

-----------------------------------------------------------------------------
(* What comments of the code say of it, and the code does not do.          *)

\* The job deletes profile images no account refers to
\* (orphan-cleanup.service.ts:157), by a path or by a full URL.
ShownImagesKept ==
    [][\A f \in job.todo : JobDelete(f) =>
          \A u \in Users : profile[u] \in Links => Shows[profile[u]] # f]_vars

\* A new image takes the place of the account's old one, which is deleted if
\* it is there (uploads.service.ts:334): not the image of another account.
OthersImagesKept ==
    [][\A r \in Requests : UploadDrop(r) =>
          \A u \in Users \ {req[r].user} :
              profile[u] \in ProfileImages /\ OnDisk(profile[u])
                  => disk'[profile[u]] # "gone"]_vars
=============================================================================
