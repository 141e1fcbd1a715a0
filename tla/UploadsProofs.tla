--------------------------- MODULE UploadsProofs ----------------------------
(***************************************************************************)
(* Theorems about Uploads, for every number of accounts, posts, files and  *)
(* requests and any full URLs: the nightly job never deletes an image that *)
(* is in use by its own path, and such an image of an account is on the    *)
(* disk unless its deletion is under way or cut off, or a URL led to it.   *)
(***************************************************************************)
EXTENDS Uploads, FiniteSetTheorems, TLAPS

\* An image names no file, or one that was written and that no upload has yet
\* to set.
Known(i) ==
    Named(i) \in Files =>
        /\ disk[Named(i)] # "none"
        /\ \A r \in Requests : req[r].pc = "set" => req[r].file # Named(i)

\* Accounts and requests name files that are known, and an upload its own.
Written ==
    /\ \A u \in Users : Known(profile[u])
    /\ \A r \in Requests :
          /\ Known(req[r].old)
          /\ req[r].file \in ProfileImages => disk[req[r].file] \in {"fresh", "gone"}
          /\ req[r].pc = "set" => /\ req[r].file \in ProfileImages
                                  /\ disk[req[r].file] = "fresh"
          /\ req[r].file # None => req[r].pc \in {"set", "drop"}
          /\ req[r].file \in ProfileImages \cup {None}

\* A file is written by one request, for one account, and nobody but that
\* account has it.
Owned ==
    /\ \A r, s \in Requests :
          req[r].file = req[s].file /\ req[r].file \in ProfileImages => r = s
    /\ \A u, v \in Users : profile[u] = profile[v] /\ profile[u] \in ProfileImages => u = v
    /\ \A r \in Requests : req[r].old \in ProfileImages =>
          /\ \A u \in Users : profile[u] = req[r].old => u = req[r].user
          /\ req[r].pc = "drop" => \A u \in Users : profile[u] # req[r].old

\* What a run of the job may rely on: an old image was there before the run,
\* and no upload that is in progress brings it.
Settled ==
    job.pc # "idle" =>
        /\ \A f \in job.settled :
              disk[f] # "none" /\ \A r \in Requests : req[r].file # f
        /\ \A f \in ProfileImages : disk[f] = "aged" => f \in job.settled

\* The profile images the job has read, and those it will delete.
Profiles ==
    /\ job.pc \notin {"sweepPosts", "sweepProfiles"} => job.todo = {}
    /\ job.pc = "sweepPosts" => job.todo \subseteq PostImages
    /\ job.pc = "listProfiles" =>
          \A u \in Users : profile[u] \in job.settled => profile[u] \in job.used
    /\ job.pc = "sweepProfiles" =>
          /\ job.todo \subseteq job.settled
          /\ \A u \in Users : profile[u] \notin job.todo

\* The images in posts since the run began, when the posts fit one page.
OnePage == Cardinality(Posts) <= BatchSize
Kept ==
    /\ \A k \in kept : k[2] \in content[k[1]]
    /\ OnePage =>
         /\ job.pc = "listPosts" \/ (job.pc = "posts" /\ job.skip # 0) =>
               \A k \in kept : k[2] \in job.used
         /\ job.pc = "posts" /\ job.skip # 0 => job.skip >= BatchSize
         /\ job.pc = "sweepPosts" => \A k \in kept : k[2] \notin job.todo

\* The inductive invariant.
UploadsInv ==
    TypeOK /\ Written /\ Owned /\ Settled /\ Profiles /\ Kept /\ ProfileOnDisk

-----------------------------------------------------------------------------
\* A request that has not begun, and what names no file.
LEMMA IdleType ==
    ASSUME UploadsAssumption
    PROVE  /\ Idle \in Request /\ Idle.pc = "idle"
           /\ Idle.file = None /\ Idle.old = None
           /\ None \notin ProfileImages /\ Links \cap ProfileImages = {}
           /\ None \in Image /\ ProfileImages \subseteq Image /\ Links \subseteq Image
           /\ Known(None) /\ \A f \in Files : Named(f) = f
           /\ None \notin Posts
  <1>1. (CHOOSE u \in Users : TRUE) \in Users
    BY DEF UploadsAssumption
  <1> QED
    BY <1>1 DEF Idle, Request, Image, UploadsAssumption, Files, Known, Named

\* An account that has an image by its own path names that file.
LEMMA KnownImage ==
    ASSUME UploadsAssumption, UploadsInv
    PROVE  /\ \A f \in ProfileImages : f \in Files /\ Named(f) = f
           /\ \A u \in Users : profile[u] \in ProfileImages => disk[profile[u]] # "none"
           /\ \A r \in Requests : req[r].pc = "set" =>
                 /\ \A u \in Users : Named(profile[u]) # req[r].file
                                      /\ profile[u] # req[r].file
                 /\ \A s \in Requests : Named(req[s].old) # req[r].file
                                         /\ req[s].old # req[r].file
  <1>1. \A f \in ProfileImages : f \in Files /\ Named(f) = f
    BY IdleType DEF Files
  <1> QED
    BY <1>1 DEF UploadsInv, Written, Known

\* Deleting files: nothing but a file on the disk becomes gone.
LEMMA UnlinkedType ==
    ASSUME UploadsInv, NEW S
    PROVE  /\ Unlinked(S) \in [Files -> {"none", "fresh", "aged", "gone"}]
           /\ \A f \in Files : /\ f \notin S => Unlinked(S)[f] = disk[f]
                               /\ Unlinked(S)[f] \in {disk[f], "gone"}
                               /\ Unlinked(S)[f] = "gone" => disk[f] # "none"
  BY DEF Unlinked, OnDisk, UploadsInv, TypeOK

\* The types, and that the images of a run were old, after a step of which
\* only the file states need a look.
LEMMA DiskTypes ==
    ASSUME UploadsInv, UNCHANGED <<users, post, content, kept, profile, faults>>,
           lost' \subseteq ProfileImages,
           disk' \in [Files -> {"none", "fresh", "aged", "gone"}],
           \A f \in Files : disk[f] \in {"aged", "gone"} => disk'[f] \in {"aged", "gone"},
           req' \in [Requests -> Request],
           job' \in Job, job'.todo \subseteq job.todo
    PROVE  TypeOK'
  <1>1. job.todo \subseteq Files
    BY DEF UploadsInv, TypeOK, Job
  <1> QED
    BY <1>1 DEF UploadsInv, TypeOK

-----------------------------------------------------------------------------
(* What the parts of the invariant rest on.                                *)

\* Requests give up what they held, keep it, or begin anew; accounts lose
\* images; files are deleted, or grow old when no upload holds them.
LEMMA HoldersKept ==
    ASSUME UploadsAssumption, UploadsInv,
           \A u \in Users :
              profile'[u] = profile[u] \/ (profile'[u] \notin ProfileImages /\ Known(profile'[u])),
           \A r \in Requests :
              \/ /\ req'[r].file = req[r].file /\ req'[r].old = req[r].old
                 /\ req'[r].user = req[r].user
                 /\ \/ req'[r].pc = req[r].pc
                    \/ req[r].file = None /\ req'[r].pc \notin {"set", "drop"}
              \/ /\ req'[r].file = None /\ req'[r].pc \notin {"set", "drop"}
                 /\ \/ req'[r].old = None
                    \/ req'[r].user \in Users /\ req'[r].old = profile[req'[r].user],
           \A f \in Files : disk'[f] = "none" => disk[f] = "none",
           \A f \in ProfileImages, r \in Requests : req[r].file = f =>
              /\ disk'[f] \in {disk[f], "gone"}
              /\ req[r].pc = "set" => disk'[f] = disk[f]
    PROVE  Written' /\ Owned'
  <1>1. \A i : Known(i) => Known(i)'
    <2>1. \A r \in Requests : req'[r].pc = "set" => req[r].pc = "set" /\ req'[r].file = req[r].file
      BY DEF UploadsInv, Written
    <2> QED
      BY <2>1 DEF Known, Named
  <1>2. Written'
    <2>1. \A u \in Users : Known(profile[u]) /\ Known(profile'[u])
      BY DEF UploadsInv, Written
    <2>2. \A r \in Requests : Known(req'[r].old)
      BY <2>1, IdleType DEF UploadsInv, Written
    <2>3. \A u \in Users : Known(profile[u])'
      BY <1>1, <2>1
    <2>4. \A r \in Requests : Known(req[r].old)'
      BY <1>1, <2>2
    <2>5. ProfileImages \subseteq Files
      BY DEF Files
    <2> QED
      BY <2>3, <2>4, <2>5, IdleType DEF UploadsInv, Written
  <1>3. Owned'
    <2>1. \A r, s \in Requests :
             req'[r].file = req'[s].file /\ req'[r].file \in ProfileImages => r = s
      BY IdleType DEF UploadsInv, Owned
    <2>3. \A u, v \in Users :
             profile'[u] = profile'[v] /\ profile'[u] \in ProfileImages => u = v
      BY DEF UploadsInv, Owned
    <2>4. ASSUME NEW r \in Requests, req'[r].old \in ProfileImages
          PROVE  /\ \A u \in Users : profile'[u] = req'[r].old => u = req'[r].user
                 /\ req'[r].pc = "drop" => \A u \in Users : profile'[u] # req'[r].old
      <3>1. CASE /\ req'[r].file = req[r].file /\ req'[r].old = req[r].old
                 /\ req'[r].user = req[r].user
                 /\ \/ req'[r].pc = req[r].pc
                    \/ req[r].file = None /\ req'[r].pc \notin {"set", "drop"}
        BY <2>4, <3>1 DEF UploadsInv, Owned
      <3>2. CASE /\ req'[r].pc \notin {"set", "drop"} /\ req'[r].user \in Users
                 /\ req'[r].old = profile[req'[r].user]
        BY <2>4, <3>2 DEF UploadsInv, Owned
      <3> QED
        BY <2>4, <3>1, <3>2, IdleType
    <2> QED
      BY <2>1, <2>3, <2>4 DEF Owned
  <1> QED
    BY <1>2, <1>3

\* No image of an account is deleted but by the request that will clear it or
\* through a full URL, and that request clears it unless a crash cuts it off.
LEMMA OnDiskKept ==
    ASSUME UploadsInv, lost \subseteq lost',
           \A u \in Users : profile'[u] = profile[u] \/ profile'[u] \notin ProfileImages,
           \A u \in Users :
              profile[u] \in ProfileImages /\ OnDisk(profile[u]) =>
                 \/ disk'[profile[u]] \in {"fresh", "aged"}
                 \/ profile[u] \in lost'
                 \/ \E r \in Requests : /\ req'[r].pc = "clear" /\ req'[r].user = u
                                       /\ req'[r].old = profile[u],
           \A r \in Requests :
              \/ req[r].pc # "clear"
              \/ req'[r] = req[r]
              \/ profile'[req[r].user] \notin ProfileImages
              \/ req[r].old \in ProfileImages => req[r].old \in lost'
    PROVE  ProfileOnDisk'
  BY DEF UploadsInv, ProfileOnDisk, OnDisk

\* What was settled when the run began stays so.
LEMMA SettledKept ==
    ASSUME UploadsAssumption, UploadsInv,
           job'.pc # "idle" => job.pc # "idle" /\ job'.settled = job.settled,
           \A r \in Requests : req'[r].file \in {req[r].file, None},
           \A f \in ProfileImages :
              /\ disk'[f] = "none" => disk[f] = "none"
              /\ disk'[f] = "aged" => disk[f] = "aged" \/ job.pc = "idle"
                                                       \/ f \in job.settled
    PROVE  Settled'
  <1>1. job.settled \subseteq ProfileImages
    BY DEF UploadsInv, TypeOK, Job
  <1> QED
    BY <1>1, IdleType DEF UploadsInv, Settled

\* The job does not move, and no account gets an image that was settled.
LEMMA ProfilesKept ==
    ASSUME UploadsInv, job' = job,
           \A u \in Users : \/ profile'[u] = profile[u]
                            \/ job.pc # "idle" => profile'[u] \notin job.settled
    PROVE  Profiles'
  BY DEF UploadsInv, Profiles

\* The job does not move, and no reference is counted that is not there.
LEMMA PostsKept ==
    ASSUME UploadsInv, job' = job, kept' \subseteq kept,
           \A k \in kept' : k[2] \in content'[k[1]]
    PROVE  Kept'
  BY DEF UploadsInv, Kept

\* What accounts have is settled only if it was there before the run.
LEMMA NoneSettled ==
    ASSUME UploadsAssumption, UploadsInv
    PROVE  \A i : i \notin ProfileImages => i \notin job.settled
  BY DEF UploadsInv, TypeOK, Job

\* A request begins or goes on, and nothing else changes.
LEMMA RequestOnly ==
    ASSUME UploadsAssumption, UploadsInv, NEW r \in Requests, NEW q \in Request,
           req' = [req EXCEPT ![r] = q],
           UNCHANGED <<users, disk, board, profile, job, lost, faults>>,
           req[r].pc # "clear", q.file = None, q.pc \notin {"set", "drop"},
           q.old = None \/ q.old = profile[q.user]
    PROVE  UploadsInv'
  <1>1. /\ req' \in [Requests -> Request] /\ req'[r] = q
        /\ \A s \in Requests : s # r => req'[s] = req[s]
    BY DEF UploadsInv, TypeOK
  <1>2. q.user \in Users
    BY DEF Request
  <1>3. UNCHANGED <<users, disk, post, content, kept, profile, job, lost, faults>>
    BY DEF board
  <1>4. TypeOK'
    BY <1>1, <1>3 DEF UploadsInv, TypeOK
  <1>5. Written' /\ Owned'
    BY <1>1, <1>2, <1>3, HoldersKept
  <1>6. ProfileOnDisk'
    BY <1>1, <1>3, OnDiskKept DEF OnDisk
  <1>7. Settled'
    BY <1>1, <1>3, SettledKept
  <1>8. Profiles' /\ Kept'
    BY <1>3, ProfilesKept, PostsKept DEF UploadsInv, Kept
  <1> QED
    BY <1>4, <1>5, <1>6, <1>7, <1>8 DEF UploadsInv

\* Accounts change, and a request may end: an image is taken from an account.
LEMMA ProfileOnly ==
    ASSUME UploadsAssumption, UploadsInv, users' \subseteq Users,
           profile' \in [Users -> Image],
           \A u \in Users :
              profile'[u] = profile[u] \/ (profile'[u] \notin ProfileImages /\ Known(profile'[u])),
           UNCHANGED <<disk, board, job, lost, faults>>,
           req' \in [Requests -> Request],
           \A r \in Requests :
              req'[r] = req[r] \/ (req'[r] = Idle /\
                 (req[r].pc = "clear" => profile'[req[r].user] \notin ProfileImages))
    PROVE  UploadsInv'
  <1>1. UNCHANGED <<disk, post, content, kept, job, lost, faults>>
    BY DEF board
  <1>2. TypeOK'
    BY <1>1 DEF UploadsInv, TypeOK
  <1>3. Written' /\ Owned'
    BY <1>1, IdleType, HoldersKept
  <1>4. ProfileOnDisk'
    BY <1>1, OnDiskKept DEF OnDisk
  <1>5. Settled'
    BY <1>1, IdleType, SettledKept
  <1>6. Profiles' /\ Kept'
    BY <1>1, NoneSettled, ProfilesKept, PostsKept DEF UploadsInv, Kept
  <1> QED
    BY <1>2, <1>3, <1>4, <1>5, <1>6 DEF UploadsInv

-----------------------------------------------------------------------------
(* The requests of an account.                                             *)

LEMMA Begins ==
    ASSUME UploadsAssumption, UploadsInv, NEW r \in Requests,
           \/ \E u \in Users : UploadRead(r, u) \/ DeleteRead(r, u)
           \/ \E p \in Posts : RemoveRead(r, p)
    PROVE  UploadsInv'
  <1>1. ASSUME NEW u \in Users, NEW pc \in {"save", "unlink"}, req[r].pc = "idle",
               req' = [req EXCEPT ![r] = [Idle EXCEPT !.pc = pc, !.user = u,
                                                      !.old = profile[u]]],
               UNCHANGED <<users, disk, board, profile, job, lost, faults>>
        PROVE  UploadsInv'
    <2> DEFINE new == [Idle EXCEPT !.pc = pc, !.user = u, !.old = profile[u]]
    <2>1. profile[u] \in Image
      BY DEF UploadsInv, TypeOK
    <2>2. /\ new \in Request /\ new.pc = pc /\ new.user = u /\ new.old = profile[u]
          /\ new.file = None
      BY <2>1, IdleType DEF Request
    <2> HIDE DEF new
    <2> QED
      BY <1>1, <2>2, RequestOnly DEF new
  <1>2. ASSUME NEW u \in Users, UploadRead(r, u) \/ DeleteRead(r, u)
        PROVE  UploadsInv'
    BY <1>1, <1>2 DEF UploadRead, DeleteRead
  <1>3. ASSUME NEW p \in Posts, RemoveRead(r, p)
        PROVE  UploadsInv'
    <2> DEFINE new == [Idle EXCEPT !.pc = "purge", !.post = p, !.images = content[p]]
    <2>1. content[p] \in SUBSET PostImages
      BY DEF UploadsInv, TypeOK
    <2>2. /\ new \in Request /\ new.pc = "purge" /\ new.old = None /\ new.file = None
      BY <2>1, IdleType DEF Request
    <2>3. req' = [req EXCEPT ![r] = new] /\ req[r].pc = "idle"
          /\ UNCHANGED <<users, disk, board, profile, job, lost, faults>>
      BY <1>3 DEF RemoveRead
    <2> HIDE DEF new
    <2> QED
      BY <2>2, <2>3, IdleType, RequestOnly
  <1> QED
    BY <1>2, <1>3

\* A new file has a new name: nobody has it, and no run of the job counts on it.
LEMMA Saves ==
    ASSUME UploadsAssumption, UploadsInv, NEW r \in Requests,
           NEW f \in ProfileImages, UploadSave(r, f)
    PROVE  UploadsInv'
  <1> DEFINE new == [req[r] EXCEPT !.pc = "set", !.file = f]
  <1>1. /\ req[r].pc = "save" /\ disk[f] = "none" /\ f \in Files
        /\ disk' = [disk EXCEPT ![f] = "fresh"] /\ req' = [req EXCEPT ![r] = new]
        /\ UNCHANGED <<users, post, content, kept, profile, job, lost, faults>>
    BY DEF UploadSave, board, Files
  <1>2. req[r] \in Request /\ f \in Image
    BY IdleType DEF UploadsInv, TypeOK
  <1>3. /\ new \in Request /\ new.pc = "set" /\ new.file = f
        /\ new.old = req[r].old /\ new.user = req[r].user
    BY <1>2 DEF Request
  <1> HIDE DEF new
  <1>4. /\ req' \in [Requests -> Request] /\ req'[r] = new
        /\ \A s \in Requests : s # r => req'[s] = req[s]
    BY <1>1, <1>3 DEF UploadsInv, TypeOK
  <1>5. /\ disk' \in [Files -> {"none", "fresh", "aged", "gone"}] /\ disk'[f] = "fresh"
        /\ \A g \in Files : g # f => disk'[g] = disk[g]
    BY <1>1 DEF UploadsInv, TypeOK
  <1>6. /\ \A u \in Users : Named(profile[u]) # f /\ profile[u] # f
        /\ \A s \in Requests : Named(req[s].old) # f /\ req[s].old # f /\ req[s].file # f
    <2>1. Named(f) = f
      BY KnownImage
    <2>2. \A i : Known(i) => Named(i) # f
      BY <1>1 DEF Known
    <2> QED
      BY <1>1, <2>1, <2>2 DEF UploadsInv, Written
  <1>7. ProfileImages \subseteq Files
    BY DEF Files
  <1>8. TypeOK'
    BY <1>1, <1>4, <1>5, DiskTypes DEF UploadsInv, TypeOK
  <1>9. Written'
    <2>1. \A i : Known(i) /\ Named(i) # f => Known(i)'
      BY <1>1, <1>3, <1>4, <1>5 DEF Known, Named
    <2>2. \A u \in Users : Known(profile[u])'
      BY <1>1, <1>6, <2>1 DEF UploadsInv, Written
    <2>3. \A s \in Requests : Known(req[s].old)'
      <3>1. \A s \in Requests : req'[s].old = req[s].old
        BY <1>3, <1>4
      <3> QED
        BY <1>6, <2>1, <3>1 DEF UploadsInv, Written
    <2> QED
      BY <1>1, <1>3, <1>4, <1>5, <1>6, <1>7, <2>2, <2>3, IdleType DEF UploadsInv, Written
  <1>10. Owned'
    BY <1>1, <1>3, <1>4, <1>6 DEF UploadsInv, Owned
  <1>11. Settled'
    BY <1>1, <1>3, <1>4, <1>5, <1>7 DEF UploadsInv, Settled, TypeOK, Job
  <1>12. Profiles' /\ Kept'
    BY <1>1, ProfilesKept, PostsKept DEF UploadsInv, Kept
  <1>13. ProfileOnDisk'
    BY <1>1, <1>3, <1>4, <1>5, <1>6, <1>7, OnDiskKept DEF OnDisk
  <1> QED
    BY <1>8, <1>9, <1>10, <1>11, <1>12, <1>13 DEF UploadsInv

\* The account gets the file that the request wrote and still holds.
LEMMA Sets ==
    ASSUME UploadsAssumption, UploadsInv, NEW r \in Requests, UploadSet(r)
    PROVE  UploadsInv'
  <1> DEFINE u == req[r].user
             f == req[r].file
             new == [req[r] EXCEPT !.pc = "drop"]
  <1>1. /\ req[r] \in Request /\ u \in Users /\ req[r].pc = "set"
        /\ f \in ProfileImages /\ f \in Files /\ f \in Image /\ disk[f] = "fresh"
        /\ UNCHANGED <<users, disk, post, content, kept, job, lost, faults>>
    BY IdleType DEF UploadSet, UploadsInv, TypeOK, Written, Request, board, Files
  <1>2. CASE u \notin users
    <2>1. req' = [req EXCEPT ![r] = Idle] /\ profile' = profile
      BY <1>2 DEF UploadSet, Finish
    <2>2. /\ req' \in [Requests -> Request] /\ req'[r] = Idle
          /\ \A s \in Requests : s # r => req'[s] = req[s]
      BY <2>1, IdleType DEF UploadsInv, TypeOK
    <2> QED
      BY <1>1, <2>1, <2>2, ProfileOnly DEF UploadsInv, TypeOK, board
  <1>3. CASE u \in users
    <2>1. /\ profile' = [profile EXCEPT ![u] = f]
          /\ req' = [req EXCEPT ![r] = new]
      BY <1>3 DEF UploadSet
    <2>2. /\ new \in Request /\ new.pc = "drop" /\ new.file = f
          /\ new.old = req[r].old /\ new.user = u
      BY <1>1 DEF Request
    <2> HIDE DEF new
    <2>3. /\ req' \in [Requests -> Request] /\ req'[r] = new
          /\ \A s \in Requests : s # r => req'[s] = req[s]
      BY <2>1, <2>2 DEF UploadsInv, TypeOK
    <2> HIDE DEF u, f
    <2>4. /\ profile' \in [Users -> Image] /\ profile'[u] = f
          /\ \A v \in Users : v # u => profile'[v] = profile[v]
      BY <1>1, <2>1 DEF UploadsInv, TypeOK
    <2>5. TypeOK'
      BY <1>1, <2>3, <2>4 DEF UploadsInv, TypeOK
    <2>6. Written'
      <3>1. \A i : Known(i) => Known(i)'
        BY <1>1, <2>2, <2>3 DEF Known, Named
      <3>2. \A s \in Requests : Known(req[s].old)'
        <4>1. \A s \in Requests : req'[s].old = req[s].old
          BY <2>2, <2>3
        <4> QED
          BY <3>1, <4>1 DEF UploadsInv, Written
      <3>3. \A v \in Users : Known(profile[v])'
        <4>1. ASSUME NEW i, i = f
              PROVE  Known(i)'
          <5>1. Named(i) = i /\ disk'[i] = "fresh"
            BY <1>1, <4>1, KnownImage DEF f
          <5>2. \A s \in Requests : req'[s].pc = "set" => req'[s].file # i
            BY <1>1, <2>2, <2>3, <4>1 DEF UploadsInv, Owned, f
          <5> QED
            BY <5>1, <5>2 DEF Known, Named
        <4> QED
          BY <2>4, <3>1, <4>1 DEF UploadsInv, Written
      <3> QED
        BY <1>1, <2>2, <2>3, <3>2, <3>3 DEF UploadsInv, Written
    <2>7. Owned'
      <3>1. /\ \A v \in Users : profile[v] # f
            /\ \A s \in Requests : req[s].old # f
            /\ \A s \in Requests : s # r => req[s].file # f
        BY <1>1, KnownImage DEF UploadsInv, Owned, f
      <3>2. \A s \in Requests : /\ req'[s].old = req[s].old /\ req'[s].file = req[s].file
                                /\ req'[s].user = req[s].user
                                /\ s # r => req'[s].pc = req[s].pc
        BY <2>2, <2>3 DEF f, u
      <3>3. \A s, t \in Requests :
               req'[s].file = req'[t].file /\ req'[s].file \in ProfileImages => s = t
        BY <3>2 DEF UploadsInv, Owned
      <3>5. \A v, w \in Users :
               profile'[v] = profile'[w] /\ profile'[v] \in ProfileImages => v = w
        BY <2>4, <3>1 DEF UploadsInv, Owned
      <3>6. ASSUME NEW s \in Requests, req'[s].old \in ProfileImages
            PROVE  /\ \A v \in Users : profile'[v] = req'[s].old => v = req'[s].user
                   /\ req'[s].pc = "drop" => \A v \in Users : profile'[v] # req'[s].old
        <4>1. \A v \in Users : profile'[v] = req[s].old => v # u /\ profile[v] = req[s].old
          BY <2>4, <3>1
        <4>2. \A v \in Users : profile'[v] = req'[s].old => v = req'[s].user
          BY <3>2, <3>6, <4>1 DEF UploadsInv, Owned
        <4>3. CASE s = r
          BY <3>2, <4>1, <4>2, <4>3 DEF u
        <4>4. CASE s # r
          BY <3>2, <3>6, <4>1, <4>2, <4>4 DEF UploadsInv, Owned
        <4> QED
          BY <4>3, <4>4
      <3> QED
        BY <3>3, <3>5, <3>6 DEF Owned
    <2>8. Settled'
      BY <1>1, <2>2, <2>3, SettledKept DEF f
    <2>9. Profiles'
      <3>1. job.pc # "idle" => f \notin job.settled
        BY <1>1 DEF UploadsInv, Settled, f
      <3> QED
        BY <1>1, <2>4, <3>1, ProfilesKept
    <2>10. Kept'
      BY <1>1, PostsKept DEF UploadsInv, Kept
    <2>11. ProfileOnDisk'
      BY <1>1, <2>2, <2>3, <2>4 DEF UploadsInv, ProfileOnDisk, OnDisk
    <2> QED
      BY <2>5, <2>6, <2>7, <2>8, <2>9, <2>10, <2>11 DEF UploadsInv
  <1> QED
    BY <1>2, <1>3

\* A request deletes files that no account has but the one it will clear, and
\* that no upload has yet to set.
LEMMA FilesGo ==
    ASSUME UploadsAssumption, UploadsInv, NEW r \in Requests, NEW q \in Request,
           NEW S, disk' = Unlinked(S), req' = [req EXCEPT ![r] = q],
           UNCHANGED <<users, board, profile, job, faults>>,
           req[r].pc # "clear", q.file = None, q.pc \notin {"set", "drop"},
           \/ q.old = None
           \/ q.old = req[r].old /\ q.user = req[r].user /\ req[r].pc \notin {"set", "drop"},
           lost \subseteq lost', lost' \subseteq ProfileImages,
           \A u \in Users : profile[u] \in S /\ profile[u] \in ProfileImages =>
              \/ profile[u] \in lost'
              \/ q.pc = "clear" /\ q.user = u /\ q.old = profile[u],
           \A s \in Requests : req[s].pc = "set" => req[s].file \notin S
    PROVE  UploadsInv'
  <1>1. /\ req' \in [Requests -> Request] /\ req'[r] = q
        /\ \A s \in Requests : s # r => req'[s] = req[s]
    BY DEF UploadsInv, TypeOK
  <1>2. UNCHANGED <<users, post, content, kept, profile, job, faults>>
    BY DEF board
  <1>3. /\ disk' \in [Files -> {"none", "fresh", "aged", "gone"}]
        /\ \A f \in Files : /\ f \notin S => disk'[f] = disk[f]
                            /\ disk'[f] \in {disk[f], "gone"}
                            /\ disk'[f] = "gone" => disk[f] # "none"
    BY UnlinkedType
  <1>4. ProfileImages \subseteq Files
    BY DEF Files
  <1>5. TypeOK'
    BY <1>1, <1>2, <1>3, DiskTypes DEF UploadsInv, TypeOK
  <1>6. Written' /\ Owned'
    <2>1. \A s \in Requests :
              \/ /\ req'[s].file = req[s].file /\ req'[s].old = req[s].old
                 /\ req'[s].user = req[s].user
                 /\ \/ req'[s].pc = req[s].pc
                    \/ req[s].file = None /\ req'[s].pc \notin {"set", "drop"}
              \/ /\ req'[s].file = None /\ req'[s].pc \notin {"set", "drop"}
                 /\ \/ req'[s].old = None
                    \/ req'[s].user \in Users /\ req'[s].old = profile[req'[s].user]
      BY <1>1 DEF UploadsInv, Written
    <2>2. /\ \A f \in Files : disk'[f] = "none" => disk[f] = "none"
          /\ \A f \in ProfileImages, s \in Requests : req[s].file = f =>
                /\ disk'[f] \in {disk[f], "gone"}
                /\ req[s].pc = "set" => disk'[f] = disk[f]
      BY <1>3, <1>4
    <2> QED
      BY <1>2, <2>1, <2>2, HoldersKept
  <1>7. ProfileOnDisk'
    <2>1. \A u \in Users : profile[u] \in ProfileImages /\ OnDisk(profile[u]) =>
             \/ disk'[profile[u]] \in {"fresh", "aged"}
             \/ profile[u] \in lost'
             \/ req'[r].pc = "clear" /\ req'[r].user = u /\ req'[r].old = profile[u]
      BY <1>1, <1>3, <1>4 DEF OnDisk
    <2> QED
      BY <1>1, <1>2, <2>1, OnDiskKept
  <1>8. Settled'
    BY <1>1, <1>2, <1>3, <1>4, SettledKept
  <1>9. Profiles' /\ Kept'
    BY <1>2, ProfilesKept, PostsKept DEF UploadsInv, Kept
  <1> QED
    BY <1>5, <1>6, <1>7, <1>8, <1>9 DEF UploadsInv

\* What goes when a request deletes the image it has read, and what is lost.
LEMMA Through ==
    ASSUME UploadsAssumption, UploadsInv, NEW r \in Requests
    PROVE  /\ lost \cup ThroughLink(req[r].old) \subseteq ProfileImages
           /\ \A s \in Requests : req[s].pc = "set" => req[s].file \notin {Named(req[r].old)}
           /\ \A u \in Users : profile[u] \in {Named(req[r].old)} /\ profile[u] \in ProfileImages =>
                 profile[u] \in ThroughLink(req[r].old) \/ profile[u] = req[r].old
  <1>1. \A s \in Requests : req[s].pc = "set" => req[s].file \notin {Named(req[r].old)}
    BY KnownImage
  <1> QED
    BY <1>1 DEF ThroughLink, Named, UploadsInv, TypeOK

\* The image that was replaced: nobody has it any more.
LEMMA Drops ==
    ASSUME UploadsAssumption, UploadsInv, NEW r \in Requests, UploadDrop(r)
    PROVE  UploadsInv'
  <1>1. /\ req[r].pc = "drop" /\ disk' = Unlinked({Named(req[r].old)})
        /\ lost' = lost \cup ThroughLink(req[r].old)
        /\ req' = [req EXCEPT ![r] = Idle]
        /\ UNCHANGED <<users, board, profile, job, faults>>
    BY DEF UploadDrop, Finish
  <1>2. \A u \in Users :
           profile[u] \in {Named(req[r].old)} /\ profile[u] \in ProfileImages => profile[u] \in lost'
    BY <1>1, Through DEF UploadsInv, Owned
  <1>3. lost \subseteq lost' /\ lost' \subseteq ProfileImages
    BY <1>1, Through
  <1>4. \A s \in Requests : req[s].pc = "set" => req[s].file \notin {Named(req[r].old)}
    BY Through
  <1> QED
    BY <1>1, <1>2, <1>3, <1>4, IdleType, FilesGo

\* The image whose reference the same request will clear.
LEMMA Unlinks ==
    ASSUME UploadsAssumption, UploadsInv, NEW r \in Requests, DeleteUnlink(r)
    PROVE  UploadsInv'
  <1> DEFINE new == [req[r] EXCEPT !.pc = "clear"]
  <1>1. /\ req[r].pc = "unlink" /\ disk' = Unlinked({Named(req[r].old)})
        /\ lost' = lost \cup ThroughLink(req[r].old)
        /\ req' = [req EXCEPT ![r] = new]
        /\ UNCHANGED <<users, board, profile, job, faults>>
    BY DEF DeleteUnlink
  <1>2. req[r] \in Request /\ req[r].file = None
    BY <1>1 DEF UploadsInv, TypeOK, Written
  <1>3. /\ new \in Request /\ new.pc = "clear" /\ new.file = None
        /\ new.old = req[r].old /\ new.user = req[r].user
    BY <1>2 DEF Request
  <1> HIDE DEF new
  <1>4. \A u \in Users :
           profile[u] \in {Named(req[r].old)} /\ profile[u] \in ProfileImages =>
              \/ profile[u] \in lost'
              \/ new.pc = "clear" /\ new.user = u /\ new.old = profile[u]
    BY <1>1, <1>3, Through DEF UploadsInv, Owned
  <1>5. lost \subseteq lost' /\ lost' \subseteq ProfileImages
    BY <1>1, Through
  <1>6. \A s \in Requests : req[s].pc = "set" => req[s].file \notin {Named(req[r].old)}
    BY Through
  <1>7. req[r].pc \notin {"clear", "set", "drop"} /\ new.pc \notin {"set", "drop"}
    BY <1>1, <1>3
  <1> QED
    BY <1>1, <1>3, <1>4, <1>5, <1>6, <1>7, FilesGo

\* The images of a post: no account has one.
LEMMA Purges ==
    ASSUME UploadsAssumption, UploadsInv, NEW r \in Requests, RemovePurge(r)
    PROVE  UploadsInv'
  <1> DEFINE new == [req[r] EXCEPT !.pc = "delete"]
  <1>1. /\ req[r].pc = "purge" /\ disk' = Unlinked(req[r].images)
        /\ req' = [req EXCEPT ![r] = new]
        /\ UNCHANGED <<users, board, profile, job, lost, faults>>
    BY DEF RemovePurge
  <1>2. /\ req[r] \in Request /\ req[r].file = None
        /\ req[r].images \cap ProfileImages = {}
    BY <1>1 DEF UploadsInv, TypeOK, Written, Request, UploadsAssumption
  <1>3. /\ new \in Request /\ new.pc = "delete" /\ new.file = None
        /\ new.old = req[r].old /\ new.user = req[r].user
    BY <1>2 DEF Request
  <1> HIDE DEF new
  <1>4. \A s \in Requests : req[s].pc = "set" => req[s].file \notin req[r].images
    BY <1>2 DEF UploadsInv, Written
  <1>5. \A u \in Users : profile[u] \in ProfileImages => profile[u] \notin req[r].images
    BY <1>2
  <1>6. lost' = lost /\ lost \subseteq ProfileImages
    BY <1>1 DEF UploadsInv, TypeOK
  <1> QED
    BY <1>1, <1>2, <1>3, <1>4, <1>5, <1>6, FilesGo

\* The column is set to null, by whoever has the right to.
LEMMA Clears ==
    ASSUME UploadsAssumption, UploadsInv, NEW r \in Requests, DeleteClear(r)
    PROVE  UploadsInv'
  <1>1. req[r].user \in Users
    BY DEF UploadsInv, TypeOK, Request
  <1>2. /\ profile' = [profile EXCEPT ![req[r].user] = None]
        /\ req' = [req EXCEPT ![r] = Idle]
        /\ UNCHANGED <<users, disk, board, job, lost, faults>>
    BY DEF DeleteClear, Finish
  <1>3. /\ req' \in [Requests -> Request]
        /\ req'[r] = Idle /\ \A s \in Requests : s # r => req'[s] = req[s]
    BY <1>2, IdleType DEF UploadsInv, TypeOK
  <1>4. /\ profile' \in [Users -> Image] /\ profile'[req[r].user] = None
        /\ \A u \in Users : u # req[r].user => profile'[u] = profile[u]
    BY <1>1, <1>2, IdleType DEF UploadsInv, TypeOK
  <1>5. \A u \in Users :
           profile'[u] = profile[u] \/ (profile'[u] \notin ProfileImages /\ Known(profile'[u]))
    BY <1>4, IdleType
  <1>6. \A s \in Requests :
           req'[s] = req[s] \/ (req'[s] = Idle /\
              (req[s].pc = "clear" => profile'[req[s].user] \notin ProfileImages))
    BY <1>3, <1>4, IdleType
  <1>7. users' \subseteq Users
    BY <1>2 DEF UploadsInv, TypeOK
  <1> QED
    BY <1>2, <1>3, <1>4, <1>5, <1>6, <1>7, ProfileOnly

\* An account's image becomes a full URL, or nothing when it is deleted.
LEMMA Leaves ==
    ASSUME UploadsAssumption, UploadsInv, NEW u \in Users,
           DeleteUser(u) \/ \E l \in Links : SetLink(u, l)
    PROVE  UploadsInv'
  <1>1. PICK i \in Links \cup {None} :
           /\ users' \subseteq Users /\ profile' = [profile EXCEPT ![u] = i]
           /\ Known(i)
           /\ UNCHANGED <<disk, board, req, job, lost, faults>>
    <2>1. CASE DeleteUser(u)
      BY <2>1, IdleType DEF DeleteUser, UploadsInv, TypeOK
    <2>2. ASSUME NEW l \in Links, SetLink(u, l)
          PROVE  Known(l)
      BY <2>2 DEF SetLink, Known, Named
    <2>3. CASE \E l \in Links : SetLink(u, l)
      BY <2>2, <2>3 DEF SetLink, UploadsInv, TypeOK
    <2> QED
      BY <2>1, <2>3
  <1>2. i \in Image /\ i \notin ProfileImages
    BY IdleType
  <1>3. /\ profile' \in [Users -> Image]
        /\ \A v \in Users :
              profile'[v] = profile[v] \/ (profile'[v] \notin ProfileImages /\ Known(profile'[v]))
    BY <1>1, <1>2 DEF UploadsInv, TypeOK
  <1>4. req' \in [Requests -> Request] /\ \A r \in Requests : req'[r] = req[r]
    BY <1>1 DEF UploadsInv, TypeOK
  <1> QED
    BY <1>1, <1>3, <1>4, ProfileOnly

-----------------------------------------------------------------------------
(* The posts and their images.                                             *)

\* Posts change and a request may end; no reference is counted that is not there.
LEMMA BoardOnly ==
    ASSUME UploadsAssumption, UploadsInv,
           UNCHANGED <<users, disk, profile, job, lost, faults>>,
           req' \in [Requests -> Request],
           \A r \in Requests : req'[r] = req[r] \/ (req'[r] = Idle /\ req[r].pc # "clear"),
           post' \in [Posts -> {"none", "up", "gone"}],
           content' \in [Posts -> SUBSET PostImages],
           \A p \in Posts : post'[p] # "up" => content'[p] = {},
           kept' \subseteq kept, \A k \in kept' : k[2] \in content'[k[1]]
    PROVE  UploadsInv'
  <1>1. TypeOK'
    BY DEF UploadsInv, TypeOK
  <1>2. Written' /\ Owned'
    BY IdleType, HoldersKept
  <1>3. ProfileOnDisk'
    BY OnDiskKept DEF OnDisk
  <1>4. Settled'
    BY IdleType, SettledKept
  <1>5. Profiles' /\ Kept'
    BY ProfilesKept, PostsKept
  <1> QED
    BY <1>1, <1>2, <1>3, <1>4, <1>5 DEF UploadsInv

LEMMA Writes ==
    ASSUME UploadsAssumption, UploadsInv, NEW p \in Posts,
           NEW images \in SUBSET PostImages, WritePost(p, images)
    PROVE  UploadsInv'
  <1>1. /\ post' = [post EXCEPT ![p] = "up"]
        /\ content' = [content EXCEPT ![p] = images]
        /\ kept' = {k \in kept : k[1] = p => k[2] \in images}
        /\ UNCHANGED <<users, disk, profile, req, job, lost, faults>>
    BY DEF WritePost
  <1>2. kept \subseteq Posts \X PostImages
    BY DEF UploadsInv, TypeOK
  <1>3. /\ post' \in [Posts -> {"none", "up", "gone"}]
        /\ content' \in [Posts -> SUBSET PostImages]
        /\ post'[p] = "up" /\ content'[p] = images
        /\ \A q \in Posts : q # p => post'[q] = post[q] /\ content'[q] = content[q]
    BY <1>1 DEF UploadsInv, TypeOK
  <1>4. \A q \in Posts : post'[q] # "up" => content'[q] = {}
    BY <1>3 DEF UploadsInv, TypeOK
  <1>5. kept' \subseteq kept /\ \A k \in kept' : k[2] \in content'[k[1]]
    <2>1. ASSUME NEW k \in kept'
          PROVE  k[2] \in content'[k[1]]
      <3>1. k \in kept /\ k[1] \in Posts /\ k[2] \in content[k[1]]
            /\ (k[1] = p => k[2] \in images)
        BY <1>1, <1>2 DEF UploadsInv, Kept
      <3> QED
        BY <3>1, <1>3
    <2> QED
      BY <2>1, <1>1
  <1>6. req' \in [Requests -> Request] /\ \A r \in Requests : req'[r] = req[r]
    BY <1>1 DEF UploadsInv, TypeOK
  <1> QED
    BY <1>1, <1>3, <1>4, <1>5, <1>6, BoardOnly

LEMMA Removes ==
    ASSUME UploadsAssumption, UploadsInv, NEW r \in Requests, RemoveDelete(r)
    PROVE  UploadsInv'
  <1> DEFINE p == req[r].post
  <1>1. /\ req[r].pc = "delete"
        /\ post' = [post EXCEPT ![p] = "gone"]
        /\ content' = [content EXCEPT ![p] = {}]
        /\ kept' = {k \in kept : k[1] # p}
        /\ req' = [req EXCEPT ![r] = Idle]
        /\ UNCHANGED <<users, disk, profile, job, lost, faults>>
    BY DEF RemoveDelete, Finish
  <1>2. kept \subseteq Posts \X PostImages
    BY DEF UploadsInv, TypeOK
  <1> HIDE DEF p
  <1>3. /\ post' \in [Posts -> {"none", "up", "gone"}]
        /\ content' \in [Posts -> SUBSET PostImages]
        /\ p \in Posts => post'[p] = "gone" /\ content'[p] = {}
        /\ \A q \in Posts : q # p => post'[q] = post[q] /\ content'[q] = content[q]
    BY <1>1, <1>2 DEF UploadsInv, TypeOK
  <1>4. \A q \in Posts : post'[q] # "up" => content'[q] = {}
    BY <1>3 DEF UploadsInv, TypeOK
  <1>5. kept' \subseteq kept /\ \A k \in kept' : k[2] \in content'[k[1]]
    <2>1. ASSUME NEW k \in kept'
          PROVE  k[2] \in content'[k[1]]
      <3>1. k \in kept /\ k[1] \in Posts /\ k[2] \in content[k[1]] /\ k[1] # p
        BY <1>1, <1>2 DEF UploadsInv, Kept
      <3> QED
        BY <3>1, <1>3
    <2> QED
      BY <2>1, <1>1
  <1>6. /\ req' \in [Requests -> Request] /\ req'[r] = Idle
        /\ \A s \in Requests : s # r => req'[s] = req[s]
    BY <1>1, IdleType DEF UploadsInv, TypeOK
  <1>7. \A s \in Requests : req'[s] = req[s] \/ (req'[s] = Idle /\ req[s].pc # "clear")
    <2>1. req[r].pc # "clear"
      BY <1>1
    <2> QED
      BY <1>6, <2>1
  <1> QED
    BY <1>1, <1>3, <1>4, <1>5, <1>6, <1>7, BoardOnly

-----------------------------------------------------------------------------
(* The files, and the job.                                                 *)

\* Files come, or grow old: nothing that is on the disk leaves it.
LEMMA Appears ==
    ASSUME UploadsAssumption, UploadsInv, NEW f \in Files,
           \/ f \in PostImages /\ PostImageUpload(f)
           \/ GrowOld(f)
    PROVE  UploadsInv'
  <1>1. /\ UNCHANGED <<users, post, content, kept, profile, req, job, lost, faults>>
        /\ \/ /\ f \in PostImages /\ disk[f] = "none"
              /\ disk' = [disk EXCEPT ![f] = "fresh"]
           \/ /\ disk[f] = "fresh" /\ disk' = [disk EXCEPT ![f] = "aged"]
              /\ \A r \in Requests : req[r].file # f
              /\ f \in ProfileImages => job.pc = "idle" \/ f \in job.settled
    BY DEF PostImageUpload, GrowOld, Saving, board
  <1>2. /\ disk' \in [Files -> {"none", "fresh", "aged", "gone"}]
        /\ \A g \in Files : g # f => disk'[g] = disk[g]
        /\ \/ disk'[f] = "fresh" /\ disk[f] = "none"
           \/ disk'[f] = "aged" /\ disk[f] = "fresh"
    <2>1. disk \in [Files -> {"none", "fresh", "aged", "gone"}]
      BY DEF UploadsInv, TypeOK
    <2>2. CASE disk[f] = "none" /\ disk' = [disk EXCEPT ![f] = "fresh"]
      BY <2>1, <2>2
    <2>3. CASE disk[f] = "fresh" /\ disk' = [disk EXCEPT ![f] = "aged"]
      BY <2>1, <2>3
    <2> QED
      BY <1>1, <2>2, <2>3
  <1>3. ProfileImages \subseteq Files
    BY DEF Files
  <1>4. f \in ProfileImages =>
           /\ disk[f] = "fresh" /\ disk'[f] = "aged"
           /\ \A r \in Requests : req[r].file # f
           /\ job.pc = "idle" \/ f \in job.settled
    BY <1>1, <1>2 DEF UploadsAssumption
  <1>5. TypeOK'
    BY <1>1, <1>2, DiskTypes DEF UploadsInv, TypeOK
  <1>6. Written' /\ Owned'
    BY <1>1, <1>2, <1>3, <1>4, HoldersKept
  <1>7. ProfileOnDisk'
    BY <1>1, <1>2, <1>3, <1>4, OnDiskKept DEF OnDisk
  <1>8. Settled'
    BY <1>1, <1>2, <1>3, <1>4, SettledKept
  <1>9. Profiles' /\ Kept'
    BY <1>1, ProfilesKept, PostsKept DEF UploadsInv, Kept
  <1> QED
    BY <1>5, <1>6, <1>7, <1>8, <1>9 DEF UploadsInv

\* The job moves, and nothing changes but what it has read.
LEMMA JobOnly ==
    ASSUME UploadsAssumption, UploadsInv,
           UNCHANGED <<users, disk, post, content, profile, req, lost>>,
           faults' \in Nat,
           job' \in Job, \A f \in job'.todo : disk[f] \in {"aged", "gone"},
           kept' \subseteq Posts \X PostImages,
           Settled', Profiles', Kept'
    PROVE  UploadsInv'
  <1>1. TypeOK'
    BY DEF UploadsInv, TypeOK
  <1>2. Written' /\ Owned'
    BY DEF UploadsInv, Written, Owned, Known, Named
  <1>3. ProfileOnDisk'
    BY DEF UploadsInv, ProfileOnDisk, OnDisk
  <1> QED
    BY <1>1, <1>2, <1>3 DEF UploadsInv

LEMMA Stopped ==
    JobIdle \in Job /\ JobIdle.pc = "idle" /\ JobIdle.todo = {} /\ JobIdle.skip = 0
  BY DEF JobIdle, Job

\* No upload has an old file: what is old when the run begins is settled.
LEMMA JobStarts ==
    ASSUME UploadsAssumption, UploadsInv, JobStart
    PROVE  UploadsInv'
  <1> DEFINE S == {f \in ProfileImages : OnDisk(f) /\ ~Saving(f)}
             new == [JobIdle EXCEPT !.pc = "posts", !.settled = S]
  <1>1. /\ job' = new
        /\ kept' = {k \in Posts \X PostImages : k[2] \in content[k[1]]}
        /\ UNCHANGED <<users, disk, post, content, profile, req, lost, faults>>
    BY DEF JobStart
  <1>2. /\ new \in Job /\ new.pc = "posts" /\ new.skip = 0 /\ new.todo = {}
        /\ new.settled = S
    BY DEF JobIdle, Job
  <1>3. \A f \in ProfileImages : disk[f] = "aged" => f \in S
    BY DEF UploadsInv, Written, OnDisk, Saving
  <1>4. \A f \in S : disk[f] # "none" /\ \A r \in Requests : req[r].file # f
    BY DEF OnDisk, Saving
  <1> HIDE DEF new, S
  <1>5. Settled'
    BY <1>1, <1>2, <1>3, <1>4 DEF Settled
  <1>6. Profiles'
    BY <1>1, <1>2 DEF Profiles
  <1>7. Kept'
    BY <1>1, <1>2 DEF Kept
  <1>8. faults' \in Nat
    BY <1>1 DEF UploadsInv, TypeOK
  <1> QED
    BY <1>1, <1>2, <1>5, <1>6, <1>7, <1>8, JobOnly

\* When the posts fit one page, the first page is all of them.
LEMMA WholePage ==
    ASSUME UploadsAssumption, UploadsInv, OnePage, job.skip = 0,
           NEW page \in SUBSET Up, Cardinality(page) = PageSize
    PROVE  page = Up
  <1>1. /\ IsFiniteSet(Up) /\ Cardinality(Up) \in Nat
        /\ Cardinality(Up) <= Cardinality(Posts) /\ Cardinality(Posts) \in Nat
    <2>1. Up \in SUBSET Posts
      BY DEF Up
    <2> QED
      BY <2>1, FS_Subset, FS_CardinalityType DEF UploadsAssumption
  <1>2. PageSize = Cardinality(Up)
    BY <1>1 DEF PageSize, OnePage, UploadsAssumption
  <1> QED
    BY <1>1, <1>2, FS_Subset

\* A page of posts is read: what the first one notes is never forgotten.
LEMMA JobReads ==
    ASSUME UploadsAssumption, UploadsInv, JobReadPosts
    PROVE  UploadsInv'
  <1>1. PICK page \in SUBSET Up :
           /\ Cardinality(page) = PageSize
           /\ job' = [job EXCEPT !.used = Noted(page), !.skip = @ + BatchSize,
                        !.pc = IF PageSize < BatchSize THEN "listPosts" ELSE "posts"]
    BY DEF JobReadPosts
  <1>2. job \in Job /\ job.pc = "posts" /\ job.skip \in Nat /\ BatchSize \in Nat \ {0}
    BY DEF JobReadPosts, UploadsInv, TypeOK, UploadsAssumption, Job
  <1>3. UNCHANGED <<users, disk, post, content, kept, profile, req, lost, faults>>
    BY DEF JobReadPosts, board
  <1>4. Noted(page) \in SUBSET Files /\ job.used \subseteq Noted(page)
    BY <1>2 DEF Noted, Job, Up, UploadsInv, TypeOK, Files
  <1>5. /\ job' \in Job /\ job'.pc \in {"posts", "listPosts"} /\ job'.used = Noted(page)
        /\ job'.skip = job.skip + BatchSize
        /\ job'.todo = job.todo /\ job'.settled = job.settled
    <2>1. job.skip + BatchSize \in Nat
      BY <1>2
    <2> QED
      BY <1>1, <1>2, <1>4, <2>1 DEF Job
  <1>6. Settled'
    BY <1>2, <1>3, <1>5, SettledKept
  <1>7. Profiles'
    BY <1>2, <1>3, <1>5 DEF UploadsInv, Profiles
  <1>8. Kept'
    <2>1. \A k \in kept : k[2] \in content[k[1]]
      BY DEF UploadsInv, Kept
    <2>2. job'.skip >= BatchSize
      BY <1>2, <1>5
    <2>3. ASSUME OnePage, NEW k \in kept
          PROVE  k[2] \in job'.used
      <3>1. CASE job.skip = 0
        <4>1. page = Up
          BY <1>1, <2>3, <3>1, WholePage
        <4>2. k[1] \in Posts /\ k[2] \in content[k[1]]
          BY <2>1 DEF UploadsInv, TypeOK
        <4>3. k[1] \in Up
          BY <4>2 DEF UploadsInv, TypeOK, Up
        <4> QED
          BY <1>5, <4>1, <4>2, <4>3 DEF Noted
      <3>2. CASE job.skip # 0
        BY <1>2, <1>4, <1>5, <2>3, <3>2 DEF UploadsInv, Kept
      <3> QED
        BY <3>1, <3>2
    <2> QED
      BY <1>3, <1>5, <2>1, <2>2, <2>3 DEF Kept, OnePage
  <1>9. \A f \in job'.todo : disk[f] \in {"aged", "gone"}
    BY <1>5 DEF UploadsInv, TypeOK
  <1>10. faults' \in Nat /\ kept' \subseteq Posts \X PostImages
    BY <1>3 DEF UploadsInv, TypeOK
  <1> QED
    BY <1>3, <1>5, <1>6, <1>7, <1>8, <1>9, <1>10, JobOnly

\* The accounts are looked up before the files are listed.
LEMMA JobReadsProfiles ==
    ASSUME UploadsAssumption, UploadsInv, JobReadProfiles
    PROVE  UploadsInv'
  <1> DEFINE U == {profile[u] : u \in Users} \cap ProfileImages
  <1>1. /\ job.pc = "profiles"
        /\ job' = [job EXCEPT !.pc = "listProfiles", !.used = U]
        /\ UNCHANGED <<users, disk, post, content, kept, profile, req, lost, faults>>
    BY DEF JobReadProfiles, board
  <1>2. job \in Job /\ U \in SUBSET Files
    BY DEF UploadsInv, TypeOK, Files
  <1>3. \A u \in Users : profile[u] \in job.settled => profile[u] \in U
    BY <1>2 DEF Job
  <1> HIDE DEF U
  <1>4. /\ job' \in Job /\ job'.pc = "listProfiles" /\ job'.used = U
        /\ job'.todo = job.todo /\ job'.settled = job.settled
    BY <1>1, <1>2 DEF Job
  <1>5. Settled'
    BY <1>1, <1>4, SettledKept
  <1>6. Profiles'
    BY <1>1, <1>3, <1>4 DEF UploadsInv, Profiles
  <1>7. Kept'
    BY <1>1, <1>4 DEF UploadsInv, Kept
  <1>8. \A f \in job'.todo : disk[f] \in {"aged", "gone"}
    BY <1>4 DEF UploadsInv, TypeOK
  <1>9. faults' \in Nat /\ kept' \subseteq Posts \X PostImages
    BY <1>1 DEF UploadsInv, TypeOK
  <1> QED
    BY <1>1, <1>4, <1>5, <1>6, <1>7, <1>8, <1>9, JobOnly

\* A directory is listed: the old files that were not noted.  In the profiles'
\* these were settled, and an account that has a settled image was noted.
LEMMA JobLists ==
    ASSUME UploadsAssumption, UploadsInv, JobList
    PROVE  UploadsInv'
  <1>1. job \in Job /\ UNCHANGED <<users, disk, post, content, kept, profile, req, lost, faults>>
    BY DEF JobList, board, UploadsInv, TypeOK
  <1>2. faults' \in Nat /\ kept' \subseteq Posts \X PostImages
    BY <1>1 DEF UploadsInv, TypeOK
  <1>3. \A D : Orphans(D) \subseteq D /\ \A f \in Orphans(D) : disk[f] = "aged"
                                                              /\ f \notin job.used
    BY DEF Orphans
  <1>4. CASE job.pc = "listPosts"
    <2>1. job' = [job EXCEPT !.pc = "sweepPosts", !.todo = Orphans(PostImages)]
      BY <1>4 DEF JobList
    <2>2. /\ job' \in Job /\ job'.pc = "sweepPosts" /\ job'.todo = Orphans(PostImages)
          /\ job'.settled = job.settled
      BY <1>1, <1>3, <2>1 DEF Job, Files
    <2>3. Settled'
      BY <1>1, <1>4, <2>2, SettledKept
    <2>4. Profiles'
      BY <1>3, <2>2 DEF Profiles
    <2>5. Kept'
      BY <1>1, <1>3, <1>4, <2>2 DEF UploadsInv, Kept, OnePage
    <2> QED
      BY <1>1, <1>2, <1>3, <2>2, <2>3, <2>4, <2>5, JobOnly
  <1>5. CASE job.pc = "listProfiles"
    <2>1. job' = [job EXCEPT !.pc = "sweepProfiles", !.todo = Orphans(ProfileImages)]
      BY <1>5 DEF JobList
    <2>2. /\ job' \in Job /\ job'.pc = "sweepProfiles"
          /\ job'.todo = Orphans(ProfileImages) /\ job'.settled = job.settled
      BY <1>1, <1>3, <2>1 DEF Job, Files
    <2>3. Settled'
      BY <1>1, <1>5, <2>2, SettledKept
    <2>4. Orphans(ProfileImages) \subseteq job.settled
      BY <1>3, <1>5 DEF UploadsInv, Settled
    <2>5. \A u \in Users : profile[u] \notin Orphans(ProfileImages)
      BY <1>3, <1>5, <2>4 DEF UploadsInv, Profiles
    <2>6. Profiles'
      BY <1>1, <2>2, <2>4, <2>5 DEF Profiles
    <2>7. Kept'
      BY <1>1, <2>2 DEF UploadsInv, Kept
    <2> QED
      BY <1>1, <1>2, <1>3, <2>2, <2>3, <2>6, <2>7, JobOnly
  <1> QED
    BY <1>4, <1>5 DEF JobList

\* A file is deleted: no account has it, and nothing that was read changes.
LEMMA JobDeletes ==
    ASSUME UploadsAssumption, UploadsInv, NEW f \in Files, JobDelete(f)
    PROVE  UploadsInv'
  <1>1. /\ f \in job.todo /\ disk' = Unlinked({f})
        /\ job' = [job EXCEPT !.todo = @ \ {f}]
        /\ UNCHANGED <<users, post, content, kept, profile, req, lost, faults>>
    BY DEF JobDelete, board
  <1>2. job \in Job
    BY DEF UploadsInv, TypeOK
  <1>3. /\ job' \in Job /\ job'.pc = job.pc /\ job'.todo = job.todo \ {f}
        /\ job'.settled = job.settled /\ job'.used = job.used /\ job'.skip = job.skip
    BY <1>1, <1>2 DEF Job
  <1>4. /\ disk' \in [Files -> {"none", "fresh", "aged", "gone"}]
        /\ \A g \in Files : /\ g # f => disk'[g] = disk[g]
                            /\ disk'[g] \in {disk[g], "gone"}
                            /\ disk'[g] = "gone" => disk[g] # "none"
    BY <1>1, UnlinkedType
  <1>5. ProfileImages \subseteq Files
    BY DEF Files
  <1>6. f \in ProfileImages => job.pc = "sweepProfiles"
    BY <1>1 DEF UploadsInv, Profiles, UploadsAssumption
  <1>7. f \in ProfileImages => \A u \in Users : profile[u] # f
    BY <1>1, <1>6 DEF UploadsInv, Profiles
  <1>8. f \in ProfileImages => \A r \in Requests : req[r].file # f
    BY <1>1, <1>6 DEF UploadsInv, Profiles, Settled
  <1>9. req' \in [Requests -> Request] /\ \A r \in Requests : req'[r] = req[r]
    BY <1>1 DEF UploadsInv, TypeOK
  <1>10. TypeOK'
    BY <1>1, <1>3, <1>4, <1>9, DiskTypes DEF UploadsInv, TypeOK
  <1>11. Written' /\ Owned'
    BY <1>1, <1>4, <1>5, <1>8, HoldersKept
  <1>12. ProfileOnDisk'
    BY <1>1, <1>4, <1>5, <1>7, OnDiskKept DEF OnDisk
  <1>13. Settled'
    BY <1>1, <1>3, <1>4, <1>5, SettledKept
  <1>14. Profiles'
    BY <1>1, <1>3 DEF UploadsInv, Profiles
  <1>15. Kept'
    BY <1>1, <1>3 DEF UploadsInv, Kept
  <1> QED
    BY <1>10, <1>11, <1>12, <1>13, <1>14, <1>15 DEF UploadsInv

\* A sweep is over, or the run.
LEMMA JobEnds ==
    ASSUME UploadsAssumption, UploadsInv, JobEndSweep \/ JobFail
    PROVE  UploadsInv'
  <1>1. /\ UNCHANGED <<users, disk, post, content, profile, req, lost>>
        /\ faults' \in Nat
        /\ kept' = {}
    BY DEF JobEndSweep, JobFail, UploadsInv, TypeOK
  <1>2. \/ job' = JobIdle
        \/ /\ job.pc = "sweepPosts" /\ job.todo = {}
           /\ job' = [job EXCEPT !.pc = "profiles"]
    BY DEF JobEndSweep, JobFail
  <1>3. /\ job' \in Job /\ job'.todo = {}
        /\ job'.pc \in {"idle", "profiles"}
        /\ job'.pc = "profiles" => job.pc # "idle" /\ job'.settled = job.settled
    <2>1. CASE job' = JobIdle
      BY <2>1, Stopped
    <2>2. CASE /\ job.pc = "sweepPosts" /\ job.todo = {}
               /\ job' = [job EXCEPT !.pc = "profiles"]
      <3>1. job \in Job
        BY DEF UploadsInv, TypeOK
      <3> QED
        BY <2>2, <3>1 DEF Job
    <2> QED
      BY <1>2, <2>1, <2>2
  <1>4. Settled'
    BY <1>1, <1>3, SettledKept
  <1>5. Profiles' /\ Kept'
    BY <1>1, <1>3 DEF Profiles, Kept
  <1> QED
    BY <1>1, <1>3, <1>4, <1>5, JobOnly

\* A crash forgets the requests and the run; files and rows stay.
LEMMA Crashes ==
    ASSUME UploadsAssumption, UploadsInv, Crash
    PROVE  UploadsInv'
  <1>1. /\ UNCHANGED <<users, disk, post, content, profile>>
        /\ faults' \in Nat /\ kept' = {}
        /\ job' = JobIdle /\ req' = [r \in Requests |-> Idle]
    BY DEF Crash, UploadsInv, TypeOK
  <1>2. req' \in [Requests -> Request] /\ \A r \in Requests : req'[r] = Idle
    BY <1>1, IdleType
  <1>3. /\ lost \subseteq lost' /\ lost' \subseteq ProfileImages
        /\ \A r \in Requests : req[r].pc = "clear" /\ req[r].old \in ProfileImages =>
              req[r].old \in lost'
    BY DEF Crash, UploadsInv, TypeOK
  <1>4. TypeOK'
    BY <1>1, <1>2, <1>3, Stopped DEF UploadsInv, TypeOK
  <1>5. Written' /\ Owned'
    BY <1>1, <1>2, IdleType, HoldersKept
  <1>6. ProfileOnDisk'
    BY <1>1, <1>3, OnDiskKept DEF OnDisk
  <1>7. Settled' /\ Profiles' /\ Kept'
    BY <1>1, Stopped DEF Settled, Profiles, Kept
  <1> QED
    BY <1>4, <1>5, <1>6, <1>7 DEF UploadsInv

-----------------------------------------------------------------------------
(* Every step.                                                             *)

LEMMA Starts ==
    ASSUME UploadsAssumption, Init
    PROVE  UploadsInv
  <1>1. /\ users = Users /\ disk = [f \in Files |-> "none"]
        /\ post = [p \in Posts |-> "none"] /\ content = [p \in Posts |-> {}]
        /\ profile \in [Users -> {None} \cup {l \in Links : Deletes[l] = None /\ Shows[l] = None}]
        /\ req = [r \in Requests |-> Idle]
        /\ job = JobIdle /\ kept = {} /\ lost = {} /\ faults = 0
    BY DEF Init
  <1>2. /\ profile \in [Users -> Image]
        /\ \A u \in Users : profile[u] \notin ProfileImages /\ Named(profile[u]) = None
    BY <1>1, IdleType DEF Image, Named
  <1>3. req \in [Requests -> Request] /\ \A r \in Requests : req[r] = Idle
    BY <1>1, IdleType
  <1>4. TypeOK
    BY <1>1, <1>2, <1>3, Stopped DEF TypeOK
  <1>5. Written /\ Owned
    BY <1>2, <1>3, IdleType DEF Written, Owned, Known, UploadsAssumption
  <1>6. Settled /\ Profiles /\ Kept
    BY <1>1, Stopped DEF Settled, Profiles, Kept
  <1>7. ProfileOnDisk
    BY <1>2 DEF ProfileOnDisk
  <1> QED
    BY <1>4, <1>5, <1>6, <1>7 DEF UploadsInv

LEMMA StepKeeps ==
    ASSUME UploadsAssumption, UploadsInv, [Next]_vars
    PROVE  UploadsInv'
  <1>1. CASE UNCHANGED vars
    <2>1. Written'
      BY <1>1 DEF UploadsInv, Written, Known, Named, vars
    <2> QED
      BY <1>1, <2>1 DEF UploadsInv, TypeOK, Owned, Settled, Profiles, Kept,
                        ProfileOnDisk, OnDisk, vars
  <1>2. ASSUME NEW r \in Requests,
               \/ \E u \in Users : UploadRead(r, u) \/ DeleteRead(r, u)
               \/ \E p \in Posts : RemoveRead(r, p)
        PROVE  UploadsInv'
    BY <1>2, Begins
  <1>3. ASSUME NEW r \in Requests, \E f \in ProfileImages : UploadSave(r, f)
        PROVE  UploadsInv'
    BY <1>3, Saves
  <1>4. ASSUME NEW r \in Requests,
               \/ UploadSet(r) \/ UploadDrop(r) \/ DeleteUnlink(r) \/ DeleteClear(r)
               \/ RemovePurge(r) \/ RemoveDelete(r)
        PROVE  UploadsInv'
    BY <1>4, Sets, Drops, Unlinks, Clears, Purges, Removes
  <1>5. CASE \E u \in Users : DeleteUser(u) \/ \E l \in Links : SetLink(u, l)
    BY <1>5, Leaves
  <1>6. CASE \/ \E f \in PostImages : PostImageUpload(f)
             \/ \E f \in Files : GrowOld(f)
    BY <1>6, Appears DEF Files
  <1>7. CASE \E p \in Posts, images \in SUBSET PostImages : WritePost(p, images)
    BY <1>7, Writes
  <1>8. CASE JobStart \/ JobStep \/ JobFail \/ Crash
    BY <1>8, JobStarts, JobReads, JobLists, JobReadsProfiles, JobEnds, JobDeletes,
       Crashes DEF JobStep
  <1> QED
    BY <1>1, <1>2, <1>3, <1>4, <1>5, <1>6, <1>7, <1>8 DEF Next

LEMMA UploadsInvariant == UploadsAssumption => (Spec => []UploadsInv)
  <1> SUFFICES ASSUME UploadsAssumption
               PROVE  Spec => []UploadsInv
    OBVIOUS
  <1>1. Init => UploadsInv
    BY Starts
  <1>2. UploadsInv /\ [Next]_vars => UploadsInv'
    BY StepKeeps
  <1> QED
    BY <1>1, <1>2, PTL DEF Spec

\* Type correctness; what the job will delete is old, and only posts that are
\* up have images.
THEOREM TypeCorrect == Spec => []TypeOK
  <1>1. UploadsInv => TypeOK
    BY DEF UploadsInv
  <1> QED
    BY <1>1, UploadsInvariant, UploadsAssumption, PTL

\* updateProfileImage and deleteProfileImage, however they interleave with each
\* other, with the job and with crashes: an account's own image is on the disk,
\* but for the moment between the two steps of its deletion, when a crash cut
\* that off, and when deleteFile made that file of a full URL.
THEOREM ImageOnDisk == Spec => []ProfileOnDisk
  <1>1. UploadsInv => ProfileOnDisk
    BY DEF UploadsInv
  <1> QED
    BY <1>1, UploadsInvariant, UploadsAssumption, PTL

\* The job deletes no image that an account has by its own path at that moment,
\* although it read the accounts before it listed the files.
THEOREM NoProfileImageLost == Spec => ProfileImagesKept
  <1> DEFINE Step == \A f \in job.todo : JobDelete(f) => \A u \in Users : profile[u] # f
  <1>1. UploadsInv /\ [Next]_vars => [Step]_vars
    <2>1. ASSUME UploadsInv, NEW f \in job.todo, NEW u \in Users
          PROVE  profile[u] # f
      <3>1. f \in Files /\ job.pc \in {"sweepPosts", "sweepProfiles"}
        BY <2>1 DEF UploadsInv, TypeOK, Profiles, Job
      <3>2. CASE job.pc = "sweepPosts"
        BY <2>1, <3>2, IdleType, UploadsAssumption
           DEF UploadsInv, TypeOK, Profiles, Image, UploadsAssumption, Files
      <3>3. CASE job.pc = "sweepProfiles"
        BY <2>1, <3>3 DEF UploadsInv, Profiles
      <3> QED
        BY <3>1, <3>2, <3>3
    <2> QED
      BY <2>1
  <1> QED
    BY <1>1, UploadsInvariant, UploadsAssumption, PTL DEF Spec, ProfileImagesKept

\* Nor an image that a post has had since before the run, when the posts fit
\* one page (with more of them the property is false, and a run shows it).
THEOREM NoPostImageLost == OnePage => (Spec => PostImagesKept)
  <1> SUFFICES ASSUME OnePage
               PROVE  Spec => PostImagesKept
    OBVIOUS
  <1> DEFINE Step == \A f \in job.todo : JobDelete(f) => \A p \in Posts : <<p, f>> \notin kept
  <1>1. UploadsInv /\ [Next]_vars => [Step]_vars
    <2>1. ASSUME UploadsInv, NEW f \in job.todo, NEW p \in Posts
          PROVE  <<p, f>> \notin kept
      <3>1. job.pc \in {"sweepPosts", "sweepProfiles"}
        BY <2>1 DEF UploadsInv, Profiles
      <3>2. CASE job.pc = "sweepPosts"
        BY <2>1, <3>2 DEF UploadsInv, Kept
      <3>3. CASE job.pc = "sweepProfiles"
        <4>1. f \in ProfileImages
          BY <2>1, <3>3 DEF UploadsInv, Profiles, TypeOK, Job
        <4> QED
          BY <2>1, <4>1, UploadsAssumption DEF UploadsInv, TypeOK, UploadsAssumption
      <3> QED
        BY <3>1, <3>2, <3>3
    <2> QED
      BY <2>1
  <1> QED
    BY <1>1, UploadsInvariant, UploadsAssumption, PTL DEF Spec, PostImagesKept

=============================================================================
