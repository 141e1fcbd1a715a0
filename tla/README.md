# Verification of the NestJS community backend

TLA+ models of the backend under `src/`, checked with TLC, and theorems about
them proved with TLAPS. The backend is a NestJS server over PostgreSQL (through
Prisma), with Redis beside it and image files on the disk. It has accounts with
password and social logins, a board with posts, comments and likes, job postings
with applications, legal questions with answers, reports and their processing,
and three timers.

What makes it hard is the same everywhere. A handler is an `async` function: at
every `await` another request of the same process (or of another instance) may
run, so what a handler read may be stale when it writes. Its transactions run at
PostgreSQL's default level, READ COMMITTED, where one transaction sees what
another has committed since it began. A request may die at any `await`. The
tests of the repository are the generated "should be defined" stubs, so none of
this is tested.

## The parts of the system

| Part | State | Operations | What makes it correct |
|---|---|---|---|
| Sessions (`auth.service.ts`, `jwt.strategy.ts`, `token-cleanup.service.ts`, parts of `users.service.ts`, `reports.service.ts`) | accounts and bans; tables `refresh_tokens`, `token_blacklist`; JWTs at the clients | register, login, social login, refresh, logout, password change and reset, ban, deletion, hourly cleanup | a session that was ended stays ended; a deleted account gets nothing; the cleanup is invisible |
| E-mail codes (`auth.service.ts`) | `email_verification_tokens`, `isVerified`, `email` | send, resend, verify, change the address | bounded guessing; codes retired for a cause; verified means proven |
| Reset tokens (`auth.service.ts`) | `password_reset_tokens` | ask, use | bounded use, bounded number |
| Login codes (`auth.service.ts`, `redis.service.ts`) | Redis keys; a map in the process | generate, exchange | bounded map; a code is good once |
| Engagement (`posts.service.ts`, `comments.service.ts`, `counter.util.ts`, deletions in `users`, `admin`, `reports`) | `likes`, `bookmarks`, `comments`, `likeCount`, `commentCount` | toggle, comment, reply, remove, leave | counters equal the rows; replies one level deep |
| Moderation (`reports.service.ts`) | `reports` | report, process (delete, ban, warn) | a recorded deletion happened; no report is stuck |
| Recruiting (`applications.service.ts`, `job-auto-close.service.ts`) | `applications`; columns of job postings; the job's flag | apply, decide, cancel; nightly closing | one application each; expired postings close |
| Best answers (`answers.service.ts`) | `answers.isBest` | answer, remove, select | at most one best answer |
| Image files (`uploads.service.ts`, `orphan-cleanup.service.ts`, deletions in `posts`, `admin`, `reports`) | files; `profileImage`; images in the content of posts; the job's flag | upload, replace, delete; nightly cleanup | what is in use is on the disk; orphans go |
| Administration (`admin.service.ts`, `roles.guard.ts`) | `users.role`, access tokens with a role in them | change a role, delete an account; login and rotation sign the role | lost power ends; administrators remain |
| Verification documents (`verifications.service.ts`, `admin.service.ts`, `file-encryption.util.ts`) | `verification_requests`, `verification_access_logs`, encrypted files, the key | ask, decide, notify, download, restart with another key | requests and account agree; every document is held and opens; every look is logged |
| Notifications (`notifications.service.ts` and its callers) | `notifications` | send, list, mark, delete | a notice has a cause and is sent once; paging misses nothing |
| View counter (`view-tracker.util.ts`, `posts.service.ts`) | a bounded map in the process, `viewCount` | view, evict, clean up | a view is remembered as long as the map can |
| Announcements, banners, inquiries, mail, configuration, HTTP layer | own tables; none | one statement each | not modelled (below) |

The parts interact through the tables they share and the foreign keys between
them. Deleting an account cascades to its refresh tokens, codes, comments, likes,
applications, answers and reports, sets the author of its posts to null and leaves
the blacklist (no foreign key) and the files. A ban is decided in `reports` and
felt in `auth`. Deleting a post goes through `posts`, `admin` or `reports` and takes
its images from the disk first. Each module has the action by which another
component disturbs it (`DeleteUser`, `PostDelete`, `Remove`). An approval of documents
and a mailed code write the same `isVerified`, so DocumentReviews has both.

## The modules

A request in progress is a record in `req`: `pc` names what it does next, the
other fields are what it has read. An action is what happens between two awaits
that other requests can notice; several awaits are one action only where nothing
that others write lies between them. Variables and comments marked *history* are not
state of the program.

* **Sessions**: refresh token rows, access tokens, blacklist rows and the requests
  over them. Time is counted in ticks, several to a second: a JWT carries its issue
  time in whole seconds, so two logins in one second yield the same hash and the
  second is refused by the unique index (`Storable`), and the blacklist compares a
  fine time with a coarse one (`Blacklisted`). A token is identified by its account
  and second; the role and the address in it are left out. A password change, a reset and a ban are
  three steps: the times they compute (`RevokePrepare`), the update that locks the
  account's row and the start of the bulk statement (`RevokeScan`), and the commit
  (`RevokeCommit`). Rows inserted meanwhile are `hiddenFrom` the statement. `social`
  accounts log in without the ban being looked at, as `findOrCreateOAuthUser` does;
  the JWT check still refuses them. `cut` and `goneAt` are history.
* **AccessGate**: what access control promises: tokens are issued, die, and once
  dead are never let in; one that is refused for another reason (a ban, a blacklist
  row of later than the cut) is let in again only when time passes or a ban changes.
  Sessions implements it (`GateSpec`).
* **EmailCodes**: the codes of all accounts (their hashes are unique over all of
  them) and the reads, increments and updates of `verifyEmail`, each its own step.
* **ResetTokens**, **OAuthCodes**: the same for the links to reset a password and the
  one-time codes of the social logins. The map of OAuthCodes is a set; the
  eviction sorts by expiry, and which of two codes that expire at once goes first is
  left open.
* **Engagement**: rows and counters. `relations` is the set of table names the
  database has: the decrements are raw SQL over `"Post"`, the migrations create
  `posts`. `LeaveRead`/`LeaveCommit` are `users.remove` and `admin.deleteUser`.
* **Moderation**: reports with three references, nulled by the foreign keys. The
  status in a request to process may be left out (`omitted`) or be PENDING, which is
  written over a report that was closed meanwhile.
* **ModerationLive**: Moderation with an admin who keeps asking for the deletion of a
  reported post, and a bound on crashes and failed statements. Its run also checks the
  safety properties of Moderation, on a post; a comment differs in the foreign key only,
  `Moderation_wide` has one and the theorems have any number.
* **Recruiting**: postings, applications and the nightly statement.
* **BestAnswers**: the two statements of `selectBest` with the row locks they take.
* **Uploads**: the life of a file, the references to it and the steps of the
  cleanup: pages of posts, listing, deletions, then the same for profiles. A
  `profileImage` is an image's own path (from an upload) or any full URL (from
  `users.update`, whose DTO takes nothing else). The code makes a file of a URL in two
  ways, by replacing a prefix: `Deletes` is the file `deleteFile` arrives at, and
  `JobReadProfiles` notes a file name only of a path, although a URL may show a file of
  this server (`Shows`). Which URL leads where is left to the instance. `lost` is
  history. MCUploads splits the instance into worlds: which accounts, files and posts take
  part; what is left out of a world stays as it was. The races are between
  requests, the cleanup and one account, post or URL each, and all at once do not fit TLC;
  the theorems have no worlds. URLs that only show an image act like those of elsewhere on
  everything but `ShownImagesKept`, so they are in that run alone.
* **Administration**: who passes the guard of the administration. A login or rotation
  reads the role (`SessionRead`) and later signs it into a token (`SessionSign`);
  `updateUserRole` and `deleteUser` look at the account in one step and write in
  another. `lostAt`, `signing`, `unbacked` and `left` are history.
* **DocumentReviews**: requests for verification, the two-step decision
  (`ProcessRead`, `ProcessCommit`) and the notice after it; `mailed`, `approved`,
  `decided` and `past` are history.
* **DocumentFiles**: a file is saved and encrypted before its row is inserted; a
  download reads the row, writes the log, then opens the file. `form` is the version
  byte of an encrypted file: a file of the first version has none, and its random
  first byte may happen to be 2 (`v1two`). `Restart` may bring another key.
* **Notifications**: the asynchronous tasks behind a like, a comment or reply, an
  application and the decision on it, each with the queue of notices it has yet to
  insert. A comment reads the writer of the post before its transaction
  (`CommentBegin`), and tells that one. `Message1` stands for the formatted notice: type, recipient, actor, subject.
* **NoticeList**: a client that pages through the notices of an account while others
  arrive, are marked and are deleted.
* **ViewTracker**: the map of recent views, its eviction and cleanup, and the counter
  that is updated after the map was asked.
* **SessionsProofs**, **EngagementProofs**, **EmailCodesProofs**, **ModerationProofs**,
  **RecruitingProofs**, **UploadsProofs**, **DocumentReviewsProofs**: theorems about the
  module of that name; **PartsProofs**: theorems about the parts in MCParts.
* **MCParts**: Administration, OAuthCodes, ResetTokens, BestAnswers, ViewTracker,
  Notifications, NoticeList and DocumentFiles in one instance. They share no state, so
  interleaving them would show nothing: `part` is the one that moves, and
  the rest keep their first values. Administration is extended, so that the run checks
  the very definitions the theorems are about; the others are named instances with
  variables of their own, and the properties are their own under a local name. TLC
  reports the steps of the parts (`AdminStep` ... `FileStep`); its coverage shows that
  every action of every part is taken.
* **MC*X***: instances for TLC: symmetry and the values of constants that are sets
  or functions.

Operators named as a mutation of another one ("Mutant of ...") are deliberate
bugs, defined before what they would replace. They are used by no specification;
putting one in the place of its original must break the property it was made for.

## What the runs check

| Run | Instance | Properties |
|---|---|---|
| `Sessions_safety` | 1 account, 2 requests, half-second ticks up to 3, 2 tokens, 1 blacklist row begun, 1 password change | `RevokedRejected`: after a logout, change, reset or ban no token issued up to then is let in again. `GoneGetNothing`: a deleted account gets nothing, whatever was in progress. `CleanupInvisible`: the cleanup changes no answer. |
| `Sessions_live` | the same with one-second ticks up to 2, 1 token, no password change | `RequestsEnd`: nobody waits for a row lock for ever. `TablesPurged`: the cleanup catches up again and again. `GateSpec`: Sessions implements AccessGate |
| `Engagement_safety` | 2 users, 1 post, 2 requests, 2 comments, with and without a relation `"Post"` | `LikeCountExact`: the like counter equals the rows until an account leaves. `DriftByStaleReplies`: while accounts stay, only a removal whose count of replies was stale moves a comment counter away from its rows. `RepliesOneDeep` |
| `EmailCodes_safety` | 2 accounts, 2 requests, 2 codes, 2 attempts | `GuessesBounded`: attempts exceed the limit by no more than the other requests in progress. `RetiredForCause` |
| `Moderation_safety` | 2 users, a post, 2 requests, 2 reports, 1 crash or failed statement | `DeletionDone`: a recorded deletion took place. `Retriable`: the pending report of a post whose deletion an admin keeps asking for is closed in the end (or goes with its reporter), though processings overlap, the post goes between the steps of one, or one dies between the action and its record |
| `Recruiting_safety` | 3 users, 1 posting, 2 requests, 1 edit | `OneApplication`; `ExpiredClosed`: an expired posting is closed in the end |
| `Uploads_safety` | 2 requests, one crash or failed run, in one of three worlds: a post with an image and an account with one; an account with 2 images, or URLs that lead to them; 2 accounts, an image, a URL that leads to it | `ProfileImagesKept`: the cleanup never deletes the image an account has by its own path. `ProfileOnDisk`: an account's own image is on the disk, however uploads, deletions and the cleanup interleave. `PostImagesKept`: the cleanup deletes no image a post has had since before the run |
| `Reviews_safety` | 1 account, 1 administrator, 2 requests, 2 rows before new ones stop | `VerdictsMatchAccount`: through overlapping decisions, crashes and changes of the address, the account of an approved request is verified and a verified one was approved or proved its address. `OverlapBounded`: requests waiting at once, and decisions on one request, are bounded by what overlaps |
| `Parts_safety`, Administration | 2 accounts, both administrators, 2 requests, tokens live 1 | `PowerEnds`: one who lost the role passes the guard one lifetime longer at most, but for a token signed at that moment. `AdminRemains`: an administrator remains, unless one who was none any more acted or one left |
| `Parts_safety`, OAuthCodes | 3 codes, map of 2, 2 requests | `EvictsOldest`: the map is bounded and gives up the oldest. `HandedBounded`: a code is exchanged at most once per overlapping request, through losses of Redis |
| `Parts_safety`, ResetTokens | 2 accounts, 3 tokens, 2 requests | `ResetsBounded`, `OpenBounded`: uses of a token and open tokens are bounded by the requests that overlap |
| `Parts_safety`, BestAnswers | 3 answers, 2 requests | `BestBounded`: no more marks than overlapping selections |
| `Parts_safety`, ViewTracker | 1 post, 4 readers, map of 3, 2 requests | `WindowKept`: a view is forgotten within its time only when as many others came since as the map keeps |
| `Parts_safety`, Notifications | 2 accounts, 1 task, 2 comments, 2 notices | `NoticeHasCause`: a notice is about a committed comment, goes to the one it concerns, and once |
| `Parts_safety`, NoticeList | 3 notices, pages of 1 | `PagingComplete`: paging until a page is empty misses nothing that was there, though new notices arrive |
| `Parts_safety`, DocumentFiles | 1 administrator, 2 accounts, 2 requests, 1 key, 2 files | `DocumentsHeld`: the document of every request is on the disk and (but for `v1two`) opens with its key. `Audited`: no document is seen that no log tells of |
| `Uploads_shown` | 1 account, an image and a full URL of it, 1 request | violated: `ShownImagesKept` (below) |
| `Engagement_unlike` | database as migrated | violated: `UnlikeWorks` (below) |
| `EmailCodes_address` | 1 account | violated: `VerifiedAddressProven` (below) |

Every module also has `TypeOK`, which says of a few fields more than their type
(unique ids, rows that hang on existing rows).

**Why the bounds are enough.** Every race found in the code is between two
requests over the same row, so two requests and one shared account, post or posting
reach it; a second account is there where rows of different accounts meet (unique
hashes, replies by others). Counters and clocks run just past the limit they
are compared with (attempts 2, a map of 2 or 3, lifetimes of one second). In
Administration the clock stops at 1, where the first tokens expire: those signed then
are still checked against `lostAt`. Notifications has one task at a time, with the queue
of notices it sends while accounts and comments go away; two add only orders between
notices of different subjects. NoticeList gives a page of one row where two are asked
for, so that skipping by the number asked for shows. `MaxTokens`,
`MaxEntries`, `MaxComments`, `MaxCodes`, `MaxReports`, `MaxRows`, `MaxFiles`, `MaxViews`,
`MaxWritten` and `MaxNotices` stop new requests from
being begun at the bound; those in progress still go past it. `TtlAssumption` of
Sessions says that a blacklist row lives no shorter than an access token. This
holds for the default `JWT_EXPIRES_IN=15m`; the 15 minutes are written into
`users.service.ts:180` and `reports.service.ts:397`, so a longer setting breaks it.

**What the properties leave open.** Several promises hold only up to a bound or
before some event, and the property says so: deleting an account makes
counters drift (its comments' replies by others go uncounted); a reply inserted
while its parent is removed does too; a crash between deleting a file and clearing
the column leaves a reference to nothing. `ProfileOnDisk` therefore excepts the image
whose deletion a crash cut off, and the images `deleteFile` made of a full URL (`lost`,
both); `ProfileImagesKept` is about images had by their own path. `PostImagesKept` is checked where the
pages of the cleanup cannot miss a post. Pages are read with `skip` and no order, so
with more than one page a post may be on none of them and its image be
deleted: two posts and `BatchSize = 1` in `Uploads_safety.cfg` show it.

**Fairness.** `FairSpec` is used for liveness only. Awaits resolve, and PostgreSQL
serves those who wait for a row lock in turn, hence strong fairness of a request's
next step (the lock may be free and taken again in between). Timers start jobs
again and again (weak fairness); a job's statement does not fail, nor is
the process killed in the middle of it, every single time (strong fairness). Nothing
is assumed of clients, deletions, crashes or failures. `LiveSpec` of ModerationLive has
another kind of fairness: a request that was received goes on (weak fairness), and the
admin keeps asking for the deletion, whenever the server has a request free to do so again
and again (strong fairness; other requests may come first, but not for ever). That is
the hypothesis of `Retriable`, "if one tries again", and no claim about admins. Crashes
and failed statements are bounded there, as nothing gets done by a server that
always dies.

## What the code says and does not do

Three runs are expected to be violated.

* `Engagement_unlike`: `counter.util.ts:22,37` runs `UPDATE "Post"`, but the table
  is `posts` (`schema.prisma:274`). The statement fails and rolls back its
  transaction, so a like cannot be taken back, a comment not be deleted, and an
  account with comments or likes not leave. The `.catch` around the decrements in
  `admin.service.ts:214` and `users.service.ts` does not help, as the transaction is
  aborted by then.
* `EmailCodes_address`: changing the address clears `isVerified`
  (`users.service.ts:117`) but not the codes mailed to the old address.
* `Uploads_shown`: the cleanup keeps the images users refer to
  (`orphan-cleanup.service.ts:157`), but takes only the literal `/uploads/profile/` out
  of `profileImage` (line 182). `users.update` takes full URLs only; of one of this
  server the host stays in the name that is noted, and the image is deleted as an orphan.

More comments of the code state what overlapping requests refute. Each is a
property at the end of its module, with a configuration to be run by hand
(`tlc -config X_y.cfg MCX`, or `X` where X has no MC module), which ends in a
counterexample:

| Configuration | Property | Comment |
|---|---|---|
| `Sessions_rotated` | `RotatedOnce` | `auth.service.ts:237`: two refreshes with one cookie both succeed when they fall in different seconds |
| `Sessions_unban` | `OnlyEndedBansLifted` | `auth.service.ts:689`: the automatic unban clears a ban set after it looked |
| `Sessions_banned` | `NoSessionForBanned` | `reports.service.ts:400`: a login in progress stores its refresh token after the ban |
| `Sessions_pwchange` | `PasswordChangeEndsSessions` | `users.service.ts:189`: likewise for a password change |
| `EmailCodes_twocodes` | `OneUnusedCode` | `auth.service.ts:384` |
| `Engagement_limit` | `PerPostLimit` | `comments.service.ts:105` |
| `Engagement_leave` | `CountersAdjusted` | `users.service.ts:543` |
| `Moderation_duplicate` | `OnePendingPerTarget` | `reports.service.ts:29` |
| `Moderation_ban` | `BanFallsOnWriter` | `reports.service.ts:283`: nobody is banned for an anonymous post |
| `Recruiting_cancel` | `DecidedNotCancelled` | `applications.service.ts:221` |
| `Uploads_others` | `OthersImagesKept` | `uploads.service.ts:334` (below) |
| `Reviews_notice` | `RejectionNoticeTrue` | `schema.prisma:394` (below) |

The last two are no races:

* `Uploads_others`: an upload deletes "the existing image" (`uploads.service.ts:334`), and
  for that joins what `profileImage` holds to the upload directory (line 351). Of a full
  URL this may make any file below that directory; nothing asks whose it is.
* `Reviews_notice`: `ProcessVerificationDto` lets the verdict `PENDING` through, and
  `processVerification` sends whatever is no approval as a rejection
  (`admin.service.ts:554`): an account is told of a rejection while its request waits.
  `verifications.service.ts:176`, which refuses that verdict, is not called by anything.

`Moderation_wide` passes: `TypeOK` and `DeletionDone` with a comment beside the post and
no bound on crashes (1.6 million states).

Further properties are stated and known to fail, without a configuration of their own:
`HandedOnce` of OAuthCodes (`auth.service.ts:850`), `UsedOnce` of ResetTokens (`:603`),
`OneBest` of BestAnswers (`answers.service.ts:172`), `OneReference` of Moderation
(`schema.prisma:454`: a report may hold more references than the one of its type),
`OneWaits` (in `Reviews_notice.cfg` in the place of its invariant; two creations that
overlap), `LegacyReadable` of DocumentFiles (a file of the first version whose random
first byte is 2 is taken for one of the second) and `LikeNoticeTrue` of Notifications
(the notice of a like is launched inside the transaction, which may roll back).
So are `AttemptLimit` of EmailCodes (`auth.service.ts:425`), `ProcessedOnce` and
`NoReportOfOwn` of Moderation (`reports.service.ts:241`, and `:88`: an anonymous post is
nobody's own), `OwnPostingRefused` of Recruiting (`applications.service.ts:46`) and
`AdminsNotDeleted` of Administration (`admin.service.ts:195`: the account was promoted
after it was looked at).
`PagingComplete` fails where `ByTotal` is TRUE: a client that stops at `totalPages`,
which a query of its own counted, may miss the last rows.

## What is proved

Every safety property of the passing runs, invariant or step property, is also a theorem:
TLC checks it on the instance above, TLAPS proves it for all values of the
constants, from the assumptions each module states about them (sets that are not
empty, or are finite where something counts them; lifetimes and limits that are
numbers; posts that are no comments). Each proof module has the same shape: lemmas on the
types of what actions write, an inductive invariant, one lemma per action or group of
actions that it is kept, and the theorems. What follows says why the properties are
not inductive as they stand, which is where the argument is.

**SessionsProofs**, from `TimeAssumption`, `AccountAssumption` and (for 2 and 5)
`TtlAssumption`:

1. `TypeCorrect`: `Spec => []TypeOK`, action by action.
2. `RevocationHolds`: `Spec => []RevokedRejected`. The property does not say why a
   row that refuses a token will still be there. The
   inductive invariant is `CutCovered`: for each account the time of the latest
   revocation, `cut`, is covered by a blacklist row that was revoked no earlier and
   expires no sooner than every token it revokes, or all those tokens have expired.
   `CoverMade` shows that a new revocation is covered (here `TtlAssumption` is
   needed, and that `expiresAt` is computed before and not after the commit),
   `CoverCleaned` that the cleanup deletes a covering row only when the tokens are
   dead, `CoverKept` that nothing else touches it, and `CoverRefuses` that it
   implies the property, by the arithmetic of whole seconds (`SecBracket`).
3. `CleanupIsInvisible`: `Spec => CleanupInvisible`, a step property that needs only
   types: what is deleted is exactly what no check would have let pass.
4. `GoneStaysOut`: `Spec => []GoneGetNothing`, by the invariant `Dated`: no token
   in the hand of a client or in that of a request was signed later than now, and none of
   a deleted account later than its deletion; the foreign key in `Storable` does the rest.
5. `GateImplemented`: `Spec => GateSpec`, the refinement of AccessGate. `DeadStays` shows
   that a token once dead stays dead (whole seconds and cuts only move forward), `GateKills`,
   `GateChanges`, `GateIssues` and `GateStays` which step of the gate a kind of step is,
   and `GateSteps` goes through the actions; `RevocationHolds` is what keeps a dead token
   out. The proof corrected the gate: it used to say that no token is let in
   again at the instant another dies, and one tick can end a ban and a token
   at once.

**EngagementProofs** (`EngagementInv`): `TypeCorrect`, `OneDeep`, `LikesExact`, and
`DriftExplained` for the step property. `Found` is the part that is not seen in a state's
tables: what a request has learned of a comment (that it is there, or was, of that post,
and whether it is a reply) stays true as long as its row is there, and ids are not
reused (`Identified`). So a reply that is inserted late either has its parent still
one level deep or is refused by the foreign key. `LikesExact` is by
counting: every commit changes rows and counter by one.

**EmailCodesProofs** (`EmailInv`): `TypeCorrect`, `GuessesAreBounded`,
`CodesRetiredForCause`. The bound on guesses needs those beforehand that are past the check and not yet
written (`Counted`): guesses made plus guesses under way never exceed the limit by
more than the other requests. `AllKnow` says that what a guess found out about its code
stays true: it existed, it is of that account, and it had so many attempts or more.

**ModerationProofs** (`ModerationInv`): `TypeCorrect`, `DeletionCarriedOut`. `Underway` says of a request that has deleted and not yet recorded it that
the subject is gone already; `RefsTell` that a report's references name exactly its
subject while that exists, by the foreign keys that null them.

**RecruitingProofs**: `TypeCorrect`, `AppliedOnce`. Here `TypeOK` with the property is
inductive: the unique index decides, whatever the check before it saw.

**UploadsProofs** (`UploadsInv`): `TypeCorrect`, `ImageOnDisk`, `NoProfileImageLost`,
`NoPostImageLost`. `Written` and `Owned` say that an uploaded file is in one hand until it is
set, `Settled` that what was in use before the run and still is has been noted by the part of
the cleanup that has passed it, `Profiles` and `Kept` that what is to be deleted was not noted. `Known` says that a full
URL an account has leads only to files that were written and are in no upload's hand (a name
is random, so no URL holds it earlier); without it an upload could lose its image before
it is set.
`NoPostImageLost` has the hypothesis `OnePage == Cardinality(Posts) <= BatchSize`, which says
when the pages cannot miss a post; without it the property is false (see above).

**DocumentReviewsProofs** (`ReviewInv`): `TypeCorrect`, `VerdictsAgree`,
`OverlapsAreBounded`. Like guesses, creations and decisions under way are counted beforehand
(`WaitsBounded`, `DecisionsBounded`, `Room`). `FreshId` shows by counting rows and requests
that an id is always left for a new row which nothing names, so that a decision begun
on a deleted request cannot fall on another.

**PartsProofs**, from `PartsAssumption`, for the parts of MCParts. `PartsInv` joins the
invariants below; `PartsImplemented` proves that every behaviour of the instance is one
of each part alone, so running them side by side adds nothing. `PartsTypes` is their
types.

* Administration (`AdministrationTypes`, `PowerOfTheDemotedEnds`,
  `AnAdministratorRemains`, also stated of its own `Spec`, from `AdminAssumption`: some first
  administrator exists): `PowerEnds` says nothing of a token that is still being signed.
  `Lapsing` adds that the loss lies in the past and that a request about to sign
  the role of one who lost it was noted in `signing`; at the moment a role changes every token of the
  account expires within a lifetime. `Guarded` adds for `AdminRemains` that a request
  which changes a role names another account than its actor's, so that after a
  change by another administrator that other one is left.
* View counter (`ViewsRemembered`; `ViewInv`): a view that is remembered has the time of
  the last view, and one that is forgotten within its time has had as many others after it as
  the map keeps when it makes room.
* Lists (`PagingMissesNone`; `ListInv`): a notice that was there at the start and was not
  seen yet has at least as many newer ones as have been skipped.
* Login codes (`ExchangesAreBounded`, `OldestEvicted`; `OAuthInv`): a code is in one place,
  and once it is nowhere it never comes back; what was handed out and what is about to be
  handed out are counted together.
* Best answers (`BestAnswersBounded`; `BestInv`): stated of every *set* of overlapping
  transactions, the answers marked that none of them will clear are no more than the other
  requests.
* Reset tokens (`ResetsAreBounded`, `OpenTokensBounded`; `ResetInv`): uses of a token and
  transactions about to use it, open tokens and requests about to create one, are
  counted together.
* Notifications (`NoticesHaveCause`; `NoticeInv`): a notice in the queue of a task has its
  cause among what was committed, and no two are for the same cause and recipient.
* Documents (`DocumentsAreKept`, `DownloadsAreAudited`; `FilesInv`): `FilesNumbered` says that
  names of files grow and nothing names one that is not saved yet; `InsertPending` that
  a request about to insert a row has its file, in the form the row will tell,
  and is the only one to know of it, so that a row can never come back under a number
  that a download has read; `DownloadsWatched` that a download that has got as far as
  the document is in the log, unless the log went with the account.

**Only model-checked**: liveness (`RequestsEnd`, `TablesPurged`, `ExpiredClosed`, `Retriable`), as this
prover reasons neither about fairness nor about ENABLED; and that the expected
violations are violations.

**On the provers.** Zenon, as shipped with TLAPS 1.4.5, accepts `S \subseteq A \cap B` where
only `S \subseteq B` was shown. No definition or step of these proofs states
an inclusion in an intersection; where one is meant the two inclusions are written
apart, and new proofs have to keep to that.

## What is not modelled, and why

Announcements, banners and inquiries are single statements over tables nothing else
reads. Of the administration the listings, statistics and the deletion of contents are
left out here (deletions are in Engagement, Moderation and Uploads, where they matter).
Guards other than the one for roles, pipes, filters, CSRF checks and throttling decide
on one request without state; throttling only makes races rarer. Mail, the Redis client,
configuration and logging are I/O: a mail that is sent and a connection that is lost
appear where something depends on them. Redis keeps its data or loses all of it;
that it restores a snapshot with a code deleted since is left out. Contents (texts, images, documents) are data:
of a file only its kind, the form it is stored in and the key it was closed with are
kept. Search and statistics are reads.

## Plan

1. Liveness of the orphan cleanup, and an abstract specification of the counters which
   Engagement implements.
2. The deletion of posts and comments as one protocol over counters, files, notices and
   reports, which are modelled apart so far.
3. Properties, and theorems, for the hazards listed without one: overlapping reports,
   cancellations and comment limits.
