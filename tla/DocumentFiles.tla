--------------------------- MODULE DocumentFiles ----------------------------
(***************************************************************************)
(* The files of the verification by documents: an account hands one in, an *)
(* administrator looks at it (verifications.service.ts,                    *)
(* uploads.service.ts, admin.controller.ts).  A file is encrypted when the *)
(* server has a key (file-encryption.util.ts) and is saved before the row  *)
(* that names it; every look at it is logged first.  Which requests are    *)
(* accepted and what is decided about them is in DocumentReviews.          *)
(***************************************************************************)
EXTENDS Integers, FiniteSets

CONSTANTS
    Users,       \* accounts that hand in documents
    Admins,      \* administrators (other accounts)
    Requests,
    Keys,        \* values FILE_ENCRYPTION_KEY may have
    NoKey,       \* it is not set
    Images, Documents,   \* kinds of file that may be handed in ...
    Junk,        \* ... and one that may not
    MaxFiles,    \* bound: no document is handed in after so many
    FirstForms   \* forms the files of an earlier version may have

FilesAssumption ==
    /\ Users # {} /\ Users \cap Admins = {} /\ IsFiniteSet(Requests)
    /\ NoKey \notin Keys /\ Junk \notin Images \cup Documents
    /\ Images # {} /\ Images \cap Documents = {} /\ MaxFiles \in Nat \ {0}
    /\ FirstForms \subseteq {"v1", "v1two"}

VARIABLES
    present,    \* accounts not deleted, administrators too
    key,        \* FILE_ENCRYPTION_KEY of the running server
    files,      \* files of uploads/verification
    rows,       \* verification_requests
    logs,       \* verification_access_logs: who looked at which row
    req,
    given       \* history: who was given the document of which row

vars == <<present, key, files, rows, logs, req, given>>

Kinds == Images \cup Documents
Ids == 1 .. MaxFiles + Cardinality(Requests)
\* The forms of a file; "v1two" has a random first byte that happens to be 2.
File == [id : Ids, form : {"plain", "v1", "v1two", "v2"}, key : Keys \cup {NoKey},
         content : Kinds]
Row == [id : Ids, user : Users, fileType : Kinds, isEncrypted : BOOLEAN]
Request == [pc : {"idle", "insert", "log", "serve"}, actor : Users \cup Admins,
            id : Ids \cup {0}, fileType : Kinds, isEncrypted : BOOLEAN]
Idle == [pc |-> "idle", actor |-> CHOOSE u \in Users : TRUE, id |-> 0,
         fileType |-> CHOOSE k \in Kinds : TRUE, isEncrypted |-> FALSE]

\* What is served as a document is one of that kind, as an image some image.
Fits(fileType, content) ==
    IF fileType \in Images THEN content \in Images ELSE content = fileType

\* Types; no two rows or files have one id; a file is what it was said to be.
TypeOK ==
    /\ present \subseteq Users \cup Admins
    /\ key \in Keys \cup {NoKey}
    /\ files \subseteq File /\ rows \subseteq Row
    /\ \A x, y \in files : x.id = y.id => x = y
    /\ \A x, y \in rows : x.id = y.id => x = y
    /\ logs \subseteq Admins \X Ids /\ given \subseteq Admins \X Ids
    /\ req \in [Requests -> Request]
    /\ \A x \in rows, f \in files : x.id = f.id => Fits(x.fileType, f.content)

-----------------------------------------------------------------------------
Finish(r) == req' = [req EXCEPT ![r] = Idle]
Goto(r, pc) == req' = [req EXCEPT ![r].pc = pc]
HasRow(i) == \E x \in rows : x.id = i
NextId == Cardinality(files) + 1

\* An account may have handed in a document before the format of the
\* encrypted files changed.
Init ==
    /\ present = Users \cup Admins
    /\ key \in Keys \cup {NoKey}
    /\ \/ files = {} /\ rows = {}
       \/ \E form \in FirstForms, u \in Users, k \in Kinds :
             /\ key # NoKey
             /\ files = {[id |-> 1, form |-> form, key |-> key, content |-> k]}
             /\ rows = {[id |-> 1, user |-> u, fileType |-> k, isEncrypted |-> TRUE]}
    /\ logs = {} /\ given = {}
    /\ req = [r \in Requests |-> Idle]

\* Mutant of Acceptable: the type the client named is all that is looked at.
AcceptableByName(fileType, content) == fileType \in Kinds

\* validateVerificationFile: the first bytes are those of some image, or of
\* the very kind of document it is said to be.
Acceptable(fileType, content) == fileType \in Kinds /\ Fits(fileType, content)

\* The file as it is stored, under a name that was never used.
Stored(content) ==
    [id |-> NextId, form |-> IF key = NoKey THEN "plain" ELSE "v2",
     key |-> key, content |-> content]

\* Mutant of CreateSave: the writing of the file is not awaited.
CreateSaveUnawaited(r, u) ==
    /\ req[r].pc = "idle" /\ u \in present /\ Cardinality(files) < MaxFiles
    /\ \E k \in Kinds :
          /\ files' \in {files, files \cup {Stored(k)}}
          /\ req' = [req EXCEPT ![r] =
                [pc |-> "insert", actor |-> u, id |-> NextId, fileType |-> k,
                 isEncrypted |-> key # NoKey]]
    /\ UNCHANGED <<present, key, rows, logs, given>>

\* create, of which the request is allowed: the file is looked at and saved,
\* encrypted when there is a key ...
CreateSave(r, u) ==
    /\ req[r].pc = "idle" /\ u \in present /\ Cardinality(files) < MaxFiles
    /\ \E fileType, content \in Kinds \cup {Junk} :
          /\ Acceptable(fileType, content)
          /\ files' = files \cup {Stored(content)}
          /\ req' = [req EXCEPT ![r] =
                [pc |-> "insert", actor |-> u, id |-> NextId, fileType |-> fileType,
                 isEncrypted |-> key # NoKey]]
    /\ UNCHANGED <<present, key, rows, logs, given>>

\* ... and the row is inserted, which fails when the account is gone.
CreateInsert(r) ==
    LET q == req[r] IN
    /\ q.pc = "insert"
    /\ rows' = IF q.actor \in present
                 THEN rows \cup {[id |-> q.id, user |-> q.actor,
                                  fileType |-> q.fileType,
                                  isEncrypted |-> q.isEncrypted]}
                 ELSE rows
    /\ Finish(r)
    /\ UNCHANGED <<present, key, files, logs, given>>

\* downloadVerificationFile finds the row ...
DownloadRead(r, a, x) ==
    /\ req[r].pc = "idle" /\ a \in Admins \cap present
    /\ req' = [req EXCEPT ![r] = [Idle EXCEPT !.pc = "log", !.actor = a, !.id = x.id,
                                     !.isEncrypted = x.isEncrypted]]
    /\ UNCHANGED <<present, key, files, rows, logs, given>>

\* Mutant of DownloadLog: what went wrong with the log is swallowed.
DownloadLogMaybe(r) ==
    LET q == req[r] IN
    /\ q.pc = "log"
    /\ logs' \in {logs, logs \cup {<<q.actor, q.id>>}}
    /\ Goto(r, "serve")
    /\ UNCHANGED <<present, key, files, rows, given>>

\* ... writes the access to the log, which fails when one of both is gone ...
DownloadLog(r) ==
    LET q == req[r] IN
    /\ q.pc = "log" /\ HasRow(q.id) /\ q.actor \in present
    /\ logs' = logs \cup {<<q.actor, q.id>>}
    /\ Goto(r, "serve")
    /\ UNCHANGED <<present, key, files, rows, given>>

\* decryptBuffer with key k: the first byte tells the version, and the bytes
\* only open with the key and in the way they were closed.  Without the flag
\* the bytes of the file are sent as they are.
Opens(f, k, isEncrypted) ==
    IF isEncrypted THEN f.form \in {"v1", "v2"} /\ k # NoKey /\ k = f.key
                   ELSE f.form = "plain"

\* ... and sends the document, if the file is there and can be opened.
Serve(r) ==
    LET q == req[r] IN
    /\ q.pc = "serve"
    /\ \E f \in files : f.id = q.id /\ Opens(f, key, q.isEncrypted)
    /\ given' = given \cup {<<q.actor, q.id>>}
    /\ Finish(r)
    /\ UNCHANGED <<present, key, files, rows, logs>>

-----------------------------------------------------------------------------
\* Refused, or a statement fails, or the connection is lost between two steps.
\* A file that was saved stays without a row.
Abort(r) ==
    /\ req[r].pc # "idle"
    /\ Finish(r)
    /\ UNCHANGED <<present, key, files, rows, logs, given>>

\* An account is deleted, and with it its requests and their log, or what an
\* administrator looked at; never a file.
DeleteAccount(u) ==
    LET ids == {x.id : x \in {y \in rows : y.user = u}}
        Kept(l) == l[1] # u /\ l[2] \notin ids
    IN
    /\ u \in present
    /\ present' = present \ {u}
    /\ rows' = {x \in rows : x.user # u}
    /\ logs' = {l \in logs : Kept(l)} /\ given' = {g \in given : Kept(g)}
    /\ UNCHANGED <<key, files, req>>

\* The server stops and comes up again, perhaps with another key or none.
Restart ==
    /\ key' \in Keys \cup {NoKey}
    /\ req' = [r \in Requests |-> Idle]
    /\ UNCHANGED <<present, files, rows, logs, given>>

Next ==
    \/ \E r \in Requests :
          \/ \E u \in Users : CreateSave(r, u)
          \/ CreateInsert(r)
          \/ \E a \in Admins, x \in rows : DownloadRead(r, a, x)
          \/ DownloadLog(r) \/ Serve(r)
          \/ Abort(r)
    \/ \E u \in Users \cup Admins : DeleteAccount(u)
    \/ Restart

Spec == Init /\ [][Next]_vars

-----------------------------------------------------------------------------
\* Whenever the server died and whatever key it has since: the document of
\* every request is on the disk, and opens with the key it was closed with in
\* the way the row says.  (Files of the first version may be taken for others.)
DocumentsHeld ==
    \A x \in rows : \E f \in files :
        f.id = x.id /\ (f.form = "v1two" \/ Opens(f, f.key, x.isEncrypted))

\* No document is seen that no log tells of, unless the account or the
\* administrator has gone and taken the log along.
Audited ==
    \A g \in given : g \in logs \/ g[1] \notin present \/ ~HasRow(g[2])

\* What file-encryption.util.ts says, "V1 and V2 both supported", and a first
\* byte 2 refutes.
LegacyReadable ==
    \A x \in rows, f \in files : f.id = x.id => Opens(f, f.key, x.isEncrypted)
=============================================================================
