------------------------------ MODULE MCParts -------------------------------
(***************************************************************************)
(* The smaller parts of the server in one instance for TLC.  They share no *)
(* state, so running them against each other would show nothing: of all of *)
(* them one part moves in a behaviour, and the variables of the others     *)
(* keep their first values.  Administration is extended, the others are    *)
(* named instances with variables of their own.                            *)
(***************************************************************************)
EXTENDS Administration, TLC

CONSTANTS
    Accounts, Author, Senders,     \* of the other parts
    Codes, MaxFallback, Lifetime, MaxOAuthClock, Answers, MaxTokens,
    Posts, Readers, MaxCacheSize, Ttl, MaxViewClock, MaxViews,
    MaxWritten, MaxNotices, MaxLimit, Limits, MaxListed, MaxListClock,
    Admin, Keys, NoKey, Images, Documents, Junk, MaxFiles

VARIABLES
    part,
    oauthClock, connected, redis, fallback, handed, oauthReq,
    status, resetTokens, resetId, uses, resetReq,
    row, best, bestReq,
    viewClock, posts, cache, viewCount, lastView, viewReq,
    gone, written, comments, liked, applied, notices, noticeId, noticeReq,
    listClock, listed, listedId, reader,
    present, key, files, rows, logs, fileReq, given

oauthVars == <<oauthClock, connected, redis, fallback, handed, oauthReq>>
resetVars == <<status, resetTokens, resetId, uses, resetReq>>
bestVars == <<row, best, bestReq>>
viewVars == <<viewClock, posts, cache, viewCount, lastView, viewReq>>
noticeVars ==
    <<gone, written, comments, liked, applied, notices, noticeId, noticeReq>>
listVars == <<listClock, listed, listedId, reader>>
fileVars == <<present, key, files, rows, logs, fileReq, given>>

O == INSTANCE OAuthCodes WITH clock <- oauthClock, req <- oauthReq,
        MaxClock <- MaxOAuthClock
R == INSTANCE ResetTokens WITH tokens <- resetTokens, lastId <- resetId,
        req <- resetReq, Users <- Accounts
B == INSTANCE BestAnswers WITH req <- bestReq
V == INSTANCE ViewTracker WITH clock <- viewClock, req <- viewReq,
        MaxClock <- MaxViewClock
N == INSTANCE Notifications WITH lastId <- noticeId, req <- noticeReq,
        Users <- Accounts, Writer <- Author, Requests <- Senders
L == INSTANCE NoticeList WITH clock <- listClock, notices <- listed,
        lastId <- listedId, ByTotal <- FALSE,
        MaxNotices <- MaxListed, MaxClock <- MaxListClock
F == INSTANCE DocumentFiles WITH req <- fileReq, Users <- Accounts,
        Admins <- {Admin}, FirstForms <- {"v1", "v1two"}

ASSUME PartsAssumption ==
    /\ AdminAssumption /\ O!OAuthAssumption /\ R!ResetAssumption
    /\ B!AnswersAssumption /\ V!ViewAssumption /\ N!NoticeAssumption
    /\ L!ListAssumption /\ F!FilesAssumption

Parts == {"admin", "oauth", "reset", "best", "views", "notices", "list", "files"}

\* Where a part has several first states, it has them only if it moves.
PartsInit ==
    /\ part \in Parts
    /\ Init /\ O!Init /\ R!Init /\ B!Init /\ V!Init /\ N!Init /\ L!Init /\ F!Init
    /\ part # "oauth" => connected
    /\ part # "files" => files = {} /\ key = NoKey

AdminStep == part = "admin" /\ Next /\ UNCHANGED
    <<oauthVars, resetVars, bestVars, viewVars, noticeVars, listVars, fileVars, part>>
OAuthStep == part = "oauth" /\ O!Next /\ UNCHANGED
    <<vars, resetVars, bestVars, viewVars, noticeVars, listVars, fileVars, part>>
ResetStep == part = "reset" /\ R!Next /\ UNCHANGED
    <<vars, oauthVars, bestVars, viewVars, noticeVars, listVars, fileVars, part>>
BestStep == part = "best" /\ B!Next /\ UNCHANGED
    <<vars, oauthVars, resetVars, viewVars, noticeVars, listVars, fileVars, part>>
ViewStep == part = "views" /\ V!Next /\ UNCHANGED
    <<vars, oauthVars, resetVars, bestVars, noticeVars, listVars, fileVars, part>>
NoticeStep == part = "notices" /\ N!Next /\ UNCHANGED
    <<vars, oauthVars, resetVars, bestVars, viewVars, listVars, fileVars, part>>
ListStep == part = "list" /\ L!Next /\ UNCHANGED
    <<vars, oauthVars, resetVars, bestVars, viewVars, noticeVars, fileVars, part>>
FileStep == part = "files" /\ F!Next /\ UNCHANGED
    <<vars, oauthVars, resetVars, bestVars, viewVars, noticeVars, listVars, part>>

PartsNext ==
    \/ AdminStep \/ OAuthStep \/ ResetStep \/ BestStep
    \/ ViewStep \/ NoticeStep \/ ListStep \/ FileStep

partsVars == <<vars, oauthVars, resetVars, bestVars, viewVars, noticeVars, listVars,
               fileVars, part>>

PartsSpec == PartsInit /\ [][PartsNext]_partsVars

-----------------------------------------------------------------------------
\* The types of all parts.
PartsTypeOK ==
    /\ part \in Parts
    /\ TypeOK /\ O!TypeOK /\ R!TypeOK /\ B!TypeOK
    /\ V!TypeOK /\ N!TypeOK /\ L!TypeOK /\ F!TypeOK

\* The properties of the instances, as their modules state them: the codes of
\* the social logins, the links to reset a password, the answers, the views,
\* the notices and the documents.
HandedBounded == O!HandedBounded
EvictsOldest == O!EvictsOldest
ResetsBounded == R!ResetsBounded
OpenBounded == R!OpenBounded
BestBounded == B!BestBounded
WindowKept == V!WindowKept
NoticeHasCause == N!NoticeHasCause
PagingComplete == L!PagingComplete
DocumentsHeld == F!DocumentsHeld
Audited == F!Audited

Symmetry == Permutations(Requests) \cup Permutations(Users)
=============================================================================
