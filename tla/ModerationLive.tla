--------------------------- MODULE ModerationLive ---------------------------
(***************************************************************************)
(* Moderation with an admin who does not give up: as long as the report of *)
(* a post is pending, its deletion is asked for again.  What a processing  *)
(* left half done must not stop it (reports.service.ts, 249 to 264: the    *)
(* action and the record of it are separate statements).                   *)
(***************************************************************************)
EXTENDS MCModeration

CONSTANT MaxAborts    \* bound: crashes and failed statements
ASSUME MaxAbortsAssumption == MaxAborts \in Nat

VARIABLE aborts

liveVars == <<vars, aborts>>

Ids == 1 .. (MaxReports + Cardinality(Requests) - 1)

LiveInit == Init /\ aborts = 0
LiveNext ==
    \/ Work /\ UNCHANGED aborts
    \/ \E r \in Requests : Abort(r) /\ aborts < MaxAborts /\ aborts' = aborts + 1

\* What a request does by itself once it was received.
Proceed(r) ==
    ReportCheck(r) \/ ReportCreate(r) \/ ActDelete(r) \/ ActBan(r) \/ ProcessUpdate(r)

\* An admin asks to close the report with the deletion of its post.
AskDeletion(id) ==
    \E r \in Requests :
        ProcessRead(r, "closed", "post_delete") /\ req'[r].id = id

\* The server goes on with what it received, and the admin asks again and
\* again: others may keep every request busy, but not for ever.
LiveSpec ==
    /\ LiveInit /\ [][LiveNext]_liveVars
    /\ \A r \in Requests : WF_liveVars(Proceed(r) /\ UNCHANGED aborts)
    /\ \A id \in Ids : SF_liveVars(AskDeletion(id) /\ UNCHANGED aborts)

-----------------------------------------------------------------------------
PendingPost(id) ==
    \E p \in WithId(id) : p.type = "post" /\ p.status = "pending"

\* The report of a post is never stuck: however processings of it overlap, lose
\* the post to another deletion or stop between the action and its record, an
\* admin who asks again gets it closed, or it goes with its reporter.
Retriable == \A id \in Ids : PendingPost(id) ~> ~PendingPost(id)
=============================================================================
