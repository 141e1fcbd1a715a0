----------------------------- MODULE NoticeList -----------------------------
(***************************************************************************)
(* The notices of one account as its clients see them                      *)
(* (notifications.service.ts): a client pages through the list while new   *)
(* notices arrive and other clients of the account mark and delete.  Every *)
(* statement is limited to the rows of the account, so one is enough.      *)
(***************************************************************************)
EXTENDS Integers, FiniteSets

CONSTANTS
    MaxLimit,               \* rows on a page at most
    Limits,                 \* rows on a page as clients ask for them
    ByTotal,                \* the client stops at totalPages, not at an empty page
    MaxNotices, MaxClock    \* bounds: notices, time

ListAssumption ==
    /\ MaxLimit \in Nat \ {0} /\ Limits \subseteq Nat \ {0}
    /\ ByTotal \in BOOLEAN /\ MaxNotices \in Nat /\ MaxClock \in Nat

VARIABLES
    clock,
    notices,   \* rows of the account in the table notifications
    lastId,
    reader     \* one client that lists them, page by page

vars == <<clock, notices, lastId, reader>>

Notice == [id : Nat, at : Nat, read : BOOLEAN]
NoReader == [pc |-> "idle", limit |-> 1, page |-> 1, total |-> 0,
             start |-> {}, seen |-> {}]

\* Types; ids are unique.
TypeOK ==
    /\ clock \in Nat /\ lastId \in Nat
    /\ notices \subseteq Notice
    /\ \A n \in notices : n.id \in 1 .. lastId /\ n.at <= clock
    /\ \A m, n \in notices : m.id = n.id => m = n
    /\ reader.pc \in {"idle", "count", "rows", "done"}
    /\ reader.page \in Nat \ {0} /\ reader.total \in Nat /\ reader.limit \in Limits \cup {1}
    /\ reader.start \subseteq 1 .. lastId /\ reader.seen \subseteq 1 .. lastId

-----------------------------------------------------------------------------
Init ==
    /\ clock = 0
    /\ notices = {} /\ lastId = 0
    /\ reader = NoReader

\* create; the database sets createdAt.
Arrive ==
    /\ lastId < MaxNotices
    /\ notices' = notices \cup {[id |-> lastId + 1, at |-> clock, read |-> FALSE]}
    /\ lastId' = lastId + 1
    /\ UNCHANGED <<clock, reader>>

SafeLimit(limit) == IF limit < MaxLimit THEN limit ELSE MaxLimit

\* Mutant of Skip: pages are counted in the rows asked for, not in those given.
SkipAsked(page, limit) == (page - 1) * limit

Skip(page, limit) == (page - 1) * SafeLimit(limit)

\* The pages the query may return: newest first, and of one instant in any order.
Pages(page, limit) ==
    LET n == Cardinality(notices)
        before == IF Skip(page, limit) < n THEN Skip(page, limit) ELSE n
        size == IF SafeLimit(limit) < n - before THEN SafeLimit(limit) ELSE n - before
        newer(S, T) == \A s \in S, t \in T : s.at >= t.at
    IN {P \in SUBSET notices :
           /\ Cardinality(P) = size
           /\ \E B \in SUBSET (notices \ P) :
                 /\ Cardinality(B) = before
                 /\ newer(B, notices \ B) /\ newer(P, notices \ (B \cup P))}

\* A client starts to list the notices ...
ListStart(limit) ==
    /\ reader.pc = "idle" /\ notices # {}
    /\ reader' = [pc |-> "count", limit |-> limit, page |-> 1, total |-> 0,
                  start |-> {n.id : n \in notices}, seen |-> {}]
    /\ UNCHANGED <<clock, notices, lastId>>

\* ... and asks findAllByUser for one page after another.  The rows and their
\* number are read by two queries, of which the count may come first.
ListCount ==
    /\ reader.pc = "count"
    /\ reader' = [reader EXCEPT !.pc = "rows", !.total = Cardinality(notices)]
    /\ UNCHANGED <<clock, notices, lastId>>

ListRows ==
    /\ reader.pc = "rows"
    /\ \E P \in Pages(reader.page, reader.limit) :
          LET last == IF ByTotal
                        THEN reader.page * SafeLimit(reader.limit) >= reader.total
                        ELSE P = {}
          IN reader' = [reader EXCEPT !.seen = @ \cup {n.id : n \in P},
                                      !.page = IF last THEN @ ELSE @ + 1,
                                      !.pc = IF last THEN "done" ELSE "count"]
    /\ UNCHANGED <<clock, notices, lastId>>

ListEnd ==
    /\ reader.pc # "idle"
    /\ reader' = NoReader
    /\ UNCHANGED <<clock, notices, lastId>>

Mark(N) == notices' = (notices \ N) \cup {[n EXCEPT !.read = TRUE] : n \in N}

MarkAsRead(n) ==
    /\ ~n.read /\ Mark({n})
    /\ UNCHANGED <<clock, lastId, reader>>

MarkAllAsRead ==
    /\ Mark({n \in notices : ~n.read}) /\ notices' # notices
    /\ UNCHANGED <<clock, lastId, reader>>

\* delete: what follows moves up to earlier pages.
Delete(n) ==
    /\ notices' = notices \ {n}
    /\ reader' = [reader EXCEPT !.start = {}]
    /\ UNCHANGED <<clock, lastId>>

Tick ==
    /\ clock < MaxClock
    /\ clock' = clock + 1
    /\ UNCHANGED <<notices, lastId, reader>>

Next ==
    \/ Arrive \/ ListCount \/ ListRows \/ ListEnd \/ MarkAllAsRead \/ Tick
    \/ \E limit \in Limits : ListStart(limit)
    \/ \E n \in notices : MarkAsRead(n) \/ Delete(n)

Spec == Init /\ [][Next]_vars

-----------------------------------------------------------------------------
\* New notices push the older ones to later pages, and marking moves none: one
\* who pages through the list misses none that was there at the start, as long
\* as none is deleted meanwhile, and but for those that share an instant with
\* another, whose order no query fixes.  (One who stops at totalPages may.)
PagingComplete ==
    reader.pc = "done" =>
        \A n \in notices :
            n.id \in reader.start /\ (\A m \in notices : m.at = n.at => m = n)
              => n.id \in reader.seen
=============================================================================
