----------------------- MODULE DocumentReviewsProofs ------------------------
(***************************************************************************)
(* Theorems about DocumentReviews, for every number of accounts,           *)
(* administrators and requests: what an account says and what its requests *)
(* for verification say never part, and creations and decisions that       *)
(* overlap overrule each other a bounded number of times.                  *)
(***************************************************************************)
EXTENDS DocumentReviews, FiniteSetTheorems, TLAPS

\* A request to insert a row has no row yet and is one of an account.
Asks(q) == q.pc = "insert" => q.id = 0 /\ q.actor \in Users
AllAsk == \A r \in Requests : Asks(req[r])

\* What was approved is a row that is there.
Tracked == approved \subseteq {x.id : x \in rows}

\* What a row says of its past.
Lawful ==
    \A x \in rows : x.status \in x.past /\ (x.status = "PENDING" => x.decided = 0)

\* A row about to be inserted is counted beforehand: so there is always a
\* number left for it ...
Inserting == {r \in Requests : req[r].pc = "insert"}
Room ==
    /\ IsFiniteSet(rows)
    /\ Cardinality(rows) + Cardinality(Inserting) <= MaxRows + Cardinality(Requests)

\* ... and the account has not too many that wait.
Asking(u) == {r \in Requests : req[r].pc = "insert" /\ req[r].actor = u}
WaitsBounded ==
    \A u \in Users : Cardinality(Waiting(u)) + Cardinality(Asking(u)) <= Cardinality(Requests)

\* A decision about to be written is counted beforehand.
Deciding(i) == {r \in Requests : req[r].pc = "commit" /\ req[r].id = i}
DecisionsBounded ==
    \A x \in rows : x.decided + Cardinality(Deciding(x.id)) <= Cardinality(Requests)

\* The inductive invariant.
Bounds == Room /\ WaitsBounded /\ DecisionsBounded
ReviewInv ==
    TypeOK /\ AllAsk /\ Tracked /\ Lawful /\ Bounds /\ VerdictsMatchAccount

-----------------------------------------------------------------------------
\* A request that has not begun is well typed.
LEMMA IdleType == Idle \in Request /\ Idle.pc = "idle" /\ Idle.id = 0
  BY ReviewAssumption DEF Idle, Request, Verdicts

\* Sets of requests are finite, and smaller when one has left them.
LEMMA RequestSets ==
    ASSUME NEW S \in SUBSET Requests
    PROVE  /\ IsFiniteSet(S) /\ Cardinality(S) \in Nat /\ Cardinality(Requests) \in Nat
           /\ Cardinality(S) <= Cardinality(Requests)
           /\ \A T \in SUBSET S : Cardinality(T) \in Nat /\ Cardinality(T) <= Cardinality(S)
           /\ \A r \in S : Cardinality(S \ {r}) = Cardinality(S) - 1
  <1>1. /\ IsFiniteSet(S) /\ Cardinality(S) <= Cardinality(Requests)
        /\ Cardinality(S) \in Nat /\ Cardinality(Requests) \in Nat
    BY ReviewAssumption, FS_Subset, FS_CardinalityType
  <1>2. \A T \in SUBSET S : Cardinality(T) \in Nat /\ Cardinality(T) <= Cardinality(S)
    BY <1>1, FS_Subset, FS_CardinalityType
  <1>3. \A r \in S : Cardinality(S \ {r}) = Cardinality(S) - 1
    BY <1>1, FS_RemoveElement
  <1> QED
    BY <1>1, <1>2, <1>3

\* One request moves, and the others stay.
LEMMA RequestMoves ==
    ASSUME ReviewInv, NEW r \in Requests, NEW q \in Request,
           req' = [req EXCEPT ![r] = q]
    PROVE  /\ req' \in [Requests -> Request] /\ req'[r] = q
           /\ \A s \in Requests : s # r => req'[s] = req[s]
  BY DEF ReviewInv, TypeOK

\* There is one row of an id.
LEMMA RowFound ==
    ASSUME ReviewInv, NEW i, HasRow(i)
    PROVE  /\ RowOf(i) \in rows /\ RowOf(i).id = i /\ RowOf(i) \in Row
           /\ \A x \in rows : x.id = i => x = RowOf(i)
  <1>1. RowOf(i) \in rows /\ RowOf(i).id = i
    BY DEF HasRow, RowOf
  <1> QED
    BY <1>1 DEF ReviewInv, TypeOK

\* Rows and ids are finitely many.
LEMMA RowSets ==
    ASSUME ReviewInv, NEW u
    PROVE  /\ IsFiniteSet(Waiting(u)) /\ Cardinality(Waiting(u)) \in Nat
           /\ Cardinality(rows) \in Nat
  <1>1. Waiting(u) \in SUBSET rows /\ IsFiniteSet(rows)
    BY DEF Waiting, RowsOf, ReviewInv, Bounds, Room
  <1> QED
    BY <1>1, FS_Subset, FS_CardinalityType

\* There is an id that no row and no request has.
LEMMA FreshId ==
    ASSUME ReviewInv, NEW r \in Requests, req[r].pc = "insert"
    PROVE  NextId \in Ids /\ ~Named(NextId)
  <1> DEFINE RowIds == {x.id : x \in rows}
             Others == Requests \ {r}
             OtherIds == {req[s].id : s \in Others}
  <1>1. IsFiniteSet(RowIds) /\ Cardinality(RowIds) <= Cardinality(rows)
    <2>1. PICK f : f = [x \in rows |-> x.id]
      OBVIOUS
    <2>2. f \in Surjection(rows, RowIds)
      BY <2>1 DEF Surjection
    <2> QED
      BY <2>2, FS_Surjection DEF ReviewInv, Bounds, Room
  <1>2. IsFiniteSet(OtherIds) /\ Cardinality(OtherIds) <= Cardinality(Requests) - 1
    <2>1. PICK f : f = [s \in Others |-> req[s].id]
      OBVIOUS
    <2>2. f \in Surjection(Others, OtherIds)
      BY <2>1 DEF Surjection
    <2>3. IsFiniteSet(Others) /\ Cardinality(Others) = Cardinality(Requests) - 1
      BY ReviewAssumption, FS_RemoveElement
    <2> QED
      BY <2>2, <2>3, FS_Surjection
  <1>3. /\ Cardinality(rows) \in Nat /\ Cardinality(Requests) \in Nat
        /\ Cardinality(rows) + 1 <= MaxRows + Cardinality(Requests)
    <2>1. r \in Inserting /\ Inserting \in SUBSET Requests
      BY DEF Inserting
    <2>2. Cardinality(Inserting \ {r}) = Cardinality(Inserting) - 1
      BY <2>1, RequestSets
    <2>3. Inserting \ {r} \in SUBSET Requests
      BY <2>1
    <2>4. /\ Cardinality(Inserting \ {r}) \in Nat /\ Cardinality(Inserting) \in Nat
          /\ Cardinality(Requests) \in Nat
      BY <2>1, <2>3, RequestSets
    <2>5. Cardinality(rows) + Cardinality(Inserting) <= MaxRows + Cardinality(Requests)
      BY DEF ReviewInv, Bounds, Room
    <2>6. Cardinality(rows) \in Nat
      BY FS_CardinalityType DEF ReviewInv, Bounds, Room
    <2> QED
      BY <2>2, <2>4, <2>5, <2>6, ReviewAssumption
  <1>4. /\ IsFiniteSet(RowIds \cup OtherIds)
        /\ Cardinality(RowIds \cup OtherIds) <= Cardinality(RowIds) + Cardinality(OtherIds)
    <2>1. /\ IsFiniteSet(RowIds \cup OtherIds)
          /\ Cardinality(RowIds \cup OtherIds) =
                Cardinality(RowIds) + Cardinality(OtherIds) - Cardinality(RowIds \cap OtherIds)
      BY <1>1, <1>2, FS_Union
    <2>2. RowIds \cap OtherIds \in SUBSET RowIds
      OBVIOUS
    <2>3. /\ Cardinality(RowIds \cap OtherIds) \in Nat /\ Cardinality(RowIds) \in Nat
          /\ Cardinality(OtherIds) \in Nat
      BY <1>1, <1>2, <2>2, FS_Subset, FS_CardinalityType
    <2> QED
      BY <2>1, <2>3
  <1>5. PICK n \in Nat : n = MaxRows + 2 * Cardinality(Requests)
    BY <1>3, ReviewAssumption
  <1>6. Ids = 1 .. n /\ Cardinality(1 .. n) = n /\ IsFiniteSet(1 .. n)
    <2>1. IsFiniteSet(1 .. n) /\ Cardinality(1 .. n) = IF 1 > n THEN 0 ELSE n - 1 + 1
      BY FS_Interval
    <2> QED
      BY <1>5, <2>1 DEF Ids
  <1>7. Cardinality(RowIds \cup OtherIds) < n
    <2>1. Cardinality(RowIds) \in Nat /\ Cardinality(OtherIds) \in Nat
          /\ Cardinality(RowIds \cup OtherIds) \in Nat
      BY <1>1, <1>2, <1>4, FS_CardinalityType
    <2> QED
      BY <1>1, <1>2, <1>3, <1>4, <1>5, <2>1, ReviewAssumption
  <1>8. PICK i \in Ids : i \notin RowIds \cup OtherIds
    <2> SUFFICES ASSUME Ids \subseteq RowIds \cup OtherIds
                 PROVE  FALSE
      OBVIOUS
    <2>1. Cardinality(Ids) <= Cardinality(RowIds \cup OtherIds)
      BY <1>4, FS_Subset
    <2>2. Cardinality(RowIds \cup OtherIds) \in Nat
      BY <1>4, FS_CardinalityType
    <2> QED
      BY <1>6, <1>7, <2>1, <2>2
  <1>9. ~Named(i)
    <2>1. req[r].id = 0 /\ i # 0
      BY <1>6, <1>8 DEF ReviewInv, AllAsk, Asks
    <2>2. ~HasRow(i)
      BY <1>8 DEF HasRow
    <2>3. \A s \in Requests : req[s].id # i
      BY <1>8, <2>1
    <2> QED
      BY <2>2, <2>3 DEF Named
  <1> QED
    BY <1>8, <1>9 DEF NextId

LEMMA InitInv == Init => ReviewInv
  <1> SUFFICES ASSUME Init PROVE ReviewInv
    OBVIOUS
  <1>1. /\ req \in [Requests -> Request]
        /\ \A r \in Requests : req[r].pc = "idle" /\ req[r].id = 0
    BY IdleType DEF Init
  <1>2. TypeOK /\ AllAsk /\ Tracked /\ Lawful /\ VerdictsMatchAccount
    BY <1>1 DEF Init, TypeOK, AllAsk, Asks, Tracked, Lawful, VerdictsMatchAccount
  <1>3. rows = {} /\ Inserting = {} /\ \A u : Waiting(u) = {} /\ Asking(u) = {}
    BY <1>1 DEF Init, Inserting, Asking, Waiting, RowsOf
  <1>4. IsFiniteSet({}) /\ Cardinality({}) = 0 /\ Cardinality(Requests) \in Nat
    BY FS_EmptySet, RequestSets
  <1>5. Room
    BY <1>3, <1>4, ReviewAssumption DEF Room
  <1>6. WaitsBounded
    <2>1. \A u : Cardinality(Waiting(u)) = 0 /\ Cardinality(Asking(u)) = 0
      BY <1>3, <1>4
    <2> QED
      BY <1>4, <2>1 DEF WaitsBounded
  <1>7. DecisionsBounded
    BY <1>3 DEF DecisionsBounded
  <1> QED
    BY <1>2, <1>5, <1>6, <1>7 DEF ReviewInv, Bounds

-----------------------------------------------------------------------------
\* No request comes to insert a row or to write a decision.
NoneMore ==
    \A s \in Requests : req'[s] = req[s] \/ req'[s].pc \notin {"insert", "commit"}

\* When rows and such requests only go, what they are counted by stays.
LEMMA BoundsKept ==
    ASSUME ReviewInv, rows' \subseteq rows, NoneMore
    PROVE  Bounds'
  <1>1. Inserting' \in SUBSET Inserting /\ Inserting \in SUBSET Requests
    BY DEF Inserting, NoneMore
  <1>2. \A u : Asking(u)' \in SUBSET Asking(u) /\ Asking(u) \in SUBSET Requests
    BY DEF Asking, NoneMore
  <1>3. \A i : Deciding(i)' \in SUBSET Deciding(i) /\ Deciding(i) \in SUBSET Requests
    BY DEF Deciding, NoneMore
  <1>4. IsFiniteSet(rows) /\ Cardinality(rows) \in Nat
    BY FS_CardinalityType DEF ReviewInv, Bounds, Room
  <1>5. Cardinality(Requests) \in Nat
    BY ReviewAssumption, FS_CardinalityType
  <1>6. Room'
    <2>1. /\ IsFiniteSet(rows') /\ Cardinality(rows') \in Nat
          /\ Cardinality(rows') <= Cardinality(rows)
      BY <1>4, FS_Subset, FS_CardinalityType
    <2>2. /\ Cardinality(Inserting') <= Cardinality(Inserting)
          /\ Cardinality(Inserting') \in Nat /\ Cardinality(Inserting) \in Nat
      BY <1>1, RequestSets
    <2>3. Cardinality(rows) + Cardinality(Inserting) <= MaxRows + Cardinality(Requests)
      BY DEF ReviewInv, Bounds, Room
    <2> QED
      BY <1>4, <1>5, <2>1, <2>2, <2>3, ReviewAssumption DEF Room
  <1>7. WaitsBounded'
    <2> SUFFICES ASSUME NEW u \in Users
                 PROVE  Cardinality(Waiting(u)') + Cardinality(Asking(u)')
                            <= Cardinality(Requests)
      BY DEF WaitsBounded
    <2>1. Waiting(u)' \in SUBSET Waiting(u)
      BY DEF Waiting, RowsOf
    <2>2. IsFiniteSet(Waiting(u)) /\ Cardinality(Waiting(u)) \in Nat
      BY RowSets
    <2>3. /\ Cardinality(Waiting(u)') \in Nat
          /\ Cardinality(Waiting(u)') <= Cardinality(Waiting(u))
      BY <2>1, <2>2, FS_Subset, FS_CardinalityType
    <2>4. /\ Cardinality(Asking(u)') <= Cardinality(Asking(u))
          /\ Cardinality(Asking(u)') \in Nat /\ Cardinality(Asking(u)) \in Nat
      BY <1>2, RequestSets
    <2>5. Cardinality(Waiting(u)) + Cardinality(Asking(u)) <= Cardinality(Requests)
      BY DEF ReviewInv, Bounds, WaitsBounded
    <2> QED
      BY <1>5, <2>2, <2>3, <2>4, <2>5
  <1>8. DecisionsBounded'
    <2> SUFFICES ASSUME NEW x \in rows'
                 PROVE  x.decided + Cardinality(Deciding(x.id)') <= Cardinality(Requests)
      BY DEF DecisionsBounded
    <2>1. x \in rows /\ x \in Row
      BY DEF ReviewInv, TypeOK
    <2>2. /\ Cardinality(Deciding(x.id)') <= Cardinality(Deciding(x.id))
          /\ Cardinality(Deciding(x.id)') \in Nat /\ Cardinality(Deciding(x.id)) \in Nat
      BY <1>3, RequestSets
    <2>3. x.decided + Cardinality(Deciding(x.id)) <= Cardinality(Requests)
      BY <2>1 DEF ReviewInv, Bounds, DecisionsBounded
    <2>4. x.decided \in Nat
      BY <2>1 DEF Row
    <2> QED
      BY <1>5, <2>2, <2>3, <2>4
  <1> QED
    BY <1>6, <1>7, <1>8 DEF Bounds

\* A step that changes only one request: the rest of the invariant.
LEMMA TablesStay ==
    ASSUME ReviewInv, NEW r \in Requests, NEW q \in Request, Asks(q),
           req' = [req EXCEPT ![r] = q],
           UNCHANGED <<present, verified, rows, notices, mailed, approved>>
    PROVE  TypeOK' /\ AllAsk' /\ Tracked' /\ Lawful' /\ VerdictsMatchAccount'
  <1>1. /\ req' \in [Requests -> Request] /\ req'[r] = q
        /\ \A s \in Requests : s # r => req'[s] = req[s]
    BY RequestMoves
  <1>2. TypeOK'
    BY <1>1 DEF ReviewInv, TypeOK
  <1>3. AllAsk'
    BY <1>1 DEF ReviewInv, AllAsk, Asks
  <1>4. Tracked' /\ Lawful'
    BY DEF ReviewInv, Tracked, Lawful
  <1>5. VerdictsMatchAccount'
    BY DEF ReviewInv, VerdictsMatchAccount, RowsOf
  <1> QED
    BY <1>2, <1>3, <1>4, <1>5

\* An account asks: it had no row that waits, so the new one is counted.
LEMMA CreateReadInv ==
    ASSUME ReviewInv, NEW r \in Requests, NEW u \in Users, CreateRead(r, u)
    PROVE  ReviewInv'
  <1>1. PICK q : q = [Idle EXCEPT !.pc = "insert", !.actor = u]
    OBVIOUS
  <1>2. /\ q \in Request /\ Asks(q)
        /\ q.pc = "insert" /\ q.actor = u /\ q.id = 0
    BY <1>1 DEF Idle, Request, Asks, Verdicts
  <1>3. /\ req' = [req EXCEPT ![r] = q] /\ req[r].pc = "idle"
        /\ UNCHANGED <<present, verified, rows, notices, mailed, approved>>
    BY <1>1 DEF CreateRead
  <1>4. TypeOK' /\ AllAsk' /\ Tracked' /\ Lawful' /\ VerdictsMatchAccount'
    BY <1>2, <1>3, TablesStay
  <1>5. /\ req'[r] = q
        /\ \A s \in Requests : s # r => req'[s] = req[s]
    BY <1>2, <1>3, RequestMoves
  <1>6. Cardinality(Requests) \in Nat /\ IsFiniteSet(Requests)
    BY ReviewAssumption, FS_CardinalityType
  <1>7. Room'
    <2>1. Inserting' \in SUBSET Requests
      BY DEF Inserting
    <2>2. Cardinality(Inserting') \in Nat
          /\ Cardinality(Inserting') <= Cardinality(Requests)
      BY <2>1, RequestSets
    <2>3. Cardinality(rows) < MaxRows /\ Cardinality(rows) \in Nat /\ IsFiniteSet(rows)
      BY FS_CardinalityType DEF CreateRead, ReviewInv, Bounds, Room
    <2> QED
      BY <1>3, <1>6, <2>2, <2>3, ReviewAssumption DEF Room
  <1>8. WaitsBounded'
    <2> SUFFICES ASSUME NEW w \in Users
                 PROVE  Cardinality(Waiting(w)') + Cardinality(Asking(w)')
                            <= Cardinality(Requests)
      BY DEF WaitsBounded
    <2>1. Waiting(w)' = Waiting(w)
      BY <1>3 DEF Waiting, RowsOf
    <2>2. CASE w = u
      <3>1. \A x \in RowsOf(u) : x.past # {"PENDING"}
        <4> SUFFICES ASSUME NEW x \in RowsOf(u), x.past = {"PENDING"}
                     PROVE  FALSE
          OBVIOUS
        <4>1. x \in rows /\ x.status # "PENDING"
          BY DEF CreateRead, MayCreate, RowsOf
        <4>2. x.status \in x.past
          BY <4>1 DEF ReviewInv, Lawful
        <4> QED
          BY <4>1, <4>2
      <3>2. Waiting(u) = {}
        BY <3>1 DEF Waiting
      <3>3. Cardinality(Waiting(w)') = 0
        BY <2>1, <2>2, <3>2, FS_EmptySet
      <3>4. Asking(w)' \in SUBSET Requests
        BY DEF Asking
      <3>5. Cardinality(Asking(w)') \in Nat
            /\ Cardinality(Asking(w)') <= Cardinality(Requests)
        BY <3>4, RequestSets
      <3> QED
        BY <1>6, <3>3, <3>5
    <2>3. CASE w # u
      <3>1. Asking(w)' = Asking(w)
        BY <1>2, <1>3, <1>5, <2>3 DEF Asking
      <3>2. Cardinality(Waiting(w)) + Cardinality(Asking(w)) <= Cardinality(Requests)
        BY DEF ReviewInv, Bounds, WaitsBounded
      <3> QED
        BY <2>1, <3>1, <3>2
    <2> QED
      BY <2>2, <2>3
  <1>9. DecisionsBounded'
    <2>1. \A i : Deciding(i)' = Deciding(i)
      BY <1>2, <1>3, <1>5 DEF Deciding
    <2> QED
      BY <1>3, <2>1 DEF ReviewInv, Bounds, DecisionsBounded
  <1> QED
    BY <1>4, <1>7, <1>8, <1>9 DEF ReviewInv, Bounds

\* An administrator looks at a request: it is not decided, so the decision is
\* counted among those that overlap.
LEMMA ProcessReadInv ==
    ASSUME ReviewInv, NEW r \in Requests, NEW a \in Admins, NEW x \in rows,
           NEW v \in Verdicts, ProcessRead(r, a, x, v)
    PROVE  ReviewInv'
  <1>1. PICK q : q = [pc |-> "commit", actor |-> a, id |-> x.id, verdict |-> v]
    OBVIOUS
  <1>2. /\ q \in Request /\ Asks(q) /\ q.pc = "commit" /\ q.id = x.id
    <2>1. x \in Row
      BY DEF ReviewInv, TypeOK
    <2> QED
      BY <1>1, <2>1 DEF Request, Asks, Row
  <1>3. /\ req' = [req EXCEPT ![r] = q] /\ req[r].pc = "idle"
        /\ UNCHANGED <<present, verified, rows, notices, mailed, approved>>
    BY <1>1 DEF ProcessRead
  <1>4. TypeOK' /\ AllAsk' /\ Tracked' /\ Lawful' /\ VerdictsMatchAccount'
    BY <1>2, <1>3, TablesStay
  <1>5. /\ req'[r] = q
        /\ \A s \in Requests : s # r => req'[s] = req[s]
    BY <1>2, <1>3, RequestMoves
  <1>6. Room'
    <2>1. Inserting' = Inserting
      BY <1>2, <1>3, <1>5 DEF Inserting
    <2> QED
      BY <1>3, <2>1 DEF ReviewInv, Bounds, Room
  <1>7. WaitsBounded'
    <2>1. \A u : Asking(u)' = Asking(u) /\ Waiting(u)' = Waiting(u)
      BY <1>2, <1>3, <1>5 DEF Asking, Waiting, RowsOf
    <2> QED
      BY <2>1 DEF ReviewInv, Bounds, WaitsBounded
  <1>8. DecisionsBounded'
    <2> SUFFICES ASSUME NEW y \in rows
                 PROVE  y.decided + Cardinality(Deciding(y.id)') <= Cardinality(Requests)
      BY <1>3 DEF DecisionsBounded
    <2>1. CASE y.id = x.id
      <3>1. y = x
        BY <2>1 DEF ReviewInv, TypeOK
      <3>2. y.decided = 0
        BY <3>1 DEF ProcessRead, Undecided, ReviewInv, Lawful
      <3>3. Deciding(y.id)' \in SUBSET Requests
        BY DEF Deciding
      <3>4. /\ Cardinality(Deciding(y.id)') \in Nat /\ Cardinality(Requests) \in Nat
            /\ Cardinality(Deciding(y.id)') <= Cardinality(Requests)
        BY <3>3, RequestSets
      <3> QED
        BY <3>2, <3>4
    <2>2. CASE y.id # x.id
      <3>1. Deciding(y.id)' = Deciding(y.id)
        BY <1>2, <1>3, <1>5, <2>2 DEF Deciding
      <3> QED
        BY <3>1 DEF ReviewInv, Bounds, DecisionsBounded
    <2> QED
      BY <2>1, <2>2
  <1> QED
    BY <1>4, <1>6, <1>7, <1>8 DEF ReviewInv, Bounds

\* A request ends without a trace.
LEMMA AbortInv ==
    ASSUME ReviewInv, NEW r \in Requests, Finish(r),
           UNCHANGED <<present, verified, rows, notices, mailed, approved>>
    PROVE  ReviewInv'
  <1>1. Idle \in Request /\ Asks(Idle) /\ Idle.pc = "idle"
    BY IdleType DEF Asks
  <1>2. req' = [req EXCEPT ![r] = Idle]
    BY DEF Finish
  <1>3. TypeOK' /\ AllAsk' /\ Tracked' /\ Lawful' /\ VerdictsMatchAccount'
    BY <1>1, <1>2, TablesStay
  <1>4. NoneMore
    <2>1. req'[r] = Idle /\ \A s \in Requests : s # r => req'[s] = req[s]
      BY <1>1, <1>2, RequestMoves
    <2> QED
      BY <1>1, <2>1 DEF NoneMore
  <1>5. Bounds'
    BY <1>4, BoundsKept
  <1> QED
    BY <1>3, <1>5 DEF ReviewInv

\* Told or not, a request that was decided ends.
LEMMA NotifyInv ==
    ASSUME ReviewInv, NEW r \in Requests, Notify(r)
    PROVE  ReviewInv'
  <1>1. Idle \in Request /\ Asks(Idle) /\ Idle.pc = "idle"
    BY IdleType DEF Asks
  <1>2. /\ req' = [req EXCEPT ![r] = Idle] /\ HasRow(req[r].id)
        /\ UNCHANGED <<present, verified, rows, mailed, approved>>
    BY DEF Notify, Finish
  <1>3. req' \in [Requests -> Request] /\ req'[r] = Idle
        /\ \A s \in Requests : s # r => req'[s] = req[s]
    BY <1>1, <1>2, RequestMoves
  <1>4. PICK n : /\ n = [user |-> RowOf(req[r].id).user,
                         type |-> IF req[r].verdict = "APPROVED"
                                    THEN "VERIFICATION_APPROVED"
                                    ELSE "VERIFICATION_REJECTED"]
                 /\ notices' = notices \cup {n}
    BY DEF Notify
  <1>5. n \in Notice /\ n.user \in present
    <2>1. RowOf(req[r].id) \in rows /\ RowOf(req[r].id) \in Row
      BY <1>2, RowFound
    <2>2. RowOf(req[r].id).user \in Users /\ RowOf(req[r].id).user \in present
      BY <2>1 DEF Row, ReviewInv, TypeOK
    <2> QED
      BY <1>4, <2>2 DEF Notice
  <1>6. TypeOK'
    BY <1>2, <1>3, <1>4, <1>5 DEF ReviewInv, TypeOK
  <1>7. AllAsk'
    BY <1>1, <1>3 DEF ReviewInv, AllAsk, Asks
  <1>8. Tracked' /\ Lawful'
    BY <1>2 DEF ReviewInv, Tracked, Lawful
  <1>9. VerdictsMatchAccount'
    BY <1>2 DEF ReviewInv, VerdictsMatchAccount, RowsOf
  <1>10. Bounds'
    <2>1. NoneMore
      BY <1>1, <1>3 DEF NoneMore
    <2> QED
      BY <1>2, <2>1, BoundsKept
  <1> QED
    BY <1>6, <1>7, <1>8, <1>9, <1>10 DEF ReviewInv

\* The row is inserted, under an id nothing names: what asked for it waits now.
LEMMA InsertedInv ==
    ASSUME ReviewInv, NEW r \in Requests, CreateInsert(r), Insertable(req[r].actor)
    PROVE  ReviewInv'
  <1>1. Idle \in Request /\ Asks(Idle) /\ Idle.pc = "idle" /\ Idle.id = 0
    BY IdleType DEF Asks
  <1>2. /\ req' = [req EXCEPT ![r] = Idle] /\ req[r].pc = "insert"
        /\ UNCHANGED <<present, verified, notices, mailed, approved>>
    BY DEF CreateInsert, Finish
  <1>3. /\ req' \in [Requests -> Request] /\ req'[r] = Idle
        /\ \A s \in Requests : s # r => req'[s] = req[s]
    BY <1>1, <1>2, RequestMoves
  <1>4. PICK u : u = req[r].actor
    OBVIOUS
  <1>5. u \in Users /\ u \in present
    BY <1>2, <1>4 DEF ReviewInv, AllAsk, Asks, Insertable
  <1>6. NextId \in Ids /\ ~Named(NextId)
    BY <1>2, FreshId
  <1>7. PICK x : x = [id |-> NextId, user |-> u, status |-> "PENDING",
                      decided |-> 0, past |-> {"PENDING"}]
    OBVIOUS
  <1>8. rows' = rows \cup {x}
    BY <1>4, <1>7 DEF CreateInsert
  <1>9. /\ x \in Row /\ x.user = u /\ x.id = NextId /\ x.decided = 0
        /\ x.past = {"PENDING"} /\ x.status = "PENDING"
    BY <1>5, <1>6, <1>7 DEF Row, Verdicts
  <1>10. /\ \A y \in rows : y.id # x.id
         /\ \A s \in Requests : req[s].id # x.id
    BY <1>6, <1>9 DEF Named, HasRow
  <1>11. TypeOK'
    BY <1>2, <1>3, <1>5, <1>8, <1>9, <1>10 DEF ReviewInv, TypeOK
  <1>12. AllAsk'
    BY <1>1, <1>3 DEF ReviewInv, AllAsk, Asks
  <1>13. Tracked' /\ Lawful'
    BY <1>2, <1>8, <1>9 DEF ReviewInv, Tracked, Lawful
  <1>14. x.id \notin approved
    BY <1>10 DEF ReviewInv, Tracked
  <1>15. VerdictsMatchAccount'
    BY <1>2, <1>8, <1>14 DEF ReviewInv, VerdictsMatchAccount, RowsOf
  <1>16. Cardinality(Requests) \in Nat /\ IsFiniteSet(Requests)
    BY ReviewAssumption, FS_CardinalityType
  <1>17. Room'
    <2>1. /\ IsFiniteSet(rows) /\ Cardinality(rows) \in Nat
          /\ Cardinality(rows) + Cardinality(Inserting) <= MaxRows + Cardinality(Requests)
      BY FS_CardinalityType DEF ReviewInv, Bounds, Room
    <2>2. IsFiniteSet(rows') /\ Cardinality(rows') = Cardinality(rows) + 1
      BY <1>8, <1>10, <2>1, FS_AddElement
    <2>3. Inserting \in SUBSET Requests /\ r \in Inserting /\ Inserting' = Inserting \ {r}
      BY <1>1, <1>2, <1>3 DEF Inserting
    <2>4. /\ Cardinality(Inserting) \in Nat
          /\ Cardinality(Inserting') = Cardinality(Inserting) - 1
      BY <2>3, RequestSets
    <2> QED
      BY <1>16, <2>1, <2>2, <2>4, ReviewAssumption DEF Room
  <1>18. WaitsBounded'
    <2> SUFFICES ASSUME NEW w \in Users
                 PROVE  Cardinality(Waiting(w)') + Cardinality(Asking(w)')
                            <= Cardinality(Requests)
      BY DEF WaitsBounded
    <2>1. /\ Cardinality(Waiting(w)) + Cardinality(Asking(w)) <= Cardinality(Requests)
          /\ IsFiniteSet(Waiting(w)) /\ Cardinality(Waiting(w)) \in Nat
      BY RowSets DEF ReviewInv, Bounds, WaitsBounded
    <2>2. CASE w = u
      <3>1. Waiting(w)' = Waiting(w) \cup {x} /\ x \notin Waiting(w)
        BY <1>8, <1>9, <1>10, <2>2 DEF Waiting, RowsOf
      <3>2. Cardinality(Waiting(w)') = Cardinality(Waiting(w)) + 1
        BY <2>1, <3>1, FS_AddElement
      <3>3. Asking(w) \in SUBSET Requests /\ r \in Asking(w) /\ Asking(w)' = Asking(w) \ {r}
        BY <1>1, <1>2, <1>3, <1>4, <2>2 DEF Asking
      <3>4. /\ Cardinality(Asking(w)) \in Nat
            /\ Cardinality(Asking(w)') = Cardinality(Asking(w)) - 1
        BY <3>3, RequestSets
      <3> QED
        BY <1>16, <2>1, <3>2, <3>4
    <2>3. CASE w # u
      <3>1. Waiting(w)' = Waiting(w)
        BY <1>8, <1>9, <2>3 DEF Waiting, RowsOf
      <3>2. Asking(w)' = Asking(w)
        BY <1>1, <1>3, <1>4, <2>3 DEF Asking
      <3> QED
        BY <2>1, <3>1, <3>2
    <2> QED
      BY <2>2, <2>3
  <1>19. DecisionsBounded'
    <2>1. \A i : Deciding(i)' = Deciding(i)
      BY <1>1, <1>2, <1>3 DEF Deciding
    <2>2. Deciding(x.id) = {}
      BY <1>10 DEF Deciding
    <2>3. x.decided + Cardinality(Deciding(x.id)) <= Cardinality(Requests)
      BY <1>9, <1>16, <2>2, FS_EmptySet
    <2> QED
      BY <1>8, <2>1, <2>3 DEF ReviewInv, Bounds, DecisionsBounded
  <1> QED
    BY <1>11, <1>12, <1>13, <1>15, <1>17, <1>18, <1>19 DEF ReviewInv, Bounds

LEMMA CreateInsertInv ==
    ASSUME ReviewInv, NEW r \in Requests, CreateInsert(r)
    PROVE  ReviewInv'
  <1>1. CASE Insertable(req[r].actor)
    BY <1>1, InsertedInv
  <1>2. CASE ~Insertable(req[r].actor)
    <2>1. /\ Finish(r)
          /\ UNCHANGED <<present, verified, rows, notices, mailed, approved>>
      BY <1>2 DEF CreateInsert
    <2> QED
      BY <2>1, AbortInv
  <1> QED
    BY <1>1, <1>2

\* Another address, a mailed code, an account that goes: rows stay or go whole,
\* and what each says of its account still holds.
LEMMA AccountInv ==
    ASSUME ReviewInv, NEW u \in Users \cup Admins,
           \/ u \in Users /\ (ChangeEmail(u) \/ VerifyEmail(u))
           \/ DeleteAccount(u)
    PROVE  ReviewInv'
  <1>1. req' = req /\ rows' \subseteq rows
    BY DEF ChangeEmail, VerifyEmail, DeleteAccount, RowsOf
  <1>2. Bounds'
    <2>1. NoneMore
      BY <1>1 DEF NoneMore
    <2> QED
      BY <1>1, <2>1, BoundsKept
  <1>3. AllAsk' /\ Lawful'
    BY <1>1 DEF ReviewInv, AllAsk, Asks, Lawful
  <1>4. CASE u \in Users /\ ChangeEmail(u)
    <2>1. TypeOK'
      BY <1>4 DEF ChangeEmail, ReviewInv, TypeOK
    <2>2. Tracked'
      BY <1>4 DEF ChangeEmail, ReviewInv, Tracked
    <2>3. VerdictsMatchAccount'
      BY <1>4 DEF ChangeEmail, ReviewInv, TypeOK, VerdictsMatchAccount, RowsOf
    <2> QED
      BY <1>2, <1>3, <2>1, <2>2, <2>3 DEF ReviewInv
  <1>5. CASE u \in Users /\ VerifyEmail(u)
    <2>1. TypeOK'
      BY <1>5 DEF VerifyEmail, ReviewInv, TypeOK
    <2>2. Tracked'
      BY <1>5 DEF VerifyEmail, ReviewInv, Tracked
    <2>3. VerdictsMatchAccount'
      BY <1>5 DEF VerifyEmail, ReviewInv, VerdictsMatchAccount, RowsOf
    <2> QED
      BY <1>2, <1>3, <2>1, <2>2, <2>3 DEF ReviewInv
  <1>6. CASE DeleteAccount(u)
    <2>1. TypeOK'
      BY <1>6 DEF DeleteAccount, ReviewInv, TypeOK, RowsOf
    <2>2. Tracked'
      BY <1>6 DEF DeleteAccount, ReviewInv, Tracked, RowsOf
    <2>3. VerdictsMatchAccount'
      BY <1>6 DEF DeleteAccount, ReviewInv, TypeOK, VerdictsMatchAccount, RowsOf
    <2> QED
      BY <1>2, <1>3, <2>1, <2>2, <2>3 DEF ReviewInv
  <1> QED
    BY <1>4, <1>5, <1>6

\* A verdict is written: the row stays the one of its id and its account, what
\* was never decided had not been before, and one decision less is to come.
LEMMA ProcessCommitInv ==
    ASSUME ReviewInv, NEW r \in Requests, ProcessCommit(r)
    PROVE  ReviewInv'
  <1>1. PICK v : v = req[r].verdict
    OBVIOUS
  <1>2. PICK x : x = RowOf(req[r].id)
    OBVIOUS
  <1>3. PICK y : y = Decided(x, v)
    OBVIOUS
  <1>4. PICK q : q = [req[r] EXCEPT !.pc = "notify"]
    OBVIOUS
  <1>5. req[r] \in Request /\ v \in Verdicts
    BY <1>1 DEF ReviewInv, TypeOK, Request
  <1>6. q \in Request /\ q.pc = "notify" /\ Asks(q)
    BY <1>4, <1>5 DEF Request, Asks
  <1>7. /\ req' = [req EXCEPT ![r] = q] /\ req[r].pc = "commit" /\ HasRow(req[r].id)
        /\ rows' = (rows \ {x}) \cup {y}
        /\ UNCHANGED <<present, notices, mailed>>
    BY <1>1, <1>2, <1>3, <1>4 DEF ProcessCommit
  <1>8. \/ /\ v = "APPROVED"
           /\ verified' = verified \cup {x.user} /\ approved' = approved \cup {x.id}
        \/ v # "APPROVED" /\ UNCHANGED <<verified, approved>>
    BY <1>1, <1>2 DEF ProcessCommit
  <1>9. /\ req' \in [Requests -> Request] /\ req'[r] = q
        /\ \A s \in Requests : s # r => req'[s] = req[s]
    BY <1>6, <1>7, RequestMoves
  <1>10. /\ x \in rows /\ x \in Row /\ x.id = req[r].id
         /\ \A z \in rows : z.id = x.id => z = x
    BY <1>2, <1>7, RowFound
  <1>11. /\ x.id \in Ids /\ x.user \in Users /\ x.decided \in Nat
         /\ x.past \subseteq Verdicts /\ x.status \in x.past /\ x.user \in present
    BY <1>10 DEF Row, ReviewInv, TypeOK, Lawful
  <1>12. /\ y = [x EXCEPT !.status = v, !.past = x.past \cup {v},
                          !.decided = IF v = "PENDING" THEN 0 ELSE x.decided + 1]
    BY <1>3 DEF Decided
  <1>13. /\ y.id = x.id /\ y.user = x.user /\ y.status = v /\ y.past = x.past \cup {v}
         /\ \/ v = "PENDING" /\ y.decided = 0
            \/ v # "PENDING" /\ y.decided = x.decided + 1
    BY <1>10, <1>12 DEF Row
  <1>14. y \in Row
    <2>1. PICK d : d = IF v = "PENDING" THEN 0 ELSE x.decided + 1
      OBVIOUS
    <2>2. d \in Nat
      BY <1>11, <2>1
    <2>3. x.past \cup {v} \in SUBSET Verdicts
      BY <1>5, <1>11
    <2>4. PICK p \in SUBSET Verdicts : p = x.past \cup {v}
      BY <2>3
    <2>5. y = [x EXCEPT !.status = v, !.past = p, !.decided = d]
      BY <1>12, <2>1, <2>4
    <2> QED
      BY <2>2, <2>5, <1>5, <1>10 DEF Row
  <1>15. \A z \in rows' : z = y \/ (z \in rows /\ z # x /\ z.id # y.id)
    BY <1>7, <1>10, <1>13
  <1>16. TypeOK'
    <2>1. rows' \subseteq Row /\ \A z \in rows' : z.user \in present
      BY <1>7, <1>11, <1>13, <1>14 DEF ReviewInv, TypeOK
    <2>2. \A z, w \in rows' : z.id = w.id => z = w
      BY <1>15 DEF ReviewInv, TypeOK
    <2>3. /\ verified' \subseteq Users /\ verified' \subseteq present
          /\ mailed' \subseteq verified' /\ approved' \subseteq Ids
      BY <1>7, <1>8, <1>11 DEF ReviewInv, TypeOK
    <2> QED
      BY <1>7, <1>9, <2>1, <2>2, <2>3 DEF ReviewInv, TypeOK
  <1>17. AllAsk'
    BY <1>6, <1>9 DEF ReviewInv, AllAsk, Asks
  <1>18. Tracked'
    BY <1>7, <1>8, <1>10, <1>13 DEF ReviewInv, Tracked
  <1>19. Lawful'
    BY <1>7, <1>13 DEF ReviewInv, Lawful
  <1>20. VerdictsMatchAccount'
    <2>1. \A z \in rows' : z.id \in approved' => z.user \in verified'
      <3> SUFFICES ASSUME NEW z \in rows', z.id \in approved'
                   PROVE  z.user \in verified'
        OBVIOUS
      <3>1. CASE z = y
        BY <3>1, <1>8, <1>10, <1>13 DEF ReviewInv, VerdictsMatchAccount
      <3>2. CASE z # y
        BY <3>2, <1>8, <1>13, <1>15 DEF ReviewInv, VerdictsMatchAccount
      <3> QED
        BY <3>1, <3>2
    <2>2. \A u \in verified' : \/ u \in mailed'
                               \/ \E z \in rows' : z.user = u /\ z.id \in approved'
      <3> SUFFICES ASSUME NEW u \in verified', u \notin mailed'
                   PROVE  \E z \in rows' : z.user = u /\ z.id \in approved'
        OBVIOUS
      <3>1. CASE u \in verified
        <4>1. PICK z \in rows : z.user = u /\ z.id \in approved
          BY <3>1, <1>7 DEF ReviewInv, VerdictsMatchAccount, RowsOf
        <4>2. z.id \in approved'
          BY <4>1, <1>8
        <4>3. CASE z = x
          BY <4>1, <4>2, <4>3, <1>7, <1>13
        <4>4. CASE z # x
          BY <4>1, <4>2, <4>4, <1>7
        <4> QED
          BY <4>3, <4>4
      <3>2. CASE u \notin verified
        BY <3>2, <1>7, <1>8, <1>13
      <3> QED
        BY <3>1, <3>2
    <2> QED
      BY <2>1, <2>2 DEF VerdictsMatchAccount, RowsOf
  <1>21. Cardinality(Requests) \in Nat /\ IsFiniteSet(Requests)
    BY ReviewAssumption, FS_CardinalityType
  <1>22. Room'
    <2>1. /\ IsFiniteSet(rows) /\ Cardinality(rows) \in Nat
          /\ Cardinality(rows) + Cardinality(Inserting) <= MaxRows + Cardinality(Requests)
      BY FS_CardinalityType DEF ReviewInv, Bounds, Room
    <2>2. IsFiniteSet(rows \ {x}) /\ Cardinality(rows \ {x}) = Cardinality(rows) - 1
      BY <1>10, <2>1, FS_RemoveElement
    <2>3. y \notin rows \ {x}
      BY <1>10, <1>13
    <2>4. /\ IsFiniteSet((rows \ {x}) \cup {y})
          /\ Cardinality((rows \ {x}) \cup {y}) = Cardinality(rows \ {x}) + 1
      BY <2>2, <2>3, FS_AddElement
    <2>5. IsFiniteSet(rows') /\ Cardinality(rows') = Cardinality(rows)
      BY <1>7, <2>1, <2>2, <2>4
    <2>6. Inserting' = Inserting
      BY <1>6, <1>7, <1>9 DEF Inserting
    <2> QED
      BY <2>1, <2>5, <2>6 DEF Room
  <1>23. WaitsBounded'
    <2> SUFFICES ASSUME NEW w \in Users
                 PROVE  Cardinality(Waiting(w)') + Cardinality(Asking(w)')
                            <= Cardinality(Requests)
      BY DEF WaitsBounded
    <2>1. /\ Cardinality(Waiting(w)) + Cardinality(Asking(w)) <= Cardinality(Requests)
          /\ IsFiniteSet(Waiting(w)) /\ Cardinality(Waiting(w)) \in Nat
      BY RowSets DEF ReviewInv, Bounds, WaitsBounded
    <2>2. Asking(w)' = Asking(w)
      BY <1>6, <1>7, <1>9 DEF Asking
    <2>3. Cardinality(Asking(w)) \in Nat
      <3>1. Asking(w) \in SUBSET Requests
        BY DEF Asking
      <3> QED
        BY <3>1, RequestSets
    <2>4. y.past = {"PENDING"} => x.past = {"PENDING"}
      BY <1>11, <1>13
    <2>5. /\ Cardinality(Waiting(w)') \in Nat
          /\ Cardinality(Waiting(w)') <= Cardinality(Waiting(w))
      <3>1. CASE y \in Waiting(w)'
        <4>1. x \in Waiting(w)
          BY <3>1, <2>4, <1>10, <1>13 DEF Waiting, RowsOf
        <4>2. /\ IsFiniteSet(Waiting(w) \ {x})
              /\ Cardinality(Waiting(w) \ {x}) = Cardinality(Waiting(w)) - 1
          BY <4>1, <2>1, FS_RemoveElement
        <4>3. y \notin Waiting(w) \ {x}
          BY <1>10, <1>13 DEF Waiting, RowsOf
        <4>4. Cardinality((Waiting(w) \ {x}) \cup {y}) = Cardinality(Waiting(w) \ {x}) + 1
          BY <4>2, <4>3, FS_AddElement
        <4>5. Waiting(w)' = (Waiting(w) \ {x}) \cup {y}
          BY <3>1, <1>7 DEF Waiting, RowsOf
        <4> QED
          BY <2>1, <4>2, <4>4, <4>5
      <3>2. CASE y \notin Waiting(w)'
        <4>1. Waiting(w)' \in SUBSET Waiting(w)
          BY <3>2, <1>7 DEF Waiting, RowsOf
        <4> QED
          BY <4>1, <2>1, FS_Subset, FS_CardinalityType
      <3> QED
        BY <3>1, <3>2
    <2> QED
      BY <1>21, <2>1, <2>2, <2>3, <2>5
  <1>24. DecisionsBounded'
    <2> SUFFICES ASSUME NEW z \in rows'
                 PROVE  z.decided + Cardinality(Deciding(z.id)') <= Cardinality(Requests)
      BY DEF DecisionsBounded
    <2>1. CASE z = y
      <3>1. /\ Deciding(x.id) \in SUBSET Requests /\ r \in Deciding(x.id)
            /\ Deciding(x.id)' = Deciding(x.id) \ {r}
        BY <1>6, <1>7, <1>9, <1>10 DEF Deciding
      <3>2. /\ Cardinality(Deciding(x.id)') = Cardinality(Deciding(x.id)) - 1
            /\ Cardinality(Deciding(x.id)) \in Nat
        BY <3>1, RequestSets
      <3>3. x.decided + Cardinality(Deciding(x.id)) <= Cardinality(Requests)
        BY <1>10 DEF ReviewInv, Bounds, DecisionsBounded
      <3>4. Cardinality(Deciding(z.id)') = Cardinality(Deciding(x.id)) - 1
        BY <2>1, <1>13, <3>2
      <3>5. z.decided = 0 \/ z.decided = x.decided + 1
        BY <2>1, <1>13
      <3> QED
        BY <1>11, <1>21, <3>2, <3>3, <3>4, <3>5
    <2>2. CASE z # y
      <3>1. z \in rows /\ z.id # x.id
        BY <2>2, <1>13, <1>15
      <3>2. Deciding(z.id)' = Deciding(z.id)
        BY <3>1, <1>6, <1>7, <1>9, <1>10 DEF Deciding
      <3> QED
        BY <3>1, <3>2 DEF ReviewInv, Bounds, DecisionsBounded
    <2> QED
      BY <2>1, <2>2
  <1> QED
    BY <1>16, <1>17, <1>18, <1>19, <1>20, <1>22, <1>23, <1>24 DEF ReviewInv, Bounds

-----------------------------------------------------------------------------
LEMMA StutterInv == ReviewInv /\ UNCHANGED vars => ReviewInv'
  <1> SUFFICES ASSUME ReviewInv, UNCHANGED vars PROVE ReviewInv'
    OBVIOUS
  <1>1. TypeOK' /\ AllAsk' /\ Tracked' /\ Lawful'
    BY DEF vars, ReviewInv, TypeOK, AllAsk, Tracked, Lawful
  <1>2. Bounds'
    BY BoundsKept DEF vars, NoneMore
  <1>3. VerdictsMatchAccount'
    BY DEF vars, ReviewInv, VerdictsMatchAccount, RowsOf
  <1> QED
    BY <1>1, <1>2, <1>3 DEF ReviewInv

LEMMA NextInv == ReviewInv /\ [Next]_vars => ReviewInv'
  <1> SUFFICES ASSUME ReviewInv, Next PROVE ReviewInv'
    BY StutterInv
  <1>1. CASE \E r \in Requests, u \in Users : CreateRead(r, u)
    BY <1>1, CreateReadInv
  <1>2. CASE \E r \in Requests : CreateInsert(r)
    BY <1>2, CreateInsertInv
  <1>3. CASE \E r \in Requests, a \in Admins, x \in rows, v \in Verdicts :
               ProcessRead(r, a, x, v)
    BY <1>3, ProcessReadInv
  <1>4. CASE \E r \in Requests : ProcessCommit(r)
    BY <1>4, ProcessCommitInv
  <1>5. CASE \E r \in Requests : Notify(r)
    BY <1>5, NotifyInv
  <1>6. CASE \E r \in Requests : Abort(r)
    BY <1>6, AbortInv DEF Abort
  <1>7. CASE \E u \in Users : ChangeEmail(u) \/ VerifyEmail(u)
    BY <1>7, AccountInv
  <1>8. CASE \E u \in Users \cup Admins : DeleteAccount(u)
    BY <1>8, AccountInv
  <1> QED
    BY <1>1, <1>2, <1>3, <1>4, <1>5, <1>6, <1>7, <1>8 DEF Next

LEMMA InvHolds == Spec => []ReviewInv
  BY InitInv, NextInv, PTL DEF Spec

\* The variables are well typed, no two requests for verification have one id,
\* and only one who exists is verified.
THEOREM TypeCorrect == Spec => []TypeOK
  <1>1. ReviewInv => TypeOK
    BY DEF ReviewInv
  <1> QED
    BY InvHolds, <1>1, PTL

\* The account of a request approved since its address changed is verified,
\* and one that is verified has a mailed code or an approval to show for it,
\* however many decisions overlap (processVerification's one transaction).
THEOREM VerdictsAgree == Spec => []VerdictsMatchAccount
  <1>1. ReviewInv => VerdictsMatchAccount
    BY DEF ReviewInv
  <1> QED
    BY InvHolds, <1>1, PTL

\* Checks that are not repeated when the row is written let at most as many
\* requests of an account wait, and a request be decided at most as often, as
\* the server handles at once (create and processVerification).
THEOREM OverlapsAreBounded == Spec => []OverlapBounded
  <1>1. ReviewInv => OverlapBounded
    <2> SUFFICES ASSUME ReviewInv PROVE OverlapBounded
      OBVIOUS
    <2>1. Cardinality(Requests) \in Nat
      BY ReviewAssumption, FS_CardinalityType
    <2>2. \A u \in Users : Cardinality(Waiting(u)) <= Cardinality(Requests)
      <3> SUFFICES ASSUME NEW u \in Users
                   PROVE  Cardinality(Waiting(u)) <= Cardinality(Requests)
        OBVIOUS
      <3>1. Asking(u) \in SUBSET Requests
        BY DEF Asking
      <3>2. Cardinality(Asking(u)) \in Nat /\ Cardinality(Waiting(u)) \in Nat
        BY <3>1, RequestSets, RowSets
      <3>3. Cardinality(Waiting(u)) + Cardinality(Asking(u)) <= Cardinality(Requests)
        BY DEF ReviewInv, Bounds, WaitsBounded
      <3> QED
        BY <2>1, <3>2, <3>3
    <2>3. \A x \in rows : x.decided <= Cardinality(Requests)
      <3> SUFFICES ASSUME NEW x \in rows
                   PROVE  x.decided <= Cardinality(Requests)
        OBVIOUS
      <3>1. Deciding(x.id) \in SUBSET Requests
        BY DEF Deciding
      <3>2. Cardinality(Deciding(x.id)) \in Nat /\ x.decided \in Nat
        BY <3>1, RequestSets DEF ReviewInv, TypeOK, Row
      <3>3. x.decided + Cardinality(Deciding(x.id)) <= Cardinality(Requests)
        BY DEF ReviewInv, Bounds, DecisionsBounded
      <3> QED
        BY <2>1, <3>2, <3>3
    <2> QED
      BY <2>2, <2>3 DEF OverlapBounded
  <1> QED
    BY InvHolds, <1>1, PTL
=============================================================================
