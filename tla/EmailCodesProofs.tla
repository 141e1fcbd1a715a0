-------------------------- MODULE EmailCodesProofs --------------------------
(***************************************************************************)
(* Theorems about EmailCodes, for every number of accounts, requests,      *)
(* possible codes and attempts: the guesses at a code are bounded by the   *)
(* limit and the requests that overlap, and a code is never taken out of   *)
(* use without a cause.                                                    *)
(***************************************************************************)
EXTENDS EmailCodes, FiniteSetTheorems, TLAPS

\* What a guess found out about its code stays true of it: whose it is, that
\* as many attempts as it read have been made, and that a code it is about to
\* retire is exhausted.
Knows(q) ==
    q.pc \in {"bump", "retire", "commit"} =>
        /\ q.id \in 1 .. lastId
        /\ \A c \in codes : c.id = q.id =>
              /\ c.user = q.user
              /\ q.pc = "bump" => c.attempts >= q.read
              /\ q.pc = "retire" => c.attempts >= MaxAttempts
AllKnow == \A r \in Requests : Knows(req[r])

Numbered == \A c \in codes : c.id \in 1 .. lastId

\* The guesses that have passed the check and are not counted yet are counted
\* beforehand: that is why the bound is about a code and those requests.
Bumping(i) == {r \in Requests : req[r].pc = "bump" /\ req[r].id = i}
Counted ==
    \A c \in codes :
        c.attempts + Cardinality(Bumping(c.id)) <= MaxAttempts + Cardinality(Requests) - 1

\* The inductive invariant.
EmailInv == TypeOK /\ Numbered /\ AllKnow /\ Counted

-----------------------------------------------------------------------------
\* A request that has not begun is well typed.
LEMMA IdleType == Idle \in Request /\ Idle.pc = "idle" /\ Idle.id = 0
  BY CodesAssumption DEF Idle, Request

\* Sets of requests are finite, and smaller when one has left them.
LEMMA RequestSets ==
    ASSUME NEW S \in SUBSET Requests
    PROVE  /\ Cardinality(S) \in Nat /\ Cardinality(Requests) \in Nat
           /\ Cardinality(S) <= Cardinality(Requests)
           /\ \A T \in SUBSET S : Cardinality(T) \in Nat /\ Cardinality(T) <= Cardinality(S)
           /\ \A r \in S : Cardinality(S \ {r}) = Cardinality(S) - 1
  <1>1. /\ IsFiniteSet(S) /\ Cardinality(S) <= Cardinality(Requests)
        /\ Cardinality(S) \in Nat /\ Cardinality(Requests) \in Nat
    BY CodesAssumption, FS_Subset, FS_CardinalityType
  <1>2. \A T \in SUBSET S : Cardinality(T) \in Nat /\ Cardinality(T) <= Cardinality(S)
    BY <1>1, FS_Subset, FS_CardinalityType
  <1>3. \A r \in S : Cardinality(S \ {r}) = Cardinality(S) - 1
    BY <1>1, FS_RemoveElement
  <1> QED
    BY <1>1, <1>2, <1>3

\* One request moves, and the others stay.
LEMMA RequestMoves ==
    ASSUME EmailInv, NEW r \in Requests, NEW q \in Request,
           req' = [req EXCEPT ![r] = q]
    PROVE  /\ req' \in [Requests -> Request] /\ req'[r] = q
           /\ \A s \in Requests : s # r => req'[s] = req[s]
  BY DEF EmailInv, TypeOK

LEMMA InitInv == Init => EmailInv
  <1> SUFFICES ASSUME Init PROVE EmailInv
    OBVIOUS
  <1>1. req \in [Requests -> Request] /\ \A r \in Requests : req[r].pc = "idle"
    BY IdleType DEF Init
  <1> QED
    BY <1>1 DEF Init, EmailInv, TypeOK, Numbered, AllKnow, Knows, Counted

-----------------------------------------------------------------------------
(* What becomes of the codes.                                              *)

\* d is what has become of c.
Became(c, d) ==
    d.id = c.id /\ d.user = c.user /\ d.digits = c.digits /\ d.attempts >= c.attempts

\* The codes in K become what f says, and the others are deleted.
Mapped(K, f) ==
    /\ K \subseteq codes /\ codes' = {f[c] : c \in K} /\ lastId' = lastId
    /\ \A c \in K : f[c] \in Code /\ Became(c, f[c])

\* Codes that are changed one by one, or deleted, keep their names.
LEMMA CodesMapped ==
    ASSUME EmailInv, NEW K, NEW f, Mapped(K, f)
    PROVE  /\ codes' \subseteq Code /\ Numbered'
           /\ \A c, d \in codes' : c.id = d.id \/ c.digits = d.digits => c = d
           /\ \A d \in codes' : \E c \in codes : Became(c, d)
  <1>1. codes' \subseteq Code
    BY DEF Mapped
  <1>2. Numbered'
    BY DEF EmailInv, Numbered, Became, Mapped
  <1>3. ASSUME NEW c \in codes', NEW d \in codes', c.id = d.id \/ c.digits = d.digits
        PROVE  c = d
    <2>1. PICK a \in K, b \in K : c = f[a] /\ d = f[b]
      BY DEF Mapped
    <2>2. a.id = b.id \/ a.digits = b.digits
      BY <1>3, <2>1 DEF Became, Mapped
    <2>3. a = b
      BY <2>2 DEF EmailInv, TypeOK, Mapped
    <2> QED
      BY <2>1, <2>3
  <1>4. \A d \in codes' : \E c \in codes : Became(c, d)
    BY DEF Mapped
  <1> QED
    BY <1>1, <1>2, <1>3, <1>4

\* What is known of a code stays true.
LEMMA KnowsKept ==
    ASSUME EmailInv, lastId' \in Nat, lastId' >= lastId,
           \A d \in codes' : d.id > lastId \/ \E c \in codes : Became(c, d),
           codes' \subseteq Code
    PROVE  \A q \in Request : Knows(q) => Knows(q)'
  <1> SUFFICES ASSUME NEW q \in Request, Knows(q)
               PROVE  Knows(q)'
    OBVIOUS
  <1> SUFFICES ASSUME q.pc \in {"bump", "retire", "commit"}
               PROVE  Knows(q)'
    BY DEF Knows
  <1>1. q.id \in 1 .. lastId
    BY DEF Knows
  <1>2. lastId \in Nat /\ q.read \in Nat /\ MaxAttempts \in Nat
    BY CodesAssumption DEF EmailInv, TypeOK, Request
  <1>3. ASSUME NEW d \in codes', d.id = q.id
        PROVE  /\ d.user = q.user
               /\ q.pc = "bump" => d.attempts >= q.read
               /\ q.pc = "retire" => d.attempts >= MaxAttempts
    <2>1. PICK c \in codes : Became(c, d)
      BY <1>1, <1>2, <1>3
    <2>2. c.attempts \in Nat /\ d.attempts \in Nat
      BY DEF EmailInv, TypeOK, Code
    <2> QED
      BY <1>2, <1>3, <2>1, <2>2 DEF Knows, Became
  <1> QED
    BY <1>1, <1>2, <1>3 DEF Knows

\* One request moves, and every request knows as much as before.
LEMMA AllKnowKept ==
    ASSUME EmailInv, NEW r \in Requests, NEW q \in Request,
           req' = [req EXCEPT ![r] = q], Knows(q)',
           \A p \in Request : Knows(p) => Knows(p)'
    PROVE  AllKnow'
  <1>1. ASSUME NEW s \in Requests
        PROVE  Knows(req[s])'
    <2>1. CASE s = r
      BY <2>1, RequestMoves
    <2>2. CASE s # r
      <3>1. Knows(req[s]) /\ req[s] \in Request
        BY DEF EmailInv, AllKnow, TypeOK
      <3>2. req'[s] = req[s]
        BY <2>2, RequestMoves
      <3> QED
        BY <3>1, <3>2
    <2> QED
      BY <2>1, <2>2
  <1> QED
    BY <1>1 DEF AllKnow

\* Nobody has passed the check of a code that had not, and no attempt is counted.
LEMMA CountedKept ==
    ASSUME EmailInv, \A i : Bumping(i)' \subseteq Bumping(i), codes' \subseteq Code,
           \A d \in codes' : \E c \in codes : d.id = c.id /\ d.attempts = c.attempts
    PROVE  Counted'
  <1> SUFFICES ASSUME NEW d \in codes'
               PROVE  d.attempts + Cardinality(Bumping(d.id)') <=
                         MaxAttempts + Cardinality(Requests) - 1
    BY DEF Counted
  <1>1. PICK c \in codes : d.id = c.id /\ d.attempts = c.attempts
    OBVIOUS
  <1>2. Bumping(c.id) \in SUBSET Requests /\ Bumping(d.id)' \in SUBSET Bumping(c.id)
    BY <1>1 DEF Bumping
  <1>3. /\ Cardinality(Bumping(d.id)') <= Cardinality(Bumping(c.id))
        /\ Cardinality(Bumping(d.id)') \in Nat /\ Cardinality(Bumping(c.id)) \in Nat
        /\ Cardinality(Requests) \in Nat
    BY <1>2, RequestSets
  <1>4. c.attempts + Cardinality(Bumping(c.id)) <= MaxAttempts + Cardinality(Requests) - 1
    BY DEF EmailInv, Counted
  <1>5. c.attempts \in Nat /\ MaxAttempts \in Nat
    BY CodesAssumption DEF EmailInv, TypeOK, Code
  <1> QED
    BY <1>1, <1>3, <1>4, <1>5

\* A code that is used up is the same code, with the same attempts.
LEMMA UsedSame ==
    ASSUME EmailInv, NEW c \in codes
    PROVE  /\ c \in Code /\ Used(c) \in Code /\ Became(c, c) /\ Became(c, Used(c))
           /\ Used(c).attempts = c.attempts /\ Used(c).used
  <1>1. c \in Code
    BY DEF EmailInv, TypeOK
  <1> QED
    <2>1. c.attempts \in Nat
      BY <1>1 DEF Code
    <2>2. Used(c) \in Code
      BY <1>1 DEF Code, Used
    <2>3. /\ Used(c).id = c.id /\ Used(c).user = c.user /\ Used(c).digits = c.digits
          /\ Used(c).attempts = c.attempts /\ Used(c).used
      BY <1>1 DEF Code, Used
    <2> QED
      BY <1>1, <2>1, <2>2, <2>3 DEF Became

\* The columns of the accounts.
Columns ==
    /\ status \in [Users -> {"none", "live", "gone"}]
    /\ address \in [Users -> Nat]
    /\ verified \in [Users -> BOOLEAN]
    /\ proven \in [Users -> Int]

\* The codes in K are changed, but for their attempts, and the others deleted.
Changing(K, f) == Mapped(K, f) /\ \A c \in K : f[c].attempts = c.attempts
NonePasses == \A i : Bumping(i)' \subseteq Bumping(i)

\* Codes are changed or deleted, no attempt is counted and no check is passed.
LEMMA CodesChange ==
    ASSUME EmailInv, NEW K, NEW f, Changing(K, f), Columns',
           req' \in [Requests -> Request], NonePasses
    PROVE  /\ \A q \in Request : Knows(q) => Knows(q)'
           /\ AllKnow' => EmailInv'
  <1>1. /\ codes' \subseteq Code /\ Numbered'
        /\ \A c, d \in codes' : c.id = d.id \/ c.digits = d.digits => c = d
        /\ \A d \in codes' : \E c \in codes : Became(c, d)
    BY CodesMapped DEF Changing
  <1>2. lastId' \in Nat /\ lastId' >= lastId
    BY DEF EmailInv, TypeOK, Changing, Mapped
  <1>3. \A q \in Request : Knows(q) => Knows(q)'
    BY <1>1, <1>2, KnowsKept
  <1>4. \A d \in codes' : \E c \in codes : d.id = c.id /\ d.attempts = c.attempts
    BY DEF Became, Changing, Mapped
  <1>5. Counted'
    BY <1>1, <1>4, CountedKept DEF NonePasses
  <1>6. TypeOK'
    BY <1>1, <1>2 DEF Columns, TypeOK
  <1> QED
    BY <1>1, <1>3, <1>5, <1>6 DEF EmailInv

\* The same with a request that moves, and passes no check.
LEMMA RequestChanges ==
    ASSUME EmailInv, NEW r \in Requests, NEW q \in Request,
           req' = [req EXCEPT ![r] = q], q.pc # "bump", Knows(q) \/ q.pc \notin {"retire", "commit"},
           NEW K, NEW f, Changing(K, f), Columns'
    PROVE  EmailInv'
  <1>1. /\ req' \in [Requests -> Request] /\ req'[r] = q
        /\ \A s \in Requests : s # r => req'[s] = req[s]
    BY RequestMoves
  <1>2. NonePasses
    BY <1>1 DEF Bumping, NonePasses
  <1>3. /\ \A p \in Request : Knows(p) => Knows(p)'
        /\ AllKnow' => EmailInv'
    BY <1>1, <1>2, CodesChange
  <1>4. Knows(q)'
    <2>1. CASE Knows(q)
      BY <1>3, <2>1
    <2>2. CASE q.pc \notin {"retire", "commit"}
      BY <2>2 DEF Knows
    <2> QED
      BY <2>1, <2>2
  <1>5. AllKnow'
    BY <1>3, <1>4, AllKnowKept
  <1> QED
    BY <1>3, <1>5

\* A request begins or ends, and the codes stay as they are.
LEMMA RequestQuiet ==
    ASSUME EmailInv, NEW r \in Requests, NEW q \in Request,
           req' = [req EXCEPT ![r] = q], q.pc \notin {"bump", "retire", "commit"},
           UNCHANGED <<codes, lastId>>, Columns'
    PROVE  EmailInv'
  <1> DEFINE f == [c \in codes |-> c]
  <1>1. \A c \in codes : f[c] \in Code /\ Became(c, f[c]) /\ f[c].attempts = c.attempts
    <2>1. \A c \in codes : c \in Code /\ c.attempts \in Nat
      BY DEF EmailInv, TypeOK, Code
    <2> QED
      BY <2>1 DEF Became
  <1>2. Changing(codes, f)
    BY <1>1 DEF Changing, Mapped
  <1> QED
    BY <1>2, RequestChanges

-----------------------------------------------------------------------------
(* The actions.                                                            *)

LEMMA RegisterStep ==
    ASSUME EmailInv, NEW r \in Requests, NEW u \in Users, Register(r, u)
    PROVE  EmailInv'
  <1> DEFINE q == [Idle EXCEPT !.pc = "invalidate", !.user = u]
  <1>1. q \in Request /\ q.pc = "invalidate" /\ req' = [req EXCEPT ![r] = q]
    BY IdleType DEF Register, Request
  <1>2. UNCHANGED <<codes, lastId>> /\ Columns'
    BY DEF Register, Columns, EmailInv, TypeOK
  <1> QED
    BY <1>1, <1>2, RequestQuiet

LEMMA ResendStep ==
    ASSUME EmailInv, NEW r \in Requests, NEW u \in Users, Resend(r, u)
    PROVE  EmailInv'
  <1>1. address[u] \in Nat
    BY DEF EmailInv, TypeOK
  <1>2. PICK q : q = [Idle EXCEPT !.pc = "invalidate", !.user = u, !.address = address[u]]
    OBVIOUS
  <1>3. q \in Request /\ q.pc = "invalidate" /\ req' = [req EXCEPT ![r] = q]
    BY <1>1, <1>2, IdleType DEF Resend, Request
  <1>4. UNCHANGED <<codes, lastId>> /\ Columns'
    BY DEF Resend, account, Columns, EmailInv, TypeOK
  <1> QED
    BY <1>3, <1>4, RequestQuiet

LEMMA AbortStep ==
    ASSUME EmailInv, NEW r \in Requests, Abort(r)
    PROVE  EmailInv'
  <1>1. req' = [req EXCEPT ![r] = Idle] /\ UNCHANGED <<codes, lastId>> /\ Columns'
    BY DEF Abort, Finish, account, Columns, EmailInv, TypeOK
  <1> QED
    BY <1>1, IdleType, RequestQuiet

LEMMA InvalidateStep ==
    ASSUME EmailInv, NEW r \in Requests, SendInvalidate(r)
    PROVE  EmailInv'
  <1>1. PICK q : q = [req[r] EXCEPT !.pc = "create"]
    OBVIOUS
  <1>2. req[r] \in Request
    BY DEF EmailInv, TypeOK
  <1>3. q \in Request /\ q.pc = "create" /\ req' = [req EXCEPT ![r] = q]
    BY <1>1, <1>2 DEF SendInvalidate, Goto, Request
  <1>4. PICK f : f = [c \in codes |-> IF c.user = req[r].user THEN Used(c) ELSE c]
    OBVIOUS
  <1>5. codes' = {f[c] : c \in codes}
    BY <1>4 DEF SendInvalidate
  <1>6. Changing(codes, f)
    <2>1. \A c \in codes : f[c] \in {c, Used(c)}
      BY <1>4
    <2> QED
      BY <1>5, <2>1, UsedSame DEF Changing, Mapped, SendInvalidate
  <1>7. Columns'
    BY DEF SendInvalidate, account, Columns, EmailInv, TypeOK
  <1> QED
    BY <1>3, <1>6, <1>7, RequestChanges

\* The new code has a number of its own, which nobody has in hand, and digits
\* that no other has.
LEMMA CreateStep ==
    ASSUME EmailInv, NEW r \in Requests, SendCreate(r)
    PROVE  EmailInv'
  <1>1. /\ req' = [req EXCEPT ![r] = Idle] /\ Columns'
        /\ status' = status
    BY DEF SendCreate, Finish, account, Columns, EmailInv, TypeOK
  <1>2. CASE UNCHANGED <<codes, lastId>>
    BY <1>1, <1>2, IdleType, RequestQuiet
  <1>3. ASSUME NEW d \in Digits, HashFree(req[r].user, d), lastId' = lastId + 1,
               codes' = codes \cup
                  {[id |-> lastId + 1, user |-> req[r].user, digits |-> d,
                    address |-> req[r].address, attempts |-> 0,
                    used |-> FALSE, expired |-> FALSE]}
        PROVE  EmailInv'
    <2>1. PICK n : n = [id |-> lastId + 1, user |-> req[r].user, digits |-> d,
                        address |-> req[r].address, attempts |-> 0,
                        used |-> FALSE, expired |-> FALSE]
      OBVIOUS
    <2>2. lastId \in Nat /\ req[r] \in Request
      BY DEF EmailInv, TypeOK
    <2>3. n \in Code /\ n.id = lastId + 1 /\ n.digits = d /\ n.attempts = 0
      BY <2>1, <2>2 DEF Code, Request
    <2>4. codes' = codes \cup {n}
      BY <1>3, <2>1
    <2>5. \A c \in codes : c \in Code /\ c.id \in 1 .. lastId /\ c.digits # d
      BY <1>3 DEF EmailInv, TypeOK, Numbered, HashFree
    <2>6. TypeOK'
      <3>1. \A c, e \in codes' : c.id = e.id \/ c.digits = e.digits => c = e
        BY <2>2, <2>3, <2>4, <2>5 DEF EmailInv, TypeOK
      <3>2. codes' \subseteq Code /\ lastId' \in Nat
        BY <1>3, <2>2, <2>3, <2>4, <2>5
      <3>3. req' \in [Requests -> Request]
        BY <1>1, IdleType, RequestMoves
      <3> QED
        BY <1>1, <3>1, <3>2, <3>3 DEF TypeOK, Columns
    <2>7. Numbered'
      BY <1>3, <2>2, <2>3, <2>4, <2>5 DEF Numbered
    <2>8. \A e \in codes' : e.id > lastId \/ \E c \in codes : Became(c, e)
      <3>1. \A c \in codes : Became(c, c)
        <4>1. \A c \in codes : c.attempts \in Nat
          BY <2>5 DEF Code
        <4> QED
          BY <4>1 DEF Became
      <3> QED
        BY <2>2, <2>3, <2>4, <3>1
    <2>9. \A q \in Request : Knows(q) => Knows(q)'
      <3>1. lastId' \in Nat /\ lastId' >= lastId
        BY <1>3, <2>2
      <3>2. codes' \subseteq Code
        BY <2>6 DEF TypeOK
      <3> QED
        BY <2>8, <3>1, <3>2, KnowsKept
    <2>10. AllKnow'
      <3>1. Knows(Idle)'
        BY IdleType DEF Knows
      <3> QED
        BY <1>1, <2>9, <3>1, IdleType, AllKnowKept
    <2>11. Counted'
      <3>1. \A i : Bumping(i)' \subseteq Bumping(i)
        BY <1>1, IdleType, RequestMoves DEF Bumping
      <3>2. \A c \in codes :
               c.attempts + Cardinality(Bumping(c.id)') <=
                  MaxAttempts + Cardinality(Requests) - 1
        <4> SUFFICES ASSUME NEW c \in codes
                     PROVE  c.attempts + Cardinality(Bumping(c.id)') <=
                               MaxAttempts + Cardinality(Requests) - 1
          OBVIOUS
        <4>1. Bumping(c.id) \in SUBSET Requests /\ Bumping(c.id)' \in SUBSET Bumping(c.id)
          BY <3>1 DEF Bumping
        <4>2. /\ Cardinality(Bumping(c.id)') <= Cardinality(Bumping(c.id))
              /\ Cardinality(Bumping(c.id)') \in Nat /\ Cardinality(Bumping(c.id)) \in Nat
              /\ Cardinality(Requests) \in Nat
          BY <4>1, RequestSets
        <4>3. c.attempts + Cardinality(Bumping(c.id)) <=
                 MaxAttempts + Cardinality(Requests) - 1
          BY DEF EmailInv, Counted
        <4>4. c.attempts \in Nat /\ MaxAttempts \in Nat
          BY <2>5, CodesAssumption DEF Code
        <4> QED
          BY <4>2, <4>3, <4>4
      <3>3. n.attempts + Cardinality(Bumping(n.id)') <=
               MaxAttempts + Cardinality(Requests) - 1
        <4>1. Bumping(n.id) = {}
          BY <2>2, <2>3 DEF EmailInv, AllKnow, Knows, Bumping
        <4>2. Bumping(n.id)' = {}
          BY <3>1, <4>1
        <4>3. Cardinality(Bumping(n.id)') = 0
          BY <4>2, FS_EmptySet
        <4>4. Cardinality(Requests) \in Nat /\ Cardinality(Requests) # 0
          <5>1. IsFiniteSet(Requests)
            BY CodesAssumption
          <5> QED
            BY <5>1, FS_CardinalityType, FS_EmptySet
        <4> QED
          BY <2>3, <4>3, <4>4, CodesAssumption
      <3> QED
        BY <2>4, <3>2, <3>3 DEF Counted
    <2> QED
      BY <2>6, <2>7, <2>10, <2>11 DEF EmailInv
  <1> QED
    BY <1>2, <1>3 DEF SendCreate

\* A guess begins: the code was not exhausted when it was read.
LEMMA ReadStep ==
    ASSUME EmailInv, NEW r \in Requests, NEW u \in Users, NEW guess \in Digits,
           VerifyRead(r, u, guess)
    PROVE  EmailInv'
  <1>1. PICK c \in Latest(u) :
           req' = [req EXCEPT ![r] =
                     [pc |-> IF Exhausted(c) THEN "retire" ELSE "bump",
                      user |-> u, address |-> c.address, id |-> c.id,
                      read |-> c.attempts, right |-> c.digits = guess,
                      verified |-> verified[u]]]
    BY DEF VerifyRead
  <1>2. PICK q : q = [pc |-> IF Exhausted(c) THEN "retire" ELSE "bump",
                      user |-> u, address |-> c.address, id |-> c.id,
                      read |-> c.attempts, right |-> c.digits = guess,
                      verified |-> verified[u]]
    OBVIOUS
  <1>3. c \in codes /\ c \in Code /\ c.user = u /\ c.id \in 1 .. lastId
    BY DEF Latest, Unused, EmailInv, TypeOK, Numbered
  <1>4. verified[u] \in BOOLEAN
    BY DEF EmailInv, TypeOK
  <1>5. /\ q \in Request /\ q.pc \in {"bump", "retire"} /\ q.id = c.id /\ q.user = u
        /\ q.read = c.attempts
    BY <1>2, <1>3, <1>4 DEF Request, Code
  <1>6. /\ q.pc = "bump" => c.attempts < MaxAttempts
        /\ q.pc = "retire" => c.attempts >= MaxAttempts
    <2>1. c.attempts \in Nat /\ MaxAttempts \in Nat
      BY <1>3, CodesAssumption DEF Code
    <2> QED
      BY <1>2, <2>1 DEF Exhausted
  <1>7. req' = [req EXCEPT ![r] = q]
    BY <1>1, <1>2
  <1>8. UNCHANGED <<status, address, verified, proven, codes, lastId>>
    BY DEF VerifyRead, account
  <1>9. \A d \in codes : d.id = c.id => d = c
    BY <1>3 DEF EmailInv, TypeOK
  <1>10. Knows(q)
    <2>1. c.attempts \in Nat
      BY <1>3 DEF Code
    <2> QED
      BY <1>3, <1>5, <1>6, <1>9, <2>1 DEF Knows
  <1>11. AllKnow'
    <2>1. \A p : Knows(p) => Knows(p)'
      BY <1>8 DEF Knows
    <2> QED
      BY <1>5, <1>7, <1>10, <2>1, AllKnowKept
  <1>12. TypeOK' /\ Numbered'
    <2>1. req' \in [Requests -> Request]
      BY <1>5, <1>7, RequestMoves
    <2> QED
      BY <1>8, <2>1 DEF EmailInv, TypeOK, Numbered
  <1>13. ASSUME NEW d \in codes
         PROVE  d.attempts + Cardinality(Bumping(d.id)') <=
                   MaxAttempts + Cardinality(Requests) - 1
    <2>1. Bumping(d.id) \in SUBSET Requests /\ Bumping(d.id)' \in SUBSET Requests
      BY DEF Bumping
    <2>2. /\ Cardinality(Bumping(d.id)') \in Nat /\ Cardinality(Requests) \in Nat
          /\ Cardinality(Bumping(d.id)') <= Cardinality(Requests)
          /\ Cardinality(Bumping(d.id)) \in Nat
          /\ \A T \in SUBSET Bumping(d.id) : Cardinality(T) <= Cardinality(Bumping(d.id))
      BY <2>1, RequestSets
    <2>3. d.attempts \in Nat /\ MaxAttempts \in Nat
      BY CodesAssumption DEF EmailInv, TypeOK, Code
    <2>4. CASE d = c /\ q.pc = "bump"
      BY <1>6, <2>2, <2>3, <2>4
    <2>5. CASE ~(d = c /\ q.pc = "bump")
      <3>1. Bumping(d.id)' \subseteq Bumping(d.id)
        <4>1. d = c \/ d.id # q.id
          BY <1>5, <1>9
        <4> QED
          BY <1>5, <1>7, <2>5, <4>1, RequestMoves DEF Bumping
      <3>2. d.attempts + Cardinality(Bumping(d.id)) <=
               MaxAttempts + Cardinality(Requests) - 1
        BY DEF EmailInv, Counted
      <3> QED
        BY <2>2, <2>3, <3>1, <3>2
    <2> QED
      BY <2>4, <2>5
  <1>14. Counted'
    BY <1>8, <1>13 DEF Counted
  <1> QED
    BY <1>11, <1>12, <1>14 DEF EmailInv

\* A guess is counted: it was counted beforehand.
LEMMA BumpStep ==
    ASSUME EmailInv, NEW r \in Requests, VerifyBump(r)
    PROVE  EmailInv'
  <1>1. PICK i : i = req[r].id
    OBVIOUS
  <1>2. /\ req[r] \in Request /\ req[r].pc = "bump" /\ Knows(req[r]) /\ i \in 1 .. lastId
        /\ UNCHANGED <<status, address, verified, proven, lastId>>
    BY <1>1 DEF VerifyBump, account, EmailInv, TypeOK, AllKnow, Knows
  <1>3. PICK f : f = [c \in codes |-> IF c.id = i THEN Bumped(c) ELSE c]
    OBVIOUS
  <1>4. \A c \in codes : /\ c \in Code /\ c.attempts \in Nat
                         /\ f[c] \in Code /\ Became(c, f[c])
                         /\ c.id = i => f[c].attempts = c.attempts + 1
                         /\ c.id # i => f[c].attempts = c.attempts
    <2> SUFFICES ASSUME NEW c \in codes
                 PROVE  /\ c \in Code /\ c.attempts \in Nat
                        /\ f[c] \in Code /\ Became(c, f[c])
                        /\ c.id = i => f[c].attempts = c.attempts + 1
                        /\ c.id # i => f[c].attempts = c.attempts
      OBVIOUS
    <2>1. c \in Code
      BY DEF EmailInv, TypeOK
    <2>2. c.attempts \in Nat
      BY <2>1 DEF Code
    <2>3. Bumped(c) \in Code
      BY <2>1 DEF Code, Bumped
    <2>4. /\ Bumped(c).id = c.id /\ Bumped(c).user = c.user
          /\ Bumped(c).digits = c.digits /\ Bumped(c).attempts = c.attempts + 1
      BY <2>1 DEF Code, Bumped
    <2> QED
      BY <1>3, <2>1, <2>2, <2>3, <2>4 DEF Became
  <1>5. Mapped(codes, f)
    <2>1. codes' = {f[c] : c \in codes}
      BY <1>1, <1>3 DEF VerifyBump, Changed
    <2> QED
      BY <1>2, <1>4, <2>1 DEF Mapped
  <1>6. PICK q \in Request :
           /\ req' = [req EXCEPT ![r] = q]
           /\ \/ q.pc = "idle"
              \/ q.pc = "retire" /\ q.id = i /\ q.user = req[r].user /\ Last(r)
              \/ q.pc = "commit" /\ q.id = i /\ q.user = req[r].user
    <2>1. CASE req' = [req EXCEPT ![r] = Idle]
      BY <2>1, IdleType
    <2>2. CASE req' = [req EXCEPT ![r].pc = "retire"] /\ Last(r)
      <3>1. PICK q : q = [req[r] EXCEPT !.pc = "retire"]
        OBVIOUS
      <3>2. q \in Request /\ q.pc = "retire" /\ q.id = i /\ q.user = req[r].user
        BY <1>1, <1>2, <3>1 DEF Request
      <3>3. req' = [req EXCEPT ![r] = q]
        BY <2>2, <3>1
      <3> QED
        BY <2>2, <3>2, <3>3
    <2>3. CASE req' = [req EXCEPT ![r].pc = "commit"]
      <3>1. PICK q : q = [req[r] EXCEPT !.pc = "commit"]
        OBVIOUS
      <3>2. q \in Request /\ q.pc = "commit" /\ q.id = i /\ q.user = req[r].user
        BY <1>1, <1>2, <3>1 DEF Request
      <3>3. req' = [req EXCEPT ![r] = q]
        BY <2>3, <3>1
      <3> QED
        BY <3>2, <3>3
    <2> QED
      BY <2>1, <2>2, <2>3 DEF VerifyBump, Finish, Goto
  <1>7. /\ codes' \subseteq Code /\ Numbered'
        /\ \A c, d \in codes' : c.id = d.id \/ c.digits = d.digits => c = d
        /\ \A d \in codes' : \E c \in codes : Became(c, d)
    BY <1>5, CodesMapped
  <1>8. TypeOK'
    <2>1. req' \in [Requests -> Request]
      BY <1>6, RequestMoves
    <2> QED
      BY <1>2, <1>7, <2>1 DEF EmailInv, TypeOK
  <1>9. Knows(q)'
    <2> SUFFICES ASSUME q.pc \in {"retire", "commit"}
                 PROVE  Knows(q)'
      BY <1>6 DEF Knows
    <2>1. q.id = i /\ q.user = req[r].user /\ (q.pc = "retire" => Last(r))
      BY <1>6
    <2>2. ASSUME NEW d \in codes', d.id = i
          PROVE  d.user = q.user /\ (q.pc = "retire" => d.attempts >= MaxAttempts)
      <3>1. PICK c \in codes : d = f[c]
        BY <1>5 DEF Mapped
      <3>2. c.id = i /\ d.user = c.user /\ d.attempts = c.attempts + 1
        BY <1>4, <2>2, <3>1 DEF Became
      <3>3. c.user = req[r].user /\ c.attempts >= req[r].read
        BY <1>1, <1>2, <3>2 DEF Knows
      <3>4. req[r].read \in Nat /\ MaxAttempts \in Nat /\ c.attempts \in Nat
        BY <1>2, <1>4, CodesAssumption DEF Request
      <3> QED
        BY <2>1, <3>2, <3>3, <3>4 DEF Last
    <2> QED
      BY <1>2, <2>1, <2>2 DEF Knows
  <1>10. AllKnow'
    <2>1. lastId' \in Nat /\ lastId' >= lastId
      BY <1>2 DEF EmailInv, TypeOK
    <2>2. \A p \in Request : Knows(p) => Knows(p)'
      BY <1>7, <2>1, KnowsKept
    <2> QED
      BY <1>6, <1>9, <2>2, AllKnowKept
  <1>11. ASSUME NEW c \in codes
         PROVE  f[c].attempts + Cardinality(Bumping(c.id)') <=
                   MaxAttempts + Cardinality(Requests) - 1
    <2>1. Bumping(c.id) \in SUBSET Requests
      BY DEF Bumping
    <2>2. /\ Bumping(c.id)' \subseteq Bumping(c.id)
          /\ c.id = i => r \in Bumping(c.id) /\ Bumping(c.id)' = Bumping(c.id) \ {r}
      BY <1>1, <1>2, <1>6, RequestMoves DEF Bumping
    <2>3. /\ Cardinality(Bumping(c.id)) \in Nat /\ Cardinality(Requests) \in Nat
          /\ Cardinality(Bumping(c.id)') \in Nat
          /\ Cardinality(Bumping(c.id)') <= Cardinality(Bumping(c.id))
          /\ c.id = i => Cardinality(Bumping(c.id)') = Cardinality(Bumping(c.id)) - 1
      BY <2>1, <2>2, RequestSets
    <2>4. c.attempts + Cardinality(Bumping(c.id)) <= MaxAttempts + Cardinality(Requests) - 1
      BY DEF EmailInv, Counted
    <2>5. MaxAttempts \in Nat /\ c.attempts \in Nat
      BY <1>4, CodesAssumption
    <2>6. /\ c.id = i => f[c].attempts = c.attempts + 1
          /\ c.id # i => f[c].attempts = c.attempts
      BY <1>4
    <2> QED
      BY <2>3, <2>4, <2>5, <2>6
  <1>12. Counted'
    <2>1. ASSUME NEW d \in codes'
          PROVE  d.attempts + Cardinality(Bumping(d.id)') <=
                    MaxAttempts + Cardinality(Requests) - 1
      <3>1. PICK c \in codes : d = f[c]
        BY <1>5 DEF Mapped
      <3>2. d.id = c.id
        BY <1>4, <3>1 DEF Became
      <3> QED
        BY <1>11, <3>1, <3>2
    <2> QED
      BY <2>1 DEF Counted
  <1> QED
    BY <1>7, <1>8, <1>10, <1>12 DEF EmailInv

\* A code is used up, whether with an account that is verified or not.
LEMMA RetireStep ==
    ASSUME EmailInv, NEW r \in Requests, req' = [req EXCEPT ![r] = Idle],
           codes' = Changed(req[r].id, Used), lastId' = lastId, Columns'
    PROVE  EmailInv'
  <1>1. PICK f : f = [c \in codes |-> IF c.id = req[r].id THEN Used(c) ELSE c]
    OBVIOUS
  <1>2. codes' = {f[c] : c \in codes}
    BY <1>1 DEF Changed
  <1>3. \A c \in codes : f[c] \in {c, Used(c)}
    BY <1>1
  <1>4. Changing(codes, f)
    BY <1>2, <1>3, UsedSame DEF Changing, Mapped
  <1> QED
    BY <1>4, IdleType, RequestChanges

LEMMA CommitStep ==
    ASSUME EmailInv, NEW r \in Requests, VerifyCommit(r)
    PROVE  EmailInv'
  <1>1. req[r].address \in Nat
    BY DEF EmailInv, TypeOK, Request
  <1>2. Columns'
    <2>1. PICK n \in Int : n = req[r].address
      BY <1>1
    <2>2. /\ status' = status /\ address' = address
          /\ verified' = verified \/ verified' = [verified EXCEPT ![req[r].user] = TRUE]
          /\ proven' = proven \/ proven' = [proven EXCEPT ![req[r].user] = n]
      BY <2>1 DEF VerifyCommit
    <2> QED
      BY <2>1, <2>2 DEF Columns, EmailInv, TypeOK
  <1>3. req' = [req EXCEPT ![r] = Idle] /\ lastId' = lastId
    BY DEF VerifyCommit, Finish
  <1>4. CASE codes' = codes
    BY <1>2, <1>3, <1>4, IdleType, RequestQuiet
  <1>5. CASE codes' = Changed(req[r].id, Used)
    BY <1>2, <1>3, <1>5, RetireStep
  <1> QED
    BY <1>4, <1>5 DEF VerifyCommit

\* No request moves.
LEMMA OtherStep ==
    ASSUME EmailInv, NEW K, NEW f, Changing(K, f), Columns', UNCHANGED req
    PROVE  EmailInv'
  <1>1. req' \in [Requests -> Request] /\ NonePasses
    BY DEF EmailInv, TypeOK, NonePasses, Bumping
  <1>2. /\ \A q \in Request : Knows(q) => Knows(q)'
        /\ AllKnow' => EmailInv'
    BY <1>1, CodesChange
  <1>3. ASSUME NEW s \in Requests
        PROVE  Knows(req[s])'
    <2>1. Knows(req[s]) /\ req[s] \in Request /\ req'[s] = req[s]
      BY DEF EmailInv, AllKnow, TypeOK
    <2> QED
      BY <1>2, <2>1
  <1> QED
    BY <1>2, <1>3 DEF AllKnow

LEMMA AccountStep ==
    ASSUME EmailInv, NEW u \in Users, ChangeEmail(u) \/ DeleteUser(u)
    PROVE  EmailInv'
  <1>1. PICK f : f = [c \in codes |-> c]
    OBVIOUS
  <1>2. \A c \in codes : f[c] = c /\ c \in Code /\ Became(c, c)
    BY <1>1, UsedSame
  <1>3. UNCHANGED <<req, lastId>> /\ Columns'
    <2>1. PICK n \in Nat : n = address[u] + 1
      BY DEF EmailInv, TypeOK
    <2>2. /\ UNCHANGED <<req, lastId, proven>>
          /\ status' = status \/ status' = [status EXCEPT ![u] = "gone"]
          /\ address' = address \/ address' = [address EXCEPT ![u] = n]
          /\ verified' = [verified EXCEPT ![u] = FALSE]
      BY <2>1 DEF ChangeEmail, DeleteUser, EmailInv, TypeOK
    <2> QED
      BY <2>1, <2>2 DEF Columns, EmailInv, TypeOK
  <1>4. PICK K \in SUBSET codes : codes' = K
    BY DEF ChangeEmail, DeleteUser
  <1>5. Changing(K, f)
    BY <1>2, <1>3, <1>4 DEF Changing, Mapped
  <1> QED
    BY <1>3, <1>5, OtherStep

LEMMA ExpireStep ==
    ASSUME EmailInv, Expire
    PROVE  EmailInv'
  <1>1. PICK c \in codes : codes' = {[d EXCEPT !.expired = @ \/ d.id <= c.id] : d \in codes}
    BY DEF Expire
  <1>2. PICK f : f = [d \in codes |-> [d EXCEPT !.expired = @ \/ d.id <= c.id]]
    OBVIOUS
  <1>3. codes' = {f[d] : d \in codes}
    BY <1>1, <1>2
  <1>4. ASSUME NEW d \in codes
        PROVE  f[d] \in Code /\ Became(d, f[d]) /\ f[d].attempts = d.attempts
    <2>1. d \in Code /\ (d.expired \/ d.id <= c.id) \in BOOLEAN
      BY UsedSame
    <2>2. d.attempts \in Nat
      BY <2>1 DEF Code
    <2>3. f[d] = [d EXCEPT !.expired = d.expired \/ d.id <= c.id]
      BY <1>2
    <2>4. f[d] \in Code
      BY <2>1, <2>3 DEF Code
    <2>5. /\ f[d].id = d.id /\ f[d].user = d.user /\ f[d].digits = d.digits
          /\ f[d].attempts = d.attempts
      BY <2>1, <2>3 DEF Code
    <2> QED
      BY <2>2, <2>4, <2>5 DEF Became
  <1>5. UNCHANGED <<req, lastId>> /\ Columns'
    BY DEF Expire, account, Columns, EmailInv, TypeOK
  <1>6. Changing(codes, f)
    BY <1>3, <1>4, <1>5 DEF Changing, Mapped
  <1> QED
    BY <1>5, <1>6, OtherStep

LEMMA NextInv == EmailInv /\ [Next]_vars => EmailInv'
  <1> SUFFICES ASSUME EmailInv, [Next]_vars PROVE EmailInv'
    OBVIOUS
  <1>1. ASSUME NEW r \in Requests, Start(r) PROVE EmailInv'
    BY <1>1, RegisterStep, ResendStep, ReadStep DEF Start
  <1>2. ASSUME NEW r \in Requests, VerifyRetire(r) PROVE EmailInv'
    <2>1. /\ req' = [req EXCEPT ![r] = Idle] /\ codes' = Changed(req[r].id, Used)
          /\ lastId' = lastId /\ Columns'
      BY <1>2 DEF VerifyRetire, Finish, account, Columns, EmailInv, TypeOK
    <2> QED
      BY <2>1, RetireStep
  <1>3. ASSUME NEW r \in Requests, Continue(r) PROVE EmailInv'
    BY <1>2, <1>3, InvalidateStep, CreateStep, BumpStep, CommitStep DEF Continue
  <1>4. CASE UNCHANGED vars
    BY <1>4 DEF vars, EmailInv, TypeOK, Numbered, AllKnow, Knows, Counted, Bumping
  <1> QED
    BY <1>1, <1>3, <1>4, AbortStep, AccountStep, ExpireStep DEF Next

LEMMA InvHolds == Spec => []EmailInv
  BY InitInv, NextInv, PTL DEF Spec

-----------------------------------------------------------------------------
(* The theorems.                                                           *)

\* Every variable keeps to its type; no two codes have one id or one hash.
THEOREM TypeCorrect == Spec => []TypeOK
  <1>1. EmailInv => TypeOK
    BY DEF EmailInv
  <1> QED
    BY <1>1, InvHolds, PTL

\* A code is guessed at no more often than the limit, and once more for every
\* other request in progress (auth.service.ts, verifyEmail).
THEOREM GuessesAreBounded == Spec => []GuessesBounded
  <1>1. EmailInv => GuessesBounded
    <2> SUFFICES ASSUME EmailInv, NEW c \in codes
                 PROVE  c.attempts <= MaxAttempts + Cardinality(Requests) - 1
      BY DEF GuessesBounded
    <2>1. Bumping(c.id) \in SUBSET Requests
      BY DEF Bumping
    <2>2. Cardinality(Bumping(c.id)) \in Nat /\ Cardinality(Requests) \in Nat
      BY <2>1, RequestSets
    <2>3. c.attempts \in Nat /\ MaxAttempts \in Nat
      BY CodesAssumption DEF EmailInv, TypeOK, Code
    <2>4. c.attempts + Cardinality(Bumping(c.id)) <= MaxAttempts + Cardinality(Requests) - 1
      BY DEF EmailInv, Counted
    <2> QED
      BY <2>2, <2>3, <2>4
  <1> QED
    BY <1>1, InvHolds, PTL

\* What a step may do to a code that is in use.
Retired(c) == \A d \in codes' : d.id = c.id => d.used
Cause(c) ==
    \/ c.attempts >= MaxAttempts
    \/ verified'[c.user]
    \/ status'[c.user] = "gone"
    \/ \E r \in Requests : /\ req[r].pc = "invalidate"
                           /\ req[r].user = c.user
                           /\ req'[r].pc = "create"

LEMMA CauseGiven ==
    ASSUME EmailInv, Next, NEW c \in codes, Retired(c), ~c.used
    PROVE  Cause(c)
  <1>1. c \in Code /\ c.user \in Users /\ c.id \in 1 .. lastId
    BY DEF EmailInv, TypeOK, Numbered, Code
  <1>2. c \notin codes'
    BY DEF Retired
  <1>3. ASSUME NEW r \in Requests, Start(r) \/ Abort(r)
        PROVE  FALSE
    BY <1>2, <1>3 DEF Start, Register, Resend, VerifyRead, Abort
  <1>4. ASSUME NEW r \in Requests, SendInvalidate(r)
        PROVE  Cause(c)
    <2>1. c.user = req[r].user
      BY <1>2, <1>4 DEF SendInvalidate
    <2>2. req[r].pc = "invalidate" /\ req'[r].pc = "create"
      BY <1>4 DEF SendInvalidate, Goto, EmailInv, TypeOK, Request
    <2> QED
      BY <2>1, <2>2 DEF Cause
  <1>5. ASSUME NEW r \in Requests, SendCreate(r)
        PROVE  FALSE
    BY <1>2, <1>5 DEF SendCreate
  <1>6. ASSUME NEW r \in Requests, VerifyBump(r)
        PROVE  FALSE
    <2>1. c.id = req[r].id /\ Bumped(c) \in codes'
      BY <1>2, <1>6 DEF VerifyBump, Changed
    <2>2. Bumped(c).id = c.id /\ Bumped(c).used = c.used
      BY <1>1 DEF Code, Bumped
    <2> QED
      BY <2>1, <2>2 DEF Retired
  <1>7. ASSUME NEW r \in Requests, VerifyRetire(r)
        PROVE  Cause(c)
    <2>1. c.id = req[r].id /\ req[r].pc = "retire"
      BY <1>2, <1>7 DEF VerifyRetire, Changed
    <2> QED
      BY <2>1 DEF EmailInv, AllKnow, Knows, Cause
  <1>8. ASSUME NEW r \in Requests, VerifyCommit(r)
        PROVE  Cause(c)
    <2>1. /\ c.id = req[r].id /\ req[r].pc = "commit"
          /\ verified' = [verified EXCEPT ![req[r].user] = TRUE]
      BY <1>2, <1>8 DEF VerifyCommit, Changed
    <2>2. c.user = req[r].user
      BY <2>1 DEF EmailInv, AllKnow, Knows
    <2>3. verified'[c.user]
      BY <1>1, <2>1, <2>2 DEF EmailInv, TypeOK
    <2> QED
      BY <2>3 DEF Cause
  <1>9. ASSUME NEW u \in Users, ChangeEmail(u)
        PROVE  FALSE
    BY <1>2, <1>9 DEF ChangeEmail
  <1>10. ASSUME NEW u \in Users, DeleteUser(u)
         PROVE  Cause(c)
    <2>1. c.user = u
      BY <1>2, <1>10 DEF DeleteUser
    <2>2. status'[u] = "gone"
      BY <1>10 DEF DeleteUser, EmailInv, TypeOK
    <2> QED
      BY <2>1, <2>2 DEF Cause
  <1>11. CASE Expire
    <2>1. PICK e \in codes : codes' = {[d EXCEPT !.expired = @ \/ d.id <= e.id] : d \in codes}
      BY <1>11 DEF Expire
    <2>2. PICK n : n = [c EXCEPT !.expired = c.expired \/ c.id <= e.id]
      OBVIOUS
    <2>3. n \in codes'
      BY <2>1, <2>2
    <2>4. n.id = c.id /\ n.used = c.used
      BY <1>1, <2>2 DEF Code
    <2> QED
      BY <2>3, <2>4 DEF Retired
  <1> QED
    BY <1>3, <1>4, <1>5, <1>6, <1>7, <1>8, <1>9, <1>10, <1>11 DEF Next, Continue

\* A code is taken out of use only by its owner's request for a new one, by the
\* attempts that exhausted it or by verifying the account, whatever requests
\* overlap (auth.service.ts, verifyEmail and sendVerificationEmail).
THEOREM CodesRetiredForCause == Spec => RetiredForCause
  <1>1. EmailInv /\ [Next]_vars => [\A c \in codes : Retired(c) /\ ~c.used => Cause(c)]_vars
    BY CauseGiven
  <1> QED
    BY <1>1, InvHolds, PTL DEF Spec, RetiredForCause, Retired, Cause
=============================================================================
