---------------------------- MODULE BestAnswers -----------------------------
(***************************************************************************)
(* The answers to one legal question and the choice of the best of them    *)
(* (answers.service.ts).  selectBest is a transaction of two statements at *)
(* READ COMMITTED: the first takes the mark from the answers it sees       *)
(* marked when it begins, waiting for the rows another transaction has     *)
(* locked and looking at them again afterwards; the second marks the       *)
(* chosen answer.                                                          *)
(***************************************************************************)
EXTENDS Naturals, FiniteSets

CONSTANTS Answers, Requests

AnswersAssumption == Answers # {} /\ IsFiniteSet(Requests)

VARIABLES
    row,    \* "none", "up" or "gone"
    best,   \* committed answers with isBest
    req

vars == <<row, best, req>>

Request == [pc : {"idle", "chosen", "clear", "set"}, answer : Answers,
            seen : SUBSET Answers, cleared : SUBSET Answers]
Idle == [pc |-> "idle", answer |-> CHOOSE a \in Answers : TRUE,
         seen |-> {}, cleared |-> {}]

\* An answer whose row a transaction has updated and not yet committed.
Locked(a) == \E r \in Requests : a \in req[r].cleared

\* Types; what is marked exists, and two transactions never hold one row.
TypeOK ==
    /\ row \in [Answers -> {"none", "up", "gone"}]
    /\ best \subseteq {a \in Answers : row[a] = "up"}
    /\ req \in [Requests -> Request]
    /\ \A q, r \in Requests : q # r => req[q].cleared \cap req[r].cleared = {}

-----------------------------------------------------------------------------
Finish(r) == req' = [req EXCEPT ![r] = Idle]

Init ==
    /\ row = [a \in Answers |-> "none"]
    /\ best = {}
    /\ req = [r \in Requests |-> Idle]

\* create, by an expert.
AnswerCreate(a) ==
    /\ row[a] = "none"
    /\ row' = [row EXCEPT ![a] = "up"]
    /\ UNCHANGED <<best, req>>

\* remove, or the deletion of its author; it waits for a lock on the row.
AnswerRemove(a) ==
    /\ row[a] = "up" /\ ~Locked(a)
    /\ row' = [row EXCEPT ![a] = "gone"]
    /\ best' = best \ {a}
    /\ UNCHANGED req

\* selectBest finds the answer and checks who asks.
SelectRead(r, a) ==
    /\ req[r].pc = "idle" /\ row[a] = "up"
    /\ req' = [req EXCEPT ![r] = [Idle EXCEPT !.pc = "chosen", !.answer = a]]
    /\ UNCHANGED <<row, best>>

\* Mutant of Marked: only the chosen answer's own mark is taken.
MarkedSelf(r) == best \cap {req[r].answer}

\* The marked answers of the question.
Marked(r) == best

\* The transaction begins its first statement ...
ClearBegin(r) ==
    /\ req[r].pc = "chosen"
    /\ req' = [req EXCEPT ![r] = [@ EXCEPT !.pc = "clear", !.seen = Marked(r)]]
    /\ UNCHANGED <<row, best>>

LocksFree(r) == \A a \in req[r].seen : ~Locked(a)

\* ... which ends with the rows it saw and that are still marked.
Clear(r) ==
    /\ req[r].pc = "clear" /\ LocksFree(r)
    /\ req' = [req EXCEPT ![r] = [@ EXCEPT !.pc = "set", !.cleared = req[r].seen \cap best]]
    /\ UNCHANGED <<row, best>>

\* The chosen answer is marked and the transaction commits; an answer that is
\* gone rolls it back.
SetBest(r) ==
    LET a == req[r].answer IN
    /\ req[r].pc = "set"
    /\ \A q \in Requests \ {r} : a \notin req[q].cleared
    /\ best' = IF row[a] = "up" THEN (best \ req[r].cleared) \cup {a} ELSE best
    /\ Finish(r)
    /\ UNCHANGED row

\* The transaction is rolled back: a deadlock of row locks, a crash.
Abort(r) ==
    /\ req[r].pc # "idle"
    /\ Finish(r)
    /\ UNCHANGED <<row, best>>

Next ==
    \/ \E a \in Answers : AnswerCreate(a) \/ AnswerRemove(a)
    \/ \E r \in Requests :
          \/ \E a \in Answers : SelectRead(r, a)
          \/ ClearBegin(r) \/ Clear(r) \/ SetBest(r) \/ Abort(r)

Spec == Init /\ [][Next]_vars

-----------------------------------------------------------------------------
\* Selections that overlap do not see each other's mark, but later ones do: a
\* question never has more best answers than there were requests at once.
BestBounded == Cardinality(best) <= Cardinality(Requests)

\* What answers.service.ts:172 says, and overlapping selections refute: the old
\* mark is taken away with the new one, so that a question has one best answer.
OneBest == Cardinality(best) <= 1
=============================================================================
