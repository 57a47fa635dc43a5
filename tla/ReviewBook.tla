----------------------------- MODULE ReviewBook ------------------------------
(***************************************************************************)
(* What user reviews promise, without statements, transactions or locks:   *)
(* every user has at most one review of a cafe, and each POST, PUT and     *)
(* DELETE takes effect at once, text and ratings together, or not at all,  *)
(* and is told which.  Reviews implements this module.                     *)
(***************************************************************************)
CONSTANTS Reqs, Users, Cafes, Types, Calls, NoBody

VARIABLES
    book,    \* the review of every cafe and user
    call,    \* what each request asks for
    answer,  \* what each write was told
    missed   \* the writes that met a review on its way out

vars == <<book, call, answer, missed>>

Bodies == Reqs \cup {NoBody}
Entry == [status: {"none", "pending", "approved", "rejected"}, body: Bodies,
          ratings: SUBSET [type: Types, by: Reqs]]

NoEntry == [status |-> "none", body |-> NoBody, ratings |-> {}]

\* What request q stores: as it was submitted, waiting for a moderator
Submitted(q) == [status |-> "pending", body |-> q,
                 ratings |-> [type: call[q].types, by: {q}]]

Slot(q) == <<call[q].cafe, call[q].user>>

Waiting(q, ops) == answer[q] = "none" /\ call[q].op \in ops

Init == /\ book = [s \in Cafes \X Users |-> NoEntry]
        /\ call \in [Reqs -> Calls]
        /\ answer = [q \in Reqs |-> "none"]
        /\ missed = {}

\* The writer of a change that was stored may still be told "err" when the
\* connection is lost while it commits.
Told(q) == \E a \in {"nil", "err"} : answer' = [answer EXCEPT ![q] = a]

Create(q) ==
    /\ Waiting(q, {"create"})
    /\ book[Slot(q)] = NoEntry
    /\ book' = [book EXCEPT ![Slot(q)] = Submitted(q)]
    /\ Told(q)
    /\ UNCHANGED <<call, missed>>

Exists(q) ==
    /\ Waiting(q, {"create"})
    /\ book[Slot(q)] # NoEntry
    /\ answer' = [answer EXCEPT ![q] = "exists"]
    /\ UNCHANGED <<book, call, missed>>

Update(q) ==
    /\ Waiting(q, {"update"})
    /\ book[Slot(q)] # NoEntry
    /\ book' = [book EXCEPT ![Slot(q)] = Submitted(q)]
    /\ Told(q)
    /\ UNCHANGED <<call, missed>>

\* The review of slot s goes; PUTs and DELETEs that were about to write it may
\* later say that there was none, even if the user has posted a new one since.
Vanish(s) ==
    /\ book[s] # NoEntry
    /\ book' = [book EXCEPT ![s] = NoEntry]
    /\ \E late \in SUBSET {p \in Reqs : Waiting(p, {"update", "delete"}) /\ Slot(p) = s} :
          missed' = (missed \cup late) \ {p \in Reqs : answer'[p] # "none"}

Delete(q) ==
    /\ Waiting(q, {"delete"})
    /\ Told(q)
    /\ Vanish(Slot(q))
    /\ UNCHANGED call

NotFound(q) ==
    /\ Waiting(q, {"update", "delete"})
    /\ book[Slot(q)] = NoEntry \/ q \in missed
    /\ answer' = [answer EXCEPT ![q] = "notfound"]
    /\ missed' = missed \ {q}
    /\ UNCHANGED <<book, call>>

Fail(q) ==
    /\ Waiting(q, {"create", "update", "delete"})
    /\ answer' = [answer EXCEPT ![q] = "err"]
    /\ missed' = missed \ {q}
    /\ UNCHANGED <<book, call>>

\* A moderator decides on the review as it is, or takes it away.
Moderate(s) ==
    \/ /\ book[s] # NoEntry
       /\ \E d \in {"approved", "rejected"} :
             book' = [book EXCEPT ![s].status = d]
       /\ UNCHANGED <<call, answer, missed>>
    \/ /\ UNCHANGED <<call, answer>>
       /\ Vanish(s)

Next == \/ \E q \in Reqs : \/ Create(q) \/ Exists(q) \/ Update(q)
                           \/ Delete(q) \/ NotFound(q) \/ Fail(q)
        \/ \E s \in Cafes \X Users : Moderate(s)

Spec == Init /\ [][Next]_vars
=============================================================================
