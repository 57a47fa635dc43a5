------------------------------ MODULE MCReviews ------------------------------
(***************************************************************************)
(* Small instances of Reviews for TLC.                                     *)
(***************************************************************************)
EXTENDS Reviews, TLC

CONSTANTS q1, q2, q3, ann, bob, cafe, vibe, wifi, old

A(op, u, ts) == [op |-> op, cafe |-> cafe, user |-> u, types |-> ts]

SeedAtCafe == [i \in Seeds |-> cafe]

\* One user with several tabs open, and another one
Tabs == {A("create", ann, {vibe}), A("update", ann, {vibe}), A("update", ann, {}),
         A("delete", ann, {}), A("create", bob, {vibe})}

\* Two users who rate two types each, before 012
Raters == {A("create", ann, {vibe, wifi}), A("update", ann, {vibe, wifi}),
           A("delete", ann, {}), A("create", bob, {vibe, wifi})}

\* The third request may list the reviews beside two POSTs, while one account or
\* location changes and a moderator approves; else nothing happens outside.  Only
\* steps that are under no fairness are left out.
RatersAndList == Raters \cup {A("list", ann, {})}
Readers == {q \in Reqs : call[q].op \in {"mine", "list"}}
Closed == {u \in Users : ~active[u]} \cup {c \in Cafes : ~open[c]}
Decided(q) == /\ review'[q].status \in {"approved", "rejected"}
              /\ review'[q].status # review[q].status

ListIsThird ==
    Readers # {} => /\ Readers = {q3}
                    /\ call[q1].op = "create" /\ call[q2].op = "create"
CalmWithoutList ==
    /\ Cardinality(Closed') <= 1
    /\ pc' = pc => \A q \in Reqs : review'[q] # review[q] => Decided(q)
    /\ \A q \in Reqs : Decided(q) => review'[q].status = "approved"
    /\ Readers = {} => UNCHANGED world /\ \A q \in Reqs : ~Decided(q)

\* Writers and readers
Mixed == {A("create", ann, {vibe}), A("create", bob, {vibe}),
          A("mine", ann, {}), A("list", ann, {})}

\* To keep the instance small, a request that only reads runs beside POSTs, a
\* moderator who approves or rejects them, and one account or location that
\* changes; without one, the writes run beside failing statements and a
\* moderator who approves or deletes: no write tells rejected from approved.
\* A moderator decides once about a text, and may delete the review later.
SmallRaces ==
    Readers # {} =>
        /\ Cardinality(Readers) = 1
        /\ \A q \in Reqs : call[q] \in Mixed
        /\ Cardinality(Closed) <= 1

OneRace ==
    /\ \A q \in Reqs : Decided(q) => review[q].status = "pending"
    /\ IF Readers = {}
       THEN /\ UNCHANGED world
            /\ \A q \in Reqs : review'[q].status # "rejected"
       ELSE \A q \in Reqs : resp'[q].code # "500" /\ review'[q].status # "deleted"

Everything == Tabs \cup Mixed

\* An edit beside a reader of the public list
EditAndList == {A("create", ann, {vibe}), A("update", ann, {vibe}), A("list", bob, {})}

ReqSymmetry == Permutations(Reqs)
=============================================================================
