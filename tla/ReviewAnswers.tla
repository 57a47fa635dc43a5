---------------------------- MODULE ReviewAnswers ----------------------------
(***************************************************************************)
(* Reviews, with what a POST or PUT may be answered.  CreateMine and       *)
(* UpdateMine commit the write and then read the review back in two        *)
(* statements of their own, so the answer may show what another tab of the *)
(* user or a moderator made of the review in between, and the text and the *)
(* ratings of different moments.                                           *)
(*                                                                         *)
(* The history variable told is, for a request whose write has taken       *)
(* effect and which is not answered yet, the states of the review of its   *)
(* user at its cafe since then, starting with the one that ReviewBook says *)
(* the write makes.  It is empty at any other time and constrains no step  *)
(* of Reviews.                                                             *)
(***************************************************************************)
EXTENDS Reviews

VARIABLE told

hvars == <<vars, told>>

Slot(q) == <<call[q].cafe, call[q].user>>

\* The write of q has taken effect, and the answer is still to be read.
ReadsBack(q) == /\ pc[q] \in {"reread", "ratings"}
                /\ call[q].op \in {"create", "update"}

\* told[q] after a step: a step that changes the review adds its new state.
Told(q) ==
    IF ~ReadsBack(q)' THEN {}
    ELSE IF ~ReadsBack(q) THEN {Book!Submitted(q)}
    ELSE IF Shelves'[Slot(q)] = Shelves[Slot(q)] THEN told[q]
    ELSE told[q] \cup {Shelves'[Slot(q)]}

HInit == Init /\ told = [q \in Reqs |-> {}]

HNext == Next /\ told' = [q \in Reqs |-> Told(q)]

HSpec == HInit /\ [][HNext]_hvars /\ Fairness

----------------------------------------------------------------------------
(* Properties *)

\* Each text, with its status, and each set of ratings in the answer of a POST
\* or PUT is that of the write itself or of a later state of the review, never
\* an earlier one nor anybody else's: it is pending unless a moderator decided
\* since.  The answer is 404 only if the review was deleted since.
AnswerIsOwnOrLater ==
    [][\A q \in Reqs : ReadsBack(q) =>
          /\ \A x \in resp'[q].items :
                /\ \E v \in told[q] : x.status = v.status /\ x.body = v.body
                /\ \E v \in told[q] : x.ratings = v.ratings
          /\ resp'[q].code = "404" => Book!NoEntry \in told[q]]_hvars
=============================================================================
