------------------------------ MODULE Answers ------------------------------
(***************************************************************************)
(* What a user may expect of the SELECT statements: a query is refused     *)
(* when it names a table or an output column that does not exist;          *)
(* otherwise the rows of its answer are printed, in some order, each as    *)
(* often as it should be, and then the prompt is back.  Only a kill from   *)
(* outside takes the process away, and what was printed until then is part *)
(* of the answer.                                                          *)
(***************************************************************************)
EXTENDS Relational

VARIABLES
    db,        \* what the files hold
    phase,     \* "down", "prompt" or "answering"
    query,     \* the last query
    printed,   \* the bag of rows printed in answer to it
    reply      \* how it ended

vars == <<db, phase, query, printed, reply>>

Init ==
    /\ db \in Databases
    /\ phase = "down"
    /\ query = NoQuery
    /\ printed = EmptyBag
    /\ reply = "none"

Start ==
    /\ phase = "down"
    /\ phase' = "prompt"
    /\ UNCHANGED <<db, query, printed, reply>>

Ask(q) ==
    /\ phase = "prompt"
    /\ query' = q
    /\ printed' = EmptyBag
    /\ IF Valid(q) THEN phase' = "answering" /\ reply' = "none"
                   ELSE phase' = "prompt" /\ reply' = "refused"
    /\ UNCHANGED db

PrintRow ==
    /\ phase = "answering"
    /\ \E row \in BagToSet(Answer(db, query)) :
          printed' = printed (+) SetToBag({row})
    /\ printed' \sqsubseteq Answer(db, query)
    /\ UNCHANGED <<db, phase, query, reply>>

Finish ==
    /\ phase = "answering"
    /\ printed = Answer(db, query)
    /\ phase' = "prompt"
    /\ reply' = "answered"
    /\ UNCHANGED <<db, query, printed>>

Kill ==
    /\ phase # "down"
    /\ phase' = "down"
    /\ query' = NoQuery
    /\ printed' = EmptyBag
    /\ reply' = "none"
    /\ UNCHANGED db

Next ==
    \/ Start
    \/ Kill
    \/ \E q \in Queries : Ask(q)
    \/ PrintRow
    \/ Finish

Spec == Init /\ [][Next]_vars
=============================================================================
