------------------------------ MODULE TurnPromise ------------------------------
(* What the turn engine promises of a turn, without queues, flags, tokens    *)
(* and saves: one works at a time, the model or one call; while one works    *)
(* nothing else is decided; the calls of a reply are taken when nothing is   *)
(* due any more; a call that is due runs or gets its one result; and the     *)
(* model is asked only with all results.  TurnEngine is shown to implement   *)
(* it.                                                                       *)
EXTENDS Naturals

CONSTANT Calls

VARIABLES
    asked,    \* the model is at work
    running,  \* the call at work
    taken,    \* the calls that were admitted
    results   \* how many results each call has in the transcript

Nobody == ~asked /\ running = {}
Due    == {c \in taken : results[c] = 0}

Init ==
    /\ asked = FALSE
    /\ running = {}
    /\ taken = {}
    /\ results = [c \in Calls |-> 0]

(* The calls cs get their result.                                            *)
Answer(cs) == results' = [c \in Calls |-> IF c \in cs THEN 1 ELSE results[c]]

(* One call that is still due runs, or none.                                 *)
Begin == running' = {} \/ \E c \in Due' : running' = {c}

Ask ==
    /\ Nobody /\ Answer(Due)
    /\ asked' = TRUE
    /\ UNCHANGED <<running, taken>>

(* A reply is taken, and its first call begun; if the session cannot be      *)
(* saved all its calls are answered instead.                                 *)
Take ==
    /\ Nobody /\ Due = {}
    /\ \E new \in SUBSET (Calls \ taken) :
           /\ taken' = taken \cup new
           /\ \E cs \in SUBSET new : Answer(cs)
    /\ Begin
    /\ UNCHANGED asked

Proceed ==
    /\ Nobody
    /\ \E cs \in SUBSET Due : Answer(cs)
    /\ Begin
    /\ UNCHANGED <<asked, taken>>

(* Who works comes to an end.                                                *)
End ==
    /\ ~Nobody
    /\ asked' = FALSE /\ running' = {}
    /\ UNCHANGED <<taken, results>>

Next == Ask \/ Take \/ Proceed \/ End

Spec == Init /\ [][Next]_<<asked, running, taken, results>>
=============================================================================
