----------------------------- MODULE CommandPromise -----------------------------
(* What remote control promises of a command that changes something,         *)
(* without connections, mailboxes and caches: it takes effect at most once;  *)
(* success is reported only of a command that has taken effect; and once the *)
(* browser gives a command up it will not take effect any more.  A refusal   *)
(* promises nothing.  CommandReplay is shown to implement it.                *)
EXTENDS Naturals

CONSTANT Commands

VARIABLES
    times,  \* how often each command has taken effect
    told    \* what the user has been told of it

Init ==
    /\ times = [c \in Commands |-> 0]
    /\ told = [c \in Commands |-> "idle"]

Issue(c) ==
    /\ told[c] = "idle"
    /\ told' = [told EXCEPT ![c] = "pending"]
    /\ UNCHANGED times

Apply(c) ==
    /\ times[c] = 0
    /\ told[c] \in {"pending", "refused"}
    /\ times' = [times EXCEPT ![c] = 1]
    /\ UNCHANGED told

Answer(c) ==
    /\ told[c] = "pending"
    /\ \E a \in {"ok", "refused"} :
           /\ a = "ok" => times[c] = 1
           /\ told' = [told EXCEPT ![c] = a]
    /\ UNCHANGED times

(* Every pending command is given up at once.                                *)
Abandon ==
    /\ told' = [c \in Commands |->
                   IF told[c] = "pending" THEN "abandoned" ELSE told[c]]
    /\ UNCHANGED times

Next == Abandon \/ \E c \in Commands : Issue(c) \/ Apply(c) \/ Answer(c)

Spec == Init /\ [][Next]_<<times, told>>
=============================================================================
