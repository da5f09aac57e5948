----------------------------- MODULE MirrorPromise -----------------------------
(* What the mirror promises, without its channels: the program publishes    *)
(* one revision after another, and a viewer is shown some of them, each in  *)
(* full and in the order in which they were published.  MirrorStream is     *)
(* shown to implement it.                                                   *)
EXTENDS Naturals, Sequences

CONSTANTS
    Contents,   \* what a revision stands for
    Nothing     \* what a viewer sees before the first

VARIABLES
    published,  \* contents of the revisions; revision r is the (r + 1)-th
    shown       \* the revision that the viewer sees

Init ==
    /\ \E c \in Contents : published = <<c>>
    /\ shown = [rev |-> 0, contents |-> Nothing]

Publish ==
    /\ \E c \in Contents \ {published[Len(published)]} :
           published' = Append(published, c)
    /\ UNCHANGED shown

(* Revisions may be passed over; none is shown after a later one.           *)
Show ==
    /\ \E r \in shown.rev .. Len(published) - 1 :
           shown' = [rev |-> r, contents |-> published[r + 1]]
    /\ UNCHANGED published

Next == Publish \/ Show

Spec == Init /\ [][Next]_<<published, shown>>
=============================================================================
