---------------------------- MODULE MCCommandReplay ----------------------------
(* Command replay on a small instance: a command of each kind.               *)
EXTENDS CommandReplay

EachKind == [c \in Commands |-> IF c = "load" THEN "load" ELSE "edit"]
=============================================================================
