--------------------------- MODULE MCMirrorStream ---------------------------
(* The mirror stream on a small instance.  Blocks stands for the sections    *)
(* whose change is a revision, status for what is sampled periodically.      *)
EXTENDS MirrorStream

Blank == [x \in Sections |-> 0]
=============================================================================
