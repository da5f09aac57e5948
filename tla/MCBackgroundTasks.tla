-------------------------- MODULE MCBackgroundTasks --------------------------
(* Background tasks on a small instance.                                    *)
EXTENDS BackgroundTasks
=============================================================================
