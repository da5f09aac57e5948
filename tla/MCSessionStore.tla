---------------------------- MODULE MCSessionStore ----------------------------
(* Sessions on small instances.                                             *)
EXTENDS SessionStore
=============================================================================
