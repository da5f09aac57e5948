-------------------------- MODULE MCContainerCleanup --------------------------
(* Containers and cleanup records on small instances.                       *)
EXTENDS ContainerCleanup
=============================================================================
