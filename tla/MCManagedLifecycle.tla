------------------------ MODULE MCManagedLifecycle ------------------------
(* TLC instances of ManagedLifecycle. *)
EXTENDS ManagedLifecycle
=============================================================================
