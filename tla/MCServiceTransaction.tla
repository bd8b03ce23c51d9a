------------------------ MODULE MCServiceTransaction ------------------------
(***************************************************************************)
(* Instances of ServiceTransaction for TLC: the bounds are numbers, given  *)
(* by the configurations.                                                  *)
(***************************************************************************)
EXTENDS ServiceTransaction
=============================================================================
