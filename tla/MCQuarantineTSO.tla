---------------------------- MODULE MCQuarantineTSO ----------------------------
(* A small instance of QuarantineTSO for TLC. *)
EXTENDS QuarantineTSO

===============================================================================
