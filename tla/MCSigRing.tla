----------------------------- MODULE MCSigRing -----------------------------
(***************************************************************************)
(* SigRing for TLC.  11 (SIGSEGV) is a number the gate lets through, 34    *)
(* and 35 are real-time signals; sizes are scaled down, with the headroom  *)
(* what it is in the code: the numbers let through, and two.               *)
(***************************************************************************)
EXTENDS SigRing

MCSig == {11, 34, 35}
MCFault == {11}
MCHandled == {11, 35}
MCMasks == {{}, {34}, {35}}
MCSent == (11 :> 2) @@ (34 :> 2) @@ (35 :> 5)

=============================================================================
