--------------------------- MODULE MCSigBoundary ---------------------------
(***************************************************************************)
(* SigBoundary for TLC: a signal the host can block, one it must not, and  *)
(* SIGSTOP.                                                                *)
(***************************************************************************)
EXTENDS SigBoundaryInv

MCSig == {1, 2, 3}
MCUnmaskable == {2, 3}
MCSets == {{}, {1, 2}}

=============================================================================
