----------------------------- MODULE MCFetchCache -----------------------------
(* A small instance of FetchCache for TLC. *)
EXTENDS FetchCache

===============================================================================
