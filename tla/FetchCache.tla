------------------------------ MODULE FetchCache ------------------------------
(***************************************************************************)
(* The instruction-fetch cache g_fcache on top of Quarantine: the host     *)
(* page of the last fetch, per thread, read by mem_ifetch without a look   *)
(* at g_as_gen.  mem_ifetch_slow fills it; the mapping change's own        *)
(* tlb_flush_all and jit_dtlb_reset empty it; translate()'s flush does not.*)
(***************************************************************************)
EXTENDS Quarantine

VARIABLE fcache     \* thread -> host page of the last fetch, or None

fvars == <<vars, fcache>>

FInit == Init /\ fcache = [t \in Threads |-> None]

\* An access from the run loop may have been mem_ifetch_slow's: it remembers the
\* page before it reads the word.
FetchFill(t) ==
    /\ pc[t] = "use" /\ ctx[t] = "run"
    /\ fcache[t] # ptr[t]
    /\ fcache' = [fcache EXCEPT ![t] = ptr[t]]
    /\ UNCHANGED vars

\* mem_ifetch's fast path, up to the read of the instruction word.
FetchHit(t) ==
    /\ pc[t] = "run"
    /\ fcache[t] # None
    /\ ptr' = [ptr EXCEPT ![t] = fcache[t]]
    /\ pc' = [pc EXCEPT ![t] = "use"]
    /\ UNCHANGED <<shared, table, jitv, loan, ctx, page, loc, dtlb, dtlbGen, fcache>>

\* What each step of Quarantine does to the fetch caches.
FlushFetch(t) ==
    IF Notify(t) \/ DtlbReset(t) \/ ThreadGone(t)
      THEN fcache' = [fcache EXCEPT ![t] = None]
      ELSE UNCHANGED fcache

FNext == \E t \in Threads : FetchFill(t) \/ FetchHit(t) \/ (Step(t) /\ FlushFetch(t))

FSpec == FInit /\ [][FNext]_fvars

-----------------------------------------------------------------------------
\* What mmu.h says of g_fcache: "Invalidated by any mapping change via
\* tlb_flush_all"; so a fetch never reads through a page that has been unmapped.
FetchSafe ==
    \A t \in Threads :
        pc[t] = "use" /\ ptr[t] = fcache[t] => bk[ptr[t]] # "gone"

===============================================================================
