----------------------------- MODULE QuarantineTSO -----------------------------
(***************************************************************************)
(* Quarantine with the one store whose delay matters: as_tlb_block_end     *)
(* clears g_pub[].blocked with a release store and the thread goes on to   *)
(* load env->interrupt.  On x86-64 (and on ARM) that store may still sit   *)
(* in the store buffer when the load is performed, so another thread can   *)
(* go on reading blocked = 1.  A later store of the thread to the same     *)
(* table, and its locked operations, drain the buffer.                     *)
(***************************************************************************)
EXTENDS Quarantine

VARIABLE sb         \* threads with the cleared flag still in the store buffer

tvars == <<vars, sb>>

TInit == Init /\ sb = {}

BlockEndBuffered(t) ==
    /\ pc[t] = "sys"
    /\ loan[t] = {}
    /\ blocked[t]
    /\ sb' = sb \cup {t}
    /\ pc' = [pc EXCEPT ![t] = "run"]
    /\ UNCHANGED <<shared, table, jitv, loan, local>>

\* The buffered store reaches memory, at any time.
Commit(t) ==
    /\ t \in sb
    /\ sb' = sb \ {t}
    /\ blocked' = [blocked EXCEPT ![t] = FALSE]
    /\ UNCHANGED <<shared, reg, pubGen, jitv, loan, pc, local>>

\* Steps that make the buffer drain first: a publish or unpublish (a store after
\* it), a walk and a registration (a mutex), the next system call's flag.
Drained(t) ==
    t \in sb => pc[t] \notin {"publish", "walk", "sys", "exit"}

TNext ==
    \E t \in Threads :
        \/ BlockEndBuffered(t) \/ Commit(t)
        \/ /\ Step(t) /\ Drained(t)
           /\ t \in sb => pc'[t] \notin {"sys", "cold", "exit"}
           /\ UNCHANGED sb

TSpec == TInit /\ [][TNext]_tvars

===============================================================================
