---------------------------- MODULE QuarantineInv ----------------------------
(***************************************************************************)
(* The inductive invariant of Quarantine: what holds of the address space, *)
(* of the holder of its lock, and of one thread -- its counters and its    *)
(* registration, the pointer in its hand, and each entry of its D-TLB.     *)
(***************************************************************************)
EXTENDS Quarantine

InAccess(t, c) == pc[t] \in {"publish", "walk", "use"} /\ ctx[t] = c

\* Threads whose epoch has been given back.
Left(t) == pc[t] \in {"leave", "tail", "dead"} \/ InAccess(t, "tail")

\* Threads inside generated code, the slow path of an access included.
InBlock(t) == pc[t] = "blk" \/ InAccess(t, "blk")

\* The lock has one holder, and the phases are its.
LockInv ==
    /\ \A t, u \in Threads : pc[t] = "mm" /\ pc[u] = "mm" => t = u
    /\ phase = "idle" => \A t \in Threads : pc[t] # "mm"

HostLive == \A p \in Pages, b \in Backings : host[p] = b => bk[b] = "live"

OutOfUse(b) == bk[b] \in {"retired", "gone"}

\* b is not unmapped, and the drain in progress knows that t holds it.
Held(t, b) ==
    /\ bk[b] # "gone"
    /\ bk[b] = "retired" /\ phase = "free" => \E g \in gens : g <= rgen[b]
    /\ bk[b] = "retired" /\ phase = "scan" /\ t \notin left
          => \E g \in gens : g <= rgen[b]

\* In this order: a thread that can still run guest code is counted; a flush
\* leaves the D-TLB empty until the publish; no generation runs ahead of
\* g_as_gen; a thread that holds anything is registered; a thread is blocked only
\* inside a system call; one counted into g_pub_over after the drain looked holds
\* nothing yet; lent backing stays.
ControlInv(t) ==
    /\ t \in members \/ pc[t] \in {"unborn", "tail", "dead"} \/ InAccess(t, "tail")
    /\ pc[t] = "publish" => dtlb[t] = {}
    /\ pc[t] = "walk" => page[t] \in Pages
    /\ loc[t] <= asGen /\ dtlbGen[t] <= asGen /\ pubGen[t] <= asGen
    /\ ~Left(t) /\ reg[t] = "none" =>
          dtlbGen[t] = 0 /\ dtlb[t] = {} /\ pc[t] \notin {"walk", "use"}
    /\ blocked[t] => pc[t] \in {"sys", "mm", "clone", "exit"} \/ InAccess(t, "sys")
    /\ phase = "scan" /\ reg[t] = "over" => dtlb[t] = {} /\ pc[t] # "use"
    /\ \A b \in loan[t] : bk[b] \in {"live", "orphan"}

\* The pointer in a thread's hand: if its backing went out of use, the thread's
\* epoch is no newer than that.
HandInv(t) ==
    pc[t] = "use" =>
        /\ ptr[t] \in Backings
        /\ bk[ptr[t]] # "free"
        /\ OutOfUse(ptr[t]) /\ reg[t] = "slot" => pubGen[t] <= rgen[ptr[t]]
        /\ ctx[t] \in {"run", "blk"} => Held(t, ptr[t])

\* A JIT thread with its flag clear has seen every finished mapping change.
Serviced(t) == envOn[t] /\ ~interrupt[t] /\ pc[t] \notin {"cold", "reset"}

\* An entry <<p, b>> of t's D-TLB: if it is of the current generation, or the
\* thread has answered every callout, it is right; else it is older than the
\* retirement of b.
EntryInv(t, p, b) ==
    /\ bk[b] # "free"
    /\ dtlbGen[t] = asGen => bk[b] # "gone"
    /\ dtlbGen[t] = asGen /\ phase # "bump" => host[p] = b
    /\ OutOfUse(b) => /\ dtlbGen[t] <= rgen[b]
                      /\ reg[t] = "slot" => pubGen[t] <= rgen[b]
    /\ Serviced(t) => bk[b] # "gone"
    /\ Serviced(t) /\ phase \notin {"bump", "notify"} => host[p] = b
    /\ InBlock(t) => Held(t, b)

DtlbInv(t) ==
    \A p \in Pages, b \in Backings : <<p, b>> \in dtlb[t] => EntryInv(t, p, b)

ThreadInv(t) == ControlInv(t) /\ HandInv(t) /\ DtlbInv(t)

IInv == TypeOK /\ LockInv /\ HostLive /\ \A t \in Threads : ThreadInv(t)

===============================================================================
