------------------------------ MODULE Quarantine ------------------------------
(***************************************************************************)
(* Reclamation of guest memory in a multithreaded guest (mem.c, jit.c).    *)
(*                                                                         *)
(* Every guest thread is a host thread.  It reaches guest memory through a *)
(* private D-TLB of host pointers (interpreter: checked against g_as_gen   *)
(* at every access; generated code: not checked, but called out through    *)
(* the interrupt flag).  A mapping change runs under the address-space     *)
(* lock, retires the host backing nobody maps any more, bumps g_as_gen,    *)
(* raises the interrupt flags and then releases those retired backings     *)
(* whose retirement generation every registered, unblocked thread has      *)
(* published past.  Backing lent to a host system call is pinned.          *)
(*                                                                         *)
(* One action is one access to shared memory, but for claiming an epoch    *)
(* slot and giving it back (between the stores the slot reads generation   *)
(* 0, which lets a drain release nothing); steps that touch only the       *)
(* thread's own variables are merged into the neighbouring access.         *)
(* Memory is sequentially consistent here (QuarantineTSO relaxes that).    *)
(***************************************************************************)
EXTENDS Naturals, FiniteSets

CONSTANTS
    Threads,    \* guest threads that may ever exist
    Main,       \* the thread group leader
    Jit,        \* the threads that run generated code (the others interpret)
    Pages,      \* guest pages
    Backings,   \* host allocations (HostMap)
    Image,      \* the allocation the loaded program starts with
    Shared,     \* the allocations that map a shared object
    None,
    SlotCap,    \* slots of the published-epoch table (pub_cap)
    MaxGen      \* bound on g_as_gen: mapping changes stop there

ASSUME MainAssumption == Main \in Threads
ASSUME JitAssumption == Jit \subseteq Threads
ASSUME ImageAssumption == Image \in Backings /\ Shared \subseteq Backings
ASSUME NoneAssumption == None \notin Backings /\ None \notin Pages
ASSUME ThreadsAssumption == IsFiniteSet(Threads)
ASSUME BoundAssumption == SlotCap \in Nat /\ MaxGen \in Nat

VARIABLES
    \* shared, written under the address-space lock
    host,       \* page -> the allocation its region and its PTE name
    bk,         \* allocation -> where it is in its life
    rgen,       \* allocation -> g_as_gen when it was retired
    phase,      \* how far the mapping change holding the lock has got
    todo,       \* the allocation a grow drops after its first bump
    drains,     \* does this mapping change end in as_drain_retired?
    left, gens, \* dtlb_safe_gen: slots still to read, generations read
    \* shared, lock-free
    asGen,      \* g_as_gen
    members,    \* the threads as->nthreads counts
    reg,        \* g_pub_slot / g_pub_over_self: has a slot, over, or neither
    blocked,    \* g_pub[slot].blocked
    pubGen,     \* g_pub[slot].gen
    interrupt,  \* env->interrupt of a JIT thread
    envOn,      \* the thread's JitEnv is in g_jit_envs
    loan,       \* allocations the thread has pinned for a host system call
    \* thread-local
    pc,         \* where the thread is
    ctx, page,  \* the access in progress: where it started, the page
    loc,        \* the generation it loaded
    ptr,        \* the host pointer in its hand
    dtlb,       \* the entries of its D-TLB: (page, allocation)
    dtlbGen     \* the generation the D-TLB reflects; 0 = flushed

shared == <<host, bk, rgen, phase, todo, drains, left, gens, asGen, members>>
table  == <<reg, blocked, pubGen>>
local  == <<ctx, page, loc, ptr, dtlb, dtlbGen>>
jitv   == <<interrupt, envOn>>
vars   == <<shared, table, jitv, loan, pc, local>>

Lives == {"free", "live", "orphan", "retired", "gone"}
Places == {"unborn", "run", "cold", "blk", "sys", "mm", "clone", "publish", "walk",
           "use", "reset", "exit", "leave", "tail", "dead"}
Points == {"run", "blk", "sys", "tail"}     \* where an access may start

TypeOK ==
    /\ host \in [Pages -> Backings \cup {None}]
    /\ bk \in [Backings -> Lives]
    /\ rgen \in [Backings -> Nat]
    /\ phase \in {"idle", "bump", "notify", "unref", "gate", "over", "scan", "free"}
    /\ todo \in SUBSET Backings
    /\ drains \in BOOLEAN
    /\ left \in SUBSET Threads
    /\ gens \in SUBSET Nat
    /\ asGen \in Nat \ {0}
    /\ members \in SUBSET Threads
    /\ reg \in [Threads -> {"none", "slot", "over"}]
    /\ blocked \in [Threads -> BOOLEAN]
    /\ pubGen \in [Threads -> Nat]
    /\ interrupt \in [Threads -> BOOLEAN]
    /\ envOn \in [Threads -> BOOLEAN]
    /\ loan \in [Threads -> SUBSET Backings]
    /\ pc \in [Threads -> Places]
    /\ ctx \in [Threads -> Points]
    /\ page \in [Threads -> Pages \cup {None}]
    /\ loc \in [Threads -> Nat]
    /\ ptr \in [Threads -> Backings \cup {None}]
    /\ dtlb \in [Threads -> SUBSET (Pages \X Backings)]
    /\ dtlbGen \in [Threads -> Nat]

Init ==
    /\ host = [p \in Pages |-> Image]
    /\ bk = [b \in Backings |-> IF b = Image THEN "live" ELSE "free"]
    /\ rgen = [b \in Backings |-> 0]
    /\ phase = "idle" /\ todo = {} /\ drains = FALSE
    /\ left = {} /\ gens = {}
    /\ asGen = 1
    /\ members = {Main}
    /\ reg = [t \in Threads |-> "none"]
    /\ blocked = [t \in Threads |-> FALSE]
    /\ pubGen = [t \in Threads |-> 0]
    /\ interrupt = [t \in Threads |-> FALSE]
    /\ envOn = [t \in Threads |-> FALSE]
    /\ loan = [t \in Threads |-> {}]
    /\ pc = [t \in Threads |-> IF t = Main THEN "run" ELSE "unborn"]
    /\ ctx = [t \in Threads |-> "run"]
    /\ page = [t \in Threads |-> None]
    /\ loc = [t \in Threads |-> 0]
    /\ ptr = [t \in Threads |-> None]
    /\ dtlb = [t \in Threads |-> {}]
    /\ dtlbGen = [t \in Threads |-> 0]

-----------------------------------------------------------------------------
(* Published epochs *)

SlotFree == Cardinality({u \in Threads : reg[u] = "slot"}) < SlotCap

\* dtlb_claim_slot, its search taken as one step: a free slot, or -- only where
\* the table is smaller than the thread population -- counted into g_pub_over.
ClaimResults(t) ==
    {r \in {"slot", "over"} :
        /\ r = "slot" => (reg[t] = "slot" \/ SlotFree)
        /\ r = "over" => (reg[t] # "slot" /\ SlotCap < Cardinality(Threads))}

\* dtlb_publish(g): nothing is stored by a thread that gets no slot.
Publish(t, g) ==
    \E r \in ClaimResults(t) :
        /\ reg' = [reg EXCEPT ![t] = r]
        /\ pubGen' = IF r = "slot" THEN [pubGen EXCEPT ![t] = g] ELSE pubGen

-----------------------------------------------------------------------------
(* translate(): the generation check, the D-TLB, the walk under the lock *)

AccessBegin(t, p) ==
    /\ ctx' = [ctx EXCEPT ![t] = IF pc[t] = "cold" THEN "run" ELSE pc[t]]
    /\ page' = [page EXCEPT ![t] = p]

AccessEnd(t) ==
    /\ ctx' = [ctx EXCEPT ![t] = "run"]
    /\ page' = [page EXCEPT ![t] = None]

\* A JIT thread whose environment is new has no block yet, so the first thing
\* jit_run does is fetch code through translate().
MayAccess(t) ==
    \/ pc[t] \in {"run", "cold", "blk", "sys"}
    \/ pc[t] = "tail" /\ t # Main

\* Mutant: the generation is adopted but the old entries stay.
TranslateSyncKeep(t, p) ==
    /\ MayAccess(t)
    /\ asGen # dtlbGen[t]
    /\ loc' = [loc EXCEPT ![t] = asGen]
    /\ AccessBegin(t, p)
    /\ pc' = [pc EXCEPT ![t] = "publish"]
    /\ UNCHANGED <<shared, table, jitv, loan, ptr, dtlb, dtlbGen>>

TranslateSync(t, p) ==
    /\ MayAccess(t)
    /\ asGen # dtlbGen[t]
    /\ dtlb' = [dtlb EXCEPT ![t] = {}]
    /\ loc' = [loc EXCEPT ![t] = asGen]
    /\ AccessBegin(t, p)
    /\ pc' = [pc EXCEPT ![t] = "publish"]
    /\ UNCHANGED <<shared, table, jitv, loan, ptr, dtlbGen>>

\* The end of both translate()'s flush and jit_dtlb_reset: adopt and publish.
TranslatePublish(t) ==
    /\ pc[t] = "publish"
    /\ dtlbGen' = [dtlbGen EXCEPT ![t] = loc[t]]
    /\ Publish(t, loc[t])
    /\ pc' = [pc EXCEPT ![t] = IF page[t] = None THEN ctx[t] ELSE "walk"]
    /\ loc' = [loc EXCEPT ![t] = 0]
    /\ UNCHANGED <<shared, blocked, jitv, loan, ctx, page, ptr, dtlb>>

TranslateHit(t, p, b) ==
    /\ MayAccess(t)
    /\ asGen = dtlbGen[t]
    /\ <<p, b>> \in dtlb[t]
    /\ ptr' = [ptr EXCEPT ![t] = b]
    /\ AccessBegin(t, p)
    /\ pc' = [pc EXCEPT ![t] = "use"]
    /\ UNCHANGED <<shared, table, jitv, loan, loc, dtlb, dtlbGen>>

TranslateMiss(t, p) ==
    /\ MayAccess(t)
    /\ asGen = dtlbGen[t]
    /\ \A b \in Backings : <<p, b>> \notin dtlb[t]
    /\ AccessBegin(t, p)
    /\ pc' = [pc EXCEPT ![t] = "walk"]
    /\ UNCHANGED <<shared, table, jitv, loan, loc, ptr, dtlb, dtlbGen>>

\* The walk needs the address-space lock; a hole is a fault (or EFAULT) and is
\* never cached.
TranslateWalk(t) ==
    LET p == page[t]
        b == host[p]
    IN  /\ pc[t] = "walk"
        /\ phase = "idle"
        /\ IF b = None
             THEN /\ pc' = [pc EXCEPT ![t] = ctx[t]]
                  /\ AccessEnd(t)
                  /\ UNCHANGED <<ptr, dtlb>>
             ELSE /\ pc' = [pc EXCEPT ![t] = "use"]
                  /\ ptr' = [ptr EXCEPT ![t] = b]
                  /\ dtlb' = [dtlb EXCEPT ![t] = @ \cup {<<p, b>>}]
                  /\ UNCHANGED <<ctx, page>>
        /\ UNCHANGED <<shared, table, jitv, loan, loc, dtlbGen>>

\* The load, store or memcpy through the pointer.
Use(t) ==
    /\ pc[t] = "use"
    /\ ptr' = [ptr EXCEPT ![t] = None]
    /\ pc' = [pc EXCEPT ![t] = ctx[t]]
    /\ AccessEnd(t)
    /\ UNCHANGED <<shared, table, jitv, loan, loc, dtlb, dtlbGen>>

-----------------------------------------------------------------------------
(* Generated code *)

\* jit_env_init: the environment starts with its interrupt flag clear and is
\* registered under the lock.  The block that is then translated is fetched
\* through translate() (or from a fetch cache left by single-stepping, which is
\* FetchCache's subject).
JitInit(t) ==
    /\ t \in Jit /\ pc[t] = "run" /\ ~envOn[t]
    /\ phase = "idle"
    /\ envOn' = [envOn EXCEPT ![t] = TRUE]
    /\ interrupt' = [interrupt EXCEPT ![t] = FALSE]
    /\ pc' = [pc EXCEPT ![t] = "cold"]
    /\ UNCHANGED <<shared, table, loan, local>>

\* A block is entered only with the flag seen clear (every block entry tests it).
JitEnter(t) ==
    /\ t \in Jit /\ pc[t] = "run" /\ envOn[t]
    /\ ~interrupt[t]
    /\ pc' = [pc EXCEPT ![t] = "blk"]
    /\ UNCHANGED <<shared, table, jitv, loan, local>>

\* The inline probe: no generation check.
JitProbe(t, p, b) ==
    /\ pc[t] = "blk"
    /\ <<p, b>> \in dtlb[t]
    /\ ptr' = [ptr EXCEPT ![t] = b]
    /\ AccessBegin(t, p)
    /\ pc' = [pc EXCEPT ![t] = "use"]
    /\ UNCHANGED <<shared, table, jitv, loan, loc, dtlb, dtlbGen>>

JitLeave(t) ==
    /\ pc[t] = "blk"
    /\ pc' = [pc EXCEPT ![t] = "run"]
    /\ UNCHANGED <<shared, table, jitv, loan, local>>

\* jit_service_interrupt: clear the flag first, then jit_dtlb_reset.
JitService(t) ==
    /\ t \in Jit /\ pc[t] = "run" /\ envOn[t]
    /\ interrupt[t]
    /\ interrupt' = [interrupt EXCEPT ![t] = FALSE]
    /\ pc' = [pc EXCEPT ![t] = "reset"]
    /\ UNCHANGED <<shared, table, envOn, loan, local>>

\* jit_dtlb_reset up to its publish (TranslatePublish ends it).
DtlbReset(t) ==
    /\ pc[t] = "reset"
    /\ loc' = [loc EXCEPT ![t] = asGen]
    /\ dtlb' = [dtlb EXCEPT ![t] = {}]
    /\ AccessEnd(t)
    /\ pc' = [pc EXCEPT ![t] = "publish"]
    /\ UNCHANGED <<shared, table, jitv, loan, ptr, dtlbGen>>

\* as_tlb_quiesce_self, at the run loop's stop point.
Quiesce(t) ==
    /\ pc[t] = "run"
    /\ pc' = [pc EXCEPT ![t] = "reset"]
    /\ UNCHANGED <<shared, table, jitv, loan, local>>

-----------------------------------------------------------------------------
(* The system-call bracket *)

\* as_tlb_block_begin: a thread without a slot first tries to claim one.
BlockBegin(t) ==
    /\ pc[t] = "run"
    /\ IF reg[t] = "slot" THEN UNCHANGED <<reg, pubGen>> ELSE Publish(t, dtlbGen[t])
    /\ blocked' = [blocked EXCEPT ![t] = (reg'[t] = "slot")]
    /\ pc' = [pc EXCEPT ![t] = "sys"]
    /\ UNCHANGED <<shared, jitv, loan, local>>

BlockEnd(t) ==
    /\ pc[t] = "sys"
    /\ loan[t] = {}
    /\ blocked' = [blocked EXCEPT ![t] = FALSE]
    /\ pc' = [pc EXCEPT ![t] = "run"]
    /\ UNCHANGED <<shared, reg, pubGen, jitv, loan, local>>

-----------------------------------------------------------------------------
(* Mapping changes, under the address-space lock *)

Pinned(b) == \E t \in Threads : b \in loan[t]

\* Mutant: the last region's allocation is retired although it is lent.
UnrefPinned(U, life) ==
    /\ bk' = [b \in Backings |-> IF b \in U THEN "retired" ELSE life[b]]
    /\ rgen' = [b \in Backings |-> IF b \in U THEN asGen ELSE rgen[b]]

\* hmap_unref of every allocation in U: orphaned while lent, else as_retire,
\* which records the generation as it stands.
Unref(U, life) ==
    /\ bk' = [b \in Backings |-> IF b \notin U THEN life[b]
                                 ELSE IF Pinned(b) THEN "orphan" ELSE "retired"]
    /\ rgen' = [b \in Backings |-> IF b \in U /\ ~Pinned(b) THEN asGen ELSE rgen[b]]

Unmapped(h) == {b \in Backings : bk[b] = "live" /\ \A p \in Pages : h[p] # b}

TakeLock(t, bumps) ==
    /\ pc[t] = "sys"
    /\ phase = "idle"
    /\ asGen + bumps <= MaxGen
    /\ pc' = [pc EXCEPT ![t] = "mm"]

\* region_punch and the page-table update of a mapping change that leaves the
\* pages mapped as h; fresh is the allocation it made, if any.
Remap(t, h, fresh, drain) ==
    /\ TakeLock(t, 1)
    /\ host' = h
    /\ Unref(Unmapped(h), [b \in Backings |-> IF b \in fresh THEN "live" ELSE bk[b]])
    /\ phase' = "bump" /\ todo' = {} /\ drains' = drain
    /\ UNCHANGED <<left, gens, asGen, members, table, jitv, loan, local>>

MapFresh(t) ==
    \E R \in SUBSET Pages \ {{}}, b \in Backings :
        /\ bk[b] = "free"
        /\ Remap(t, [p \in Pages |-> IF p \in R THEN b ELSE host[p]], {b}, TRUE)

Unmap(t) ==
    \E R \in SUBSET Pages \ {{}} :
        Remap(t, [p \in Pages |-> IF p \in R THEN None ELSE host[p]], {}, TRUE)

\* The source's allocation under a new address, the old one let go.
RemapMove(t) ==
    \E p, q \in Pages :
        /\ p # q /\ host[p] # None
        /\ Remap(t, [host EXCEPT ![q] = host[p], ![p] = None], {}, TRUE)

SameObject(a, b) == (a \in Shared) = (b \in Shared)

\* A second mapping on fresh backing, the source left as it is: mremap with an
\* old length of zero (shared mappings only) drains, MREMAP_DONTUNMAP does not.
RemapCopy(t) ==
    \E p, q \in Pages, b \in Backings, drain \in BOOLEAN :
        /\ host[p] # None /\ host[q] = None
        /\ bk[b] = "free" /\ SameObject(b, host[p])
        /\ drain => host[p] \in Shared
        /\ Remap(t, [host EXCEPT ![q] = b], {b}, drain)

Protect(t) ==
    /\ \E p \in Pages : host[p] # None
    /\ Remap(t, host, {}, FALSE)

\* region_extend_backing, tiers 2 to 4: the mapping of b, now the pages h, gets
\* the allocation n; b is dropped only after the bump (GrowUnref).
NewBacking(t, h, b, n) ==
    /\ TakeLock(t, 2)
    /\ bk[n] = "free" /\ SameObject(b, n)
    /\ host' = h
    /\ bk' = [bk EXCEPT ![n] = "live"]
    /\ phase' = "bump" /\ todo' = {b} /\ drains' = TRUE
    /\ UNCHANGED <<rgen, left, gens, asGen, members, table, jitv, loan, local>>

\* mremap growing in place: refused for private memory lent to a host call.
GrowInPlace(t) ==
    \E R \in SUBSET Pages \ {{}}, b, n \in Backings :
        /\ \A p \in R : host[p] = b
        /\ b \in Shared \/ ~Pinned(b)
        /\ NewBacking(t, [p \in Pages |-> IF p \in R THEN n ELSE host[p]], b, n)

\* mremap moving, then growing at the destination (the two bumps taken as one).
GrowMoved(t) ==
    \E p, q \in Pages, n \in Backings :
        /\ p # q /\ host[p] # None /\ host[q] = None
        /\ NewBacking(t, [host EXCEPT ![q] = n, ![p] = None], host[p], n)

\* Mutant: the counter wraps and reaches 0, the value that means "flushed".
BumpWrap(t) ==
    /\ pc[t] = "mm" /\ phase = "bump"
    /\ asGen' = (asGen + 1) % MaxGen
    /\ phase' = "notify"
    /\ UNCHANGED <<host, bk, rgen, todo, drains, left, gens, members,
                   table, jitv, loan, pc, local>>

Bump(t) ==
    /\ pc[t] = "mm" /\ phase = "bump"
    /\ asGen' = asGen + 1
    /\ phase' = "notify"
    /\ UNCHANGED <<host, bk, rgen, todo, drains, left, gens, members,
                   table, jitv, loan, pc, local>>

\* as_drain_retired is entered only with something retired; else the lock goes.
AfterSync(t, want) ==
    IF want /\ \E b \in Backings : bk'[b] = "retired"
      THEN phase' = "gate" /\ UNCHANGED pc
      ELSE phase' = "idle" /\ pc' = [pc EXCEPT ![t] = "sys"]

\* jit_notify_mapping_change for every registered environment, and the caller's
\* own tlb_flush_all.
Notify(t) ==
    /\ pc[t] = "mm" /\ phase = "notify"
    /\ interrupt' = [u \in Threads |-> interrupt[u] \/ envOn[u]]
    /\ dtlbGen' = [dtlbGen EXCEPT ![t] = 0]
    /\ UNCHANGED bk
    /\ IF todo # {} THEN phase' = "unref" /\ UNCHANGED pc ELSE AfterSync(t, drains)
    /\ UNCHANGED <<host, rgen, todo, drains, left, gens, asGen, members,
                   table, envOn, loan, ctx, page, loc, ptr, dtlb>>

\* Mutant: the grown region's old allocation is never unreferenced.
GrowUnrefSkip(t) ==
    /\ pc[t] = "mm" /\ phase = "unref"
    /\ phase' = "bump" /\ todo' = {}
    /\ UNCHANGED <<host, bk, rgen, drains, left, gens, asGen, members,
                   table, jitv, loan, pc, local>>

\* A grow's hmap_unref, followed by the page-table update for the new tail.
GrowUnref(t) ==
    /\ pc[t] = "mm" /\ phase = "unref"
    /\ Unref(todo \cap Unmapped(host), bk)
    /\ phase' = "bump" /\ todo' = {}
    /\ UNCHANGED <<host, drains, left, gens, asGen, members,
                   table, jitv, loan, pc, local>>

-----------------------------------------------------------------------------
(* as_drain_retired and dtlb_safe_gen.  gens stands for the minimum the code  *)
(* keeps: {} is ~0UL (release all), {0} is 0 (release nothing).               *)

\* as->nthreads == 1.
Alone == \E u \in Threads : members = {u}

Gate(t) ==
    /\ pc[t] = "mm" /\ phase = "gate"
    /\ gens' = {}
    /\ phase' = IF Alone THEN "free" ELSE "over"
    /\ UNCHANGED <<host, bk, rgen, todo, drains, left, asGen, members,
                   table, jitv, loan, pc, local>>

\* Mutant: the drain does not look at g_pub_over.
OverTestSkip(t) ==
    /\ pc[t] = "mm" /\ phase = "over"
    /\ gens' = {} /\ phase' = "scan" /\ left' = Threads
    /\ UNCHANGED <<host, bk, rgen, todo, drains, asGen, members,
                   table, jitv, loan, pc, local>>

OverTest(t) ==
    /\ pc[t] = "mm" /\ phase = "over"
    /\ IF \E u \in Threads : reg[u] = "over"
         THEN gens' = {0} /\ phase' = "free" /\ left' = {}
         ELSE gens' = {} /\ phase' = "scan" /\ left' = Threads
    /\ UNCHANGED <<host, bk, rgen, todo, drains, asGen, members,
                   table, jitv, loan, pc, local>>

ScanSlot(t, u) ==
    /\ pc[t] = "mm" /\ phase = "scan" /\ u \in left
    /\ left' = left \ {u}
    /\ gens' = IF reg[u] = "slot" /\ ~blocked[u] THEN gens \cup {pubGen[u]} ELSE gens
    /\ phase' = IF left' = {} THEN "free" ELSE "scan"
    /\ UNCHANGED <<host, bk, rgen, todo, drains, asGen, members,
                   table, jitv, loan, pc, local>>

\* Mutant: a thread that published the retirement generation itself is enough.
ReleasableEarly(b) == bk[b] = "retired" /\ \A g \in gens : rgen[b] <= g

Releasable(b) == bk[b] = "retired" /\ \A g \in gens : rgen[b] < g

Release(t) ==
    /\ pc[t] = "mm" /\ phase = "free"
    /\ bk' = [b \in Backings |-> IF Releasable(b) THEN "gone" ELSE bk[b]]
    /\ phase' = "idle" /\ gens' = {}
    /\ pc' = [pc EXCEPT ![t] = "sys"]
    /\ UNCHANGED <<host, rgen, todo, drains, left, asGen, members,
                   table, jitv, loan, local>>

-----------------------------------------------------------------------------
(* Lending backing to a host system call *)

\* guest_lend: judged through translate() under the lock, then pinned; a page
\* whose entry does not name its region's backing is not lent.
Lend(t, p, b) ==
    LET stale == asGen # dtlbGen[t]
        kept == IF stale THEN {} ELSE dtlb[t]
    IN  /\ pc[t] = "sys" /\ phase = "idle"
        /\ b = host[p]
        /\ \A c \in Backings : <<p, c>> \in kept => c = b
        /\ b \notin loan[t]
        /\ loan' = [loan EXCEPT ![t] = @ \cup {b}]
        /\ dtlb' = [dtlb EXCEPT ![t] = kept \cup {<<p, b>>}]
        /\ dtlbGen' = [dtlbGen EXCEPT ![t] = asGen]
        /\ IF stale THEN Publish(t, asGen) ELSE UNCHANGED <<reg, pubGen>>
        /\ UNCHANGED <<shared, blocked, jitv, pc, ctx, page, loc, ptr>>

\* Mutant: the loan ends and the orphan stays on its list.
UnlendForget(t) ==
    /\ pc[t] = "sys" /\ phase = "idle"
    /\ loan[t] # {}
    /\ loan' = [loan EXCEPT ![t] = {}]
    /\ IF \E b \in Backings : bk[b] = "retired"
         THEN phase' = "gate" /\ pc' = [pc EXCEPT ![t] = "mm"]
         ELSE UNCHANGED <<phase, pc>>
    /\ UNCHANGED <<host, bk, rgen, todo, drains, left, gens, asGen, members,
                   table, jitv, local>>

\* guest_unlend: the last loan of an orphan retires it; then the drain.
Unlend(t) ==
    /\ pc[t] = "sys" /\ phase = "idle"
    /\ loan[t] # {}
    /\ loan' = [loan EXCEPT ![t] = {}]
    /\ LET U == {b \in loan[t] : /\ bk[b] = "orphan"
                                 /\ \A u \in Threads \ {t} : b \notin loan[u]}
       IN  /\ bk' = [b \in Backings |-> IF b \in U THEN "retired" ELSE bk[b]]
           /\ rgen' = [b \in Backings |-> IF b \in U THEN asGen ELSE rgen[b]]
    /\ IF \E b \in Backings : bk'[b] = "retired"
         THEN phase' = "gate" /\ pc' = [pc EXCEPT ![t] = "mm"]
         ELSE UNCHANGED <<phase, pc>>
    /\ UNCHANGED <<host, todo, drains, left, gens, asGen, members, table, jitv, local>>

-----------------------------------------------------------------------------
(* Threads coming and going *)

\* clone(CLONE_THREAD): counted before it can run ...
CloneEnter(t, u) ==
    /\ pc[t] = "sys"
    /\ pc[u] = "unborn" /\ u \notin members
    /\ members' = members \cup {u}
    /\ pc' = [pc EXCEPT ![t] = "clone"]
    /\ UNCHANGED <<host, bk, rgen, phase, todo, drains, left, gens, asGen,
                   table, jitv, loan, local>>

\* ... pthread_create succeeds ...
CloneStart(t, u) ==
    /\ pc[t] = "clone" /\ pc[u] = "unborn" /\ u \in members
    /\ pc' = [pc EXCEPT ![t] = "sys", ![u] = "run"]
    /\ UNCHANGED <<shared, table, jitv, loan, local>>

\* ... or fails, and the creator takes the count back (as_thread_enter_undo).
CloneUndo(t, u) ==
    /\ pc[t] = "clone" /\ pc[u] = "unborn" /\ u \in members
    /\ members' = members \ {u}
    /\ pc' = [pc EXCEPT ![t] = "sys"]
    /\ UNCHANGED <<host, bk, rgen, phase, todo, drains, left, gens, asGen,
                   table, jitv, loan, local>>

\* A spawned thread leaves its run loop and gives its JIT environment back ...
ThreadExit(t) ==
    /\ t # Main /\ pc[t] = "run"
    /\ phase = "idle"
    /\ envOn' = [envOn EXCEPT ![t] = FALSE]
    /\ interrupt' = [interrupt EXCEPT ![t] = FALSE]
    /\ pc' = [pc EXCEPT ![t] = "exit"]
    /\ UNCHANGED <<shared, table, loan, local>>

\* ... the leader, with siblings alive, leaves from inside exit(2) and parks.
LeaderExit(t) ==
    /\ t = Main /\ pc[t] = "sys" /\ loan[t] = {}
    /\ ~Alone
    /\ pc' = [pc EXCEPT ![t] = "exit"]
    /\ UNCHANGED <<shared, table, jitv, loan, local>>

\* as_thread_exit: dtlb_unpublish first ...
Unpublish(t) ==
    /\ pc[t] = "exit"
    /\ reg' = [reg EXCEPT ![t] = "none"]
    /\ blocked' = [blocked EXCEPT ![t] = FALSE]
    /\ pubGen' = [pubGen EXCEPT ![t] = 0]
    /\ pc' = [pc EXCEPT ![t] = "leave"]
    /\ UNCHANGED <<shared, jitv, loan, local>>

\* ... then the count.
LeaveCount(t) ==
    /\ pc[t] = "leave"
    /\ members' = members \ {t}
    /\ pc' = [pc EXCEPT ![t] = "tail"]
    /\ UNCHANGED <<host, bk, rgen, phase, todo, drains, left, gens, asGen,
                   table, jitv, loan, local>>

\* The tail of thread_entry: the CLEARTID word is still written (an access from
\* "tail"), then the host thread is gone; the leader is parked for good.
ThreadGone(t) ==
    /\ pc[t] = "tail"
    /\ pc' = [pc EXCEPT ![t] = "dead"]
    /\ dtlb' = [dtlb EXCEPT ![t] = {}]
    /\ dtlbGen' = [dtlbGen EXCEPT ![t] = 0]
    /\ UNCHANGED <<shared, table, jitv, loan, ctx, page, loc, ptr>>

-----------------------------------------------------------------------------
Access(t) ==
    \/ \E p \in Pages : TranslateSync(t, p) \/ TranslateMiss(t, p)
    \/ \E p \in Pages, b \in Backings : TranslateHit(t, p, b)
    \/ TranslatePublish(t) \/ TranslateWalk(t) \/ Use(t)

JitStep(t) ==
    \/ JitInit(t) \/ JitEnter(t) \/ JitLeave(t) \/ JitService(t)
    \/ DtlbReset(t) \/ Quiesce(t)
    \/ \E p \in Pages, b \in Backings : JitProbe(t, p, b)

MapChange(t) ==
    \/ MapFresh(t) \/ Unmap(t) \/ RemapMove(t) \/ RemapCopy(t) \/ Protect(t)
    \/ GrowInPlace(t) \/ GrowMoved(t)

LockHeld(t) ==
    \/ Bump(t) \/ Notify(t) \/ GrowUnref(t) \/ Gate(t) \/ OverTest(t) \/ Release(t)
    \/ \E u \in Threads : ScanSlot(t, u)

Lending(t) == Unlend(t) \/ \E p \in Pages, b \in Backings : Lend(t, p, b)

Lifecycle(t) ==
    \/ \E u \in Threads : CloneEnter(t, u) \/ CloneStart(t, u) \/ CloneUndo(t, u)
    \/ ThreadExit(t) \/ LeaderExit(t) \/ Unpublish(t) \/ LeaveCount(t) \/ ThreadGone(t)

Step(t) ==
    \/ Access(t) \/ JitStep(t) \/ BlockBegin(t) \/ BlockEnd(t)
    \/ MapChange(t) \/ LockHeld(t) \/ Lending(t) \/ Lifecycle(t)

Next == \E t \in Threads : Step(t)

Spec == Init /\ [][Next]_vars

-----------------------------------------------------------------------------
(* Properties *)

\* A guest load or store -- by the interpreter or by generated code -- never goes
\* through a pointer into backing that as_drain_retired has unmapped.
GuestAccessSafe ==
    \A t \in Threads :
        pc[t] = "use" /\ ctx[t] \in {"run", "blk"}
            => bk[ptr[t]] # "gone"

\* Backing lent to a host system call is neither retired nor unmapped before
\* guest_unlend, whatever the other threads map, unmap or grow meanwhile.
LoanSafe ==
    \A t \in Threads : \A b \in loan[t] : bk[b] \in {"live", "orphan"}

\* A D-TLB that reflects the current generation agrees with the page table as
\* soon as the mapping change in progress has bumped it: this is what lets
\* translate() return a hit without the lock.
DtlbCoherent ==
    \A t \in Threads, p \in Pages, b \in Backings :
        <<p, b>> \in dtlb[t] /\ dtlbGen[t] = asGen /\ phase # "bump" => host[p] = b

\* Every allocation a page names is live, and no live allocation is forgotten:
\* once its last page is gone it is on the quarantine or orphan list (or a grow
\* is about to put it there).
BackingAccounted ==
    \A b \in Backings :
        /\ (\E p \in Pages : host[p] = b) => bk[b] = "live"
        /\ bk[b] = "live" => (b \in todo \/ \E p \in Pages : host[p] = b)
        /\ bk[b] = "orphan" => Pinned(b)

\* What syscall.c says of a handler's own copies: "Handlers reach guest memory
\* only through translate(), which re-checks the generation itself, so the
\* window is safe to disown."  A handler's pointer never names unmapped backing.
HandlerCopySafe ==
    \A t \in Threads :
        pc[t] = "use" /\ ctx[t] = "sys" => bk[ptr[t]] # "gone"

\* What as_thread_exit says of dtlb_unpublish: "leaving its epoch behind would
\* pin the quarantine on a ghost."  A thread that is gone holds no epoch.
NoGhostEpoch ==
    \A t \in Threads : pc[t] = "dead" => reg[t] = "none"

===============================================================================
