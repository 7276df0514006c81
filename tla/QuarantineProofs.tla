--------------------------- MODULE QuarantineProofs ---------------------------
(***************************************************************************)
(* Proofs about Quarantine, for any number of threads, pages, allocations  *)
(* and slots: no guest access goes through unmapped backing                *)
(* (GuestAccessSafe), lent backing stays (LoanSafe), and a D-TLB of the    *)
(* current generation agrees with the page table (DtlbCoherent).           *)
(***************************************************************************)
EXTENDS QuarantineTypes, QuarantineLocal

USE NoneAssumption, Zenon
USE DEF shared, table, jitv, local, SameTable, SameJit, SameDtlb, SameAccess, SameHand

-----------------------------------------------------------------------------
(* Steps of the holder of the lock *)

\* u keeps what it owns; it may take or give back the lock, and flush its D-TLB.
Keeps(u) ==
    /\ SameTable(u) /\ SameAccess(u) /\ SameHand(u)
    /\ dtlb'[u] = dtlb[u] /\ dtlbGen'[u] \in {dtlbGen[u], 0}
    /\ pc'[u] # pc[u] => pc[u] \in {"sys", "mm"} /\ pc'[u] \in {"sys", "mm"}

\* What a step may do to an allocation: it is retired at the current generation.
Aged(b) ==
    /\ bk[b] # "free" => bk'[b] # "free"
    /\ OutOfUse(b)' => rgen'[b] = IF OutOfUse(b) THEN rgen[b] ELSE asGen

\* u is in generated code, or about to use a pointer outside a system call.
Runs(u) == InBlock(u) \/ (pc[u] = "use" /\ ctx[u] \in {"run", "blk"})

\* A step keeps b for u, which holds something and has not published past b.
KeepsHeld(u, b) ==
    /\ Runs(u) /\ (dtlb[u] # {} \/ pc[u] = "use")
    /\ OutOfUse(b) /\ reg[u] = "slot" => pubGen[u] <= rgen[b]
    /\ Held(u, b)
    => Held(u, b)'

\* What lets an entry be used without the lock is right after the step.
KeepsEntry(u, p, b) ==
    /\ dtlbGen'[u] = asGen' => bk'[b] # "gone"
    /\ dtlbGen'[u] = asGen' /\ phase' # "bump" => host'[p] = b
    /\ Serviced(u)' => bk'[b] # "gone"
    /\ Serviced(u)' /\ phase' \notin {"bump", "notify"} => host'[p] = b

\* What a step under the lock has to keep for one thread.
LEMMA LockedThread ==
    ASSUME TypeOK, TypeOK', NEW u \in Threads, ThreadInv(u), Keeps(u),
           members' = members, asGen <= asGen',
           \A b \in Backings : Aged(b),
           \A b \in loan'[u] : bk'[b] \in {"live", "orphan"},
           phase' = "scan" /\ reg[u] = "over" => dtlb[u] = {} /\ pc[u] # "use",
           \A b \in Backings : KeepsHeld(u, b),
           \A p \in Pages, b \in Backings : <<p, b>> \in dtlb[u] => KeepsEntry(u, p, b)
    PROVE  ThreadInv(u)'
<1>1. /\ asGen \in Nat /\ asGen' \in Nat /\ rgen \in [Backings -> Nat]
      /\ rgen' \in [Backings -> Nat] /\ loc[u] \in Nat /\ pubGen[u] \in Nat
      /\ dtlbGen[u] \in Nat
  BY DEF TypeOK
<1>2. ControlInv(u) /\ HandInv(u) /\ DtlbInv(u) BY DEF ThreadInv
<1>3. ControlInv(u)'
  BY <1>1, <1>2, SMT DEF ControlInv, Keeps, InAccess, Left
<1>4. ASSUME NEW b \in Backings, OutOfUse(b)',
             OutOfUse(b) /\ reg[u] = "slot" => pubGen[u] <= rgen[b]
      PROVE  reg'[u] = "slot" => pubGen'[u] <= rgen'[b]
  <2>1. pubGen[u] <= asGen BY <1>2 DEF ControlInv
  <2>2. rgen'[b] = IF OutOfUse(b) THEN rgen[b] ELSE asGen BY <1>4 DEF Aged
  <2> QED BY <1>1, <1>4, <2>1, <2>2 DEF Keeps
<1>5. HandInv(u)'
  <2> SUFFICES ASSUME pc'[u] = "use"
               PROVE  HandInv(u)'
    BY DEF HandInv
  <2>1. pc[u] = "use" BY DEF Keeps
  <2>2. ptr'[u] = ptr[u] /\ ctx'[u] = ctx[u] BY DEF Keeps
  <2>3. PICK b \in Backings :
           /\ b = ptr[u] /\ bk[b] # "free"
           /\ OutOfUse(b) /\ reg[u] = "slot" => pubGen[u] <= rgen[b]
           /\ ctx[u] \in {"run", "blk"} => Held(u, b)
    BY <1>2, <2>1 DEF HandInv
  <2>4. bk'[b] # "free" BY <2>3 DEF Aged
  <2>5. OutOfUse(b)' /\ reg'[u] = "slot" => pubGen'[u] <= rgen'[b] BY <1>4, <2>3
  <2>6. ctx[u] \in {"run", "blk"} => Held(u, b)' BY <2>1, <2>3 DEF KeepsHeld, Runs
  <2>7. ptr'[u] = b BY <2>2, <2>3
  <2> QED BY <2>2, <2>4, <2>5, <2>6, <2>7 DEF HandInv, OutOfUse, Held
<1>6. DtlbInv(u)'
  <2> SUFFICES ASSUME NEW p \in Pages, NEW b \in Backings, <<p, b>> \in dtlb[u]
               PROVE  EntryInv(u, p, b)'
    BY DEF DtlbInv, Keeps
  <2>1. EntryInv(u, p, b) BY <1>2 DEF DtlbInv
  <2>2. bk'[b] # "free" BY <2>1 DEF EntryInv, Aged
  <2>3. KeepsEntry(u, p, b) OBVIOUS
  <2>4. OutOfUse(b)' => dtlbGen'[u] <= rgen'[b]
    <3>1. dtlbGen[u] <= asGen BY <1>2 DEF ControlInv
    <3>2. OutOfUse(b)' => rgen'[b] = IF OutOfUse(b) THEN rgen[b] ELSE asGen BY DEF Aged
    <3>3. OutOfUse(b) => dtlbGen[u] <= rgen[b] BY <2>1 DEF EntryInv
    <3> QED BY <1>1, <3>1, <3>2, <3>3, SMT DEF Keeps
  <2>5. OutOfUse(b)' /\ reg'[u] = "slot" => pubGen'[u] <= rgen'[b]
    BY <1>4, <2>1 DEF EntryInv
  <2>6. InBlock(u)' => Held(u, b)'
    <3>1. InBlock(u)' => InBlock(u) BY DEF InBlock, InAccess, Keeps
    <3>2. dtlb[u] # {} OBVIOUS
    <3> QED BY <2>1, <3>1, <3>2 DEF EntryInv, KeepsHeld, Runs
  <2> QED BY <2>2, <2>3, <2>4, <2>5, <2>6 DEF EntryInv, KeepsEntry
<1> QED BY <1>3, <1>5, <1>6 DEF ThreadInv

\* The whole of a step under the lock, from the three parts of it.
LEMMA LockedStep ==
    ASSUME IInv, TypeOK', LockInv', HostLive', members' = members, asGen <= asGen',
           \A b \in Backings : Aged(b),
           \A u \in Threads : Keeps(u),
           \A u \in Threads : \A b \in loan'[u] : bk'[b] \in {"live", "orphan"},
           \A u \in Threads :
               phase' = "scan" /\ reg[u] = "over" => dtlb[u] = {} /\ pc[u] # "use",
           \A u \in Threads, b \in Backings : KeepsHeld(u, b),
           \A u \in Threads, p \in Pages, b \in Backings :
               <<p, b>> \in dtlb[u] => KeepsEntry(u, p, b)
    PROVE  IInv'
<1>1. \A u \in Threads : ThreadInv(u)' BY LockedThread DEF IInv
<1> QED BY <1>1 DEF IInv

\* Retiring or orphaning live backing that nothing maps, before the bump.
LEMMA UnrefStep ==
    ASSUME IInv, TypeOK', NEW t \in Threads, pc'[t] = "mm", phase' = "bump",
           \A u \in Threads : Keeps(u) /\ SameJit(u),
           LockInv', members' = members, asGen' = asGen, UNCHANGED loan,
           NEW U, NEW life, Unref(U, life),
           \A b \in U : b \in Backings /\ bk[b] = "live" /\ \A p \in Pages : host'[p] # b,
           \A b \in Backings : life[b] # bk[b] => bk[b] = "free" /\ life[b] = "live",
           \A p \in Pages, b \in Backings : host'[p] = b => life[b] = "live"
    PROVE  IInv'
<1>1. TypeOK /\ HostLive /\ \A u \in Threads : ThreadInv(u) BY DEF IInv
<1>2. \A b \in Backings :
        bk'[b] = IF b \notin U THEN life[b] ELSE IF Pinned(b) THEN "orphan" ELSE "retired"
  BY DEF Unref
<1>3. \A b \in Backings : rgen'[b] = IF b \in U /\ ~Pinned(b) THEN asGen ELSE rgen[b]
  BY DEF Unref
<1>4. \A b \in Backings : bk[b] # "gone" => bk'[b] # "gone" BY <1>2, ZenonT(40)
<1>5. \A b \in Backings : Aged(b)
  BY <1>2, <1>3, ZenonT(40) DEF Aged, OutOfUse
<1>6. HostLive' BY <1>2, ZenonT(40) DEF HostLive
<1>7. \A u \in Threads : \A b \in loan'[u] : bk'[b] \in {"live", "orphan"}
  <2> SUFFICES ASSUME NEW u \in Threads, NEW b \in loan[u]
               PROVE  bk'[b] \in {"live", "orphan"}
    OBVIOUS
  <2>1. b \in Backings /\ bk[b] \in {"live", "orphan"} /\ Pinned(b)
    BY <1>1 DEF TypeOK, ThreadInv, ControlInv, Pinned
  <2> QED BY <1>2, <2>1, ZenonT(40)
<1>8. ASSUME NEW u \in Threads, NEW b \in Backings PROVE KeepsHeld(u, b)
  BY <1>4 DEF KeepsHeld, Held
<1>9. ASSUME NEW u \in Threads, NEW p \in Pages, NEW b \in Backings, <<p, b>> \in dtlb[u]
       PROVE  KeepsEntry(u, p, b)
  <2>1. EntryInv(u, p, b) BY <1>1, <1>9 DEF ThreadInv, DtlbInv
  <2>2. asGen \in Nat \ {0} BY <1>1 DEF TypeOK
  <2>3. dtlbGen'[u] = asGen' => dtlbGen[u] = asGen BY <2>2 DEF Keeps
  <2>4. Serviced(u)' => Serviced(u) BY DEF Serviced, Keeps
  <2> QED BY <1>4, <2>1, <2>3, <2>4 DEF KeepsEntry, EntryInv
<1>10. asGen <= asGen' BY <1>1, SMT DEF TypeOK
<1> QED BY <1>5, <1>6, <1>7, <1>8, <1>9, <1>10, LockedStep

LEMMA TakeLockInv ==
    ASSUME IInv, NEW t \in Threads, NEW n, TakeLock(t, n), phase' = "bump"
    PROVE  /\ LockInv' /\ pc'[t] = "mm"
           /\ \A u \in Threads : pc'[u] # pc[u] => pc[u] = "sys" /\ pc'[u] = "mm"
BY DEF IInv, TypeOK, LockInv, TakeLock

\* The pages may be mapped as h: to live allocations, or to fresh ones.
MapsLive(h, fresh) ==
    /\ \A b \in fresh : bk[b] = "free"
    /\ \A p \in Pages, b \in Backings : h[p] = b => bk[b] = "live" \/ b \in fresh

LEMMA RemapInv ==
    ASSUME IInv, TypeOK', NEW t \in Threads, NEW h, NEW fresh, NEW drain,
           MapsLive(h, fresh), Remap(t, h, fresh, drain)
    PROVE  IInv'
<1> DEFINE life == [b \in Backings |-> IF b \in fresh THEN "live" ELSE bk[b]]
<1>1. /\ TakeLock(t, 1) /\ host' = h /\ phase' = "bump" /\ Unref(Unmapped(h), life)
      /\ members' = members /\ asGen' = asGen /\ UNCHANGED <<table, jitv, loan, local>>
  BY DEF Remap
<1>2. \A p \in Pages, b \in Backings : h[p] = b => life[b] = "live" BY DEF MapsLive
<1>3. LockInv' /\ pc'[t] = "mm" BY <1>1, TakeLockInv
<1>4. \A u \in Threads : Keeps(u) /\ SameJit(u) BY <1>1, TakeLockInv DEF Keeps
<1>5. \A b \in Backings : life[b] # bk[b] => bk[b] = "free" /\ life[b] = "live"
  BY DEF MapsLive
<1>6. \A b \in Unmapped(h) : b \in Backings /\ bk[b] = "live" /\ \A p \in Pages : h[p] # b
  BY DEF Unmapped
<1> HIDE DEF life
<1> QED BY <1>1, <1>2, <1>3, <1>4, <1>5, <1>6, UnrefStep, SMT

LEMMA GrowUnrefInv ==
    ASSUME IInv, TypeOK', NEW t \in Threads, GrowUnref(t)
    PROVE  IInv'
<1>1. /\ pc[t] = "mm" /\ host' = host /\ phase' = "bump" /\ Unref(todo \cap Unmapped(host), bk)
      /\ members' = members /\ asGen' = asGen /\ UNCHANGED <<table, jitv, loan, pc, local>>
  BY DEF GrowUnref
<1>2. TypeOK /\ HostLive /\ LockInv BY DEF IInv
<1>3. LockInv' BY <1>1, <1>2 DEF LockInv
<1>4. \A u \in Threads : Keeps(u) /\ SameJit(u) BY <1>1 DEF Keeps
<1>5. \A p \in Pages, b \in Backings : host[p] = b => bk[b] = "live" BY <1>2 DEF HostLive
<1>6. \A b \in todo \cap Unmapped(host) :
         b \in Backings /\ bk[b] = "live" /\ \A p \in Pages : host[p] # b
  BY DEF Unmapped
<1> QED BY <1>1, <1>3, <1>4, <1>5, <1>6, UnrefStep, SMT

LEMMA NewBackingInv ==
    ASSUME IInv, TypeOK', NEW t \in Threads, NEW h, NEW b, NEW n \in Backings,
           MapsLive(h, {n}), NewBacking(t, h, b, n)
    PROVE  IInv'
<1>1. /\ TakeLock(t, 2) /\ host' = h /\ phase' = "bump" /\ bk[n] = "free"
      /\ bk' = [bk EXCEPT ![n] = "live"] /\ UNCHANGED <<rgen, members, asGen>>
      /\ UNCHANGED <<table, jitv, loan, local>>
  BY DEF NewBacking
<1>2. TypeOK /\ \A u \in Threads : ThreadInv(u) BY DEF IInv
<1>3. \A c \in Backings : bk'[c] = IF c = n THEN "live" ELSE bk[c]
  BY <1>1, <1>2 DEF TypeOK
<1>4. LockInv' BY <1>1, TakeLockInv
<1>5. \A u \in Threads : Keeps(u) /\ SameJit(u) BY <1>1, TakeLockInv DEF Keeps
<1>6. HostLive' BY <1>1, <1>3 DEF HostLive, MapsLive
<1>7. \A c \in Backings : Aged(c) BY <1>1, <1>3, SMT DEF Aged, OutOfUse
<1>8. \A u \in Threads : \A c \in loan'[u] : bk'[c] \in {"live", "orphan"}
  BY <1>1, <1>2, <1>3 DEF TypeOK, ThreadInv, ControlInv
<1>9. \A u \in Threads, c \in Backings : KeepsHeld(u, c)
  BY <1>1, <1>3, SMT DEF KeepsHeld, Held
<1>10. ASSUME NEW u \in Threads, NEW p \in Pages, NEW c \in Backings, <<p, c>> \in dtlb[u]
       PROVE  KeepsEntry(u, p, c)
  <2>1. EntryInv(u, p, c) BY <1>2, <1>10 DEF ThreadInv, DtlbInv
  <2>2. dtlbGen'[u] = dtlbGen[u] /\ (Serviced(u)' => Serviced(u))
    BY <1>1, <1>5 DEF Serviced, Keeps
  <2> QED BY <1>1, <1>3, <2>1, <2>2 DEF KeepsEntry, EntryInv
<1>11. asGen <= asGen' BY <1>1, <1>2, SMT DEF TypeOK
<1> QED BY <1>1, <1>4, <1>5, <1>6, <1>7, <1>8, <1>9, <1>10, <1>11, LockedStep

LEMMA MapChangeInv ==
    ASSUME IInv, TypeOK', NEW t \in Threads, MapChange(t)
    PROVE  IInv'
<1>1. /\ host \in [Pages -> Backings \cup {None}]
      /\ \A p \in Pages, b \in Backings : host[p] = b => bk[b] = "live"
  BY DEF IInv, TypeOK, HostLive
<1>2. CASE MapFresh(t)
  <2>1. PICK R \in SUBSET Pages \ {{}}, b \in Backings :
           /\ bk[b] = "free"
           /\ Remap(t, [p \in Pages |-> IF p \in R THEN b ELSE host[p]], {b}, TRUE)
    BY <1>2 DEF MapFresh
  <2> DEFINE h == [p \in Pages |-> IF p \in R THEN b ELSE host[p]]
  <2>2. MapsLive(h, {b}) BY <1>1, <2>1 DEF MapsLive
  <2> HIDE DEF h
  <2>3. Remap(t, h, {b}, TRUE) BY <2>1 DEF h
  <2> QED BY <2>2, <2>3, RemapInv, Zenon
<1>3. CASE Unmap(t)
  <2>1. PICK R \in SUBSET Pages \ {{}} :
           Remap(t, [p \in Pages |-> IF p \in R THEN None ELSE host[p]], {}, TRUE)
    BY <1>3 DEF Unmap
  <2> DEFINE h == [p \in Pages |-> IF p \in R THEN None ELSE host[p]]
  <2>2. MapsLive(h, {}) BY <1>1, <2>1 DEF MapsLive
  <2> HIDE DEF h
  <2>3. Remap(t, h, {}, TRUE) BY <2>1 DEF h
  <2> QED BY <2>2, <2>3, RemapInv, Zenon
<1>4. CASE RemapMove(t)
  <2>1. PICK p, q \in Pages :
           Remap(t, [host EXCEPT ![q] = host[p], ![p] = None], {}, TRUE)
    BY <1>4 DEF RemapMove
  <2> DEFINE h == [host EXCEPT ![q] = host[p], ![p] = None]
  <2>2. MapsLive(h, {}) BY <1>1, <2>1 DEF MapsLive
  <2> HIDE DEF h
  <2>3. Remap(t, h, {}, TRUE) BY <2>1 DEF h
  <2> QED BY <2>2, <2>3, RemapInv, Zenon
<1>5. CASE RemapCopy(t)
  <2>1. PICK p \in Pages, q \in Pages, b \in Backings, drain \in BOOLEAN :
           bk[b] = "free" /\ Remap(t, [host EXCEPT ![q] = b], {b}, drain)
    BY <1>5 DEF RemapCopy
  <2> DEFINE h == [host EXCEPT ![q] = b]
  <2>2. MapsLive(h, {b}) BY <1>1, <2>1 DEF MapsLive
  <2> HIDE DEF h
  <2>3. Remap(t, h, {b}, drain) BY <2>1 DEF h
  <2> QED BY <2>2, <2>3, RemapInv, Zenon
<1>6. CASE Protect(t)
  <2>1. Remap(t, host, {}, FALSE) BY <1>6 DEF Protect
  <2>2. MapsLive(host, {}) BY <1>1 DEF MapsLive
  <2> QED BY <2>1, <2>2, RemapInv, Zenon
<1>7. CASE GrowInPlace(t)
  <2>1. PICK R \in SUBSET Pages \ {{}}, b \in Backings, n \in Backings :
           NewBacking(t, [p \in Pages |-> IF p \in R THEN n ELSE host[p]], b, n)
    BY <1>7 DEF GrowInPlace
  <2> DEFINE h == [p \in Pages |-> IF p \in R THEN n ELSE host[p]]
  <2>2. MapsLive(h, {n}) BY <1>1, <2>1 DEF MapsLive, NewBacking
  <2> HIDE DEF h
  <2>3. NewBacking(t, h, b, n) BY <2>1 DEF h
  <2> QED BY <2>2, <2>3, NewBackingInv
<1>8. CASE GrowMoved(t)
  <2>1. PICK p \in Pages, q \in Pages, n \in Backings :
           NewBacking(t, [host EXCEPT ![q] = n, ![p] = None], host[p], n)
    BY <1>8 DEF GrowMoved
  <2> DEFINE h == [host EXCEPT ![q] = n, ![p] = None]
  <2>2. MapsLive(h, {n}) BY <1>1, <2>1 DEF MapsLive, NewBacking
  <2> HIDE DEF h
  <2>3. NewBacking(t, h, host[p], n) BY <2>1 DEF h
  <2> QED BY <2>2, <2>3, NewBackingInv
<1> QED BY <1>2, <1>3, <1>4, <1>5, <1>6, <1>7, <1>8 DEF MapChange

\* Under the lock, with the page table and the allocations left alone.
LEMMA QuietStep ==
    ASSUME IInv, TypeOK', LockInv', UNCHANGED <<host, bk, rgen, members, loan>>,
           \A u \in Threads : Keeps(u), asGen <= asGen',
           \A u \in Threads :
               phase' = "scan" /\ reg[u] = "over" => dtlb[u] = {} /\ pc[u] # "use",
           \A u \in Threads, b \in Backings : KeepsHeld(u, b),
           \A u \in Threads, p \in Pages, b \in Backings :
               <<p, b>> \in dtlb[u] => KeepsEntry(u, p, b)
    PROVE  IInv'
<1>1. HostLive' BY DEF IInv, HostLive
<1>2. \A b \in Backings : Aged(b) BY DEF Aged, OutOfUse
<1>3. \A u \in Threads : \A b \in loan'[u] : bk'[b] \in {"live", "orphan"}
  BY DEF IInv, ThreadInv, ControlInv
<1> QED BY <1>1, <1>2, <1>3, LockedStep

\* An entry is as good as before: the generation did not change, and a phase that
\* asks for more was not left.
LEMMA EntryStays ==
    ASSUME IInv, NEW u \in Threads, NEW p \in Pages, NEW b \in Backings,
           <<p, b>> \in dtlb[u], UNCHANGED <<host, bk, asGen>>, Keeps(u), SameJit(u),
           phase \notin {"bump", "notify"}
    PROVE  KeepsEntry(u, p, b)
<1>1. EntryInv(u, p, b) BY DEF IInv, ThreadInv, DtlbInv
<1>2. asGen # 0 BY DEF IInv, TypeOK
<1>3. dtlbGen'[u] = asGen' => dtlbGen[u] = asGen BY <1>2 DEF Keeps
<1>4. Serviced(u)' => Serviced(u) BY DEF Serviced, Keeps
<1> QED BY <1>1, <1>3, <1>4 DEF KeepsEntry, EntryInv

LEMMA BumpInv ==
    ASSUME IInv, TypeOK', NEW t \in Threads, Bump(t)
    PROVE  IInv'
<1>1. /\ pc[t] = "mm" /\ phase = "bump" /\ phase' = "notify" /\ asGen' = asGen + 1
      /\ UNCHANGED <<host, bk, rgen, members, table, jitv, loan, pc, local>>
  BY DEF Bump
<1>2. asGen \in Nat /\ \A u \in Threads : ThreadInv(u) /\ dtlbGen[u] \in Nat
  BY DEF IInv, TypeOK
<1>3. LockInv' BY <1>1 DEF IInv, LockInv
<1>4. \A u \in Threads : Keeps(u) BY <1>1 DEF Keeps
<1>5. \A u \in Threads, b \in Backings : KeepsHeld(u, b)
  BY <1>1 DEF KeepsHeld, Held
<1>6. ASSUME NEW u \in Threads, NEW p \in Pages, NEW b \in Backings, <<p, b>> \in dtlb[u]
      PROVE  KeepsEntry(u, p, b)
  <2>1. EntryInv(u, p, b) /\ dtlbGen[u] <= asGen
    BY <1>2, <1>6 DEF ThreadInv, DtlbInv, ControlInv
  <2>2. dtlbGen'[u] # asGen' BY <1>1, <1>2, <2>1, SMT
  <2>3. Serviced(u)' => Serviced(u) BY <1>1 DEF Serviced
  <2> QED BY <1>1, <2>1, <2>2, <2>3 DEF KeepsEntry, EntryInv
<1>7. asGen <= asGen' BY <1>1, <1>2, SMT
<1> QED BY <1>1, <1>3, <1>4, <1>5, <1>6, <1>7, QuietStep

LEMMA NotifyInv ==
    ASSUME IInv, TypeOK', NEW t \in Threads, Notify(t)
    PROVE  IInv'
<1>1. /\ pc[t] = "mm" /\ phase = "notify" /\ phase' \in {"unref", "gate", "idle"}
      /\ UNCHANGED <<host, bk, rgen, members, asGen, table, loan, ctx, page, loc, ptr, dtlb>>
      /\ interrupt' = [u \in Threads |-> interrupt[u] \/ envOn[u]] /\ envOn' = envOn
      /\ dtlbGen' = [dtlbGen EXCEPT ![t] = 0]
  BY DEF Notify, AfterSync
<1>2. TypeOK /\ LockInv BY DEF IInv
<1>3. \/ pc' = pc /\ phase' # "idle"
      \/ pc' = [pc EXCEPT ![t] = "sys"] /\ phase' = "idle"
  BY DEF Notify, AfterSync
<1>4. LockInv' BY <1>1, <1>2, <1>3, ZenonT(40) DEF LockInv, TypeOK
<1>5. \A u \in Threads : Keeps(u) BY <1>1, <1>2, <1>3 DEF Keeps, TypeOK
<1>6. \A u \in Threads, b \in Backings : KeepsHeld(u, b)
  BY <1>1 DEF KeepsHeld, Held
<1>7. \A u \in Threads : ~Serviced(u)'
  BY <1>1 DEF Serviced
<1>8. ASSUME NEW u \in Threads, NEW p \in Pages, NEW b \in Backings, <<p, b>> \in dtlb[u]
      PROVE  KeepsEntry(u, p, b)
  <2>1. EntryInv(u, p, b) BY <1>8 DEF IInv, ThreadInv, DtlbInv
  <2>2. asGen # 0 BY <1>2 DEF TypeOK
  <2>3. dtlbGen'[u] = asGen' => dtlbGen[u] = asGen BY <1>1, <1>5, <2>2 DEF Keeps
  <2> QED BY <1>1, <1>7, <2>1, <2>3 DEF KeepsEntry, EntryInv
<1>9. asGen <= asGen' BY <1>1, <1>2, SMT DEF TypeOK
<1> QED BY <1>1, <1>4, <1>5, <1>6, <1>8, <1>9, QuietStep

\* With one member left nobody but the holder of the lock runs guest code.
LEMMA GateInv ==
    ASSUME IInv, TypeOK', NEW t \in Threads, Gate(t)
    PROVE  IInv'
<1>1. /\ pc[t] = "mm" /\ phase = "gate"
      /\ UNCHANGED <<host, bk, rgen, members, asGen, table, jitv, loan, pc, local>>
      /\ phase' = IF Alone THEN "free" ELSE "over"
  BY DEF Gate
<1>2. LockInv' BY <1>1 DEF IInv, LockInv
<1>3. \A u \in Threads : Keeps(u) /\ SameJit(u) BY <1>1 DEF Keeps
<1>4. TypeOK /\ \A u \in Threads : ControlInv(u) BY DEF IInv, ThreadInv
<1>5. ASSUME NEW u \in Threads, phase' = "free" PROVE ~Runs(u)
  <2>1. PICK x \in Threads : members = {x} BY <1>1, <1>5 DEF Alone
  <2>2. t \in members BY <1>1, <1>4 DEF ControlInv, InAccess
  <2>3. Runs(u) => u \in members BY <1>4 DEF Runs, InBlock, InAccess, ControlInv
  <2>4. ~Runs(t) BY <1>1 DEF Runs, InBlock, InAccess
  <2> QED BY <2>1, <2>2, <2>3, <2>4
<1>6. \A u \in Threads, b \in Backings : KeepsHeld(u, b)
  BY <1>1, <1>5 DEF KeepsHeld, Held
<1>7. \A u \in Threads, p \in Pages, b \in Backings : <<p, b>> \in dtlb[u] => KeepsEntry(u, p, b)
  BY <1>1, <1>3, EntryStays
<1>8. asGen <= asGen' BY <1>1, <1>4, SMT DEF TypeOK
<1> QED BY <1>1, <1>2, <1>3, <1>6, <1>7, <1>8, QuietStep

LEMMA OverTestInv ==
    ASSUME IInv, TypeOK', NEW t \in Threads, OverTest(t)
    PROVE  IInv'
<1>1. /\ pc[t] = "mm" /\ phase = "over" /\ phase' \in {"free", "scan"}
      /\ UNCHANGED <<host, bk, rgen, members, asGen, table, jitv, loan, pc, local>>
      /\ phase' = "free" => gens' = {0}
      /\ phase' = "scan" => left' = Threads /\ \A u \in Threads : reg[u] # "over"
  BY DEF OverTest
<1>2. LockInv' BY <1>1 DEF IInv, LockInv
<1>3. \A u \in Threads : Keeps(u) /\ SameJit(u) BY <1>1 DEF Keeps
<1>4. TypeOK /\ \A b \in Backings : rgen[b] \in Nat BY DEF IInv, TypeOK
<1>5. ASSUME NEW u \in Threads, NEW b \in Backings PROVE KeepsHeld(u, b)
  <2>1. phase' = "free" => \E g \in gens' : g <= rgen[b] BY <1>1, <1>4, SMT
  <2> QED BY <1>1, <2>1 DEF KeepsHeld, Held
<1>6. \A u \in Threads, p \in Pages, b \in Backings : <<p, b>> \in dtlb[u] => KeepsEntry(u, p, b)
  BY <1>1, <1>3, EntryStays, ZenonT(40)
<1>7. asGen <= asGen' BY <1>1, <1>4, SMT DEF TypeOK
<1> QED BY <1>1, <1>2, <1>3, <1>5, <1>6, <1>7, QuietStep

\* The slot of u is read: if u holds retired backing, its epoch joins gens.
LEMMA ScanSlotInv ==
    ASSUME IInv, TypeOK', NEW t \in Threads, NEW v \in Threads, ScanSlot(t, v)
    PROVE  IInv'
<1>1. /\ pc[t] = "mm" /\ phase = "scan" /\ phase' \in {"free", "scan"}
      /\ UNCHANGED <<host, bk, rgen, members, asGen, table, jitv, loan, pc, local>>
      /\ left' = left \ {v}
      /\ phase' = "free" => left' = {}
      /\ gens \subseteq gens'
      /\ reg[v] = "slot" /\ ~blocked[v] => pubGen[v] \in gens'
  BY DEF ScanSlot
<1>2. LockInv' BY <1>1 DEF IInv, LockInv
<1>3. \A u \in Threads : Keeps(u) /\ SameJit(u) BY <1>1 DEF Keeps
<1>4. TypeOK /\ \A u \in Threads : ControlInv(u) BY DEF IInv, ThreadInv
<1>5. ASSUME NEW u \in Threads, NEW b \in Backings, Runs(u), dtlb[u] # {} \/ pc[u] = "use",
             OutOfUse(b) /\ reg[u] = "slot" => pubGen[u] <= rgen[b],
             Held(u, b), bk[b] = "retired", u \notin left'
      PROVE  \E g \in gens' : g <= rgen[b]
  <2>1. CASE u \notin left
    BY <1>1, <1>5, <2>1 DEF Held
  <2>2. CASE u = v
    <3>1. ~blocked[u] BY <1>4, <1>5 DEF ControlInv, Runs, InBlock, InAccess
    <3>2. reg[u] # "over" BY <1>1, <1>4, <1>5 DEF ControlInv
    <3>3. ~Left(u) BY <1>5 DEF Left, Runs, InBlock, InAccess
    <3>4. reg[u] # "none" BY <1>4, <1>5, <3>3 DEF ControlInv
    <3>5. reg[u] = "slot" BY <1>4, <3>2, <3>4 DEF TypeOK
    <3> QED BY <1>1, <1>5, <2>2, <3>1, <3>5 DEF OutOfUse
  <2> QED BY <1>1, <1>5, <2>1, <2>2
<1>6. ASSUME NEW u \in Threads, NEW b \in Backings PROVE KeepsHeld(u, b)
  <2>1. phase' = "free" => u \notin left' BY <1>1
  <2> QED BY <1>1, <1>5, <2>1 DEF KeepsHeld, Held
<1>7. \A u \in Threads, p \in Pages, b \in Backings : <<p, b>> \in dtlb[u] => KeepsEntry(u, p, b)
  BY <1>1, <1>3, EntryStays, ZenonT(40)
<1>8. asGen <= asGen' BY <1>1, <1>4, SMT DEF TypeOK
<1>9. \A u \in Threads : phase' = "scan" /\ reg[u] = "over" => dtlb[u] = {} /\ pc[u] # "use"
  BY <1>1, <1>4 DEF ControlInv
<1> QED BY <1>1, <1>2, <1>3, <1>6, <1>7, <1>8, <1>9, QuietStep

\* What is released is neither mapped, nor lent, nor held.
LEMMA ReleaseInv ==
    ASSUME IInv, TypeOK', NEW t \in Threads, Release(t)
    PROVE  IInv'
<1>1. /\ pc[t] = "mm" /\ phase = "free" /\ phase' = "idle"
      /\ pc' = [pc EXCEPT ![t] = "sys"]
      /\ UNCHANGED <<host, rgen, members, asGen, table, jitv, loan, local>>
      /\ \A b \in Backings : bk'[b] = IF Releasable(b) THEN "gone" ELSE bk[b]
  BY DEF Release
<1>2. TypeOK /\ LockInv /\ HostLive /\ \A u \in Threads : ThreadInv(u) BY DEF IInv
<1>3. \A b \in Backings : bk'[b] # bk[b] => bk[b] = "retired" /\ bk'[b] = "gone"
  BY <1>1 DEF Releasable
<1>4. LockInv' BY <1>1, <1>2, ZenonT(40) DEF LockInv, TypeOK
<1>5. \A u \in Threads : Keeps(u) /\ SameJit(u) BY <1>1, <1>2, SMT DEF Keeps, TypeOK
<1>6. HostLive' BY <1>1, <1>2, <1>3 DEF HostLive
<1>7. \A b \in Backings : Aged(b) BY <1>1, <1>3 DEF Aged, OutOfUse
<1>8. \A u \in Threads : \A b \in loan'[u] : bk'[b] \in {"live", "orphan"}
  BY <1>1, <1>2, <1>3 DEF TypeOK, ThreadInv, ControlInv
<1>9. ASSUME NEW u \in Threads, NEW b \in Backings, Held(u, b) PROVE Held(u, b)'
  <2>1. ~Releasable(b)
    <3>1. gens \in SUBSET Nat /\ rgen[b] \in Nat BY <1>2 DEF TypeOK
    <3>2. phase = "free" BY <1>1
    <3> QED BY <1>9, <3>1, <3>2, SMT DEF Held, Releasable
  <2> QED BY <1>1, <1>9, <2>1 DEF Held
<1>10. ASSUME NEW u \in Threads, NEW p \in Pages, NEW b \in Backings, <<p, b>> \in dtlb[u]
       PROVE  KeepsEntry(u, p, b)
  <2>1. EntryInv(u, p, b) BY <1>2, <1>10 DEF ThreadInv, DtlbInv
  <2>2. dtlbGen'[u] = asGen' => dtlbGen[u] = asGen BY <1>1
  <2>3. Serviced(u)' => Serviced(u) BY <1>5 DEF Serviced, Keeps
  <2>4. host[p] = b => bk'[b] = "live" BY <1>2, <1>3 DEF HostLive
  <2> QED BY <1>1, <2>1, <2>2, <2>3, <2>4 DEF KeepsEntry, EntryInv
<1>11. asGen <= asGen' BY <1>1, <1>2, SMT DEF TypeOK
<1>12. \A u \in Threads, b \in Backings : KeepsHeld(u, b) BY <1>9 DEF KeepsHeld
<1> QED BY <1>1, <1>4, <1>5, <1>6, <1>7, <1>8, <1>10, <1>11, <1>12, LockedStep

LEMMA UnlendInv ==
    ASSUME IInv, TypeOK', NEW t \in Threads, Unlend(t)
    PROVE  IInv'
<1> DEFINE U == {b \in loan[t] : /\ bk[b] = "orphan"
                                 /\ \A u \in Threads \ {t} : b \notin loan[u]}
<1>1. /\ pc[t] = "sys" /\ phase = "idle" /\ phase' \in {"idle", "gate"}
      /\ loan' = [loan EXCEPT ![t] = {}]
      /\ UNCHANGED <<host, members, asGen, table, jitv, local>>
      /\ \A b \in Backings : bk'[b] = IF b \in U THEN "retired" ELSE bk[b]
      /\ \A b \in Backings : rgen'[b] = IF b \in U THEN asGen ELSE rgen[b]
  BY DEF Unlend
<1>2. TypeOK /\ LockInv /\ HostLive /\ \A u \in Threads : ThreadInv(u) BY DEF IInv
<1>3. \/ pc' = pc /\ phase' = "idle"
      \/ pc' = [pc EXCEPT ![t] = "mm"] /\ phase' = "gate"
  BY <1>1 DEF Unlend
<1>4. LockInv' BY <1>1, <1>2, <1>3, SMTT(30) DEF LockInv, TypeOK
<1>5. \A u \in Threads : Keeps(u) /\ SameJit(u) BY <1>1, <1>2, <1>3, SMT DEF Keeps, TypeOK
<1>6. \A b \in U : bk[b] = "orphan" /\ \A u \in Threads \ {t} : b \notin loan[u] OBVIOUS
<1>7. loan'[t] = {} /\ \A u \in Threads \ {t} : loan'[u] = loan[u] BY <1>1, <1>2 DEF TypeOK
<1> HIDE DEF U
<1>8. HostLive' BY <1>1, <1>2, <1>6 DEF HostLive
<1>9. \A b \in Backings : Aged(b) BY <1>1, <1>6 DEF Aged, OutOfUse
<1>10. \A u \in Threads : \A b \in loan'[u] : bk'[b] \in {"live", "orphan"}
  BY <1>1, <1>2, <1>6, <1>7, ZenonT(40) DEF TypeOK, ThreadInv, ControlInv
<1>11. \A u \in Threads, b \in Backings : KeepsHeld(u, b)
  BY <1>1 DEF KeepsHeld, Held
<1>12. ASSUME NEW u \in Threads, NEW p \in Pages, NEW b \in Backings, <<p, b>> \in dtlb[u]
       PROVE  KeepsEntry(u, p, b)
  <2>1. EntryInv(u, p, b) BY <1>2, <1>12 DEF ThreadInv, DtlbInv
  <2>2. dtlbGen'[u] = asGen' => dtlbGen[u] = asGen BY <1>1
  <2>3. Serviced(u)' => Serviced(u) BY <1>5 DEF Serviced, Keeps
  <2> QED BY <1>1, <2>1, <2>2, <2>3 DEF KeepsEntry, EntryInv
<1>13. asGen <= asGen' BY <1>1, <1>2, SMT DEF TypeOK
<1> QED BY <1>1, <1>4, <1>5, <1>8, <1>9, <1>10, <1>11, <1>12, <1>13, LockedStep

-----------------------------------------------------------------------------
(* Steps that change the member count *)

LEMMA CountInv ==
    ASSUME IInv, TypeOK', LockInv', UNCHANGED <<host, bk, rgen, phase, left, gens, asGen>>,
           UNCHANGED <<table, jitv, loan, local>>,
           \A u \in Threads :
               \/ u \in members' \/ InAccess(u, "tail")'
               \/ pc'[u] \in {"unborn", "tail", "dead"},
           \A u \in Threads :
               \/ pc'[u] = pc[u]
               \/ pc[u] \in {"sys", "clone"} /\ pc'[u] \in {"sys", "clone"}
               \/ pc[u] = "unborn" /\ pc'[u] = "run"
               \/ pc[u] = "leave" /\ pc'[u] = "tail",
           \A u \in Threads : pc'[u] = "tail" => ~blocked[u]
    PROVE  IInv'
<1>1. ASSUME NEW u \in Threads PROVE ThreadInv(u)'
  <2>1. ControlInv(u) /\ HandInv(u) /\ DtlbInv(u) BY DEF IInv, ThreadInv
  <2>2. ControlInv(u)' BY <2>1 DEF ControlInv, InAccess, Left
  <2>3. HandInv(u)' BY <2>1 DEF HandInv, OutOfUse, Held
  <2>4. DtlbInv(u)'
    <3> SUFFICES ASSUME NEW p \in Pages, NEW b \in Backings, <<p, b>> \in dtlb[u]
                 PROVE  EntryInv(u, p, b)'
      BY DEF DtlbInv
    <3>1. EntryInv(u, p, b) BY <2>1 DEF DtlbInv
    <3> QED BY <3>1 DEF EntryInv, OutOfUse, Serviced, InBlock, InAccess, Held
  <2> QED BY <2>2, <2>3, <2>4 DEF ThreadInv
<1>2. HostLive' BY DEF IInv, HostLive
<1> QED BY <1>1, <1>2 DEF IInv

LEMMA CloneInv ==
    ASSUME IInv, TypeOK', NEW t \in Threads, NEW v \in Threads,
           CloneEnter(t, v) \/ CloneStart(t, v) \/ CloneUndo(t, v)
    PROVE  IInv'
<1>1. TypeOK /\ LockInv /\ \A u \in Threads : ControlInv(u) BY ZenonT(40) DEF IInv, ThreadInv
<1>2. CASE CloneEnter(t, v)
  <2>1. LockInv' BY <1>1, <1>2 DEF LockInv, TypeOK, CloneEnter
  <2>2. \A u \in Threads : pc'[u] = IF u = t THEN "clone" ELSE pc[u]
    BY <1>1, <1>2 DEF TypeOK, CloneEnter
  <2> QED BY <1>1, <1>2, <2>1, <2>2, CountInv, SMT DEF ControlInv, InAccess, CloneEnter
<1>3. CASE CloneStart(t, v)
  <2>1. /\ pc[t] = "clone" /\ pc[v] = "unborn" /\ v \in members
        /\ pc' = [pc EXCEPT ![t] = "sys", ![v] = "run"]
        /\ UNCHANGED <<shared, table, jitv, loan, local>>
    BY <1>3 DEF CloneStart
  <2>2. /\ \A u \in Threads : u # v /\ u # t => pc'[u] = pc[u]
        /\ pc'[v] = "run" /\ pc'[t] = "sys"
    BY <1>1, <2>1 DEF TypeOK
  <2>3. LockInv' BY <1>1, <2>1, <2>2 DEF LockInv
  <2>4. \A u \in Threads :
          /\ \/ u \in members' \/ InAccess(u, "tail")'
             \/ pc'[u] \in {"unborn", "tail", "dead"}
          /\ pc'[u] = "tail" => ~blocked[u]
    BY <1>1, <2>1, <2>2, ZenonT(40) DEF ControlInv, InAccess
  <2> QED BY <2>1, <2>2, <2>3, <2>4, CountInv
<1>4. CASE CloneUndo(t, v)
  <2>1. LockInv' BY <1>1, <1>4, ZenonT(40) DEF LockInv, TypeOK, CloneUndo
  <2>2. \A u \in Threads : pc'[u] = IF u = t THEN "sys" ELSE pc[u]
    BY <1>1, <1>4 DEF TypeOK, CloneUndo
  <2> QED BY <1>1, <1>4, <2>1, <2>2, CountInv, SMT DEF ControlInv, InAccess, CloneUndo
<1> QED BY <1>2, <1>3, <1>4

LEMMA LeaveCountInv ==
    ASSUME IInv, TypeOK', NEW t \in Threads, LeaveCount(t)
    PROVE  IInv'
<1>1. TypeOK /\ LockInv /\ \A u \in Threads : ControlInv(u) BY DEF IInv, ThreadInv
<1>2. LockInv' BY <1>1 DEF LockInv, TypeOK, LeaveCount
<1>3. \A u \in Threads : pc'[u] = IF u = t THEN "tail" ELSE pc[u]
  BY <1>1 DEF TypeOK, LeaveCount
<1> QED BY <1>1, <1>2, <1>3, CountInv, SMT DEF ControlInv, InAccess, LeaveCount

-----------------------------------------------------------------------------
(* The theorems *)

LEMMA InitInv == Init => IInv
<1> SUFFICES ASSUME Init PROVE IInv OBVIOUS
<1>1. TypeOK BY InitType
<1>2. LockInv BY DEF Init, LockInv
<1>3. HostLive BY ImageAssumption DEF Init, HostLive
<1>4. ASSUME NEW t \in Threads PROVE ThreadInv(t)
  <2>1. ControlInv(t) BY MainAssumption, SMT DEF Init, ControlInv, InAccess, Left
  <2>2. HandInv(t) BY DEF Init, HandInv
  <2>3. DtlbInv(t) BY DEF Init, DtlbInv
  <2> QED BY <2>1, <2>2, <2>3 DEF ThreadInv
<1> QED BY <1>1, <1>2, <1>3, <1>4 DEF IInv

LEMMA NextInv == IInv /\ [Next]_vars => IInv'
<1> SUFFICES ASSUME IInv, [Next]_vars PROVE IInv' OBVIOUS
<1>1. ASSUME NEW t \in Threads, Step(t) PROVE IInv'
  <2>1. TypeOK' BY <1>1, StepType DEF IInv, ThreadInv
  <2>2. CASE Access(t)
    BY <2>1, <2>2, TranslateSyncInv, TranslateMissInv, TranslateHitInv,
       TranslatePublishInv, TranslateWalkInv, UseInv DEF Access
  <2>3. CASE JitStep(t)
    BY <2>1, <2>3, JitInitInv, JitEnterInv, JitLeaveInv, JitServiceInv, DtlbResetInv,
       QuiesceInv, JitProbeInv DEF JitStep
  <2>4. CASE BlockBegin(t) \/ BlockEnd(t)
    BY <2>1, <2>4, BlockBeginInv, BlockEndInv
  <2>5. CASE MapChange(t) BY <2>1, <2>5, MapChangeInv
  <2>6. CASE LockHeld(t)
    BY <2>1, <2>6, BumpInv, NotifyInv, GrowUnrefInv, GateInv, OverTestInv, ReleaseInv,
       ScanSlotInv DEF LockHeld
  <2>7. CASE Lending(t) BY <2>1, <2>7, UnlendInv, LendInv DEF Lending
  <2>8. CASE Lifecycle(t)
    BY <2>1, <2>8, CloneInv, ThreadExitInv, LeaderExitInv, UnpublishInv, LeaveCountInv,
       ThreadGoneInv DEF Lifecycle
  <2> QED BY <1>1, <2>2, <2>3, <2>4, <2>5, <2>6, <2>7, <2>8 DEF Step
<1>2. CASE UNCHANGED vars
  <2>1. TypeOK' BY <1>2 DEF IInv, TypeOK, vars
  <2>2. LockInv' /\ HostLive' BY <1>2 DEF IInv, LockInv, HostLive, vars
  <2>3. \A u \in Threads : ThreadInv(u)' BY <1>2, Frame DEF IInv, Same, vars
  <2> QED BY <2>1, <2>2, <2>3 DEF IInv
<1> QED BY <1>1, <1>2 DEF Next

\* Every reachable state satisfies the inductive invariant.
THEOREM Invariance == Spec => []IInv
BY InitInv, NextInv, PTL DEF Spec

\* The variables of the quarantine keep their types.
THEOREM TypeCorrect == Spec => []TypeOK
<1>1. IInv => TypeOK BY DEF IInv
<1> QED BY <1>1, Invariance, PTL

\* No guest access, by the interpreter or by generated code, goes through backing
\* that as_drain_retired has unmapped -- for any number of threads, pages and slots.
THEOREM AccessSafety == Spec => []GuestAccessSafe
<1>1. IInv => GuestAccessSafe
  BY DEF IInv, ThreadInv, HandInv, Held, GuestAccessSafe
<1> QED BY <1>1, Invariance, PTL

\* Backing that guest_lend has pinned is neither retired nor unmapped before
\* guest_unlend.
THEOREM LoanSafety == Spec => []LoanSafe
<1>1. IInv => LoanSafe BY DEF IInv, ThreadInv, ControlInv, LoanSafe
<1> QED BY <1>1, Invariance, PTL

\* A D-TLB of the current generation agrees with the page table, so translate()
\* may answer a hit without the lock.
THEOREM DtlbCoherence == Spec => []DtlbCoherent
<1>1. IInv => DtlbCoherent
  BY DEF IInv, ThreadInv, DtlbInv, EntryInv, DtlbCoherent
<1> QED BY <1>1, Invariance, PTL

===============================================================================
