--------------------------- MODULE QuarantineTypes ---------------------------
(* Every step of Quarantine preserves TypeOK. *)
EXTENDS QuarantineInv, TLAPS

USE NoneAssumption, MainAssumption, ImageAssumption

LEMMA InitType == Init => TypeOK
<1> SUFFICES ASSUME Init PROVE TypeOK OBVIOUS
<1>1. bk \in [Backings -> Lives] BY DEF Init, Lives
<1>2. pc \in [Threads -> {"unborn", "run"}] BY DEF Init
<1>3. host \in [Pages -> Backings \cup {None}] BY DEF Init
<1>4. ctx \in [Threads -> Points] /\ page \in [Threads -> Pages \cup {None}] BY DEF Init, Points
<1>5. /\ rgen \in [Backings -> Nat] /\ pubGen \in [Threads -> Nat]
      /\ loc \in [Threads -> Nat] /\ dtlbGen \in [Threads -> Nat]
  BY DEF Init
<1>6. /\ ptr \in [Threads -> Backings \cup {None}] /\ loan \in [Threads -> SUBSET Backings]
      /\ dtlb \in [Threads -> SUBSET (Pages \X Backings)]
  BY DEF Init
<1>7. /\ reg \in [Threads -> {"none", "slot", "over"}] /\ blocked \in [Threads -> BOOLEAN]
      /\ interrupt \in [Threads -> BOOLEAN] /\ envOn \in [Threads -> BOOLEAN]
  BY DEF Init
<1>8. members \in SUBSET Threads BY DEF Init
<1>9. asGen \in Nat \ {0} BY DEF Init
<1> QED BY <1>1, <1>2, <1>3, <1>4, <1>5, <1>6, <1>7, <1>8, <1>9 DEF Init, TypeOK, Places

LEMMA AccessType ==
    ASSUME TypeOK, NEW t \in Threads, ControlInv(t), Access(t)
    PROVE  TypeOK'
<1>1. ASSUME NEW p \in Pages, TranslateSync(t, p) PROVE TypeOK'
  BY <1>1 DEF TypeOK, Places, TranslateSync, MayAccess, AccessBegin, Points, shared, table, jitv
<1>6. ASSUME NEW p \in Pages, TranslateMiss(t, p) PROVE TypeOK'
  BY <1>6 DEF TypeOK, Places, TranslateMiss, MayAccess, AccessBegin, Points, shared, table, jitv
<1>2. ASSUME NEW p \in Pages, NEW b \in Backings, TranslateHit(t, p, b) PROVE TypeOK'
  BY <1>2 DEF TypeOK, Places, TranslateHit, MayAccess, AccessBegin, Points, shared, table, jitv
<1>3. CASE TranslatePublish(t)
  BY <1>3 DEF TypeOK, Places, TranslatePublish, Publish, ClaimResults, Points, shared, jitv
<1>4. CASE TranslateWalk(t)
  BY <1>4, SMTT(30) DEF TypeOK, Places, ControlInv, TranslateWalk, AccessEnd, Points, shared, table, jitv
<1>5. CASE Use(t)
  BY <1>5 DEF TypeOK, Places, Use, AccessEnd, Points, shared, table, jitv
<1> QED BY <1>1, <1>2, <1>3, <1>4, <1>5, <1>6 DEF Access

LEMMA JitType ==
    ASSUME TypeOK, NEW t \in Threads, JitStep(t)
    PROVE  TypeOK'
<1>1. CASE JitInit(t)
  BY <1>1 DEF TypeOK, Places, JitInit, shared, table, local
<1>2. CASE JitEnter(t)
  BY <1>2 DEF TypeOK, Places, JitEnter, shared, table, jitv, local
<1>3. CASE JitLeave(t)
  BY <1>3 DEF TypeOK, Places, JitLeave, shared, table, jitv, local
<1>4. CASE JitService(t)
  BY <1>4 DEF TypeOK, Places, JitService, shared, table, local
<1>5. CASE DtlbReset(t)
  BY <1>5 DEF TypeOK, Places, DtlbReset, AccessEnd, Points, shared, table, jitv
<1>6. CASE Quiesce(t)
  BY <1>6 DEF TypeOK, Places, Quiesce, shared, table, jitv, local
<1>7. ASSUME NEW p \in Pages, NEW b \in Backings, JitProbe(t, p, b) PROVE TypeOK'
  BY <1>7 DEF TypeOK, Places, JitProbe, AccessBegin, Points, shared, table, jitv
<1> QED BY <1>1, <1>2, <1>3, <1>4, <1>5, <1>6, <1>7 DEF JitStep

LEMMA BracketType ==
    ASSUME TypeOK, NEW t \in Threads, BlockBegin(t) \/ BlockEnd(t)
    PROVE  TypeOK'
<1>1. CASE BlockBegin(t)
  BY <1>1 DEF TypeOK, Places, BlockBegin, Publish, ClaimResults, shared, jitv, local
<1>2. CASE BlockEnd(t)
  BY <1>2 DEF TypeOK, Places, BlockEnd, shared, jitv, local
<1> QED BY <1>1, <1>2

LEMMA UnrefType ==
    ASSUME TypeOK, NEW U, NEW life \in [Backings -> Lives], Unref(U, life)
    PROVE  bk' \in [Backings -> Lives] /\ rgen' \in [Backings -> Nat]
BY DEF TypeOK, Places, Unref, Lives

LEMMA RemapType ==
    ASSUME TypeOK, NEW t \in Threads, NEW h \in [Pages -> Backings \cup {None}],
           NEW fresh, NEW drain \in BOOLEAN, Remap(t, h, fresh, drain)
    PROVE  TypeOK'
<1> DEFINE life == [b \in Backings |-> IF b \in fresh THEN "live" ELSE bk[b]]
<1>1. life \in [Backings -> Lives] BY DEF TypeOK, Places, Lives
<1>2. Unref(Unmapped(h), life) BY DEF Remap
<1>3. bk' \in [Backings -> Lives] /\ rgen' \in [Backings -> Nat]
  BY <1>1, <1>2, UnrefType
<1> HIDE DEF life
<1> QED BY <1>3 DEF TypeOK, Places, Remap, TakeLock, table, jitv, local

LEMMA NewBackingType ==
    ASSUME TypeOK, NEW t \in Threads, NEW h \in [Pages -> Backings \cup {None}],
           NEW b \in Backings, NEW n \in Backings, NewBacking(t, h, b, n)
    PROVE  TypeOK'
BY DEF TypeOK, Places, NewBacking, TakeLock, Lives, table, jitv, local

LEMMA MapChangeType ==
    ASSUME TypeOK, NEW t \in Threads, MapChange(t)
    PROVE  TypeOK'
<1> host \in [Pages -> Backings \cup {None}] BY DEF TypeOK
<1>1. CASE MapFresh(t) BY <1>1, RemapType DEF MapFresh
<1>2. CASE Unmap(t) BY <1>2, RemapType DEF Unmap
<1>3. CASE RemapMove(t) BY <1>3, RemapType DEF RemapMove
<1>4. CASE RemapCopy(t)
  <2>1. PICK p \in Pages, q \in Pages, b \in Backings, drain \in BOOLEAN :
            Remap(t, [host EXCEPT ![q] = b], {b}, drain)
    BY <1>4, ZenonT(40) DEF RemapCopy
  <2> QED BY <2>1, RemapType, ZenonT(40)
<1>5. CASE Protect(t) BY <1>5, RemapType DEF Protect
<1>6. CASE GrowInPlace(t) BY <1>6, NewBackingType DEF GrowInPlace
<1>7. CASE GrowMoved(t) BY <1>7, NewBackingType DEF GrowMoved
<1> QED BY <1>1, <1>2, <1>3, <1>4, <1>5, <1>6, <1>7 DEF MapChange

LEMMA LockHeldType ==
    ASSUME TypeOK, NEW t \in Threads, LockHeld(t)
    PROVE  TypeOK'
<1>1. CASE Bump(t) BY <1>1 DEF TypeOK, Places, Bump, table, jitv, local
<1>2. CASE Notify(t)
  <2>1. interrupt' \in [Threads -> BOOLEAN] BY <1>2 DEF TypeOK, Places, Notify
  <2> QED BY <1>2, <2>1 DEF TypeOK, Places, Notify, AfterSync, table
<1>3. CASE GrowUnref(t)
  <2>1. bk' \in [Backings -> Lives] /\ rgen' \in [Backings -> Nat]
    BY <1>3, UnrefType DEF GrowUnref, TypeOK
  <2> QED BY <1>3, <2>1 DEF TypeOK, Places, GrowUnref, table, jitv, local
<1>4. CASE Gate(t) BY <1>4 DEF TypeOK, Places, Gate, table, jitv, local
<1>5. CASE OverTest(t) BY <1>5 DEF TypeOK, Places, OverTest, table, jitv, local
<1>6. CASE Release(t) BY <1>6 DEF TypeOK, Places, Release, Lives, table, jitv, local
<1>7. ASSUME NEW u \in Threads, ScanSlot(t, u) PROVE TypeOK'
  <2>1. gens' = gens \/ gens' = gens \cup {pubGen[u]} BY <1>7 DEF ScanSlot
  <2>2. gens \in SUBSET Nat /\ pubGen[u] \in Nat BY DEF TypeOK
  <2>4. gens' \in SUBSET Nat BY <2>1, <2>2
  <2>3. left' \in SUBSET Threads /\ phase' \in {"free", "scan"} BY <1>7 DEF TypeOK, Places, ScanSlot
  <2> QED BY <1>7, <2>3, <2>4, SMTT(30) DEF TypeOK, Places, ScanSlot, table, jitv, local
<1> QED BY <1>1, <1>2, <1>3, <1>4, <1>5, <1>6, <1>7 DEF LockHeld

LEMMA LendingType ==
    ASSUME TypeOK, NEW t \in Threads, Lending(t)
    PROVE  TypeOK'
<1>1. CASE Unlend(t)
  <2>1. bk' \in [Backings -> Lives] /\ rgen' \in [Backings -> Nat]
    BY <1>1 DEF Unlend, TypeOK, Lives
  <2> QED BY <1>1, <2>1 DEF TypeOK, Places, Unlend, table, jitv, local
<1>2. ASSUME NEW p \in Pages, NEW b \in Backings, Lend(t, p, b) PROVE TypeOK'
  BY <1>2, SMTT(30) DEF TypeOK, Places, Lend, Publish, ClaimResults, shared, jitv
<1> QED BY <1>1, <1>2 DEF Lending

LEMMA LifecycleType ==
    ASSUME TypeOK, NEW t \in Threads, Lifecycle(t)
    PROVE  TypeOK'
<1>1. ASSUME NEW u \in Threads, CloneEnter(t, u) PROVE TypeOK'
  BY <1>1 DEF TypeOK, Places, CloneEnter, table, jitv, local
<1>2. ASSUME NEW u \in Threads, CloneStart(t, u) PROVE TypeOK'
  BY <1>2 DEF TypeOK, Places, CloneStart, shared, table, jitv, local
<1>3. ASSUME NEW u \in Threads, CloneUndo(t, u) PROVE TypeOK'
  BY <1>3 DEF TypeOK, Places, CloneUndo, table, jitv, local
<1>4. CASE ThreadExit(t) BY <1>4 DEF TypeOK, Places, ThreadExit, shared, table, local
<1>5. CASE LeaderExit(t) BY <1>5 DEF TypeOK, Places, LeaderExit, shared, table, jitv, local
<1>6. CASE Unpublish(t) BY <1>6 DEF TypeOK, Places, Unpublish, shared, jitv, local
<1>7. CASE LeaveCount(t) BY <1>7 DEF TypeOK, Places, LeaveCount, table, jitv, local
<1>8. CASE ThreadGone(t) BY <1>8 DEF TypeOK, Places, ThreadGone, shared, table, jitv
<1> QED BY <1>1, <1>2, <1>3, <1>4, <1>5, <1>6, <1>7, <1>8 DEF Lifecycle

LEMMA StepType ==
    ASSUME TypeOK, NEW t \in Threads, ControlInv(t), Step(t)
    PROVE  TypeOK'
BY AccessType, JitType, BracketType, MapChangeType, LockHeldType, LendingType,
   LifecycleType DEF Step

===============================================================================
