--------------------------- MODULE QuarantineLocal ---------------------------
(***************************************************************************)
(* The steps of Quarantine that touch nothing but the state of the thread  *)
(* that takes them preserve the inductive invariant.  The other threads    *)
(* keep their part because all of their state is left alone (Frame), so    *)
(* each lemma below is about the stepping thread.                          *)
(***************************************************************************)
EXTENDS QuarantineInv, TLAPS

USE NoneAssumption, Zenon

\* What u owns, by variable group; Same(u): a step leaves all of it alone.
SameTable(u) == reg'[u] = reg[u] /\ blocked'[u] = blocked[u] /\ pubGen'[u] = pubGen[u]
SameJit(u) == interrupt'[u] = interrupt[u] /\ envOn'[u] = envOn[u]
SameDtlb(u) == dtlb'[u] = dtlb[u] /\ dtlbGen'[u] = dtlbGen[u]
SameAccess(u) == ctx'[u] = ctx[u] /\ page'[u] = page[u]
SameHand(u) == loc'[u] = loc[u] /\ ptr'[u] = ptr[u]

Same(u) ==
    /\ SameTable(u) /\ SameJit(u) /\ SameDtlb(u) /\ SameAccess(u) /\ SameHand(u)
    /\ loan'[u] = loan[u] /\ pc'[u] = pc[u]

USE DEF shared, table, jitv, local, SameTable, SameJit, SameDtlb, SameAccess, SameHand

LEMMA Frame ==
    ASSUME NEW u \in Threads, ThreadInv(u), UNCHANGED shared, Same(u)
    PROVE  ThreadInv(u)'
<1>1. ControlInv(u)'
  BY DEF ThreadInv, ControlInv, Same, InAccess, Left
<1>2. HandInv(u)'
  BY DEF ThreadInv, HandInv, Same, OutOfUse, Held
<1>3. DtlbInv(u)'
  <2> SUFFICES ASSUME NEW p \in Pages, NEW b \in Backings, <<p, b>> \in dtlb[u]
               PROVE  EntryInv(u, p, b)'
    BY DEF DtlbInv, Same
  <2>1. EntryInv(u, p, b) BY DEF ThreadInv, DtlbInv
  <2> QED BY <2>1 DEF EntryInv, Same, OutOfUse, Serviced, InBlock, InAccess, Held
<1> QED BY <1>1, <1>2, <1>3 DEF ThreadInv

\* A step that leaves the shared state alone and keeps its own thread's part
\* keeps the invariant.
LEMMA PrivateInv ==
    ASSUME IInv, TypeOK', NEW t \in Threads, UNCHANGED shared,
           pc[t] # "mm", pc'[t] # "mm",
           \A u \in Threads \ {t} : Same(u), ThreadInv(t)'
    PROVE  IInv'
<1>1. \A u \in Threads : ThreadInv(u)' BY Frame DEF IInv
<1>2. LockInv' BY ZenonT(40) DEF IInv, LockInv, Same
<1>3. HostLive' BY DEF IInv, HostLive
<1> QED BY <1>1, <1>2, <1>3 DEF IInv

LEMMA TranslateSyncInv ==
    ASSUME IInv, TypeOK', NEW t \in Threads, NEW p \in Pages, TranslateSync(t, p)
    PROVE  IInv'
<1>1. TypeOK /\ ThreadInv(t) BY DEF IInv
<1>2. UNCHANGED shared /\ \A u \in Threads \ {t} : Same(u)
  BY <1>1, ZenonT(40) DEF TypeOK, Same, TranslateSync, MayAccess, AccessBegin
<1>3. /\ pc[t] \in {"run", "cold", "blk", "sys", "tail"} /\ pc'[t] = "publish"
      /\ ctx'[t] = IF pc[t] = "cold" THEN "run" ELSE pc[t]
      /\ dtlb'[t] = {} /\ dtlbGen'[t] = dtlbGen[t] /\ loc'[t] = asGen
      /\ asGen \in Nat /\ SameTable(t) /\ loan'[t] = loan[t]
  BY <1>1 DEF TypeOK, TranslateSync, MayAccess, AccessBegin
<1>4. ControlInv(t)'
  BY <1>1, <1>2, <1>3, SMT DEF ThreadInv, ControlInv, InAccess, Left
<1>5. HandInv(t)'
  BY <1>3 DEF HandInv
<1>6. DtlbInv(t)' BY <1>3 DEF DtlbInv
<1> QED BY <1>2, <1>3, <1>4, <1>5, <1>6, PrivateInv DEF ThreadInv

LEMMA TranslateMissInv ==
    ASSUME IInv, TypeOK', NEW t \in Threads, NEW p \in Pages, TranslateMiss(t, p)
    PROVE  IInv'
<1>1. TypeOK /\ ThreadInv(t) BY DEF IInv
<1>2. UNCHANGED shared /\ \A u \in Threads \ {t} : Same(u)
  BY <1>1 DEF TypeOK, Same, TranslateMiss, MayAccess, AccessBegin
<1>3. /\ pc[t] \in {"run", "cold", "blk", "sys", "tail"} /\ pc'[t] = "walk"
      /\ ctx'[t] = IF pc[t] = "cold" THEN "run" ELSE pc[t]
      /\ page'[t] = p /\ asGen = dtlbGen[t] /\ asGen # 0 /\ SameTable(t)
      /\ SameJit(t) /\ SameDtlb(t) /\ SameHand(t) /\ loan'[t] = loan[t]
  BY <1>1 DEF TypeOK, TranslateMiss, MayAccess, AccessBegin
<1>4. ControlInv(t)'
  BY <1>1, <1>2, <1>3 DEF ThreadInv, ControlInv, InAccess, Left
<1>5. HandInv(t)'
  BY <1>3 DEF HandInv
<1>6. DtlbInv(t)'
  <2> SUFFICES ASSUME NEW q \in Pages, NEW c \in Backings, <<q, c>> \in dtlb[t]
               PROVE  EntryInv(t, q, c)'
    BY <1>3 DEF DtlbInv
  <2>1. EntryInv(t, q, c) BY <1>1 DEF ThreadInv, DtlbInv
  <2> QED BY <1>2, <1>3, <2>1 DEF EntryInv, Serviced, InBlock, InAccess, OutOfUse, Held, IInv, HostLive
<1> QED BY <1>2, <1>3, <1>4, <1>5, <1>6, PrivateInv DEF ThreadInv

LEMMA TranslateHitInv ==
    ASSUME IInv, TypeOK', NEW t \in Threads, NEW p \in Pages, NEW b \in Backings, TranslateHit(t, p, b)
    PROVE  IInv'
<1>1. TypeOK /\ ThreadInv(t) BY DEF IInv
<1>2. UNCHANGED shared /\ \A u \in Threads \ {t} : Same(u)
  BY <1>1, ZenonT(40) DEF TypeOK, Same, TranslateHit, MayAccess, AccessBegin
<1>3. /\ pc[t] \in {"run", "cold", "blk", "sys", "tail"} /\ pc'[t] = "use"
      /\ ctx'[t] = IF pc[t] = "cold" THEN "run" ELSE pc[t]
      /\ ptr'[t] = b /\ asGen = dtlbGen[t] /\ <<p, b>> \in dtlb[t]
      /\ SameTable(t) /\ SameJit(t) /\ SameDtlb(t) /\ loc'[t] = loc[t]
      /\ loan'[t] = loan[t]
  BY <1>1 DEF TypeOK, TranslateHit, MayAccess, AccessBegin
<1>4. ControlInv(t)'
  BY <1>1, <1>2, <1>3 DEF ThreadInv, ControlInv, InAccess, Left
<1>5. HandInv(t)'
  <2>1. EntryInv(t, p, b) BY <1>1, <1>3 DEF ThreadInv, DtlbInv
  <2> QED BY <1>1, <1>2, <1>3, <2>1 DEF HandInv, EntryInv, Held, OutOfUse, InBlock, IInv, HostLive
<1>6. DtlbInv(t)'
  <2> SUFFICES ASSUME NEW q \in Pages, NEW c \in Backings, <<q, c>> \in dtlb[t]
               PROVE  EntryInv(t, q, c)'
    BY <1>3 DEF DtlbInv
  <2>1. EntryInv(t, q, c) BY <1>1 DEF ThreadInv, DtlbInv
  <2> QED BY <1>2, <1>3, <2>1 DEF EntryInv, Serviced, InBlock, InAccess, OutOfUse, Held, IInv, HostLive
<1> QED BY <1>2, <1>3, <1>4, <1>5, <1>6, PrivateInv DEF ThreadInv

LEMMA TranslatePublishInv ==
    ASSUME IInv, TypeOK', NEW t \in Threads, TranslatePublish(t)
    PROVE  IInv'
<1>1. TypeOK /\ ThreadInv(t) BY DEF IInv
<1>2. UNCHANGED shared /\ \A u \in Threads \ {t} : Same(u)
  BY <1>1, SMT DEF TypeOK, Same, TranslatePublish, Publish, ClaimResults
<1>3. /\ pc[t] = "publish"
      /\ pc'[t] = IF page[t] = None THEN ctx[t] ELSE "walk"
      /\ ctx[t] \in Points /\ page[t] \in Pages \cup {None} /\ SameAccess(t)
      /\ dtlb'[t] = dtlb[t] /\ dtlbGen'[t] = loc[t] /\ loc'[t] = 0
      /\ asGen \in Nat /\ reg'[t] \in {"slot", "over"}
      /\ pubGen'[t] \in {pubGen[t], loc[t]} /\ blocked'[t] = blocked[t]
      /\ loan'[t] = loan[t]
  BY <1>1, SMT DEF TypeOK, TranslatePublish, Publish, ClaimResults
<1>4. ControlInv(t)'
  BY <1>1, <1>2, <1>3, SMT DEF ThreadInv, ControlInv, InAccess, Left, Points
<1>5. HandInv(t)'
  BY <1>3 DEF HandInv, Points
<1>6. DtlbInv(t)' BY <1>1, <1>3 DEF DtlbInv, ThreadInv, ControlInv
<1> QED BY <1>2, <1>3, <1>4, <1>5, <1>6, PrivateInv DEF ThreadInv, Points

LEMMA TranslateWalkInv ==
    ASSUME IInv, TypeOK', NEW t \in Threads, TranslateWalk(t)
    PROVE  IInv'
<1>1. TypeOK /\ ThreadInv(t) BY DEF IInv
<1>2. UNCHANGED shared /\ \A u \in Threads \ {t} : Same(u)
  BY <1>1, SMT DEF TypeOK, Same, TranslateWalk, AccessEnd
<1>3. /\ pc[t] = "walk" /\ phase = "idle" /\ ctx[t] \in Points /\ page[t] \in Pages
      /\ host[page[t]] \in Backings \cup {None}
      /\ dtlbGen'[t] = dtlbGen[t] /\ loc'[t] = loc[t]
      /\ SameTable(t) /\ SameJit(t) /\ loan'[t] = loan[t]
  BY <1>1, ZenonT(40) DEF TypeOK, ThreadInv, ControlInv, TranslateWalk
<1>4. CASE host[page[t]] = None
  <2>1. pc'[t] = ctx[t] /\ dtlb'[t] = dtlb[t]
    BY <1>1, <1>4, SMT DEF TypeOK, TranslateWalk
  <2>2. ControlInv(t)'
    BY <1>1, <1>2, <1>3, <2>1 DEF ThreadInv, ControlInv, InAccess, Left, Points
  <2>3. HandInv(t)' BY <1>3, <2>1 DEF HandInv, Points
  <2>4. DtlbInv(t)'
    <3> SUFFICES ASSUME NEW q \in Pages, NEW c \in Backings, <<q, c>> \in dtlb[t]
                 PROVE  EntryInv(t, q, c)'
      BY <2>1 DEF DtlbInv
    <3>1. EntryInv(t, q, c) BY <1>1 DEF ThreadInv, DtlbInv
    <3> QED BY <1>2, <1>3, <2>1, <3>1
            DEF EntryInv, Serviced, InBlock, InAccess, OutOfUse, Held, Points
  <2> QED BY <1>2, <1>3, <2>1, <2>2, <2>3, <2>4, PrivateInv DEF ThreadInv, Points
<1>5. CASE host[page[t]] \in Backings
  <2> DEFINE b == host[page[t]]
  <2>1. /\ pc'[t] = "use" /\ ptr'[t] = b /\ SameAccess(t)
        /\ dtlb'[t] = dtlb[t] \cup {<<page[t], b>>}
    BY <1>1, <1>5, SMT DEF TypeOK, TranslateWalk
  <2>2. bk[b] = "live" BY <1>3, <1>5 DEF IInv, HostLive
  <2>3. ControlInv(t)'
    BY <1>1, <1>2, <1>3, <2>1 DEF ThreadInv, ControlInv, InAccess, Left
  <2>4. HandInv(t)' BY <1>2, <1>5, <2>1, <2>2 DEF HandInv, Held, OutOfUse
  <2>5. DtlbInv(t)'
    <3> SUFFICES ASSUME NEW q \in Pages, NEW c \in Backings, <<q, c>> \in dtlb'[t]
                 PROVE  EntryInv(t, q, c)'
      BY DEF DtlbInv
    <3>1. CASE <<q, c>> \in dtlb[t]
      <4>1. EntryInv(t, q, c) BY <1>1, <3>1 DEF ThreadInv, DtlbInv
      <4> QED BY <1>2, <1>3, <2>1, <4>1
              DEF EntryInv, Serviced, InBlock, InAccess, OutOfUse, Held
    <3>2. CASE q = page[t] /\ c = b
      BY <1>2, <2>2, <3>2 DEF EntryInv, OutOfUse, Held
    <3> QED BY <2>1, <3>1, <3>2
  <2> QED BY <1>2, <1>3, <2>1, <2>3, <2>4, <2>5, PrivateInv DEF ThreadInv
<1> QED BY <1>3, <1>4, <1>5

LEMMA UseInv ==
    ASSUME IInv, TypeOK', NEW t \in Threads, Use(t)
    PROVE  IInv'
<1>1. TypeOK /\ ThreadInv(t) BY DEF IInv
<1>2. UNCHANGED shared /\ \A u \in Threads \ {t} : Same(u)
  BY <1>1 DEF TypeOK, Same, Use, AccessEnd
<1>3. /\ pc[t] = "use" /\ pc'[t] = ctx[t] /\ ctx[t] \in Points /\ SameTable(t)
      /\ SameJit(t) /\ SameDtlb(t) /\ loc'[t] = loc[t] /\ loan'[t] = loan[t]
  BY <1>1 DEF TypeOK, Use, AccessEnd
<1>4. ControlInv(t)'
  BY <1>1, <1>2, <1>3 DEF ThreadInv, ControlInv, InAccess, Left, Points
<1>5. HandInv(t)'
  BY <1>3 DEF HandInv, Points
<1>6. DtlbInv(t)'
  <2> SUFFICES ASSUME NEW q \in Pages, NEW c \in Backings, <<q, c>> \in dtlb[t]
               PROVE  EntryInv(t, q, c)'
    BY <1>3 DEF DtlbInv
  <2>1. EntryInv(t, q, c) BY <1>1 DEF ThreadInv, DtlbInv
  <2> QED BY <1>2, <1>3, <2>1 DEF EntryInv, Serviced, InBlock, InAccess, OutOfUse, Held, Points
<1> QED BY <1>2, <1>3, <1>4, <1>5, <1>6, PrivateInv DEF ThreadInv, Points

LEMMA JitInitInv ==
    ASSUME IInv, TypeOK', NEW t \in Threads, JitInit(t)
    PROVE  IInv'
<1>1. TypeOK /\ ThreadInv(t) BY DEF IInv
<1>2. UNCHANGED shared /\ \A u \in Threads \ {t} : Same(u)
  BY <1>1 DEF TypeOK, Same, JitInit
<1>3. /\ pc[t] = "run" /\ pc'[t] = "cold" /\ SameTable(t) /\ SameDtlb(t)
      /\ SameHand(t) /\ loan'[t] = loan[t]
  BY <1>1 DEF TypeOK, JitInit
<1>4. ControlInv(t)'
  BY <1>1, <1>2, <1>3 DEF ThreadInv, ControlInv, InAccess, Left
<1>5. HandInv(t)'
  BY <1>3 DEF HandInv
<1>6. DtlbInv(t)'
  <2> SUFFICES ASSUME NEW q \in Pages, NEW c \in Backings, <<q, c>> \in dtlb[t]
               PROVE  EntryInv(t, q, c)'
    BY <1>3 DEF DtlbInv
  <2>1. EntryInv(t, q, c) BY <1>1 DEF ThreadInv, DtlbInv
  <2> QED BY <1>2, <1>3, <2>1 DEF EntryInv, Serviced, InBlock, InAccess, OutOfUse, Held
<1> QED BY <1>2, <1>3, <1>4, <1>5, <1>6, PrivateInv DEF ThreadInv

LEMMA JitEnterInv ==
    ASSUME IInv, TypeOK', NEW t \in Threads, JitEnter(t)
    PROVE  IInv'
<1>1. TypeOK /\ ThreadInv(t) BY DEF IInv
<1>2. UNCHANGED shared /\ \A u \in Threads \ {t} : Same(u)
  BY <1>1 DEF TypeOK, Same, JitEnter
<1>3. /\ pc[t] = "run" /\ pc'[t] = "blk" /\ envOn[t] /\ ~interrupt[t]
      /\ SameTable(t) /\ SameJit(t) /\ SameDtlb(t) /\ SameHand(t)
      /\ loan'[t] = loan[t]
  BY <1>1 DEF TypeOK, JitEnter
<1>4. ControlInv(t)'
  BY <1>1, <1>2, <1>3 DEF ThreadInv, ControlInv, InAccess, Left
<1>5. HandInv(t)'
  BY <1>3 DEF HandInv
<1>6. DtlbInv(t)'
  <2> SUFFICES ASSUME NEW q \in Pages, NEW c \in Backings, <<q, c>> \in dtlb[t]
               PROVE  EntryInv(t, q, c)'
    BY <1>3 DEF DtlbInv
  <2>1. EntryInv(t, q, c) BY <1>1 DEF ThreadInv, DtlbInv
  <2> QED BY <1>1, <1>2, <1>3, <2>1 DEF EntryInv, Serviced, InBlock, InAccess, OutOfUse, Held, IInv, HostLive
<1> QED BY <1>2, <1>3, <1>4, <1>5, <1>6, PrivateInv DEF ThreadInv

LEMMA JitLeaveInv ==
    ASSUME IInv, TypeOK', NEW t \in Threads, JitLeave(t)
    PROVE  IInv'
<1>1. TypeOK /\ ThreadInv(t) BY DEF IInv
<1>2. UNCHANGED shared /\ \A u \in Threads \ {t} : Same(u)
  BY <1>1 DEF TypeOK, Same, JitLeave
<1>3. /\ pc[t] = "blk" /\ pc'[t] = "run" /\ SameTable(t) /\ SameJit(t)
      /\ SameDtlb(t) /\ SameHand(t) /\ loan'[t] = loan[t]
  BY <1>1 DEF TypeOK, JitLeave
<1>4. ControlInv(t)'
  BY <1>1, <1>2, <1>3 DEF ThreadInv, ControlInv, InAccess, Left
<1>5. HandInv(t)'
  BY <1>3 DEF HandInv
<1>6. DtlbInv(t)'
  <2> SUFFICES ASSUME NEW q \in Pages, NEW c \in Backings, <<q, c>> \in dtlb[t]
               PROVE  EntryInv(t, q, c)'
    BY <1>3 DEF DtlbInv
  <2>1. EntryInv(t, q, c) BY <1>1 DEF ThreadInv, DtlbInv
  <2> QED BY <1>2, <1>3, <2>1 DEF EntryInv, Serviced, InBlock, InAccess, OutOfUse, Held
<1> QED BY <1>2, <1>3, <1>4, <1>5, <1>6, PrivateInv DEF ThreadInv

LEMMA JitServiceInv ==
    ASSUME IInv, TypeOK', NEW t \in Threads, JitService(t)
    PROVE  IInv'
<1>1. TypeOK /\ ThreadInv(t) BY DEF IInv
<1>2. UNCHANGED shared /\ \A u \in Threads \ {t} : Same(u)
  BY <1>1 DEF TypeOK, Same, JitService
<1>3. /\ pc[t] = "run" /\ pc'[t] = "reset" /\ SameTable(t) /\ SameDtlb(t)
      /\ SameHand(t) /\ loan'[t] = loan[t]
  BY <1>1 DEF TypeOK, JitService
<1>4. ControlInv(t)'
  BY <1>1, <1>2, <1>3 DEF ThreadInv, ControlInv, InAccess, Left
<1>5. HandInv(t)'
  BY <1>3 DEF HandInv
<1>6. DtlbInv(t)'
  <2> SUFFICES ASSUME NEW q \in Pages, NEW c \in Backings, <<q, c>> \in dtlb[t]
               PROVE  EntryInv(t, q, c)'
    BY <1>3 DEF DtlbInv
  <2>1. EntryInv(t, q, c) BY <1>1 DEF ThreadInv, DtlbInv
  <2> QED BY <1>2, <1>3, <2>1 DEF EntryInv, Serviced, InBlock, InAccess, OutOfUse, Held
<1> QED BY <1>2, <1>3, <1>4, <1>5, <1>6, PrivateInv DEF ThreadInv

LEMMA DtlbResetInv ==
    ASSUME IInv, TypeOK', NEW t \in Threads, DtlbReset(t)
    PROVE  IInv'
<1>1. TypeOK /\ ThreadInv(t) BY DEF IInv
<1>2. UNCHANGED shared /\ \A u \in Threads \ {t} : Same(u)
  BY <1>1 DEF TypeOK, Same, DtlbReset, AccessEnd
<1>3. /\ pc[t] = "reset" /\ pc'[t] = "publish" /\ ctx'[t] = "run"
      /\ dtlb'[t] = {} /\ dtlbGen'[t] = dtlbGen[t] /\ loc'[t] = asGen
      /\ asGen \in Nat /\ SameTable(t) /\ loan'[t] = loan[t]
  BY <1>1 DEF TypeOK, DtlbReset, AccessEnd
<1>4. ControlInv(t)'
  BY <1>1, <1>2, <1>3, SMT DEF ThreadInv, ControlInv, InAccess, Left
<1>5. HandInv(t)'
  BY <1>3 DEF HandInv
<1>6. DtlbInv(t)' BY <1>3 DEF DtlbInv
<1> QED BY <1>2, <1>3, <1>4, <1>5, <1>6, PrivateInv DEF ThreadInv

LEMMA QuiesceInv ==
    ASSUME IInv, TypeOK', NEW t \in Threads, Quiesce(t)
    PROVE  IInv'
<1>1. TypeOK /\ ThreadInv(t) BY DEF IInv
<1>2. UNCHANGED shared /\ \A u \in Threads \ {t} : Same(u)
  BY <1>1 DEF TypeOK, Same, Quiesce
<1>3. /\ pc[t] = "run" /\ pc'[t] = "reset" /\ SameTable(t) /\ SameDtlb(t)
      /\ SameHand(t) /\ loan'[t] = loan[t]
  BY <1>1 DEF TypeOK, Quiesce
<1>4. ControlInv(t)'
  BY <1>1, <1>2, <1>3 DEF ThreadInv, ControlInv, InAccess, Left
<1>5. HandInv(t)'
  BY <1>3 DEF HandInv
<1>6. DtlbInv(t)'
  <2> SUFFICES ASSUME NEW q \in Pages, NEW c \in Backings, <<q, c>> \in dtlb[t]
               PROVE  EntryInv(t, q, c)'
    BY <1>3 DEF DtlbInv
  <2>1. EntryInv(t, q, c) BY <1>1 DEF ThreadInv, DtlbInv
  <2> QED BY <1>2, <1>3, <2>1 DEF EntryInv, Serviced, InBlock, InAccess, OutOfUse, Held
<1> QED BY <1>2, <1>3, <1>4, <1>5, <1>6, PrivateInv DEF ThreadInv

LEMMA JitProbeInv ==
    ASSUME IInv, TypeOK', NEW t \in Threads, NEW p \in Pages, NEW b \in Backings, JitProbe(t, p, b)
    PROVE  IInv'
<1>1. TypeOK /\ ThreadInv(t) BY DEF IInv
<1>2. UNCHANGED shared /\ \A u \in Threads \ {t} : Same(u)
  BY <1>1 DEF TypeOK, Same, JitProbe, AccessBegin
<1>3. /\ pc[t] = "blk" /\ pc'[t] = "use" /\ ctx'[t] = "blk" /\ ptr'[t] = b
      /\ <<p, b>> \in dtlb[t] /\ SameTable(t) /\ SameJit(t) /\ SameDtlb(t)
      /\ loc'[t] = loc[t] /\ loan'[t] = loan[t]
  BY <1>1 DEF TypeOK, JitProbe, AccessBegin
<1>4. ControlInv(t)'
  BY <1>1, <1>2, <1>3 DEF ThreadInv, ControlInv, InAccess, Left
<1>5. HandInv(t)'
  <2>1. EntryInv(t, p, b) BY <1>1, <1>3 DEF ThreadInv, DtlbInv
  <2> QED BY <1>1, <1>2, <1>3, <2>1 DEF HandInv, EntryInv, Held, OutOfUse, InBlock
<1>6. DtlbInv(t)'
  <2> SUFFICES ASSUME NEW q \in Pages, NEW c \in Backings, <<q, c>> \in dtlb[t]
               PROVE  EntryInv(t, q, c)'
    BY <1>3 DEF DtlbInv
  <2>1. EntryInv(t, q, c) BY <1>1 DEF ThreadInv, DtlbInv
  <2> QED BY <1>2, <1>3, <2>1 DEF EntryInv, Serviced, InBlock, InAccess, OutOfUse, Held
<1> QED BY <1>2, <1>3, <1>4, <1>5, <1>6, PrivateInv DEF ThreadInv

LEMMA BlockBeginInv ==
    ASSUME IInv, TypeOK', NEW t \in Threads, BlockBegin(t)
    PROVE  IInv'
<1>1. TypeOK /\ ThreadInv(t) BY DEF IInv
<1>2. UNCHANGED shared /\ \A u \in Threads \ {t} : Same(u)
  BY <1>1, SMT DEF TypeOK, Same, BlockBegin, Publish, ClaimResults
<1>3. /\ pc[t] = "run" /\ pc'[t] = "sys"
      /\ reg'[t] = "over" => reg[t] # "slot"
      /\ reg'[t] # "none" /\ reg[t] \in {"none", "slot", "over"}
      /\ pubGen'[t] \in {pubGen[t], dtlbGen[t]}
      /\ reg'[t] = "slot" /\ reg[t] # "slot" => pubGen'[t] = dtlbGen[t]
      /\ reg[t] = "slot" => pubGen'[t] = pubGen[t]
      /\ SameJit(t) /\ SameDtlb(t) /\ SameHand(t) /\ loan'[t] = loan[t]
  BY <1>1, SMT DEF TypeOK, BlockBegin, Publish, ClaimResults
<1>4. ControlInv(t)'
  BY <1>1, <1>2, <1>3 DEF ThreadInv, ControlInv, InAccess, Left
<1>5. HandInv(t)'
  BY <1>3 DEF HandInv
<1>6. DtlbInv(t)'
  <2> SUFFICES ASSUME NEW q \in Pages, NEW c \in Backings, <<q, c>> \in dtlb[t]
               PROVE  EntryInv(t, q, c)'
    BY <1>3 DEF DtlbInv
  <2>1. EntryInv(t, q, c) BY <1>1 DEF ThreadInv, DtlbInv
  <2> QED BY <1>1, <1>2, <1>3, <2>1 DEF EntryInv, Serviced, InBlock, InAccess, OutOfUse, Held, ThreadInv, ControlInv, Left
<1> QED BY <1>2, <1>3, <1>4, <1>5, <1>6, PrivateInv DEF ThreadInv

LEMMA BlockEndInv ==
    ASSUME IInv, TypeOK', NEW t \in Threads, BlockEnd(t)
    PROVE  IInv'
<1>1. TypeOK /\ ThreadInv(t) BY DEF IInv
<1>2. UNCHANGED shared /\ \A u \in Threads \ {t} : Same(u)
  BY <1>1 DEF TypeOK, Same, BlockEnd
<1>3. /\ pc[t] = "sys" /\ pc'[t] = "run" /\ ~blocked'[t] /\ reg'[t] = reg[t]
      /\ pubGen'[t] = pubGen[t] /\ SameJit(t) /\ SameDtlb(t) /\ SameHand(t)
      /\ loan'[t] = loan[t]
  BY <1>1 DEF TypeOK, BlockEnd
<1>4. ControlInv(t)'
  BY <1>1, <1>2, <1>3 DEF ThreadInv, ControlInv, InAccess, Left
<1>5. HandInv(t)'
  BY <1>3 DEF HandInv
<1>6. DtlbInv(t)'
  <2> SUFFICES ASSUME NEW q \in Pages, NEW c \in Backings, <<q, c>> \in dtlb[t]
               PROVE  EntryInv(t, q, c)'
    BY <1>3 DEF DtlbInv
  <2>1. EntryInv(t, q, c) BY <1>1 DEF ThreadInv, DtlbInv
  <2> QED BY <1>2, <1>3, <2>1 DEF EntryInv, Serviced, InBlock, InAccess, OutOfUse, Held
<1> QED BY <1>2, <1>3, <1>4, <1>5, <1>6, PrivateInv DEF ThreadInv

LEMMA LendInv ==
    ASSUME IInv, TypeOK', NEW t \in Threads, NEW p \in Pages, NEW b \in Backings,
           Lend(t, p, b)
    PROVE  IInv'
<1>1. TypeOK /\ ThreadInv(t) BY DEF IInv
<1>2. UNCHANGED shared /\ \A u \in Threads \ {t} : Same(u)
  BY <1>1, SMT DEF TypeOK, Same, Lend, Publish, ClaimResults
<1>3. /\ pc[t] = "sys" /\ pc'[t] = "sys" /\ phase = "idle" /\ host[p] = b
      /\ SameJit(t) /\ SameAccess(t) /\ SameHand(t) /\ blocked'[t] = blocked[t]
      /\ loan'[t] = loan[t] \cup {b} /\ dtlbGen'[t] = asGen /\ asGen \in Nat \ {0}
  BY <1>1 DEF TypeOK, Lend
<1>4. bk[b] = "live" BY <1>3 DEF IInv, HostLive
<1>5. CASE asGen # dtlbGen[t]
  <2>1. dtlb'[t] = {<<p, b>>} BY <1>1, <1>5 DEF TypeOK, Lend
  <2>2. reg'[t] \in {"slot", "over"} /\ pubGen'[t] \in {pubGen[t], asGen}
    BY <1>1, <1>5, SMT DEF TypeOK, Lend, Publish, ClaimResults
  <2>3. ControlInv(t)'
    BY <1>1, <1>2, <1>3, <1>4, <2>2, SMT DEF ThreadInv, ControlInv, InAccess, Left
  <2>4. HandInv(t)' BY <1>3 DEF HandInv
  <2>5. DtlbInv(t)'
    BY <1>2, <1>3, <1>4, <2>1 DEF DtlbInv, EntryInv, OutOfUse, Held
  <2> QED BY <1>2, <1>3, <2>3, <2>4, <2>5, PrivateInv DEF ThreadInv
<1>6. CASE asGen = dtlbGen[t]
  <2>1. dtlb'[t] = dtlb[t] \cup {<<p, b>>} BY <1>1, <1>6 DEF TypeOK, Lend
  <2>2. reg'[t] = reg[t] /\ pubGen'[t] = pubGen[t] BY <1>6 DEF Lend
  <2>3. ControlInv(t)'
    BY <1>1, <1>2, <1>3, <1>4, <1>6, <2>2 DEF ThreadInv, ControlInv, InAccess, Left
  <2>4. HandInv(t)' BY <1>3 DEF HandInv
  <2>5. DtlbInv(t)'
    <3> SUFFICES ASSUME NEW q \in Pages, NEW c \in Backings, <<q, c>> \in dtlb'[t]
                 PROVE  EntryInv(t, q, c)'
      BY DEF DtlbInv
    <3>1. CASE <<q, c>> \in dtlb[t]
      <4>1. EntryInv(t, q, c) BY <1>1, <3>1 DEF ThreadInv, DtlbInv
      <4> QED BY <1>2, <1>3, <1>6, <2>2, <4>1
              DEF EntryInv, Serviced, InBlock, InAccess, OutOfUse, Held
    <3>2. CASE q = p /\ c = b
      BY <1>2, <1>3, <1>4, <3>2 DEF EntryInv, OutOfUse, Held
    <3> QED BY <2>1, <3>1, <3>2
  <2> QED BY <1>2, <1>3, <2>3, <2>4, <2>5, PrivateInv DEF ThreadInv
<1> QED BY <1>5, <1>6

LEMMA ThreadExitInv ==
    ASSUME IInv, TypeOK', NEW t \in Threads, ThreadExit(t)
    PROVE  IInv'
<1>1. TypeOK /\ ThreadInv(t) BY DEF IInv
<1>2. UNCHANGED shared /\ \A u \in Threads \ {t} : Same(u)
  BY <1>1 DEF TypeOK, Same, ThreadExit
<1>3. /\ pc[t] = "run" /\ pc'[t] = "exit" /\ ~envOn'[t] /\ SameTable(t)
      /\ SameDtlb(t) /\ SameHand(t) /\ loan'[t] = loan[t]
  BY <1>1 DEF TypeOK, ThreadExit
<1>4. ControlInv(t)'
  BY <1>1, <1>2, <1>3 DEF ThreadInv, ControlInv, InAccess, Left
<1>5. HandInv(t)'
  BY <1>3 DEF HandInv
<1>6. DtlbInv(t)'
  <2> SUFFICES ASSUME NEW q \in Pages, NEW c \in Backings, <<q, c>> \in dtlb[t]
               PROVE  EntryInv(t, q, c)'
    BY <1>3 DEF DtlbInv
  <2>1. EntryInv(t, q, c) BY <1>1 DEF ThreadInv, DtlbInv
  <2> QED BY <1>2, <1>3, <2>1 DEF EntryInv, Serviced, InBlock, InAccess, OutOfUse, Held
<1> QED BY <1>2, <1>3, <1>4, <1>5, <1>6, PrivateInv DEF ThreadInv

LEMMA LeaderExitInv ==
    ASSUME IInv, TypeOK', NEW t \in Threads, LeaderExit(t)
    PROVE  IInv'
<1>1. TypeOK /\ ThreadInv(t) BY DEF IInv
<1>2. UNCHANGED shared /\ \A u \in Threads \ {t} : Same(u)
  BY <1>1 DEF TypeOK, Same, LeaderExit
<1>3. /\ pc[t] = "sys" /\ pc'[t] = "exit" /\ SameTable(t) /\ SameJit(t)
      /\ SameDtlb(t) /\ SameHand(t) /\ loan'[t] = loan[t]
  BY <1>1 DEF TypeOK, LeaderExit
<1>4. ControlInv(t)'
  BY <1>1, <1>2, <1>3 DEF ThreadInv, ControlInv, InAccess, Left
<1>5. HandInv(t)'
  BY <1>3 DEF HandInv
<1>6. DtlbInv(t)'
  <2> SUFFICES ASSUME NEW q \in Pages, NEW c \in Backings, <<q, c>> \in dtlb[t]
               PROVE  EntryInv(t, q, c)'
    BY <1>3 DEF DtlbInv
  <2>1. EntryInv(t, q, c) BY <1>1 DEF ThreadInv, DtlbInv
  <2> QED BY <1>2, <1>3, <2>1 DEF EntryInv, Serviced, InBlock, InAccess, OutOfUse, Held
<1> QED BY <1>2, <1>3, <1>4, <1>5, <1>6, PrivateInv DEF ThreadInv

LEMMA UnpublishInv ==
    ASSUME IInv, TypeOK', NEW t \in Threads, Unpublish(t)
    PROVE  IInv'
<1>1. TypeOK /\ ThreadInv(t) BY DEF IInv
<1>2. UNCHANGED shared /\ \A u \in Threads \ {t} : Same(u)
  BY <1>1, ZenonT(40) DEF TypeOK, Same, Unpublish
<1>3. /\ pc[t] = "exit" /\ pc'[t] = "leave" /\ reg'[t] = "none" /\ ~blocked'[t]
      /\ pubGen'[t] = 0 /\ asGen \in Nat /\ SameJit(t) /\ SameDtlb(t)
      /\ SameHand(t) /\ loan'[t] = loan[t]
  BY <1>1 DEF TypeOK, Unpublish
<1>4. ControlInv(t)'
  BY <1>1, <1>2, <1>3, SMT DEF ThreadInv, ControlInv, InAccess, Left
<1>5. HandInv(t)'
  BY <1>3 DEF HandInv
<1>6. DtlbInv(t)'
  <2> SUFFICES ASSUME NEW q \in Pages, NEW c \in Backings, <<q, c>> \in dtlb[t]
               PROVE  EntryInv(t, q, c)'
    BY <1>3 DEF DtlbInv
  <2>1. EntryInv(t, q, c) BY <1>1 DEF ThreadInv, DtlbInv
  <2> QED BY <1>2, <1>3, <2>1 DEF EntryInv, Serviced, InBlock, InAccess, OutOfUse, Held
<1> QED BY <1>2, <1>3, <1>4, <1>5, <1>6, PrivateInv DEF ThreadInv

LEMMA ThreadGoneInv ==
    ASSUME IInv, TypeOK', NEW t \in Threads, ThreadGone(t)
    PROVE  IInv'
<1>1. TypeOK /\ ThreadInv(t) BY DEF IInv
<1>2. UNCHANGED shared /\ \A u \in Threads \ {t} : Same(u)
  BY <1>1 DEF TypeOK, Same, ThreadGone
<1>3. /\ pc[t] = "tail" /\ pc'[t] = "dead" /\ dtlb'[t] = {} /\ dtlbGen'[t] = 0
      /\ asGen \in Nat /\ loc'[t] = loc[t] /\ SameTable(t) /\ loan'[t] = loan[t]
  BY <1>1, ZenonT(40) DEF TypeOK, ThreadGone
<1>4. ControlInv(t)'
  BY <1>1, <1>2, <1>3, SMT DEF ThreadInv, ControlInv, InAccess, Left
<1>5. HandInv(t)'
  BY <1>3 DEF HandInv
<1>6. DtlbInv(t)' BY <1>3 DEF DtlbInv
<1> QED BY <1>2, <1>3, <1>4, <1>5, <1>6, PrivateInv DEF ThreadInv

===============================================================================
