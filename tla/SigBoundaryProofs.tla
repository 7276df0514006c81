-------------------------- MODULE SigBoundaryProofs --------------------------
(***************************************************************************)
(* The safety properties of SigBoundary hold for any signals, masks and    *)
(* number of kicks: IInv is inductive and implies each of them.            *)
(***************************************************************************)
EXTENDS SigBoundaryInv, TLAPS

USE DEF flagVars, maskVars, callVars, worldVars, Goto, AtMask, Deliverable, AtSvc, BehindSvc

\* A thread that has just started has nothing to lose.
LEMMA InitInv == Init => IInv
BY SMTT(30) DEF Init, IInv, PendInv, StopInv, FlagUp, BlockCovered, MaskInv,
       FlagInv, CallInv, TrampInv, KickInv, EintrInv, SavedInv

\* Steps of the engines and of the guest's code (jit_run, pd_run).
LEMMA EngineStep ==
    ASSUME IInv,
           \/ Interpret \/ JitService \/ JitAsk \/ BlockInterrupted \/ BlockEnds \/ JitLeft
           \/ HandlerReturns
    PROVE  IInv'
<1> USE DEF IInv, PendInv, StopInv, FlagUp, BlockCovered, MaskInv,
            FlagInv, CallInv, TrampInv, KickInv, EintrInv, SavedInv
<1>1. CASE Interpret
  BY <1>1 DEF Interpret, Past
<1>2. CASE JitService
  BY <1>2 DEF JitService
<1>3. CASE JitAsk
  BY <1>3 DEF JitAsk, CalloutDue
<1>4. CASE BlockInterrupted
  BY <1>4 DEF BlockInterrupted
<1>5. CASE BlockEnds
  BY <1>5 DEF BlockEnds, Past
<1>6. CASE JitLeft
  BY <1>6 DEF JitLeft
<1>7. CASE HandlerReturns
  BY <1>7 DEF HandlerReturns, Engine
<1>8. QED BY <1>1, <1>2, <1>3, <1>4, <1>5, <1>6, <1>7

\* What serving a kick does to the ring and the flags: the kick is gone, the ring
\* may hold the attach's SIGSTOP, flagged, and the mark on a call that is to be
\* hidden is taken off only with that.
Serviced(again) ==
    /\ ptKick' => ptKick /\ npend' = npend
    /\ pend \subseteq pend' /\ pend' \subseteq Sig
    /\ npend => npend'
    /\ pend # pend' => npend'
    /\ selfintr /\ again => selfintr' \/ Stop \in pend'
    /\ ~ptKick => UNCHANGED <<pend, npend, jitIntr, ptKick, selfintr>>

\* A tracer's kick (ptrace_service_kick, sig_raise_attach_stop, sig_after_trap).
LEMMA KickServiced == ASSUME PendInv, NEW again, ServiceKick(again) PROVE Serviced(again)
<1> USE DEF Serviced
<1>1. CASE ~ptKick
  BY <1>1 DEF ServiceKick, PendInv
<1>2. CASE ptKick /\ UNCHANGED <<pend, npend, jitIntr>>
  BY <1>2 DEF ServiceKick, PendInv, Push
<1>3. CASE ptKick /\ Push(Stop)
  <2>1. ptKick' = FALSE /\ Stop \in pend' /\ pend \subseteq pend' /\ pend' \subseteq pend \cup {Stop}
    BY <1>3 DEF ServiceKick, Push
  <2>2. pend' \subseteq Sig
    BY <2>1, SigAssumption DEF PendInv
  <2>3. (npend => npend') /\ (pend # pend' => npend')
    BY <1>3, SMTT(30) DEF Push
  <2>4. QED BY <1>3, <2>1, <2>2, <2>3
<1>4. QED BY <1>1, <1>2, <1>3 DEF ServiceKick

\* Steps of a system call, from the SVC to its return (emu_loop, syscall_dispatch).
LEMMA CallStep ==
    ASSUME IInv,
           \/ Svc \/ SvcAsk \/ SvcBack \/ Dispatch \/ CallBlocks \/ CallReturns \/ SleepEnds
           \/ SuspendPoll \/ SuspendSleep \/ MaskSet \/ SvcReturns
    PROVE  IInv'
<1> USE DEF IInv, PendInv, StopInv, FlagUp, BlockCovered, MaskInv,
            FlagInv, CallInv, TrampInv, KickInv, EintrInv, SavedInv
<1>1. CASE Svc
  BY <1>1 DEF Svc, ToSvc, Past, Engine
<1>2. CASE SvcAsk
  BY <1>2 DEF SvcAsk, CalloutDue
<1>3. CASE SvcBack
  BY <1>3 DEF SvcBack
<1>4. CASE Dispatch
  BY <1>4 DEF Dispatch
<1>5. CASE CallBlocks
  BY <1>5 DEF CallBlocks
<1>6. CASE CallReturns
  BY <1>6 DEF CallReturns, Returns
<1>7. CASE SleepEnds
  BY <1>7, SMTT(30) DEF SleepEnds, Returns
<1>8. CASE SuspendPoll
  <2>1. CASE Deliverable # {}
    BY <1>8, <2>1, SMTT(30) DEF SuspendPoll
  <2>2. CASE Deliverable = {} /\ ~ptKick
    BY <1>8, <2>2, SMTT(30) DEF SuspendPoll, ServiceKick
  <2>3. CASE Deliverable = {} /\ ptKick
    <3>1. PICK again \in BOOLEAN : Serviced(again)
      BY <1>8, <2>3, KickServiced DEF SuspendPoll
    <3>2. QED BY <1>8, <2>3, <3>1 DEF SuspendPoll, Serviced
  <2>4. QED BY <2>1, <2>2, <2>3
<1>9. CASE MaskSet
  BY <1>9 DEF MaskSet, ToHost
<1>10. CASE SvcReturns
  BY <1>10 DEF SvcReturns
<1>11. CASE SuspendSleep
  BY <1>11, SMTT(30) DEF SuspendSleep
<1>12. QED BY <1>1, <1>2, <1>3, <1>4, <1>5, <1>6, <1>7, <1>8, <1>9, <1>10, <1>11, ZenonT(40)

\* The calls that are given a signal set (rt_sigaction, rt_sigprocmask, rt_sigreturn,
\* rt_sigsuspend), and a handler's frame, which is given the mask of its action.
LEMMA SetStep ==
    ASSUME NEW set \in Sets, IInv,
           \/ CallSigaction(set) \/ CallSigprocmask(set) \/ CallSigreturn(set)
           \/ CallSigsuspend(set) \/ \E nodefer, reset \in BOOLEAN : Frame(set, nodefer, reset)
    PROVE  IInv'
<1> USE DEF IInv, PendInv, StopInv, FlagUp, BlockCovered, MaskInv,
            FlagInv, CallInv, TrampInv, KickInv, EintrInv, SavedInv
<1>0. Stop \notin set
  BY SigAssumption
<1>1. CASE CallSigaction(set)
  BY <1>1 DEF CallSigaction
<1>2. CASE CallSigprocmask(set)
  BY <1>0, <1>2 DEF CallSigprocmask, SetMask
<1>3. CASE CallSigreturn(set)
  BY <1>0, <1>3 DEF CallSigreturn, SetMask
<1>4. CASE CallSigsuspend(set)
  BY <1>0, <1>4 DEF CallSigsuspend, SetMask
<1>5. ASSUME NEW nodefer \in BOOLEAN, NEW reset \in BOOLEAN, Frame(set, nodefer, reset)
      PROVE  IInv'
  BY <1>5, SMTT(30) DEF Frame, SetMask
<1>6. QED BY <1>1, <1>2, <1>3, <1>4, <1>5

\* Steps of the boundary (emu_loop, sig_deliver_pending, syscall_restart_internal).
LEMMA BoundaryStep ==
    ASSUME NEW traced \in BOOLEAN, IInv,
           \/ Boundary \/ Serve \/ DeliverEmpty \/ DeliverServe \/ DeliverNone \/ DeliverTake
           \/ LowerStore \/ LowerLook \/ ActHandler \/ Restart \/ ActQuietly(traced)
    PROVE  IInv'
<1> USE DEF IInv, PendInv, StopInv, FlagUp, BlockCovered, MaskInv,
            FlagInv, CallInv, TrampInv, KickInv, EintrInv, SavedInv
<1>1. CASE Boundary
  BY <1>1 DEF Boundary
<1>2. CASE Serve
  <2>1. Serviced(RestartsAnyway)
    BY <1>2, KickServiced DEF Serve
  <2>2. EintrInv'
    BY <1>2, <2>1 DEF Serve, Serviced, RestartsAnyway
  <2>3. SavedInv' /\ TrampInv'
    BY <1>2, <2>1 DEF Serve, Serviced
  <2>4. (PendInv /\ StopInv /\ FlagUp /\ BlockCovered)'
    BY <1>2, <2>1 DEF Serve, Serviced
  <2>5. (MaskInv /\ FlagInv /\ CallInv /\ KickInv)'
    BY <1>2, <2>1 DEF Serve, Serviced
  <2>6. QED BY <2>2, <2>3, <2>4, <2>5
<1>3. CASE DeliverEmpty
  BY <1>3 DEF DeliverEmpty, SavedMaskBack, SetMask
<1>4. CASE DeliverNone
  BY <1>4 DEF DeliverNone, SavedMaskBack, SetMask
<1>5. CASE DeliverTake
  BY <1>5, NoneAssumption DEF DeliverTake, Lowest
<1>6. CASE LowerStore
  BY <1>6, SMTT(30) DEF LowerStore
<1>7. CASE LowerLook
  BY <1>7 DEF LowerLook
<1>8. CASE ActHandler
  BY <1>8 DEF ActHandler
<1>9. CASE Restart
  BY <1>9 DEF Restart
<1>10. CASE ActQuietly(traced)
  BY <1>10, ZenonT(40) DEF ActQuietly, RestartsAnyway
<1>11. CASE DeliverServe
  <2>1. Serviced(RestartsAnyway)
    BY <1>11, KickServiced DEF DeliverServe
  <2>2. EintrInv'
    BY <1>11, <2>1 DEF DeliverServe, Serviced, RestartsAnyway
  <2>3. SavedInv' /\ TrampInv'
    BY <1>11, <2>1 DEF DeliverServe, Serviced
  <2>4. (PendInv /\ StopInv /\ FlagUp /\ BlockCovered)'
    BY <1>11, <2>1, SMTT(30) DEF DeliverServe, Serviced
  <2>5. (MaskInv /\ FlagInv /\ CallInv /\ KickInv)'
    BY <1>11, <2>1 DEF DeliverServe, Serviced
  <2>6. QED BY <2>2, <2>3, <2>4, <2>5
<1>12. QED BY <1>1, <1>2, <1>3, <1>4, <1>5, <1>6, <1>7, <1>8, <1>9, <1>10, <1>11, ZenonT(40)

\* The capture handler (sig_capture_push): what it queues is flagged, and a call it ends is
\* marked or has the signal to show for it.
LEMMA CaptureStep == ASSUME NEW s \in Sig, IInv, CapturePush(s) PROVE IInv'
<1> USE DEF IInv, CapturePush, Push, SelfIntr, Arm, Interrupt
<1>1. PendInv'
  BY DEF PendInv
<1>2. FlagUp'
  BY DEF FlagUp
<1>3. BlockCovered'
  BY DEF BlockCovered
<1>4. MaskInv'
  BY DEF MaskInv
<1>5. FlagInv'
  BY DEF FlagInv, MaskInv
<1>6. CallInv'
  BY DEF CallInv
<1>7. TrampInv'
  BY DEF TrampInv
<1>8. KickInv'
  BY DEF KickInv, FlagInv
<1>9. EintrInv'
  BY DEF EintrInv, FlagInv
<1>10. SavedInv'
  BY DEF SavedInv, FlagUp, TrampInv
<1>11. StopInv'
  BY DEF StopInv
<1>12. QED BY <1>1, <1>2, <1>3, <1>4, <1>5, <1>6, <1>7, <1>8, <1>9, <1>10, <1>11

\* The wake of a tracer (sig_kick_net): it only marks the call it ends.
LEMMA WakeNetStep == ASSUME IInv, WakeNet PROVE IInv'
<1> USE DEF IInv, WakeNet, SelfIntr, Arm, Interrupt
<1>1. PendInv'
  BY DEF PendInv
<1>2. FlagUp'
  BY DEF FlagUp
<1>3. BlockCovered'
  BY DEF BlockCovered
<1>4. MaskInv'
  BY DEF MaskInv
<1>5. FlagInv'
  BY DEF FlagInv, MaskInv
<1>6. CallInv'
  BY DEF CallInv
<1>7. TrampInv'
  BY DEF TrampInv
<1>8. KickInv'
  BY DEF KickInv, FlagInv
<1>9. EintrInv'
  BY DEF EintrInv, FlagInv
<1>10. SavedInv'
  BY DEF SavedInv, FlagUp, TrampInv
<1>11. StopInv'
  BY SMTT(30) DEF StopInv
<1>12. QED BY <1>1, <1>2, <1>3, <1>4, <1>5, <1>6, <1>7, <1>8, <1>9, <1>10, <1>11

\* A tracer's kick and the timer (sig_kick_net).
LEMMA KickStep == ASSUME IInv, KickNet \/ KickTimer PROVE IInv'
<1> USE DEF IInv, PendInv, StopInv, FlagUp, BlockCovered, MaskInv,
            FlagInv, CallInv, TrampInv, KickInv, EintrInv, SavedInv
<1>1. CASE KickNet
  BY <1>1, ZenonT(40) DEF KickNet, SelfIntr, Arm, Interrupt
<1>2. CASE KickTimer
  BY <1>2, ZenonT(40) DEF KickTimer, SelfIntr, Interrupt
<1>3. QED BY <1>1, <1>2

\* Another thread's rt_sigaction (sig_action_swap): less is deliverable.
LEMMA SiblingStep == ASSUME NEW s \in Sig, IInv, SiblingIgnores(s) PROVE IInv'
BY DEF SiblingIgnores, IInv, PendInv, StopInv, FlagUp, BlockCovered, MaskInv,
       FlagInv, CallInv, TrampInv, KickInv, EintrInv, SavedInv

\* A step that changes nothing.
LEMMA StutterStep == ASSUME IInv, UNCHANGED vars PROVE IInv'
BY DEF vars, IInv, PendInv, StopInv, FlagUp, BlockCovered, MaskInv,
       FlagInv, CallInv, TrampInv, KickInv, EintrInv, SavedInv

\* Every step of the thread, of its guest and of the host keeps the invariant.
LEMMA NextInv == ASSUME IInv, [Next]_vars PROVE IInv'
<1>1. ASSUME Thread PROVE IInv'
  <2>1. ASSUME NEW set \in Sets,
               \/ CallSigaction(set) \/ CallSigprocmask(set)
               \/ CallSigreturn(set) \/ CallSigsuspend(set)
               \/ \E nodefer, reset \in BOOLEAN : Frame(set, nodefer, reset)
        PROVE  IInv'
    BY <2>1, SetStep
  <2>2. ASSUME NEW traced \in BOOLEAN, ActQuietly(traced) PROVE IInv'
    BY <2>2, BoundaryStep
  <2>3. CASE Interpret \/ JitService \/ JitAsk \/ BlockInterrupted \/ JitLeft
    BY <2>3, EngineStep
  <2>4. CASE SvcAsk \/ SvcBack \/ Dispatch \/ CallBlocks \/ CallReturns \/ SuspendPoll
             \/ SuspendSleep \/ MaskSet \/ SvcReturns
    BY <2>4, CallStep
  <2>5. CASE Boundary \/ Serve \/ DeliverEmpty \/ DeliverServe \/ DeliverNone \/ DeliverTake
             \/ LowerStore \/ LowerLook \/ ActHandler \/ Restart
    BY <2>5, BoundaryStep
  <2>6. QED BY <1>1, <2>1, <2>2, <2>3, <2>4, <2>5 DEF Thread
<1>2. ASSUME Guest PROVE IInv'
  BY <1>2, EngineStep, CallStep DEF Guest
<1>3. ASSUME Host PROVE IInv'
  <2>1. ASSUME NEW s \in Sig, Capture(s) \/ SiblingIgnores(s) PROVE IInv'
    BY <2>1, CaptureStep, SiblingStep DEF Capture
  <2>2. CASE KickNet
    BY <2>2, KickStep
  <2>3. CASE WakeNet
    BY <2>3, WakeNetStep
  <2>4. CASE KickTimer
    BY <2>4, KickStep
  <2>5. CASE CarryNet
    BY <2>5, CaptureStep, SigAssumption DEF CarryNet
  <2>6. QED BY <1>3, <2>1, <2>2, <2>3, <2>4, <2>5 DEF Host
<1>4. QED BY <1>1, <1>2, <1>3, StutterStep DEF Next

\* The invariant holds in every state the emulator reaches.
THEOREM BoundaryInvariance == Spec => []IInv
<1>1. Init => IInv
  BY InitInv
<1>2. IInv /\ [Next]_vars => IInv'
  BY NextInv
<1>3. QED BY <1>1, <1>2, PTL DEF Spec

\* A queued signal or kick never waits behind a lowered g_sig_npend
\* (sigq_lower_npend).
THEOREM FlagsUp == Spec => []FlagUp
<1>1. IInv => FlagUp
  BY DEF IInv
<1>2. QED BY <1>1, BoundaryInvariance, PTL

\* No thread that has a timer sleeps in a host call with something due and the
\* timer not running (emu_loop, rt_sigsuspend, sig_kick_timer_arm).
THEOREM SleepsCovered == Spec => []SleepCovered
<1>1. IInv => SleepCovered
  BY DEF IInv, KickInv, TrampInv, SleepCovered
<1>2. QED BY <1>1, BoundaryInvariance, PTL

\* No thread runs in generated code with something due and its interrupt flag down
\* (jit_run).
THEOREM BlocksCovered == Spec => []BlockCovered
<1>1. IInv => BlockCovered
  BY DEF IInv
<1>2. QED BY <1>1, BoundaryInvariance, PTL

\* No EINTR of the emulator's making reaches a guest whose kernel would not show it,
\* for a call that was made
\* (sig_taken_quietly, sig_after_trap, syscall_restart_internal, syscall_unrewind).
THEOREM EintrsHidden == Spec => []EintrHidden
<1>1. IInv => EintrHidden
  BY DEF IInv, EintrInv, EintrHidden, InGuest
<1>2. QED BY <1>1, BoundaryInvariance, PTL

\* No guest code runs under the mask of a sigsuspend that is over
\* (sig_saved_mask_back, deliver_to_handler).
THEOREM SavedMasksSettled == Spec => []SavedMaskSettled
<1>1. IInv => SavedMaskSettled
  BY DEF IInv, SavedInv, SavedMaskSettled, InGuest
<1>2. QED BY <1>1, BoundaryInvariance, PTL

=============================================================================
