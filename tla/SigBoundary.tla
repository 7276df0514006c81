---------------------------- MODULE SigBoundary ----------------------------
(***************************************************************************)
(* How a guest thread is brought to the boundary of its run loop, where    *)
(* signals are delivered and tracers served (loop.c, signal.c, syscall.c). *)
(*                                                                         *)
(* Host signals run handlers on top of whatever the thread does; they only *)
(* record what came and raise flags.  The engines test the flags, a        *)
(* blocking host call is ended by the signal itself, and a signal that     *)
(* lands between the last test and the host call arms a timer that ends    *)
(* it.  A host call the emulator's own signals ended is made again without *)
(* the guest seeing it.                                                    *)
(*                                                                         *)
(* One handler is one action (every signal is blocked in it); the thread's *)
(* code is one action per look at what the handlers write.  A look at      *)
(* several flags is one action: handlers only raise them, so it gives the  *)
(* answer of one moment.  The ring is the set of numbers it holds (SigRing *)
(* has its slots); its signals are this thread's own and stay in it.  The  *)
(* kernel holds a blocked signal back: an arrival is any unblocked one.    *)
(* A tracer's stop is the moment the thread comes out of it.               *)
(***************************************************************************)
EXTENDS Naturals

CONSTANTS
    Sig,         \* guest signal numbers, in the order they are taken
    Unmaskable,  \* ... those the mirrored host mask leaves out
    Stop,        \* ... SIGSTOP, which is neither blocked nor handled
    Sets,        \* bound: the signal sets the guest passes to its calls
    MaxKicks,    \* bound: kicks sent, a tracer's or one that carries a SIGSTOP
    Timed,       \* bound: the guest's waits are charged for the time they took
    None

ASSUME SigAssumption ==
    /\ Sig \subseteq Nat /\ Unmaskable \subseteq Sig /\ Stop \in Sig
    /\ Sets \subseteq SUBSET (Sig \ {Stop})
ASSUME BoundAssumption == MaxKicks \in Nat /\ Timed \in BOOLEAN
ASSUME NoneAssumption == None \notin Sig /\ \A set \in SUBSET Sig : None # set

VARIABLES
    jit,        \* the thread runs translated code
    timer,      \* g_kick_timer_ok: the host had a timer for the thread
    pend,       \* numbers in the capture ring
    kicks,      \* kicks sent so far
    hmask,      \* the host thread's blocked set
    handled,    \* numbers with a handler; the others, but Stop, are ignored
    (* flags the handlers and the thread share *)
    npend,      \* g_sig_npend
    jitIntr,    \* env->interrupt
    ptKick,     \* g_ptrace_kick
    inSyscall,  \* g_sig_in_syscall
    kickArmed,  \* g_kick_armed
    selfintr,   \* g_sig_selfintr
    (* the thread *)
    sigmask,    \* g_tls.sigmask
    saved,      \* g_tls.saved_sigmask, or None
    tramp,      \* the guest is on the sigreturn trampoline
    sc,         \* its call: see Calls
    plain,      \* ... is one that a stop ends with EINTR
    restarted,  \* g_tls.sc_restarted
    waited,     \* g_tls.sc_waited_ns is not 0
    pc, ret,    \* where the thread is, and where it goes from there
    cur         \* the signal taken

flagVars == <<npend, jitIntr, ptKick, inSyscall, kickArmed, selfintr>>
maskVars == <<hmask, sigmask, saved>>
callVars == <<sc, plain, restarted, waited>>
worldVars == <<jit, timer, kicks, handled>>
vars == <<worldVars, pend, flagVars, maskVars, tramp, callVars, pc, ret, cur>>

\* Where the guest stands, seen from the SVC of the call last made (sc_svc_pc):
\*   none, again     elsewhere, or in that call, being made again;
\*   eintr, rewound  behind it with EINTR, before it to make it once more;
\*   same            before it with another call of the guest's;
\*   unmade, mixed   the same two places, with a call that was taken for the
\*                   one rewound: it has the EINTR or the first argument of that.
Calls == {"none", "again", "eintr", "rewound", "same", "unmade", "mixed"}

\* c->pc == sc_svc_pc, and c->pc == sc_svc_pc + 4 with sc_ret_eintr up.
AtSvc == sc \in {"rewound", "same", "mixed"}
BehindSvc == sc \in {"eintr", "unmade"}

\* sig_pending_deliverable
Deliverable == {s \in pend : s \notin sigmask /\ s \in handled \cup {Stop}}

\* emu_callout_due
CalloutDue == npend /\ (ptKick \/ (~tramp /\ Deliverable # {}))

\* sig_set_to_host
ToHost(set) == set \ Unmaskable

Goto(p, q) == pc = p /\ pc' = q

-----------------------------------------------------------------------------
(* The handlers.                                                           *)

\* A handler has no SA_RESTART: it ends the host call the thread sleeps in.
Interrupt ==
    /\ pc' = CASE pc = "sleep" -> "ret" [] pc = "suspend" -> "poll" [] OTHER -> pc
    /\ sc' = IF pc = "sleep" THEN "eintr" ELSE sc

\* sig_selfintr
SelfIntr == selfintr \/ inSyscall

\* Mutant: the timer is not armed.
ArmNever == UNCHANGED kickArmed

\* sig_kick_timer_arm, from a handler.
Arm == kickArmed' = (kickArmed \/ (timer /\ inSyscall))

\* sigq_push and jit_signal_interrupt.
Push(s) ==
    IF s \in pend
    THEN UNCHANGED <<pend, npend, jitIntr>>
    ELSE pend' = pend \cup {s} /\ npend' = TRUE /\ jitIntr' = TRUE

\* sig_capture_push
CapturePush(s) ==
    /\ selfintr' = IF s \in sigmask THEN SelfIntr ELSE selfintr
    /\ Push(s)
    /\ IF s \in pend THEN UNCHANGED kickArmed ELSE Arm
    /\ Interrupt
    /\ UNCHANGED <<jit, timer, handled, ptKick, inSyscall, maskVars, tramp, plain, restarted, waited,
                   ret, cur>>

\* host_catcher: SIGSTOP cannot be caught.
Capture(s) ==
    /\ s \notin hmask \cup {Stop}
    /\ CapturePush(s)
    /\ UNCHANGED kicks

\* sig_kick_net: a tracer's call-out.
KickNet ==
    /\ kicks < MaxKicks /\ kicks' = kicks + 1
    /\ ptKick' = TRUE /\ npend' = TRUE /\ jitIntr' = TRUE
    /\ selfintr' = SelfIntr
    /\ Arm
    /\ Interrupt
    /\ UNCHANGED <<jit, timer, handled, pend, inSyscall, maskVars, tramp, plain, restarted, waited,
                   ret, cur>>

\* ... a guest's SIGSTOP to a traced process, which the kick carries.
CarryNet ==
    /\ kicks < MaxKicks /\ kicks' = kicks + 1
    /\ CapturePush(Stop)

\* ... a tracee's wake of its tracer.
WakeNet ==
    /\ selfintr' = SelfIntr
    /\ Arm
    /\ Interrupt
    /\ UNCHANGED <<worldVars, pend, npend, jitIntr, ptKick, inSyscall, maskVars, tramp, plain,
                   restarted, waited, ret, cur>>

\* ... the kick timer, which fires until it is disarmed.
KickTimer ==
    /\ kickArmed
    /\ selfintr' = SelfIntr /\ npend' = TRUE /\ jitIntr' = TRUE
    /\ Interrupt
    /\ UNCHANGED <<worldVars, pend, ptKick, inSyscall, kickArmed, maskVars, tramp, plain,
                   restarted, waited, ret, cur>>

\* Another thread's rt_sigaction has a signal ignored from now on.
SiblingIgnores(s) ==
    /\ handled' = handled \ {s}
    /\ UNCHANGED <<jit, timer, kicks, pend, flagVars, maskVars, tramp, callVars, pc, ret, cur>>

-----------------------------------------------------------------------------
(* The engines.                                                            *)

\* The guest moves on, and may come back to the SVC (told apart from any other
\* place only while sc_restarted is up).
Past == sc' = "none" \/ (restarted /\ ~tramp /\ sc' = "same")

\* The interpreter: an instruction, and a test of g_sig_npend after it.
Interpret ==
    /\ ~jit /\ ~AtSvc
    /\ Goto("engine", IF npend THEN "boundary" ELSE "engine")
    /\ Past
    /\ UNCHANGED <<worldVars, pend, flagVars, maskVars, tramp, plain, restarted, waited, ret, cur>>

\* jit_run: the interrupt flag is serviced, ...
JitService ==
    /\ jit /\ Goto("engine", "ask")
    /\ jitIntr' = FALSE
    /\ UNCHANGED <<worldVars, pend, npend, ptKick, inSyscall, kickArmed, selfintr, maskVars,
                   tramp, callVars, ret, cur>>

\* Mutant: generated code is entered whatever the flag stood for.
JitAskNothing ==
    /\ Goto("ask", "block")
    /\ UNCHANGED <<worldVars, pend, flagVars, maskVars, tramp, callVars, ret, cur>>

\* ... what it stood for is answered, ...
JitAsk ==
    /\ Goto("ask", IF CalloutDue THEN "boundary" ELSE "block")
    /\ UNCHANGED <<worldVars, pend, flagVars, maskVars, tramp, callVars, ret, cur>>

\* ... and blocks run until one is entered with the flag up ...
BlockInterrupted ==
    /\ jitIntr /\ Goto("block", "left")
    /\ UNCHANGED <<worldVars, pend, flagVars, maskVars, tramp, callVars, ret, cur>>

\* ... or the guest's code leaves them, if it ever does.
BlockEnds ==
    /\ ~AtSvc /\ Goto("block", "left")
    /\ Past
    /\ UNCHANGED <<worldVars, pend, flagVars, maskVars, tramp, plain, restarted, waited, ret, cur>>

JitLeft ==
    /\ Goto("left", IF npend THEN "boundary" ELSE "engine")
    /\ UNCHANGED <<worldVars, pend, flagVars, maskVars, tramp, callVars, ret, cur>>

Engine == IF jit THEN "block" ELSE "engine"

\* A guest handler returns, to the trampoline that makes its rt_sigreturn.
HandlerReturns ==
    /\ pc = Engine /\ ~AtSvc /\ ~tramp
    /\ tramp' = TRUE
    /\ sc' = "none"
    /\ UNCHANGED <<worldVars, pend, flagVars, maskVars, plain, restarted, waited, pc, ret, cur>>

-----------------------------------------------------------------------------
(* Tracers.                                                                *)

\* sc_restart_nohandler
RestartsAnyway == BehindSvc /\ ~plain

\* ptrace_service_kick: a SEIZE is adopted, the tracee traps (sig_after_trap),
\* or an ATTACH queues its SIGSTOP (sig_raise_attach_stop), before a trap or not.
ServiceKick(again) ==
    IF ptKick
    THEN /\ ptKick' = FALSE
         /\ \/ UNCHANGED <<pend, npend, jitIntr, selfintr>>
            \/ UNCHANGED <<pend, npend, jitIntr>> /\ selfintr' = again
            \/ Push(Stop) /\ selfintr' \in {FALSE, again}
    ELSE UNCHANGED <<pend, npend, jitIntr, ptKick, selfintr>>

-----------------------------------------------------------------------------
(* System calls.                                                           *)

\* The guest executes the SVC it stands at, or moves on to one.
ToSvc == IF AtSvc THEN UNCHANGED sc ELSE Past

\* Mutant: the flag is not raised.
SvcUnflagged ==
    /\ Goto(Engine, "svc")
    /\ ToSvc
    /\ UNCHANGED <<worldVars, pend, flagVars, maskVars, tramp, plain, restarted, waited, ret, cur>>

\* emu_loop at an SVC: the flag goes up before the look for what is due.
Svc ==
    /\ Goto(Engine, "svc")
    /\ inSyscall' = TRUE
    /\ ToSvc
    /\ UNCHANGED <<worldVars, pend, npend, jitIntr, ptKick, kickArmed, selfintr, maskVars, tramp,
                   plain, restarted, waited, ret, cur>>

SvcAsk ==
    /\ Goto("svc", IF CalloutDue THEN "back" ELSE "dispatch")
    /\ UNCHANGED <<worldVars, pend, flagVars, maskVars, tramp, callVars, ret, cur>>

\* Something is due: the guest is put back before the SVC.
SvcBack ==
    /\ Goto("back", "boundary")
    /\ inSyscall' = FALSE
    /\ UNCHANGED <<worldVars, pend, npend, jitIntr, ptKick, kickArmed, selfintr, maskVars, tramp,
                   callVars, ret, cur>>

\* syscall_dispatch: earlier interruptions are not this call's, and a call
\* that was rewound keeps the time it has waited.
Dispatch ==
    /\ Goto("dispatch", IF tramp THEN "sigreturn" ELSE "call")
    /\ selfintr' = FALSE
    /\ restarted' = FALSE
    /\ waited' = (restarted /\ waited)
    /\ sc' = CASE sc = "rewound" -> "again" [] sc = "mixed" -> "mixed" [] OTHER -> "none"
    /\ plain' = (sc = "rewound" /\ plain)
    /\ UNCHANGED <<worldVars, pend, npend, jitIntr, ptKick, inSyscall, kickArmed, maskVars, tramp,
                   ret, cur>>

\* A call that blocks enters the host's.
CallBlocks ==
    /\ Goto("call", "sleep")
    /\ sc # "again" => plain' \in BOOLEAN
    /\ sc = "again" => UNCHANGED plain
    /\ UNCHANGED <<worldVars, pend, flagVars, maskVars, tramp, sc, restarted, waited, ret, cur>>

\* A call that does not, and one whose wait is over.
Returns(from) ==
    /\ Goto(from, "ret")
    /\ sc' = "none"
    /\ UNCHANGED <<worldVars, pend, flagVars, maskVars, tramp, plain, restarted, waited, ret, cur>>
CallReturns == Returns("call")
SleepEnds == Returns("sleep")

\* rt_sigaction
CallSigaction(set) ==
    /\ Goto("call", "ret")
    /\ handled' = set
    /\ sc' = "none"
    /\ UNCHANGED <<jit, timer, kicks, pend, flagVars, maskVars, tramp, plain, restarted, waited, ret,
                   cur>>

\* Sets the guest's mask; the host's follows, on the way to q.
SetMask(mask, q) == sigmask' = mask /\ pc' = "mask" /\ ret' = q

\* rt_sigprocmask
CallSigprocmask(mask) ==
    /\ pc = "call" /\ SetMask(mask, "ret")
    /\ sc' = "none"
    /\ UNCHANGED <<worldVars, pend, flagVars, hmask, saved, tramp, plain, restarted, waited, cur>>

\* rt_sigreturn, with the mask the frame holds by now.
CallSigreturn(mask) ==
    /\ pc = "sigreturn" /\ SetMask(mask, "ret")
    /\ tramp' = FALSE
    /\ UNCHANGED <<worldVars, pend, flagVars, hmask, saved, callVars, cur>>

\* rt_sigsuspend: the caller's mask is kept, ...
CallSigsuspend(mask) ==
    /\ pc = "call" /\ SetMask(mask, "poll")
    /\ saved' = sigmask
    /\ plain' = FALSE
    /\ UNCHANGED <<worldVars, pend, flagVars, hmask, tramp, sc, restarted, waited, cur>>

\* ... and the thread looks for a signal to deliver and for a tracer's kick,
\* which is served here (what sig_after_trap makes of it goes by the EINTR of
\* whatever call was last) ...
SuspendPoll ==
    /\ pc = "poll"
    /\ IF Deliverable # {}
       THEN pc' = "ret" /\ sc' = "eintr" /\ UNCHANGED <<pend, npend, jitIntr, ptKick, selfintr>>
       ELSE /\ pc' = IF ptKick THEN "poll" ELSE "doze"
            /\ \E again \in BOOLEAN : ServiceKick(again)
            /\ UNCHANGED sc
    /\ UNCHANGED <<worldVars, inSyscall, kickArmed, maskVars, tramp, plain, restarted, waited, ret,
                   cur>>

\* ... and only then sleeps (sig_host_suspend), until a handler has run.
SuspendSleep ==
    /\ Goto("doze", "suspend")
    /\ UNCHANGED <<worldVars, pend, flagVars, maskVars, tramp, callVars, ret, cur>>

\* sig_sync_host_mask
MaskSet ==
    /\ Goto("mask", ret)
    /\ hmask' = ToHost(sigmask)
    /\ ret' = "engine"
    /\ UNCHANGED <<worldVars, pend, flagVars, sigmask, saved, tramp, callVars, cur>>

SvcReturns ==
    /\ Goto("ret", "boundary")
    /\ inSyscall' = FALSE
    /\ UNCHANGED <<worldVars, pend, npend, jitIntr, ptKick, kickArmed, selfintr, maskVars, tramp,
                   callVars, ret, cur>>

-----------------------------------------------------------------------------
(* The boundary.                                                           *)

\* The timer is disarmed; what is due now interrupts the call the guest stands
\* before, if sc_restarted says that it was rewound (syscall_unrewind).
Boundary ==
    /\ Goto("boundary", IF npend \/ ptKick THEN "serve" ELSE "restart")
    /\ kickArmed' = FALSE
    /\ IF npend /\ restarted /\ AtSvc
       THEN sc' = (IF sc = "rewound" THEN "eintr" ELSE "unmade") /\ selfintr' = TRUE
       ELSE UNCHANGED <<sc, selfintr>>
    /\ UNCHANGED <<worldVars, pend, npend, jitIntr, ptKick, inSyscall, maskVars, tramp, plain,
                   restarted, waited, ret, cur>>

\* The kick first, then signals, but none on the trampoline.
Serve ==
    /\ Goto("serve", IF npend /\ ~tramp THEN "deliver" ELSE "restart")
    /\ ServiceKick(RestartsAnyway)
    /\ UNCHANGED <<worldVars, inSyscall, kickArmed, maskVars, tramp, callVars, ret, cur>>

\* Mutant: only a handler's frame gives the mask back.
SavedMaskKept(q) == pc' = q /\ UNCHANGED <<sigmask, saved, ret>>

\* sig_saved_mask_back, on the way to q.
SavedMaskBack(q) ==
    IF saved = None
    THEN pc' = q /\ UNCHANGED <<sigmask, saved, ret>>
    ELSE SetMask(saved, q) /\ saved' = None

Lowest(set) == {s \in set : \A t \in set : s <= t}

\* sig_deliver_pending: the ring is empty, ...
DeliverEmpty ==
    /\ pc = "deliver" /\ pend = {}
    /\ SavedMaskBack("lower")
    /\ UNCHANGED <<worldVars, pend, flagVars, hmask, tramp, callVars, cur>>

\* ... or a kick that came meanwhile goes first, ...
DeliverServe ==
    /\ pend # {} /\ Goto("deliver", "pick")
    /\ ServiceKick(RestartsAnyway)
    /\ UNCHANGED <<worldVars, inSyscall, kickArmed, maskVars, tramp, callVars, ret, cur>>

\* ... and all the ring holds is blocked, ...
DeliverNone ==
    /\ pc = "pick" /\ pend \subseteq sigmask
    /\ SavedMaskBack("restart")
    /\ UNCHANGED <<worldVars, pend, flagVars, hmask, tramp, callVars, cur>>

\* ... or one is taken, and the flag lowered if it was the last.
DeliverTake ==
    /\ \E s \in Lowest(pend \ sigmask) :
        /\ cur' = s
        /\ pend' = pend \ {s}
        /\ Goto("pick", IF pend' = {} THEN "lower" ELSE "act")
    /\ UNCHANGED <<worldVars, flagVars, maskVars, tramp, callVars, ret>>

\* sigq_lower_npend: lowered first ...
LowerStore ==
    /\ Goto("lower", "look")
    /\ npend' = FALSE
    /\ UNCHANGED <<worldVars, pend, jitIntr, ptKick, inSyscall, kickArmed, selfintr, maskVars,
                   tramp, callVars, ret, cur>>

\* Mutant: the flag stays down whatever came since the ring was found empty.
LowerNoLook ==
    /\ Goto("look", IF cur = None THEN "restart" ELSE "act")
    /\ UNCHANGED <<worldVars, pend, flagVars, maskVars, tramp, callVars, ret, cur>>

\* Mutant: the delivery goes on with a signal nobody took.
LowerLookActs ==
    /\ Goto("look", "act")
    /\ npend' = (npend \/ pend # {} \/ ptKick)
    /\ UNCHANGED <<worldVars, pend, jitIntr, ptKick, inSyscall, kickArmed, selfintr, maskVars,
                   tramp, callVars, ret, cur>>

\* ... and looked at again.
LowerLook ==
    /\ Goto("look", IF cur = None THEN "restart" ELSE "act")
    /\ npend' = (npend \/ pend # {} \/ ptKick)
    /\ UNCHANGED <<worldVars, pend, jitIntr, ptKick, inSyscall, kickArmed, selfintr, maskVars,
                   tramp, callVars, ret, cur>>

\* Mutant: the call an ignored signal interrupted is left interrupted.
ActQuietlyVisible(traced) ==
    /\ traced \/ cur \notin handled
    /\ Goto("act", "deliver")
    /\ cur' = None
    /\ UNCHANGED <<worldVars, pend, flagVars, maskVars, tramp, callVars, ret>>

\* sig_taken_quietly: ignored, or suppressed by a tracer.
ActQuietly(traced) ==
    /\ traced \/ cur \notin handled
    /\ Goto("act", "deliver")
    /\ selfintr' = (~traced \/ RestartsAnyway)
    /\ cur' = None
    /\ UNCHANGED <<worldVars, pend, npend, jitIntr, ptKick, inSyscall, kickArmed, maskVars, tramp,
                   callVars, ret>>

\* The disposition is a handler, ...
ActHandler ==
    /\ cur \in handled /\ Goto("act", "frame")
    /\ UNCHANGED <<worldVars, pend, flagVars, maskVars, tramp, callVars, ret, cur>>

\* ... and deliver_to_handler takes what it is by then: the frame settles the
\* call and takes the saved mask; the action adds its own mask and, but for
\* SA_NODEFER, the signal, and with SA_RESETHAND goes.
Frame(mask, nodefer, reset) ==
    /\ pc = "frame"
    /\ SetMask((sigmask \cup mask \cup (IF nodefer THEN {} ELSE {cur})) \ {Stop}, "restart")
    /\ saved' = None
    /\ handled' = IF reset THEN handled \ {cur} ELSE handled
    /\ sc' = "none"
    /\ cur' = None
    /\ UNCHANGED <<jit, timer, kicks, pend, flagVars, hmask, tramp, plain, restarted, waited>>

\* syscall_restart_internal: a call our own signal interrupted is rewound, and
\* charged with its wait if it keeps the time of one.
Restart ==
    /\ Goto("restart", "engine")
    /\ selfintr' = FALSE
    /\ IF selfintr /\ BehindSvc
       THEN /\ sc' = IF sc = "eintr" THEN "rewound" ELSE "mixed"
            /\ restarted' = TRUE /\ waited' \in {waited, waited \/ Timed}
       ELSE UNCHANGED <<sc, restarted, waited>>
    /\ UNCHANGED <<worldVars, pend, npend, jitIntr, ptKick, inSyscall, kickArmed, maskVars, tramp,
                   plain, ret, cur>>

-----------------------------------------------------------------------------
\* sig_kick_timer_init, for a thread about to run guest code: the host may be
\* out of timers.
Init ==
    /\ jit \in BOOLEAN /\ timer \in BOOLEAN /\ handled = {}
    /\ pend = {} /\ kicks = 0 /\ hmask = {} /\ sigmask = {} /\ saved = None
    /\ npend = FALSE /\ jitIntr = FALSE /\ ptKick = FALSE /\ inSyscall = FALSE
    /\ kickArmed = FALSE /\ selfintr = FALSE
    /\ tramp = FALSE /\ sc = "none" /\ plain = FALSE /\ restarted = FALSE /\ waited = FALSE
    /\ pc = "engine" /\ ret = "engine" /\ cur = None

\* What the thread does as soon as it can run.
Thread ==
    \/ Interpret \/ JitService \/ JitAsk \/ BlockInterrupted \/ JitLeft
    \/ SvcAsk \/ SvcBack \/ Dispatch \/ CallBlocks \/ CallReturns
    \/ SuspendPoll \/ SuspendSleep \/ MaskSet \/ SvcReturns
    \/ Boundary \/ Serve \/ DeliverEmpty \/ DeliverServe \/ DeliverNone \/ DeliverTake
    \/ LowerStore \/ LowerLook \/ ActHandler \/ Restart
    \/ \E traced \in BOOLEAN : ActQuietly(traced)
    \/ \E set \in Sets :
        \/ CallSigaction(set) \/ CallSigprocmask(set) \/ CallSigreturn(set) \/ CallSigsuspend(set)
        \/ \E nodefer, reset \in BOOLEAN : Frame(set, nodefer, reset)

\* What the guest's code, or the wait it makes, may never come to.
Guest == BlockEnds \/ HandlerReturns \/ Svc \/ SleepEnds

Host == KickNet \/ CarryNet \/ WakeNet \/ KickTimer \/ \E s \in Sig : Capture(s) \/ SiblingIgnores(s)

Next == Thread \/ Guest \/ Host

Spec == Init /\ [][Next]_vars

\* The host runs the thread and its timer, and the guest's code gets to the SVC
\* when it is the next instruction, as on the trampoline, or the one rewound to.
StraightToSvc == (tramp \/ AtSvc) /\ Svc
Fairness == WF_vars(Thread) /\ WF_vars(KickTimer) /\ SF_vars(StraightToSvc)

FairSpec == Spec /\ Fairness

-----------------------------------------------------------------------------
\* Types; and a disposition is looked up for a signal that was taken only.
TypeOK ==
    /\ jit \in BOOLEAN /\ timer \in BOOLEAN /\ handled \subseteq Sig \ {Stop} /\ kicks \in 0..MaxKicks
    /\ pend \subseteq Sig /\ hmask \subseteq Sig /\ sigmask \subseteq Sig \ {Stop}
    /\ saved = None \/ saved \subseteq Sig \ {Stop}
    /\ npend \in BOOLEAN /\ jitIntr \in BOOLEAN /\ ptKick \in BOOLEAN /\ inSyscall \in BOOLEAN
    /\ kickArmed \in BOOLEAN /\ selfintr \in BOOLEAN
    /\ tramp \in BOOLEAN /\ sc \in Calls /\ plain \in BOOLEAN
    /\ restarted \in BOOLEAN /\ waited \in BOOLEAN
    /\ pc \in {"engine", "ask", "block", "left", "svc", "back", "dispatch", "call", "sigreturn",
               "sleep", "poll", "doze", "suspend", "mask", "ret", "boundary", "serve", "deliver",
               "pick", "lower", "look", "act", "frame", "restart"}
    /\ ret \in {"engine", "ret", "poll", "lower", "restart"}
    /\ cur \in Sig \cup {None} /\ (pc \in {"act", "frame"} => cur # None)

\* What is queued is flagged: a signal in the ring, or a tracer's kick, keeps
\* g_sig_npend up, but between the two halves of sigq_lower_npend.
FlagUp == (pend # {} \/ ptKick) /\ pc # "look" => npend

\* A thread asleep in a host call, in a read as in a sigsuspend, with something
\* due has its timer running, which will end the call (emu_loop's order of flag
\* and look, sig_kick_timer_arm).  For a thread the host had a timer for: where
\* there is none "the hole stays as it was" (signal.c).
SleepCovered ==
    timer /\ pc \in {"sleep", "suspend"} /\ (ptKick \/ Deliverable # {}) => kickArmed

\* A thread in generated code with something due has env->interrupt up, the
\* only flag that code reads (jit_run, jit_signal_interrupt).
BlockCovered ==
    pc = "block" /\ (ptKick \/ (~tramp /\ Deliverable # {})) => jitIntr

InGuest == pc \in {"engine", "ask", "block", "left"}

\* A call that was made shows the guest an EINTR no handler of its own explains
\* only if it is one that a stop ends so; every other one the emulator's signals,
\* or signals that are ignored or blocked, have ended is made again
\* (sig_selfintr, sig_taken_quietly, syscall_restart_internal, syscall_unrewind).
\* A call that was not made is OwnArgument's.
EintrHidden == InGuest /\ sc = "eintr" => plain

\* The mask a sigsuspend slept under is never the guest's afterwards: it went
\* into a frame or back (deliver_to_handler, sig_saved_mask_back).
SavedMaskSettled == InGuest => saved = None

\* A signal that can be delivered makes the thread take one, whatever it is
\* doing: looping in a block, asleep in a call, or on its way there; given the
\* timer, as for SleepCovered.
Delivered == []<>(timer => cur # None \/ Deliverable = {})

\* A tracer's kick is served, given the timer.
KickServed == []<>(timer => ~ptKick)

\* "resets on the first dispatch that is not a restart" (syscall.c): a call that
\* is not the one rewound starts with nothing waited.
FreshWait == pc \in {"call", "sleep"} /\ sc # "again" => ~waited

\* "the thread may be sitting at an SVC we rewound" (loop.c): what the boundary
\* takes for a call in progress is the one rewound, so that no call is made with
\* the first argument of another (syscall_unrewind, syscall_restart_internal).
OwnArgument == pc = "call" => sc # "mixed"

=============================================================================
