--------------------------- MODULE SigBoundaryInv ---------------------------
(***************************************************************************)
(* The inductive invariant of SigBoundary: what each property becomes at   *)
(* the points of the run loop and of a system call that lead up to it.     *)
(***************************************************************************)
EXTENDS SigBoundary

AtMask(targets) == pc = "mask" /\ ret \in targets

\* What is taken from the ring is a signal.
PendInv == pend \subseteq Sig

\* SIGSTOP is in no mask, so that an attach's is taken.
StopInv == Stop \notin sigmask /\ (saved # None => Stop \notin saved)

\* A mask being set has somewhere to go.
MaskInv == pc = "mask" => ret \in {"ret", "poll", "lower", "restart"}

\* From the SVC to the return of the call g_sig_in_syscall is up, so every
\* handler that lands in between arms the timer and marks the call as its own.
FlagInv ==
    \/ pc \in {"svc", "back", "dispatch", "call", "sleep", "poll", "doze", "suspend", "sigreturn",
               "ret"}
    \/ AtMask({"ret", "poll"})
    => inSyscall

\* A call in progress has not been interrupted yet.
CallInv ==
    pc \in {"call", "sleep", "poll", "doze", "suspend"} \/ AtMask({"poll"}) => sc # "eintr"

\* On the trampoline the guest makes its rt_sigreturn and nothing else, and no
\* call is waiting to be settled.
TrampInv ==
    tramp => /\ pc \notin {"call", "sleep", "poll", "doze", "suspend", "deliver", "pick", "lower",
                           "look", "act", "frame"}
             /\ ~AtMask({"poll", "lower"})
             /\ ~AtSvc /\ ~BehindSvc

\* Since emu_loop, or a sigsuspend, looked, whatever became due has armed the
\* timer, if there is one.
KickInv ==
    /\ timer /\ pc \in {"dispatch", "call", "sleep", "doze", "suspend"}
    /\ ptKick \/ (~tramp /\ Deliverable # {})
    => kickArmed

\* An interrupted call that is to be hidden has something to hide it by: the
\* emulator's own mark, or a signal on its way to a disposition.
EintrInv ==
    sc = "eintr" /\ ~plain =>
        \/ pc \in {"ret", "boundary", "serve", "deliver", "pick"} /\ (selfintr \/ pend \ sigmask # {})
        \/ pc \in {"lower", "look"} /\ (selfintr \/ cur # None)
        \/ AtMask({"lower", "restart"}) /\ selfintr
        \/ pc = "restart" /\ selfintr
        \/ pc \in {"act", "frame"}

\* The mask a sigsuspend keeps is on its way to sig_deliver_pending, which a
\* signal in the ring is certain to bring about.
SavedInv ==
    saved # None =>
        \/ pc \in {"poll", "doze", "suspend", "deliver", "pick", "act", "frame"} \/ AtMask({"poll"})
        \/ pc \in {"ret", "boundary", "serve"} /\ pend # {} /\ ~tramp
        \/ pc \in {"lower", "look"} /\ cur # None

IInv ==
    /\ PendInv /\ StopInv /\ FlagUp /\ BlockCovered
    /\ MaskInv /\ FlagInv /\ CallInv /\ TrampInv /\ KickInv /\ EintrInv /\ SavedInv

=============================================================================
