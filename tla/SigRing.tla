------------------------------ MODULE SigRing ------------------------------
(***************************************************************************)
(* The capture ring of one guest thread (signal.c).                        *)
(*                                                                         *)
(* The host delivers a guest signal to the capture handler, which runs on  *)
(* top of whatever the thread is doing and appends it to the ring; the     *)
(* thread takes it out at its next boundary.  The handler runs with every  *)
(* signal blocked, so it is one action; the thread's own code is one       *)
(* action per access to what the handler reads or writes.                  *)
(*                                                                         *)
(* The ring never waits to be full: while it has SIGQ_GATE slots left the  *)
(* handler blocks, in the mask it returns to, every signal that may be     *)
(* blocked, and the rest of a burst stays in the kernel's queue until a    *)
(* consumer has made room (the gate).                                      *)
(*                                                                         *)
(* `ring' lists the slots from sigq_tail to sigq_head.  How the thread is  *)
(* brought to its boundary is SigBoundary's subject, what becomes of the   *)
(* signals of a thread that blocks them or exits SigRoute's.               *)
(***************************************************************************)
EXTENDS Integers, Sequences, FiniteSets, SequencesExt

CONSTANTS
    Sig,          \* guest signal numbers in use
    Ungateable,   \* ... those the gate and the mirrored mask leave out
    Sync,         \* ... those dequeued first (synchronous faults, SIGSYS)
    Handled,      \* ... those with a handler; the others are ignored
    SigqMin,      \* SIGQ_MIN
    SigqLimit,    \* sigq_limit()
    SigqGate,     \* SIGQ_GATE
    MaxSent,      \* bound: instances sent of each number
    Masks,        \* bound: the masks the guest sets
    None

\* The numbers let through are standard ones, which coalesce.  The kick's own
\* number, real-time and let through too, is left out: a guest that sends that
\* "can still find the queue full" (signal.c).
ASSUME SigAssumption ==
    /\ Sig \subseteq 1..64
    /\ Ungateable \subseteq Sig /\ Sync \subseteq Sig /\ Handled \subseteq Sig /\ Masks \subseteq SUBSET Sig
    /\ \A s \in Ungateable : s < 32
ASSUME SizeAssumption ==
    /\ SigqMin \in Nat /\ SigqLimit \in Nat /\ SigqGate \in Nat
    /\ SigqMin <= SigqLimit /\ 2 * SigqGate < SigqMin
    /\ MaxSent \in [Sig -> Nat]
\* What the gate's headroom is made of: one slot for each number it lets
\* through, one for the arrival that shuts it and one for the arrival a
\* concurrent mask change lets through (8 = 6 + 2 in the code).
ASSUME HeadroomAssumption == Cardinality(Ungateable) + 2 <= SigqGate
ASSUME NoneAssumption == None \notin Int

VARIABLES
    kq,         \* instances pending in the kernel, per number, oldest first
    hmask,      \* the host thread's blocked set
    sent,       \* instances sent so far, per number
    ring,       \* what is between sigq_tail and sigq_head
    cap,        \* sigq_cap
    cnt,        \* sigq_cnt
    growReq,    \* sigq_grow_req
    gated,      \* sigq_gated
    sigmask,    \* g_tls.sigmask
    taken,      \* instances taken out of the ring, per number
    lost,       \* numbers of which the full ring dropped an instance
    overtaken,  \* a mask set has opened what the gate had shut since it was read
    pc, ret,    \* where the thread is, and where it goes from there
    slot,       \* the slot being taken, while it is
    cur,        \* the signal taken
    wmask       \* a host mask computed and not yet set

hostVars == <<kq, sent>>
ringVars == <<ring, cap, cnt, growReq>>
gateVars == <<hmask, gated>>
guestVars == <<sigmask, taken, lost, overtaken>>
localVars == <<ret, slot, cur, wmask>>
vars == <<hostVars, ringVars, gateVars, guestVars, pc, localVars>>

Entries == Sig \X Nat
Standard == {s \in Sig : s < 32}
Used == Len(ring)

\* sig_set_to_host: the part of a guest set the host mask can hold.
ToHost(set) == set \ Ungateable

-----------------------------------------------------------------------------
(* The host and the capture handler.                                       *)

\* sigq_gate: block what may be blocked in the mask the handler returns to.
SigqGateShut ==
    LET gate == (Sig \ Ungateable) \ hmask IN
    /\ hmask' = hmask \cup gate
    /\ gated' = gated \cup gate

\* Mutant: the gate shuts only for the last slot.
GateDueLast == cap - 2 - Used < 1

\* The headroom test of sigq_push, on the count before the push.
GateDue == cap - 2 - Used < SigqGate

\* The request to grow.
GrowDue == Used * 4 >= cap * 3

\* An instance of a standard signal is already queued.
Coalesces(s) == s \in Standard /\ cnt[s] > 0

\* Mutant: the ring is not tested for being full.
SigqPushUnchecked(s, n) ==
    IF Coalesces(s)
    THEN UNCHANGED <<ringVars, gateVars, lost>>
    ELSE /\ growReq' = (growReq \/ GrowDue)
         /\ ring' = Append(ring, <<s, n>>)
         /\ cnt' = [cnt EXCEPT ![s] = @ + 1]
         /\ IF GateDue THEN SigqGateShut ELSE UNCHANGED gateVars
         /\ UNCHANGED <<cap, lost>>

\* host_catcher, sig_capture_push and sigq_push for instance n of s.
SigqPush(s, n) ==
    IF Coalesces(s)
    THEN UNCHANGED <<ringVars, gateVars, lost>>
    ELSE /\ growReq' = (growReq \/ GrowDue)
         /\ UNCHANGED cap
         /\ IF Used = cap - 1
            THEN /\ lost' = lost \cup {s}
                 /\ UNCHANGED <<ring, cnt, gateVars>>
            ELSE /\ ring' = Append(ring, <<s, n>>)
                 /\ cnt' = [cnt EXCEPT ![s] = @ + 1]
                 /\ IF GateDue THEN SigqGateShut ELSE UNCHANGED gateVars
                 /\ UNCHANGED lost

\* Instance numbers are told apart for real-time signals only.
Instance(s) == IF s \in Standard THEN 0 ELSE sent[s] + 1

\* A signal is sent.  One the thread does not block is captured at once (one
\* that is delivered later might as well have been sent later); a blocked one
\* is the kernel's, where a standard one already pending absorbs it.
Send(s) ==
    /\ sent[s] < MaxSent[s]
    /\ sent' = [sent EXCEPT ![s] = @ + 1]
    /\ IF s \in hmask \/ kq[s] # <<>>
       THEN /\ kq' = [kq EXCEPT ![s] = IF s \in Standard THEN <<0>>
                                       ELSE Append(@, sent[s] + 1)]
            /\ UNCHANGED <<ringVars, gateVars, lost>>
       ELSE SigqPush(s, Instance(s)) /\ UNCHANGED kq
    /\ UNCHANGED <<sigmask, taken, overtaken, pc, localVars>>

\* The host delivers one it held, now unblocked.
Capture(s) ==
    /\ kq[s] # <<>> /\ s \notin hmask
    /\ kq' = [kq EXCEPT ![s] = Tail(@)]
    /\ SigqPush(s, Head(kq[s]))
    /\ UNCHANGED <<sent, sigmask, taken, overtaken, pc, localVars>>

-----------------------------------------------------------------------------
(* sigq_sync: every consumer's first act.                                  *)

\* The boundary of the run loop, which goes on to deliver, and a system call,
\* which asks whether there is something to deliver before it is made.
SyncBegin ==
    /\ pc = "run" /\ pc' = "sync"
    /\ ret' \in {"deliver", "asked"}
    /\ UNCHANGED <<hostVars, ringVars, gateVars, guestVars, slot, cur, wmask>>

SyncGrow ==
    /\ pc = "sync"
    /\ growReq' = FALSE
    /\ pc' = IF growReq /\ cap < SigqLimit THEN "grow" ELSE "gate"
    /\ UNCHANGED <<hostVars, ring, cap, cnt, gateVars, guestVars, localVars>>

\* sigq_regrow: the copy and the swap, with the handler kept out; or malloc
\* failed.
SyncSwap ==
    /\ pc = "grow" /\ pc' = "gate"
    /\ cap' \in {cap, IF cap * 2 > SigqLimit THEN SigqLimit ELSE cap * 2}
    /\ UNCHANGED <<hostVars, ring, cnt, growReq, gateVars, guestVars, localVars>>

\* sigq_ungate: what was gated is forgotten ...
UngateRoom == cap - 1 - Used >= 2 * SigqGate
SyncUngate ==
    /\ pc = "gate"
    /\ IF gated # {} /\ UngateRoom
       THEN wmask' = gated \ ToHost(sigmask) /\ gated' = {} /\ pc' = "ungate"
       ELSE pc' = ret /\ UNCHANGED <<wmask, gated>>
    /\ UNCHANGED <<hostVars, ringVars, hmask, guestVars, ret, slot, cur>>

\* ... and then unblocked.
SyncUnblock ==
    /\ pc = "ungate" /\ pc' = ret
    /\ hmask' = hmask \ wmask
    /\ wmask' = {}
    /\ UNCHANGED <<hostVars, ringVars, gated, guestVars, ret, slot, cur>>

-----------------------------------------------------------------------------
(* The loop of sig_deliver_pending.                                        *)

\* sigq_pick: a synchronous signal first, then the lowest number, then the
\* oldest of it.
Before(i, j) ==
    LET a == ring[i][1]
        b == ring[j][1]
    IN  \/ a \in Sync /\ b \notin Sync
        \/ (a \in Sync <=> b \in Sync) /\ (a < b \/ (a = b /\ i <= j))

Candidates == {i \in 1..Used : ring[i][1] \notin sigmask}

DeliverPick ==
    /\ pc = "deliver"
    /\ IF Candidates = {}
       THEN pc' = "run" /\ UNCHANGED slot
       ELSE /\ \E i \in Candidates : (\A j \in Candidates : Before(i, j)) /\ slot' = i
            /\ pc' = "take"
    /\ UNCHANGED <<hostVars, ringVars, gateVars, guestVars, ret, cur, wmask>>

\* Mutant: the count is left as it was.
TakeCountKept ==
    /\ pc = "take" /\ pc' = "shift"
    /\ cur' = ring[slot][1]
    /\ taken' = [taken EXCEPT ![ring[slot][1]] = @ + 1]
    /\ UNCHANGED <<hostVars, ringVars, gateVars, sigmask, lost, overtaken, ret, slot, wmask>>

\* sigq_take: the count first ...
TakeCount ==
    /\ pc = "take" /\ pc' = "shift"
    /\ LET s == ring[slot][1] IN
       /\ cur' = s
       /\ cnt' = [cnt EXCEPT ![s] = @ - 1]
       /\ taken' = [taken EXCEPT ![s] = @ + 1]
    /\ UNCHANGED <<hostVars, ring, cap, growReq, gateVars, sigmask, lost, overtaken, ret,
                   slot, wmask>>

\* Mutant: the tail moves past the oldest entry, whichever was taken.
TakeShiftNone ==
    /\ pc = "shift" /\ slot # 1
    /\ slot' = slot - 1
    /\ UNCHANGED <<hostVars, ringVars, gateVars, guestVars, pc, ret, cur, wmask>>

\* ... then the older entries move up by one, one at a time ...
TakeShift ==
    /\ pc = "shift" /\ slot # 1
    /\ ring' = [ring EXCEPT ![slot] = ring[slot - 1]]
    /\ slot' = slot - 1
    /\ UNCHANGED <<hostVars, cap, cnt, growReq, gateVars, guestVars, pc, ret, cur, wmask>>

\* ... and the tail follows.
TakeTail ==
    /\ pc = "shift" /\ slot = 1
    /\ ring' = Tail(ring)
    /\ slot' = None /\ pc' = "act"
    /\ UNCHANGED <<hostVars, cap, cnt, growReq, gateVars, guestVars, ret, cur, wmask>>

\* An ignored signal is dropped ...
ActIgnored ==
    /\ pc = "act" /\ pc' = "deliver"
    /\ cur \notin Handled
    /\ cur' = None
    /\ UNCHANGED <<hostVars, ringVars, gateVars, guestVars, ret, slot, wmask>>

\* ... another one's handler is entered, with the signal blocked
\* (deliver_to_handler).
ActHandler ==
    /\ pc = "act" /\ pc' = "mask" /\ ret' = "run"
    /\ cur \in Handled
    /\ sigmask' = sigmask \cup {cur}
    /\ cur' = None
    /\ UNCHANGED <<hostVars, ringVars, gateVars, taken, lost, overtaken, slot, wmask>>

-----------------------------------------------------------------------------
(* System calls: the guest's mask.                                         *)

\* sig_pending_deliverable
Deliverable == {s \in Sig : cnt[s] > 0 /\ s \notin sigmask /\ s \in Handled}

\* emu_loop at an SVC: what is due is delivered before the call is made.
SvcAsked ==
    /\ pc = "asked"
    /\ IF Deliverable = {} THEN pc' = "call" /\ UNCHANGED ret ELSE pc' = "sync" /\ ret' = "deliver"
    /\ UNCHANGED <<hostVars, ringVars, gateVars, guestVars, slot, cur, wmask>>

\* A call that leaves the mask alone; the boundary follows.
CallReturns ==
    /\ pc = "call" /\ pc' = "sync" /\ ret' = "deliver"
    /\ UNCHANGED <<hostVars, ringVars, gateVars, guestVars, slot, cur, wmask>>

\* rt_sigprocmask, and rt_sigreturn, which is not asked for what is due.
SetMask(mask) ==
    /\ pc \in {"run", "call"} /\ pc' = "mask" /\ ret' = "sync"
    /\ sigmask' = mask
    /\ UNCHANGED <<hostVars, ringVars, gateVars, taken, lost, overtaken, slot, cur, wmask>>

\* sig_sync_host_mask: the gate's set is read ...
MaskRead ==
    /\ pc = "mask" /\ pc' = "setmask"
    /\ wmask' = ToHost(sigmask) \cup gated
    /\ UNCHANGED <<hostVars, ringVars, gateVars, guestVars, ret, slot, cur>>

\* ... and the mask set, on the way into a handler or to the boundary.
MaskSet ==
    /\ pc = "setmask" /\ pc' = ret /\ ret' = "deliver"
    /\ hmask' = wmask /\ wmask' = {}
    /\ overtaken' = (overtaken \/ ~(gated \subseteq wmask))
    /\ UNCHANGED <<hostVars, ringVars, gated, sigmask, taken, lost, slot, cur>>

-----------------------------------------------------------------------------
Init ==
    /\ kq = [s \in Sig |-> <<>>] /\ hmask = {} /\ sent = [s \in Sig |-> 0]
    /\ ring = <<>> /\ cap = SigqMin
    /\ cnt = [s \in Sig |-> 0] /\ growReq = FALSE /\ gated = {}
    /\ sigmask = {} /\ taken = [s \in Sig |-> 0] /\ lost = {} /\ overtaken = FALSE
    /\ pc = "run" /\ ret = "deliver" /\ slot = None /\ cur = None /\ wmask = {}

Thread ==
    \/ SyncBegin \/ SyncGrow \/ SyncSwap \/ SyncUngate \/ SyncUnblock
    \/ DeliverPick \/ TakeCount \/ TakeShift \/ TakeTail \/ ActIgnored \/ ActHandler
    \/ SvcAsked \/ CallReturns \/ MaskRead \/ MaskSet
    \/ \E mask \in Masks : SetMask(mask)

Next == Thread \/ \E s \in Sig : Send(s) \/ Capture(s)

Spec == Init /\ [][Next]_vars

-----------------------------------------------------------------------------
TypeOK ==
    /\ kq \in [Sig -> Seq(Nat)] /\ hmask \subseteq Sig /\ sent \in [Sig -> Nat]
    /\ cap \in SigqMin..SigqLimit /\ ring \in Seq(Entries) /\ Used < cap
    /\ cnt \in [Sig -> Nat] /\ growReq \in BOOLEAN /\ gated \subseteq Sig
    /\ sigmask \subseteq Sig /\ taken \in [Sig -> Nat] /\ lost \subseteq Sig /\ overtaken \in BOOLEAN
    /\ pc \in {"run", "sync", "grow", "gate", "ungate", "deliver", "take", "shift", "act",
               "asked", "call", "mask", "setmask"}
    /\ ret \in {"deliver", "asked", "sync", "run"}
    /\ slot \in (1..Used) \cup {None} /\ cur \in Sig \cup {None}
    /\ wmask \subseteq Sig

\* The ring without the slot an entry is being removed from, once sigq_take
\* has counted it out.
Contents == IF pc = "shift" THEN RemoveAt(ring, slot) ELSE ring

\* The instances of number s in the ring, oldest first.
RingOf(s) ==
    LET mine == SelectSeq(Contents, LAMBDA e : e[1] = s)
    IN  [i \in 1..Len(mine) |-> mine[i][2]]

\* Real-time instances leave the ring in the order they were sent, each once:
\* the ring's, followed by the kernel's, are the consecutive instances after
\* the ones taken -- through captures in the middle of sigq_take, growth and
\* the gate (sigq_push, sigq_take, sigq_regrow, sigq_gate).
InOrder ==
    \A s \in Sig \ (Standard \cup lost) :
        RingOf(s) \o kq[s] = [i \in 1..(sent[s] - taken[s]) |-> taken[s] + i]

\* sigq_cnt says what the ring holds: a count left raised would make a standard
\* signal coalesce into nothing for ever, one too low would queue it twice.
CountsMatch ==
    \A s \in Sig :
        /\ cnt[s] = Len(RingOf(s))
        /\ s \in Standard => cnt[s] <= 1

\* No signal the gate can hold back is dropped, unless a mask set opens the
\* gate: it shuts while there is room for all that can still arrive
\* (sigq_push, SIGQ_GATE).
GateHolds == ~overtaken => lost \subseteq Ungateable

\* "SIGQ_GATE slots of headroom is what early means, and it is enough for what
\* a shut gate still lets through" (signal.c): none is dropped at all.
GateableKept == lost \subseteq Ungateable

=============================================================================
