# A verification project for arm64chroot

arm64chroot runs AArch64 Linux programs from a root directory on another host. Every guest
thread is a host thread, every guest process a host process; guest pids, tids and file
descriptors are the host's. The emulator interprets or translates guest code, mediates every
guest system call, and re-creates in user space what a kernel keeps per process (address space,
signal queues, thread groups) and across processes (process registry, ptrace, System V IPC).
Nearly everything that is hard about it is concurrency: threads over one shared address space
with lock-free fast paths, signal handlers interrupting the code whose data they write, and
processes sharing memory that any of them may be killed in the middle of writing.

This directory holds TLA+ modules for those parts, TLC configurations that check them on small
instances, and theorems whose proofs TLAPS checks.

## 1. Inventory

| Part (source) | State | Operations | Who interacts | What is hard |
|---|---|---|---|---|
| Address space and quarantine (`mem.c`, `mmu.h`) | page table, regions, host allocations, generation `g_as_gen`, published epochs `g_pub`, per-thread D-TLB, loans | translate, map, unmap, mremap, protect, grow, lend, drain | every thread; generated code; system calls | a pointer used without the lock after the page it names was unmapped |
| Fetch cache (`mmu.h`) | one host code page per thread | fetch, flush | the thread, others' mapping changes | no generation test on the fast path |
| Regions and locked memory (`mem.c`, `sys_mm.c`) | region list, `locked_vm` | split, merge, mlock, stack growth, SIGBUS recovery, fork | threads under the lock | accounting across splits and moves |
| JIT code cache (`jit/jit.c`) | blocks per thread, code map, interrupt flags | translate, chain, invalidate, flush, disable | all threads | a thread inside generated code has to be called out |
| Code generation (`jit/frontend.c`, `jit/backend_*.c`) | none shared | instruction selection | | sequential |
| Instruction semantics (`core/`, `predecode.c`) | CPU registers, exclusive monitor | one per instruction | threads, through atomics | sequential but for the exclusives |
| Run loop and dispatch (`loop.c`, `syscall.c`) | pending exception, flags | step, dispatch, deliver | capture handlers, ptrace | order of services at a boundary |
| Signals (`signal.c`, `sys_sig.c`) | capture ring per thread, gate, mask mirror, hand-back table, dispositions, group stop | capture, deliver, mask change, retarget, restart, sigreturn | host kernel, handlers, threads, tracers | handler against the code it interrupts; lost and reordered signals |
| Process lifecycle (`sys_proc.c`) | thread count, exit code, `dethread_state`, vfork page, child table | clone, exit, park, exec, vfork, wait | threads, children, tracers | the exec rendezvous; who ends the process |
| Fork safety (`main.c`, `machine.h`, `path.c`) | ranked locks, fd windows, held fds | lock, unlock, fork | all threads | deadlock against nested holders |
| ptrace channel (`ptracetab.c`) | shared links: identity, stop state, mailbox | stop, serve, attach, wait, detach, die | tracers, tracees, real parents | slots reused, kicks lost, either side killed |
| Process registry (`proctab.c`) | shared slots with a sequence lock, inbox | reserve, publish, read, reap, post, take | all processes | killed mid-write, pid reuse, a late receiver |
| IPC broker (`proctab.c`, `sys_ipc.c`) | segments, sets, queues, parked waiters, undo | get, op, ctl, expire, reclaim | client processes | clients dying while they hold or wait |
| Futexes (`sys_misc.c`) | host words | wait, wake, requeue, robust walk | threads | the host address of a guest word |
| seccomp (`sys_seccomp.c`) | filter chain | install, sync, evaluate | threads | a pure interpreter with edge cases |
| Paths (`path.c`) | bind table, root | resolve, pin | threads | `..` and links against the root |
| Time (`sys_time.c`) | timer slots | create, set, delete | capture handler | saturation |
| ELF, files, sockets, netlink, `/proc`, tracing | | | | marshalling and formatting |

The correctness properties worth stating, in the order of what a violation costs: guest accesses
and host system calls touch only memory that is still mapped; caches that are used without a lock
agree with the tables they cache; nothing is forgotten (backing, slots, signals, waiters); a
signal that was sent is delivered once and in order; the process ends once, with the right
status; a wait that should end does; shared slots are never acted on by a stranger.

## 2. What is modelled now

### `Quarantine`: reclaiming guest memory

The core of the emulator's multithreading. Guest memory lives in host allocations
(`Backings`); the page table maps pages to them (`host`). An allocation nobody maps any more is
*retired* with the generation of the moment, and returned to the host (`"gone"`) only once every
thread that might still hold a pointer into it has published a later generation.

| Code | Model |
|---|---|
| `g_as_gen`, `as->nthreads` | `asGen`, `members` |
| `g_pub[].gen/.blocked`, `g_pub_slot`, `g_pub_over` | `pubGen`, `blocked`, `reg` |
| D-TLB entries and `dtlb_gen` | `dtlb`, `dtlbGen` |
| `HostMap` life, `retired_gen` | `bk`, `rgen` |
| `env->interrupt`, registry of JIT environments | `interrupt`, `envOn` |
| `guest_lend`'s pins | `loan` |
| the address-space lock and how far its holder has got | `phase`, `pc[t] = "mm"` |
| `translate()` | `TranslateSync`, `TranslatePublish`, `TranslateHit`, `TranslateMiss`, `TranslateWalk`, `Use` |
| generated code's probe, block entry and call-out | `JitProbe`, `JitEnter`, `JitLeave`, `JitService`, `DtlbReset` |
| `as_tlb_block_begin` / `_end` around a system call | `BlockBegin`, `BlockEnd` |
| map, unmap, mremap, mprotect, in-place and moving grow | `MapFresh`, `Unmap`, `RemapMove`, `RemapCopy`, `Protect`, `GrowInPlace`, `GrowMoved`, then `Bump`, `Notify`, `GrowUnref` |
| `as_drain_retired`, `dtlb_safe_gen` | `Gate`, `OverTest`, `ScanSlot` (one slot read per step), `Release` |
| `guest_lend`, `guest_unlend` | `Lend`, `Unlend` |
| clone of a thread, its failure, thread exit, leader exit | `CloneEnter`, `CloneStart`, `CloneUndo`, `ThreadExit`, `LeaderExit`, `Unpublish`, `LeaveCount`, `ThreadGone` |

One action is one access to shared memory, so a drain's scan interleaves with publishes, system calls
and thread exits slot by slot. (Claiming an epoch slot and giving it back are one action each; a
drain that reads the slot between their stores finds generation 0, and releases nothing.) Contents of memory, permissions and addresses are left out;
host allocations are never reused under the same name (the host may reuse the address; using a
name once makes every late access visible).

`FetchCache` adds the instruction-fetch cache. `QuarantineTSO` adds the store buffer that lets
`as_tlb_block_end`'s plain store become visible late.

### `SigRing`: one thread's capture ring

The host delivers a guest signal to a capture handler, which appends it to the thread's ring; the
thread takes it out at its boundary. The handler is one action (it runs with every signal
blocked); the thread's code is one action per access to what the handler reads or writes.

| Code | Model |
|---|---|
| slots between `sigq_tail` and `sigq_head`, `sigq_cap`, `sigq_cnt`, `sigq_grow_req` | `ring`, `cap`, `cnt`, `growReq` |
| `sigq_gated`, the host thread's mask, `g_tls.sigmask` | `gated`, `hmask`, `sigmask` |
| the kernel's queue (external) | `kq`, `Send` |
| `host_catcher`, `sig_capture_push`, `sigq_push`, `sigq_gate` | `Capture`, `SigqPush`, `SigqGateShut` |
| `sigq_sync`, `sigq_regrow`, `sigq_ungate` | `SyncBegin`, `SyncGrow`, `SyncSwap`, `SyncUngate`, `SyncUnblock` |
| `sigq_pick`, `sigq_take` | `DeliverPick`, `TakeCount`, `TakeShift` (one slot per step), `TakeTail` |
| dispositions, the SVC check, mask changes | `ActIgnored`, `ActHandler`, `SvcAsked`, `CallReturns`, `SetMask`, `MaskRead`, `MaskSet` |

An entry is a number and, for real-time signals, the instance it is. The numbers the gate lets
through are the five faults and `SIGSYS`, which coalesce; the kick's own number, which is real-time
and let through as well, is left out: as the comment on the queue says, a guest that sends it can
still overrun the ring. Left out too: entries injected by
a tracer or directed at the thread (they change the order of `sigq_pick`), hand-back to other
threads (`sig_retarget`), and the flags, which are the next module's.

### `SigBoundary`: bringing the thread to its boundary

Signals are delivered and tracers served only at the boundary of `emu_loop`. Handlers raise flags;
the engines test them; a sleeping host call is ended by the signal itself, and one about to be
entered by a timer, where the host had one to give. A call that the emulator's own signals ended is
rewound and made again.

| Code | Model |
|---|---|
| `g_sig_npend`, `env->interrupt`, `g_ptrace_kick`, `g_sig_in_syscall`, `g_kick_armed`, `g_sig_selfintr` | `npend`, `jitIntr`, `ptKick`, `inSyscall`, `kickArmed`, `selfintr` |
| numbers in the ring, masks | `pend`, `sigmask`, `saved`, `hmask` |
| `g_kick_timer_ok` | `timer`, either way from `Init` |
| `sc_ret_eintr` and the PC against `sc_svc_pc`; `sc_nr`; `sc_restarted`; `sc_waited_ns` | `sc`, `plain`, `restarted`, `waited` |
| `host_catcher`, `sig_kick_net`, the kick timer | `Capture`, `KickNet`, `CarryNet`, `WakeNet`, `KickTimer` |
| `pd_run`, `jit_run` | `Interpret`; `JitService`, `JitAsk`, `BlockInterrupted`, `BlockEnds`, `JitLeft` |
| the SVC case of `emu_loop`, `syscall_dispatch` | `Svc`, `SvcAsk`, `SvcBack`, `Dispatch`, `CallBlocks`, `CallReturns`, `SleepEnds`, `SvcReturns` |
| `rt_sigaction`, `rt_sigprocmask`, `rt_sigreturn`, `rt_sigsuspend` | `CallSigaction`, `CallSigprocmask`, `CallSigreturn`, `CallSigsuspend`, `SuspendPoll`, `SuspendSleep`, `MaskSet` |
| the services of the boundary | `Boundary`, `Serve`, `DeliverEmpty`, `DeliverServe`, `DeliverNone`, `DeliverTake`, `LowerStore`, `LowerLook`, `ActQuietly`, `ActHandler`, `Frame`, `Restart` |
| `ptrace_service_kick`, `sig_raise_attach_stop`, `sig_after_trap` | `ServiceKick` |

`sc` says where the guest stands seen from the SVC of its last call, which is what `syscall_unrewind`
and `syscall_restart_internal` compare PCs for. `sc_restarted` survives a rewind that was undone, so
the guest may come back to that SVC with another call (`"same"`: libraries make many calls through
one SVC) and have it taken for the rewound one: it is given EINTR unmade (`"unmade"`) and, when that
is to be hidden, made with the first argument of the old call (`"mixed"`).

A number is handled or ignored, and `SIGSTOP` is neither; other default actions that end or stop the
process are left out, as are execve's call-out (`stop_gen`), job control beyond the queued `SIGSTOP`,
what a tracer does in a stop, and another thread's installing a handler for a number that was
ignored (its ignoring one is `SiblingIgnores`). `HandlerReturns` lets the guest reach the sigreturn
trampoline at any time.

### Properties

* `GuestAccessSafe`: no guest load or store goes through a pointer into unmapped backing.
* `LoanSafe`: memory lent to a host call stays until the loan ends.
* `DtlbCoherent`: a D-TLB of the current generation agrees with the page table.
* `BackingAccounted`: a mapped allocation is live, and an allocation nobody maps is on a list.

* `InOrder`: real-time instances leave the ring once each and in the order they were sent, through
  captures in the middle of a removal, growth and the gate.
* `CountsMatch`: the counts standard signals coalesce by say what the ring holds.
* `GateHolds`: no signal the gate can hold back is dropped, unless a mask set has opened the gate.
* `FlagUp`, `SleepCovered`, `BlockCovered`: something due is never behind a lowered flag, behind a
  host call with the timer not running, or behind generated code with its interrupt flag down.
* `EintrHidden`: of the calls that were made, only those a stop ends so show an EINTR no guest
  handler explains.
* `SavedMaskSettled`: no guest code runs under the mask of a `sigsuspend` that is over.
* `Delivered`, `KickServed` (liveness): a deliverable signal is taken or stops being deliverable; a
  tracer's kick is served.

`SleepCovered`, `Delivered` and `KickServed` speak of a thread that has its timer (`timer`). For one
that has not, the comment on the timer says so itself: "the hole stays as it was" (`signal.c`); the
other properties hold for both.

### Runs

| Run | Instance | Shows |
|---|---|---|
| `quarantine` | interpreting leader, JIT thread, 1 page, 2 allocations, `MaxGen` 3 | the four properties in every interleaving of accesses, mapping changes, loans and exits |
| `quarantine_over` | a table of one epoch slot for two interpreting threads, 1 page, 2 shared allocations, `MaxGen` 3 | the same when a thread finds no slot |
| `quarantine_pages` | one JIT thread, 2 pages, 3 allocations, `MaxGen` 4 | moves, copies and moving grows |
| `handler_copy` | as `quarantine` | violated: a handler's own copy is not protected while its thread is marked blocked, against the comment in `syscall.c` |
| `ghost_epoch` | as `quarantine` | violated: the CLEARTID store of a dying thread registers its epoch again |
| `fetch_cache` | two threads | violated: another thread's fetch cache survives a mapping change |
| `block_end_tso` | two threads with store buffers | violated: a drain skips a thread that already runs |
| `signal_ring` | a fault number, an ignored and a handled real-time number; ring of 8 slots growing to 10, headroom 3 | the ring's properties under bursts that fill it |
| `gate_headroom` | as `signal_ring` | violated: a mask computed before the gate shut and set after it opens it, and the ring fills, against the comment on the queue in `signal.c` |
| `boundary` | a blockable and an unmaskable number and `SIGSTOP`, the sets {} and both numbers, one kick, either engine, with a timer and without | the flags, EINTR and mask properties, and the two liveness properties |
| `restart_wait` | as `boundary` | violated: `sc_restarted` outlives a rewind that was undone, and the next call inherits the time waited, against the comment in `syscall.c` |
| `own_argument` | as `boundary` | violated: another call, at the SVC of the one whose rewind was undone, is taken for it and made with its first argument |

Bounds. Two threads give every race of one mutator with one reader; a third adds only more
readers, which do not interact with each other. One retirement, one drain that must not release
and one that must need two generations; `MaxGen` 3 (4 where a grow bumps twice) has both.
Deadlock is not checked: threads exit, and mapping changes stop at `MaxGen`.

The ring's headroom in the code is 8: one slot for each of the 6 standard numbers the gate leaves
out, and 2. The instance has one such number and 3 slots, and enough instances are sent to fill
the ring before it has grown, or with a `malloc` refused; a grown ring shuts its gate and is not
filled. Deadlock is not checked
there: the bound on instances ends the sending, the thread may go on. In `boundary` one signal the
host can block and one it cannot are the two cases of `sig_set_to_host`, and `SIGSTOP` the signal an
attach queues; signals are re-sent without bound, kicks once, and deadlock is checked. The time a
wait took (`Timed`) is charged only in `restart_wait`, the one run that asks about it.

Fairness. `quarantine*` and `signal_ring` assume none. `boundary` assumes weak fairness of the
thread's own steps (the host schedules it, and a step the emulator can take is taken) and of its
interval timer, which fires until it is disarmed; and strong fairness of reaching the SVC when it
is the very next instruction, on the trampoline or after a rewind: signals may interrupt the way
there, not for ever. Nothing is assumed of the guest's code otherwise: it may loop in a block for
ever, and of a host call only that a signal ends it.

## 3. What is proved

`QuarantineProofs` proves, for any finite set of threads and any pages, allocations, epoch slots
and generation bound:

* `Invariance`: `Spec => []IInv`
* `TypeCorrect`, `AccessSafety`, `LoanSafety`, `DtlbCoherence`: the properties above.

`GuestAccessSafe` is not inductive: what makes an access safe is a relation between the
retirement generation of an allocation, the epoch the thread published, whether it is registered
or counted over, and how much of the table the drain in progress has read. `QuarantineInv` states
that relation. For a pointer in a thread's hand (`HandInv`) and for every D-TLB entry
(`EntryInv`): if the allocation is out of use, the thread's published generation is no newer than
its retirement; and `Held` says that a drain that has already passed the thread's slot has a
generation in `gens` that keeps the allocation. A JIT thread's entries are used without a
generation test, so `EntryInv` also says what a clear interrupt flag implies (`Serviced`).
`ControlInv` carries the bookkeeping (no generation runs ahead of `g_as_gen`, a blocked thread is
in a system call, ...).

`QuarantineTypes` proves that each action keeps the types, `QuarantineLocal` that each action
that writes only one thread's variables keeps the invariant, and `QuarantineProofs` the actions
of the lock's holder and of thread arrival and departure. The assumptions are the named `ASSUME`s
of `Quarantine`: `Main` and `Jit` are threads, `None` is neither a page nor an allocation, there
are finitely many threads, bounds are naturals.

`SigBoundaryProofs` proves, for any signals, sets and number of kicks:

* `BoundaryInvariance`: `Spec => []IInv`
* `FlagsUp`, `SleepsCovered`, `BlocksCovered`, `EintrsHidden`, `SavedMasksSettled`: the safety
  properties of `SigBoundary`.

`FlagUp` and the entry into a block are inductive as they stand. The others concern the end of a
path and `SigBoundaryInv` says what holds along it: `g_sig_in_syscall` is up from the SVC to the
return (`FlagInv`), so whatever became due since the SVC check, or since a `sigsuspend` looked, has
armed the timer if there is one (`KickInv`); an
interrupted call that must stay hidden always has the emulator's mark, an unblocked signal in the
ring or a signal in hand (`EintrInv`), and a saved mask a signal in the ring that is certain to
bring the thread to `sig_deliver_pending` (`SavedInv`). Both need the trampoline, where no signal
is delivered, to be free of interrupted calls (`TrampInv`), and an attach's `SIGSTOP`, which takes
the emulator's mark off the call, to be in no mask (`StopInv`). The assumptions used are that `None`
is no signal and no set, and that `SIGSTOP` is a signal no set of the guest's holds, which the code
sees to wherever it sets a mask.

`BackingAccounted`, the ring's properties and, being liveness, `Delivered` and `KickServed` are
model-checked only. `FetchCache` and `QuarantineTSO` have no theorems: what
they state is violated.

## 4. Plan

In this order, each with an MC module, a run and, where the argument is worth it, a proof:

1. `SigRoute`: hand-back of a thread's signals at a mask change and at its end, thread-directed and
   injected entries, sigwait; then proofs about `SigRing`.
2. `ThreadGroup`: clone, exit, the parked leader and the `de_thread` rendezvous; the process ends
   once, with the last status, and an exec finds itself alone. `Vfork`.
3. `Ptrace`: links, mailbox, stops, attach kicks, waits and deaths on either side, with an
   abstract specification of a stop (reported once, resumed once).
4. `ProcTab` and `Carry`: reservation, sequence lock, pid reuse, inbox.
5. `IpcBroker`: semaphores, queues, segments and the death of clients.
6. `JitCode`: code map, invalidation, chaining and disabling. `AddrSpace`: regions and
   `locked_vm` against a page-by-page reference.
7. `ForkLocks`, `Futex`, and the pure algorithms (BPF, path resolution, saturating time,
   bit-mask immediates) against reference definitions.

## 5. Not modelled

Instruction selection and instruction semantics (sequential, and compared against hardware by the
repository's differential tests); file, socket, netlink and `/proc` marshalling; the ELF loader;
call tracing. Weak memory is modelled only where `QuarantineTSO` says. The host kernel is taken
at its documentation.
