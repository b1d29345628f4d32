# Macaros in TLA+

Macaros runs AROS, and classic 68k Amiga programs under it, inside one macOS
process. This directory models the parts of it whose behaviour depends on the
order in which things happen, checks the models with TLC on small instances and
proves invariants of them with TLAPS for every value of their constants.

Paths below are relative to `src/hosted/` unless they start with `src/`.

## 1. Inventory

### What the system is made of

| Component | State it keeps | Operations | Interacts with |
|---|---|---|---|
| CoreAudio ring (`coreaudio/coreaudio_shim.c`) | `slots`, free-running `head`, `tail` | `ca_ring_space`, `ca_ring_push`, render callback | AROS audio driver (producer thread), CoreAudio real-time thread (consumer) |
| CoreAudio unit (same file) | units, `started`, `formatSet`, volume | open, set_format, start, stop, close, render offline | the ring's callback |
| 68k executive (`emu68k/emu68k_host.c`, `emu68k_exec.c`, `emu68k_dos.c`) | `struct emu68k_run`: context table, `cur_ctx`, callback depth, command unwind buffer, kill flag; one translator engine for each context; the C stack | run_quantum, CreateNewProc, AddTask, Wait, Signal, Delay, Reschedule, Forbid, Permit, RunCommand, Exit, RemTask, callbacks, hooks, kill | translator (polls, continuations), event broker, OS-side loop |
| Ports, signals, semaphores (`emu68k_exec.c`) | `MsgPort`, `List` and `Message` words in guest memory, `tc_SigAlloc`, `tc_SigRecvd`, public port table | Create, Delete, Add and RemPort, Put, Get, Reply and WaitPort, AllocSignal, FreeSignal, semaphores | executive (who runs next), event broker (signals) |
| Event broker (`emu68k_host.c` 1716-1818, `emu68k_intuition.c`) | the sources, on the AROS side; a copy in `event_source[32]` | bind, unbind, pump | native Intuition, Wait and Delay; GetMsg, which tells IDCMP messages by the copy |
| Guest libraries (`emu68k_host.c` 1268-1656) | `guestlib[]`: state, base, opens and clones, the caller's registers; each engine's table of bases | OpenLibrary, CloseLibrary, and what follows a library's Init, Open, Close and Expunge (continuations) | executive, translator |
| Translator (`jit68k/`) | per engine: block cache, tail slots patched from block to block, chaining budget, poll, stop flag, continuation record; host registers that stand for the guest's while native code runs | `j5d_run`, resume, `j5d_set_poll`, `j5d_request_stop`, translate, link, free | executive, signal handlers |
| Marshalling libraries (`emu68k_intuition.c` and its siblings) | shadow structures | one native call for each guest call | native AROS |
| Hosted exec prototypes (`kern.c`, `signal.c`, `msgport.c`, `device.c`, `mem.c`, `preempt.c`) | task lists, forbid count, free list | tick, Wait, Signal, ports, allocator | SIGALRM |
| Socket pump (`bsdsocket/bsdsock_pump.c`) | registration table, kqueue filters, control pipe, latch and pipe of each `PumpSig` | register, unregister, drain, wake, wait, start, stop | pump thread, socket calls |
| Socket calls (`bsdsocket/bsdsock_shim.c`) | what a call has spent of its deadline | socket, connect, send, recv, close | socket pump |
| Clipboard (`clipboard/pasteboard.m`) | self-write token, last change count | set_text, poller | poller thread, other applications |
| Display (`cocoametal/`) | texture ring, event ring, settings ring | present, put, take, options | main thread |
| Host volume metadata (`hostvolume/hv_meta.c`, `ameta.c`) | one `.ameta` for each directory, a lock on the directory, a temporary file | write, rename, delete: read, change, prune, replace | other processes that keep metadata, other programs that create and remove files, crashes |
| Host volume paths and charset (`hostvolume/`) | none | resolve, convert | file system |

The remaining parts (resolver, shell, CPU information,
printing, third-party adapters, build and test scripts, the QEMU board
experiment) are listed in `PROJECT.json` with the reason they are not modelled.

### What is hard about it

*One thread, many contexts.* The 68k executive runs several guest Tasks by
calling `j5d_run` from inside a C function that is itself called from a
`j5d_run`: a child's turn is a C frame above its parent's. A turn can end by
returning, by a poll of the translator, by a longjmp out of the middle of the
stack, or by an error that is passed down frame by frame. Whatever is recorded
outside the C stack (`cur_ctx`, the active engine, the installed poll,
`on_stack`, `can_unwind`, `callback_depth`, `g_in_bridge`) has to be put back by every one of
these ways. Tests exercise one nesting at a time.

*Two threads, no lock.* The audio callback and the producer share two counters;
the socket pump and its waiters share registrations and a latch; the clipboard
poller races the bridge's own writes.

*Data structures in foreign memory.* Message lists are chains of words in guest
memory, manipulated word by word from calls of different contexts.

*Waiting.* The root's Wait runs its siblings until one sends the signal; a
child's Wait is parked by unwinding it. Both must not lose a signal, starve, or
miss a kill.

*Generated code that changes itself.* A translated block is patched to jump into
its successor, so that a chain runs without the dispatcher. Registers live in
the host's, the budget is counted at every entry, a signal handler zeroes it
from outside, and two kinds of block have two kinds of stack frame.

*Calls that are guest code.* OpenLibrary and CloseLibrary do their work by
sending the caller through a trampoline: the library's Init, Open or Close runs
in the caller's place, may open and close other libraries, may fault, and what
the executive has to remember meanwhile is in one record for each library.

*A timer that strikes anywhere.* The hosted exec switches tasks from SIGALRM,
between any two machine steps of Wait, Signal, a list operation or the
allocator; `Forbid` is a counter that is itself read and written in two steps.

*Crashes and other writers.* Only the metadata files of the host volume persist
anything. Several processes may rewrite one of them, and the files it speaks of
come and go meanwhile.

### What makes each component correct

- Ring: frames come out once, in order, untorn; an announced space is kept; a
  full ring drains.
- Executive: guest code runs as the context whose turn it is, on its engine; no
  context is on the stack twice; flags tell the truth; a fault stays in its
  context unless that context holds the scheduler lock; a kill ends the run;
  every runnable child is served; the run is done only when nobody is left.
- Ports: queues are first-in first-out, signal bits are exclusive, no wakeup is
  lost, WaitPort answers with a message.
- Broker: a port is known to carry IDCMP messages as long as a window uses it.
- Guest libraries: a caller gets its registers back whatever ran for it; a base
  that is held is counted; released memory holds nothing in use; a dependency
  cycle fails instead of waiting.
- Translator: translated, chained, cached, interrupted and resumed code does what
  the program says; a stop lands; safe points cost no progress.
- Hosted exec: no wakeup is lost, nobody is on two lists, the free list is never
  seen half-updated, a request is performed once, every task goes on.
- Socket pump: table and kqueue agree, no readiness is lost, none reaches a
  target that is gone, every call ends, the pump can be stopped.
- Clipboard: every external write is announced, no own write is.
- Metadata: a call is one edit of the directory's table or none, whoever else
  writes or dies; every call returns.

## 2. Modules

| Module | What it is |
|---|---|
| `AudioRing` | the ring, one step for each atomic access and each frame copied |
| `AudioFifo` | what the ring promises: a bounded queue, pushes and blocks |
| `AudioRing_proofs` | theorems about `AudioRing` |
| `GuestExec` | the executive: C stack, contexts, engines, waits, errors |
| `GuestExec_proofs` | theorems about `GuestExec` |
| `GuestPorts` | ports, signals and semaphores on words of guest memory |
| `PortFifo` | what ports promise: first-in first-out queues of messages |
| `GuestPorts_proofs` | theorems about `GuestPorts` |
| `GuestLib` | libraries loaded from disk: open, initialise, count, close, expunge, reclaim |
| `GuestLib_proofs` | theorems about `GuestLib` |
| `SocketPump` | the pump thread, the registration table, socket calls that park |
| `SocketPump_proofs` | theorems about `SocketPump` |
| `JitEngine` | the translator's engine: dispatcher, cache, native blocks, linking, safe points, nesting |
| `Guest68k` | what it promises: a 68k that executes the program block by block |
| `JitEngine_proofs` | theorems about `JitEngine` |
| `HostedExec` | the preemptive kernel, Wait and Signal, ports, a device, the allocator |
| `HeapPool` | what the allocator promises the tasks that share it |
| `DeviceIo` | what DoIO promises |
| `HostedExec_proofs` | theorems about `HostedExec` |
| `MetaOps` | the entries of an `.ameta` and what each call does to them |
| `MetaTable` | what hv_meta promises: edits in one step |
| `MetaStore` | hv_meta's read, change, prune, replace, with crashes |
| `MetaStore_proofs` | theorems about `MetaStore` |
| `MCAudioRing`, `MCGuestExec`, `MCGuestPorts`, `MCGuestLib`, `MCSocketPump`, `MCJitEngine`, `MCHostedExec`, `MCMetaStore` | what TLC runs |

### AudioRing

The producer's `ca_ring_push` is `PushBegin` (loads `head`, computes how much
fits), a `PushFrame` for each frame, `PushPublish` (stores `tail`); the callback
is `RenderBegin`, `RenderFrame`, `RenderPublish` in the same way. The counters
are free-running and wrap after `Laps * Cap`; 2^32 is a multiple of every ring
size, as `Laps * Cap` is of `Cap`. The release and acquire orderings of the code
are what allows each access to be one step here: a frame is visible when the
counter that publishes it is. `promise` is a history variable: the last answer
of `ca_ring_space` that no push has used up.

`FifoSpec` says that the ring implements `AudioFifo` with the frames between the
counters as the queue.

### GuestExec

`stack` is the C stack. A frame is a `j5d_run` (`root`, `turn`, `callback`,
`command`) or a C loop suspended under one (`sched`: a pass of
`emu68k_reschedule_siblings`; `delay`: dos.Delay; `wait`: the root's Wait).
Whenever a `j5d_run` frame is on top, its guest program makes any call that the
instance allows; whenever a loop is on top, its next iteration is the next step.
`bridge` holds `g_in_bridge`, and before it the depths that nested
entries have saved in their frames: `InBridge` and `EnterGuest` are a library
call and a nested `j5d_run`, `Back` is their return, `NotRestored` the longjmp
that passes over one.
`err` means that the top frame's function is returning an error. A context is a
record of the flags of `struct emu68k_ctx`; engine *i* belongs to context *i*
and carries the poll that is installed, the countdown to it, the stop flag and
the continuation record. `native` stands for events the native side has queued.

A call that changes state is one action with everything it does. `StartTurn` is
`emu68k_run_context_nested` up to its `j5d_run`, `EndTurn` the rest of it, used
by every way a turn ends: `Return`, `Park` (quantum or Wait of a child),
`LeaveContext` (longjmp), `PassError`. Where the code longjmps to a frame that
no longer exists the outcome of the run is `"undefined"`.

Abstractions: guest memory and the translated code are not modelled; running out
of guest memory in CreateNewProc is a `Fault`; AddTask's prelaunch hook is a
`CallHook` before it; the deadline is a `Kill` raised just before the poll that
notices it; subroutines on a caller-supplied stack do not count in
`callback_depth` and are left out. Which contexts own a native source is fixed
(`Sources`); the loop of emu68k.library that calls `run_quantum` and the native
broker are outside `src/` and are the actions `HostQuantum`, `AfterlifeQuantum`
and `NativeEvent`.

### GuestPorts

`next` and `prev` are the words `ln_Succ` and `ln_Pred` of messages and the head
and tail words of lists; `Link` and `Unlink` write them as PutMsg and GetMsg do.
One call is one action, because a call is served without a switch. Between two
calls any context may run: `GuestExec` has the switches at which that happens
(`QuantumYield`, `Delay`, `Wait`), so this module lets the contexts interleave
freely and keeps of the executive only what waiting needs. The root's WaitPort
is the C loop (`LoopReturns`, `LoopFails`), a child's is parked and resumed
(`Resume`) with the signal mask in d0.

The programs follow Exec's rules: a message is put by who holds it, a port is
waited for and deleted by its owner, and deleted when nothing is queued on it or
owed to it. FindPort, SetSignal, Procure and Vacate, and the IDCMP pump are not
modelled.

### GuestLib

`stack[c]` are the library calls context `c` is in, innermost last: a call is at
a place in library code (`init`, `undo`, `open`, `close`, `expunge`) or in the
trampoline between two (`initDone`, `openDone`, `closeDone`, `reclaim`), and an
Init or Expunge on top of the stack may call `OpenLibrary` (`OpenRefused`,
`OpenAgain`, `Load`) or `CloseLibrary` as a program may. `slot` is
`run->guestlib[]`. The continuations are one action for each way they come out:
`InitDone`, `OpenFailed`, `OpenDone`, `OpenOverflows`, `CloseDone`, `Reclaim`.
`regs[c]` says whose values the preserved registers d2-d7 and a2-a6 hold: those
of the routine at a level of a context's calls. Guest memory is a bump
allocator over cells: a library's image (with its base and the trampolines for
Init and Open), a base cloned for one opener, a trampoline for Close.
`known[c]` is the table of bases in the engine of `c`.

The libraries are the environment and keep Exec's rules: Init opens what the
library needs and closes it again when it fails, Open and Close count, a library
expunges itself in Close when nobody has it open, after closing what it had
opened. A context may fault in any of this (`Fault`), and what it held stays.

Abstractions: whether the file is found and fits is a choice; the version and
`resident` checks are part of that choice; an error return ends the run
(`OpenOverflows`); a library expunges itself only from its Close. The parent of a
load (`active_loader`) is left out, because the code only ever copies it, as are
the bootstrap of the C runtimes for posixc.library, aliases and native facades.

### SocketPump

Each task is a thread with one `PumpSig`; the pump is another thread; `boss` is
whoever calls `pump_start` and `pump_stop`. What the code does under `reg_mtx`
or under a `PumpSig`'s own mutex is one step, everything between two locks is
another. `call[t].at` is where a task's call stands: recv and send go round
`try`, `register`, `nudge` (the byte to the control pipe), `check` and `select`
(the two halves of `ps_wait`), `unregister`; connect registers once and goes
round `probe`, `check`, `select`. The answer of `pump_register` is not looked at
by these calls, and so not by the model: a call that is refused parks on nothing
until its slices are used up. `pump.at` is where the pump stands between
`kevent`, the look at the stop flag, the events of its batch (in any order), and
the wake that it raises outside the lock.

The kqueue is level-triggered: `Active` is what `kevent` returns, again and
again until somebody takes the data. (So the pump goes round without resting
while a ready socket stays registered; it does so in the code.) A filter remembers
the entry of the table it was added for, as `udata` does; `close` takes its
filters out of the kqueue.

Abstractions: data are the two directions in which a socket is ready; a deadline
is a number of slices; the wake callback of `ps_create_cb` is left out, and so are
failures of `kqueue`, `pipe` and `pthread_create`. A task destroys its `PumpSig`
when it holds no descriptor, and the pump is stopped when no task is in a call,
as `bsdsock_test.c` does.

### JitEngine

One step is one thing the signal handler can come between. The dispatcher of
`j5d_run` is `Proceed`, `Poll`, `Hit`, `Translate`, then the native block:
`ChainLoad` and `ChainStore` (the two halves of the budget's decrement at a
chain entry), `Body`, `TailSlot` (the conditional jump into the next block or to
the epilogue), `Epilogue`. Back in C the terminator that has no tail is executed
(`Jump`, `Branch`, `Own`, `Call`, `Trap`, `Rts`, `Rte`), a library call goes out
to the embedder (`CallLibrary`, answered by `Served`, `Redirect` or `Blocked`,
and meanwhile `Hook` may run the engine again, `UnLoadSeg` and `CacheClear` may
empty the cache), and `Link` patches the tail that led here. `RequestStop` is
the handler. `live` are the guest's registers while they are in host registers;
`mem` is `struct j5d_m68k_state`.

`RunsTheProgram` says that this implements `Guest68k`, a machine that has
neither blocks nor cache nor safe points: `GuestPc`, `GuestPhase`, `GuestRegs`
and `GuestRuns` read the guest's state off the engine's, wherever that is at the
time. A program is a map from addresses to blocks, each a computation on
registers, the condition codes it may leave, and a terminator.

Abstractions: what a block computes is data, so the decoders and emitters
(`M68k_LINE*.c`, `M68k_EA.c`) are not modelled; nor are the traps of the floating
point unit, the rts through a vector, code that changes itself without
CacheClear, and the diagnostics mode. The step cap and a failing allocation may
strike at any dispatch (`Fail`).

### HostedExec

The prototypes of the kernel are separate programs around one kernel; `cast`
chooses one of them, its tasks' programs and their priorities. A task's step is
a statement of Wait, Signal, PutMsg, GetMsg, WaitPort, DoIO or Allocate that
shares something; the SIGALRM handler, `Tick`, comes between any two. `Forbid`
is two steps, `ForbidLoad` and `ForbidStore`, as the increment is; the handler
returns at once while the count is not zero. `HeapSpec` and `IoSpec` say that the
allocator under `Forbid` implements `HeapPool`, and the device task with its
ports `DeviceIo`.

Abstractions: a statement on private data is no step of its own; registers that
no later step reads are reset; what freed memory contained is forgotten. Memory
is counted in units of `MEMCHUNK_TOTAL`. kern.c's workers ask for 256 bytes of a
region that never runs out; other sizes and exhaustion are mem.c's own tests.
`MEMF_REVERSE` is passed by nobody. A cast has three tasks, where exec.c and
kern.c have four. The stack probe, `library.c`, `preempt.c` and `switch.S` are left
out. `Shutdown` is the TICK_LIMIT at which a prototype ends.

### MetaStore

A call is a host operation (`Set`, `Delete`, `Rename`) followed by `Lock`, `Load`
(the change is made in the copy), a `Prune` for each name that is looked up,
`Write` (the temporary file is written and synced), `Check` or `Again`
(`same_identity`), `Replace`, which also unlocks. A move across directories reads
the old entry without a lock (`Look`), then does this in the new directory and
again in the old one. `Crash` ends a process at any of these places and
`PowerLoss` all of them; other programs create and remove files (`Outside`).
Every input or output error is a `Quit`.

`EditSpec` says that this implements `MetaTable`, where a call is one `Edit` of
the table of its directory, or none. `Notice` is the pruning: a name that was
once seen to be gone while the call was under way may lose its entry.

Abstractions: a file's protection word and comment are a value, and an entry
that says nothing is none; the text of the file, its order and its escapes are
left out, as are uid, gid and lines of unknown kind, which the code carries
along. A `read` that fails in the middle of the file is taken for its end by
`load` (`hv_meta.c:112`); the model leaves this error out, and with it that the
entries behind it are then lost. The directory is not synced after the rename,
so a host that writes directories back late may lose a finished call, or only
the first half of a move; the model takes a rename for durable, and only data
that was not synced for lost. Two processes keep metadata in step by `flock`; a
process that could not open the directory goes on without
(`MCMetaStoreUnlocked`).

### How they compose

`GuestExec` and `GuestPorts` are two views of one executive, joined at Wait,
Signal and the switch between contexts; checking their product directly is out
of reach, which is why the port module assumes only that contexts interleave,
the weakest scheduler `GuestExec` shows. `AudioRing` and `SocketPump` share
nothing with them: in the sources the pump's wake target is its own pipe.
`GuestLib` takes from the executive that a
context's turn can end, that it can fault, and that a turn replays the bases.
`JitEngine` is the inside of the `j5d_run` that `GuestExec` has as a frame: its
`Blocked` and `Poll` are that module's parked and yielding turns, its `Hook` the
nested run of a callback, its `resume` the continuation record. `HostedExec` is a
different kernel, and `MetaStore` is used by file handlers outside `src/`.

## 3. Runs

All runs have `CHECK_DEADLOCK FALSE` where the system really stops: a run of the
executive ends (`done`, `stopped`), all contexts of the port module can wait or
finish, the audio producer may never push, and a pump that cannot be joined leaves nobody
with a step.

| Run | Question | Result |
|---|---|---|
| `audio_ring` | is the ring a FIFO, without torn frames or broken promises, and does it drain | holds |
| `guest_nested` | when callbacks, hooks, commands and Exit unwind the stack out of order: is a context on it once, are its callbacks counted, is a fault laid to the right side | holds |
| `guest_waits` | do flags and continuations agree with the C stack, is the root's signal observed, is every child served after the root, is the end reported only then | holds |
| `guest_errors` | does guest code run as its own context on its own engine, does a kill end the run, is every error settled | holds |
| `guest_lib` | with libraries that open, clone, fail, fault and expunge each other: are registers, references and memory kept, does every call return | holds |
| `ports_lists` | are the linked lists queues | holds |
| `ports_waits` | are bits exclusive, is no wakeup lost, does a message end its owner's WaitPort | holds |
| `jit_engine` | does chained, cached, interrupted, nested and resumed code do what the program says, do stops land, do blocks finish | holds |
| `hosted_exec` | can a tick between any two steps lose a wakeup, a task, a message, a request or memory, or starve a task | holds |
| `meta_store` | can writers of one `.ameta`, or movers between two, lose or tear entries or wait for each other for ever, with crashes | holds |
| `socket_pump` | do table and kqueue agree, does readiness end a wait, does every call end | holds |

One run finds the code doing something else than its comments say (a finding
in `PROJECT.json`):

| Run | What TLC shows |
|---|---|
| `socket_stop` | the pump empties the byte of `pump_stop` out of the control pipe together with an older one, after it has looked at the stop flag: `pump_stop` waits for ever |

Further configurations, not in the list of runs, show the reach of the same or
neighbouring lines; TLC refutes the property each of them names. Where a comment
says otherwise it is quoted:

| Configuration | What TLC shows |
|---|---|
| `MCGuestExecRootReentered` | in the quantum that creates the first child the root is not marked on_stack (`emu68k_host.c:2313-2325`), and a child that delays enters it again; lines 3696-3698 say a sibling "cannot recursively re-enter its still-active parent" |
| `MCGuestExecForbidBroken` | after a turn nested in its Delay a child has the quantum poll, which does not look at Forbid |
| `MCGuestPortsWaitPort` | a child's WaitPort returns a signal mask instead of a message |
| `MCGuestExecDomain` | a child that exits after the root has returned longjmps past `domain_leave_guest`: `g_in_bridge`, which belongs to the process and is reset nowhere, is 1 when the next program begins, and that program's hardware accesses count as faults inside a bridge call; "the domain follows the real guest -> native -> guest nesting instead of latching on" (`emu68k_host.c:364-367`) |
| `MCGuestExecExitUnwind` | dos.Exit of one context ends the command of another |
| `MCGuestLibTurns` | a turn ends inside library code, another context calls the same library, and the first gets the other's registers back, against "preservation of the 68k ABI's D2-D7/A2-A6 registers across asynchronous guest library continuations" (`src/docs/features/68k-transparent-exec/plan.md:794-796`); `HoldsCounted` and `InPlace` fail there too: `closing_base` is overwritten in the same way, and the slot is given to the next library between CLOSE_DONE and RECLAIM, which then clears that one's image |
| `MCGuestLib`, with `KnownLive` as its invariant | a base is closed in one context and stays in the table of another's engine; "A clone the library has just freed must stop being an address the engine knows" (`emu68k_host.c:1604`). As a guest base it is decoded like any address, but it takes one of 128 entries (`j5d_engine.c:168`) |
| `MCGuestPortsSemaphore` | two contexts are inside one semaphore |
| `MCSocketPumpDestroy` | the pump, between its unlock and `ps_wake`, holds a `PumpSig` whose task unregisters, closes and destroys it |
| `MCJitEngineStopLate` | a stop that comes between the load and the store of the budget is overwritten (`j5d_engine.c:1897-1903`): the next chain entry does not park, as lines 207-209 and 297-299 say it will, only one a quantum later |
| `MCJitEngineStale` | with a sibling's engine, UnLoadSeg frees the active engine's blocks only: the other keeps blocks of bytes that are replaced, against "invalidate the whole per-run cache before any byte can be reused" (`emu68k_host.c:1250`) |
| `MCJitEngineHeld` | the dispatcher holds a pointer into the cache over a library call that may move the cache by growing it |
| `MCMetaStoreRename` | a file without an entry, renamed to a name that has one, gets the stale entry of a file removed by another program: `ameta_rename` returns (`ameta.c:448`) before it removes the target's, against "Keep the metadata with a file renamed or moved" (`hostvolume.h:119`) |
| `MCMetaStorePending` | between the host's rename and `hv_meta_rename` another writer prunes the entry; "the change first" (`hv_meta.c:226`) protects a call only from its own pruning |
| `MCMetaStoreUnlocked` | with a writer that cannot lock, another may replace the file between `same_identity` and `rename`: an edit is lost, though "the identity check below guards against a writer that cannot lock" (`hv_meta.c:196`) |

`MCGuestExecTurns` is a configuration that holds: `TypeOK`, `ExecutesAsItself`,
`FlagsMatchStack`, `ContinuationKept` and `DoneMeansAlone` with Signal, Wait,
Delay, Create, Return and Exit together. Other `Calls` in it refute more of
`GuestExec`'s properties:

| `Calls` | Property | What TLC shows |
|---|---|---|
| Delay, Create, Hook, Return (quanta of 3) | `ContinuationKept` | a hook called by a child stays on the root's engine: the child's continuation is recorded there |
| Delay, Create, Callback, Return | `CallbackPollKept` | a turn given inside a callback leaves a yielding poll for the rest of it |
| Delay, Create, Signal, Wait (`FairSpec`) | `SignalObserved` | Delay in a loop keeps clearing the poll countdown: the turn never ends and the root below never sees its signal |
| Delay, Create, Callback, Exit | `DepthIsNesting` | dos.Exit inside a callback leaves callback_depth raised |
| Delay, Create, Forbid, Fault | `LockHolderFaultIsLoud` | the scheduler looks at the creator's Forbid when a context that holds it faults in its first turn |
| Delay, Create, Fault | `FaultedStaysOut` | a context that faulted in its first turn is not quarantined and runs again |
| Wait, Create, Fault | `FaultContained` | the sweep of the root's Wait does not contain faults, the scheduler pass does |

So several passing runs hold only for the calls they allow, because another call
breaks the same property: `guest_waits` has no hooks and no Delay,
`guest_errors` no callbacks. `guest_lib` has turns that end between library
calls and not within one (`Preempt`). The tables above are the other half of
the statement.

### Bounds

- Ring: 4 slots, 2 laps, pushes up to 2 and blocks up to 3 frames of 2 values.
  A push and a block can each wrap, straddle the end of the counter and find the
  ring full, empty or in between. The proofs cover the other sizes.
- Executive: 3 contexts (the root, a child, and one more that is created by
  either or runs as the other's sibling), one signal, quanta of 2 (3 where a call
  has to fit between two polls), one nested callback, command and Forbid, one
  scheduler pass for each Delay, one sweep for each Wait (2 where liveness is
  asked). Every nesting of two turns, with a third context to be served or
  passed over, occurs; each run names the calls of its programs (`Calls`) to keep
  the state space small, and the runs together use all of them.
- Ports: 2 contexts, one of them the root (its WaitPort loops, the other's is
  parked), 2 ports, 3 messages with one bit for each Task (`ports_lists`: lists of
  up to three nodes, replies, a second port that finds no bit) or 1 message with
  two bits (`ports_waits`: two ports of one Task, a bit that is freed with its port
  and used again, a message that moves between the ports).

- Guest libraries: 2 contexts, one of which may fault, 2 libraries, one of them
  cloning; either the first needs the second or each needs the other; 2 slots, 3
  opens of a library, 7 cells of memory, 2 bases held by a program. Slots, opens
  and memory run out, a library is expunged with and without something behind
  it in memory, and its slot and addresses are used again.
- Socket pump: 2 tasks, 1 descriptor, 1 entry of the table, 1 direction, 2
  slices. One entry and one descriptor make both tasks meet in the same entry: a
  registration is refused, an entry and a descriptor are reused while an event of
  their last user is in the pump's batch, a call times out with a wake under way,
  and the pump is stopped and started with bits left in latches and pipes. The
  proofs cover more tasks, descriptors, entries and directions.

- Translator: 4 blocks, one register of two values, three programs: a loop of two
  blocks with a condition, left by a library call; a subroutine whose return is
  `Return` of the outer run, that goes from an integer block into a floating point
  one; a trap and an instruction of the dispatcher's own. A quantum of 2, a cache
  that grows from 1 to 2 blocks and then overflows, two nested runs, a stack of
  two. Chains are cut by budget, stop, cache overflow, CacheClear and nesting.
- Hosted exec: 3 tasks in four casts (three busy tasks of two priorities, a
  producer and a consumer beside a busy task, a device and its client beside
  one, three workers), a heap of 4 units with blocks of 1 and 2, so that it
  fragments, coalesces on both sides and runs out. `CHECK_DEADLOCK FALSE` because
  a prototype stops at its TICK_LIMIT.
- Metadata: 2 processes, one that renames, moves and deletes and one that renames,
  moves and writes; 2 directories, with two files and one, 2 values; either
  directory may have a file of another version. Opposite moves, a rename beside
  a write, pruning of either's files and a crash of either occur. `Attempts` is 1,
  so the run gives up at the first refused check; the proof covers every number.

### Fairness

- `GuestExec!FairSpec`: `WF(Thread)`. The run's thread keeps executing: the
  OS-side loop calls `run_quantum` again, a C loop takes its next step and a
  guest program its next instruction. Which call a guest makes is not assumed; a
  guest may compute for ever. `CallbacksReturn` adds that callbacks return
  (strong fairness of `Return` on a callback). No run uses it; with it and
  callbacks in a loop, `KillEndsRun` fails because each callback clears the
  countdown to the poll that looks for a kill.
- `GuestPorts!FairSpec`: the scheduler comes back to a context whose signal has
  arrived, as `AfterlifeServes` and `SignalObserved` say of the executive; the
  programs promise nothing.
- `GuestLib!FairSpec`: `WF` of a context that is in a library call and has its
  turn: library code goes on. Nothing is assumed of programs or of turns.
- `SocketPump!FairSpec`: `WF` of the pump thread, of `pump_stop` once called, and
  of each task's call once begun: they are threads of the host's scheduler.
  Nothing is assumed of the end of a time slice, so that `ReadinessEndsWait`
  cannot be satisfied by time running out; `DeadlineHolds` names the assumption
  that slices end in its own premise.
- `JitEngine!FairSpec`: `WF(Engine)`: the thread runs, and library calls return.
  Nothing is assumed of stops, hooks or the embedder's next run.
- `HostedExec!FairSpec`: `SF` of the tick and of each task's step. The interval
  timer fires every 5 to 10 ms whatever the tasks do, and each task that runs
  executes before the next tick (`kern.c:203-207`).
- `MetaStore!FairSpec`: `SF` of the next step of a process in a call: processes
  run, and `flock` gives the lock to each that waits for it in turn. Nothing is
  assumed of calls, other programs, crashes or the power.
- `AudioRing!FairSpec`: a push once begun is finished, and the host calls the
  callback again.

## 4. Proofs

Checked by TLAPS for all values of the constants allowed by the modules'
`ASSUME`s.

**AudioRing_proofs.** `RingInv` is inductive: the ring is never fuller than
`Cap - 1`, what a push is copying fits beside what is unconsumed, what a block
takes is there. Counter arithmetic modulo `Laps * Cap` is done once, in lemmas
about `Advance` and `Distance`. From it follow `TypeCorrect`, `PromiseKept` and
`NoTearing`; the last needs that two counters less than `Cap` apart have
different slots. `RingIsQueue` is the refinement of the abstract queue
(`FifoSpec`): the queue is the slice of the slots from `head` to `tail`. Beside
`RingInv` it needs `LoopsInv`, what the two loops have done so far: the frames a
push has copied lie behind `tail`, those a callback has got are the first of the
slice. Publishing `tail` then appends the frames of the push, publishing `head`
takes off those of the block, and every other step leaves the slice alone.

**GuestExec_proofs.** `NeverReentered` is not inductive alone. `IndInv` adds the
shape of the stack (`StackInv`: every frame is one of the seven kinds, a turn's
context is in the table, a turn's `outer` is a context), of the table
(`TableInv`), and the types of the rest. A step either pushes one frame, pops
some, or rewrites the top one, so there is a lemma for each of these, and the
proof has one step for each action. That a context is entered only when its
`on_stack` is not set comes from `Passed` and from `skip` in the sweep; that
`on_stack` is set whenever the context is on the stack comes from `StartTurn`
and from `EndTurn` being the only way a turn frame is left.

The other properties of a state speak of the stack, the flags and the
continuations only, so `StepShapes` reduces the actions once to the
twelve things a step can do to these: leave them (`Stays`), put a root's run, a
native call or a nested run on the stack (`Begins`, `Suspends`, `Nests`), create
a context, leave a nested run, a turn (also over several frames), a command or
the root's run, and move, fail or end a loop. Each of the following invariants is
kept by one short argument for each shape.

- `FaultsClassified` (`DomainTrue`): `DomainOK` says that there is one saved depth
  for each nested run on the stack, each that of native code, and that the depth in
  use is 0 with guest code on top and 1 with a C loop; only in the afterlife, where
  the scheduler is called by nobody's library call, may the lowest one be 0.
- `CallbacksCounted` (`CallbacksCovered`): `callback_depth` is at least the number of
  callbacks on the stack. At least, because an unwound callback is not counted
  down.
- `DoneAlone` (`DoneMeansAlone`): from `IndInv` and `DomainOK`, which say that the
  root's run, or the last pass of the afterlife, ends with nothing else on the stack.
- `RunsAsItself` (`ExecutesAsItself`): `OwnOK` says that the current context is that
  of the innermost turn, that the engine is its engine, and (`Nesting`) that
  each turn and each pass of the scheduler has saved the context that is
  innermost under it, so that what is restored is right.
- `FlagsTellTruth` (`FlagsMatchStack`) and `ContinuationsKept`
  (`ContinuationKept`): `FlagOK` says that `on_stack` and `can_unwind` are set
  exactly while the context has a turn on the stack; a context with a turn has no
  continuation, unless it is just passing an error on, and one that is alive
  without a turn has its own.

The last three have the hypothesis `Unwound`: no call hook, and not both a
command inside a program (`Command`) and `Exit`. The code does not keep them
otherwise. A hook runs on the engine of context 0 whoever calls it; `Exit` inside
a command of another context jumps into that command's frame, which is what
`MCGuestExecExitUnwind.cfg` shows. The runs that check these three properties
(`guest_waits`, `guest_errors`) satisfy the hypothesis; `guest_nested`, which has hooks
and commands that exit, checks the ones proved without it.

**GuestPorts_proofs.** `IInv` is `TypeOK`, finiteness of the public table, that
owners of ports are Tasks, that a message's reply port is live, and
`BitsExclusive`. `DeleteMsgPort` keeps `RepliesLive` because of the rule that a
port owed a reply is not deleted, and `BitsExclusive` because it frees only the
bit of a port that is no longer live.

`ListsAreQueues` is the refinement of `PortFifo` (`FifoSpec`). The list words hold,
for each port ever made, a chain (`Chained`): the successor of each node is the
next one and its predecessor the one before, from head to end. `Linked` adds that a
message is in one place of one list, and that nobody holds it then; `Woven`, that
there are such lists, is inductive: AddTail makes `Append` of a list, RemHead
`Tail`, NewList the empty one, and all leave the other lists alone because the
chains share no word. The model reads a queue off the words by walking them
(`Queue`, a recursive function); that the walk gives the list (`ReadsList`) needs no
induction over the model's data, only that a function defined on `0 .. n` by its
predecessor is unique, which is a least-index argument. `MemoryAssumption`, that a
message is no word of a list header and that there are finitely many, is what
guest memory gives.

`NoWakeupLost` (`WaiterCanWake`) is from `WaitInv`: a context that waits on a port
owns it, waits for its bit, and the port's list is empty or the bit has arrived.
It needs `Woven`: that delivering to one port does not fill the list of another is
not a matter of types.

**GuestLib_proofs.** `RegistersAlwaysKept`, `AlwaysHoldsCounted` and
`AlwaysInPlace`, for every number of contexts, libraries and slots, every heap
and every graph of what libraries need, cycles included. None of the three
is inductive. A library call saves its caller's registers in its slot, so
that they come back needs that no slot is in two calls of a stack; of a load that
follows from the slot's state, of a close from the library's count: a library that
waits in its own expunge has counted no base, so nobody holds one to close. That
the count is right needs that everybody who holds a base holds one the library
counted, and the bases themselves need memory: a clone's address is given to
nothing else as long as somebody may hold it. `IndInv` is all of that:

- `Control`: only the context that runs is in library calls (`Alone`); calls below
  another wait in an Init, its undoing or an expunge, and no two are in one slot
  (`Stacked`); each slot in a call saves the registers of the level below
  (`Saved`).
- `Places`: what a call at each place in library code or a trampoline knows of its
  slot (`CallOK`), where a live library and its bases are (`SlotOK`), that two
  have different names and list different bases (`Apart`), that nothing is
  above the heap's end.
- `Tallied`: there are finitely many holds (`Finite`), each of a base of a ready
  library (`AllOwned`), which lists it as often as it is referred to
  (`RefsListed`), and an image counts at least its bases in use (`Counts`). At
  least, because what a faulting context held stays counted.

Holds are counted as the cardinality of a set of spots (holder, index), as
`References` does, so no step needs induction over a sum: an action
changes at most three holders, and `TallyAt`, `TallyAtTwo` and `TallyAtThree` say what
that does to the number. The libraries and the images count differently (`Refs` includes
a close in flight, until CLOSE_DONE takes the base out; `Count` has a base from its
library's Open to its Close), hence two sets of holders over one table,
`Holding`. That a clone can be freed when its Close has run
(`CloneInFlight`) is because the library lists it once, and the close in flight
is that once.

The theorems have the hypothesis `~Preempt`: a turn ends between library calls
only. The code does not see to it, and without it the three are false
(`MCGuestLibTurns.cfg`): they say what load, open, close and expunge, with
faults and failures, do right as long as library code is not interrupted by another
context. The run `guest_lib` has it too.

**SocketPump_proofs.** `FiltersMatch` is not inductive: that closing a
descriptor takes out no filter somebody else needs, and that a reused descriptor
starts without filters, depends on who holds it. `IInv` adds that every entry is
of a descriptor its task holds and is not closing (`RegsHeld`), that a call works
on a descriptor of its own (`CallsHeld`), and what is true in each phase of
`pump_stop` (`Phases`: no call is under way, and a closed kqueue has no filters).
What `pump_register` and `pump_unregister` do to table and kqueue is proved once
(`RegisterKeeps`, `UnregisteredKeeps`) and used by every call that contains them.

**JitEngine_proofs.** `EngineRunsTheProgram` is the refinement of `Guest68k`, for
every program, number of blocks, quantum and depth. Its invariant has, beside
`TypeOK` and `LinksTrue`: `Frames` (in native code, the frame on the host's stack is of the kind that the
current block takes off), `NoStaleBlock` (a block in the cache is of the code at
its address), `ParkedThere` (a block that has parked is on its way back to the
dispatcher and says where it was), and what is true of the outermost run
(`Outermost`) and of a library call under way (`InCall`: the code, as it is,
makes that call). Steps that only move the engine are stutters
of the guest; that a patched tail is the program's branch needs `LinksTrue`, and
that the emitter's condition is the 68k's is a lemma about `CondBool`.

**HostedExec_proofs.** For every cast and number of tasks. The invariant says
that Forbid is counted exactly while a task is between its Forbid and its
Permit, and that this task is the one running (`ForbidExact`); that the stage of
a task fits where its program is (`Placed`); that the device holds a message
from GetMsg to ReplyMsg (`InHand`); that each task is on one list, once, and the
running one on none (`Listed`, `QueuedOnce`); and that a task asleep is inside
Wait and has nothing it waits for, unless it is just being signalled (`Sleep`).
That `Enqueue` keeps a list ordered by priority, and first come first served within one, is a
lemma with a least element argument.

`RequestsServed` is the refinement of `DeviceIo` (`IoSpec`): each request is asked
for, performed once and returned, and the client goes on with its own answer. Its
invariant, `Trips`, follows the message: it is in one place (the device's port
once, the device's hand, or the client's own port as its only element), it is in
nobody's hands while the client fills or checks it, and on the client's port only
after it was replied to. That only one message per client is on its way is what
makes `The("device")`, the port and the phase of the abstract device agree.

The heap. The free list is described by the set `F` of the addresses of its chunks.
`HeapInv` says that there is such a set (`Whole`) in which chunks lie one above the
other with a gap between any two (`Gaps`), that blocks and free units are apart and
together are the whole region (`Apart`; a block that is cut off but not counted off
yet is its task's already), that `mh_Free` is the number of free units, and that
every header points to the next chunk above it (`LinksBut`), except the one header
that AllocMem or FreeMem is about to write; `Halfway` says, stage by stage, what
the task inside has found and written. `Marked` says that what a task has written
into its block is still there when it frees it, and `Pointers` at which places it has
one. `HeapInductive` is that; `CutChunk` and `JoinChunk`, about sets of chunks
alone, carry Carve and Close, and `ChainClimbs`, `StopsAt` and `FitsAt` say what the
walk along the list finds. `HeapStaysWhole` (`HeapWhole`) follows when nobody is
inside. `HeapIsPool` is the refinement of `HeapPool` (`HeapSpec`): counting a block
off is `Take`, a search in vain is `Refuse`, which is right because free units that are
contiguous lie in one chunk (no two chunks are adjacent), and giving the pointer up
is `Give`. `BlockAssumption`, that an answer without a block is no address, is about
the model values alone.

**MetaStore_proofs.** `EditsAreAtomic` is the refinement of `MetaTable`, when every
process can lock (`Locking = Client`), for every number of processes,
directories, names, values and attempts. The invariant `IInv` says of a process
between `Load` and `Replace` that it holds the directory's lock, and that its copy
is the directory's present table, edited, without the names it found gone; and
of every file in place that its data are on the disk. The first is what makes
`Replace` one edit of what is there; it is not true of a process without the
lock, and `MCMetaStoreUnlocked` shows the edit it loses.

**Model-checked only.** The liveness properties: TLAPS proves no `ENABLED`, hence
nothing that rests on fairness. Every invariant and every action property or
refinement without fairness that a passing run checks is also a theorem, under
the hypotheses named above. The runs that expect a violation have nothing to
prove.

## 5. Not modelled

Instruction semantics and code generation of the translator, the layout of
structures that the marshalling libraries translate, hunk files, the text of
`.ameta`, path and character set conversion: sequential transformations of data
for which TLC has nothing to interleave. They are most of the lines of the
sources: the decoders `M68k_LINE*.c` and `M68k_EA.c` and the interpreter alone are
a third. Test programs, scripts and third-party adapters. The boot and ABI shim
sets things up once. The rest is planned.

## 6. Plan

1. *Executive, continued.* The prelaunch hook inside AddTask; a second program in
   the same process.
2. *Event broker* (`EventBroker`): bind and unbind of a window's port, the
   table's limit, and GetMsg's use of it; windows that share a port. Property:
   GetMsg knows a port of IDCMP messages as long as one of its windows is open.
3. *Clipboard* (`ClipboardPoller`): a second thread and foreign writers; every
   external change announced, no own write echoed. The pump's wake callback, with
   the AROS signal in the place of the pipe.
4. *Guest libraries, continued*: the bootstrap of the C runtimes inside another
   OpenLibrary (`emu68k_open_guestlib_now`, a nested run), aliases and native
   facades.
5. *CoreAudio life cycle*, over `AudioRing`; *event and settings rings* of the
   display; late write-back of directories in `MetaStore`.
6. *Proofs.* For `GuestExec`, that the root's own re-entry is the only one; that a
   `PumpSig` which is woken has a task that was registered; for `GuestLib`, which of
   its invariants survive a turn that ends inside library code.
