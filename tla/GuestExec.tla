------------------------------ MODULE GuestExec ------------------------------
(***************************************************************************)
(* The guest executive of src/hosted/emu68k: how one native thread runs    *)
(* several 68k contexts (the root program and the Tasks and Processes it   *)
(* creates) by nesting j5d_run calls on one C stack.                       *)
(*                                                                         *)
(* stack is that C stack, oldest frame first.  A frame is a j5d_run that   *)
(* executes guest code (root, turn, callback, command) or a C loop that is *)
(* suspended under one (sched, wait, delay).  The guest programs are       *)
(* arbitrary: whenever a guest frame is on top its context may make any    *)
(* call of Calls.  err is the C return path: an error return unwinds one   *)
(* frame at a time until some frame contains it.                           *)
(***************************************************************************)
EXTENDS Integers, Sequences, FiniteSets

CONSTANTS
    MaxCtx,          \* EMU68K_MAX_CTX: slots of the context table
    Signals,         \* the signal bits of a Task
    NativeSig,       \* the bit of a port bound to a native event source
    Sources,         \* contexts that own a bound native source
    Calls,           \* the calls the guest programs of this instance make
    ForbidMax,       \* bound on nested Forbid (UINT16_MAX in the code)
    CallbackMax,     \* EMU68K_CALLBACK_DEPTH_MAX
    CommandMax,      \* bound on commands run one inside another (none in the code)
    RunQuantum,      \* roundtrips of a root or callback poll interval (4096)
    ContextQuantum,  \* roundtrips of a child turn (64)
    SweepMax,        \* sweeps a Wait makes over its siblings (65536)
    DelayTurns       \* sibling passes of one Delay call (8 for each tick)

ASSUME ContextsAssumption == MaxCtx \in Nat /\ MaxCtx > 1
ASSUME SignalsAssumption == NativeSig \in Signals
ASSUME BoundsAssumption ==
    {ForbidMax, CallbackMax, CommandMax, RunQuantum, ContextQuantum, SweepMax, DelayTurns}
        \subseteq Nat \ {0}

Ctx == 0 .. MaxCtx - 1
ASSUME SourcesAssumption == Sources \subseteq Ctx

None   == -1         \* no engine active, no continuation recorded
Nested == -2         \* a continuation recorded by a callback's or command's run

VARIABLES
    ctx,             \* run->ctx[]: the flags of struct emu68k_ctx
    nctx,            \* run->nctx
    cur,             \* run->cur_ctx
    engine,          \* the active engine (engine i belongs to context i)
    eng,             \* per engine: installed poll, its countdown, resume record
    sig,             \* tc_SigRecvd of each context's Task
    native,          \* sources whose native event the broker has not delivered
    stack,           \* the C stack
    depth,           \* run->callback_depth
    command,         \* 0, or the stack height setjmp recorded in command_unwind
    err,             \* a C function on top of the stack is returning an error
    run,             \* outcome of the run
    rootFinished,    \* run->root_finished
    kill,            \* run->kill_req
    bridge,          \* g_in_bridge, above the depths that guest entries have saved
    faulted          \* history: contexts whose j5d_run ended in an error

table == <<ctx, nctx>>
outcome == <<run, rootFinished>>
vars == <<ctx, nctx, cur, engine, eng, sig, native, stack, depth, command,
          err, run, rootFinished, kill, bridge, faulted>>

----------------------------------------------------------------------------
(* Frames *)

RootFrame == [k |-> "root"]
TurnFrame(c, outer) == [k |-> "turn", c |-> c, outer |-> outer]
CallbackFrame == [k |-> "callback"]
CommandFrame == [k |-> "command"]
SchedFrame(outer) == [k |-> "sched", outer |-> outer, next |-> 0]
DelayFrame == [k |-> "delay", left |-> DelayTurns]
WaitFrame(want) == [k |-> "wait", want |-> want, at |-> "sweep", next |-> 0,
                    progress |-> FALSE, spun |-> 0]

Top == stack[Len(stack)]
Is(kind) == stack # <<>> /\ Top.k = kind
GuestKinds == {"root", "turn", "callback", "command"}
GuestRuns == run = "live" /\ ~err /\ stack # <<>> /\ Top.k \in GuestKinds
Below == SubSeq(stack, 1, Len(stack) - 1)
Update(frame) == Append(Below, frame)

(* The context whose guest code a guest frame executes: its turn's context,
   or that of the run below a callback or command. *)
OwnerAt(n) ==
    LET turns == {m \in 1 .. n : stack[m].k = "turn"}
    IN  IF turns = {} THEN 0
        ELSE stack[CHOOSE m \in turns : \A o \in turns : o <= m].c

----------------------------------------------------------------------------
(* The execution domain.  The last element of bridge is g_in_bridge: 0 while
   guest code runs, more while the library calls under it are native code.
   Before it come the depths saved by domain_enter_guest in the frames of the
   nested j5d_runs, oldest first. *)

InBridge(b) == [b EXCEPT ![Len(b)] = @ + 1]
(* Mutant: the depth is saved, but not cleared. *)
EnterGuestLatched(b) == Append(b, b[Len(b)])
EnterGuest(b) == Append(b, 0)
LeaveGuest(b) == SubSeq(b, 1, Len(b) - 1)

(* Control is back in the frame on top of below; if that is guest code, its
   library call returns. *)
Back(below, b) ==
    IF below # <<>> /\ below[Len(below)].k \in GuestKinds
    THEN [b EXCEPT ![Len(b)] = @ - 1] ELSE b

(* Where the frame at height n keeps its saved depth, if it is a nested run. *)
Entries(n) == Cardinality({m \in 1 .. n : stack[m].k \in GuestKinds \ {"root"}})
(* longjmp to the frame at height n: dom is restored, or it is not. *)
Restored(n) == SubSeq(bridge, 1, Entries(n))
NotRestored(n) == [Restored(n) EXCEPT ![Entries(n)] = bridge[Len(bridge)] + 1]

----------------------------------------------------------------------------
(* Polls, signals and the native event broker *)

Interval(e) == IF eng[e].poll = "context" THEN ContextQuantum ELSE RunQuantum
Due == eng[engine].stop \/ eng[engine].count + 1 >= Interval(engine)
(* Mutants: a child's turn never ends; the kill is looked at too late. *)
PollActionEndless ==
    IF kill THEN "kill" ELSE IF eng[engine].poll = "quantum" THEN "yield" ELSE "continue"
PollActionDeaf ==
    IF \/ eng[engine].poll = "quantum"
       \/ eng[engine].poll = "context" /\ ctx[cur].forbid = 0
    THEN "yield" ELSE IF kill THEN "kill" ELSE "continue"
PollAction ==
    IF kill THEN "kill"
    ELSE IF \/ eng[engine].poll = "quantum"
            \/ eng[engine].poll = "context" /\ ctx[cur].forbid = 0
         THEN "yield" ELSE "continue"
CanExecute == GuestRuns /\ (Due => PollAction = "continue")
Polled == [eng EXCEPT ![engine].count = 0, ![engine].stop = FALSE]
Ticked == IF Due THEN Polled ELSE [eng EXCEPT ![engine].count = @ + 1]

SetPoll(es, e, p) == [es EXCEPT ![e].poll = p, ![e].count = 0]
RestoreGuestPoll(es, d) == SetPoll(es, engine, IF d > 0 THEN "nested" ELSE "quantum")

Delivered(mask) == IF NativeSig \in mask THEN native ELSE {}
SigPumped(mask) ==
    [i \in Ctx |-> IF i \in Delivered(mask) THEN sig[i] \cup {NativeSig} ELSE sig[i]]

LiveChildren == {i \in 1 .. nctx - 1 : ~ctx[i].finished}

----------------------------------------------------------------------------
(* Entering a context: run_context_nested up to its j5d_run *)

StartTurn(i, below, sigs) ==
    LET got == sigs[i] \cap ctx[i].mask IN
    /\ stack' = Append(below, TurnFrame(i, cur))
    /\ ctx' = [ctx EXCEPT ![i].started = TRUE, ![i].blocked = FALSE,
                          ![i].onStack = TRUE, ![i].canUnwind = TRUE]
    /\ sig' = IF ctx[i].blocked THEN [sigs EXCEPT ![i] = @ \ got] ELSE sigs
    /\ cur' = i
    /\ engine' = i
    /\ eng' = [SetPoll(eng, i, "context") EXCEPT ![i].resume = None]

(* Leaving it: the part of run_context_nested behind j5d_run or longjmp.
   es is the engines' state at that point, flags the context's new flags. *)
(* Mutant: the unwind buffer stays armed. *)
OffStackArmed(flags) == [flags EXCEPT !.onStack = FALSE]
OffStack(flags) == [flags EXCEPT !.canUnwind = FALSE, !.onStack = FALSE]

(* Mutant: cur_ctx stays with the context that was run. *)
EndTurnAsCallee(below, frame, es, flags) ==
    /\ stack' = below
    /\ ctx' = [ctx EXCEPT ![frame.c] = OffStack(flags)]
    /\ cur' = cur
    /\ engine' = frame.outer
    /\ eng' = SetPoll(es, frame.outer, "quantum")
EndTurn(below, frame, es, flags) ==
    /\ stack' = below
    /\ ctx' = [ctx EXCEPT ![frame.c] = OffStack(flags)]
    /\ cur' = frame.outer
    /\ engine' = frame.outer
    /\ eng' = SetPoll(es, frame.outer, "quantum")

(* What the engine records when a run stops at a safe point to be resumed.
   (A blocking call leaves the countdown as it is; whoever enters the engine
   next installs its poll first, which clears it.) *)
(* Mutant: the continuation goes into the root program's engine. *)
RecordedInRoot == [Polled EXCEPT ![0].resume = IF Is("turn") THEN Top.c ELSE 0]
Recorded == [Polled EXCEPT ![engine].resume =
                    CASE Top.k = "turn" -> Top.c [] Top.k = "root" -> 0
                      [] OTHER -> Nested]

(* Leaving a callback's or a command's j5d_run, whatever its outcome. *)
(* Mutant: a command is counted out like a callback. *)
DepthAfterEvery == IF depth > 0 THEN depth - 1 ELSE depth
DepthAfter == IF Is("callback") /\ depth > 0 THEN depth - 1 ELSE depth
LeaveNested(es) ==
    /\ stack' = Below
    /\ depth' = DepthAfter
    /\ command' = IF Top.k = "command" THEN 0 ELSE command
    /\ eng' = RestoreGuestPoll(es, DepthAfter)
    /\ bridge' = Back(Below, LeaveGuest(bridge))
    /\ UNCHANGED <<cur, engine>>

(* Leaving the root's j5d_run, at the end of run_quantum. *)
LeaveRoot(es, flags) ==
    /\ stack' = Below
    /\ engine' = None
    /\ eng' = es
    /\ ctx' = IF nctx > 0 THEN [flags EXCEPT ![cur].onStack = FALSE] ELSE flags
    /\ UNCHANGED <<cur, depth, command, bridge>>

(* j5d_run of the top frame stops at a safe point.  A turn and the root park;
   the native call below a callback or a command cannot be parked, so there
   the yield comes out as an error of the call. *)
Park(flags) ==
    /\ \/ /\ Is("turn")
          /\ EndTurn(Below, Top, Recorded, flags)
          /\ bridge' = Back(Below, LeaveGuest(bridge))
          /\ UNCHANGED <<depth, command, err>>
       \/ /\ Is("root")
          /\ LeaveRoot(Recorded, ctx)
          /\ UNCHANGED err
       \/ /\ Top.k \in {"callback", "command"}
          /\ LeaveNested(Recorded)
          /\ ctx' = [ctx EXCEPT ![cur] = flags]
          /\ err' = TRUE
    /\ UNCHANGED <<nctx, outcome, kill, faulted>>

----------------------------------------------------------------------------
(* The host: run_quantum, kill, and native events *)

HostQuantum ==
    /\ run = "live" /\ stack = <<>> /\ ~rootFinished
    /\ stack' = <<RootFrame>>
    /\ engine' = 0
    /\ eng' = [SetPoll(eng, 0, "quantum") EXCEPT ![0].resume = None]
    /\ ctx' = IF nctx > 0 THEN [ctx EXCEPT ![cur].onStack = TRUE] ELSE ctx
    /\ UNCHANGED <<nctx, cur, sig, native, depth, command, err, outcome, kill, bridge, faulted>>

(* With the root gone a quantum only schedules the remaining children. *)
AfterlifeQuantum ==
    /\ run = "live" /\ stack = <<>> /\ rootFinished
    /\ stack' = <<SchedFrame(cur)>>
    /\ engine' = 0
    /\ eng' = SetPoll(eng, 0, "quantum")
    /\ UNCHANGED <<ctx, nctx, cur, sig, native, depth, command, err, outcome, kill, bridge, faulted>>

AfterlifeEnd ==
    /\ run = "live" /\ rootFinished /\ Len(stack) = 1 /\ Is("sched") /\ ~err
    /\ Top.next >= nctx
    /\ stack' = <<>>
    /\ engine' = None
    /\ run' = IF kill THEN "stopped" ELSE IF LiveChildren = {} THEN "done" ELSE "live"
    /\ UNCHANGED <<ctx, nctx, cur, eng, sig, native, depth, command, err,
                   rootFinished, kill, bridge, faulted>>

(* emu68k_run_kill, at any time.  j5d_request_stop raises the stop flag of the
   engine active on the calling thread: the run's own one only when the caller
   shares the thread and a quantum is under way. *)
Kill ==
    /\ "Kill" \in Calls /\ run = "live" /\ ~kill
    /\ kill' = TRUE
    /\ \/ UNCHANGED eng
       \/ engine # None /\ eng' = [eng EXCEPT ![engine].stop = TRUE]
    /\ UNCHANGED <<ctx, nctx, cur, engine, sig, native, stack, depth, command,
                   err, outcome, bridge, faulted>>

NativeEvent(i) ==
    /\ run = "live" /\ i \in Sources \ native
    /\ native' = native \cup {i}
    /\ UNCHANGED <<ctx, nctx, cur, engine, eng, sig, stack, depth, command, err,
                   outcome, kill, bridge, faulted>>

----------------------------------------------------------------------------
(* Guest code: the calls a context makes while its frame is on top *)

Call(name) == name \in Calls /\ CanExecute
QuietCall == UNCHANGED <<nctx, cur, engine, native, stack, depth, command, err,
                         outcome, kill, bridge, faulted>>

(* The poll ends the slice: quantum expiry, or a kill. *)
QuantumYield ==
    /\ GuestRuns /\ Due /\ PollAction = "yield"
    /\ Park(ctx[cur])
    /\ UNCHANGED <<sig, native>>

PollKill ==
    /\ GuestRuns /\ Due /\ PollAction = "kill"
    /\ err' = TRUE
    /\ eng' = Polled
    /\ UNCHANGED <<ctx, nctx, cur, engine, sig, native, stack, depth, command,
                   outcome, kill, bridge, faulted>>

Compute ==
    /\ CanExecute
    /\ eng' = Ticked
    /\ QuietCall /\ UNCHANGED <<ctx, sig>>

Signal(i, s) ==
    /\ Call("Signal") /\ (i = 0 \/ i < nctx)
    /\ sig' = [sig EXCEPT ![i] = @ \cup {s}]
    /\ eng' = Ticked
    /\ QuietCall /\ UNCHANGED ctx

Forbid ==
    /\ Call("Forbid") /\ nctx > 0
    /\ ctx' = [ctx EXCEPT ![cur].forbid = IF @ < ForbidMax THEN @ + 1 ELSE @]
    /\ eng' = Ticked
    /\ QuietCall /\ UNCHANGED sig

Permit ==
    /\ Call("Forbid") /\ ctx[cur].forbid > 0
    /\ ctx' = [ctx EXCEPT ![cur].forbid = @ - 1]
    /\ eng' = Ticked
    /\ QuietCall /\ UNCHANGED sig

(* Wait: pump the sources the mask can wake, then take what has arrived, or
   park (a child), or look for a sibling that can send it (the root). *)
Wait(want) ==
    LET sigs == SigPumped(want)
        got == sigs[cur] \cap want IN
    /\ Call("Wait")
    /\ native' = native \ Delivered(want)
    /\ \/ /\ got # {}
          /\ sig' = [sigs EXCEPT ![cur] = @ \ got]
          /\ eng' = Ticked
          /\ UNCHANGED <<table, cur, engine, stack, depth, command, err,
                         outcome, kill, bridge, faulted>>
       \/ /\ got = {} /\ ctx[cur].canUnwind
          /\ sig' = sigs
          /\ Park([ctx[cur] EXCEPT !.blocked = TRUE, !.mask = want])
       \/ /\ got = {} /\ ~ctx[cur].canUnwind
          /\ sig' = sigs
          /\ stack' = Append(stack, WaitFrame(want))
          /\ bridge' = InBridge(bridge)
          /\ eng' = Ticked
          /\ UNCHANGED <<table, cur, engine, depth, command, err,
                         outcome, kill, faulted>>

(* dos.Delay, and Reschedule or the root's WaitTOF: hand out turns. *)
Delay ==
    /\ Call("Delay")
    /\ stack' = Append(stack, DelayFrame)
    /\ bridge' = InBridge(bridge)
    /\ eng' = Ticked
    /\ UNCHANGED <<ctx, nctx, cur, engine, sig, native, depth, command, err,
                   outcome, kill, faulted>>

Reschedule ==
    /\ Call("Reschedule")
    /\ stack' = Append(stack, SchedFrame(cur))
    /\ bridge' = InBridge(bridge)
    /\ eng' = Ticked
    /\ UNCHANGED <<ctx, nctx, cur, engine, sig, native, depth, command, err,
                   outcome, kill, faulted>>

(* CreateNewProc and AddTask: adopt the root as context 0, take the next slot
   and give the new context its first turn at once.  Slots are never reused. *)
(* Mutant: the root is not adopted as context 0 first. *)
FreeSlotNoRoot == nctx
FreeSlot == IF nctx = 0 THEN 1 ELSE nctx
Create ==
    LET idx == FreeSlot IN
    /\ Call("Create")
    /\ \/ /\ idx < MaxCtx
          /\ nctx' = idx + 1
          /\ StartTurn(idx, stack, sig)
          /\ bridge' = EnterGuest(InBridge(bridge))
          /\ UNCHANGED err
       \/ /\ idx = MaxCtx
          /\ err' = TRUE
          /\ UNCHANGED <<table, cur, engine, eng, sig, stack, bridge>>
    /\ UNCHANGED <<native, depth, command, outcome, kill, faulted>>

(* A bridged call that runs guest code before it returns: run_guest_subroutine
   on the context's engine, call_hook on the root's. *)
EnterNested(frame, e) ==
    /\ stack' = Append(stack, frame)
    /\ engine' = e
    /\ eng' = [SetPoll(eng, e, "nested") EXCEPT ![e].resume = None]
    /\ bridge' = EnterGuest(InBridge(bridge))
    /\ UNCHANGED <<table, cur, sig, native, outcome, kill, faulted>>

Callback ==
    /\ Call("Callback")
    /\ \/ depth < CallbackMax /\ depth' = depth + 1 /\ EnterNested(CallbackFrame, cur)
          /\ UNCHANGED err
       \/ depth = CallbackMax /\ err' = TRUE
          /\ UNCHANGED <<table, cur, engine, eng, sig, native, stack, depth,
                         outcome, kill, bridge, faulted>>
    /\ UNCHANGED command

CallHook ==
    /\ Call("Hook") /\ depth < CallbackMax
    /\ depth' = depth + 1
    /\ EnterNested(CallbackFrame, 0)
    /\ UNCHANGED <<command, err>>

RunCommand ==
    /\ Call("Command")
    /\ Cardinality({n \in 1 .. Len(stack) : stack[n].k = "command"}) < CommandMax
    /\ command' = Len(stack) + 1
    /\ EnterNested(CommandFrame, cur)
    /\ UNCHANGED <<depth, err>>

(* Mutant: the children are not counted when the root returns. *)
AloneAlways == TRUE
Alone == LiveChildren = {}

(* The top frame's guest code returns: j5d_run yields rc 0. *)
Return ==
    /\ Call("Return")
    /\ \/ /\ Is("turn")
          /\ EndTurn(Below, Top, eng, [ctx[Top.c] EXCEPT !.finished = TRUE])
          /\ bridge' = Back(Below, LeaveGuest(bridge))
          /\ UNCHANGED <<depth, command, outcome>>
       \/ /\ Top.k \in {"callback", "command"}
          /\ LeaveNested(eng)
          /\ UNCHANGED <<ctx, outcome>>
       \/ /\ Is("root") /\ ~Alone
          /\ LeaveRoot(eng, [ctx EXCEPT ![0].finished = TRUE])
          /\ rootFinished' = TRUE
          /\ UNCHANGED run
       \/ /\ Is("root") /\ Alone
          /\ LeaveRoot(eng, ctx)
          /\ run' = "done"
          /\ UNCHANGED rootFinished
    /\ UNCHANGED <<nctx, sig, native, err, kill, faulted>>

Fault ==
    /\ Call("Fault")
    /\ err' = TRUE
    /\ UNCHANGED <<table, cur, engine, eng, sig, native, stack, depth, command,
                   outcome, kill, bridge, faulted>>

(* Leave the current context for good: a child longjmps to the turn frame its
   unwind buffer was set in, whatever lies above it; the root runs on. *)
LeaveContext ==
    LET turns == {n \in 1 .. Len(stack) : stack[n].k = "turn" /\ stack[n].c = cur}
        gone == [ctx[cur] EXCEPT !.finished = TRUE, !.blocked = FALSE]
    IN  \/ /\ ctx[cur].canUnwind /\ turns # {}
           /\ \E n \in turns :
                 /\ EndTurn(SubSeq(stack, 1, n - 1), stack[n], eng, gone)
                 /\ bridge' = Back(SubSeq(stack, 1, n - 1), NotRestored(n))
           /\ UNCHANGED outcome
        \/ /\ ctx[cur].canUnwind /\ turns = {}
           /\ run' = "undefined"
           /\ UNCHANGED <<ctx, cur, engine, eng, stack, bridge, rootFinished>>
        \/ /\ ~ctx[cur].canUnwind
           /\ ctx' = IF nctx > 0 THEN [ctx EXCEPT ![cur] = gone] ELSE ctx
           /\ eng' = Ticked
           /\ UNCHANGED <<cur, engine, stack, bridge, outcome>>

(* dos.Exit: while a RunCommand is active it unwinds to the frame the last
   setjmp of command_unwind recorded, otherwise it leaves the context. *)
Exit ==
    /\ Call("Exit")
    /\ \/ /\ command > 0
          /\ command' = 0
          /\ \/ /\ command <= Len(stack) /\ stack[command].k = "command"
                /\ stack' = SubSeq(stack, 1, command - 1)
                /\ bridge' = Back(SubSeq(stack, 1, command - 1), Restored(command))
                /\ eng' = RestoreGuestPoll(eng, depth)
                /\ UNCHANGED outcome
             \/ /\ ~(command <= Len(stack) /\ stack[command].k = "command")
                /\ run' = "undefined"
                /\ UNCHANGED <<stack, eng, bridge, rootFinished>>
          /\ UNCHANGED <<ctx, cur, engine>>
       \/ command = 0 /\ LeaveContext /\ UNCHANGED command
    /\ UNCHANGED <<nctx, sig, native, depth, err, kill, faulted>>

RemTask(i) ==
    /\ Call("RemTask") /\ i < nctx
    /\ \/ i = cur /\ LeaveContext
       \/ /\ i # cur
          /\ ctx' = [ctx EXCEPT ![i].finished = TRUE, ![i].blocked = FALSE]
          /\ eng' = Ticked
          /\ UNCHANGED <<cur, engine, stack, bridge, outcome>>
    /\ UNCHANGED <<nctx, sig, native, depth, command, err, kill, faulted>>

----------------------------------------------------------------------------
(* The C loops suspended under a turn *)

Resumed(kind) == run = "live" /\ Is(kind) /\ ~err

(* Mutant: on_stack is not looked at. *)
PassedBlind(i) == i = Top.outer \/ ctx[i].finished
Passed(i) == i = Top.outer \/ ctx[i].finished \/ ctx[i].onStack
(* Mutant: a pass ends with the first context it looked at. *)
VisitedLast == Update([Top EXCEPT !.next = nctx])
Visited == Update([Top EXCEPT !.next = @ + 1])

(* reschedule_siblings looks at one context: skip it, pump the native sources
   of a parked one before it counts as asleep, or give it a turn. *)
SchedVisit ==
    LET i == Top.next
        o == ctx[i]
        asleep == o.blocked /\ sig[i] \cap o.mask = {}
        sigs == IF asleep THEN SigPumped(o.mask) ELSE sig
    IN  /\ Resumed("sched") /\ i < nctx
        /\ native' = IF ~Passed(i) /\ asleep THEN native \ Delivered(o.mask) ELSE native
        /\ \/ /\ Passed(i)
              /\ stack' = Visited
              /\ UNCHANGED <<ctx, cur, engine, eng, sig, bridge>>
           \/ /\ ~Passed(i) /\ asleep /\ sigs[i] \cap o.mask = {}
              /\ stack' = Visited
              /\ sig' = sigs
              /\ engine' = Top.outer
              /\ UNCHANGED <<ctx, cur, eng, bridge>>
           \/ /\ ~Passed(i) /\ ~(asleep /\ sigs[i] \cap o.mask = {})
              /\ StartTurn(i, Visited, sigs)
              /\ bridge' = EnterGuest(bridge)
        /\ UNCHANGED <<nctx, depth, command, err, outcome, kill, faulted>>

Control == UNCHANGED <<table, cur, engine, eng, depth, command, outcome, kill, faulted>>

SchedDone ==
    /\ Resumed("sched") /\ Top.next >= nctx /\ Len(stack) > 1
    /\ stack' = Below
    /\ bridge' = Back(Below, bridge)
    /\ Control /\ UNCHANGED <<sig, native, err>>

DelayStep ==
    /\ Resumed("delay")
    /\ \/ /\ Top.left > 0
          /\ stack' = Append(Update([Top EXCEPT !.left = @ - 1]), SchedFrame(cur))
          /\ UNCHANGED <<sig, native, bridge>>
       \/ /\ Top.left = 0
          /\ stack' = Below
          /\ bridge' = Back(Below, bridge)
          /\ sig' = SigPumped(Signals)
          /\ native' = {}
    /\ Control /\ UNCHANGED err

(* The root's Wait, at = "sweep": look for the next sibling to run;
   "ran": after a sibling's turn; "idle", "checked": after a scheduler pass. *)
Got == sig[cur] \cap Top.want
TakeSignals ==
    /\ Resumed("wait") /\ Top.at \in {"ran", "idle", "checked"} /\ Got # {}
    /\ sig' = [sig EXCEPT ![cur] = @ \ Got]
    /\ stack' = Below
    /\ bridge' = Back(Below, bridge)
    /\ Control /\ UNCHANGED <<native, err>>

SweepVisit ==
    LET i == Top.next
        o == ctx[i]
        after(at, some) == Update([Top EXCEPT !.at = at, !.next = i + 1,
                                              !.progress = @ \/ some])
        skip == \/ i = cur \/ o.finished \/ o.onStack
                \/ o.blocked /\ sig[i] \cap o.mask = {}
    IN  /\ Resumed("wait") /\ Top.at = "sweep" /\ i < nctx
        /\ \/ skip /\ stack' = after("sweep", FALSE)
              /\ UNCHANGED <<ctx, cur, engine, eng, sig, bridge>>
           \/ ~skip /\ StartTurn(i, after("ran", TRUE), sig)
              /\ bridge' = EnterGuest(bridge)
        /\ UNCHANGED <<nctx, native, depth, command, err, outcome, kill, faulted>>

SweepOn ==
    /\ Resumed("wait") /\ Top.at = "ran" /\ Got = {}
    /\ stack' = Update([Top EXCEPT !.at = "sweep"])
    /\ Control /\ UNCHANGED <<sig, native, bridge, err>>

(* The end of a sweep: sweep again, or pump and fall back to the scheduler. *)
SweepEnd ==
    LET again == Top.progress /\ ~kill /\ Top.spun + 1 < SweepMax
        mask == IF Sources # {} /\ NativeSig \in Top.want THEN Top.want ELSE Signals
    IN  /\ Resumed("wait") /\ Top.at = "sweep" /\ Top.next >= nctx
        /\ \/ /\ again
              /\ stack' = Update([Top EXCEPT !.next = 0, !.progress = FALSE,
                                             !.spun = @ + 1])
              /\ UNCHANGED <<sig, native>>
           \/ /\ ~again
              /\ sig' = SigPumped(mask)
              /\ native' = native \ Delivered(mask)
              /\ stack' = Append(Update([Top EXCEPT !.at = "idle"]), SchedFrame(cur))
        /\ Control /\ UNCHANGED <<bridge, err>>

(* With a native source bound somewhere the root idles until its signal comes
   or the run is killed; otherwise nothing can send it and the call fails. *)
Idle ==
    /\ Resumed("wait") /\ Top.at \in {"idle", "checked"} /\ Got = {}
    /\ IF Sources # {} /\ (Top.at = "checked" => ~kill)
       THEN /\ stack' = Append(Update([Top EXCEPT !.at = "checked"]), SchedFrame(cur))
            /\ sig' = SigPumped(Signals)
            /\ native' = {}
            /\ UNCHANGED <<bridge, err>>
       ELSE /\ stack' = Below
            /\ bridge' = Back(Below, bridge)
            /\ err' = TRUE
            /\ UNCHANGED <<sig, native>>
    /\ Control

----------------------------------------------------------------------------
(* The error path: each frame passes the error on, except that the scheduler
   contains the fault of a context that does not hold Forbid. *)

Quarantined(i) == [ctx EXCEPT ![i].failed = TRUE, ![i].finished = TRUE,
                              ![i].blocked = FALSE]
(* Mutant: the context is quarantined, but the error goes on. *)
ContainLoudly ==
    LET i == Top.next - 1 IN
    /\ run = "live" /\ err /\ Is("sched") /\ ctx[i].forbid = 0
    /\ ctx' = Quarantined(i)
    /\ UNCHANGED <<nctx, cur, engine, eng, sig, native, stack, depth, command,
                   err, outcome, kill, bridge, faulted>>
Contain ==
    LET i == Top.next - 1 IN
    /\ run = "live" /\ err /\ Is("sched") /\ ctx[i].forbid = 0
    /\ ctx' = Quarantined(i)
    /\ err' = FALSE
    /\ UNCHANGED <<nctx, cur, engine, eng, sig, native, stack, depth, command,
                   outcome, kill, bridge, faulted>>

PassError ==
    /\ run = "live" /\ err /\ stack # <<>>
    /\ \/ /\ Is("turn")
          /\ EndTurn(Below, Top, eng, ctx[Top.c])
          /\ bridge' = Back(Below, LeaveGuest(bridge))
          /\ faulted' = faulted \cup {Top.c}
          /\ UNCHANGED <<depth, command, run>>
       \/ /\ Top.k \in {"callback", "command"}
          /\ LeaveNested(eng)
          /\ UNCHANGED <<ctx, faulted, run>>
       \/ /\ Is("root")
          /\ LeaveRoot(eng, ctx)
          /\ run' = "stopped"
          /\ UNCHANGED faulted
       \/ /\ \/ Top.k \in {"wait", "delay"}
             \/ Is("sched") /\ ctx[Top.next - 1].forbid > 0
          /\ stack' = Below
          /\ bridge' = Back(Below, bridge)
          /\ engine' = IF Below = <<>> THEN None ELSE engine
          /\ run' = IF Below = <<>> THEN "stopped" ELSE run
          /\ UNCHANGED <<ctx, cur, eng, depth, command, faulted>>
    /\ UNCHANGED <<nctx, sig, native, err, rootFinished, kill>>

----------------------------------------------------------------------------
FreshCtx == [started |-> FALSE, onStack |-> FALSE, finished |-> FALSE,
             failed |-> FALSE, blocked |-> FALSE, mask |-> {}, forbid |-> 0,
             canUnwind |-> FALSE]

Init ==
    /\ ctx = [i \in Ctx |-> [FreshCtx EXCEPT !.started = (i = 0)]]
    /\ nctx = 0 /\ cur = 0 /\ engine = None
    /\ eng = [i \in Ctx |-> [poll |-> "quantum", count |-> 0, stop |-> FALSE,
                        resume |-> None]]
    /\ sig = [i \in Ctx |-> {}] /\ native = {}
    /\ stack = <<>> /\ depth = 0 /\ command = 0 /\ err = FALSE
    /\ run = "live" /\ rootFinished = FALSE /\ kill = FALSE /\ faulted = {}
    /\ bridge = <<0>>

GuestCall ==
    \/ Compute \/ Forbid \/ Permit \/ Delay \/ Reschedule \/ Create
    \/ Callback \/ CallHook \/ RunCommand \/ Return \/ Fault \/ Exit
    \/ \E i \in Ctx : RemTask(i) \/ \E s \in Signals : Signal(i, s)
    \/ \E want \in SUBSET Signals \ {{}} : Wait(want)

Loop == \/ SchedVisit \/ SchedDone \/ DelayStep \/ AfterlifeEnd
        \/ TakeSignals \/ SweepVisit \/ SweepOn \/ SweepEnd \/ Idle
        \/ Contain \/ PassError

Thread == HostQuantum \/ AfterlifeQuantum \/ QuantumYield \/ PollKill \/ GuestCall \/ Loop

Next == Thread \/ Kill \/ \E i \in Ctx : NativeEvent(i)

Spec == Init /\ [][Next]_vars

(* The native thread keeps running: the OS-side loop calls run_quantum again
   and a C loop or translated code always takes its next step. *)
FairSpec == Spec /\ WF_vars(Thread)
(* ... and in which moreover a callback that has been entered returns. *)
CallbacksReturn == FairSpec /\ SF_vars(Return /\ Is("callback"))

----------------------------------------------------------------------------
(* Properties *)

TurnFrames == [k : {"turn"}, c : Ctx, outer : Ctx]
SchedFrames == [k : {"sched"}, outer : Ctx, next : 0 .. MaxCtx]
DelayFrames == [k : {"delay"}, left : 0 .. DelayTurns]
WaitFrames == [k : {"wait"}, want : SUBSET Signals,
               at : {"sweep", "ran", "idle", "checked"}, next : 0 .. MaxCtx,
               progress : BOOLEAN, spun : 0 .. SweepMax]
Frame == [k : {"root", "callback", "command"}]
         \cup TurnFrames \cup SchedFrames \cup DelayFrames \cup WaitFrames
ContextRecord == [started : BOOLEAN, onStack : BOOLEAN, finished : BOOLEAN,
                  failed : BOOLEAN, blocked : BOOLEAN, mask : SUBSET Signals,
                  forbid : 0 .. ForbidMax, canUnwind : BOOLEAN]
EngineRecord == [poll : {"quantum", "context", "nested"}, count : Nat,
                 stop : BOOLEAN, resume : Ctx \cup {None, Nested}]

(* Every variable keeps its type. *)
TypeOK ==
    /\ ctx \in [Ctx -> ContextRecord]
    /\ nctx \in 0 .. MaxCtx /\ nctx # 1 /\ cur \in Ctx
    /\ engine \in Ctx \cup {None}
    /\ eng \in [Ctx -> EngineRecord]
    /\ sig \in [Ctx -> SUBSET Signals] /\ native \subseteq Sources
    /\ stack \in Seq(Frame) /\ bridge \in Seq(Nat)
    /\ depth \in 0 .. CallbackMax /\ command \in Nat
    /\ err \in BOOLEAN /\ rootFinished \in BOOLEAN /\ kill \in BOOLEAN
    /\ run \in {"live", "done", "stopped", "undefined"}
    /\ faulted \subseteq Ctx

TurnsOf(i) == {n \in 1 .. Len(stack) : stack[n].k = "turn" /\ stack[n].c = i}

(* Guest code runs as the context whose turn is innermost, on that context's
   own engine: cur_ctx, SysBase->ThisTask and the active engine are put back
   by every way of leaving a nested turn. *)
ExecutesAsItself == GuestRuns => cur = OwnerAt(Len(stack)) /\ engine = cur

(* The on_stack and can_unwind flags that guard re-entry and longjmp tell the
   truth: set exactly while a turn of the context is on the C stack, and then
   there is one such turn.  A parked context is not on the stack. *)
FlagsMatchStack ==
    \A i \in 1 .. nctx - 1 :
        /\ ctx[i].onStack = (TurnsOf(i) # {})
        /\ ctx[i].canUnwind = ctx[i].onStack
        /\ Cardinality(TurnsOf(i)) <= 1
        /\ ctx[i].blocked => err \/ ~ctx[i].onStack

(* A context that is waiting for its next turn has its continuation (stack
   baseline and call depth) in its own engine, and no engine in use holds one
   that a nested run would take over. *)
ContinuationKept ==
    \A i \in 1 .. nctx - 1 :
        /\ ~ctx[i].onStack /\ ~ctx[i].finished /\ i \notin faulted => eng[i].resume = i
        /\ ctx[i].onStack /\ ~err => eng[i].resume = None

(* The run is reported done only when no child can still use the arena. *)
DoneMeansAlone == run = "done" => LiveChildren = {} /\ stack = <<>>

(* No child is ever on the C stack twice, and whichever is on it is marked:
   the mark is what keeps schedulers and sweeps from entering it again. *)
NeverReentered ==
    /\ \A n \in 1 .. Len(stack) : stack[n].k = "turn" => ctx[stack[n].c].onStack
    /\ \A m, n \in 1 .. Len(stack) :
           stack[m].k = "turn" /\ stack[n].k = "turn" /\ stack[m].c = stack[n].c => m = n

(* A sibling never re-enters the root program that is active below it. *)
RootNotReentered == TurnsOf(0) = {}

(* Forbid keeps the context: its turn is not ended by the quantum. *)
ForbidHolds == [][QuantumYield /\ Is("turn") => ctx[Top.c].forbid = 0]_vars

(* While a callback's run is on top the no-yield poll is installed. *)
CallbackPollKept == GuestRuns /\ Is("callback") => eng[engine].poll = "nested"

(* A fault of guest code is taken for the program's and one of a library call
   for the system's (classify_hardware): g_in_bridge is 0 whenever guest code
   runs and not 0 in the C loops under it, whichever nested runs, error returns
   and longjmps came before. *)
DomainTrue ==
    run = "live" /\ stack # <<>> =>
        /\ Top.k \in GuestKinds => bridge[Len(bridge)] = 0
        /\ Top.k \notin GuestKinds /\ ~rootFinished => bridge[Len(bridge)] > 0

(* "the domain follows the real guest -> native -> guest nesting instead of
   latching on" (emu68k_host.c:364-367): between quanta no library call is under
   way, so that the next program begins with the domain of a guest. *)
DomainLeftClean == stack = <<>> => bridge = <<0>>

(* callback_depth never falls below the number of callbacks on the C stack,
   whatever unwinds it: the poll that may yield comes back only when the
   outermost callback has returned. *)
CallbacksOnStack == {n \in 1 .. Len(stack) : stack[n].k = "callback"}
CallbacksCovered == Cardinality(CallbacksOnStack) <= depth

(* ... and never stays above it: callback_depth counts the active callbacks. *)
DepthIsNesting == depth = Cardinality(CallbacksOnStack)

(* dos.Exit unwinds only the command of the context that calls it. *)
ExitUnwindsOwnCommand == [][Exit /\ command > 0 => OwnerAt(command) = cur]_vars

(* An error that ended the turn of a context holding Forbid is not contained. *)
LockHolderFaultIsLoud == [][Contain => \A i \in faulted : ctx[i].forbid = 0]_vars

(* A scheduling loop of Wait passes on only the fault of a lock holder. *)
FaultContained ==
    [][PassError /\ Is("wait") /\ Top.at = "ran" =>
           kill \/ ctx[Top.next - 1].forbid > 0]_vars

(* A context whose turn has faulted never runs again. *)
FaultedStaysOut == GuestRuns => OwnerAt(Len(stack)) \notin faulted

RootWaitServed ==
    \E n \in 1 .. Len(stack) : stack[n].k = "wait" /\ sig[0] \cap stack[n].want # {}
Runnable(i) ==
    /\ i \in LiveChildren /\ ~ctx[i].onStack
    /\ ctx[i].blocked => sig[i] \cap ctx[i].mask # {}

(* A root program inside Wait gets control back once its signal has been sent:
   no sibling's turn lasts for ever. *)
SignalObserved == RootWaitServed ~> ~RootWaitServed

(* Once the root has returned, every child that could run gets a turn. *)
AfterlifeServes ==
    \A i \in Ctx \ {0} : rootFinished /\ run = "live" /\ Runnable(i) ~> ~Runnable(i)

(* A kill request ends the run. *)
KillEndsRun == kill ~> run # "live"

(* Every error return is contained or ends the run. *)
ErrorSettles == err ~> ~err \/ run # "live"
=============================================================================
