----------------------------- MODULE SocketPump -----------------------------
(***************************************************************************)
(* The host side of bsdsocket: the pump thread that blocks in kevent() and *)
(* raises a task's wake when one of its sockets is ready                   *)
(* (src/hosted/bsdsocket/bsdsock_pump.c), and the calls that register a    *)
(* socket with it, park and try again (src/hosted/bsdsocket/bsdsock_shim.c).*)
(* The pump is a real second thread; each task is a thread of its own with *)
(* one PumpSig.  What happens under reg_mtx or under a PumpSig's mtx is    *)
(* one step.                                                               *)
(***************************************************************************)
EXTENDS Integers, FiniteSets

CONSTANTS
  Task,     (* tasks; each has one PumpSig                                 *)
  Fd,       (* file descriptor numbers, reused after a close               *)
  Dir,      (* PS_WANT_READ, PS_WANT_WRITE: the directions modelled        *)
  Slots,    (* MAX_REGS                                                    *)
  Slices,   (* PARK_TIMEOUT_MS / 100: slices of a park before it gives up  *)
  Ops,      (* which of recv, send and connect the tasks call              *)
  Calls,    (* which of the other calls are made                           *)
  Nobody    (* no task, no registration                                    *)

ASSUME SlotsAssumption  == Slots \in Nat
ASSUME SlicesAssumption == Slices \in Nat
ASSUME DirAssumption    == Dir \subseteq {"read", "write"}
ASSUME OpsAssumption    == /\ Ops \subseteq {"recv", "send", "connect"}
                           /\ "recv" \in Ops => "read" \in Dir
                           /\ Ops \cap {"send", "connect"} # {} => "write" \in Dir

Slot   == 1 .. Slots
Filter == Fd \X Dir
Registration == [fd : Fd, sig : Task, want : SUBSET Dir, ready : SUBSET Dir]

ASSUME NobodyAssumption == Nobody \notin Task \cup Registration

VARIABLES
  holder,   (* the task that opened a descriptor, or Nobody                *)
  ready,    (* the directions in which a socket is ready                   *)
  kq,       (* the kqueue is open                                          *)
  filter,   (* the kqueue: the registration (udata) behind a filter, or 0  *)
  ctl,      (* the control pipe holds a byte                               *)
  regs,     (* g_regs                                                      *)
  latched, pipe, alive, (* of each PumpSig: latch, byte in its pipe, exists *)
  pump,     (* the pump thread: where it is, its events, whom it will wake *)
  stop, running,        (* g_pump_should_stop, g_pump_running              *)
  boss,     (* where pump_stop is                                          *)
  call      (* the call each task is in                                    *)

sockets == <<holder, ready>>
kernel  == <<kq, filter, ctl>>
sigs    == <<latched, pipe, alive>>
control == <<stop, running, boss>>
vars    == <<sockets, kernel, regs, sigs, pump, control, call>>

DirOf(op) == IF op = "recv" THEN "read" ELSE "write"

Idle == [at |-> "idle", op |-> "none", fd |-> Nobody, spent |-> 0]
At(t, places) == call[t].at \in places
Goto(t, place) == call' = [call EXCEPT ![t].at = place]
Return(t) == call' = [call EXCEPT ![t] = Idle]

-----------------------------------------------------------------------------
(* The registration table, under reg_mtx                                   *)

Used(i) == regs[i] # Nobody
RegsOf(f, t) == {i \in Slot : Used(i) /\ regs[i].fd = f /\ regs[i].sig = t}
Owned(f) == \E i \in Slot : Used(i) /\ regs[i].fd = f
FreeSlots == {i \in Slot : ~Used(i)}
(* Mutant: the scan ends one entry too late. *)
FirstBeyond(free) == {i \in free : \A j \in free : i <= j} \cup {Slots + 1}
First(free) == {i \in free : \A j \in free : i <= j}

(* apply_filters and clear_filters *)
Applied(f, want, i) ==
    [p \in Filter |-> IF p[1] # f THEN filter[p] ELSE IF p[2] \in want THEN i ELSE 0]

(* pump_register: it fails when another task's registration has the
   descriptor or the table is full. *)
Accepts(t, f) == RegsOf(f, t) # {} \/ (~Owned(f) /\ FreeSlots # {})
Register(t, f, want) ==
    \/ \E i \in RegsOf(f, t) :
          /\ regs' = [regs EXCEPT ![i].want = want]
          /\ filter' = Applied(f, want, i)
    \/ /\ ~Owned(f)
       /\ \E i \in First(FreeSlots) :
             /\ regs' = [regs EXCEPT ![i] =
                           [fd |-> f, sig |-> t, want |-> want, ready |-> {}]]
             /\ filter' = Applied(f, want, i)
    \/ ~Accepts(t, f) /\ UNCHANGED <<regs, filter>>

(* Mutant: the filters are deleted whoever owns the registration. *)
UnregisteredAnyones(t, f) ==
    /\ regs' = [i \in Slot |-> IF i \in RegsOf(f, t) THEN Nobody ELSE regs[i]]
    /\ filter' = Applied(f, {}, 0)
Unregistered(t, f) ==
    /\ regs' = [i \in Slot |-> IF i \in RegsOf(f, t) THEN Nobody ELSE regs[i]]
    /\ filter' = IF RegsOf(f, t) = {} THEN filter ELSE Applied(f, {}, 0)

-----------------------------------------------------------------------------
(* The world: data arrives, buffers drain                                  *)

Arrive(f, d) ==
    /\ holder[f] # Nobody /\ d \notin ready[f]
    /\ ready' = [ready EXCEPT ![f] = @ \cup {d}]
    /\ UNCHANGED <<holder, kernel, regs, sigs, pump, control, call>>

-----------------------------------------------------------------------------
(* recv, send and connect of the shim                                      *)

MayCall(t) == At(t, {"idle"}) /\ alive[t] /\ running /\ boss = "up"

Socket(t, f) ==
    /\ "Socket" \in Calls /\ MayCall(t) /\ holder[f] = Nobody
    /\ holder' = [holder EXCEPT ![f] = t]
    /\ UNCHANGED <<ready, kernel, regs, sigs, pump, control, call>>

Begin(t, op, f) ==
    /\ MayCall(t) /\ holder[f] = t
    /\ call' = [call EXCEPT ![t] = [at |-> "try", op |-> op, fd |-> f, spent |-> 0]]
    /\ UNCHANGED <<sockets, kernel, regs, sigs, pump, control>>

(* The non-blocking call.  What it takes may exhaust the readiness. *)
TrySucceeds(t) ==
    /\ At(t, {"try"}) /\ DirOf(call[t].op) \in ready[call[t].fd]
    /\ \/ UNCHANGED ready
       \/ ready' = [ready EXCEPT ![call[t].fd] = @ \ {DirOf(call[t].op)}]
    /\ Return(t)
    /\ UNCHANGED <<holder, kernel, regs, sigs, pump, control>>

(* It would block: pump_register, whose answer is not looked at ... *)
TryBlocks(t) ==
    /\ At(t, {"try"}) /\ DirOf(call[t].op) \notin ready[call[t].fd]
    /\ Goto(t, "register")
    /\ UNCHANGED <<sockets, kernel, regs, sigs, pump, control>>

Parks(c) == IF c.op = "connect" THEN "probe"
            ELSE IF c.spent >= Slices THEN "quit" ELSE "check"

RegisterStep(t) ==
    /\ At(t, {"register"})
    /\ Register(t, call[t].fd, {DirOf(call[t].op)})
    /\ Goto(t, IF Accepts(t, call[t].fd) THEN "nudge" ELSE Parks(call[t]))
    /\ UNCHANGED <<sockets, kq, ctl, sigs, pump, control>>

(* ... and pump_wake_kqueue. *)
Nudge(t) ==
    /\ At(t, {"nudge"})
    /\ ctl' = TRUE
    /\ IF call[t].op = "watch" THEN Return(t) ELSE Goto(t, Parks(call[t]))
    /\ UNCHANGED <<sockets, kq, filter, regs, sigs, pump, control>>

(* connect looks at the socket itself before each slice. *)
Probe(t) ==
    /\ At(t, {"probe"})
    /\ Goto(t, IF "write" \in ready[call[t].fd] \/ call[t].spent >= Slices
                 THEN "quit" ELSE "check")
    /\ UNCHANGED <<sockets, kernel, regs, sigs, pump, control>>

-----------------------------------------------------------------------------
(* ps_wait                                                                 *)

(* Behind a wait: the slice is counted and the call starts over. *)
Over(c, spent) ==
    CASE c.op = "wait" -> Idle
      [] c.op = "connect" -> [c EXCEPT !.at = "probe", !.spent = spent]
      [] OTHER -> [c EXCEPT !.at = "unregister", !.spent = spent]
(* Mutant: the slice is not counted. *)
BehindUncounted(t) == call' = [call EXCEPT ![t] = Over(call[t], call[t].spent)]
Behind(t) == call' = [call EXCEPT ![t] = Over(call[t], call[t].spent + 1)]

CheckLatch(t) ==
    /\ At(t, {"check"})
    /\ IF latched[t]
         THEN /\ latched' = [latched EXCEPT ![t] = FALSE]
              /\ pipe' = [pipe EXCEPT ![t] = FALSE]
              /\ Behind(t)
         ELSE Goto(t, "select") /\ UNCHANGED <<latched, pipe>>
    /\ UNCHANGED <<sockets, kernel, regs, alive, pump, control>>

SelectReadable(t) ==
    /\ At(t, {"select"}) /\ pipe[t]
    /\ Goto(t, "check")
    /\ UNCHANGED <<sockets, kernel, regs, sigs, pump, control>>

SelectTimesOut(t) ==
    /\ At(t, {"select"})
    /\ Behind(t)
    /\ UNCHANGED <<sockets, kernel, regs, sigs, pump, control>>

(* Behind a slice recv and send unregister before they try again; a call
   that gives up, or a connect that is through, unregisters and returns. *)
UnregisterStep(t) ==
    /\ At(t, {"unregister", "quit"})
    /\ Unregistered(t, call[t].fd)
    /\ IF At(t, {"quit"}) THEN Return(t) ELSE Goto(t, "try")
    /\ UNCHANGED <<sockets, kq, ctl, sigs, pump, control>>

-----------------------------------------------------------------------------
(* The other calls: what WaitSelect is made of, close and ps_destroy       *)

(* pump_register of a descriptor of its own, or of one that its owner has
   registered, which is refused. *)
Watch(t, f, want) ==
    /\ "Watch" \in Calls /\ MayCall(t)
    /\ holder[f] = t \/ Owned(f)
    /\ Register(t, f, want)
    /\ call' = IF Accepts(t, f)
                 THEN [call EXCEPT ![t] = [Idle EXCEPT !.at = "nudge", !.op = "watch"]]
                 ELSE call
    /\ UNCHANGED <<sockets, kq, ctl, sigs, pump, control>>

(* pump_unregister of any descriptor: one the task does not own is left be. *)
Unwatch(t, f) ==
    /\ "Watch" \in Calls /\ MayCall(t)
    /\ Unregistered(t, f)
    /\ UNCHANGED <<sockets, kq, ctl, sigs, pump, control, call>>

Drain(t) ==
    /\ "Watch" \in Calls /\ MayCall(t)
    /\ regs' = [i \in Slot |-> IF Used(i) /\ regs[i].sig = t
                                 THEN [regs[i] EXCEPT !.ready = {}] ELSE regs[i]]
    /\ UNCHANGED <<sockets, kernel, sigs, pump, control, call>>

Wait(t) ==
    /\ "Watch" \in Calls /\ MayCall(t)
    /\ call' = [call EXCEPT ![t] = [Idle EXCEPT !.at = "check", !.op = "wait"]]
    /\ UNCHANGED <<sockets, kernel, regs, sigs, pump, control>>

CloseBegin(t, f) ==
    /\ "Close" \in Calls /\ MayCall(t) /\ holder[f] = t
    /\ Unregistered(t, f)
    /\ call' = [call EXCEPT ![t] = [at |-> "close", op |-> "close", fd |-> f, spent |-> 0]]
    /\ UNCHANGED <<sockets, kq, ctl, sigs, pump, control>>

(* close() takes the descriptor out of the kqueue. *)
CloseEnd(t) ==
    /\ At(t, {"close"})
    /\ holder' = [holder EXCEPT ![call[t].fd] = Nobody]
    /\ ready' = [ready EXCEPT ![call[t].fd] = {}]
    /\ filter' = Applied(call[t].fd, {}, 0)
    /\ Return(t)
    /\ UNCHANGED <<kq, ctl, regs, sigs, pump, control>>

(* A task that is through with its sockets destroys its PumpSig.  (A wake
   that comes later uses freed memory: no task of the model reads it.) *)
Destroy(t) ==
    /\ "Destroy" \in Calls /\ MayCall(t)
    /\ \A f \in Fd : holder[f] # t
    /\ alive' = [alive EXCEPT ![t] = FALSE]
    /\ UNCHANGED <<sockets, kernel, regs, latched, pipe, pump, control, call>>

-----------------------------------------------------------------------------
(* pump_main                                                               *)

PumpAt(places) == pump.at \in places
Active == {p \in Filter : filter[p] # 0 /\ p[2] \in ready[p[1]]}
Event(p) == [fd |-> p[1], dir |-> p[2], slot |-> filter[p]]

(* kevent returns what is active, again and again until it is not. *)
Kevent ==
    /\ PumpAt({"kevent"})
    /\ ctl \/ Active # {}
    /\ pump' = [pump EXCEPT !.at = "flag", !.control = ctl,
                            !.events = {Event(p) : p \in Active}]
    /\ UNCHANGED <<sockets, kernel, regs, sigs, control, call>>

StopFlag ==
    /\ PumpAt({"flag"})
    /\ pump' = IF stop THEN [pump EXCEPT !.at = "exited", !.control = FALSE, !.events = {}]
               ELSE [pump EXCEPT !.at = "events"]
    /\ UNCHANGED <<sockets, kernel, regs, sigs, control, call>>

DrainControl ==
    /\ PumpAt({"events"}) /\ pump.control
    /\ ctl' = FALSE
    /\ pump' = [pump EXCEPT !.control = FALSE]
    /\ UNCHANGED <<sockets, kq, filter, regs, sigs, control, call>>

(* The entry may be gone, or be another descriptor's by now. *)
StillWanted(e) ==
    /\ Used(e.slot) /\ regs[e.slot].fd = e.fd
    /\ e.dir \in regs[e.slot].want
TakeEvent(e) ==
    /\ PumpAt({"events"}) /\ e \in pump.events
    /\ IF StillWanted(e)
         THEN /\ regs' = [regs EXCEPT ![e.slot].ready = @ \cup {e.dir}]
              /\ pump' = [pump EXCEPT !.at = "wake", !.events = @ \ {e},
                                      !.target = regs[e.slot].sig]
         ELSE /\ pump' = [pump EXCEPT !.events = @ \ {e}]
              /\ UNCHANGED regs
    /\ UNCHANGED <<sockets, kernel, sigs, control, call>>

(* ps_wake, outside reg_mtx: at most one byte is in the pipe. *)
(* Mutant: the latch is set, the byte is not written. *)
WokenSilently(t) == latched' = [latched EXCEPT ![t] = TRUE] /\ UNCHANGED pipe
Woken(t) ==
    /\ latched' = [latched EXCEPT ![t] = TRUE]
    /\ pipe' = IF latched[t] THEN pipe ELSE [pipe EXCEPT ![t] = TRUE]
Wake ==
    /\ PumpAt({"wake"})
    /\ Woken(pump.target)
    /\ pump' = [pump EXCEPT !.at = "events", !.target = Nobody]
    /\ UNCHANGED <<sockets, kernel, regs, alive, control, call>>

BatchDone ==
    /\ PumpAt({"events"}) /\ pump.events = {} /\ ~pump.control
    /\ pump' = [pump EXCEPT !.at = "kevent"]
    /\ UNCHANGED <<sockets, kernel, regs, sigs, control, call>>

-----------------------------------------------------------------------------
(* pump_start and pump_stop, called when no task is in a call              *)

StopBegin ==
    /\ "Stop" \in Calls /\ running /\ boss = "up"
    /\ \A t \in Task : At(t, {"idle"})
    /\ stop' = TRUE /\ boss' = "nudge"
    /\ UNCHANGED <<sockets, kernel, regs, sigs, pump, running, call>>

StopNudge ==
    /\ boss = "nudge"
    /\ ctl' = TRUE /\ boss' = "join"
    /\ UNCHANGED <<sockets, kq, filter, regs, sigs, pump, stop, running, call>>

StopJoin ==
    /\ boss = "join" /\ PumpAt({"exited"})
    /\ running' = FALSE /\ boss' = "close"
    /\ UNCHANGED <<sockets, kernel, regs, sigs, pump, stop, call>>

StopClose ==
    /\ boss = "close"
    /\ kq' = FALSE /\ ctl' = FALSE /\ filter' = [p \in Filter |-> 0]
    /\ boss' = "forget"
    /\ UNCHANGED <<sockets, regs, sigs, pump, stop, running, call>>

StopForget ==
    /\ boss = "forget"
    /\ regs' = [i \in Slot |-> Nobody]
    /\ boss' = "up"
    /\ UNCHANGED <<sockets, kernel, sigs, pump, stop, running, call>>

Fresh == [at |-> "kevent", control |-> FALSE, events |-> {}, target |-> Nobody]

Start ==
    /\ ~running /\ boss = "up"
    /\ kq' = TRUE /\ stop' = FALSE /\ running' = TRUE
    /\ pump' = Fresh
    /\ UNCHANGED <<sockets, filter, ctl, regs, sigs, boss, call>>

-----------------------------------------------------------------------------
Init ==
    /\ holder = [f \in Fd |-> Nobody] /\ ready = [f \in Fd |-> {}]
    /\ kq = FALSE /\ ctl = FALSE /\ filter = [p \in Filter |-> 0]
    /\ regs = [i \in Slot |-> Nobody]
    /\ latched = [t \in Task |-> FALSE] /\ pipe = [t \in Task |-> FALSE]
    /\ alive = [t \in Task |-> TRUE]
    /\ pump = [Fresh EXCEPT !.at = "exited"]
    /\ stop = FALSE /\ running = FALSE /\ boss = "up"
    /\ call = [t \in Task |-> Idle]

Pump == Kevent \/ StopFlag \/ DrainControl \/ Wake \/ BatchDone
            \/ \E e \in pump.events : TakeEvent(e)

(* A call that has begun, except for the end of a time slice. *)
InCall(t) == \/ TrySucceeds(t) \/ TryBlocks(t) \/ RegisterStep(t) \/ Nudge(t)
             \/ Probe(t) \/ CheckLatch(t) \/ SelectReadable(t)
             \/ UnregisterStep(t) \/ CloseEnd(t)

NewCall(t) == \/ \E op \in Ops, f \in Fd : Begin(t, op, f)
              \/ \E f \in Fd : Socket(t, f) \/ Unwatch(t, f) \/ CloseBegin(t, f)
              \/ \E f \in Fd, want \in SUBSET Dir : Watch(t, f, want)
              \/ Drain(t) \/ Wait(t) \/ Destroy(t)

Stopping == StopNudge \/ StopJoin \/ StopClose \/ StopForget

Next ==
    \/ Pump \/ StopBegin \/ Stopping \/ Start
    \/ \E f \in Fd, d \in Dir : Arrive(f, d)
    \/ \E t \in Task : InCall(t) \/ SelectTimesOut(t) \/ NewCall(t)

Spec == Init /\ [][Next]_vars

(* Threads that can run do run.  Nothing is assumed of time slices. *)
FairSpec ==
    /\ Spec /\ WF_vars(Pump) /\ WF_vars(Stopping)
    /\ \A t \in Task : WF_vars(InCall(t))

-----------------------------------------------------------------------------
(* Properties                                                              *)

(* The types of the variables; a PumpSig's pipe holds a byte exactly when
   its latch is set, so that a parked task cannot sleep on a wake. *)
Places == {"idle", "try", "register", "nudge", "probe", "check", "select",
           "unregister", "quit", "close"}
CallType == [at : Places, op : Ops \cup {"none", "watch", "wait", "close"},
             fd : Fd \cup {Nobody}, spent : Nat]
PumpType == [at : {"kevent", "flag", "events", "wake", "exited"},
             control : BOOLEAN, target : Task \cup {Nobody},
             events : SUBSET [fd : Fd, dir : Dir, slot : Slot]]
TypeOK ==
    /\ holder \in [Fd -> Task \cup {Nobody}] /\ ready \in [Fd -> SUBSET Dir]
    /\ kq \in BOOLEAN /\ ctl \in BOOLEAN
    /\ filter \in [Filter -> 0 .. Slots]
    /\ regs \in [Slot -> Registration \cup {Nobody}]
    /\ latched \in [Task -> BOOLEAN] /\ pipe = latched
    /\ alive \in [Task -> BOOLEAN]
    /\ pump \in PumpType
    /\ stop \in BOOLEAN /\ running \in BOOLEAN
    /\ boss \in {"up", "nudge", "join", "close", "forget"}
    /\ call \in [Task -> CallType]

(* A descriptor has at most one registration, and the kqueue watches exactly
   what the table says: nobody's call deletes the filters of another task's
   registration, or leaves one behind. *)
OneOwner ==
    \A i, j \in Slot : Used(i) /\ Used(j) /\ regs[i].fd = regs[j].fd => i = j
FiltersMatch ==
    /\ OneOwner
    /\ kq => \A p \in Filter, i \in Slot :
                filter[p] = i <=> Used(i) /\ regs[i].fd = p[1] /\ p[2] \in regs[i].want

(* A task that waits on a socket it has registered leaves the wait when the
   socket is ready, without the help of a time slice. *)
Registered(t) == \E i \in RegsOf(call[t].fd, t) : DirOf(call[t].op) \in regs[i].want
ReadyAndParked(t) ==
    /\ At(t, {"check", "select"}) /\ call[t].op \in Ops
    /\ Registered(t) /\ DirOf(call[t].op) \in ready[call[t].fd]
ReadinessEndsWait == \A t \in Task : ReadyAndParked(t) ~> ~At(t, {"check", "select"})

(* A call ends if the time slices do: no server can keep it for ever. *)
DeadlineHolds ==
    \A t \in Task : []<>~At(t, {"check", "select"})
                      => (call[t].op \in Ops ~> At(t, {"idle"}))

(* The pump does not wake a PumpSig that has been destroyed. *)
WakeTargetAlive == PumpAt({"wake"}) => alive[pump.target]

(* pump_stop joins the pump thread and returns. *)
StopReturns == boss = "nudge" ~> boss = "up"
=============================================================================
