-------------------------- MODULE SocketPump_proofs --------------------------
(***************************************************************************)
(* Proofs about SocketPump, for any tasks, descriptors, table size and     *)
(* number of time slices.                                                  *)
(***************************************************************************)
EXTENDS SocketPump, TLAPS

-----------------------------------------------------------------------------
(* The inductive invariant                                                 *)

(* Every registration is of a descriptor its task holds and is not closing. *)
RegsHeld ==
    \A i \in Slot : Used(i) =>
        /\ holder[regs[i].fd] = regs[i].sig
        /\ ~(At(regs[i].sig, {"close"}) /\ call[regs[i].sig].fd = regs[i].fd)

(* The call of a task: what it can be doing where it is, and that it holds
   the descriptor it works on. *)
CallOK(t, c, hold) ==
    /\ c.at \in {"try", "register", "unregister", "quit", "probe"} => c.op \in Ops
    /\ c.at = "nudge" => c.op \in Ops \cup {"watch"}
    /\ c.at \in {"check", "select"} => c.op \in Ops \cup {"wait"}
    /\ c.at = "close" => c.op = "close"
    /\ c.op \in Ops \cup {"close"} => c.fd \in Fd /\ hold[c.fd] = t
CallsHeld == \A t \in Task : CallOK(t, call[t], holder)

(* Where pump_start and pump_stop are, and what they leave behind. *)
AllIdle == \A t \in Task : At(t, {"idle"})
Phases ==
    /\ running => kq /\ boss \in {"up", "nudge", "join"}
    /\ boss = "close" => ~running
    /\ boss = "forget" => ~running /\ ~kq
    /\ ~running \/ boss # "up" => AllIdle
    /\ ~running /\ boss = "up" => ~kq
    /\ ~kq => \A p \in Filter : filter[p] = 0
    /\ ~kq /\ boss = "up" => \A i \in Slot : ~Used(i)

IInv == TypeOK /\ FiltersMatch /\ RegsHeld /\ CallsHeld /\ Phases

-----------------------------------------------------------------------------
(* What pump_register and pump_unregister do to table and kqueue           *)

(* An entry is a registration exactly when it is used. *)
LEMMA UsedIsRegistration ==
  ASSUME TypeOK, NEW i \in Slot, Used(i)
  PROVE  /\ regs[i] \in Registration
         /\ regs[i].fd \in Fd /\ regs[i].sig \in Task
         /\ regs[i].want \in SUBSET Dir /\ regs[i].ready \in SUBSET Dir
BY DEF TypeOK, Used, Registration

(* A registration is not the mark of a free entry. *)
LEMMA RegistrationIsUsed ==
  ASSUME NEW r \in Registration
  PROVE  r # Nobody
BY NobodyAssumption

(* A changed filter map is a filter map. *)
LEMMA AppliedTyped ==
  ASSUME filter \in [Filter -> 0 .. Slots], NEW f, NEW want, NEW i \in 0 .. Slots
  PROVE  Applied(f, want, i) \in [Filter -> 0 .. Slots]
BY SlotsAssumption DEF Applied

(* pump_register: types and the agreement of table and kqueue are kept, and
   an entry is what it was except that one may have become the caller's. *)
LEMMA RegisterKeeps ==
  ASSUME TypeOK, FiltersMatch, NEW t \in Task, NEW f \in Fd, NEW want \in SUBSET Dir,
         Register(t, f, want), kq' = kq
  PROVE  /\ regs' \in [Slot -> Registration \cup {Nobody}]
         /\ filter' \in [Filter -> 0 .. Slots]
         /\ FiltersMatch'
         /\ \A i \in Slot : regs'[i] # Nobody =>
                \/ Used(i) /\ regs'[i].fd = regs[i].fd /\ regs'[i].sig = regs[i].sig
                \/ regs'[i].fd = f /\ regs'[i].sig = t
<1> USE DEF Slot
<1>1. CASE \E i \in RegsOf(f, t) :
              /\ regs' = [regs EXCEPT ![i].want = want]
              /\ filter' = Applied(f, want, i)
  <2>1. PICK i \in RegsOf(f, t) :
              /\ regs' = [regs EXCEPT ![i].want = want]
              /\ filter' = Applied(f, want, i)
    BY <1>1
  <2>2. /\ i \in Slot /\ Used(i) /\ regs[i].fd = f /\ regs[i].sig = t
        /\ regs[i] \in Registration
    BY UsedIsRegistration DEF RegsOf
  <2>3. /\ regs'[i] \in Registration
        /\ regs'[i].fd = f /\ regs'[i].sig = t /\ regs'[i].want = want
        /\ \A j \in Slot : j # i => regs'[j] = regs[j]
        /\ regs' \in [Slot -> Registration \cup {Nobody}]
    BY <2>1, <2>2 DEF TypeOK, Registration
  <2>4. regs'[i] # Nobody
    BY <2>3, RegistrationIsUsed
  <2>5. filter' \in [Filter -> 0 .. Slots]
    BY <2>1, <2>2, AppliedTyped, SlotsAssumption DEF TypeOK
  <2>6. OneOwner'
    BY <2>2, <2>3, <2>4 DEF FiltersMatch, OneOwner, Used
  <2>7. ASSUME kq, NEW p \in Filter, NEW j \in Slot
        PROVE  filter'[p] = j <=>
                  regs'[j] # Nobody /\ regs'[j].fd = p[1] /\ p[2] \in regs'[j].want
    <3>1. filter[p] = j <=> Used(j) /\ regs[j].fd = p[1] /\ p[2] \in regs[j].want
      BY <2>7 DEF FiltersMatch
    <3>2. filter'[p] = IF p[1] # f THEN filter[p] ELSE IF p[2] \in want THEN i ELSE 0
      BY <2>1 DEF Applied
    <3>3. j = i \/ ~(Used(j) /\ regs[j].fd = f)
      BY <2>2 DEF FiltersMatch, OneOwner
    <3>4. CASE j = i
      BY <3>1, <3>2, <3>4, <2>2, <2>3, <2>4, SlotsAssumption
    <3>5. CASE j # i
      BY <3>1, <3>2, <3>3, <3>5, <2>2, <2>3, SlotsAssumption DEF Used
    <3>6. QED
      BY <3>4, <3>5
  <2>8. FiltersMatch'
    BY <2>6, <2>7 DEF FiltersMatch, Used
  <2>9. QED
    BY <2>3, <2>4, <2>5, <2>8 DEF Used
<1>2. CASE /\ ~Owned(f)
           /\ \E i \in First(FreeSlots) :
                 /\ regs' = [regs EXCEPT ![i] =
                               [fd |-> f, sig |-> t, want |-> want, ready |-> {}]]
                 /\ filter' = Applied(f, want, i)
  <2> DEFINE r == [fd |-> f, sig |-> t, want |-> want, ready |-> {}]
  <2>1. PICK i \in First(FreeSlots) :
              regs' = [regs EXCEPT ![i] = r] /\ filter' = Applied(f, want, i)
    BY <1>2
  <2>2. i \in Slot /\ ~Used(i)
    BY DEF First, FreeSlots
  <2>3. r \in Registration /\ r # Nobody
    BY RegistrationIsUsed DEF Registration
  <2>4. /\ regs'[i] = r
        /\ \A j \in Slot : j # i => regs'[j] = regs[j]
        /\ regs' \in [Slot -> Registration \cup {Nobody}]
    BY <2>1, <2>2, <2>3 DEF TypeOK
  <2>5. filter' \in [Filter -> 0 .. Slots]
    BY <2>1, <2>2, AppliedTyped, SlotsAssumption DEF TypeOK
  <2>6. \A j \in Slot : Used(j) => regs[j].fd # f
    BY <1>2 DEF Owned
  <2>7. OneOwner'
    BY <2>3, <2>4, <2>6 DEF FiltersMatch, OneOwner, Used
  <2>8. ASSUME kq, NEW p \in Filter, NEW j \in Slot
        PROVE  filter'[p] = j <=>
                  regs'[j] # Nobody /\ regs'[j].fd = p[1] /\ p[2] \in regs'[j].want
    <3>1. filter[p] = j <=> Used(j) /\ regs[j].fd = p[1] /\ p[2] \in regs[j].want
      BY <2>8 DEF FiltersMatch
    <3>2. filter'[p] = IF p[1] # f THEN filter[p] ELSE IF p[2] \in want THEN i ELSE 0
      BY <2>1 DEF Applied
    <3>3. CASE j = i
      BY <3>1, <3>2, <3>3, <2>2, <2>3, <2>4, SlotsAssumption
    <3>4. CASE j # i
      BY <3>1, <3>2, <3>4, <2>2, <2>4, <2>6, SlotsAssumption DEF Used
    <3>5. QED
      BY <3>3, <3>4
  <2>9. FiltersMatch'
    BY <2>7, <2>8 DEF FiltersMatch, Used
  <2>10. QED
    BY <2>3, <2>4, <2>5, <2>9 DEF Used
<1>3. CASE UNCHANGED <<regs, filter>>
  BY <1>3 DEF TypeOK, FiltersMatch, OneOwner, Used
<1>4. QED
  BY <1>1, <1>2, <1>3 DEF Register

(* pump_unregister: the same, and no entry of the caller's for the
   descriptor is left. *)
LEMMA UnregisteredKeeps ==
  ASSUME TypeOK, FiltersMatch, NEW t \in Task, NEW f \in Fd \cup {Nobody},
         Unregistered(t, f), kq' = kq
  PROVE  /\ regs' \in [Slot -> Registration \cup {Nobody}]
         /\ filter' \in [Filter -> 0 .. Slots]
         /\ FiltersMatch'
         /\ \A i \in Slot : regs'[i] # Nobody =>
                /\ Used(i) /\ regs'[i] = regs[i]
                /\ ~(regs[i].fd = f /\ regs[i].sig = t)
<1> USE DEF Slot
<1>1. \A i \in Slot : regs'[i] = IF i \in RegsOf(f, t) THEN Nobody ELSE regs[i]
  BY DEF Unregistered
<1>2. regs' \in [Slot -> Registration \cup {Nobody}]
  BY DEF Unregistered, TypeOK
<1>3. filter' \in [Filter -> 0 .. Slots]
  BY AppliedTyped, SlotsAssumption DEF Unregistered, TypeOK
<1>4. \A i \in Slot : regs'[i] # Nobody =>
                /\ Used(i) /\ regs'[i] = regs[i]
                /\ ~(regs[i].fd = f /\ regs[i].sig = t)
  BY <1>1 DEF Used, RegsOf
<1>5. OneOwner'
  BY <1>4 DEF FiltersMatch, OneOwner, Used
<1>6. ASSUME kq, NEW p \in Filter, NEW j \in Slot
      PROVE  filter'[p] = j <=>
                regs'[j] # Nobody /\ regs'[j].fd = p[1] /\ p[2] \in regs'[j].want
  <2>1. filter[p] = j <=> Used(j) /\ regs[j].fd = p[1] /\ p[2] \in regs[j].want
    BY <1>6 DEF FiltersMatch
  <2>2. CASE RegsOf(f, t) = {}
    <3>1. regs'[j] = regs[j] /\ filter' = filter
      BY <1>1, <2>2 DEF Unregistered
    <3>2. QED
      BY <3>1, <2>1 DEF Used
  <2>3. CASE RegsOf(f, t) # {}
    <3>1. PICK i \in Slot : Used(i) /\ regs[i].fd = f /\ regs[i].sig = t
      BY <2>3 DEF RegsOf
    <3>2. \A k \in Slot : Used(k) /\ regs[k].fd = f => k \in RegsOf(f, t)
      BY <3>1 DEF FiltersMatch, OneOwner, RegsOf
    <3>3. filter'[p] = IF p[1] # f THEN filter[p] ELSE 0
      BY <2>3 DEF Unregistered, Applied
    <3>4. CASE p[1] = f
      BY <3>2, <3>3, <3>4, <1>1, SlotsAssumption DEF Used
    <3>5. CASE p[1] # f
      BY <3>3, <3>5, <2>1, <1>1 DEF Used, RegsOf
    <3>6. QED
      BY <3>4, <3>5
  <2>4. QED
    BY <2>2, <2>3
<1>7. QED
  BY <1>2, <1>3, <1>4, <1>5, <1>6 DEF FiltersMatch, Used

-----------------------------------------------------------------------------
(* How the rest of the invariant follows a step                            *)

(* A step that leaves table, kqueue, calls and phase alone. *)
LEMMA CoreUnchanged ==
  ASSUME IInv, UNCHANGED <<holder, kq, filter, regs, call, running, boss>>
  PROVE  FiltersMatch' /\ RegsHeld' /\ CallsHeld' /\ Phases'
<1>1. FiltersMatch'
  BY DEF IInv, FiltersMatch, OneOwner, Used
<1>2. RegsHeld'
  BY DEF IInv, RegsHeld, Used, At
<1>3. CallsHeld'
  BY DEF IInv, CallsHeld
<1>4. Phases'
  BY DEF IInv, Phases, AllIdle, Used, At
<1>5. QED
  BY <1>1, <1>2, <1>3, <1>4

(* While a task is in a call the pump is up. *)
LEMMA BusyRuns ==
  ASSUME IInv, NEW t \in Task, call[t].at # "idle"
  PROVE  running /\ kq /\ boss = "up"
BY DEF IInv, Phases, AllIdle, At

(* One call moves on, or begins, while the pump is up. *)
LEMMA CallMoves ==
  ASSUME IInv, NEW t \in Task, NEW c \in CallType, running, boss = "up",
         UNCHANGED <<holder, kq, running, boss>>, call' = [call EXCEPT ![t] = c],
         CallOK(t, c, holder)
  PROVE  call' \in [Task -> CallType] /\ CallsHeld' /\ Phases'
<1>1. call' \in [Task -> CallType] /\ call'[t] = c
       /\ \A u \in Task : u # t => call'[u] = call[u]
  BY DEF IInv, TypeOK
<1>2. CallsHeld'
  BY <1>1 DEF IInv, CallsHeld
<1>3. Phases'
  BY DEF IInv, Phases
<1>4. QED
  BY <1>1, <1>2, <1>3

(* The same, of the entries of the table: the step may only have added one
   for a descriptor the caller holds. *)
LEMMA RegsFollow ==
  ASSUME IInv, NEW t \in Task, NEW c \in CallType, NEW f \in Fd,
         UNCHANGED holder, call' = [call EXCEPT ![t] = c],
         regs' \in [Slot -> Registration \cup {Nobody}],
         \A i \in Slot : regs'[i] # Nobody =>
            \/ Used(i) /\ regs'[i].fd = regs[i].fd /\ regs'[i].sig = regs[i].sig
            \/ regs'[i].fd = f /\ regs'[i].sig = t /\ holder[f] = t,
         c.at = "close" => \A i \in Slot : regs'[i] # Nobody =>
                              ~(regs'[i].fd = c.fd /\ regs'[i].sig = t)
  PROVE  RegsHeld'
<1>1. call'[t] = c /\ \A u \in Task : u # t => call'[u] = call[u]
  BY DEF IInv, TypeOK
<1>2. ASSUME NEW i \in Slot, regs'[i] # Nobody
      PROVE  /\ holder[regs'[i].fd] = regs'[i].sig
             /\ ~(call'[regs'[i].sig].at = "close" /\ call'[regs'[i].sig].fd = regs'[i].fd)
  <2>1. regs'[i].sig \in Task
    BY <1>2 DEF Registration
  <2>2. holder[regs'[i].fd] = regs'[i].sig
    BY <1>2 DEF IInv, RegsHeld
  <2>3. CASE regs'[i].sig = t
    BY <1>1, <1>2, <2>2, <2>3
  <2>4. CASE regs'[i].sig # t
    BY <1>1, <1>2, <2>1, <2>2, <2>4 DEF IInv, RegsHeld, At
  <2>5. QED
    BY <2>2, <2>3, <2>4
<1>3. QED
  BY <1>2 DEF RegsHeld, Used, At

(* One call moves on and nothing else of the core changes. *)
LEMMA OnlyCallMoves ==
  ASSUME IInv, NEW t \in Task, NEW c \in CallType, running, boss = "up",
         UNCHANGED <<holder, kq, filter, regs, running, boss>>,
         call' = [call EXCEPT ![t] = c],
         CallOK(t, c, holder), c.at # "close"
  PROVE  /\ call' \in [Task -> CallType]
         /\ FiltersMatch' /\ RegsHeld' /\ CallsHeld' /\ Phases'
<1>1. call' \in [Task -> CallType] /\ CallsHeld' /\ Phases'
  BY CallMoves
<1>2. FiltersMatch'
  BY DEF IInv, FiltersMatch, OneOwner, Used
<1>3. RegsHeld'
  <2>1. call'[t] = c /\ \A u \in Task : u # t => call'[u] = call[u]
    BY DEF IInv, TypeOK
  <2>2. \A i \in Slot : Used(i) => regs[i].sig \in Task
    BY UsedIsRegistration DEF IInv
  <2>3. QED
    BY <2>1, <2>2 DEF IInv, RegsHeld, Used, At
<1>4. QED
  BY <1>1, <1>2, <1>3

(* Moving within a call keeps its type. *)
LEMMA GotoTyped ==
  ASSUME TypeOK, NEW t \in Task, NEW p \in Places
  PROVE  /\ [call[t] EXCEPT !.at = p] \in CallType
         /\ [call[t] EXCEPT !.at = p].at = p
         /\ [call[t] EXCEPT !.at = p].op = call[t].op
         /\ [call[t] EXCEPT !.at = p].fd = call[t].fd
BY DEF TypeOK, CallType

LEMMA IdleTyped == Idle \in CallType /\ Idle.at = "idle" /\ Idle.op = "none"
BY DEF Idle, CallType, Places

(* A task that is not in a call may begin one. *)
LEMMA IdleOK ==
  ASSUME NEW t, NEW hold
  PROVE  CallOK(t, Idle, hold)
BY IdleTyped, OpsAssumption DEF CallOK

-----------------------------------------------------------------------------
(* The steps of the tasks                                                  *)

(* A step within one call that changes table and kqueue not at all. *)
LEMMA QuietCallStep ==
  ASSUME IInv, NEW t \in Task,
         TrySucceeds(t) \/ TryBlocks(t) \/ Nudge(t) \/ Probe(t) \/ CheckLatch(t)
            \/ SelectReadable(t) \/ SelectTimesOut(t)
  PROVE  IInv'
<1> DEFINE c == call'[t]
<1>1. call \in [Task -> CallType] /\ call[t] \in CallType /\ CallOK(t, call[t], holder)
  BY DEF IInv, TypeOK, CallsHeld
<1>2. call[t].at # "idle"
  BY DEF TrySucceeds, TryBlocks, Nudge, Probe, CheckLatch, SelectReadable,
         SelectTimesOut, At
<1>3. running /\ kq /\ boss = "up"
  BY <1>2, BusyRuns
<1>4. UNCHANGED <<holder, kq, filter, regs, alive, pump, stop, running, boss>>
  BY DEF TrySucceeds, TryBlocks, Nudge, Probe, CheckLatch, SelectReadable,
         SelectTimesOut, Behind, kernel, control, sigs, sockets
<1>5. /\ call' = [call EXCEPT ![t] = c]
      /\ c \in CallType /\ CallOK(t, c, holder) /\ c.at # "close"
  <2>1. CASE call' = [call EXCEPT ![t] = Idle]
    <3>1. c = Idle
      BY <2>1, <1>1
    <3>2. QED
      BY <2>1, <3>1, IdleTyped, IdleOK
  <2>2. CASE /\ call[t].at \in {"nudge", "probe"}
             /\ \E q \in {"probe", "quit", "check"} :
                   /\ call' = [call EXCEPT ![t].at = q]
                   /\ q = "check" \/ call[t].op \in Ops
                   /\ call[t].op \in Ops \cup {"wait"}
    <3>1. PICK q \in {"probe", "quit", "check"} :
                   /\ call' = [call EXCEPT ![t].at = q]
                   /\ q = "check" \/ call[t].op \in Ops
                   /\ call[t].op \in Ops \cup {"wait"}
      BY <2>2
    <3>2. c = [call[t] EXCEPT !.at = q] /\ call' = [call EXCEPT ![t] = c]
      BY <3>1, <1>1
    <3>3. c \in CallType /\ c.at = q /\ c.op = call[t].op /\ c.fd = call[t].fd
      BY <3>2, <1>1 DEF CallType, Places
    <3>4. QED
      BY <3>1, <3>2, <3>3, <1>1 DEF CallOK
  <2>3. CASE TryBlocks(t)
    <3>1. c = [call[t] EXCEPT !.at = "register"] /\ call' = [call EXCEPT ![t] = c]
      BY <2>3, <1>1 DEF TryBlocks, Goto
    <3>2. /\ c \in CallType /\ c.at = "register" /\ c.op = call[t].op
          /\ c.fd = call[t].fd /\ call[t].at = "try"
      BY <2>3, <3>1, <1>1 DEF CallType, Places, TryBlocks, At
    <3>3. QED
      BY <3>1, <3>2, <1>1 DEF CallOK
  <2>4. CASE /\ call[t].at \in {"check", "select"}
             /\ \E q \in {"check", "select"} : call' = [call EXCEPT ![t].at = q]
    <3>1. PICK q \in {"check", "select"} : call' = [call EXCEPT ![t].at = q]
      BY <2>4
    <3>2. c = [call[t] EXCEPT !.at = q] /\ call' = [call EXCEPT ![t] = c]
      BY <3>1, <1>1
    <3>3. c \in CallType /\ c.at = q /\ c.op = call[t].op /\ c.fd = call[t].fd
      BY <3>2, <1>1 DEF CallType, Places
    <3>4. QED
      BY <2>4, <3>1, <3>2, <3>3, <1>1 DEF CallOK
  <2>5. CASE call[t].at \in {"check", "select"} /\ Behind(t)
    <3>0. call[t].op \in Ops \cup {"wait"} /\ call[t].spent + 1 \in Nat
      BY <2>5, <1>1 DEF CallOK, CallType
    <3>1. CASE call[t].op = "wait"
      <4>1. c = Idle /\ call' = [call EXCEPT ![t] = c]
        BY <2>5, <3>1, <1>1 DEF Behind, Over
      <4>2. QED
        BY <4>1, IdleTyped, IdleOK
    <3>2. CASE call[t].op = "connect"
      <4>1. /\ c = [call[t] EXCEPT !.at = "probe", !.spent = call[t].spent + 1]
            /\ call' = [call EXCEPT ![t] = c]
        BY <2>5, <3>2, <1>1 DEF Behind, Over
      <4>2. c \in CallType /\ c.at = "probe" /\ c.op = call[t].op /\ c.fd = call[t].fd
        BY <4>1, <3>0, <1>1 DEF CallType, Places
      <4>3. QED
        BY <4>1, <4>2, <3>0, <3>2, <1>1 DEF CallOK
    <3>3. CASE call[t].op \notin {"wait", "connect"}
      <4>1. /\ c = [call[t] EXCEPT !.at = "unregister", !.spent = call[t].spent + 1]
            /\ call' = [call EXCEPT ![t] = c]
        BY <2>5, <3>3, <1>1 DEF Behind, Over
      <4>2. c \in CallType /\ c.at = "unregister" /\ c.op = call[t].op /\ c.fd = call[t].fd
        BY <4>1, <3>0, <1>1 DEF CallType, Places
      <4>3. QED
        BY <4>1, <4>2, <3>0, <3>3, <1>1 DEF CallOK
    <3>4. QED
      BY <3>1, <3>2, <3>3
  <2>6. CASE Nudge(t)
    <3>1. CASE call[t].op = "watch"
      BY <2>6, <3>1, <2>1 DEF Nudge, Return
    <3>2. CASE call[t].op # "watch"
      <4>1. call[t].at = "nudge" /\ call[t].op \in Ops
        BY <2>6, <3>2, <1>1 DEF Nudge, At, CallOK
      <4>2. call' = [call EXCEPT ![t].at = Parks(call[t])]
        BY <2>6, <3>2 DEF Nudge, Goto
      <4>3. QED
        BY <4>1, <4>2, <2>2 DEF Parks
    <3>3. QED
      BY <3>1, <3>2
  <2>7. CASE Probe(t)
    <3>1. call[t].at = "probe" /\ call[t].op \in Ops
      BY <2>7, <1>1 DEF Probe, At, CallOK
    <3>2. QED
      BY <2>7, <3>1, <2>2 DEF Probe, Goto
  <2>8. CASE CheckLatch(t)
    BY <2>8, <2>4, <2>5 DEF CheckLatch, Goto, At
  <2>9. CASE SelectReadable(t) \/ SelectTimesOut(t)
    BY <2>9, <2>4, <2>5 DEF SelectReadable, SelectTimesOut, Goto, At
  <2>10. QED
    BY <2>1, <2>3, <2>6, <2>7, <2>8, <2>9 DEF TrySucceeds, Return
<1>6. /\ call' \in [Task -> CallType]
      /\ FiltersMatch' /\ RegsHeld' /\ CallsHeld' /\ Phases'
  <2> HIDE DEF c
  <2>1. QED
    BY <1>3, <1>4, <1>5, OnlyCallMoves
<1>7. /\ ready' \in [Fd -> SUBSET Dir] /\ ctl' \in BOOLEAN
      /\ latched' \in [Task -> BOOLEAN] /\ pipe' = latched'
  <2>1. TypeOK
    BY DEF IInv
  <2>2. CASE TrySucceeds(t)
    BY <2>1, <2>2 DEF TypeOK, TrySucceeds, kernel, sigs
  <2>3. CASE TryBlocks(t) \/ Nudge(t) \/ Probe(t) \/ SelectReadable(t) \/ SelectTimesOut(t)
    BY <2>1, <2>3 DEF TypeOK, TryBlocks, Nudge, Probe, SelectReadable, SelectTimesOut,
                      kernel, sigs, sockets
  <2>4. CASE CheckLatch(t)
    BY <2>1, <2>4 DEF TypeOK, CheckLatch, kernel, sockets
  <2>5. QED
    BY <2>2, <2>3, <2>4
<1>8. TypeOK'
  BY <1>4, <1>6, <1>7 DEF IInv, TypeOK
<1>9. QED
  BY <1>6, <1>8 DEF IInv

(* Registering, and unregistering, within a call. *)
LEMMA TableCallStep ==
  ASSUME IInv, NEW t \in Task, RegisterStep(t) \/ UnregisterStep(t)
  PROVE  IInv'
<1> DEFINE c == call'[t]
<1>1. /\ TypeOK /\ FiltersMatch
      /\ call \in [Task -> CallType] /\ call[t] \in CallType
      /\ CallOK(t, call[t], holder)
  BY DEF IInv, TypeOK, CallsHeld
<1>2. /\ call[t].at \in {"register", "unregister", "quit"}
      /\ call[t].op \in Ops /\ call[t].fd \in Fd /\ holder[call[t].fd] = t
  BY <1>1 DEF RegisterStep, UnregisterStep, At, CallOK
<1>3. running /\ kq /\ boss = "up"
  BY <1>2, BusyRuns
<1>4. UNCHANGED <<holder, ready, kq, ctl, latched, pipe, alive, pump, stop, running, boss>>
  BY DEF RegisterStep, UnregisterStep, control, sigs, sockets
<1>5. /\ regs' \in [Slot -> Registration \cup {Nobody}]
      /\ filter' \in [Filter -> 0 .. Slots]
      /\ FiltersMatch'
      /\ \A i \in Slot : regs'[i] # Nobody =>
            \/ Used(i) /\ regs'[i].fd = regs[i].fd /\ regs'[i].sig = regs[i].sig
            \/ regs'[i].fd = call[t].fd /\ regs'[i].sig = t
  <2>1. CASE RegisterStep(t)
    <3>1. {DirOf(call[t].op)} \in SUBSET Dir
      BY <1>2, OpsAssumption DEF DirOf
    <3>2. Register(t, call[t].fd, {DirOf(call[t].op)})
      BY <2>1 DEF RegisterStep
    <3>3. QED
      BY <1>1, <1>2, <1>4, <3>1, <3>2, RegisterKeeps
  <2>2. CASE UnregisterStep(t)
    <3>1. Unregistered(t, call[t].fd)
      BY <2>2 DEF UnregisterStep
    <3>2. QED
      BY <1>1, <1>2, <1>4, <3>1, UnregisteredKeeps
  <2>3. QED
    BY <2>1, <2>2
<1>6. /\ call' = [call EXCEPT ![t] = c]
      /\ c \in CallType /\ CallOK(t, c, holder) /\ c.at # "close"
  <2>1. CASE call' = [call EXCEPT ![t] = Idle]
    <3>1. c = Idle
      BY <2>1, <1>1
    <3>2. QED
      BY <2>1, <3>1, IdleTyped, IdleOK
  <2>2. CASE \E q \in {"nudge", "probe", "quit", "check", "try"} :
                call' = [call EXCEPT ![t].at = q]
    <3>1. PICK q \in {"nudge", "probe", "quit", "check", "try"} :
                call' = [call EXCEPT ![t].at = q]
      BY <2>2
    <3>2. c = [call[t] EXCEPT !.at = q] /\ call' = [call EXCEPT ![t] = c]
      BY <3>1, <1>1
    <3>3. c \in CallType /\ c.at = q /\ c.op = call[t].op /\ c.fd = call[t].fd
      BY <3>2, <1>1 DEF CallType, Places
    <3>4. QED
      BY <1>1, <1>2, <3>1, <3>2, <3>3 DEF CallOK
  <2>3. QED
    BY <2>1, <2>2 DEF RegisterStep, UnregisterStep, Goto, Return, Parks
<1>7. call' \in [Task -> CallType] /\ CallsHeld' /\ Phases'
  <2> HIDE DEF c
  <2>1. QED
    BY <1>3, <1>4, <1>6, CallMoves
<1>8. RegsHeld'
  <2> HIDE DEF c
  <2>1. QED
    BY <1>2, <1>4, <1>5, <1>6, RegsFollow
<1>9. TypeOK'
  BY <1>1, <1>4, <1>5, <1>7 DEF TypeOK
<1>10. QED
  BY <1>5, <1>7, <1>8, <1>9 DEF IInv

(* A call that only begins. *)
LEMMA BeginStep ==
  ASSUME IInv, NEW t \in Task,
         (\E op \in Ops, f \in Fd : Begin(t, op, f)) \/ Wait(t)
  PROVE  IInv'
<1> DEFINE c == call'[t]
<1>1. call \in [Task -> CallType] /\ TypeOK
  BY DEF IInv, TypeOK
<1>2. /\ running /\ boss = "up"
      /\ UNCHANGED <<holder, ready, kernel, regs, sigs, pump, control>>
  BY DEF Begin, Wait, MayCall, sockets
<1>3. /\ call' = [call EXCEPT ![t] = c]
      /\ c \in CallType /\ CallOK(t, c, holder) /\ c.at # "close"
  <2>1. CASE \E op \in Ops, f \in Fd : Begin(t, op, f)
    <3>1. PICK op \in Ops, f \in Fd : Begin(t, op, f)
      BY <2>1
    <3>2. /\ c = [at |-> "try", op |-> op, fd |-> f, spent |-> 0]
          /\ call' = [call EXCEPT ![t] = c] /\ holder[f] = t
      BY <3>1, <1>1 DEF Begin
    <3>3. QED
      BY <3>2 DEF CallType, Places, CallOK
  <2>2. CASE Wait(t)
    <3>1. /\ c = [at |-> "check", op |-> "wait", fd |-> Nobody, spent |-> 0]
          /\ call' = [call EXCEPT ![t] = c]
      BY <2>2, <1>1 DEF Wait, Idle
    <3>2. QED
      BY <3>1, OpsAssumption DEF CallType, Places, CallOK
  <2>3. QED
    BY <2>1, <2>2
<1>4. /\ call' \in [Task -> CallType]
      /\ FiltersMatch' /\ RegsHeld' /\ CallsHeld' /\ Phases'
  <2> HIDE DEF c
  <2>1. QED
    BY <1>2, <1>3, OnlyCallMoves DEF kernel, control
<1>5. TypeOK'
  BY <1>1, <1>2, <1>4 DEF TypeOK, kernel, sigs, control
<1>6. QED
  BY <1>4, <1>5 DEF IInv

(* pump_register and pump_unregister as calls of their own. *)
LEMMA WatchStep ==
  ASSUME IInv, NEW t \in Task, NEW f \in Fd,
         (\E want \in SUBSET Dir : Watch(t, f, want)) \/ Unwatch(t, f)
  PROVE  IInv'
<1> DEFINE c == call'[t]
<1>1. TypeOK /\ FiltersMatch /\ call \in [Task -> CallType]
  BY DEF IInv, TypeOK
<1>2. /\ running /\ boss = "up" /\ call[t].at = "idle"
      /\ UNCHANGED <<holder, ready, kq, ctl, latched, pipe, alive, pump, stop, running, boss>>
  BY DEF Watch, Unwatch, MayCall, At, sockets, sigs, control
<1>3. /\ regs' \in [Slot -> Registration \cup {Nobody}]
      /\ filter' \in [Filter -> 0 .. Slots]
      /\ FiltersMatch'
      /\ \A i \in Slot : regs'[i] # Nobody =>
            \/ Used(i) /\ regs'[i].fd = regs[i].fd /\ regs'[i].sig = regs[i].sig
            \/ regs'[i].fd = f /\ regs'[i].sig = t /\ holder[f] = t
  <2>1. CASE \E want \in SUBSET Dir : Watch(t, f, want)
    <3>1. PICK want \in SUBSET Dir : Watch(t, f, want)
      BY <2>1
    <3>2. Register(t, f, want) /\ (holder[f] = t \/ Owned(f))
      BY <3>1 DEF Watch
    <3>3. /\ regs' \in [Slot -> Registration \cup {Nobody}]
          /\ filter' \in [Filter -> 0 .. Slots]
          /\ FiltersMatch'
          /\ \A i \in Slot : regs'[i] # Nobody =>
                \/ Used(i) /\ regs'[i].fd = regs[i].fd /\ regs'[i].sig = regs[i].sig
                \/ regs'[i].fd = f /\ regs'[i].sig = t
      BY <1>1, <1>2, <3>2, RegisterKeeps
    <3>4. holder[f] # t => regs' = regs
      BY <3>2 DEF Register, RegsOf, IInv, RegsHeld
    <3>5. QED
      BY <3>3, <3>4 DEF Used
  <2>2. CASE Unwatch(t, f)
    <3>1. Unregistered(t, f)
      BY <2>2 DEF Unwatch
    <3>2. QED
      BY <1>1, <1>2, <3>1, UnregisteredKeeps
  <2>3. QED
    BY <2>1, <2>2
<1>4. /\ call' = [call EXCEPT ![t] = c]
      /\ c \in CallType /\ CallOK(t, c, holder) /\ c.at # "close"
  <2>1. CASE call' = call
    BY <2>1, <1>1, <1>2 DEF IInv, CallsHeld
  <2>2. CASE call' = [call EXCEPT ![t] = [Idle EXCEPT !.at = "nudge", !.op = "watch"]]
    <3>1. /\ c = [at |-> "nudge", op |-> "watch", fd |-> Nobody, spent |-> 0]
          /\ call' = [call EXCEPT ![t] = c]
      BY <2>2, <1>1 DEF Idle
    <3>2. QED
      BY <3>1, OpsAssumption DEF CallType, Places, CallOK
  <2>3. QED
    BY <2>1, <2>2 DEF Watch, Unwatch
<1>5. call' \in [Task -> CallType] /\ CallsHeld' /\ Phases'
  <2> HIDE DEF c
  <2>1. QED
    BY <1>2, <1>4, CallMoves
<1>6. RegsHeld'
  <2> HIDE DEF c
  <2>1. QED
    BY <1>2, <1>3, <1>4, RegsFollow
<1>7. TypeOK'
  BY <1>1, <1>2, <1>3, <1>5 DEF TypeOK
<1>8. QED
  BY <1>3, <1>5, <1>6, <1>7 DEF IInv

(* hs_close unregisters first: while the descriptor closes, the table has no
   entry of its holder's for it. *)
LEMMA CloseBeginStep ==
  ASSUME IInv, NEW t \in Task, NEW f \in Fd, CloseBegin(t, f)
  PROVE  IInv'
<1> DEFINE c == [at |-> "close", op |-> "close", fd |-> f, spent |-> 0]
<1>1. /\ TypeOK /\ FiltersMatch /\ call \in [Task -> CallType]
      /\ Unregistered(t, f) /\ holder[f] = t
      /\ running /\ boss = "up" /\ call' = [call EXCEPT ![t] = c]
      /\ UNCHANGED <<holder, ready, kq, ctl, latched, pipe, alive, pump, stop, running, boss>>
  BY DEF IInv, TypeOK, CloseBegin, MayCall, sockets, sigs, control
<1>2. /\ regs' \in [Slot -> Registration \cup {Nobody}]
      /\ filter' \in [Filter -> 0 .. Slots]
      /\ FiltersMatch'
      /\ \A i \in Slot : regs'[i] # Nobody =>
            /\ Used(i) /\ regs'[i] = regs[i]
            /\ ~(regs[i].fd = f /\ regs[i].sig = t)
  BY <1>1, UnregisteredKeeps
<1>3. c \in CallType /\ CallOK(t, c, holder) /\ c.fd = f
  BY <1>1, OpsAssumption DEF CallType, Places, CallOK
<1>4. /\ call' \in [Task -> CallType] /\ CallsHeld' /\ Phases'
      /\ RegsHeld'
  <2> HIDE DEF c
  <2>1. call' \in [Task -> CallType] /\ CallsHeld' /\ Phases'
    BY <1>1, <1>3, CallMoves
  <2>2. /\ \A i \in Slot : regs'[i] # Nobody =>
              Used(i) /\ regs'[i].fd = regs[i].fd /\ regs'[i].sig = regs[i].sig
        /\ \A i \in Slot : regs'[i] # Nobody =>
              ~(regs'[i].fd = c.fd /\ regs'[i].sig = t)
    BY <1>2, <1>3
  <2>3. RegsHeld'
    BY <1>1, <1>2, <1>3, <2>2, RegsFollow
  <2>4. QED
    BY <2>1, <2>3
<1>5. TypeOK'
  BY <1>1, <1>2, <1>4 DEF TypeOK
<1>6. QED
  BY <1>2, <1>4, <1>5 DEF IInv
(* pump_drain takes the bits of the caller's entries, and socket() and
   ps_destroy touch no entry at all. *)
LEMMA DrainStep ==
  ASSUME IInv, NEW t \in Task, Drain(t)
  PROVE  IInv'
<1>1. /\ TypeOK /\ FiltersMatch
      /\ UNCHANGED <<holder, ready, kq, filter, ctl, latched, pipe, alive, pump,
                     stop, running, boss, call>>
  BY DEF IInv, Drain, sockets, kernel, sigs, control
<1>2. \A i \in Slot :
         regs'[i] = IF Used(i) /\ regs[i].sig = t
                      THEN [regs[i] EXCEPT !.ready = {}] ELSE regs[i]
  BY DEF Drain
<1>3. ASSUME NEW i \in Slot
      PROVE  /\ regs'[i] \in Registration \cup {Nobody}
             /\ regs'[i] # Nobody <=> Used(i)
             /\ Used(i) => /\ regs'[i].fd = regs[i].fd /\ regs'[i].sig = regs[i].sig
                           /\ regs'[i].want = regs[i].want
  <2>1. CASE Used(i)
    <3>1. regs[i] \in Registration
      BY <1>1, <2>1, UsedIsRegistration
    <3>2. /\ [regs[i] EXCEPT !.ready = {}] \in Registration
          /\ [regs[i] EXCEPT !.ready = {}].fd = regs[i].fd
          /\ [regs[i] EXCEPT !.ready = {}].sig = regs[i].sig
          /\ [regs[i] EXCEPT !.ready = {}].want = regs[i].want
      BY <3>1 DEF Registration
    <3>3. regs'[i] \in Registration /\ regs'[i] # Nobody
      BY <1>2, <3>1, <3>2, RegistrationIsUsed
    <3>4. QED
      BY <1>2, <2>1, <3>2, <3>3
  <2>2. CASE ~Used(i)
    BY <1>2, <2>2 DEF Used
  <2>3. QED
    BY <2>1, <2>2
<1>4. regs' \in [Slot -> Registration \cup {Nobody}]
  BY <1>3 DEF Drain
<1>5. FiltersMatch'
  BY <1>1, <1>3 DEF FiltersMatch, OneOwner, Used
<1>6. RegsHeld'
  BY <1>1, <1>3 DEF IInv, RegsHeld, Used, At
<1>7. CallsHeld' /\ Phases'
  BY <1>1, <1>3 DEF IInv, CallsHeld, Phases, AllIdle, Used, At
<1>8. TypeOK'
  BY <1>1, <1>4 DEF TypeOK
<1>9. QED
  BY <1>5, <1>6, <1>7, <1>8 DEF IInv

LEMMA SocketStep ==
  ASSUME IInv, NEW t \in Task, NEW f \in Fd, Socket(t, f)
  PROVE  IInv'
<1>1. /\ TypeOK
      /\ UNCHANGED <<ready, kq, filter, ctl, regs, latched, pipe, alive, pump,
                     stop, running, boss, call>>
      /\ holder[f] = Nobody /\ holder' = [holder EXCEPT ![f] = t]
  BY DEF IInv, Socket, kernel, sigs, control
<1>2. \A g \in Fd : holder[g] # Nobody => holder'[g] = holder[g]
  BY <1>1 DEF TypeOK
<1>3. FiltersMatch'
  BY <1>1 DEF IInv, FiltersMatch, OneOwner, Used
<1>4. RegsHeld'
  <2>1. ASSUME NEW i \in Slot, Used(i)
        PROVE  holder'[regs[i].fd] = regs[i].sig
    <3>1. regs[i].fd \in Fd /\ regs[i].sig \in Task
      BY <1>1, <2>1, UsedIsRegistration
    <3>2. holder[regs[i].fd] = regs[i].sig
      BY <2>1 DEF IInv, RegsHeld
    <3>3. QED
      BY <1>2, <3>1, <3>2, NobodyAssumption
  <2>2. QED
    BY <1>1, <2>1 DEF IInv, RegsHeld, Used, At
<1>5. CallsHeld'
  BY <1>1, <1>2, NobodyAssumption DEF IInv, CallsHeld, CallOK
<1>6. Phases'
  BY <1>1 DEF IInv, Phases, AllIdle, Used, At
<1>7. TypeOK'
  BY <1>1 DEF TypeOK
<1>8. QED
  BY <1>3, <1>4, <1>5, <1>6, <1>7 DEF IInv

LEMMA DestroyStep ==
  ASSUME IInv, NEW t \in Task, Destroy(t)
  PROVE  IInv'
<1>1. FiltersMatch' /\ RegsHeld' /\ CallsHeld' /\ Phases'
  BY CoreUnchanged DEF Destroy, sockets, kernel, control
<1>2. TypeOK'
  BY DEF IInv, TypeOK, Destroy, sockets, kernel, control
<1>3. QED
  BY <1>1, <1>2 DEF IInv

(* close() frees a descriptor that no entry of the table is for: its filters
   went with the entry. *)
LEMMA CloseEndStep ==
  ASSUME IInv, NEW t \in Task, CloseEnd(t)
  PROVE  IInv'
<1> DEFINE f == call[t].fd
<1>1. /\ TypeOK /\ FiltersMatch /\ call \in [Task -> CallType]
      /\ call[t].at = "close" /\ CallOK(t, call[t], holder)
      /\ call' = [call EXCEPT ![t] = Idle]
      /\ holder' = [holder EXCEPT ![f] = Nobody]
      /\ ready' = [ready EXCEPT ![f] = {}]
      /\ filter' = Applied(f, {}, 0)
      /\ UNCHANGED <<kq, ctl, regs, latched, pipe, alive, pump, stop, running, boss>>
  BY DEF IInv, TypeOK, CallsHeld, CloseEnd, At, Return, sigs, control
<1>2. f \in Fd /\ holder[f] = t /\ running /\ kq /\ boss = "up"
  BY <1>1, BusyRuns DEF CallOK
<1>3. \A i \in Slot : Used(i) => regs[i].fd # f /\ regs[i].fd \in Fd /\ regs[i].sig \in Task
  BY <1>1, <1>2, UsedIsRegistration DEF IInv, RegsHeld, At
<1>4. filter' \in [Filter -> 0 .. Slots]
  BY <1>1, AppliedTyped, SlotsAssumption DEF TypeOK
<1>5. FiltersMatch'
  <2>1. ASSUME NEW p \in Filter, NEW i \in Slot
        PROVE  filter'[p] = i <=>
                  Used(i) /\ regs[i].fd = p[1] /\ p[2] \in regs[i].want
    <3>1. filter[p] = i <=> Used(i) /\ regs[i].fd = p[1] /\ p[2] \in regs[i].want
      BY <1>1, <1>2 DEF FiltersMatch
    <3>2. filter'[p] = IF p[1] # f THEN filter[p] ELSE 0
      BY <1>1 DEF Applied
    <3>3. i # 0
      BY SlotsAssumption DEF Slot
    <3>4. QED
      BY <1>3, <3>1, <3>2, <3>3
  <2>2. QED
    BY <1>1, <2>1 DEF FiltersMatch, OneOwner, Used
<1>6. /\ call'[t] = Idle /\ \A u \in Task : u # t => call'[u] = call[u]
      /\ \A g \in Fd : g # f => holder'[g] = holder[g]
      /\ call' \in [Task -> CallType]
  BY <1>1, IdleTyped DEF TypeOK
<1>7. RegsHeld'
  BY <1>1, <1>3, <1>6, IdleTyped DEF IInv, RegsHeld, Used, At
<1>8. CallsHeld'
  <2>1. ASSUME NEW u \in Task, u # t
        PROVE  CallOK(u, call[u], holder')
    BY <1>2, <1>6, <2>1 DEF IInv, CallsHeld, CallOK
  <2>2. QED
    BY <1>6, <2>1, IdleOK DEF CallsHeld
<1>9. Phases'
  BY <1>1, <1>2 DEF IInv, Phases
<1>10. TypeOK'
  <2>1. holder' \in [Fd -> Task \cup {Nobody}] /\ ready' \in [Fd -> SUBSET Dir]
    BY <1>1 DEF TypeOK
  <2>2. QED
    BY <1>1, <1>4, <1>6, <2>1 DEF TypeOK
<1>11. QED
  BY <1>5, <1>7, <1>8, <1>9, <1>10 DEF IInv

-----------------------------------------------------------------------------
(* The steps of the pump, of the sockets, of pump_start and pump_stop      *)

(* What the pump has in hand stays typed: an event names a filter that has
   an entry behind it. *)
LEMMA PumpStep ==
  ASSUME IInv, Kevent \/ StopFlag \/ DrainControl \/ Wake \/ BatchDone
  PROVE  IInv'
<1>1. FiltersMatch' /\ RegsHeld' /\ CallsHeld' /\ Phases'
  <2>1. UNCHANGED <<holder, kq, filter, regs, call, running, boss>>
    BY DEF Kevent, StopFlag, DrainControl, Wake, BatchDone, sockets, kernel, control
  <2>2. QED
    BY <2>1, CoreUnchanged
<1>2. TypeOK /\ pump \in PumpType
  BY DEF IInv, TypeOK
<1>3. /\ UNCHANGED <<holder, ready, kq, filter, regs, alive, stop, running, boss, call>>
      /\ pump' \in PumpType
      /\ ctl' \in BOOLEAN /\ latched' \in [Task -> BOOLEAN] /\ pipe' = latched'
  <2>1. CASE Kevent
    <3>1. \A p \in Active : Event(p) \in [fd : Fd, dir : Dir, slot : Slot]
      <4>1. \A p \in Filter : p[1] \in Fd /\ p[2] \in Dir
        BY DEF Filter
      <4>2. \A p \in Active : p \in Filter /\ filter[p] \in 0 .. Slots /\ filter[p] # 0
        BY <1>2 DEF Active, TypeOK
      <4>3. QED
        BY <4>1, <4>2, SlotsAssumption DEF Event, Slot
    <3>2. pump' \in PumpType
      <4> DEFINE batch == {Event(p) : p \in Active}
      <4>1. batch \in SUBSET [fd : Fd, dir : Dir, slot : Slot]
        BY <3>1
      <4>2. pump' = [pump EXCEPT !.at = "flag", !.control = ctl, !.events = batch]
        BY <2>1 DEF Kevent
      <4> HIDE DEF batch
      <4>3. ctl \in BOOLEAN
        BY <1>2 DEF TypeOK
      <4>4. QED
        BY <1>2, <4>1, <4>2, <4>3 DEF PumpType
    <3>3. QED
      BY <1>2, <2>1, <3>2 DEF Kevent, TypeOK, sockets, kernel, sigs, control
  <2>2. CASE StopFlag
    BY <1>2, <2>2 DEF StopFlag, PumpType, TypeOK, sockets, kernel, sigs, control
  <2>3. CASE DrainControl
    BY <1>2, <2>3 DEF DrainControl, PumpType, TypeOK, sockets, sigs, control
  <2>4. CASE Wake
    <3>1. /\ pump' = [pump EXCEPT !.at = "events", !.target = Nobody]
          /\ UNCHANGED <<holder, ready, kq, filter, ctl, regs, alive, stop, running, boss, call>>
      BY <2>4 DEF Wake, sockets, kernel, control
    <3>2. pump' \in PumpType
      BY <1>2, <3>1 DEF PumpType
    <3>3. latched' \in [Task -> BOOLEAN] /\ pipe' = latched'
      BY <1>2, <2>4 DEF Wake, Woken, TypeOK
    <3>4. QED
      BY <1>2, <3>1, <3>2, <3>3 DEF TypeOK
  <2>5. CASE BatchDone
    BY <1>2, <2>5 DEF BatchDone, PumpType, TypeOK, sockets, kernel, sigs, control
  <2>6. QED
    BY <2>1, <2>2, <2>3, <2>4, <2>5
<1>4. TypeOK'
  BY <1>2, <1>3 DEF TypeOK
<1>5. QED
  BY <1>1, <1>4 DEF IInv

(* Taking an event adds a bit to an entry that still wants it. *)
LEMMA TakeEventStep ==
  ASSUME IInv, NEW e \in pump.events, TakeEvent(e)
  PROVE  IInv'
<1>1. /\ TypeOK /\ FiltersMatch /\ pump \in PumpType
      /\ e \in [fd : Fd, dir : Dir, slot : Slot]
      /\ UNCHANGED <<holder, ready, kq, filter, ctl, latched, pipe, alive, stop,
                     running, boss, call>>
  BY DEF IInv, TypeOK, PumpType, TakeEvent, sockets, kernel, sigs, control
<1>2. CASE ~StillWanted(e)
  <2>1. FiltersMatch' /\ RegsHeld' /\ CallsHeld' /\ Phases'
    BY <1>1, <1>2, CoreUnchanged DEF TakeEvent
  <2>2. pump' \in PumpType
    BY <1>1, <1>2 DEF TakeEvent, PumpType
  <2>3. TypeOK'
    BY <1>1, <1>2, <2>2 DEF TypeOK, TakeEvent
  <2>4. QED
    BY <2>1, <2>3 DEF IInv
<1>3. CASE StillWanted(e)
  <2> DEFINE s == e.slot
  <2>1. s \in Slot /\ e.dir \in Dir
    BY <1>1
  <2>2. /\ Used(s) /\ regs[s] \in Registration /\ regs[s].sig \in Task
        /\ regs[s].ready \in SUBSET Dir
    BY <1>1, <1>3, <2>1, UsedIsRegistration DEF StillWanted
  <2> DEFINE r == [regs[s] EXCEPT !.ready = regs[s].ready \cup {e.dir}]
  <2>3. /\ r \in Registration
        /\ r.fd = regs[s].fd /\ r.sig = regs[s].sig /\ r.want = regs[s].want
    BY <2>1, <2>2 DEF Registration
  <2>4. r # Nobody
    BY <2>3, RegistrationIsUsed
  <2>5. regs' = [regs EXCEPT ![s] = r]
    BY <1>1, <1>3, <2>1 DEF TakeEvent, TypeOK
  <2>6. /\ regs' \in [Slot -> Registration \cup {Nobody}]
        /\ regs'[s] = r /\ \A i \in Slot : i # s => regs'[i] = regs[i]
    BY <1>1, <2>1, <2>3, <2>5 DEF TypeOK
  <2>7. ASSUME NEW i \in Slot
        PROVE  /\ regs'[i] # Nobody <=> Used(i)
               /\ Used(i) => /\ regs'[i].fd = regs[i].fd /\ regs'[i].sig = regs[i].sig
                             /\ regs'[i].want = regs[i].want
    BY <2>2, <2>3, <2>4, <2>6 DEF Used
  <2>8. FiltersMatch'
    BY <1>1, <2>7 DEF FiltersMatch, OneOwner, Used
  <2>9. RegsHeld'
    BY <1>1, <2>7 DEF IInv, RegsHeld, Used, At
  <2>10. CallsHeld' /\ Phases'
    BY <1>1, <2>7 DEF IInv, CallsHeld, Phases, AllIdle, Used, At
  <2>11. pump' \in PumpType
    <3>1. pump' = [pump EXCEPT !.at = "wake", !.events = pump.events \ {e},
                               !.target = regs[s].sig]
      BY <1>3 DEF TakeEvent
    <3>2. QED
      BY <1>1, <2>2, <3>1 DEF PumpType
  <2>12. TypeOK'
    BY <1>1, <2>6, <2>11 DEF TypeOK
  <2>13. QED
    BY <2>8, <2>9, <2>10, <2>12 DEF IInv
<1>4. QED
  BY <1>2, <1>3

LEMMA ArriveStep ==
  ASSUME IInv, NEW f \in Fd, NEW d \in Dir, Arrive(f, d)
  PROVE  IInv'
<1>1. FiltersMatch' /\ RegsHeld' /\ CallsHeld' /\ Phases'
  BY CoreUnchanged DEF Arrive, kernel, control
<1>2. TypeOK'
  BY DEF IInv, TypeOK, Arrive, kernel, sigs, control
<1>3. QED
  BY <1>1, <1>2 DEF IInv

(* Stopping and starting: no task is in a call, and the table is not
   compared with a kqueue that is closed. *)
LEMMA ControlStep ==
  ASSUME IInv, StopBegin \/ Stopping \/ Start
  PROVE  IInv'
<1>1. TypeOK /\ FiltersMatch /\ RegsHeld /\ CallsHeld /\ Phases
  BY DEF IInv
<1>2. CASE StopBegin
  <2>1. TypeOK'
    BY <1>1, <1>2 DEF TypeOK, StopBegin, sockets, kernel, sigs
  <2>2. FiltersMatch' /\ RegsHeld' /\ CallsHeld'
    BY <1>1, <1>2 DEF FiltersMatch, OneOwner, RegsHeld, CallsHeld, Used, At,
                      StopBegin, sockets, kernel
  <2>3. Phases'
    BY <1>1, <1>2 DEF Phases, AllIdle, Used, At, StopBegin, kernel
  <2>4. QED
    BY <2>1, <2>2, <2>3 DEF IInv
<1>3. CASE StopNudge
  <2>1. TypeOK'
    BY <1>1, <1>3 DEF TypeOK, StopNudge, sockets, sigs
  <2>2. FiltersMatch' /\ RegsHeld' /\ CallsHeld'
    BY <1>1, <1>3 DEF FiltersMatch, OneOwner, RegsHeld, CallsHeld, Used, At,
                      StopNudge, sockets
  <2>3. Phases'
    BY <1>1, <1>3 DEF Phases, AllIdle, Used, At, StopNudge
  <2>4. QED
    BY <2>1, <2>2, <2>3 DEF IInv
<1>4. CASE StopJoin
  <2>1. TypeOK'
    BY <1>1, <1>4 DEF TypeOK, StopJoin, sockets, kernel, sigs
  <2>2. FiltersMatch' /\ RegsHeld' /\ CallsHeld'
    BY <1>1, <1>4 DEF FiltersMatch, OneOwner, RegsHeld, CallsHeld, Used, At,
                      StopJoin, sockets, kernel
  <2>3. Phases'
    BY <1>1, <1>4 DEF Phases, AllIdle, Used, At, StopJoin, kernel
  <2>4. QED
    BY <2>1, <2>2, <2>3 DEF IInv
<1>5. CASE StopClose
  <2>1. TypeOK'
    <3>1. filter' \in [Filter -> 0 .. Slots]
      BY <1>5, SlotsAssumption DEF StopClose
    <3>2. QED
      BY <1>1, <1>5, <3>1 DEF TypeOK, StopClose, sockets, sigs
  <2>2. FiltersMatch' /\ RegsHeld' /\ CallsHeld'
    BY <1>1, <1>5 DEF FiltersMatch, OneOwner, RegsHeld, CallsHeld, Used, At,
                      StopClose, sockets
  <2>3. Phases'
    BY <1>1, <1>5 DEF Phases, AllIdle, Used, At, StopClose
  <2>4. QED
    BY <2>1, <2>2, <2>3 DEF IInv
<1>6. CASE StopForget
  <2>1. /\ \A i \in Slot : regs'[i] = Nobody
        /\ regs' \in [Slot -> Registration \cup {Nobody}]
    BY <1>6 DEF StopForget
  <2>2. TypeOK'
    BY <1>1, <1>6, <2>1 DEF TypeOK, StopForget, sockets, kernel, sigs
  <2>3. FiltersMatch'
    BY <1>1, <1>6, <2>1 DEF FiltersMatch, OneOwner, Used, Phases, StopForget, kernel
  <2>4. RegsHeld' /\ CallsHeld'
    BY <1>1, <1>6, <2>1 DEF RegsHeld, CallsHeld, Used, StopForget, sockets
  <2>5. Phases'
    BY <1>1, <1>6, <2>1 DEF Phases, AllIdle, Used, At, StopForget, kernel
  <2>6. QED
    BY <2>2, <2>3, <2>4, <2>5 DEF IInv
<1>7. CASE Start
  <2>1. /\ \A p \in Filter : filter[p] = 0
        /\ \A i \in Slot : ~Used(i) /\ i # 0
    BY <1>1, <1>7, SlotsAssumption DEF Phases, Start, Slot
  <2>2. TypeOK'
    BY <1>1, <1>7 DEF TypeOK, PumpType, Fresh, Start, sockets, sigs
  <2>3. FiltersMatch' /\ RegsHeld' /\ CallsHeld'
    BY <1>1, <1>7, <2>1 DEF FiltersMatch, OneOwner, RegsHeld, CallsHeld, Used, Start, sockets
  <2>4. Phases'
    BY <1>1, <1>7, <2>1 DEF Phases, AllIdle, Used, At, Start
  <2>5. QED
    BY <2>2, <2>3, <2>4 DEF IInv
<1>8. QED
  BY <1>2, <1>3, <1>4, <1>5, <1>6, <1>7 DEF Stopping

-----------------------------------------------------------------------------
(* The theorems                                                            *)

LEMMA InitialInvariant == Init => IInv
<1> SUFFICES ASSUME Init PROVE IInv
  OBVIOUS
<1>1. TypeOK
  <2>1. pump \in PumpType
    BY DEF Init, PumpType, Fresh
  <2>2. filter \in [Filter -> 0 .. Slots]
    BY SlotsAssumption DEF Init
  <2>3. call \in [Task -> CallType]
    BY IdleTyped DEF Init
  <2>4. QED
    BY <2>1, <2>2, <2>3 DEF Init, TypeOK
<1>2. \A i \in Slot : ~Used(i)
  BY DEF Init, Used
<1>3. FiltersMatch /\ RegsHeld
  BY <1>2 DEF Init, FiltersMatch, OneOwner, RegsHeld
<1>4. CallsHeld
  BY IdleOK DEF Init, CallsHeld
<1>5. Phases
  BY <1>2, IdleTyped DEF Init, Phases, AllIdle, At
<1>6. QED
  BY <1>1, <1>3, <1>4, <1>5 DEF IInv

LEMMA InvariantKept == IInv /\ [Next]_vars => IInv'
<1> SUFFICES ASSUME IInv, [Next]_vars PROVE IInv'
  OBVIOUS
<1>1. CASE Pump
  BY <1>1, PumpStep, TakeEventStep DEF Pump
<1>2. CASE StopBegin \/ Stopping \/ Start
  BY <1>2, ControlStep
<1>3. CASE \E f \in Fd, d \in Dir : Arrive(f, d)
  BY <1>3, ArriveStep
<1>4. ASSUME NEW t \in Task, InCall(t) \/ SelectTimesOut(t)
      PROVE  IInv'
  BY <1>4, QuietCallStep, TableCallStep, CloseEndStep DEF InCall
<1>5. ASSUME NEW t \in Task, NewCall(t)
      PROVE  IInv'
  BY <1>5, BeginStep, SocketStep, WatchStep, CloseBeginStep, DrainStep, DestroyStep
     DEF NewCall
<1>6. CASE UNCHANGED vars
  <2>1. UNCHANGED <<holder, ready, kq, filter, ctl, regs, latched, pipe, alive,
                    pump, stop, running, boss, call>>
    BY <1>6 DEF vars, sockets, kernel, sigs, control
  <2>2. FiltersMatch' /\ RegsHeld' /\ CallsHeld' /\ Phases'
    BY <2>1, CoreUnchanged
  <2>3. TypeOK'
    BY <2>1 DEF IInv, TypeOK
  <2>4. QED
    BY <2>2, <2>3 DEF IInv
<1>7. QED
  BY <1>1, <1>2, <1>3, <1>4, <1>5, <1>6 DEF Next

(* Every registration in the table is of a descriptor its task still holds,
   and a task works only on descriptors it holds: what makes table and
   kqueue agree while descriptors are closed and reused. *)
THEOREM Invariant == Spec => []IInv
BY InitialInvariant, InvariantKept, PTL DEF Spec

(* The types, and that a PumpSig's pipe holds a byte exactly when its latch
   is set: ps_wake and ps_wait never let a task sleep on a wake. *)
THEOREM TypesKept == Spec => []TypeOK
BY Invariant, PTL DEF IInv

(* A descriptor has one registration at most, and the kqueue watches exactly
   what the table says. *)
THEOREM FiltersAgree == Spec => []FiltersMatch
BY Invariant, PTL DEF IInv
=============================================================================
