----------------------------- MODULE GuestPorts -----------------------------
(***************************************************************************)
(* The message ports, signals and semaphores emu68k_exec.c serves to the   *)
(* 68k contexts of a run.  Ports and messages are structures in guest      *)
(* memory: next and prev are the ln_Succ and ln_Pred words of the messages *)
(* and the head and tail words of each port's list, changed word by word   *)
(* as the code changes them.                                               *)
(*                                                                         *)
(* One context executes at a time and a call is served without a switch;   *)
(* GuestExec shows that between two calls any other context may run (a     *)
(* child's quantum ends, a parent delays or waits), so here the contexts'  *)
(* calls interleave freely.  The programs follow Exec's rules: they put    *)
(* messages they hold, wait on their own ports, and delete a port when     *)
(* nothing is queued on it or owed to it.                                  *)
(***************************************************************************)
EXTENDS Integers, Sequences, FiniteSets

CONSTANTS
    Task,        \* the contexts; 0 is the root program
    Port,        \* guest memory for ports (the bump heap never reuses it)
    Message,
    NBits,       \* signal bits a Task can allocate (16 in the code)
    PublicMax,   \* EMU68K_PUBLIC_PORT_MAX
    Calls        \* the calls the programs of this instance make

ASSUME TaskAssumption == 0 \in Task /\ Task \subseteq Nat
ASSUME SizeAssumption == {NBits, PublicMax} \subseteq Nat \ {0}

Nobody == -1
NoPort == "no port"
Signals == "signals"             \* a register holds a signal mask
ASSUME NamesAssumption == NoPort \notin Port /\ Signals \notin Message

Bits == 1 .. NBits
HeadOf(p) == <<"head", p>>         \* &mp_MsgList.lh_Head, a node by its ln_Succ
EndOf(p) == <<"end", p>>           \* &mp_MsgList.lh_Tail, a node by its ln_Pred
Null == <<"null">>               \* lh_Tail itself, and a word never written
Heads == {HeadOf(p) : p \in Port}
Ends == {EndOf(p) : p \in Port}
Node == Message \cup Heads \cup Ends \cup {Null}
(* Messages and list headers are different words of guest memory, of which
   there is a finite amount. *)
ASSUME MemoryAssumption ==
    Message \cap (Heads \cup Ends \cup {Null}) = {} /\ IsFiniteSet(Message)

VARIABLES
    next,        \* ln_Succ of messages, lh_Head of lists
    prev,        \* ln_Pred of messages, lh_TailPred of lists
    port,        \* per port: whether it lives, mp_SigTask, mp_SigBit
    public,      \* the ports in run->public_port[]
    alloc,       \* tc_SigAlloc of each Task
    sig,         \* tc_SigRecvd of each Task
    held,        \* who may use a message: the Task holding it, or Nobody
    reply,       \* mn_ReplyPort
    wait,        \* per context: what it waits for, if it does
    d0,          \* per context: the last answer of WaitPort
    inside,      \* contexts between ObtainSemaphore and ReleaseSemaphore
    failed       \* a call failed; the run stops with its message

memory == <<next, prev>>
vars == <<next, prev, port, public, alloc, sig, held, reply, wait, d0, inside, failed>>

Live == {p \in Port : port[p].live}
Owner(p) == port[p].task
First(p) == next[HeadOf(p)]
Empty(p) == First(p) \in Ends \cup {Null}

Executing(t) == ~failed /\ wait[t].mode = "no"
Call(t, name) == name \in Calls /\ Executing(t)

----------------------------------------------------------------------------
(* Lists in guest memory *)

NewList(n, p) == [n EXCEPT ![HeadOf(p)] = EndOf(p)]
NewListPred(v, p) == [v EXCEPT ![EndOf(p)] = HeadOf(p)]

(* PutMsg: link m behind the last node and signal the port's task. *)
Link(p, m) ==
    LET last == prev[EndOf(p)] IN
    /\ next' = [next EXCEPT ![m] = EndOf(p), ![last] = m]
    /\ prev' = [prev EXCEPT ![m] = last, ![EndOf(p)] = m]
(* GetMsg: take the first node out.  (Mutant: the new first node, or the end
   of the list, keeps pointing back at it.) *)
UnlinkForward(p) ==
    /\ next' = [next EXCEPT ![HeadOf(p)] = next[First(p)]]
    /\ UNCHANGED prev
Unlink(p) ==
    LET succ == next[First(p)] IN
    /\ next' = [next EXCEPT ![HeadOf(p)] = succ]
    /\ prev' = [prev EXCEPT ![succ] = HeadOf(p)]

Announced(p) == [sig EXCEPT ![Owner(p)] = @ \cup {port[p].bit}]
Deliver(p, m) ==
    /\ Link(p, m)
    /\ sig' = Announced(p)
    /\ held' = [held EXCEPT ![m] = Nobody]

----------------------------------------------------------------------------
(* Ports and their signal bits *)

(* (Mutant: also tries the bit below the lowest one a program may have.) *)
FreeBitsBelow(t) == (0 .. NBits) \ alloc[t]
FreeBits(t) == Bits \ alloc[t]
IsHighest(b, S) == b \in S /\ \A o \in S : o <= b

(* A port is made in fresh guest memory; without any, the call returns NULL.
   It owns the highest free signal bit of its creator, and no bit is fatal. *)
CreateMsgPort(t) ==
    /\ Call(t, "CreateMsgPort")
    /\ \E p \in Port :
         /\ port[p].task = Nobody
         /\ \/ FreeBits(t) = {} /\ failed' = TRUE /\ UNCHANGED <<memory, port, alloc>>
            \/ \E bit \in FreeBits(t) :
                 /\ IsHighest(bit, FreeBits(t))
                 /\ port' = [port EXCEPT ![p] = [live |-> TRUE, task |-> t, bit |-> bit]]
                 /\ alloc' = [alloc EXCEPT ![t] = @ \cup {bit}]
                 /\ next' = NewList(next, p) /\ prev' = NewListPred(prev, p)
                 /\ UNCHANGED failed
    /\ UNCHANGED <<public, sig, held, reply, wait, d0, inside>>

Idle(p) == Empty(p) /\ p \notin public /\ \A m \in Message : reply[m] # p
(* (Mutant: frees every bit of the owner.) *)
ReleasedAll(p) == [alloc EXCEPT ![Owner(p)] = {}]
Released(p) == [alloc EXCEPT ![Owner(p)] = @ \ {port[p].bit}]
DeleteMsgPort(t, p) ==
    /\ Call(t, "DeleteMsgPort") /\ p \in Live /\ Owner(p) = t /\ Idle(p)
    /\ alloc' = Released(p)
    /\ port' = [port EXCEPT ![p].live = FALSE]
    /\ UNCHANGED <<memory, public, sig, held, reply, wait, d0, inside, failed>>

(* AddPort empties the list before it looks for a slot. *)
AddPort(t, p) ==
    /\ Call(t, "AddPort") /\ p \in Live /\ Owner(p) = t
    /\ next' = NewList(next, p) /\ prev' = NewListPred(prev, p)
    /\ IF p \in public \/ Cardinality(public) < PublicMax
       THEN public' = public \cup {p} /\ UNCHANGED failed
       ELSE failed' = TRUE /\ UNCHANGED public
    /\ UNCHANGED <<port, alloc, sig, held, reply, wait, d0, inside>>

RemPort(t, p) ==
    /\ Call(t, "AddPort") /\ p \in public /\ Owner(p) = t
    /\ public' = public \ {p}
    /\ UNCHANGED <<memory, port, alloc, sig, held, reply, wait, d0, inside, failed>>

(* AllocSignal(n) gives bit n if it is free, AllocSignal(-1) the highest free. *)
AllocSignal(t) ==
    /\ Call(t, "AllocSignal")
    /\ \E bit \in FreeBits(t) : alloc' = [alloc EXCEPT ![t] = @ \cup {bit}]
    /\ UNCHANGED <<memory, port, public, sig, held, reply, wait, d0, inside, failed>>

PortBits(t) == {port[p].bit : p \in {q \in Live : Owner(q) = t}}
FreeSignal(t, b) ==
    /\ Call(t, "AllocSignal") /\ b \in alloc[t] \ PortBits(t)
    /\ alloc' = [alloc EXCEPT ![t] = @ \ {b}]
    /\ UNCHANGED <<memory, port, public, sig, held, reply, wait, d0, inside, failed>>

----------------------------------------------------------------------------
(* Messages *)

PutMsg(t, p, m) ==
    /\ Call(t, "PutMsg") /\ p \in Live /\ held[m] = t
    /\ \E r \in {q \in Live : Owner(q) = t} \cup {NoPort} :
           reply' = [reply EXCEPT ![m] = r]
    /\ Deliver(p, m)
    /\ UNCHANGED <<port, public, alloc, wait, d0, inside, failed>>

GetMsg(t, p) ==
    /\ Call(t, "GetMsg") /\ p \in Live /\ Owner(p) = t
    /\ IF Empty(p)
       THEN UNCHANGED <<memory, held>>
       ELSE held' = [held EXCEPT ![First(p)] = t] /\ Unlink(p)
    /\ UNCHANGED <<port, public, alloc, sig, reply, wait, d0, inside, failed>>

(* A message without a reply port stays where it is. *)
ReplyMsg(t, m) ==
    /\ Call(t, "ReplyMsg") /\ held[m] = t /\ reply[m] # NoPort
    /\ Deliver(reply[m], m)
    /\ reply' = [reply EXCEPT ![m] = NoPort]
    /\ UNCHANGED <<port, public, alloc, wait, d0, inside, failed>>

Signal(t, to, b) ==
    /\ Call(t, "Signal") /\ b \in alloc[to]
    /\ sig' = [sig EXCEPT ![to] = @ \cup {b}]
    /\ UNCHANGED <<memory, port, public, alloc, held, reply, wait, d0, inside, failed>>

----------------------------------------------------------------------------
(* Waiting *)

NotWaiting == [mode |-> "no", mask |-> {}, on |-> NoPort]
(* The root looks for a sibling to run in a loop; a child is parked. *)
Waiting(t, mask, p) ==
    [mode |-> IF t = 0 THEN "looping" ELSE "parked", mask |-> mask, on |-> p]

Wait(t, mask) ==
    LET got == sig[t] \cap mask IN
    /\ Call(t, "Wait")
    /\ IF got # {}
       THEN sig' = [sig EXCEPT ![t] = @ \ got] /\ UNCHANGED wait
       ELSE wait' = [wait EXCEPT ![t] = Waiting(t, mask, NoPort)] /\ UNCHANGED sig
    /\ UNCHANGED <<memory, port, public, alloc, held, reply, d0, inside, failed>>

(* WaitPort looks at the list first.  A signal left over from an earlier
   message is used up: the loop looks again, finds nothing and waits.
   (Mutant: waits without looking.) *)
WaitPortUnseen(t, p) ==
    /\ Call(t, "WaitPort") /\ p \in Live /\ Owner(p) = t
    /\ wait' = [wait EXCEPT ![t] = Waiting(t, {port[p].bit}, p)]
    /\ sig' = [sig EXCEPT ![t] = @ \ {port[p].bit}]
    /\ UNCHANGED <<memory, port, public, alloc, held, reply, d0, inside, failed>>
WaitPort(t, p) ==
    /\ Call(t, "WaitPort") /\ p \in Live /\ Owner(p) = t
    /\ IF ~Empty(p)
       THEN d0' = [d0 EXCEPT ![t] = First(p)] /\ UNCHANGED <<wait, sig>>
       ELSE /\ wait' = [wait EXCEPT ![t] = Waiting(t, {port[p].bit}, p)]
            /\ sig' = [sig EXCEPT ![t] = @ \ {port[p].bit}]
            /\ UNCHANGED d0
    /\ UNCHANGED <<memory, port, public, alloc, held, reply, inside, failed>>

Arrived(t) == sig[t] \cap wait[t].mask
Taken(t) == [sig EXCEPT ![t] = @ \ Arrived(t)]

(* A parked context continues behind its call with the signals in d0: the
   loop of its WaitPort is gone. *)
Resume(t) ==
    /\ ~failed /\ wait[t].mode = "parked" /\ Arrived(t) # {}
    /\ sig' = Taken(t)
    /\ wait' = [wait EXCEPT ![t] = NotWaiting]
    /\ d0' = IF wait[t].on = NoPort THEN d0 ELSE [d0 EXCEPT ![t] = Signals]
    /\ UNCHANGED <<memory, port, public, alloc, held, reply, inside, failed>>

(* The root's Wait returns to the loop of its WaitPort. *)
LoopReturns ==
    LET w == wait[0] IN
    /\ ~failed /\ w.mode = "looping" /\ Arrived(0) # {}
    /\ sig' = Taken(0)
    /\ IF w.on # NoPort /\ Empty(w.on)
       THEN UNCHANGED <<wait, d0>>
       ELSE /\ wait' = [wait EXCEPT ![0] = NotWaiting]
            /\ d0' = IF w.on = NoPort THEN d0 ELSE [d0 EXCEPT ![0] = First(w.on)]
    /\ UNCHANGED <<memory, port, public, alloc, held, reply, inside, failed>>

(* ... or gives up, when nobody is left who could send the signal. *)
Asleep(t) ==
    wait[t].mode = "done" \/ (wait[t].mode = "parked" /\ Arrived(t) = {})
LoopFails ==
    /\ ~failed /\ wait[0].mode = "looping" /\ Arrived(0) = {}
    /\ \A t \in Task \ {0} : Asleep(t)
    /\ failed' = TRUE
    /\ UNCHANGED <<memory, port, public, alloc, sig, held, reply, wait, d0, inside>>

Finish(t) ==
    /\ Call(t, "Finish") /\ t # 0
    /\ wait' = [wait EXCEPT ![t].mode = "done"]
    /\ UNCHANGED <<memory, port, public, alloc, sig, held, reply, d0, inside, failed>>

----------------------------------------------------------------------------
(* Semaphores: obtaining one is served without looking at it. *)

ObtainSemaphore(t) ==
    /\ Call(t, "Semaphore") /\ t \notin inside
    /\ inside' = inside \cup {t}
    /\ UNCHANGED <<memory, port, public, alloc, sig, held, reply, wait, d0, failed>>

ReleaseSemaphore(t) ==
    /\ Call(t, "Semaphore") /\ t \in inside
    /\ inside' = inside \ {t}
    /\ UNCHANGED <<memory, port, public, alloc, sig, held, reply, wait, d0, failed>>

----------------------------------------------------------------------------
Init ==
    /\ next = [n \in Message \cup Heads |-> Null]
    /\ prev = [n \in Message \cup Ends |-> Null]
    /\ port = [p \in Port |-> [live |-> FALSE, task |-> Nobody, bit |-> 0]]
    /\ public = {}
    /\ alloc = [t \in Task |-> {}] /\ sig = [t \in Task |-> {}]
    /\ held \in [Message -> Task] /\ reply = [m \in Message |-> NoPort]
    /\ wait = [t \in Task |-> NotWaiting] /\ d0 = [t \in Task |-> Null]
    /\ inside = {} /\ failed = FALSE

Step(t) ==
    \/ CreateMsgPort(t) \/ AllocSignal(t) \/ Finish(t)
    \/ ObtainSemaphore(t) \/ ReleaseSemaphore(t)
    \/ \E p \in Port : \/ DeleteMsgPort(t, p) \/ AddPort(t, p) \/ RemPort(t, p)
                       \/ GetMsg(t, p) \/ WaitPort(t, p)
                       \/ \E m \in Message : PutMsg(t, p, m)
    \/ \E m \in Message : ReplyMsg(t, m)
    \/ \E b \in Bits : FreeSignal(t, b) \/ \E to \in Task : Signal(t, to, b)
    \/ \E mask \in SUBSET alloc[t] \ {{}} : Wait(t, mask)

Scheduler == LoopReturns \/ LoopFails \/ \E t \in Task : Resume(t)

Next == Scheduler \/ \E t \in Task : Step(t)

Spec == Init /\ [][Next]_vars

(* The scheduler comes back to a context whose signal has arrived. *)
FairSpec == Spec /\ WF_vars(LoopReturns) /\ \A t \in Task : WF_vars(Resume(t))

----------------------------------------------------------------------------
(* Properties *)

(* Every variable keeps its type: list words hold nodes, signal sets bits. *)
TypeOK ==
    /\ next \in [Message \cup Heads -> Message \cup Ends \cup {Null}]
    /\ prev \in [Message \cup Ends -> Message \cup Heads \cup {Null}]
    /\ port \in [Port -> [live : BOOLEAN, task : Task \cup {Nobody}, bit : 0 .. NBits]]
    /\ public \subseteq Live /\ Cardinality(public) <= PublicMax
    /\ alloc \in [Task -> SUBSET Bits] /\ sig \in [Task -> SUBSET Bits]
    /\ held \in [Message -> Task \cup {Nobody}]
    /\ reply \in [Message -> Port \cup {NoPort}]
    /\ wait \in [Task -> [mode : {"no", "looping", "parked", "done"},
                         mask : SUBSET Bits, on : Port \cup {NoPort}]]
    /\ d0 \in [Task -> Message \cup {Signals, Null}]
    /\ inside \subseteq Task /\ failed \in BOOLEAN

(* The messages of a port, in the order the list words link them. *)
Queue(p) ==
    LET node[n \in 0 .. Cardinality(Message)] ==
            IF n = 0 THEN HeadOf(p)
            ELSE IF node[n - 1] \in Message \cup Heads THEN next[node[n - 1]]
            ELSE Null
        size == Cardinality({n \in DOMAIN node : node[n] \in Message})
    IN  [n \in 1 .. size |-> node[n]]

(* The linked lists in guest memory are first-in first-out queues: whatever
   PutMsg, GetMsg, ReplyMsg and AddPort do to the words, no message is lost,
   delivered twice or overtaken. *)
Fifo == INSTANCE PortFifo WITH queue <- [p \in Port |-> Queue(p)]
FifoSpec == Fifo!Spec

(* The live ports of one Task have a signal bit each, which is allocated, so
   what wakes their owner is a message on the port it waits for. *)
BitsExclusive ==
    \A p, q \in Live :
        /\ port[p].bit \in alloc[Owner(p)]
        /\ p # q /\ Owner(p) = Owner(q) => port[p].bit # port[q].bit

(* No wakeup is lost: a context in WaitPort whose port has a message has the
   port's signal pending, however puts, gets, stale signals and reused bits
   came before. *)
WaiterCanWake ==
    \A t \in Task : wait[t].on # NoPort /\ wait[t].mode \in {"looping", "parked"}
                   => Empty(wait[t].on) \/ Arrived(t) # {}

(* A message put on a port ends its owner's WaitPort. *)
MessageEndsWait ==
    \A t \in Task, p \in Port :
        wait[t].on = p /\ ~Empty(p) ~> wait[t].on # p \/ failed

(* WaitPort answers with the first message, which it leaves on the port. *)
WaitPortAnswers ==
    [][\A t \in Task : wait[t].on # NoPort /\ wait'[t].on = NoPort
                          => d0'[t] = next'[HeadOf(wait[t].on)]]_vars

(* Only one context at a time is between obtaining and releasing a semaphore. *)
SemaphoreExcludes == Cardinality(inside) <= 1
=============================================================================
