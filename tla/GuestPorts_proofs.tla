-------------------------- MODULE GuestPorts_proofs --------------------------
(***************************************************************************)
(* Proofs about GuestPorts, whatever the contexts, the ports, the messages *)
(* and the number of bits: every variable keeps its type, the live ports   *)
(* of a context have a signal bit each, the list words implement the       *)
(* first-in first-out queues of PortFifo, and no wakeup of WaitPort is     *)
(* lost.                                                                   *)
(*                                                                         *)
(* The first two are not inductive alone: the table of public ports must   *)
(* be finite for its size to say anything, a bit belongs to a port only    *)
(* while the port has an owner, and a reply signals that bit only if the   *)
(* port it goes to still lives.  IInv adds the three.                      *)
(*                                                                         *)
(* For the queues, Linked says which sequences of messages the words hold: *)
(* along the chain of a port, ln_Succ and ln_Pred point to the neighbours, *)
(* a message is in one place, and nobody holds it then.  Woven: there are  *)
(* such sequences in every state.  Each operation on the words is an       *)
(* operation on them, and Queue reads them off.                            *)
(*                                                                         *)
(* For WaitPort, WaitInv: a context that waits on a port owns it and waits *)
(* for its bit, and the port's list is empty or the bit has arrived.       *)
(***************************************************************************)
EXTENDS GuestPorts, FiniteSetTheorems, SequenceTheorems, FunctionTheorems,
        WellFoundedInduction, TLAPS

PublicFinite == IsFiniteSet(public)
OwnersAreTasks == \A p \in Live : Owner(p) \in Task

RepliesLive == \A m \in Message : reply[m] \in Live \cup {NoPort}

IInv == TypeOK /\ PublicFinite /\ OwnersAreTasks /\ RepliesLive /\ BitsExclusive

USE TaskAssumption, SizeAssumption

(* Heads, ends and words never written are all different. *)
LEMMA NodesDiffer ==
    ASSUME NEW p \in Port
    PROVE  HeadOf(p) \in Heads /\ EndOf(p) \in Ends /\ Null \notin Heads /\ Null \notin Ends
  BY DEF HeadOf, EndOf, Heads, Ends, Null

(* A list that is not empty starts with a message. *)
LEMMA FirstIsMessage ==
    ASSUME TypeOK, NEW p \in Port, ~Empty(p)
    PROVE  First(p) \in Message
  BY NodesDiffer DEF TypeOK, Empty, First

(* A new list writes two words of their types. *)
LEMMA NewListTyped ==
    ASSUME TypeOK, NEW p \in Port
    PROVE  /\ NewList(next, p) \in [Message \cup Heads -> Message \cup Ends \cup {Null}]
           /\ NewListPred(prev, p) \in [Message \cup Ends -> Message \cup Heads \cup {Null}]
  BY NodesDiffer DEF TypeOK, NewList, NewListPred

(* Delivering a message writes words of their types, signals a bit of the
   owner and takes the message out of everybody's hands. *)
LEMMA DeliverTyped ==
    ASSUME TypeOK, NEW p \in Port, port[p].bit \in Bits, NEW m \in Message, Deliver(p, m)
    PROVE  /\ next' \in [Message \cup Heads -> Message \cup Ends \cup {Null}]
           /\ prev' \in [Message \cup Ends -> Message \cup Heads \cup {Null}]
           /\ sig' \in [Task -> SUBSET Bits]
           /\ held' \in [Message -> Task \cup {Nobody}]
  <1>1. next' \in [Message \cup Heads -> Message \cup Ends \cup {Null}]
    <2> DEFINE last == prev[EndOf(p)]
               n1 == [next EXCEPT ![m] = EndOf(p)]
    <2>1. n1 \in [Message \cup Heads -> Message \cup Ends \cup {Null}]
      BY NodesDiffer DEF TypeOK
    <2>2. next' = [n1 EXCEPT ![last] = m]
      BY DEF Deliver, Link
    <2> QED
      BY <2>1, <2>2
  <1>2. prev' \in [Message \cup Ends -> Message \cup Heads \cup {Null}]
    <2> DEFINE last == prev[EndOf(p)]
               v1 == [prev EXCEPT ![m] = last]
    <2>1. last \in Message \cup Heads \cup {Null}
      BY NodesDiffer DEF TypeOK
    <2>2. v1 \in [Message \cup Ends -> Message \cup Heads \cup {Null}]
      BY <2>1 DEF TypeOK
    <2>3. prev' = [v1 EXCEPT ![EndOf(p)] = m]
      BY DEF Deliver, Link
    <2> QED
      BY <2>2, <2>3
  <1>3. sig' \in [Task -> SUBSET Bits]
    BY DEF TypeOK, Deliver, Announced, Bits
  <1>4. held' \in [Message -> Task \cup {Nobody}]
    BY DEF TypeOK, Deliver
  <1> QED
    BY <1>1, <1>2, <1>3, <1>4

(* A live port is owned by a context and has one of the bits a context can allocate. *)
LEMMA PortBitIsBit ==
    ASSUME IInv, NEW p \in Live
    PROVE  p \in Port /\ Owner(p) \in Task /\ port[p].bit \in Bits
  BY DEF IInv, BitsExclusive, TypeOK, OwnersAreTasks, Live, Owner

(* The initial states satisfy the inductive invariant. *)
LEMMA InitIInv == Init => IInv
  <1> SUFFICES ASSUME Init PROVE IInv
    OBVIOUS
  <1>1. public = {} /\ Live = {}
    BY DEF Init, Live
  <1>2. Cardinality(public) = 0 /\ IsFiniteSet(public)
    BY <1>1, FS_EmptySet
  <1>3. TypeOK
    <2>1. /\ next \in [Message \cup Heads -> Message \cup Ends \cup {Null}]
          /\ prev \in [Message \cup Ends -> Message \cup Heads \cup {Null}]
      BY DEF Init
    <2>2. port \in [Port -> [live : BOOLEAN, task : Task \cup {Nobody}, bit : 0 .. NBits]]
      <3>1. [live |-> FALSE, task |-> Nobody, bit |-> 0]
              \in [live : BOOLEAN, task : Task \cup {Nobody}, bit : 0 .. NBits]
        OBVIOUS
      <3> QED
        BY <3>1 DEF Init
    <2>3. public \subseteq Live /\ Cardinality(public) <= PublicMax
      BY <1>1, <1>2
    <2>4. alloc \in [Task -> SUBSET Bits] /\ sig \in [Task -> SUBSET Bits]
      BY DEF Init
    <2>5. /\ held \in [Message -> Task \cup {Nobody}]
          /\ reply \in [Message -> Port \cup {NoPort}]
      BY DEF Init
    <2>6. wait \in [Task -> [mode : {"no", "looping", "parked", "done"},
                             mask : SUBSET Bits, on : Port \cup {NoPort}]]
      <3>1. NotWaiting \in [mode : {"no", "looping", "parked", "done"},
                            mask : SUBSET Bits, on : Port \cup {NoPort}]
        BY DEF NotWaiting
      <3> QED
        BY <3>1 DEF Init
    <2>7. d0 \in [Task -> Message \cup {Signals, Null}]
      BY DEF Init
    <2>8. inside \subseteq Task /\ failed \in BOOLEAN
      BY DEF Init
    <2> QED
      BY <2>1, <2>2, <2>3, <2>4, <2>5, <2>6, <2>7, <2>8 DEF TypeOK
  <1>4. RepliesLive
    BY DEF Init, RepliesLive
  <1> QED
    BY <1>1, <1>2, <1>3, <1>4 DEF IInv, PublicFinite, OwnersAreTasks, BitsExclusive

----------------------------------------------------------------------------
(* A step that leaves ports, the public table, the allocated bits and the
   reply ports alone has only its types to keep. *)
LEMMA Frame ==
    ASSUME IInv, TypeOK', UNCHANGED <<port, public, alloc, reply>>
    PROVE  IInv'
  <1>1. Live' = Live /\ \A p : Owner(p)' = Owner(p)
    BY DEF Live, Owner
  <1>2. BitsExclusive'
    BY <1>1 DEF IInv, BitsExclusive
  <1> QED
    BY <1>1, <1>2 DEF IInv, PublicFinite, OwnersAreTasks, RepliesLive

(* CreateMsgPort: the new port's bit was free, so no port of its owner has it. *)
LEMMA CreateKeeps ==
    ASSUME IInv, NEW t \in Task, CreateMsgPort(t)
    PROVE  IInv'
  <1>1. PICK p \in Port :
          /\ port[p].task = Nobody
          /\ \/ FreeBits(t) = {} /\ failed' = TRUE /\ UNCHANGED <<memory, port, alloc>>
             \/ \E bit \in FreeBits(t) :
                 /\ IsHighest(bit, FreeBits(t))
                 /\ port' = [port EXCEPT ![p] = [live |-> TRUE, task |-> t, bit |-> bit]]
                 /\ alloc' = [alloc EXCEPT ![t] = @ \cup {bit}]
                 /\ next' = NewList(next, p) /\ prev' = NewListPred(prev, p)
                 /\ UNCHANGED failed
    BY DEF CreateMsgPort
  <1>2. UNCHANGED <<public, sig, held, reply, wait, d0, inside>>
    BY DEF CreateMsgPort
  <1>3. CASE failed' = TRUE /\ UNCHANGED <<memory, port, alloc>>
    <2>1. TypeOK'
      BY <1>2, <1>3 DEF IInv, TypeOK, memory, Live
    <2> QED
      BY <2>1, <1>2, <1>3, Frame
  <1>4. CASE \E bit \in FreeBits(t) :
                 /\ IsHighest(bit, FreeBits(t))
                 /\ port' = [port EXCEPT ![p] = [live |-> TRUE, task |-> t, bit |-> bit]]
                 /\ alloc' = [alloc EXCEPT ![t] = @ \cup {bit}]
                 /\ next' = NewList(next, p) /\ prev' = NewListPred(prev, p)
                 /\ UNCHANGED failed
    <2>1. PICK bit \in FreeBits(t) :
                 /\ port' = [port EXCEPT ![p] = [live |-> TRUE, task |-> t, bit |-> bit]]
                 /\ alloc' = [alloc EXCEPT ![t] = @ \cup {bit}]
                 /\ next' = NewList(next, p) /\ prev' = NewListPred(prev, p)
                 /\ UNCHANGED failed
      BY <1>4
    <2>2. bit \in Bits /\ bit \notin alloc[t] /\ bit \in 0 .. NBits
      BY DEF FreeBits, Bits
    <2>3. p \notin Live
      BY <1>1 DEF IInv, OwnersAreTasks, Owner, Nobody
    <2>4. Live' = Live \cup {p}
      BY <2>1 DEF IInv, TypeOK, Live
    <2>5. /\ Owner(p)' = t /\ port'[p].bit = bit
          /\ \A q \in Live : q \in Port /\ Owner(q)' = Owner(q) /\ port'[q].bit = port[q].bit
      BY <2>1, <2>3 DEF IInv, TypeOK, Live, Owner
    <2>6. alloc' \in [Task -> SUBSET Bits]
      BY <2>1, <2>2 DEF IInv, TypeOK
    <2>7. port' \in [Port -> [live : BOOLEAN, task : Task \cup {Nobody}, bit : 0 .. NBits]]
      <3>1. [live |-> TRUE, task |-> t, bit |-> bit]
              \in [live : BOOLEAN, task : Task \cup {Nobody}, bit : 0 .. NBits]
        BY <2>2
      <3> QED
        BY <3>1, <2>1 DEF IInv, TypeOK
    <2>8. TypeOK'
      BY <1>2, <2>1, <2>4, <2>6, <2>7, NewListTyped DEF IInv, TypeOK
    <2>9. OwnersAreTasks' /\ RepliesLive' /\ PublicFinite'
      BY <1>2, <2>4, <2>5 DEF IInv, OwnersAreTasks, RepliesLive, PublicFinite
    <2>10. BitsExclusive'
      <3> SUFFICES ASSUME NEW q \in Live', NEW r \in Live'
                   PROVE  /\ port'[q].bit \in alloc'[Owner(q)']
                          /\ q # r /\ Owner(q)' = Owner(r)' => port'[q].bit # port'[r].bit
        BY DEF BitsExclusive
      <3>1. \A x \in Live : /\ port[x].bit \in alloc[Owner(x)] /\ Owner(x) \in Task
                            /\ alloc[Owner(x)] \subseteq alloc'[Owner(x)]
                            /\ Owner(x) = t => port[x].bit # bit
        BY <2>1, <2>2 DEF IInv, TypeOK, OwnersAreTasks, BitsExclusive
      <3>2. bit \in alloc'[t]
        BY <2>1 DEF IInv, TypeOK
      <3>3. CASE q = p
        BY <3>1, <3>2, <3>3, <2>4, <2>5
      <3>4. CASE q \in Live
        BY <3>1, <3>2, <3>4, <2>4, <2>5 DEF IInv, BitsExclusive
      <3> QED
        BY <3>3, <3>4, <2>4
    <2> QED
      BY <2>8, <2>9, <2>10 DEF IInv
  <1> QED
    BY <1>1, <1>3, <1>4

(* DeleteMsgPort: no other port of the owner had the bit that is freed. *)
LEMMA DeleteKeeps ==
    ASSUME IInv, NEW t \in Task, NEW p \in Port, DeleteMsgPort(t, p)
    PROVE  IInv'
  <1>1. /\ p \in Live /\ Owner(p) = t /\ Idle(p)
        /\ alloc' = [alloc EXCEPT ![t] = @ \ {port[p].bit}]
        /\ port' = [port EXCEPT ![p].live = FALSE]
        /\ UNCHANGED <<next, prev, public, sig, held, reply, wait, d0, inside, failed>>
    BY DEF DeleteMsgPort, Released, memory
  <1>2. Live' = Live \ {p}
    BY <1>1 DEF IInv, TypeOK, Live
  <1>3. \A q \in Live' : q \in Live /\ Owner(q)' = Owner(q) /\ port'[q].bit = port[q].bit
    BY <1>1, <1>2 DEF IInv, TypeOK, Live, Owner
  <1>4. p \notin public /\ \A m \in Message : reply[m] # p
    BY <1>1 DEF Idle
  <1>5. alloc' \in [Task -> SUBSET Bits]
    BY <1>1 DEF IInv, TypeOK
  <1>6. port' \in [Port -> [live : BOOLEAN, task : Task \cup {Nobody}, bit : 0 .. NBits]]
    <2>1. \A r \in [live : BOOLEAN, task : Task \cup {Nobody}, bit : 0 .. NBits] :
             [r EXCEPT !.live = FALSE] \in [live : BOOLEAN, task : Task \cup {Nobody}, bit : 0 .. NBits]
      OBVIOUS
    <2>2. port \in [Port -> [live : BOOLEAN, task : Task \cup {Nobody}, bit : 0 .. NBits]]
      BY DEF IInv, TypeOK
    <2>3. QED
      BY <1>1, <2>1, <2>2
  <1>7. TypeOK'
    BY <1>1, <1>2, <1>4, <1>5, <1>6 DEF IInv, TypeOK
  <1>8. OwnersAreTasks' /\ RepliesLive' /\ PublicFinite'
    BY <1>1, <1>2, <1>3, <1>4 DEF IInv, OwnersAreTasks, RepliesLive, PublicFinite
  <1>9. BitsExclusive'
    <2> SUFFICES ASSUME NEW q \in Live', NEW r \in Live'
                 PROVE  /\ port'[q].bit \in alloc'[Owner(q)']
                        /\ q # r /\ Owner(q)' = Owner(r)' => port'[q].bit # port'[r].bit
      BY DEF BitsExclusive
    <2>1. /\ port[q].bit \in alloc[Owner(q)] /\ Owner(q) \in Task /\ q # p
          /\ Owner(q) = t => port[q].bit # port[p].bit
      BY <1>1, <1>2 DEF IInv, OwnersAreTasks, BitsExclusive
    <2>2. port[q].bit \in alloc'[Owner(q)]
      BY <1>1, <2>1 DEF IInv, TypeOK
    <2> QED
      BY <2>2, <1>3 DEF IInv, BitsExclusive
  <1> QED
    BY <1>7, <1>8, <1>9 DEF IInv

(* AddPort and RemPort: the table of public ports stays finite and in bounds. *)
LEMMA PublicKeeps ==
    ASSUME IInv, NEW t \in Task, NEW p \in Port, AddPort(t, p) \/ RemPort(t, p)
    PROVE  IInv'
  <1>1. /\ p \in Live \/ p \in public
        /\ UNCHANGED <<port, alloc, sig, held, reply, wait, d0, inside>>
        /\ failed' \in BOOLEAN
    BY DEF IInv, TypeOK, AddPort, RemPort
  <1>2. /\ next' \in [Message \cup Heads -> Message \cup Ends \cup {Null}]
        /\ prev' \in [Message \cup Ends -> Message \cup Heads \cup {Null}]
    BY NewListTyped DEF IInv, TypeOK, AddPort, RemPort, memory
  <1>3. Live' = Live /\ \A q : Owner(q)' = Owner(q)
    BY <1>1 DEF Live, Owner
  <1>4. public' \subseteq Live /\ Cardinality(public') <= PublicMax /\ IsFiniteSet(public')
    <2>1. public \subseteq Live /\ Cardinality(public) <= PublicMax /\ IsFiniteSet(public)
      BY DEF IInv, TypeOK, PublicFinite
    <2>2. CASE UNCHANGED public
      BY <2>1, <2>2
    <2>3. CASE p \notin public /\ Cardinality(public) < PublicMax /\ public' = public \cup {p}
      <3>1. Cardinality(public) \in Nat
        BY <2>1, FS_CardinalityType
      <3>2. Cardinality(public') = Cardinality(public) + 1 /\ IsFiniteSet(public')
        BY <2>1, <2>3, FS_AddElement
      <3> QED
        BY <1>1, <2>1, <2>3, <3>1, <3>2
    <2>4. CASE p \in public /\ public' = public \ {p}
      <3>1. Cardinality(public) \in Nat
        BY <2>1, FS_CardinalityType
      <3>2. Cardinality(public') = Cardinality(public) - 1 /\ IsFiniteSet(public')
        BY <2>1, <2>4, FS_RemoveElement
      <3> QED
        BY <2>1, <2>4, <3>1, <3>2
    <2>5. CASE p \in public /\ public' = public \cup {p}
      BY <2>1, <2>2, <2>5
    <2> QED
      BY <2>2, <2>3, <2>4, <2>5 DEF AddPort, RemPort
  <1>5. TypeOK'
    BY <1>1, <1>2, <1>3, <1>4 DEF IInv, TypeOK
  <1>6. BitsExclusive'
    BY <1>1, <1>3 DEF IInv, BitsExclusive
  <1> QED
    BY <1>1, <1>3, <1>4, <1>5, <1>6
    DEF IInv, PublicFinite, OwnersAreTasks, RepliesLive

(* AllocSignal and FreeSignal: no bit of a port is given away. *)
LEMMA BitsKeep ==
    ASSUME IInv, NEW t \in Task, NEW b \in Bits, AllocSignal(t) \/ FreeSignal(t, b)
    PROVE  IInv'
  <1>1. UNCHANGED <<next, prev, port, public, sig, held, reply, wait, d0, inside, failed>>
    BY DEF AllocSignal, FreeSignal, memory
  <1>2. Live' = Live /\ \A q : Owner(q)' = Owner(q)
    BY <1>1 DEF Live, Owner
  <1>3. alloc' \in [Task -> SUBSET Bits]
    <2>1. CASE AllocSignal(t)
      BY <2>1 DEF IInv, TypeOK, AllocSignal, FreeBits
    <2>2. CASE FreeSignal(t, b)
      BY <2>2 DEF IInv, TypeOK, FreeSignal
    <2> QED
      BY <2>1, <2>2
  <1>4. \A q \in Live : port[q].bit \in alloc'[Owner(q)]
    <2> SUFFICES ASSUME NEW q \in Live PROVE port[q].bit \in alloc'[Owner(q)]
      OBVIOUS
    <2>1. port[q].bit \in alloc[Owner(q)] /\ Owner(q) \in Task
      BY DEF IInv, OwnersAreTasks, BitsExclusive
    <2>2. CASE AllocSignal(t)
      BY <2>1, <2>2 DEF IInv, TypeOK, AllocSignal
    <2>3. CASE FreeSignal(t, b)
      <3>1. Owner(q) = t => port[q].bit # b
        BY <2>3 DEF FreeSignal, PortBits
      <3> QED
        BY <2>1, <2>3, <3>1 DEF IInv, TypeOK, FreeSignal
    <2> QED
      BY <2>2, <2>3
  <1>5. TypeOK'
    BY <1>1, <1>2, <1>3 DEF IInv, TypeOK
  <1>6. BitsExclusive'
    BY <1>1, <1>2, <1>4 DEF IInv, BitsExclusive
  <1> QED
    BY <1>1, <1>2, <1>5, <1>6 DEF IInv, PublicFinite, OwnersAreTasks, RepliesLive

(* PutMsg and ReplyMsg: the message goes to a live port, so what it signals
   is a bit of a context. *)
LEMMA DeliveryKeeps ==
    ASSUME IInv, NEW t \in Task, NEW m \in Message,
           ReplyMsg(t, m) \/ \E p \in Port : PutMsg(t, p, m)
    PROVE  IInv'
  <1>1. PICK p \in Live : Deliver(p, m)
    BY DEF IInv, RepliesLive, ReplyMsg, PutMsg
  <1>2. /\ UNCHANGED <<port, public, alloc, wait, d0, inside, failed>>
        /\ Live' = Live /\ \A q : Owner(q)' = Owner(q)
    BY DEF ReplyMsg, PutMsg, Live, Owner
  <1>3. reply' \in [Message -> Live \cup {NoPort}]
    <2>1. reply \in [Message -> Live \cup {NoPort}]
      BY DEF IInv, TypeOK, RepliesLive
    <2> QED
      BY <2>1 DEF ReplyMsg, PutMsg
  <1>4. /\ next' \in [Message \cup Heads -> Message \cup Ends \cup {Null}]
        /\ prev' \in [Message \cup Ends -> Message \cup Heads \cup {Null}]
        /\ sig' \in [Task -> SUBSET Bits]
        /\ held' \in [Message -> Task \cup {Nobody}]
    BY <1>1, PortBitIsBit, DeliverTyped DEF IInv
  <1>5. reply' \in [Message -> Port \cup {NoPort}]
    BY <1>3 DEF Live
  <1>6. TypeOK'
    BY <1>2, <1>4, <1>5 DEF IInv, TypeOK
  <1>7. RepliesLive'
    BY <1>2, <1>3 DEF RepliesLive
  <1>8. BitsExclusive'
    BY <1>2 DEF IInv, BitsExclusive
  <1> QED
    BY <1>2, <1>6, <1>7, <1>8 DEF IInv, PublicFinite, OwnersAreTasks

(* GetMsg: the new first node of the list is a node. *)
LEMMA GetKeeps ==
    ASSUME IInv, NEW t \in Task, NEW p \in Port, GetMsg(t, p)
    PROVE  IInv'
  <1>1. UNCHANGED <<port, public, alloc, sig, reply, wait, d0, inside, failed>>
    BY DEF GetMsg
  <1>2. CASE Empty(p)
    <2>1. UNCHANGED <<next, prev, held>>
      BY <1>2 DEF GetMsg, memory
    <2>2. TypeOK'
      BY <1>1, <2>1 DEF IInv, TypeOK, Live
    <2> QED
      BY <1>1, <2>2, Frame
  <1>3. CASE ~Empty(p)
    <2>1. First(p) \in Message
      BY <1>3, FirstIsMessage DEF IInv
    <2>2. next[First(p)] \in Message \cup Ends \cup {Null}
      BY <2>1 DEF IInv, TypeOK
    <2>3. next' \in [Message \cup Heads -> Message \cup Ends \cup {Null}]
      BY <1>3, <2>2 DEF IInv, TypeOK, GetMsg, Unlink
    <2>4. prev' \in [Message \cup Ends -> Message \cup Heads \cup {Null}]
      BY <1>3, NodesDiffer DEF IInv, TypeOK, GetMsg, Unlink
    <2>5. held' \in [Message -> Task \cup {Nobody}]
      BY <1>3 DEF IInv, TypeOK, GetMsg
    <2>6. TypeOK'
      BY <1>1, <2>3, <2>4, <2>5 DEF IInv, TypeOK, Live
    <2> QED
      BY <1>1, <2>6, Frame
  <1> QED
    BY <1>2, <1>3

(* What a context waits for is a set of signals and perhaps a port. *)
LEMMA WaitTyped ==
    ASSUME NEW t \in Task, NEW mask \in SUBSET Bits, NEW p \in Port \cup {NoPort}
    PROVE  /\ Waiting(t, mask, p) \in [mode : {"no", "looping", "parked", "done"},
                                       mask : SUBSET Bits, on : Port \cup {NoPort}]
           /\ NotWaiting \in [mode : {"no", "looping", "parked", "done"},
                              mask : SUBSET Bits, on : Port \cup {NoPort}]
  BY DEF Waiting, NotWaiting

(* Wait, WaitPort and Signal change pending signals, answers and waits. *)
LEMMA WaitKeeps ==
    ASSUME IInv, NEW t \in Task,
           \/ \E mask \in SUBSET alloc[t] : Wait(t, mask)
           \/ \E p \in Port : WaitPort(t, p)
           \/ \E b \in Bits, to \in Task : Signal(t, to, b)
    PROVE  IInv'
  <1>1. /\ UNCHANGED <<next, prev, port, public, alloc, held, reply, inside, failed>>
        /\ Live' = Live
    BY DEF Wait, WaitPort, Signal, memory, Live
  <1> DEFINE Typed == /\ sig' \in [Task -> SUBSET Bits]
                      /\ d0' \in [Task -> Message \cup {Signals, Null}]
                      /\ wait' \in [Task -> [mode : {"no", "looping", "parked", "done"},
                                             mask : SUBSET Bits, on : Port \cup {NoPort}]]
  <1>2. ASSUME NEW mask \in SUBSET alloc[t], Wait(t, mask) PROVE Typed
    <2>1. mask \in SUBSET Bits
      BY DEF IInv, TypeOK
    <2>2. Waiting(t, mask, NoPort) \in [mode : {"no", "looping", "parked", "done"},
                                        mask : SUBSET Bits, on : Port \cup {NoPort}]
      BY <2>1, WaitTyped
    <2>3. wait' = wait \/ wait' = [wait EXCEPT ![t] = Waiting(t, mask, NoPort)]
      BY <1>2 DEF Wait
    <2>4. wait' \in [Task -> [mode : {"no", "looping", "parked", "done"},
                             mask : SUBSET Bits, on : Port \cup {NoPort}]]
      BY <2>2, <2>3 DEF IInv, TypeOK
    <2>5. sig' \in [Task -> SUBSET Bits] /\ d0' \in [Task -> Message \cup {Signals, Null}]
      BY <1>2 DEF IInv, TypeOK, Wait
    <2> QED
      BY <2>4, <2>5
  <1>3. ASSUME NEW p \in Port, WaitPort(t, p) PROVE Typed
    <2>1. p \in Live /\ {port[p].bit} \in SUBSET Bits
      BY <1>3, PortBitIsBit DEF WaitPort
    <2>2. ~Empty(p) => First(p) \in Message
      BY FirstIsMessage DEF IInv
    <2>3. Waiting(t, {port[p].bit}, p) \in [mode : {"no", "looping", "parked", "done"},
                                            mask : SUBSET Bits, on : Port \cup {NoPort}]
      BY <2>1, WaitTyped
    <2>4. wait' = wait \/ wait' = [wait EXCEPT ![t] = Waiting(t, {port[p].bit}, p)]
      BY <1>3 DEF WaitPort
    <2>5. wait' \in [Task -> [mode : {"no", "looping", "parked", "done"},
                             mask : SUBSET Bits, on : Port \cup {NoPort}]]
      BY <2>3, <2>4 DEF IInv, TypeOK
    <2>6. d0' = d0 \/ \E m \in Message : d0' = [d0 EXCEPT ![t] = m]
      BY <1>3, <2>2 DEF WaitPort
    <2>7. d0' \in [Task -> Message \cup {Signals, Null}]
      BY <2>6 DEF IInv, TypeOK
    <2>8. sig' \in [Task -> SUBSET Bits]
      BY <1>3 DEF IInv, TypeOK, WaitPort
    <2> QED
      BY <2>5, <2>7, <2>8
  <1>4. ASSUME NEW b \in Bits, NEW to \in Task, Signal(t, to, b) PROVE Typed
    BY <1>4 DEF IInv, TypeOK, Signal
  <1>5. Typed
    BY <1>2, <1>3, <1>4
  <1>6. TypeOK'
    BY <1>1, <1>5 DEF IInv, TypeOK
  <1> QED
    BY <1>1, <1>6, Frame

(* So does coming back from a wait, or giving it up. *)
LEMMA SchedulerKeeps == ASSUME IInv, Scheduler PROVE IInv'
  <1>1. /\ UNCHANGED <<next, prev, port, public, alloc, held, reply, inside>>
        /\ Live' = Live
    BY DEF Scheduler, LoopReturns, LoopFails, Resume, memory, Live
  <1>2. /\ sig' \in [Task -> SUBSET Bits]
        /\ failed' \in BOOLEAN
        /\ d0' \in [Task -> Message \cup {Signals, Null}]
        /\ wait' \in [Task -> [mode : {"no", "looping", "parked", "done"},
                               mask : SUBSET Bits, on : Port \cup {NoPort}]]
    <2>1. CASE LoopReturns
      <3>1. wait[0].on # NoPort => wait[0].on \in Port
        BY DEF IInv, TypeOK
      <3>2. wait[0].on # NoPort /\ ~Empty(wait[0].on) => First(wait[0].on) \in Message
        BY <3>1, FirstIsMessage DEF IInv
      <3>3. sig' \in [Task -> SUBSET Bits] /\ failed' \in BOOLEAN
        BY <2>1 DEF IInv, TypeOK, LoopReturns, Taken
      <3>4. \/ d0' = d0
            \/ \E m \in Message : d0' = [d0 EXCEPT ![0] = m]
        BY <2>1, <3>2 DEF LoopReturns
      <3>7. d0' \in [Task -> Message \cup {Signals, Null}]
        BY <3>4 DEF IInv, TypeOK
      <3>5. NotWaiting \in [mode : {"no", "looping", "parked", "done"},
                            mask : SUBSET Bits, on : Port \cup {NoPort}]
        BY DEF NotWaiting
      <3>6. wait' \in [Task -> [mode : {"no", "looping", "parked", "done"},
                               mask : SUBSET Bits, on : Port \cup {NoPort}]]
        BY <2>1, <3>5 DEF IInv, TypeOK, LoopReturns
      <3> QED
        BY <3>3, <3>6, <3>7
    <2>2. CASE LoopFails
      BY <2>2 DEF IInv, TypeOK, LoopFails
    <2>3. ASSUME NEW t \in Task, Resume(t)
          PROVE  /\ sig' \in [Task -> SUBSET Bits]
                 /\ failed' \in BOOLEAN
                 /\ d0' \in [Task -> Message \cup {Signals, Null}]
                 /\ wait' \in [Task -> [mode : {"no", "looping", "parked", "done"},
                                        mask : SUBSET Bits, on : Port \cup {NoPort}]]
      <3>1. NotWaiting \in [mode : {"no", "looping", "parked", "done"},
                            mask : SUBSET Bits, on : Port \cup {NoPort}]
        BY DEF NotWaiting
      <3>2. wait' \in [Task -> [mode : {"no", "looping", "parked", "done"},
                               mask : SUBSET Bits, on : Port \cup {NoPort}]]
        BY <2>3, <3>1 DEF IInv, TypeOK, Resume
      <3>3. sig' \in [Task -> SUBSET Bits] /\ failed' \in BOOLEAN
        BY <2>3 DEF IInv, TypeOK, Resume, Taken
      <3>4. d0' \in [Task -> Message \cup {Signals, Null}]
        <4>1. d0' = d0 \/ d0' = [d0 EXCEPT ![t] = Signals]
          BY <2>3 DEF Resume
        <4> QED
          BY <4>1 DEF IInv, TypeOK
      <3> QED
        BY <3>2, <3>3, <3>4
    <2> QED
      BY <2>1, <2>2, <2>3 DEF Scheduler
  <1>3. TypeOK'
    BY <1>1, <1>2 DEF IInv, TypeOK
  <1> QED
    BY <1>1, <1>3, Frame

(* Finishing and the semaphores change one variable each. *)
LEMMA RestKeeps ==
    ASSUME IInv, NEW t \in Task, Finish(t) \/ ObtainSemaphore(t) \/ ReleaseSemaphore(t)
    PROVE  IInv'
  <1>1. UNCHANGED <<next, prev, port, public, alloc, sig, held, reply, d0, failed>>
    BY DEF Finish, ObtainSemaphore, ReleaseSemaphore, memory
  <1>2. inside' \subseteq Task
    BY DEF IInv, TypeOK, Finish, ObtainSemaphore, ReleaseSemaphore
  <1>3. wait' \in [Task -> [mode : {"no", "looping", "parked", "done"},
                           mask : SUBSET Bits, on : Port \cup {NoPort}]]
    BY DEF IInv, TypeOK, Finish, ObtainSemaphore, ReleaseSemaphore
  <1>4. TypeOK'
    BY <1>1, <1>2, <1>3 DEF IInv, TypeOK, Live
  <1> QED
    BY <1>1, <1>4, Frame

(* Every step keeps the inductive invariant. *)
LEMMA NextIInv == IInv /\ [Next]_vars => IInv'
  <1> SUFFICES ASSUME IInv, [Next]_vars PROVE IInv'
    OBVIOUS
  <1>1. CASE UNCHANGED vars
    <2>1. TypeOK'
      BY <1>1 DEF vars, IInv, TypeOK, Live
    <2> QED
      BY <1>1, <2>1, Frame DEF vars
  <1>2. CASE Scheduler
    BY <1>2, SchedulerKeeps
  <1>3. ASSUME NEW t \in Task, Step(t) PROVE IInv'
    <2>1. 1 \in Bits
      BY DEF Bits
    <2>2. CASE CreateMsgPort(t) \/ AllocSignal(t)
      BY <2>1, <2>2, CreateKeeps, BitsKeep
    <2>3. CASE Finish(t) \/ ObtainSemaphore(t) \/ ReleaseSemaphore(t)
      BY <2>3, RestKeeps
    <2>4. CASE \E p \in Port : DeleteMsgPort(t, p) \/ AddPort(t, p) \/ RemPort(t, p) \/ GetMsg(t, p)
      BY <2>4, DeleteKeeps, PublicKeeps, GetKeeps
    <2>5. CASE \E m \in Message : ReplyMsg(t, m) \/ \E p \in Port : PutMsg(t, p, m)
      BY <2>5, DeliveryKeeps
    <2>6. CASE \E b \in Bits : FreeSignal(t, b)
      BY <2>6, BitsKeep
    <2>7. CASE \/ \E mask \in SUBSET alloc[t] : Wait(t, mask)
               \/ \E p \in Port : WaitPort(t, p)
               \/ \E b \in Bits, to \in Task : Signal(t, to, b)
      BY <2>7, WaitKeeps
    <2> QED
      BY <1>3, <2>2, <2>3, <2>4, <2>5, <2>6, <2>7 DEF Step
  <1> QED
    BY <1>1, <1>2, <1>3 DEF Next

(* The strengthened invariant holds in every reachable state. *)
THEOREM PortsInvariant == Spec => []IInv
  BY InitIInv, NextIInv, PTL DEF Spec

(* Every variable keeps its type: what GetMsg and WaitPort read from a list
   that is not empty is a message, and the table of public ports never
   exceeds its size. *)
THEOREM PortsTyped == Spec => []TypeOK
  <1>1. IInv => TypeOK
    BY DEF IInv
  <1> QED
    BY <1>1, PortsInvariant, PTL

(* CreateMsgPort, DeleteMsgPort, AllocSignal and FreeSignal never let two
   live ports of a context share a signal bit, or a port lose its bit. *)
THEOREM OneBitPerPort == Spec => []BitsExclusive
  <1>1. IInv => BitsExclusive
    BY DEF IInv
  <1> QED
    BY <1>1, PortsInvariant, PTL

----------------------------------------------------------------------------
(* The lists.  A port's list is a sequence of messages: the k-th word of the
   chain is the header, the k-th message, or the end. *)

Word(s, p, k) == IF k = 0 THEN HeadOf(p) ELSE IF k <= Len(s) THEN s[k] ELSE EndOf(p)
Chained(s, n, v, p) ==
    \A k \in 0 .. Len(s) : /\ n[Word(s, p, k)] = Word(s, p, k + 1)
                           /\ v[Word(s, p, k + 1)] = Word(s, p, k)
NeverMade(s, n, v, p) == s = <<>> /\ n[HeadOf(p)] = Null /\ v[EndOf(p)] = Null
(* The words n and v hold the lists q of the ports that were made; a message
   is in one place of one list, and then nobody holds it. *)
Linked(q, n, v, h, made) ==
    /\ q \in [Port -> Seq(Message)]
    /\ \A p \in Port : IF p \in made THEN Chained(q[p], n, v, p) ELSE NeverMade(q[p], n, v, p)
    /\ \A p, r \in Port : \A j \in 1 .. Len(q[p]), k \in 1 .. Len(q[r]) :
         q[p][j] = q[r][k] => p = r /\ j = k
    /\ \A p \in Port : \A k \in 1 .. Len(q[p]) : h[q[p][k]] = Nobody
NextWords == [Message \cup Heads -> Message \cup Ends \cup {Null}]
PrevWords == [Message \cup Ends -> Message \cup Heads \cup {Null}]

(* Heads and ends of different ports differ, and no message is one of them. *)
LEMMA NodesApart ==
    /\ \A p, r : /\ HeadOf(p) = HeadOf(r) => p = r
                 /\ EndOf(p) = EndOf(r) => p = r
                 /\ HeadOf(p) # EndOf(r) /\ HeadOf(p) # Null /\ EndOf(p) # Null
    /\ \A m \in Message, p \in Port : m # HeadOf(p) /\ m # EndOf(p)
    /\ Null \notin Message
<1>1. \A m \in Message, p \in Port : m # HeadOf(p) /\ m # EndOf(p)
  BY MemoryAssumption DEF Heads, Ends
<1>2. Null \notin Message
  BY MemoryAssumption
<1>3. ASSUME NEW p, NEW r
      PROVE  /\ HeadOf(p) = HeadOf(r) => p = r
             /\ EndOf(p) = EndOf(r) => p = r
             /\ HeadOf(p) # EndOf(r) /\ HeadOf(p) # Null /\ EndOf(p) # Null
  BY DEF HeadOf, EndOf, Null
<1>. QED
  BY <1>1, <1>2, <1>3

(* A list is a sequence of messages. *)
LEMMA SeqFacts ==
    ASSUME NEW q \in [Port -> Seq(Message)], NEW p \in Port
    PROVE  /\ q[p] \in Seq(Message) /\ Len(q[p]) \in Nat
           /\ \A k \in 1 .. Len(q[p]) : q[p][k] \in Message
BY ElementOfSeq, LenProperties

(* The chain goes from the head over the messages to the end. *)
LEMMA WordKinds ==
    ASSUME NEW s \in Seq(Message), NEW p \in Port, NEW k \in 0 .. Len(s) + 1
    PROVE  /\ k = 0 => Word(s, p, k) = HeadOf(p)
           /\ k \in 1 .. Len(s) => Word(s, p, k) = s[k] /\ s[k] \in Message
           /\ k = Len(s) + 1 => Word(s, p, k) = EndOf(p)
           /\ k # Len(s) + 1 => Word(s, p, k) \in Message \cup Heads
           /\ k # 0 => Word(s, p, k) \in Message \cup Ends
<1>1. Len(s) \in Nat /\ \A j \in 1 .. Len(s) : s[j] \in Message
  BY ElementOfSeq, LenProperties
<1>2. HeadOf(p) \in Heads /\ EndOf(p) \in Ends
  BY DEF Heads, Ends
<1>3. k = 0 \/ k \in 1 .. Len(s) \/ k = Len(s) + 1
  BY <1>1
<1>4. CASE k = 0
  BY <1>1, <1>2, <1>4 DEF Word
<1>5. CASE k \in 1 .. Len(s)
  BY <1>1, <1>2, <1>5 DEF Word
<1>6. CASE k = Len(s) + 1
  BY <1>1, <1>2, <1>6 DEF Word
<1>. QED
  BY <1>3, <1>4, <1>5, <1>6

(* No node is in two places of the lists. *)
LEMMA WordsDiffer ==
    ASSUME NEW q, NEW n, NEW v, NEW h, NEW made, Linked(q, n, v, h, made),
           NEW p \in Port, NEW r \in Port,
           NEW j \in 0 .. Len(q[p]) + 1, NEW k \in 0 .. Len(q[r]) + 1,
           Word(q[p], p, j) = Word(q[r], r, k)
    PROVE  p = r /\ j = k
<1>1. /\ q[p] \in Seq(Message) /\ Len(q[p]) \in Nat
      /\ q[r] \in Seq(Message) /\ Len(q[r]) \in Nat
  BY SeqFacts DEF Linked
<1>2. /\ j = 0 => Word(q[p], p, j) = HeadOf(p)
      /\ j \in 1 .. Len(q[p]) => Word(q[p], p, j) = q[p][j] /\ q[p][j] \in Message
      /\ j = Len(q[p]) + 1 => Word(q[p], p, j) = EndOf(p)
  BY <1>1, WordKinds
<1>3. /\ k = 0 => Word(q[r], r, k) = HeadOf(r)
      /\ k \in 1 .. Len(q[r]) => Word(q[r], r, k) = q[r][k] /\ q[r][k] \in Message
      /\ k = Len(q[r]) + 1 => Word(q[r], r, k) = EndOf(r)
  BY <1>1, WordKinds
<1>4. j = 0 \/ j \in 1 .. Len(q[p]) \/ j = Len(q[p]) + 1
  BY <1>1
<1>5. k = 0 \/ k \in 1 .. Len(q[r]) \/ k = Len(q[r]) + 1
  BY <1>1
<1>6. CASE j = 0
  BY <1>2, <1>3, <1>5, <1>6, NodesApart
<1>7. CASE j \in 1 .. Len(q[p])
  BY <1>2, <1>3, <1>5, <1>7, NodesApart DEF Linked
<1>8. CASE j = Len(q[p]) + 1
  BY <1>2, <1>3, <1>5, <1>8, NodesApart
<1>. QED
  BY <1>4, <1>6, <1>7, <1>8

(* A message that somebody holds is in no list. *)
LEMMA HeldOutside ==
    ASSUME NEW q, NEW n, NEW v, NEW h, NEW made, Linked(q, n, v, h, made),
           NEW m \in Message, h[m] # Nobody, NEW p \in Port, NEW k \in 0 .. Len(q[p]) + 1
    PROVE  Word(q[p], p, k) # m
<1>1. q[p] \in Seq(Message) /\ Len(q[p]) \in Nat
  BY SeqFacts DEF Linked
<1>2. /\ k = 0 => Word(q[p], p, k) = HeadOf(p)
      /\ k \in 1 .. Len(q[p]) => Word(q[p], p, k) = q[p][k]
      /\ k = Len(q[p]) + 1 => Word(q[p], p, k) = EndOf(p)
  BY <1>1, WordKinds
<1>3. k = 0 \/ k \in 1 .. Len(q[p]) \/ k = Len(q[p]) + 1
  BY <1>1
<1>. QED
  BY <1>2, <1>3, NodesApart DEF Linked

(* PutMsg and ReplyMsg: the message comes behind the others of its list. *)
LEMMA LinkAppends ==
    ASSUME NEW q, NEW n \in NextWords, NEW v \in PrevWords, NEW h, NEW made,
           Linked(q, n, v, h, made), NEW p \in Port, p \in made,
           NEW m \in Message, h \in [Message -> Task \cup {Nobody}], h[m] # Nobody
    PROVE  Linked([q EXCEPT ![p] = Append(q[p], m)],
                  [n EXCEPT ![m] = EndOf(p), ![v[EndOf(p)]] = m],
                  [v EXCEPT ![m] = v[EndOf(p)], ![EndOf(p)] = m],
                  [h EXCEPT ![m] = Nobody], made)
<1>. DEFINE s == q[p]
            L == Len(s)
            s2 == Append(s, m)
            last == v[EndOf(p)]
            q2 == [q EXCEPT ![p] = s2]
            n1 == [n EXCEPT ![m] = EndOf(p)]
            n2 == [n1 EXCEPT ![last] = m]
            v1 == [v EXCEPT ![m] = last]
            v2 == [v1 EXCEPT ![EndOf(p)] = m]
            h2 == [h EXCEPT ![m] = Nobody]
<1>1. q \in [Port -> Seq(Message)] /\ s \in Seq(Message) /\ L \in Nat
  BY SeqFacts DEF Linked
<1>2. /\ s2 \in Seq(Message) /\ Len(s2) = L + 1
      /\ \A k \in 1 .. L : s2[k] = s[k]
      /\ s2[L + 1] = m
  BY <1>1, AppendProperties
<1>3. last = Word(s, p, L) /\ last \in Message \cup Heads /\ last # m
  <2>1. v[Word(s, p, L + 1)] = Word(s, p, L)
    BY <1>1 DEF Linked, Chained
  <2>2. L \in 0 .. L + 1 /\ L + 1 \in 0 .. L + 1 /\ L # L + 1
    BY <1>1
  <2>3. Word(s, p, L + 1) = EndOf(p) /\ Word(s, p, L) \in Message \cup Heads
    BY <1>1, <2>2, WordKinds
  <2>4. Word(s, p, L) # m
    BY <2>2, HeldOutside
  <2>. QED
    BY <2>1, <2>3, <2>4
<1>4. /\ n2[m] = EndOf(p) /\ n2[last] = m
      /\ \A x \in Message \cup Heads : x # m /\ x # last => n2[x] = n[x]
  BY <1>3 DEF NextWords
<1>5. /\ EndOf(p) \in Ends /\ EndOf(p) # m
      /\ v2[m] = last /\ v2[EndOf(p)] = m
      /\ \A x \in Message \cup Ends : x # m /\ x # EndOf(p) => v2[x] = v[x]
  <2>1. EndOf(p) \in Ends /\ EndOf(p) # m
    BY NodesApart DEF Ends
  <2>. QED
    BY <2>1 DEF PrevWords
<1>6. \A r \in Port : q2[r] = IF r = p THEN s2 ELSE q[r]
  BY <1>1
<1>7. q2 \in [Port -> Seq(Message)]
  BY <1>1, <1>2
<1>. HIDE DEF q2, s2, n2, v2, h2, n1, v1, last, L
<1>8. ASSUME NEW r \in made, r \in Port, r # p PROVE Chained(q2[r], n2, v2, r)
  <2>1. Chained(q[r], n, v, r) /\ q[r] \in Seq(Message) /\ Len(q[r]) \in Nat
    BY <1>8, SeqFacts DEF Linked
  <2>2. ASSUME NEW k \in 0 .. Len(q[r])
        PROVE  /\ n2[Word(q[r], r, k)] = Word(q[r], r, k + 1)
               /\ v2[Word(q[r], r, k + 1)] = Word(q[r], r, k)
    <3>1. /\ k \in 0 .. Len(q[r]) + 1 /\ k # Len(q[r]) + 1
          /\ k + 1 \in 0 .. Len(q[r]) + 1 /\ k + 1 # 0
          /\ L \in 0 .. Len(q[p]) + 1 /\ L + 1 \in 0 .. Len(q[p]) + 1
      BY <1>1, <2>1 DEF L
    <3>2. /\ Word(q[r], r, k) \in Message \cup Heads
          /\ Word(q[r], r, k + 1) \in Message \cup Ends
      BY <1>8, <2>1, <3>1, WordKinds
    <3>3. Word(q[r], r, k) # m /\ Word(q[r], r, k + 1) # m
      BY <1>8, <3>1, HeldOutside
    <3>4. Word(q[r], r, k) # last
      BY <1>3, <1>8, <3>1, WordsDiffer
    <3>5. Word(q[r], r, k + 1) # EndOf(p)
      <4>1. EndOf(p) = Word(q[p], p, L + 1)
        BY <1>1, <3>1, WordKinds DEF L
      <4>. QED
        BY <1>8, <3>1, <4>1, WordsDiffer
    <3>. QED
      BY <1>4, <1>5, <2>1, <2>2, <3>2, <3>3, <3>4, <3>5 DEF Chained
  <2>. QED
    BY <1>6, <1>8, <2>2 DEF Chained
<1>9. Chained(s2, n2, v2, p)
  <2>1. ASSUME NEW k \in 0 .. L + 2
        PROVE  /\ k <= L => Word(s2, p, k) = Word(s, p, k)
               /\ k = L + 1 => Word(s2, p, k) = m
               /\ k = L + 2 => Word(s2, p, k) = EndOf(p)
    <3>1. k = 0 \/ k \in 1 .. L \/ k = L + 1 \/ k = L + 2
      BY <1>1
    <3>2. CASE k = 0
      BY <1>1, <3>2 DEF Word
    <3>3. CASE k \in 1 .. L
      BY <1>1, <1>2, <3>3 DEF Word, L
    <3>4. CASE k = L + 1
      BY <1>1, <1>2, <3>4 DEF Word
    <3>5. CASE k = L + 2
      BY <1>1, <1>2, <3>5 DEF Word
    <3>. QED
      BY <3>1, <3>2, <3>3, <3>4, <3>5
  <2>2. ASSUME NEW k \in 0 .. L + 1
        PROVE  /\ n2[Word(s2, p, k)] = Word(s2, p, k + 1)
               /\ v2[Word(s2, p, k + 1)] = Word(s2, p, k)
    <3>0. k \in 0 .. L + 2 /\ k + 1 \in 0 .. L + 2
      BY <1>1
    <3>1. CASE k < L
      <4>1. /\ k \in 0 .. L /\ k \in 0 .. L + 1 /\ k + 1 \in 0 .. L + 1 /\ k <= L /\ k + 1 <= L
            /\ k # L + 1 /\ k + 1 # 0 /\ k + 1 # L + 1 /\ L \in 0 .. L + 1 /\ L + 1 \in 0 .. L + 1
        BY <1>1, <3>1
      <4>2. Word(s2, p, k) = Word(s, p, k) /\ Word(s2, p, k + 1) = Word(s, p, k + 1)
        BY <2>1, <3>0, <4>1
      <4>3. Word(s, p, k) # m /\ Word(s, p, k + 1) # m
        BY <4>1, HeldOutside DEF L
      <4>4. Word(s, p, k) # last
        BY <1>3, <3>1, <4>1, WordsDiffer DEF L
      <4>5. Word(s, p, k + 1) # EndOf(p)
        <5>1. EndOf(p) = Word(s, p, L + 1)
          BY <1>1, <4>1, WordKinds DEF L
        <5>. QED
          BY <4>1, <5>1, WordsDiffer DEF L
      <4>6. Word(s, p, k) \in Message \cup Heads /\ Word(s, p, k + 1) \in Message \cup Ends
        BY <1>1, <4>1, WordKinds DEF L
      <4>7. n[Word(s, p, k)] = Word(s, p, k + 1) /\ v[Word(s, p, k + 1)] = Word(s, p, k)
        BY <4>1 DEF Linked, Chained, L
      <4>. QED
        BY <1>4, <1>5, <4>2, <4>3, <4>4, <4>5, <4>6, <4>7
    <3>2. CASE k = L
      <4>1. Word(s2, p, k) = last /\ Word(s2, p, k + 1) = m
        BY <1>1, <1>3, <2>1, <3>0, <3>2
      <4>. QED
        BY <1>4, <1>5, <4>1
    <3>3. CASE k = L + 1
      <4>1. k + 1 = L + 2
        BY <1>1, <3>3
      <4>2. Word(s2, p, k) = m /\ Word(s2, p, k + 1) = EndOf(p)
        BY <2>1, <3>0, <3>3, <4>1
      <4>. QED
        BY <1>4, <1>5, <4>2
    <3>. QED
      BY <1>1, <3>1, <3>2, <3>3
  <2>. QED
    BY <1>2, <2>2 DEF Chained
<1>10. ASSUME NEW r \in Port, r \notin made PROVE NeverMade(q2[r], n2, v2, r)
  <2>1. NeverMade(q[r], n, v, r) /\ r # p
    BY <1>10 DEF Linked
  <2>2. /\ HeadOf(r) \in Heads /\ HeadOf(r) # m /\ EndOf(r) \in Ends
        /\ EndOf(r) # m /\ EndOf(r) # EndOf(p)
    BY <2>1, NodesApart DEF Heads, Ends
  <2>3. HeadOf(r) # last
    <3>1. last \in Message => HeadOf(r) # last
      BY NodesApart
    <3>2. last \notin Message => last = HeadOf(p)
      <4>1. L \in 0 .. Len(s) + 1 /\ (L = 0 \/ L \in 1 .. Len(s))
        BY <1>1 DEF L
      <4>2. L \in 1 .. Len(s) => Word(s, p, L) \in Message
        BY <1>1, <4>1, WordKinds
      <4>3. L = 0 => Word(s, p, L) = HeadOf(p)
        BY <1>1, <4>1, WordKinds
      <4>. QED
        BY <1>3, <4>1, <4>2, <4>3
    <3>. QED
      BY <2>1, <3>1, <3>2, NodesApart
  <2>4. n2[HeadOf(r)] = n[HeadOf(r)] /\ v2[EndOf(r)] = v[EndOf(r)]
    BY <1>4, <1>5, <2>2, <2>3
  <2>. QED
    BY <1>6, <2>1, <2>4 DEF NeverMade
<1>11. \A r \in Port : \A k \in 1 .. Len(q[r]) : q[r][k] # m /\ h[q[r][k]] = Nobody
                                               /\ q[r][k] \in Message
  BY SeqFacts DEF Linked
<1>12. ASSUME NEW r \in Port, NEW k \in 1 .. Len(q2[r])
       PROVE  \/ r = p /\ k = L + 1 /\ q2[r][k] = m
              \/ k \in 1 .. Len(q[r]) /\ q2[r][k] = q[r][k]
  <2>1. CASE r # p
    BY <1>6, <1>12, <2>1
  <2>2. CASE r = p
    <3>1. q2[r] = s2 /\ k \in 1 .. L + 1
      BY <1>2, <1>6, <1>12, <2>2
    <3>2. k \in 1 .. L \/ k = L + 1
      BY <1>1, <3>1
    <3>. QED
      BY <1>2, <2>2, <3>1, <3>2 DEF L
  <2>. QED
    BY <2>1, <2>2
<1>13. \A r, w \in Port : \A j \in 1 .. Len(q2[r]), k \in 1 .. Len(q2[w]) :
         q2[r][j] = q2[w][k] => r = w /\ j = k
  <2>1. \A r, w \in Port : \A j \in 1 .. Len(q[r]), k \in 1 .. Len(q[w]) :
          q[r][j] = q[w][k] => r = w /\ j = k
    BY DEF Linked
  <2>2. SUFFICES ASSUME NEW r \in Port, NEW w \in Port, NEW j \in 1 .. Len(q2[r]),
                        NEW k \in 1 .. Len(q2[w]), q2[r][j] = q2[w][k]
                 PROVE  r = w /\ j = k
    OBVIOUS
  <2>3. /\ \/ r = p /\ j = L + 1 /\ q2[r][j] = m
           \/ j \in 1 .. Len(q[r]) /\ q2[r][j] = q[r][j]
        /\ \/ w = p /\ k = L + 1 /\ q2[w][k] = m
           \/ k \in 1 .. Len(q[w]) /\ q2[w][k] = q[w][k]
    BY <1>12
  <2>4. /\ j \in 1 .. Len(q[r]) => q[r][j] # m
        /\ k \in 1 .. Len(q[w]) => q[w][k] # m
    BY <1>11
  <2>. QED
    BY <2>1, <2>2, <2>3, <2>4
<1>14. \A r \in Port : \A k \in 1 .. Len(q2[r]) : h2[q2[r][k]] = Nobody
  BY <1>11, <1>12 DEF h2
<1>15. Linked(q2, n2, v2, h2, made)
  BY <1>6, <1>7, <1>8, <1>9, <1>10, <1>13, <1>14 DEF Linked
<1>. QED
  BY <1>15 DEF q2, s2, n2, v2, h2, n1, v1, last

(* GetMsg: the first message leaves its list, and its taker holds it. *)
LEMMA UnlinkTakes ==
    ASSUME NEW q, NEW n \in NextWords, NEW v \in PrevWords, NEW h, NEW made,
           Linked(q, n, v, h, made), NEW p \in Port, p \in made, q[p] # <<>>,
           h \in [Message -> Task \cup {Nobody}], NEW t
    PROVE  /\ n[HeadOf(p)] = Head(q[p])
           /\ Linked([q EXCEPT ![p] = Tail(q[p])],
                     [n EXCEPT ![HeadOf(p)] = n[n[HeadOf(p)]]],
                     [v EXCEPT ![n[n[HeadOf(p)]]] = HeadOf(p)],
                     [h EXCEPT ![n[HeadOf(p)]] = t], made)
<1>. DEFINE s == q[p]
            L == Len(s)
            s2 == Tail(s)
            succ == n[n[HeadOf(p)]]
            q2 == [q EXCEPT ![p] = s2]
            n2 == [n EXCEPT ![HeadOf(p)] = succ]
            v2 == [v EXCEPT ![succ] = HeadOf(p)]
            h2 == [h EXCEPT ![n[HeadOf(p)]] = t]
<1>1. q \in [Port -> Seq(Message)] /\ s \in Seq(Message) /\ L \in Nat /\ L # 0
  <2>1. q \in [Port -> Seq(Message)] /\ s \in Seq(Message) /\ L \in Nat
    BY SeqFacts DEF Linked
  <2>. QED
    BY <2>1, EmptySeq
<1>2. /\ s2 \in Seq(Message) /\ Len(s2) = L - 1
      /\ \A k \in 1 .. L - 1 : s2[k] = s[k + 1]
      /\ Head(s) = s[1]
  BY <1>1, HeadTailProperties
<1>3. \A k \in 0 .. L : n[Word(s, p, k)] = Word(s, p, k + 1) /\ v[Word(s, p, k + 1)] = Word(s, p, k)
  BY DEF Linked, Chained
<1>4. /\ n[HeadOf(p)] = s[1] /\ s[1] \in Message
      /\ succ = Word(s, p, 2)
      /\ Word(s, p, 0) = HeadOf(p) /\ Word(s, p, 1) = s[1]
  <2>1. 0 \in 0 .. L /\ 1 \in 0 .. L /\ 0 + 1 = 1 /\ 1 + 1 = 2 /\ 1 \in 1 .. L
        /\ 0 \in 0 .. L + 1 /\ 1 \in 0 .. L + 1
    BY <1>1
  <2>2. Word(s, p, 0) = HeadOf(p) /\ Word(s, p, 1) = s[1] /\ s[1] \in Message
    BY <1>1, <2>1, WordKinds
  <2>. QED
    BY <1>3, <2>1, <2>2
<1>5. /\ HeadOf(p) \in Heads /\ succ \in Message \cup Ends
      /\ 2 \in 0 .. L + 1 /\ 0 \in 0 .. L + 1
  <2>1. HeadOf(p) \in Heads
    BY DEF Heads
  <2>2. 2 \in 0 .. L + 1 /\ 0 \in 0 .. L + 1
    BY <1>1
  <2>. QED
    BY <1>1, <1>4, <2>1, <2>2, WordKinds
<1>6. /\ n2[HeadOf(p)] = succ
      /\ \A x \in Message \cup Heads : x # HeadOf(p) => n2[x] = n[x]
      /\ v2[succ] = HeadOf(p)
      /\ \A x \in Message \cup Ends : x # succ => v2[x] = v[x]
  BY <1>5 DEF NextWords, PrevWords
<1>7. \A r \in Port : q2[r] = IF r = p THEN s2 ELSE q[r]
  BY <1>1
<1>8. q2 \in [Port -> Seq(Message)]
  BY <1>1, <1>2
<1>. HIDE DEF q2, s2, n2, v2, h2, succ, L
<1>9. ASSUME NEW r \in Port, r \in made, r # p PROVE Chained(q2[r], n2, v2, r)
  <2>1. Chained(q[r], n, v, r) /\ q[r] \in Seq(Message) /\ Len(q[r]) \in Nat
    BY <1>9, SeqFacts DEF Linked
  <2>2. ASSUME NEW k \in 0 .. Len(q[r])
        PROVE  /\ n2[Word(q[r], r, k)] = Word(q[r], r, k + 1)
               /\ v2[Word(q[r], r, k + 1)] = Word(q[r], r, k)
    <3>1. /\ k \in 0 .. Len(q[r]) + 1 /\ k # Len(q[r]) + 1
          /\ k + 1 \in 0 .. Len(q[r]) + 1 /\ k + 1 # 0
      BY <2>1
    <3>2. /\ Word(q[r], r, k) \in Message \cup Heads
          /\ Word(q[r], r, k + 1) \in Message \cup Ends
      BY <2>1, <3>1, WordKinds
    <3>3. Word(q[r], r, k) # HeadOf(p)
      BY <1>4, <1>5, <1>9, <3>1, WordsDiffer DEF L
    <3>4. Word(q[r], r, k + 1) # succ
      BY <1>4, <1>5, <1>9, <3>1, WordsDiffer DEF L
    <3>. QED
      BY <1>6, <2>1, <2>2, <3>2, <3>3, <3>4 DEF Chained
  <2>. QED
    BY <1>7, <1>9, <2>2 DEF Chained
<1>10. Chained(s2, n2, v2, p)
  <2>1. ASSUME NEW k \in 1 .. L PROVE Word(s2, p, k) = Word(s, p, k + 1)
    <3>1. CASE k < L
      <4>1. k \in 1 .. L - 1 /\ k # 0 /\ k + 1 # 0 /\ k <= L - 1 /\ k + 1 <= L
        BY <1>1, <3>1
      <4>2. s2[k] = s[k + 1]
        BY <1>2, <4>1
      <4>. QED
        BY <1>2, <4>1, <4>2 DEF Word, L
    <3>2. CASE k = L
      <4>1. k # 0 /\ k + 1 # 0 /\ ~(k <= L - 1) /\ ~(k + 1 <= L)
        BY <1>1, <3>2
      <4>. QED
        BY <1>2, <4>1 DEF Word, L
    <3>. QED
      BY <1>1, <3>1, <3>2
  <2>2. ASSUME NEW k \in 0 .. L - 1
        PROVE  /\ n2[Word(s2, p, k)] = Word(s2, p, k + 1)
               /\ v2[Word(s2, p, k + 1)] = Word(s2, p, k)
    <3>1. CASE k = 0
      <4>1. Word(s2, p, 0) = HeadOf(p)
        BY DEF Word
      <4>2. Word(s2, p, 1) = succ
        <5>1. 1 \in 1 .. L /\ 1 + 1 = 2
          BY <1>1
        <5>. QED
          BY <1>4, <2>1, <5>1
      <4>3. k + 1 = 1
        BY <3>1
      <4>. QED
        BY <1>6, <3>1, <4>1, <4>2, <4>3
    <3>2. CASE k # 0
      <4>1. /\ k \in 1 .. L /\ k + 1 \in 1 .. L
            /\ k + 1 \in 0 .. L /\ k + 1 + 1 \in 0 .. L + 1 /\ k + 1 \in 0 .. L + 1
            /\ k + 1 # L + 1 /\ k + 1 # 0 /\ k + 1 + 1 # 0 /\ k + 1 + 1 # 2
        BY <1>1, <3>2
      <4>2. Word(s2, p, k) = Word(s, p, k + 1) /\ Word(s2, p, k + 1) = Word(s, p, k + 1 + 1)
        BY <2>1, <4>1
      <4>3. n[Word(s, p, k + 1)] = Word(s, p, k + 1 + 1)
            /\ v[Word(s, p, k + 1 + 1)] = Word(s, p, k + 1)
        BY <1>3, <4>1
      <4>4. Word(s, p, k + 1) # HeadOf(p)
        BY <1>4, <1>5, <4>1, WordsDiffer DEF L
      <4>5. Word(s, p, k + 1 + 1) # succ
        BY <1>4, <1>5, <4>1, WordsDiffer DEF L
      <4>6. Word(s, p, k + 1) \in Message \cup Heads /\ Word(s, p, k + 1 + 1) \in Message \cup Ends
        BY <1>1, <4>1, WordKinds DEF L
      <4>. QED
        BY <1>6, <4>2, <4>3, <4>4, <4>5, <4>6
    <3>. QED
      BY <3>1, <3>2
  <2>. QED
    BY <1>2, <2>2 DEF Chained
<1>11. ASSUME NEW r \in Port, r \notin made PROVE NeverMade(q2[r], n2, v2, r)
  <2>1. NeverMade(q[r], n, v, r) /\ r # p
    BY <1>11 DEF Linked
  <2>2. HeadOf(r) \in Heads /\ HeadOf(r) # HeadOf(p) /\ EndOf(r) \in Ends
    BY <2>1, NodesApart DEF Heads, Ends
  <2>3. EndOf(r) # succ
    <3>1. succ \in Message => EndOf(r) # succ
      BY NodesApart
    <3>2. succ \notin Message => succ = EndOf(p)
      <4>1. 2 = L + 1 \/ 2 \in 1 .. L
        BY <1>1
      <4>2. 2 \in 1 .. L => Word(s, p, 2) \in Message
        BY <1>1, <1>5, WordKinds DEF L
      <4>3. 2 = L + 1 => Word(s, p, 2) = EndOf(p)
        BY <1>1, <1>5, WordKinds DEF L
      <4>. QED
        BY <1>4, <4>1, <4>2, <4>3
    <3>. QED
      BY <2>1, <3>1, <3>2, NodesApart
  <2>4. n2[HeadOf(r)] = n[HeadOf(r)] /\ v2[EndOf(r)] = v[EndOf(r)]
    BY <1>6, <2>2, <2>3
  <2>. QED
    BY <1>7, <2>1, <2>4 DEF NeverMade
<1>12. \A r, w \in Port : \A j \in 1 .. Len(q[r]), k \in 1 .. Len(q[w]) :
         q[r][j] = q[w][k] => r = w /\ j = k
  BY DEF Linked
<1>13. ASSUME NEW r \in Port, NEW k \in 1 .. Len(q2[r])
       PROVE  \E i \in 1 .. Len(q[r]) : /\ q2[r][k] = q[r][i]
                                        /\ r = p => i = k + 1
                                        /\ r # p => i = k
  <2>1. CASE r # p
    BY <1>7, <1>13, <2>1
  <2>2. CASE r = p
    <3>1. q2[r] = s2 /\ k \in 1 .. L - 1 /\ k + 1 \in 1 .. L
      BY <1>1, <1>2, <1>7, <1>13, <2>2
    <3>. QED
      BY <1>2, <2>2, <3>1 DEF L
  <2>. QED
    BY <2>1, <2>2
<1>14. ASSUME NEW r \in Port, NEW w \in Port, NEW j \in 1 .. Len(q2[r]), NEW k \in 1 .. Len(q2[w]),
              q2[r][j] = q2[w][k]
       PROVE  r = w /\ j = k
  <2>1. PICK i \in 1 .. Len(q[r]) : /\ q2[r][j] = q[r][i]
                                    /\ r = p => i = j + 1
                                    /\ r # p => i = j
    BY <1>13
  <2>2. PICK l \in 1 .. Len(q[w]) : /\ q2[w][k] = q[w][l]
                                    /\ w = p => l = k + 1
                                    /\ w # p => l = k
    BY <1>13
  <2>3. r = w /\ i = l
    <3>1. q[r][i] = q[w][l]
      BY <1>14, <2>1, <2>2
    <3>. HIDE <1>14
    <3>. QED
      BY <1>12, <3>1
  <2>4. j \in Int /\ k \in Int
    OBVIOUS
  <2>. QED
    BY <2>1, <2>2, <2>3, <2>4
<1>15. ASSUME NEW r \in Port, NEW k \in 1 .. Len(q2[r]) PROVE h2[q2[r][k]] = Nobody
  <2>1. PICK i \in 1 .. Len(q[r]) : /\ q2[r][k] = q[r][i]
                                    /\ r = p => i = k + 1
                                    /\ r # p => i = k
    BY <1>13
  <2>2. 1 \in 1 .. Len(q[p]) /\ (r = p => i # 1)
    BY <1>1, <2>1 DEF L
  <2>3. q[r][i] # s[1]
    BY <1>12, <2>2
  <2>4. h[q[r][i]] = Nobody /\ q[r][i] \in Message
    BY SeqFacts DEF Linked
  <2>. QED
    BY <1>4, <2>1, <2>3, <2>4 DEF h2
<1>16. Linked(q2, n2, v2, h2, made)
  BY <1>7, <1>8, <1>9, <1>10, <1>11, <1>14, <1>15 DEF Linked
<1>. QED
  BY <1>2, <1>4, <1>16 DEF q2, s2, n2, v2, h2, succ

(* CreateMsgPort and AddPort: the list is empty, whatever it held. *)
LEMMA NewListEmpties ==
    ASSUME NEW q, NEW n \in NextWords, NEW v \in PrevWords, NEW h, NEW made,
           Linked(q, n, v, h, made), NEW p \in Port
    PROVE  Linked([q EXCEPT ![p] = <<>>], NewList(n, p), NewListPred(v, p), h, made \cup {p})
<1>. DEFINE q2 == [q EXCEPT ![p] = <<>>]
            n2 == NewList(n, p)
            v2 == NewListPred(v, p)
<1>1. q \in [Port -> Seq(Message)]
  BY DEF Linked
<1>2. HeadOf(p) \in Heads /\ EndOf(p) \in Ends
  BY DEF Heads, Ends
<1>3. /\ n2[HeadOf(p)] = EndOf(p)
      /\ \A x \in Message \cup Heads : x # HeadOf(p) => n2[x] = n[x]
      /\ v2[EndOf(p)] = HeadOf(p)
      /\ \A x \in Message \cup Ends : x # EndOf(p) => v2[x] = v[x]
  BY <1>2 DEF NextWords, PrevWords, NewList, NewListPred
<1>4. q2[p] = <<>> /\ \A r \in Port : r # p => q2[r] = q[r]
  BY <1>1
<1>5. q2 \in [Port -> Seq(Message)]
  BY <1>1
<1>6. Len(q2[p]) = 0
  BY <1>4
<1>. HIDE DEF q2, n2, v2
<1>7. Chained(q2[p], n2, v2, p)
  <2>1. Word(q2[p], p, 0) = HeadOf(p) /\ Word(q2[p], p, 0 + 1) = EndOf(p)
    BY <1>6 DEF Word
  <2>. QED
    BY <1>3, <1>6, <2>1 DEF Chained
<1>8. ASSUME NEW r \in Port, r \in made, r # p PROVE Chained(q2[r], n2, v2, r)
  <2>1. Chained(q[r], n, v, r) /\ q[r] \in Seq(Message) /\ Len(q[r]) \in Nat
    BY <1>8, SeqFacts DEF Linked
  <2>2. ASSUME NEW k \in 0 .. Len(q[r])
        PROVE  /\ n2[Word(q[r], r, k)] = Word(q[r], r, k + 1)
               /\ v2[Word(q[r], r, k + 1)] = Word(q[r], r, k)
    <3>1. /\ k \in 0 .. Len(q[r]) + 1 /\ k # Len(q[r]) + 1
          /\ k + 1 \in 0 .. Len(q[r]) + 1 /\ k + 1 # 0
      BY <2>1
    <3>2. /\ Word(q[r], r, k) \in Message \cup Heads
          /\ Word(q[r], r, k + 1) \in Message \cup Ends
      BY <2>1, <3>1, WordKinds
    <3>3. Word(q[r], r, k) # HeadOf(p)
      <4>1. k = 0 => Word(q[r], r, k) = HeadOf(r)
        BY <2>1, <3>1, WordKinds
      <4>2. k \in 1 .. Len(q[r]) => Word(q[r], r, k) \in Message
        BY <2>1, <3>1, WordKinds
      <4>3. k = 0 \/ k \in 1 .. Len(q[r])
        BY <2>1
      <4>. QED
        BY <1>8, <4>1, <4>2, <4>3, NodesApart
    <3>4. Word(q[r], r, k + 1) # EndOf(p)
      <4>1. k + 1 = Len(q[r]) + 1 => Word(q[r], r, k + 1) = EndOf(r)
        BY <2>1, <3>1, WordKinds
      <4>2. k + 1 \in 1 .. Len(q[r]) => Word(q[r], r, k + 1) \in Message
        BY <2>1, <3>1, WordKinds
      <4>3. k + 1 = Len(q[r]) + 1 \/ k + 1 \in 1 .. Len(q[r])
        BY <2>1
      <4>. QED
        BY <1>8, <4>1, <4>2, <4>3, NodesApart
    <3>. QED
      BY <1>3, <2>1, <2>2, <3>2, <3>3, <3>4 DEF Chained
  <2>. QED
    BY <1>4, <1>8, <2>2 DEF Chained
<1>9. ASSUME NEW r \in Port, r \notin made, r # p PROVE NeverMade(q2[r], n2, v2, r)
  <2>1. NeverMade(q[r], n, v, r) /\ HeadOf(r) \in Heads /\ HeadOf(r) # HeadOf(p)
        /\ EndOf(r) \in Ends /\ EndOf(r) # EndOf(p)
    BY <1>9, NodesApart DEF Linked, Heads, Ends
  <2>. QED
    BY <1>3, <1>4, <1>9, <2>1 DEF NeverMade
<1>10. ASSUME NEW r \in Port, NEW w \in Port, NEW j \in 1 .. Len(q2[r]), NEW k \in 1 .. Len(q2[w]),
              q2[r][j] = q2[w][k]
       PROVE  r = w /\ j = k
  <2>1. r # p /\ w # p
    BY <1>6
  <2>. QED
    BY <1>4, <1>10, <2>1 DEF Linked
<1>11. ASSUME NEW r \in Port, NEW k \in 1 .. Len(q2[r]) PROVE h[q2[r][k]] = Nobody
  <2>1. r # p
    BY <1>6
  <2>. QED
    BY <1>4, <2>1 DEF Linked
<1>12. Linked(q2, n2, v2, h, made \cup {p})
  <2>1. \A r \in Port : IF r \in made \cup {p} THEN Chained(q2[r], n2, v2, r)
                                               ELSE NeverMade(q2[r], n2, v2, r)
    BY <1>7, <1>8, <1>9
  <2>. QED
    BY <1>5, <1>10, <1>11, <2>1 DEF Linked
<1>. QED
  BY <1>12 DEF q2, n2, v2

(* A set of indices that is not empty has a least element. *)
LEMMA LeastIndex ==
    ASSUME NEW n \in Nat, NEW S \in SUBSET (1 .. n), S # {}
    PROVE  \E m \in S : \A k \in S : m <= k
<1>. DEFINE I == 1 .. n
            P == {1 .. k : k \in S}
<1>1. \A k \in S : k \in Nat /\ 1 .. k \subseteq I /\ IsFiniteSet(1 .. k)
  <2>. TAKE k \in S
  <2>1. k \in Nat /\ k >= 1 /\ k <= n
    OBVIOUS
  <2>2. IsFiniteSet(1 .. k)
    BY <2>1, FS_Interval
  <2>. QED
    BY <2>1, <2>2
<1>2. P \subseteq FiniteSubsetsOf(I) /\ P # {}
  BY <1>1 DEF FiniteSubsetsOf
<1>3. IsWellFoundedOn(StrictSubsetOrdering(I), FiniteSubsetsOf(I))
  BY FS_StrictSubsetOrderingWellFounded
<1>4. PICK x \in P : \A y \in P : ~ (<<y, x>> \in StrictSubsetOrdering(I))
  <2>. HIDE DEF P, I
  <2>. QED
    BY <1>2, <1>3, WFMin
<1>5. PICK m \in S : x = 1 .. m
  OBVIOUS
<1>6. ASSUME NEW k \in S, k < m PROVE FALSE
  <2>1. 1 .. k \in P /\ 1 .. k \subseteq 1 .. m /\ 1 .. m \subseteq I
    BY <1>6, <1>1
  <2>2. m \in 1 .. m /\ m \notin 1 .. k
    BY <1>6, <1>1
  <2>3. <<1 .. k, x>> \in StrictSubsetOrdering(I)
    BY <2>1, <2>2, <1>5 DEF StrictSubsetOrdering
  <2>. QED
    BY <2>1, <2>3, <1>4
<1>7. \A k \in S : k \in Nat /\ m \in Nat
  BY <1>1
<1>. QED
  BY <1>6, <1>7

(* The walk Queue makes through the words w from the head of p. *)
Walked(w, p, node) ==
    [n \in 0 .. Cardinality(Message) |->
        IF n = 0 THEN HeadOf(p)
        ELSE IF node[n - 1] \in Message \cup Heads THEN w[node[n - 1]]
        ELSE Null]
Nodes(w, p) == CHOOSE node : node = Walked(w, p, node)
ReadOff(w, p) ==
    [n \in 1 .. Cardinality({k \in DOMAIN Nodes(w, p) : Nodes(w, p)[k] \in Message})
        |-> Nodes(w, p)[n]]

(* Two walks are the same: there is no first word where they part. *)
LEMMA OneWalk ==
    ASSUME NEW w, NEW p, NEW f, NEW g, f = Walked(w, p, f), g = Walked(w, p, g)
    PROVE  f = g
<1>. DEFINE C == Cardinality(Message)
            S == {k \in 1 .. C : f[k] # g[k]}
<1>1. C \in Nat
  BY MemoryAssumption, FS_CardinalityType
<1>. HIDE DEF C
<1>2. /\ f = [n \in 0 .. C |-> IF n = 0 THEN HeadOf(p)
                ELSE IF f[n - 1] \in Message \cup Heads THEN w[f[n - 1]] ELSE Null]
      /\ g = [n \in 0 .. C |-> IF n = 0 THEN HeadOf(p)
                ELSE IF g[n - 1] \in Message \cup Heads THEN w[g[n - 1]] ELSE Null]
  BY DEF Walked, C
<1>3. f[0] = g[0]
  BY <1>1, <1>2
<1>4. ASSUME NEW k \in 1 .. C, f[k - 1] = g[k - 1] PROVE f[k] = g[k]
  BY <1>1, <1>2, <1>4
<1>5. S = {}
  <2>. SUFFICES ASSUME S # {} PROVE FALSE
    OBVIOUS
  <2>1. PICK m \in S : \A k \in S : m <= k
    BY <1>1, LeastIndex
  <2>2. m \in 1 .. C /\ f[m] # g[m]
    OBVIOUS
  <2>3. m - 1 \notin S
    BY <1>1, <2>1, <2>2
  <2>4. m - 1 = 0 \/ m - 1 \in 1 .. C
    BY <1>1, <2>2
  <2>5. f[m - 1] = g[m - 1]
    BY <1>3, <2>3, <2>4
  <2>. QED
    BY <1>4, <2>2, <2>5
<1>6. \A k \in 0 .. C : f[k] = g[k]
  <2>. TAKE k \in 0 .. C
  <2>1. k = 0 \/ k \in 1 .. C
    BY <1>1
  <2>. QED
    BY <1>3, <1>5, <2>1
<1>. QED
  BY <1>2, <1>6

(* Whatever satisfies the equation of the walk is the walk. *)
LEMMA NodesAre ==
    ASSUME NEW w, NEW p, NEW f, f = Walked(w, p, f)
    PROVE  Nodes(w, p) = f
<1>1. Nodes(w, p) = Walked(w, p, Nodes(w, p))
  BY DEF Nodes
<1>. QED
  BY <1>1, OneWalk

(* Queue reads the port's list off the words of next. *)
LEMMA QueueReadsOff == \A p : Queue(p) = ReadOff(next, p)
BY DEF Queue, ReadOff, Nodes, Walked

(* A list is no longer than there are messages. *)
LEMMA ListFits ==
    ASSUME NEW q, NEW n, NEW v, NEW h, NEW made, Linked(q, n, v, h, made), NEW p \in Port
    PROVE  Len(q[p]) <= Cardinality(Message)
<1>1. q[p] \in Seq(Message) /\ Len(q[p]) \in Nat
  BY SeqFacts DEF Linked
<1>2. \A j, k \in 1 .. Len(q[p]) : q[p][j] = q[p][k] => j = k
  BY DEF Linked
<1>3. q[p] \in [1 .. Len(q[p]) -> Message]
  BY <1>1, LenProperties
<1>4. q[p] \in Injection(1 .. Len(q[p]), Message)
  BY <1>2, <1>3, Fun_IsInj
<1>5. Cardinality(1 .. Len(q[p])) <= Cardinality(Message)
  BY <1>4, MemoryAssumption, FS_Injection
<1>6. Cardinality(1 .. Len(q[p])) = Len(q[p])
  <2>1. Len(q[p]) \in Int /\ 1 \in Int /\ (1 > Len(q[p]) => Len(q[p]) = 0)
        /\ Len(q[p]) - 1 + 1 = Len(q[p])
    BY <1>1
  <2>. HIDE <1>1
  <2>2. Cardinality(1 .. Len(q[p])) = IF 1 > Len(q[p]) THEN 0 ELSE Len(q[p]) - 1 + 1
    BY <2>1, FS_Interval
  <2>. QED
    BY <2>1, <2>2
<1>. QED
  BY <1>5, <1>6

(* What Queue reads off the words is the sequence they hold. *)
LEMMA ReadsList ==
    ASSUME NEW q, NEW n, NEW v, NEW h, NEW made, Linked(q, n, v, h, made), NEW p \in Port
    PROVE  ReadOff(n, p) = q[p]
<1>. DEFINE s == q[p]
            L == Len(s)
            C == Cardinality(Message)
            f == [k \in 0 .. C |-> IF k <= L THEN Word(s, p, k)
                                   ELSE IF k = L + 1 /\ p \in made THEN EndOf(p) ELSE Null]
<1>1. /\ s \in Seq(Message) /\ L \in Nat /\ C \in Nat /\ L <= C
      /\ \A k \in 1 .. L : s[k] \in Message
  <2>1. s \in Seq(Message) /\ L \in Nat /\ \A k \in 1 .. L : s[k] \in Message
    BY SeqFacts DEF Linked
  <2>. QED
    BY <2>1, ListFits, MemoryAssumption, FS_CardinalityType
<1>2. EndOf(p) \notin Message \cup Heads /\ Null \notin Message \cup Heads
      /\ HeadOf(p) \notin Message /\ HeadOf(p) \in Heads
  BY NodesApart DEF Heads
<1>. HIDE DEF s, L, C
<1>3. f = Walked(n, p, f)
  <2>1. ASSUME NEW k \in 0 .. C
        PROVE  f[k] = IF k = 0 THEN HeadOf(p)
                      ELSE IF f[k - 1] \in Message \cup Heads THEN n[f[k - 1]] ELSE Null
    <3>1. CASE k = 0
      BY <1>1, <3>1 DEF Word
    <3>2. CASE k \in 1 .. C /\ k <= L
      <4>1. /\ k - 1 \in 0 .. C /\ k - 1 <= L /\ k - 1 \in 0 .. L /\ k # 0
            /\ k - 1 \in 0 .. L + 1 /\ k - 1 # L + 1 /\ k - 1 + 1 = k /\ L # 0
        BY <1>1, <3>2
      <4>2. f[k] = Word(s, p, k) /\ f[k - 1] = Word(s, p, k - 1)
        BY <3>2, <4>1
      <4>3. Word(s, p, k - 1) \in Message \cup Heads
        BY <1>1, <4>1, WordKinds DEF L
      <4>4. n[Word(s, p, k - 1)] = Word(s, p, k)
        <5>1. p \in made
          <6>1. s # <<>>
            BY <4>1 DEF L
          <6>. QED
            BY <6>1 DEF Linked, NeverMade, s
        <5>2. Chained(s, n, v, p)
          BY <5>1 DEF Linked, s
        <5>. QED
          BY <4>1, <5>2 DEF Chained, L
      <4>. QED
        BY <4>1, <4>2, <4>3, <4>4
    <3>3. CASE k \in 1 .. C /\ k = L + 1
      <4>1. /\ k - 1 \in 0 .. C /\ k - 1 = L /\ L \in 0 .. L + 1 /\ L # L + 1 /\ k # 0
            /\ ~(k <= L) /\ L <= L /\ L \in 0 .. L
        BY <1>1, <3>3
      <4>2. f[k - 1] = Word(s, p, L) /\ f[k] = IF p \in made THEN EndOf(p) ELSE Null
        BY <3>3, <4>1
      <4>3. Word(s, p, L) \in Message \cup Heads
        BY <1>1, <4>1, WordKinds DEF L
      <4>4. n[Word(s, p, L)] = IF p \in made THEN EndOf(p) ELSE Null
        <5>1. CASE p \in made
          <6>1. Chained(s, n, v, p)
            BY <5>1 DEF Linked, s
          <6>2. n[Word(s, p, L)] = Word(s, p, L + 1)
            BY <4>1, <6>1 DEF Chained, L
          <6>3. Word(s, p, L + 1) = EndOf(p)
            BY <1>1 DEF Word, L
          <6>. QED
            BY <5>1, <6>2, <6>3
        <5>2. CASE p \notin made
          <6>1. s = <<>> /\ n[HeadOf(p)] = Null
            BY <5>2 DEF Linked, NeverMade, s
          <6>2. L = 0
            BY <6>1 DEF L
          <6>3. Word(s, p, L) = HeadOf(p)
            BY <6>2 DEF Word
          <6>. QED
            BY <5>2, <6>1, <6>3
        <5>. QED
          BY <5>1, <5>2
      <4>. QED
        BY <4>1, <4>2, <4>3, <4>4
    <3>4. CASE k \in 1 .. C /\ k > L + 1
      <4>1. k - 1 \in 0 .. C /\ ~(k - 1 <= L) /\ ~(k <= L) /\ k # L + 1 /\ k # 0
        BY <1>1, <3>4
      <4>2. f[k] = Null /\ f[k - 1] \in {EndOf(p), Null}
        BY <3>4, <4>1
      <4>. QED
        BY <1>2, <4>1, <4>2
    <3>. QED
      BY <1>1, <3>1, <3>2, <3>3, <3>4
  <2>2. Walked(n, p, f) = [k \in 0 .. C |-> IF k = 0 THEN HeadOf(p)
                      ELSE IF f[k - 1] \in Message \cup Heads THEN n[f[k - 1]] ELSE Null]
    BY DEF Walked, C
  <2>3. f = [k \in 0 .. C |-> f[k]]
    OBVIOUS
  <2>. HIDE DEF f
  <2>. QED
    BY <2>1, <2>2, <2>3
<1>4. Nodes(n, p) = f
  <2>. HIDE DEF f
  <2>. QED
    BY <1>3, NodesAre
<1>5. {k \in DOMAIN f : f[k] \in Message} = 1 .. L
  <2>1. ASSUME NEW k \in 0 .. C PROVE f[k] \in Message <=> k \in 1 .. L
    <3>1. CASE k = 0
      BY <1>1, <1>2, <3>1 DEF Word
    <3>2. CASE k \in 1 .. L
      BY <1>1, <3>2 DEF Word, L
    <3>3. CASE k > L
      <4>1. ~(k <= L) /\ k \notin 1 .. L
        BY <1>1, <3>3
      <4>2. f[k] \in {EndOf(p), Null}
        BY <4>1
      <4>. QED
        BY <1>2, <4>1, <4>2
    <3>. QED
      BY <1>1, <3>1, <3>2, <3>3
  <2>2. DOMAIN f = 0 .. C /\ 1 .. L \subseteq 0 .. C
    BY <1>1
  <2>. HIDE DEF f
  <2>. QED
    BY <2>1, <2>2
<1>6. Cardinality(1 .. L) = L
  BY <1>1, FS_Interval
<1>7. \A k \in 1 .. L : f[k] = s[k]
  BY <1>1 DEF Word, L
<1>8. ReadOff(n, p) = [k \in 1 .. L |-> s[k]]
  <2>. HIDE DEF f
  <2>. QED
    BY <1>4, <1>5, <1>6, <1>7 DEF ReadOff
<1>9. s = [k \in 1 .. L |-> s[k]]
  BY <1>1, LenProperties DEF L
<1>. QED
  BY <1>8, <1>9 DEF s

(* The ports whose list was made once; a deleted port's list stays. *)
Made == {p \in Port : port[p].task # Nobody}
Holds(q) == Linked(q, next, prev, held, Made)
(* In every state the words hold some lists. *)
Woven == \E q : Holds(q)

(* What a step may do to the lists and to the messages in hand. *)
Moves(q, q2) ==
    \/ q2 = q /\ held' = held
    \/ \E p \in Port : q2 = [q EXCEPT ![p] = <<>>] /\ held' = held
    \/ \E p \in Port, m \in Message :
         /\ held[m] # Nobody
         /\ q2 = [q EXCEPT ![p] = Append(q[p], m)] /\ held' = [held EXCEPT ![m] = Nobody]
    \/ \E p \in Port, t \in Task :
         /\ q[p] # <<>>
         /\ q2 = [q EXCEPT ![p] = Tail(q[p])] /\ held' = [held EXCEPT ![Head(q[p])] = t]

(* The refinement mapping's queues are the lists ... *)
LEMMA QueuesAre ==
    ASSUME NEW q, Holds(q)
    PROVE  [p \in Port |-> Queue(p)] = q
<1>1. \A p \in Port : Queue(p) = q[p]
  BY ReadsList, QueueReadsOff DEF Holds
<1>2. q \in [Port -> Seq(Message)]
  BY DEF Holds, Linked
<1>. QED
  BY <1>1, <1>2

(* ... and so they are after a step. *)
LEMMA QueuesWillBe ==
    ASSUME NEW q, Linked(q, next', prev', held', Made')
    PROVE  [p \in Port |-> Queue(p)]' = q
<1>1. \A p : Queue(p)' = ReadOff(next', p)
  BY DEF Queue, ReadOff, Nodes, Walked
<1>2. \A p \in Port : Queue(p)' = q[p]
  BY <1>1, ReadsList
<1>3. q \in [Port -> Seq(Message)]
  BY DEF Linked
<1>. QED
  BY <1>2, <1>3

(* Every list starts empty. *)
LEMMA InitWoven ==
    ASSUME Init
    PROVE  Holds([p \in Port |-> <<>>])
<1>. DEFINE q == [p \in Port |-> <<>>]
<1>1. /\ next = [x \in Message \cup Heads |-> Null]
      /\ prev = [x \in Message \cup Ends |-> Null]
      /\ \A p \in Port : port[p].task = Nobody
  BY DEF Init
<1>2. Made = {}
  BY <1>1 DEF Made
<1>3. \A p \in Port : HeadOf(p) \in Heads /\ EndOf(p) \in Ends
  BY DEF Heads, Ends
<1>4. \A p \in Port : NeverMade(q[p], next, prev, p)
  BY <1>1, <1>3 DEF NeverMade
<1>5. q \in [Port -> Seq(Message)] /\ \A p \in Port : Len(q[p]) = 0
  OBVIOUS
<1>. HIDE DEF q
<1>6. \A p \in Port : 1 .. Len(q[p]) = {}
  BY <1>5
<1>7. Linked(q, next, prev, held, Made)
  BY <1>2, <1>4, <1>5, <1>6 DEF Linked
<1>. QED
  BY <1>7 DEF Holds, q

(* The list words and the messages in hand have their types. *)
LEMMA WordsTyped ==
    ASSUME IInv
    PROVE  next \in NextWords /\ prev \in PrevWords /\ held \in [Message -> Task \cup {Nobody}]
BY DEF IInv, TypeOK, NextWords, PrevWords

(* Messages in a list are held by nobody, so a task that holds one is outside. *)
LEMMA DeliverWeaves ==
    ASSUME IInv, NEW q, Holds(q), NEW p \in Live, NEW m \in Message, held[m] \in Task,
           Deliver(p, m), UNCHANGED port
    PROVE  \E q2 : Linked(q2, next', prev', held', Made') /\ Moves(q, q2)
<1>1. p \in Port /\ p \in Made
  BY TaskAssumption DEF IInv, OwnersAreTasks, Live, Owner, Made, Nobody
<1>2. held[m] # Nobody
  BY TaskAssumption DEF Nobody
<1>3. Linked([q EXCEPT ![p] = Append(q[p], m)],
             [next EXCEPT ![m] = EndOf(p), ![prev[EndOf(p)]] = m],
             [prev EXCEPT ![m] = prev[EndOf(p)], ![EndOf(p)] = m],
             [held EXCEPT ![m] = Nobody], Made)
  BY <1>1, <1>2, WordsTyped, LinkAppends DEF Holds
<1>4. /\ next' = [next EXCEPT ![m] = EndOf(p), ![prev[EndOf(p)]] = m]
      /\ prev' = [prev EXCEPT ![m] = prev[EndOf(p)], ![EndOf(p)] = m]
      /\ held' = [held EXCEPT ![m] = Nobody]
  BY DEF Deliver, Link
<1>5. Made' = Made
  BY DEF Made
<1>6. Moves(q, [q EXCEPT ![p] = Append(q[p], m)])
  BY <1>1, <1>2, <1>4 DEF Moves
<1>. QED
  BY <1>3, <1>4, <1>5, <1>6

(* A port's list is empty exactly if Empty reads so. *)
LEMMA EmptyReads ==
    ASSUME IInv, NEW q, Holds(q), NEW p \in Port
    PROVE  Empty(p) <=> q[p] = <<>>
<1>1. q[p] \in Seq(Message) /\ Len(q[p]) \in Nat
  BY SeqFacts DEF Holds, Linked
<1>2. CASE p \notin Made
  BY <1>2 DEF Holds, Linked, NeverMade, Empty, First
<1>3. CASE p \in Made
  <2>1. 0 \in 0 .. Len(q[p]) /\ 1 \in 0 .. Len(q[p]) + 1 /\ 0 + 1 = 1
    BY <1>1
  <2>2. First(p) = Word(q[p], p, 1)
    <3>1. Chained(q[p], next, prev, p)
      BY <1>3 DEF Holds, Linked
    <3>2. Word(q[p], p, 0) = HeadOf(p)
      BY DEF Word
    <3>. QED
      BY <2>1, <3>1, <3>2 DEF Chained, First
  <2>3. CASE q[p] = <<>>
    <3>1. Len(q[p]) = 0
      BY <2>3
    <3>2. Word(q[p], p, 1) = EndOf(p)
      BY <3>1 DEF Word
    <3>. QED
      BY <2>2, <2>3, <3>2 DEF Empty, Ends
  <2>4. CASE q[p] # <<>>
    <3>1. 1 \in 1 .. Len(q[p])
      BY <1>1, <2>4, EmptySeq
    <3>2. First(p) \in Message
      BY <1>1, <2>1, <2>2, <3>1, WordKinds
    <3>. QED
      BY <2>4, <3>2, MemoryAssumption DEF Empty
  <2>. QED
    BY <2>3, <2>4
<1>. QED
  BY <1>2, <1>3

(* A step that leaves the words alone leaves the lists. *)
LEMMA StayWeaves ==
    ASSUME NEW q, Holds(q), UNCHANGED <<next, prev, held>>, Made' = Made
    PROVE  \E q2 : Linked(q2, next', prev', held', Made') /\ Moves(q, q2)
<1>1. Linked(q, next', prev', held', Made') /\ Moves(q, q)
  BY DEF Holds, Moves
<1>. QED
  BY <1>1

(* GetMsg takes the first message, or finds the list empty. *)
LEMMA GetWeaves ==
    ASSUME IInv, NEW q, Holds(q), NEW t \in Task, NEW p \in Port, GetMsg(t, p)
    PROVE  \E q2 : Linked(q2, next', prev', held', Made') /\ Moves(q, q2)
<1>1. p \in Live /\ UNCHANGED port /\ Made' = Made
  BY DEF GetMsg, Made
<1>2. CASE Empty(p)
  BY <1>1, <1>2, StayWeaves DEF GetMsg, memory
<1>3. CASE ~Empty(p)
  <2>1. p \in Made /\ q[p] # <<>>
    BY <1>1, <1>3, EmptyReads, TaskAssumption DEF IInv, OwnersAreTasks, Live, Owner, Made, Nobody
  <2>2. /\ next[HeadOf(p)] = Head(q[p])
        /\ Linked([q EXCEPT ![p] = Tail(q[p])],
                  [next EXCEPT ![HeadOf(p)] = next[next[HeadOf(p)]]],
                  [prev EXCEPT ![next[next[HeadOf(p)]]] = HeadOf(p)],
                  [held EXCEPT ![next[HeadOf(p)]] = t], Made)
    BY <2>1, WordsTyped, UnlinkTakes DEF Holds
  <2>3. /\ next' = [next EXCEPT ![HeadOf(p)] = next[next[HeadOf(p)]]]
        /\ prev' = [prev EXCEPT ![next[next[HeadOf(p)]]] = HeadOf(p)]
        /\ held' = [held EXCEPT ![next[HeadOf(p)]] = t]
    BY <1>3 DEF GetMsg, Unlink, First
  <2>4. Moves(q, [q EXCEPT ![p] = Tail(q[p])])
    BY <2>1, <2>2, <2>3 DEF Moves
  <2>. QED
    BY <1>1, <2>2, <2>3, <2>4
<1>. QED
  BY <1>2, <1>3

(* CreateMsgPort and AddPort begin an empty list. *)
LEMMA NewListWeaves ==
    ASSUME IInv, NEW q, Holds(q), NEW p \in Port, next' = NewList(next, p),
           prev' = NewListPred(prev, p), held' = held, Made' = Made \cup {p}
    PROVE  \E q2 : Linked(q2, next', prev', held', Made') /\ Moves(q, q2)
<1>1. Linked([q EXCEPT ![p] = <<>>], next', prev', held', Made')
  BY WordsTyped, NewListEmpties DEF Holds
<1>2. Moves(q, [q EXCEPT ![p] = <<>>])
  BY DEF Moves
<1>. QED
  BY <1>1, <1>2

(* Every step leaves lists in the words that its queues move to. *)
LEMMA NextWeaves ==
    ASSUME IInv, NEW q, Holds(q), [Next]_vars
    PROVE  \E q2 : Linked(q2, next', prev', held', Made') /\ Moves(q, q2)
<1>1. CASE UNCHANGED vars
  <2>1. UNCHANGED <<next, prev, held, port>>
    BY <1>1 DEF vars
  <2>2. Made' = Made
    BY <2>1 DEF Made
  <2>. QED
    BY <2>1, <2>2, StayWeaves
<1>2. ASSUME UNCHANGED <<next, prev, held, port>>
      PROVE  \E q2 : Linked(q2, next', prev', held', Made') /\ Moves(q, q2)
  <2>1. Made' = Made
    BY <1>2 DEF Made
  <2>. QED
    BY <1>2, <2>1, StayWeaves
<1>3. CASE Scheduler
  <2>1. UNCHANGED <<next, prev, held, port>>
    BY <1>3 DEF Scheduler, LoopReturns, LoopFails, Resume, memory
  <2>. QED
    BY <1>2, <2>1
<1>4. ASSUME NEW t \in Task, Step(t)
      PROVE  \E q2 : Linked(q2, next', prev', held', Made') /\ Moves(q, q2)
  <2>1. CASE CreateMsgPort(t)
    <3>1. PICK p \in Port :
            /\ port[p].task = Nobody
            /\ \/ UNCHANGED <<memory, port>>
               \/ \E bit \in FreeBits(t) :
                    /\ port' = [port EXCEPT ![p] = [live |-> TRUE, task |-> t, bit |-> bit]]
                    /\ next' = NewList(next, p) /\ prev' = NewListPred(prev, p)
      BY <2>1 DEF CreateMsgPort
    <3>2. held' = held
      BY <2>1 DEF CreateMsgPort
    <3>3. CASE UNCHANGED <<memory, port>>
      BY <1>2, <3>2, <3>3 DEF memory
    <3>4. CASE \E bit \in FreeBits(t) :
                 /\ port' = [port EXCEPT ![p] = [live |-> TRUE, task |-> t, bit |-> bit]]
                 /\ next' = NewList(next, p) /\ prev' = NewListPred(prev, p)
      <4>1. Made' = Made \cup {p}
        <5>1. PICK bit : port' = [port EXCEPT ![p] = [live |-> TRUE, task |-> t, bit |-> bit]]
          BY <3>4
        <5>2. DOMAIN port = Port /\ t # Nobody
          BY TaskAssumption DEF IInv, TypeOK, Nobody
        <5>. QED
          BY <5>1, <5>2 DEF Made
      <4>. QED
        BY <3>2, <3>4, <4>1, NewListWeaves
    <3>. QED
      BY <3>1, <3>3, <3>4
  <2>2. CASE \E p \in Port : DeleteMsgPort(t, p)
    <3>1. PICK p \in Port : DeleteMsgPort(t, p)
      BY <2>2
    <3>2. port' = [port EXCEPT ![p].live = FALSE] /\ UNCHANGED <<next, prev, held>>
      BY <3>1 DEF DeleteMsgPort, memory
    <3>3. Made' = Made
      BY <3>2 DEF Made, IInv, TypeOK
    <3>. QED
      BY <3>2, <3>3, StayWeaves
  <2>3. CASE \E p \in Port : AddPort(t, p)
    <3>1. PICK p \in Port : AddPort(t, p)
      BY <2>3
    <3>2. /\ next' = NewList(next, p) /\ prev' = NewListPred(prev, p)
          /\ UNCHANGED <<port, held>> /\ p \in Live
      BY <3>1 DEF AddPort
    <3>3. p \in Made
      BY <3>2, TaskAssumption DEF IInv, OwnersAreTasks, Live, Owner, Made, Nobody
    <3>4. Made' = Made \cup {p}
      BY <3>2, <3>3 DEF Made
    <3>. QED
      BY <3>2, <3>4, NewListWeaves
  <2>4. CASE \E p \in Port : GetMsg(t, p)
    BY <2>4, GetWeaves
  <2>5. CASE \E p \in Port, m \in Message : PutMsg(t, p, m)
    BY <2>5, DeliverWeaves DEF PutMsg
  <2>6. CASE \E m \in Message : ReplyMsg(t, m)
    <3>1. PICK m \in Message : ReplyMsg(t, m)
      BY <2>6
    <3>2. reply[m] \in Live /\ held[m] = t /\ Deliver(reply[m], m) /\ UNCHANGED port
      BY <3>1 DEF ReplyMsg, IInv, RepliesLive
    <3>. QED
      BY <3>2, DeliverWeaves
  <2>7. CASE \/ AllocSignal(t) \/ Finish(t) \/ ObtainSemaphore(t) \/ ReleaseSemaphore(t)
             \/ \E p \in Port : RemPort(t, p) \/ WaitPort(t, p)
             \/ \E b \in Bits : FreeSignal(t, b) \/ \E to \in Task : Signal(t, to, b)
             \/ \E mask \in SUBSET alloc[t] \ {{}} : Wait(t, mask)
    <3>1. UNCHANGED <<next, prev, held, port>>
      BY <2>7 DEF AllocSignal, Finish, ObtainSemaphore, ReleaseSemaphore, RemPort, WaitPort,
                  FreeSignal, Signal, Wait, memory
    <3>. QED
      BY <1>2, <3>1
  <2>. QED
    BY <1>4, <2>1, <2>2, <2>3, <2>4, <2>5, <2>6, <2>7 DEF Step
<1>. QED
  BY <1>1, <1>3, <1>4 DEF Next

(* The words always hold lists. *)
LEMMA WovenAlways == Spec => []Woven
<1>1. Init => Woven
  BY InitWoven DEF Woven
<1>2. IInv /\ Woven /\ [Next]_vars => Woven'
  <2>. SUFFICES ASSUME IInv, Woven, [Next]_vars PROVE Woven'
    OBVIOUS
  <2>1. PICK q : Holds(q)
    BY DEF Woven
  <2>. QED
    BY <2>1, NextWeaves DEF Woven, Holds
<1>. QED
  BY <1>1, <1>2, PortsInvariant, PTL DEF Spec

(* PutMsg, ReplyMsg, GetMsg, CreateMsgPort and AddPort, which change the list
   words of messages and headers one by one, implement first-in first-out
   queues: no message is lost, delivered twice or overtaken. *)
THEOREM ListsAreQueues == Spec => FifoSpec
<1>1. Init => Fifo!Init
  <2>. SUFFICES ASSUME Init PROVE Fifo!Init
    OBVIOUS
  <2>1. [p \in Port |-> Queue(p)] = [p \in Port |-> <<>>]
    BY InitWoven, QueuesAre
  <2>2. held \in [Message -> Task]
    BY DEF Init
  <2>. QED
    BY <2>1, <2>2 DEF Fifo!Init
<1>2. IInv /\ Woven /\ [Next]_vars => [Fifo!Next]_(Fifo!fifo)
  <2>. SUFFICES ASSUME IInv, Woven, [Next]_vars PROVE [Fifo!Next]_(Fifo!fifo)
    OBVIOUS
  <2>1. PICK q : Holds(q)
    BY DEF Woven
  <2>2. PICK q2 : Linked(q2, next', prev', held', Made') /\ Moves(q, q2)
    BY <2>1, NextWeaves
  <2>. DEFINE Q == [p \in Port |-> Queue(p)]
  <2>3. Q = q /\ Q' = q2
    BY <2>1, <2>2, QueuesAre, QueuesWillBe
  <2>4. CASE q2 = q /\ held' = held
    BY <2>3, <2>4 DEF Fifo!fifo
  <2>5. CASE \E p \in Port : q2 = [q EXCEPT ![p] = <<>>] /\ held' = held
    <3>1. \E p \in Port : Fifo!Renew(p)
      <4>. HIDE DEF Q
      <4>. QED
        BY <2>3, <2>5 DEF Fifo!Renew, Q
    <3>. QED
      BY <3>1 DEF Fifo!Next
  <2>6. CASE \E p \in Port, m \in Message :
               /\ held[m] # Nobody
               /\ q2 = [q EXCEPT ![p] = Append(q[p], m)] /\ held' = [held EXCEPT ![m] = Nobody]
    <3>1. \E p \in Port : \E m \in Message : Fifo!Put(p, m)
      BY <2>3, <2>6 DEF Fifo!Put
    <3>. QED
      BY <3>1 DEF Fifo!Next
  <2>7. CASE \E p \in Port, t \in Task :
               /\ q[p] # <<>>
               /\ q2 = [q EXCEPT ![p] = Tail(q[p])] /\ held' = [held EXCEPT ![Head(q[p])] = t]
    <3>1. \E p \in Port : \E t \in Task : Fifo!Take(p, t)
      BY <2>3, <2>7 DEF Fifo!Take
    <3>. QED
      BY <3>1 DEF Fifo!Next
  <2>. QED
    BY <2>2, <2>4, <2>5, <2>6, <2>7 DEF Moves
<1>. QED
  BY <1>1, <1>2, WovenAlways, PortsInvariant, PTL DEF Spec, FifoSpec, Fifo!Spec

----------------------------------------------------------------------------
(* WaitPort.  A context that waits on a port owns it and waits for its bit. *)

Watches(t) == wait[t].on # NoPort /\ wait[t].mode \in {"looping", "parked"}
WatchedWell(t) ==
    LET p == wait[t].on IN
    /\ p \in Live /\ Owner(p) = t /\ wait[t].mask = {port[p].bit}
    /\ Empty(p) \/ Arrived(t) # {}
WaitInv == \A t \in Task : Watches(t) => WatchedWell(t)

(* Delivering to another port leaves the first word of a list alone. *)
LEMMA DeliverElsewhere ==
    ASSUME IInv, Woven, NEW p \in Live, NEW m \in Message, Deliver(p, m),
           NEW r \in Port, r # p
    PROVE  next'[HeadOf(r)] = next[HeadOf(r)]
<1>1. p \in Port /\ p \in Made
  BY TaskAssumption DEF IInv, OwnersAreTasks, Live, Owner, Made, Nobody
<1>2. PICK q : Linked(q, next, prev, held, Made)
  BY DEF Woven, Holds
<1>3. q[p] \in Seq(Message) /\ Len(q[p]) \in Nat /\ q[r] \in Seq(Message) /\ Len(q[r]) \in Nat
  BY <1>1, <1>2, SeqFacts DEF Linked
<1>4. prev[EndOf(p)] = Word(q[p], p, Len(q[p]))
  <2>1. Chained(q[p], next, prev, p)
    BY <1>1, <1>2 DEF Linked
  <2>2. Len(q[p]) \in 0 .. Len(q[p]) /\ Word(q[p], p, Len(q[p]) + 1) = EndOf(p)
    BY <1>3 DEF Word
  <2>. QED
    BY <2>1, <2>2 DEF Chained
<1>5. Word(q[p], p, Len(q[p])) # HeadOf(r)
  <2>1. 0 \in 0 .. Len(q[r]) + 1 /\ Len(q[p]) \in 0 .. Len(q[p]) + 1
    BY <1>3
  <2>2. Word(q[r], r, 0) = HeadOf(r)
    BY DEF Word
  <2>. QED
    BY <1>1, <1>2, <2>1, <2>2, WordsDiffer
<1>6. HeadOf(r) # m
  BY NodesApart
<1>7. next' = [next EXCEPT ![m] = EndOf(p), ![prev[EndOf(p)]] = m]
  BY DEF Deliver, Link
<1>8. HeadOf(r) \in Heads /\ prev[EndOf(p)] # HeadOf(r) /\ next \in NextWords
  BY <1>4, <1>5, WordsTyped DEF Heads
<1>9. [next EXCEPT ![m] = EndOf(p)][HeadOf(r)] = next[HeadOf(r)]
  BY <1>6, <1>8 DEF NextWords
<1>. QED
  BY <1>7, <1>8, <1>9 DEF NextWords

(* A context keeps its watch while its port and its record stay, its signals
   are only added to, and its list stays empty or it was woken already. *)
LEMMA WatchKept ==
    ASSUME NEW t \in Task, WatchedWell(t), wait'[t] = wait[t], sig[t] \subseteq sig'[t],
           port'[wait[t].on] = port[wait[t].on], wait[t].on \in Port,
           next'[HeadOf(wait[t].on)] = next[HeadOf(wait[t].on)] \/ Arrived(t)' # {}
    PROVE  WatchedWell(t)'
<1>1. wait[t].on \in Live' /\ Owner(wait[t].on)' = Owner(wait[t].on)
  BY DEF WatchedWell, Live, Owner
<1>2. Empty(wait[t].on) /\ next'[HeadOf(wait[t].on)] = next[HeadOf(wait[t].on)]
        => Empty(wait[t].on)'
  BY DEF Empty, First
<1>3. Arrived(t) # {} => Arrived(t)' # {}
  BY DEF Arrived
<1>. QED
  BY <1>1, <1>2, <1>3 DEF WatchedWell

(* A step of a context changes nobody else's ports, and when it signals it
   only adds. *)
LEMMA StepWatches ==
    ASSUME IInv, Woven, WaitInv, NEW t \in Task, Step(t), NEW u \in Task, Watches(u)'
    PROVE  WatchedWell(u)'
<1>. DEFINE o == wait[u].on
<1>1. wait \in [Task -> [mode : {"no", "looping", "parked", "done"},
                         mask : SUBSET Bits, on : Port \cup {NoPort}]]
  BY DEF IInv, TypeOK
<1>2. wait[t].mode = "no"
  BY DEF Step, CreateMsgPort, DeleteMsgPort, AddPort, RemPort, AllocSignal, FreeSignal, PutMsg,
         GetMsg, ReplyMsg, Signal, Wait, WaitPort, Finish, ObtainSemaphore, ReleaseSemaphore,
         Call, Executing
<1>3. ASSUME wait'[u] = wait[u]
      PROVE  /\ u # t /\ WatchedWell(u)
             /\ o \in Port /\ o \in Live /\ Owner(o) = u /\ HeadOf(o) \in Heads
             /\ \A p \in Port : p # o => HeadOf(p) # HeadOf(o)
  <2>1. Watches(u) /\ o # NoPort
    BY <1>3 DEF Watches
  <2>2. u # t /\ WatchedWell(u) /\ o \in Port
    BY <1>1, <1>2, <2>1 DEF Watches, WaitInv
  <2>. QED
    BY <2>2, NodesApart DEF WatchedWell, Heads
<1>4. next \in NextWords /\ sig \in [Task -> SUBSET Bits]
      /\ port \in [Port -> [live : BOOLEAN, task : Task \cup {Nobody}, bit : 0 .. NBits]]
  BY DEF IInv, TypeOK, NextWords
<1>5. CASE CreateMsgPort(t)
  <2>1. UNCHANGED <<wait, sig>>
    BY <1>5 DEF CreateMsgPort
  <2>2. PICK p \in Port :
          /\ port[p].task = Nobody
          /\ \/ UNCHANGED <<memory, port>>
             \/ \E bit \in FreeBits(t) :
                  /\ port' = [port EXCEPT ![p] = [live |-> TRUE, task |-> t, bit |-> bit]]
                  /\ next' = NewList(next, p)
    BY <1>5 DEF CreateMsgPort
  <2>3. p # o
    BY <1>3, <2>1, <2>2, TaskAssumption DEF Owner, Nobody
  <2>4. port'[o] = port[o] /\ next'[HeadOf(o)] = next[HeadOf(o)]
    BY <1>3, <1>4, <2>1, <2>2, <2>3 DEF NewList, memory, NextWords
  <2>. QED
    BY <1>3, <2>1, <2>4, WatchKept
<1>6. CASE \E p \in Port : DeleteMsgPort(t, p) \/ AddPort(t, p) \/ GetMsg(t, p)
  <2>1. PICK p \in Port : DeleteMsgPort(t, p) \/ AddPort(t, p) \/ GetMsg(t, p)
    BY <1>6
  <2>2. /\ UNCHANGED <<wait, sig>> /\ Owner(p) = t
        /\ port' = port \/ port' = [port EXCEPT ![p].live = FALSE]
        /\ next' = next \/ next' = NewList(next, p)
           \/ next' = [next EXCEPT ![HeadOf(p)] = next[First(p)]]
    BY <2>1 DEF DeleteMsgPort, AddPort, GetMsg, Unlink, memory
  <2>3. p # o
    BY <1>3, <2>2
  <2>4. port'[o] = port[o] /\ next'[HeadOf(o)] = next[HeadOf(o)]
    BY <1>3, <1>4, <2>2, <2>3 DEF NewList, NextWords
  <2>. QED
    BY <1>3, <2>2, <2>4, WatchKept
<1>7. CASE \/ \E p \in Port, m \in Message : PutMsg(t, p, m)
           \/ \E m \in Message : ReplyMsg(t, m)
  <2>1. PICK p \in Live, m \in Message : Deliver(p, m) /\ UNCHANGED <<wait, port>>
    BY <1>7 DEF PutMsg, ReplyMsg, IInv, RepliesLive
  <2>2. WatchedWell(u) /\ o \in Port /\ o \in Live /\ Owner(o) = u
    BY <1>3, <2>1
  <2>3. p \in Port /\ Owner(p) \in Task /\ port[p].bit \in Bits
    BY PortBitIsBit
  <2>4. sig' = [sig EXCEPT ![Owner(p)] = sig[Owner(p)] \cup {port[p].bit}]
    BY <2>1 DEF Deliver, Announced
  <2>5. sig[u] \subseteq sig'[u]
    BY <1>4, <2>3, <2>4
  <2>6. CASE p # o
    <3>1. next'[HeadOf(o)] = next[HeadOf(o)]
      BY <2>1, <2>2, <2>6, DeliverElsewhere
    <3>. QED
      BY <2>1, <2>2, <2>5, <3>1, WatchKept
  <2>7. CASE p = o
    <3>1. port[p].bit \in sig'[u] /\ wait[u].mask = {port[p].bit} /\ wait'[u] = wait[u]
      BY <1>4, <2>1, <2>2, <2>3, <2>4, <2>7 DEF WatchedWell
    <3>2. Arrived(u)' # {}
      BY <3>1 DEF Arrived
    <3>. QED
      BY <2>1, <2>2, <2>5, <3>2, WatchKept
  <2>. QED
    BY <2>6, <2>7
<1>8. CASE \/ AllocSignal(t) \/ ObtainSemaphore(t) \/ ReleaseSemaphore(t)
           \/ \E p \in Port : RemPort(t, p)
           \/ \E b \in Bits : FreeSignal(t, b) \/ \E to \in Task : Signal(t, to, b)
  <2>1. UNCHANGED <<next, port, wait>> /\ sig[u] \subseteq sig'[u]
    BY <1>4, <1>8 DEF AllocSignal, ObtainSemaphore, ReleaseSemaphore, RemPort, FreeSignal, Signal,
                      memory
  <2>. QED
    BY <1>3, <2>1, WatchKept
<1>9. CASE u # t /\ (Finish(t) \/ (\E mask \in SUBSET alloc[t] \ {{}} : Wait(t, mask))
                               \/ (\E p \in Port : WaitPort(t, p)))
  <2>1. UNCHANGED <<next, port>> /\ wait'[u] = wait[u] /\ sig'[u] = sig[u]
    BY <1>1, <1>4, <1>9 DEF Finish, Wait, WaitPort, memory
  <2>. QED
    BY <1>3, <2>1, WatchKept
<1>10. CASE u = t /\ (Finish(t) \/ (\E mask \in SUBSET alloc[t] \ {{}} : Wait(t, mask)))
  <2>1. ~ Watches(u)'
    BY <1>1, <1>2, <1>10 DEF Finish, Wait, Waiting, Watches
  <2>. QED
    BY <2>1
<1>11. CASE u = t /\ \E p \in Port : WaitPort(t, p)
  <2>1. PICK p \in Port : WaitPort(t, p)
    BY <1>11
  <2>2. p \in Live /\ Owner(p) = t /\ UNCHANGED <<next, port>>
    BY <2>1 DEF WaitPort, memory
  <2>3. wait' # wait
    BY <1>2, <1>11 DEF Watches
  <2>4. Empty(p) /\ wait' = [wait EXCEPT ![t] = Waiting(t, {port[p].bit}, p)]
    BY <2>1, <2>3 DEF WaitPort
  <2>5. wait'[u].on = p /\ wait'[u].mask = {port[p].bit}
    BY <1>1, <1>11, <2>4 DEF Waiting
  <2>6. p \in Live' /\ Owner(p)' = u /\ port'[p] = port[p] /\ Empty(p)'
    BY <1>11, <2>2, <2>4 DEF Live, Owner, Empty, First
  <2>. QED
    BY <2>5, <2>6 DEF WatchedWell
<1>12. QED
  BY <1>5, <1>6, <1>7, <1>8, <1>9, <1>10, <1>11 DEF Step

(* What the scheduler does to a waiting context ends its wait, or its list is
   still empty. *)
LEMMA SchedulerWatches ==
    ASSUME IInv, WaitInv, Scheduler, NEW u \in Task, Watches(u)'
    PROVE  WatchedWell(u)'
<1>1. wait \in [Task -> [mode : {"no", "looping", "parked", "done"},
                         mask : SUBSET Bits, on : Port \cup {NoPort}]]
      /\ sig \in [Task -> SUBSET Bits]
  BY DEF IInv, TypeOK
<1>2. UNCHANGED <<next, port>>
  BY DEF Scheduler, LoopReturns, LoopFails, Resume, memory
<1>3. ASSUME wait'[u] = wait[u] PROVE WatchedWell(u) /\ wait[u].on \in Port
  BY <1>1, <1>3 DEF Watches, WaitInv
<1>4. CASE LoopFails
  <2>1. UNCHANGED <<wait, sig>>
    BY <1>4 DEF LoopFails
  <2>. QED
    BY <1>2, <1>3, <2>1, WatchKept
<1>5. ASSUME NEW t \in Task, Resume(t) PROVE WatchedWell(u)'
  <2>1. CASE u = t
    BY <1>1, <1>5, <2>1 DEF Resume, NotWaiting, Watches
  <2>2. CASE u # t
    <3>1. wait'[u] = wait[u] /\ sig'[u] = sig[u]
      BY <1>1, <1>5, <2>2 DEF Resume, Taken
    <3>. QED
      BY <1>2, <1>3, <3>1, WatchKept
  <2>. QED
    BY <2>1, <2>2
<1>6. CASE LoopReturns
  <2>1. CASE u # 0
    <3>1. wait'[u] = wait[u] /\ sig'[u] = sig[u]
      BY <1>1, <1>6, <2>1 DEF LoopReturns, Taken
    <3>. QED
      BY <1>2, <1>3, <3>1, WatchKept
  <2>2. CASE u = 0 /\ wait' = [wait EXCEPT ![0] = NotWaiting]
    BY <1>1, <2>2, TaskAssumption DEF NotWaiting, Watches
  <2>3. CASE u = 0 /\ wait' = wait /\ wait[0].on # NoPort /\ Empty(wait[0].on)
    <3>1. WatchedWell(u)
      BY <1>3, <2>3
    <3>2. Empty(wait[u].on)'
      BY <1>2, <2>3 DEF Empty, First
    <3>3. Live' = Live /\ \A p : Owner(p)' = Owner(p)
      BY <1>2 DEF Live, Owner
    <3>. QED
      BY <1>2, <2>3, <3>1, <3>2, <3>3 DEF WatchedWell
  <2>. QED
    BY <1>6, <2>1, <2>2, <2>3 DEF LoopReturns
<1>. QED
  BY <1>4, <1>5, <1>6 DEF Scheduler

(* No wakeup is lost: whoever is in WaitPort while its port has a message has
   the port's signal pending.  Only PutMsg and ReplyMsg on that very port make
   its list non-empty, and they signal; the owner, who alone takes messages
   and uses signals up, is waiting. *)
THEOREM NoWakeupLost == Spec => []WaiterCanWake
<1>1. Init => WaitInv
  BY DEF Init, NotWaiting, WaitInv, Watches
<1>2. IInv /\ Woven /\ WaitInv /\ [Next]_vars => WaitInv'
  <2>. SUFFICES ASSUME IInv, Woven, WaitInv, [Next]_vars PROVE WaitInv'
    OBVIOUS
  <2>1. CASE UNCHANGED vars
    <3>1. \A t : (Watches(t)' <=> Watches(t)) /\ (WatchedWell(t)' <=> WatchedWell(t))
      BY <2>1 DEF vars, Watches, WatchedWell, Live, Owner, Empty, First, Arrived
    <3>. QED
      BY <3>1 DEF WaitInv
  <2>2. CASE Scheduler
    BY <2>2, SchedulerWatches DEF WaitInv
  <2>3. CASE \E t \in Task : Step(t)
    BY <2>3, StepWatches DEF WaitInv
  <2>. QED
    BY <2>1, <2>2, <2>3 DEF Next
<1>3. WaitInv => WaiterCanWake
  BY DEF WaitInv, WaiterCanWake, Watches, WatchedWell
<1>. QED
  BY <1>1, <1>2, <1>3, WovenAlways, PortsInvariant, PTL DEF Spec
=============================================================================
