----------------------------- MODULE HostedExec -----------------------------
(***************************************************************************)
(* The hosted exec prototypes: the preemptive kernel of exec.c and kern.c, *)
(* Wait and Signal (signal.c), message ports (msgport.c), a device over a  *)
(* host file (device.c), and the allocator (mem.c) that tasks share under  *)
(* Forbid (kern.c).  Each prototype is one process with one thread; its    *)
(* tasks are switched by the SIGALRM handler, which can come between any   *)
(* two steps here.  Each prototype has its own copy of the same kernel: a  *)
(* cast says which program every task of a prototype runs, and its         *)
(* priority.  Memory is counted in units of MEMCHUNK_TOTAL.                *)
(***************************************************************************)
EXTENDS Integers, Sequences, FiniteSets

CONSTANTS
  Task, Boot,  (* the tasks; the main thread, which never queues           *)
  None, Null,  (* no block, no message; the answer of a failed AllocMem    *)
  Casts,       (* the prototypes                                           *)
  Val, Zero,   (* what a file or a buffer holds; a cleared buffer          *)
  Heap,        (* the number of units of the region                        *)
  Sizes        (* the sizes asked for, in units                            *)

VARIABLES
  cast,
  this, state, ready, waiting,  (* ThisTask, tc_State, TaskReady, TaskWait *)
  on,                           (* sched_on                                *)
  forbid, reg,   (* forbid_cnt, and what Forbid has loaded of it           *)
  recvd, sigwait,               (* tc_SigRecvd, tc_SigWait                 *)
  pos, at,       (* where a task is in its program, and in a call of exec  *)
  port, cur,     (* mp_MsgList; the message the device task has in hand    *)
  io, file,      (* each client's request; the host file                   *)
  mem, free,     (* the region and mh_First; mh_Free                       *)
  p, loc         (* a worker's block; its local variables in the allocator *)

kernel  == <<this, state, ready, waiting, on>>
signals == <<recvd, sigwait>>
where   == <<pos, at>>
device  == <<port, cur, io, file>>
heap    == <<mem, free, p, loc>>
vars    == <<cast, kernel, forbid, reg, signals, where, device, heap>>

Role == {"producer", "consumer", "device", "client", "worker", "busy"}
(* The tasks of one prototype, what each runs, its priority, and TaskReady
   when main has spawned them. *)
Cast == [role : [Task -> Role], pri : [Task -> Int], queue : Seq(Task)]
InOrder(c, list) ==
    \A j, k \in 1 .. Len(list) :
        j < k => list[j] # list[k] /\ c.pri[list[j]] >= c.pri[list[k]]
Has(c, r) == \E t \in Task : c.role[t] = r
ASSUME CastAssumption ==
    /\ Casts \subseteq Cast
    /\ \A c \in Casts : /\ InOrder(c, c.queue)
                        /\ Task = {c.queue[k] : k \in 1 .. Len(c.queue)}
                        /\ Has(c, "producer") <=> Has(c, "consumer")
                        /\ Has(c, "client") => Has(c, "device")
                        /\ \A s, t \in Task : c.role[s] = "device" /\ c.role[t] = "device"
                                              => s = t
ASSUME NameAssumption == Boot \notin Task /\ None \notin Task /\ Zero \in Val
ASSUME SizeAssumption == Heap \in Nat \ {0} /\ Sizes \subseteq Nat \ {0}
(* An answer that is no block is no address. *)
ASSUME BlockAssumption == {None, Null} \cap [addr : Nat, size : Nat] = {}

Unit == 0 .. Heap - 1
MhFirst == -1            (* &mh_First, whose mc_Next is the first chunk    *)
Nil  == Heap             (* the end of the list, above every address       *)

Is(t, r) == cast.role[t] = r
The(r) == CHOOSE t \in Task : Is(t, r)

-----------------------------------------------------------------------------
(* The programs, as the calls of exec each position makes                  *)

Starts(r) == CASE r = "producer" -> "sendData" [] r = "consumer" -> "waitData"
               [] r = "device" -> "look" [] r = "client" -> "fill"
               [] r = "worker" -> "alloc" [] OTHER -> "busy"
Posts == {"sendData", "sendAck", "ring"}
Waits == {"waitData", "waitAck", "wait"}
Exec  == Posts \cup Waits \cup {"put", "reply", "fetch", "alloc", "free"}

Bit(t) == CASE pos[t] = "sendData" -> "data" [] pos[t] = "sendAck" -> "ack"
            [] OTHER -> IF Is(t, "client") THEN "request" ELSE "reply"
Target(t) == CASE pos[t] = "sendData" -> The("consumer") [] pos[t] = "sendAck" -> The("producer")
               [] OTHER -> IF Is(t, "client") THEN The("device") ELSE cur
SigSet(t) == CASE pos[t] = "waitData" -> {"data"} [] pos[t] = "waitAck" -> {"ack"}
               [] OTHER -> IF Is(t, "client") THEN {"reply"} ELSE {"request"}

(* Where the program goes on when a call of exec returns. *)
After(t) ==
    CASE pos[t] = "sendData" -> "waitAck" [] pos[t] = "waitAck" -> "sendData"
      [] pos[t] = "waitData" -> "sendAck" [] pos[t] = "sendAck" -> "waitData"
      [] pos[t] = "wait" -> "look"
      [] pos[t] = "put" -> "ring" [] pos[t] = "reply" -> "ring"
      [] pos[t] = "ring" -> IF Is(t, "client") THEN "look" ELSE "fetch"
      [] pos[t] = "fetch" -> IF Is(t, "client") THEN "check"
                             ELSE IF cur = None THEN "look" ELSE "serve"
      [] pos[t] = "alloc" -> IF p[t] = Null THEN "pause" ELSE "use"
      [] pos[t] = "free" -> "alloc"

-----------------------------------------------------------------------------
(* The kernel                                                              *)

(* Behind all nodes of at least its priority, before the first lower one.
   Mutant: before those of its own priority. *)
KeepsHigher(list, t, k) == \A j \in 1 .. k : cast.pri[list[j]] > cast.pri[t]
Keeps(list, t, k) == \A j \in 1 .. k : cast.pri[list[j]] >= cast.pri[t]
Enqueue(list, t) ==
    [k \in 1 .. Len(list) + 1 |->
        IF k <= Len(list) /\ Keeps(list, t, k) THEN list[k]
        ELSE IF k = 1 \/ Keeps(list, t, k - 1) THEN t ELSE list[k - 1]]
Remove(list, t) ==
    LET i == CHOOSE k \in 1 .. Len(list) : list[k] = t
    IN [k \in 1 .. Len(list) - 1 |-> IF k < i THEN list[k] ELSE list[k + 1]]

(* on_alarm when dispatching is not disabled: the running task goes to the
   end of its priority unless it waits, and the head is dispatched.  The
   main thread is not queued.  Mutant: a task that waits is queued too. *)
SwitchWaiting == IF this = Boot THEN ready ELSE Enqueue(ready, this)
Switch == IF this # Boot /\ state[this] = "run" THEN Enqueue(ready, this) ELSE ready
Tick ==
    /\ on /\ forbid = 0 /\ ready # <<>>
    /\ this' = Switch[1] /\ ready' = SubSeq(Switch, 2, Len(Switch))
    /\ state' = [state EXCEPT ![this] = IF @ = "run" THEN "ready" ELSE @,
                              ![this'] = "run"]
    /\ UNCHANGED <<cast, waiting, on, forbid, reg, signals, where, device, heap>>

(* TICK_LIMIT: the main thread takes it back. *)
Shutdown ==
    /\ on /\ forbid = 0
    /\ on' = FALSE /\ this' = Boot /\ state' = [state EXCEPT ![Boot] = "run"]
    /\ UNCHANGED <<cast, ready, waiting, forbid, reg, signals, where, device, heap>>

Running(t) == on /\ this = t
Steps(t, from, to) == Running(t) /\ at[t] = from /\ at' = [at EXCEPT ![t] = to]

(* Forbid is a load and a store; ticks may come between.  A task that went to
   sleep in Wait spins until a tick takes the thread from it; dispatched
   again, it finds that it runs, and calls Forbid. *)
ForbidLoad(t) ==
    /\ \/ pos[t] \in Exec /\ Steps(t, "call", "store")
       \/ state[t] # "wait" /\ Steps(t, "spin", "restore")
    /\ reg' = [reg EXCEPT ![t] = forbid]
    /\ UNCHANGED <<cast, kernel, forbid, signals, pos, device, heap>>
(* The register is dead after the store.  Mutant: the count stays. *)
ForbidStoreNot(t) ==
    /\ Steps(t, "store", "in") \/ Steps(t, "restore", "take")
    /\ UNCHANGED <<cast, kernel, forbid, reg, signals, pos, device, heap>>
ForbidStore(t) ==
    /\ Steps(t, "store", "in") \/ Steps(t, "restore", "take")
    /\ forbid' = reg[t] + 1 /\ reg' = [reg EXCEPT ![t] = 0]
    /\ UNCHANGED <<cast, kernel, signals, pos, device, heap>>
(* Mutant: the Permit at the end of a call is missing. *)
PermitParked(t) ==
    /\ \/ Steps(t, "out", "call") /\ pos' = [pos EXCEPT ![t] = After(t)]
       \/ Steps(t, "park", "spin") /\ UNCHANGED pos
    /\ forbid' = IF at[t] = "park" THEN 0 ELSE forbid
    /\ UNCHANGED <<cast, kernel, reg, signals, device, heap>>
Permit(t) ==
    /\ \/ Steps(t, "out", "call") /\ pos' = [pos EXCEPT ![t] = After(t)]
       \/ Steps(t, "park", "spin") /\ UNCHANGED pos
    /\ forbid' = IF forbid > 0 THEN forbid - 1 ELSE 0
    /\ UNCHANGED <<cast, kernel, reg, signals, device, heap>>

-----------------------------------------------------------------------------
(* Wait and Signal                                                         *)

(* Mutant: Wait sleeps without a look at what has come. *)
TestNot(t) ==
    /\ pos[t] \in Waits /\ Steps(t, "in", "block")
    /\ UNCHANGED <<cast, kernel, forbid, reg, signals, pos, device, heap>>
Test(t) ==
    /\ pos[t] \in Waits
    /\ Steps(t, "in", IF recvd[t] \cap SigSet(t) = {} THEN "block" ELSE "take")
    /\ UNCHANGED <<cast, kernel, forbid, reg, signals, pos, device, heap>>
Block(t) ==
    /\ Steps(t, "block", "park")
    /\ sigwait' = [sigwait EXCEPT ![t] = SigSet(t)]
    /\ state' = [state EXCEPT ![t] = "wait"] /\ waiting' = Enqueue(waiting, t)
    /\ UNCHANGED <<cast, this, ready, on, forbid, reg, recvd, pos, device, heap>>
Take(t) ==
    /\ Steps(t, "take", "out")
    /\ recvd' = [recvd EXCEPT ![t] = @ \ SigSet(t)]
    /\ UNCHANGED <<cast, kernel, forbid, reg, sigwait, pos, device, heap>>

Post(t) ==
    /\ pos[t] \in Posts /\ Steps(t, "in", "wake")
    /\ recvd' = [recvd EXCEPT ![Target(t)] = @ \cup {Bit(t)}]
    /\ UNCHANGED <<cast, kernel, forbid, reg, sigwait, pos, device, heap>>
Wake(t) ==
    /\ Steps(t, "wake", "out")
    /\ LET s == Target(t)
       IN IF recvd[s] \cap sigwait[s] # {} /\ state[s] = "wait"
          THEN /\ waiting' = Remove(waiting, s)
               /\ state' = [state EXCEPT ![s] = "ready"]
               /\ ready' = Enqueue(ready, s)
          ELSE UNCHANGED <<state, waiting, ready>>
    /\ UNCHANGED <<cast, this, on, forbid, reg, signals, pos, device, heap>>

-----------------------------------------------------------------------------
(* Message ports.  A message is named by the client whose request it is;   *)
(* that client's port is its mn_ReplyPort.                                 *)

AddTail(t) ==
    /\ pos[t] \in {"put", "reply"} /\ Steps(t, "in", "out")
    /\ LET m == IF pos[t] = "put" THEN t ELSE cur
           to == IF pos[t] = "put" THEN The("device") ELSE cur
       IN port' = [port EXCEPT ![to] = Append(@, m)]
    /\ UNCHANGED <<cast, kernel, forbid, reg, signals, pos, cur, io, file, heap>>
(* A client does not look at what GetMsg returns. *)
RemHead(t) ==
    /\ pos[t] = "fetch" /\ Steps(t, "in", "out")
    /\ port' = [port EXCEPT ![t] = IF @ = <<>> THEN @ ELSE Tail(@)]
    /\ IF Is(t, "client") THEN UNCHANGED cur
       ELSE cur' = IF port[t] = <<>> THEN None ELSE port[t][1]
    /\ UNCHANGED <<cast, kernel, forbid, reg, signals, pos, io, file, heap>>

Goes(t, from, to) == /\ Running(t) /\ pos[t] = from
                     /\ pos' = [pos EXCEPT ![t] = to]
                     /\ UNCHANGED <<cast, kernel, forbid, reg, signals, at>>
(* WaitPort tests without Forbid, and again after each Wait.  Mutant: what
   wakes a task is taken for a message. *)
LookOnce(t) ==
    /\ Goes(t, "look", IF port[t] = <<>> /\ recvd[t] = {} THEN "wait" ELSE "fetch")
    /\ UNCHANGED <<device, heap>>
Look(t) ==
    /\ Goes(t, "look", IF port[t] = <<>> THEN "wait" ELSE "fetch")
    /\ UNCHANGED <<device, heap>>

-----------------------------------------------------------------------------
(* The device and its client                                               *)

(* A round writes a pattern, and when that succeeds reads it back. *)
Fill(t) ==
    /\ Goes(t, "fill", "put")
    /\ IF io[t].cmd = "write" /\ ~io[t].err
       THEN io' = [io EXCEPT ![t] = [cmd |-> "read", val |-> Zero, err |-> FALSE]]
       ELSE \E v \in Val \ {Zero} :
              io' = [io EXCEPT ![t] = [cmd |-> "write", val |-> v, err |-> FALSE]]
    /\ UNCHANGED <<port, cur, file, heap>>
(* pread or pwrite; a short transfer is an error. *)
Serve(t) ==
    /\ Goes(t, "serve", "reply")
    /\ \/ /\ io[cur].cmd = "write"
          /\ file' = io[cur].val /\ io' = [io EXCEPT ![cur].err = FALSE]
       \/ /\ io[cur].cmd = "read" /\ UNCHANGED file
          /\ io' = [io EXCEPT ![cur].val = file, ![cur].err = FALSE]
       \/ /\ io[cur].cmd = "write" /\ file' \in Val
          /\ io' = [io EXCEPT ![cur].err = TRUE]
       \/ /\ io[cur].cmd = "read" /\ UNCHANGED file
          /\ \E v \in Val : io' = [io EXCEPT ![cur].val = v, ![cur].err = TRUE]
    /\ UNCHANGED <<port, cur, heap>>
Check(t) == Goes(t, "check", "fill") /\ UNCHANGED <<device, heap>>

-----------------------------------------------------------------------------
(* The allocator.  Between Forbid and Permit it writes the list and the    *)
(* headers one after the other; here one step is one of those writes.      *)

(* &mh_First, and each chunk after it; Place is where the first chunk is
   that the search stops at. *)
Chain[n \in 0 .. Heap + 1] ==
    IF n = 0 THEN MhFirst
    ELSE LET c == Chain[n - 1] IN IF c = Nil THEN Nil ELSE mem[c].next
Place(S) == CHOOSE n \in S : \A m \in S : n <= m
Covers(a, n) == a .. a + n - 1

InHeap(t) == UNCHANGED <<cast, kernel, forbid, reg, signals, pos, device>>

(* First fit; with no chunk that is large enough the answer is NULL. *)
Search(t) ==
    /\ pos[t] = "alloc"
    /\ \E size \in Sizes :
         LET fits == {n \in 0 .. Heap : /\ Chain[n + 1] # Nil
                                        /\ mem[Chain[n + 1]].bytes >= size}
             c == Chain[Place(fits) + 1]
         IN IF free < size \/ fits = {}
            THEN /\ Steps(t, "in", "out") /\ UNCHANGED loc
                 /\ p' = [p EXCEPT ![t] = Null]
            ELSE /\ Steps(t, "in", "carve") /\ UNCHANGED p
                 /\ loc' = [loc EXCEPT ![t] = [node |-> c, link |-> Chain[Place(fits)],
                                               end |-> c + size]]
    /\ InHeap(t) /\ UNCHANGED <<mem, free>>
Exact(t) == loc[t].node + mem[loc[t].node].bytes = loc[t].end
Carve(t) ==
    /\ Steps(t, "carve", IF Exact(t) THEN "account" ELSE "rest")
    /\ mem' = [mem EXCEPT ![loc[t].link].next =
                 IF Exact(t) THEN mem[loc[t].node].next ELSE loc[t].end]
    /\ InHeap(t) /\ UNCHANGED <<free, p, loc>>
Rest(t) ==
    /\ Steps(t, "rest", "account")
    /\ mem' = [mem EXCEPT ![loc[t].end] =
                 [mem[loc[t].node] EXCEPT !.bytes = @ - (loc[t].end - loc[t].node)]]
    /\ InHeap(t) /\ UNCHANGED <<free, p, loc>>

Data(t) == [next |-> Nil, bytes |-> 0, mark |-> t]
Write(t, u) == [m \in DOMAIN mem |-> IF m \in u THEN Data(t) ELSE mem[m]]
Idle == [node |-> Nil, link |-> Nil, end |-> Nil]
(* The block's bytes are counted off, and cleared. *)
Account(t) ==
    LET size == loc[t].end - loc[t].node
    IN /\ Steps(t, "account", "out")
       /\ free' = free - size /\ mem' = Write(None, Covers(loc[t].node, size))
       /\ p' = [p EXCEPT ![t] = [addr |-> loc[t].node, size |-> size]]
       /\ loc' = [loc EXCEPT ![t] = Idle] /\ InHeap(t)

(* The first chunk above the block; one that overlaps it, or the one before
   it, means that the block is free already, and nothing is done. *)
Insert(t) ==
    LET b   == p[t].addr
        end == p[t].addr + p[t].size
        n   == Place({m \in 0 .. Heap : Chain[m + 1] >= b})
        p1  == Chain[n]
        p2  == Chain[n + 1]
        twice == end > p2 \/ (p1 # MhFirst /\ p1 + mem[p1].bytes > b)
        backward == p1 # MhFirst /\ p1 + mem[p1].bytes = b
    IN /\ pos[t] = "free" /\ Steps(t, "in", IF twice THEN "out" ELSE "close")
       /\ IF twice
          THEN p' = [p EXCEPT ![t] = None] /\ UNCHANGED <<mem, loc>>
          ELSE /\ UNCHANGED p
               /\ loc' = [loc EXCEPT ![t] = [node |-> IF backward THEN p1 ELSE b,
                                             link |-> p2, end |-> end]]
               /\ mem' = IF backward THEN mem ELSE [mem EXCEPT ![p1].next = b]
       /\ InHeap(t) /\ UNCHANGED free
(* A free chunk: its header, and nothing that was in it before. *)
Chunk(node, next, end) ==
    [Write(None, Covers(node, end - node))
     EXCEPT ![node] = [next |-> next, bytes |-> end - node, mark |-> None]]
(* The chunk above is taken in when it is adjacent.  Mutant: it is not
   looked at. *)
CloseBackward(t) ==
    /\ Steps(t, "close", "out")
    /\ mem' = Chunk(loc[t].node, loc[t].link, loc[t].end)
    /\ free' = free + p[t].size /\ p' = [p EXCEPT ![t] = None]
    /\ loc' = [loc EXCEPT ![t] = Idle] /\ InHeap(t)
Close(t) ==
    LET p2 == loc[t].link
        adjacent == loc[t].end = p2 /\ p2 # Nil
        p4 == IF adjacent THEN p2 + mem[p2].bytes ELSE loc[t].end
    IN /\ Steps(t, "close", "out")
       /\ mem' = Chunk(loc[t].node, IF adjacent THEN mem[p2].next ELSE p2, p4)
       /\ free' = free + p[t].size /\ p' = [p EXCEPT ![t] = None]
       /\ loc' = [loc EXCEPT ![t] = Idle] /\ InHeap(t)

(* The worker writes its mark over the whole block, which it will verify and
   free; with no block it goes on to the next round. *)
Use(t) ==
    /\ Goes(t, "use", "free")
    /\ mem' = Write(t, Covers(p[t].addr, p[t].size))
    /\ UNCHANGED <<device, free, p, loc>>
Pause(t) ==
    /\ Goes(t, "pause", "alloc")
    /\ p' = [p EXCEPT ![t] = None]
    /\ UNCHANGED <<device, mem, free, loc>>

-----------------------------------------------------------------------------
(* The specification                                                       *)

(* main(), up to the tick that gives each task its first context. *)
Init ==
    /\ cast \in Casts
    /\ this = Boot /\ on = TRUE
    /\ state = [t \in Task \cup {Boot} |-> IF t = Boot THEN "run" ELSE "ready"]
    /\ ready = cast.queue /\ waiting = <<>>
    /\ forbid = 0 /\ reg = [t \in Task |-> 0]
    /\ recvd = [t \in Task |-> {}] /\ sigwait = [t \in Task |-> {}]
    /\ pos = [t \in Task |-> Starts(cast.role[t])] /\ at = [t \in Task |-> "call"]
    /\ port = [t \in Task |-> <<>>] /\ cur = None /\ file = Zero
    /\ io = [t \in Task |-> [cmd |-> "none", val |-> Zero, err |-> FALSE]]
    /\ mem = [u \in Unit \cup {MhFirst} |->
                [next |-> IF u = MhFirst THEN 0 ELSE Nil,
                 bytes |-> IF u = 0 THEN Heap ELSE 0, mark |-> None]]
    /\ free = Heap
    /\ p = [t \in Task |-> None] /\ loc = [t \in Task |-> Idle]

Calls(t)     == ForbidLoad(t) \/ ForbidStore(t) \/ Permit(t)
Signalling(t) == Test(t) \/ Block(t) \/ Take(t) \/ Post(t) \/ Wake(t)
Messages(t)  == AddTail(t) \/ RemHead(t) \/ Look(t)
Requests(t)  == Fill(t) \/ Serve(t) \/ Check(t)
Memory(t)    == \/ Search(t) \/ Carve(t) \/ Rest(t) \/ Account(t)
                \/ Insert(t) \/ Close(t) \/ Use(t) \/ Pause(t)
Step(t) == Calls(t) \/ Signalling(t) \/ Messages(t) \/ Requests(t) \/ Memory(t)
Next == Tick \/ Shutdown \/ \E t \in Task : Step(t)
Spec == Init /\ [][Next]_vars

(* The interval timer goes on, and a critical section is over long before the
   next alarm: a tick that finds forbid_cnt at 0 always comes.  Between two
   ticks a task that runs gets somewhere. *)
FairSpec == Spec /\ SF_vars(Tick) /\ \A t \in Task : SF_vars(Step(t))

-----------------------------------------------------------------------------
(* Properties                                                              *)

Program(r) ==
    CASE r = "producer" -> {"sendData", "waitAck"}
      [] r = "consumer" -> {"waitData", "sendAck"}
      [] r = "device"   -> {"look", "wait", "fetch", "serve", "reply", "ring"}
      [] r = "client"   -> {"fill", "put", "ring", "look", "wait", "fetch", "check"}
      [] r = "worker"   -> {"alloc", "use", "free", "pause"}
      [] OTHER          -> {"busy"}
Stage   == {"call", "store", "in", "block", "park", "spin", "restore", "take",
            "wake", "out", "carve", "rest", "account", "close"}
SigBit  == {"data", "ack", "request", "reply"}
KernelType ==
    /\ cast \in Casts
    /\ this \in Task \cup {Boot} /\ on \in BOOLEAN
    /\ state \in [Task \cup {Boot} -> {"run", "ready", "wait"}]
    /\ ready \in Seq(Task) /\ waiting \in Seq(Task)
    /\ forbid \in 0 .. 1 /\ reg \in [Task -> {0}]
    /\ recvd \in [Task -> SUBSET SigBit] /\ sigwait \in [Task -> SUBSET SigBit]
ProgramType ==
    /\ at \in [Task -> Stage] /\ pos \in [Task -> UNION {Program(r) : r \in Role}]
    /\ \A t \in Task : pos[t] \in Program(cast.role[t])
DeviceType ==
    /\ port \in [Task -> Seq(Task)] /\ cur \in Task \cup {None} /\ file \in Val
    /\ io \in [Task -> [cmd : {"none", "read", "write"}, val : Val, err : BOOLEAN]]
(* Forbid never nests, and what it has loaded of the count is still true when
   it stores.  The heap's variables are the subject of HeapWhole. *)
TypeOK == KernelType /\ ProgramType /\ DeviceType

In(list) == {list[k] : k \in 1 .. Len(list)}

(* Every task is on the list of its state and on no other, once, behind all
   of higher priority; the task that is in state "run" is the one that has
   the thread. *)
QueuedOnce ==
    /\ InOrder(cast, ready) /\ InOrder(cast, waiting)
    /\ In(ready) = {t \in Task : state[t] = "ready"}
    /\ In(waiting) = {t \in Task : state[t] = "wait"}
    /\ on => \A t \in Task : state[t] = "run" => this = t

(* Outside Forbid no task waits for a signal that it has received: one that
   comes before Wait, or between its test and its sleep, is not missed. *)
NoLostWakeup ==
    forbid = 0 => \A t \in Task : state[t] = "wait" => recvd[t] \cap sigwait[t] = {}

Piece  == [addr : Unit, size : 1 .. Heap]
Chunks == {Chain[n] : n \in 1 .. Heap + 1} \ {Nil}
Blocks == {t \in Task : p[t] \in Piece}
Extent(t) == Covers(p[t].addr, p[t].size)

(* Outside Forbid the free list is in address order with no two adjacent
   chunks, every unit belongs to one free chunk or to one block, mh_Free is
   the sum of the chunks, and a block holds what its owner wrote. *)
HeapWhole ==
    forbid = 0 =>
    /\ \A c \in Chunks : LET end == c + mem[c].bytes
                         IN c < end /\ (end < mem[c].next \/ (end = Heap /\ mem[c].next = Nil))
    /\ \A u \in Unit :
         LET in == {c \in Chunks : u \in Covers(c, mem[c].bytes)}
             of == {t \in Blocks : u \in Extent(t)}
         IN Cardinality(in) + Cardinality(of) = 1
    /\ free = Cardinality(UNION {Covers(c, mem[c].bytes) : c \in Chunks})
    /\ \A t \in Blocks : pos[t] = "free" => \A u \in Extent(t) : mem[u].mark = t

(* AllocMem and FreeMem, whatever interrupts them, are those of one pool:
   a block is given to one task at a time, and NULL only when no run of free
   units is long enough. *)
Pool == INSTANCE HeapPool WITH held <- p
HeapSpec == Pool!Spec

(* A request is asked until the device has performed it. *)
Phase(c) ==
    IF ~Is(c, "client") \/ pos[c] \in {"fill", "check"} THEN "idle"
    ELSE IF \/ pos[c] = "put"
            \/ \E d \in Task : /\ Is(d, "device")
                               /\ \/ c \in In(port[d])
                                  \/ cur = c /\ pos[d] = "serve"
                                  \/ cur = c /\ pos[d] = "fetch" /\ at[d] = "out"
         THEN "asked" ELSE "done"
(* DoIO is one I/O operation: the device performs each request once, after
   it is asked and before DoIO returns, and DoIO returns its result. *)
Device == INSTANCE DeviceIo
          WITH Client <- Task, req <- [c \in Task |-> [phase |-> Phase(c), io |-> io[c]]]
IoSpec == Device!Spec

(* A task that no other outranks runs again, whether it was preempted or
   waits for a signal: turns are shared, and no wait of these programs is
   for ever. *)
EachRuns ==
    \A t \in Task : (on /\ \A s \in Task : cast.pri[s] <= cast.pri[t])
                        ~> (state[t] = "run" \/ ~on)
=============================================================================
