------------------------------ MODULE JitEngine -----------------------------
(***************************************************************************)
(* The 68k to AArch64 translator's engine                                  *)
(* (src/hosted/jit68k/j5d_engine.c): the dispatcher of j5d_run, the block  *)
(* cache, the native blocks with their two entries, tail slots and         *)
(* epilogue, lazy linking, the safe point at each chain entry, stop and    *)
(* poll, nested runs and resumption.  Between an outer entry and an        *)
(* epilogue the guest's registers are in the host's, and struct            *)
(* j5d_m68k_state is out of date; the condition codes go through memory at *)
(* the end of each body.  What a body computes is data (Guest68k).         *)
(* Bounds: Quantum, MaxBlocks, StackMax and NestMax.  The step cap and a   *)
(* failing allocation may strike at any dispatch.                          *)
(***************************************************************************)
EXTENDS Integers, Sequences

CONSTANTS
  Pc, Wild, Reg, Val, Programs, Handler, Return, StackMax, NestMax, (* Guest68k *)
  Quantum,       (* chain_quantum                                          *)
  InitialBlocks, (* J5D_INITIAL_BLOCKS                                     *)
  MaxBlocks      (* J5D_MAX_BLOCKS                                         *)

(* With a quantum of one every block parks before its body. *)
ASSUME QuantumAssumption == Quantum \in Nat /\ Quantum > 1
ASSUME BoundAssumption == /\ InitialBlocks \in Nat \ {0} /\ MaxBlocks \in Nat \ {0}
                          /\ StackMax \in Nat /\ NestMax \in Nat \ {0}

VARIABLES
  code,      (* the guest's instructions                                   *)
  stack,     (* the guest's stack, as far as returns need it               *)
  mem, ccr,  (* struct j5d_m68k_state: D and A registers; condition codes  *)
  live,      (* the registers in host registers                            *)
  at,        (* where the thread is                                        *)
  pc,        (* the dispatcher's pc                                        *)
  cur,       (* the native block executing, an index of the cache          *)
  framed,    (* the outer entry taken saved the floating point registers   *)
  loaded,    (* the chain entry's copy of the budget, less one             *)
  cache, cap,            (* g_cache, cache_cap                             *)
  held,                  (* the block whose epilogue ran: after that, the  *)
                         (* dispatcher's pointer b, an index and an array  *)
  budget, yielded, stop, (* chain_budget, yield_word (Wild: 0), stop_flag  *)
  runs,      (* the active calls of j5d_run, innermost last                *)
  resume     (* resume_initial_sp, or None when it is not valid            *)

guest  == <<code, stack, mem, ccr>>
native == <<live, cur, framed, loaded>>
blocks == <<cache, cap>>
safety == <<budget, yielded, stop>>
calls  == <<runs, resume>>
vars   == <<guest, at, pc, native, blocks, held, safety, calls>>

-----------------------------------------------------------------------------
(* The program that is being run, as Guest68k sees it                      *)

None   == -1
Native == {"load", "store", "body", "tail", "epilogue"}
Parked == yielded # Wild
(* The host's registers outside translated code, and no pointer to a block. *)
Scratch == CHOOSE f \in [Reg -> Val] : TRUE
Nothing == [block |-> 1, cap |-> 0]
Left == live' = Scratch /\ cur' = 1 /\ framed' = FALSE /\ loaded' = 0
GuestPc == IF runs = <<>> THEN IF resume = None THEN Wild ELSE pc
           ELSE IF at \in Native THEN cache[cur].pc
           ELSE IF at = "back" /\ Parked THEN yielded
           ELSE IF at \in {"back", "bridge"} THEN cache[held.block].pc ELSE pc
GuestPhase == IF \/ at \in {"tail", "bridge"}
                 \/ at \in {"epilogue", "back"} /\ ~Parked
              THEN "term" ELSE "body"
GuestRegs == IF at \in Native THEN live ELSE mem
GuestRuns == IF runs = <<>>
             THEN IF resume = None THEN <<>> ELSE <<[base |-> resume, back |-> Wild]>>
             ELSE [i \in 1 .. Len(runs) |-> [base |-> runs[i].base, back |-> runs[i].back]]

G == INSTANCE Guest68k WITH pc <- GuestPc, phase <- GuestPhase,
                            regs <- GuestRegs, runs <- GuestRuns

ASSUME AddressAssumption == Wild \notin Pc /\ Handler \in Pc /\ Return \in Pc
ASSUME ProgramAssumption == Programs \subseteq [Pc -> G!Code]
ASSUME RegisterAssumption == G!RegFile # {}

-----------------------------------------------------------------------------
(* Blocks                                                                  *)

Block == [pc : Pc, code : G!Code, link : [1 .. 2 -> Nat]]
Index == 1 .. Len(cache)
Hits(x) == {i \in Index : cache[i].pc = x}

(* chain_targets: the tail slots of a block, and where each goes *)
Slots(b) == {k \in 1 .. 2 : /\ ~b.code.fp
                            /\ \/ b.code.term.kind = "bcc"
                               \/ b.code.term.kind = "jmp" /\ k = 1}
Goes(b, k) == IF k = 1 THEN b.code.term.to ELSE b.code.term.after

(* emit_cond_bool: the condition as the translated tail computes it *)
CondBool(cc, f) ==
    LET n == "N" \in f
        z == "Z" \in f
        v == "V" \in f
        c == "C" \in f
        eor == (n \/ v) /\ ~(n /\ v)
    IN \/ cc = 2  /\ ~(c \/ z)
       \/ cc = 3  /\ (c \/ z)
       \/ cc = 4  /\ ~c
       \/ cc = 5  /\ c
       \/ cc = 6  /\ ~z
       \/ cc = 7  /\ z
       \/ cc = 8  /\ ~v
       \/ cc = 9  /\ v
       \/ cc = 10 /\ ~n
       \/ cc = 11 /\ n
       \/ cc = 12 /\ ~eor
       \/ cc = 13 /\ eor
       \/ cc = 14 /\ ~(eor \/ z)
       \/ cc = 15 /\ (eor \/ z)

(* cache_reserve_one.  Mutant: the last entry is one too far. *)
RoomOffByOne == Len(cache) <= cap \/ cap < MaxBlocks
Room == Len(cache) < cap \/ cap < MaxBlocks
Least(x, y) == IF x < y THEN x ELSE y
Grown == IF Len(cache) < cap THEN cap
         ELSE Least(MaxBlocks, IF cap = 0 THEN InitialBlocks ELSE 2 * cap)

-----------------------------------------------------------------------------
(* Entering and leaving j5d_run                                            *)

Base == runs[Len(runs)].base
Back == runs[Len(runs)].back

Start(e) ==
    /\ at = "idle" /\ resume = None
    /\ runs' = <<[base |-> 0, back |-> Wild, held |-> held]>> /\ stack' = <<>>
    /\ pc' = e /\ at' = "top"
    /\ UNCHANGED <<code, mem, ccr, native, blocks, held, safety, resume>>

(* Mutant: the resumed run takes the stack as it is for its base. *)
ResumeRebased ==
    /\ at = "idle" /\ resume # None
    /\ runs' = <<[base |-> Len(stack), back |-> Wild, held |-> held]>> /\ resume' = None
    /\ at' = "top"
    /\ UNCHANGED <<guest, pc, native, blocks, held, safety>>
Resume ==
    /\ at = "idle" /\ resume # None
    /\ runs' = <<[base |-> resume, back |-> Wild, held |-> held]>> /\ resume' = None
    /\ at' = "top"
    /\ UNCHANGED <<guest, pc, native, blocks, held, safety>>

(* The run yields and can be resumed at x; only the outermost one may. *)
Yield(x) ==
    /\ Len(runs) = 1
    /\ resume' = Base /\ runs' = <<>> /\ pc' = x /\ at' = "idle"

(* The run is over; a nested one returns to the bridge call it was made in. *)
Leave ==
    /\ runs' = SubSeq(runs, 1, Len(runs) - 1)
    /\ at' = IF Len(runs) = 1 THEN "idle" ELSE "link"
    /\ pc' = Back /\ held' = runs[Len(runs)].held
    /\ UNCHANGED resume

(* An error: the step cap, no block, a full guest stack, a bridge error, or
   a host fault in translated code, from which j5d_run recovers. *)
Fail ==
    /\ at \in {"top", "fetch", "body", "back", "bridge", "link"} /\ ~Parked /\ Leave
    /\ mem' \in G!RegFile /\ stack' = SubSeq(stack, 1, Least(Base, Len(stack)))
    /\ Left /\ UNCHANGED <<code, ccr, blocks, safety>>

-----------------------------------------------------------------------------
(* The dispatcher's loop, up to the call of a block                        *)

Reload ==
    /\ at = "top" /\ budget' = Quantum /\ at' = "poll"
    /\ UNCHANGED <<guest, pc, native, blocks, held, yielded, stop, calls>>

(* No stop is pending and the poll is not due. *)
Proceed ==
    /\ at = "poll" /\ ~stop /\ at' = "fetch"
    /\ UNCHANGED <<guest, pc, native, blocks, held, safety, calls>>

(* The poll callback is asked, because of a stop or because it is due: it
   answers CONTINUE, YIELD or KILL. *)
Poll ==
    /\ at = "poll" /\ stop' = FALSE
    /\ \/ at' = "fetch" /\ UNCHANGED <<stack, mem, pc, held, calls>>
       \/ Yield(pc) /\ UNCHANGED <<stack, mem, held>>
       \/ Leave /\ mem' \in G!RegFile /\ stack' = SubSeq(stack, 1, Least(Base, Len(stack)))
    /\ UNCHANGED <<code, ccr, native, blocks, budget, yielded>>

(* The block's outer entry loads the whole register file. *)
Enter(i, fp) ==
    /\ cur' = i /\ framed' = fp /\ live' = mem /\ at' = "load"
    /\ UNCHANGED <<guest, pc, loaded, held, safety, calls>>
Hit ==
    /\ at = "fetch"
    /\ \E i \in Hits(pc) : Enter(i, cache[i].code.fp)
    /\ UNCHANGED blocks
(* translate_block: both slots fall to the epilogue. *)
Translate ==
    /\ at = "fetch" /\ pc \in Pc /\ Hits(pc) = {} /\ Room
    /\ cache' = Append(cache, [pc |-> pc, code |-> code[pc], link |-> [k \in 1 .. 2 |-> 0]])
    /\ cap' = Grown
    /\ Enter(Len(cache) + 1, code[pc].fp)

-----------------------------------------------------------------------------
(* Translated code                                                         *)

(* The safe point: ldr and subs, then str and the branch. *)
ChainLoad ==
    /\ at = "load" /\ loaded' = budget - 1 /\ at' = "store"
    /\ UNCHANGED <<guest, pc, live, cur, framed, blocks, held, safety, calls>>
(* Mutant: the block parks one too early. *)
ChainStoreEarly ==
    /\ at = "store" /\ budget' = loaded
    /\ IF loaded > 1 THEN at' = "body" /\ UNCHANGED yielded
       ELSE at' = "epilogue" /\ yielded' = cache[cur].pc
    /\ UNCHANGED <<guest, pc, native, blocks, held, stop, calls>>
ChainStore ==
    /\ at = "store" /\ budget' = loaded
    /\ IF loaded > 0 THEN at' = "body" /\ UNCHANGED yielded
       ELSE at' = "epilogue" /\ yielded' = cache[cur].pc
    /\ UNCHANGED <<guest, pc, native, blocks, held, stop, calls>>

Body ==
    /\ at = "body" /\ at' = "tail"
    /\ live' = cache[cur].code.calc[live]
    /\ IF cache[cur].code.flags = {} THEN UNCHANGED ccr ELSE ccr' \in cache[cur].code.flags
    /\ UNCHANGED <<code, stack, mem, pc, cur, framed, loaded, blocks, held,
                   safety, calls>>

(* The slot the tail falls into leads to a block or to the epilogue. *)
Leads(b) == IF b.code.term.kind = "bcc" /\ ~CondBool(b.code.term.cc, ccr)
            THEN b.link[2] ELSE b.link[1]
(* Mutant: a chained branch lands behind the safe point. *)
TailSlotPast ==
    /\ at = "tail"
    /\ LET b == cache[cur]
           next == IF Slots(b) = {} THEN 0 ELSE Leads(b)
       IN IF next = 0 THEN at' = "epilogue" /\ UNCHANGED cur
          ELSE at' = "body" /\ cur' = next
    /\ UNCHANGED <<guest, pc, live, framed, loaded, blocks, held, safety, calls>>
TailSlot ==
    /\ at = "tail"
    /\ LET b == cache[cur]
           next == IF Slots(b) = {} THEN 0 ELSE Leads(b)
       IN IF next = 0 THEN at' = "epilogue" /\ UNCHANGED cur
          ELSE at' = "load" /\ cur' = next
    /\ UNCHANGED <<guest, pc, live, framed, loaded, blocks, held, safety, calls>>

(* Mutant: only the registers this block writes are stored. *)
EpilogueDirty ==
    /\ at = "epilogue" /\ at' = "back"
    /\ mem' = [r \in Reg |-> IF \E f \in G!RegFile : cache[cur].code.calc[f][r] # f[r]
                            THEN live[r] ELSE mem[r]]
    /\ held' = [block |-> cur, cap |-> cap] /\ Left
    /\ UNCHANGED <<code, stack, ccr, pc, blocks, safety, calls>>
(* The one epilogue a chain reaches stores all registers and says whose it is. *)
Epilogue ==
    /\ at = "epilogue" /\ at' = "back"
    /\ mem' = live /\ held' = [block |-> cur, cap |-> cap] /\ Left
    /\ UNCHANGED <<code, stack, ccr, pc, blocks, safety, calls>>

-----------------------------------------------------------------------------
(* Back in the dispatcher                                                  *)

Unpark ==
    /\ at = "back" /\ Parked
    /\ pc' = yielded /\ yielded' = Wild /\ at' = "top" /\ held' = Nothing
    /\ UNCHANGED <<guest, native, blocks, budget, stop, calls>>

(* The terminator is read from the guest's memory, at the end of the block
   whose epilogue ran. *)
T == code[cache[held.block].pc].term
Decodes(k) == at = "back" /\ ~Parked /\ T.kind = k
Goto(x) == pc' = x /\ at' = "link"
Push(x, k) == /\ Len(stack) < StackMax
              /\ stack' = Append(stack, [pc |-> x, kind |-> k, ccr |-> ccr])

BusError ==
    /\ at = "fetch" /\ pc = Wild
    /\ Push(Wild, "exception") /\ pc' = Handler /\ at' = "top"
    /\ UNCHANGED <<code, mem, ccr, native, blocks, held, safety, calls>>

Jump ==
    /\ Decodes("jmp") /\ Goto(T.to)
    /\ UNCHANGED <<guest, native, blocks, held, safety, calls>>
Branch ==
    /\ Decodes("bcc")
    /\ Goto(IF G!BccTaken(T.cc, ccr) THEN T.to ELSE T.after)
    /\ UNCHANGED <<guest, native, blocks, held, safety, calls>>
(* Instructions and computed jumps the dispatcher executes itself. *)
Own ==
    /\ Decodes("own") /\ mem' \in G!RegFile /\ Goto(T.to)
    /\ IF code[cache[held.block].pc].flags = {} THEN UNCHANGED ccr
       ELSE ccr' \in code[cache[held.block].pc].flags
    /\ UNCHANGED <<code, stack, native, blocks, held, safety, calls>>
Call ==
    /\ Decodes("jsr") /\ Push(T.after, "call") /\ Goto(T.to)
    /\ UNCHANGED <<code, mem, ccr, native, blocks, held, safety, calls>>
Trap ==
    /\ Decodes("trap") /\ Push(T.after, "exception") /\ Goto(Handler)
    /\ UNCHANGED <<code, mem, ccr, native, blocks, held, safety, calls>>
Unstack(k) ==
    /\ stack # <<>>
    /\ Goto(IF stack[Len(stack)].kind = k THEN stack[Len(stack)].pc ELSE Wild)
    /\ stack' = SubSeq(stack, 1, Len(stack) - 1)
    /\ UNCHANGED <<code, mem, native, blocks, held, safety, calls>>
Rts == Decodes("rts") /\ Len(stack) > Base /\ Unstack("call") /\ UNCHANGED ccr
Rte == Decodes("rte") /\ Unstack("exception") /\ ccr' = stack[Len(stack)].ccr

(* The initial SP is reached: the run is over.  A nested run's registers are
   put back by its caller. *)
Exit ==
    /\ Decodes("rts") /\ Len(stack) <= Base /\ Leave
    /\ IF Len(runs) = 1 THEN UNCHANGED mem ELSE mem' \in G!RegFile
    /\ UNCHANGED <<code, stack, ccr, native, blocks, safety>>

-----------------------------------------------------------------------------
(* A library call: what the bridge may do before it returns                *)

CallLibrary ==
    /\ Decodes("lib") /\ at' = "bridge"
    /\ UNCHANGED <<guest, pc, native, blocks, held, safety, calls>>

Served ==
    /\ at = "bridge" /\ mem' \in G!RegFile /\ Goto(T.after)
    /\ UNCHANGED <<code, stack, ccr, native, blocks, held, safety, calls>>
(* J5D_LVO_REDIRECT: guest code runs in place of the library's. *)
Redirect(x) ==
    /\ at = "bridge" /\ mem' \in G!RegFile /\ Push(T.after, "call") /\ Goto(x)
    /\ UNCHANGED <<code, ccr, native, blocks, held, safety, calls>>
(* J5D_LVO_BLOCK *)
Blocked ==
    /\ at = "bridge" /\ mem' \in G!RegFile /\ Yield(T.after)
    /\ held' = Nothing
    /\ UNCHANGED <<code, stack, ccr, native, blocks, safety>>
(* A native library calls a guest hook: another run of the same engine. *)
Hook(e) ==
    /\ at = "bridge" /\ Len(runs) < NestMax
    /\ runs' = Append(runs, [base |-> Len(stack), back |-> T.after, held |-> held])
    /\ pc' = e /\ at' = "top"
    /\ UNCHANGED <<guest, native, blocks, held, safety, resume>>
(* UnLoadSeg drops all blocks; other code may be loaded over the old. *)
UnLoadSeg ==
    /\ at = "bridge" /\ cache' = <<>> /\ code' \in Programs
    /\ mem' \in G!RegFile /\ Goto(T.after)
    /\ UNCHANGED <<stack, ccr, native, cap, held, safety, calls>>
(* CacheClearU and CacheClearE: the guest has written code, and has not run
   it yet.  The call returns through a permanent rts. *)
CacheClear ==
    /\ at = "bridge" /\ cache' = <<>> /\ code' \in Programs
    /\ Push(T.after, "call") /\ Goto(Return)
    /\ UNCHANGED <<mem, ccr, native, cap, held, safety, calls>>

-----------------------------------------------------------------------------
(* link_if_resolved                                                        *)

(* Mutants: a chained branch may go to a floating point block; any free slot
   is patched. *)
LinkableAny(b, i) == {k \in Slots(b) : b.link[k] = 0 /\ Goes(b, k) = pc}
LinkableFree(b, i) == {k \in Slots(b) : b.link[k] = 0 /\ ~cache[i].code.fp}
Linkable(b, i) ==
    {k \in Slots(b) : b.link[k] = 0 /\ Goes(b, k) = pc /\ ~cache[i].code.fp}
(* The slot is patched if the target is within reach of a branch. *)
Link ==
    /\ at = "link" /\ at' = "top"
    /\ \/ UNCHANGED cache
       \/ /\ held.block \in Index
          /\ \E i \in Hits(pc) :
                cache' = [cache EXCEPT ![held.block].link =
                            [k \in 1 .. 2 |-> IF k \in Linkable(cache[held.block], i)
                                             THEN i ELSE @[k]]]
    /\ held' = Nothing
    /\ UNCHANGED <<guest, pc, native, cap, safety, calls>>

(* j5d_request_stop, in a signal handler of this thread, at any time *)
RequestStop ==
    /\ stop' = TRUE /\ budget' = 0
    /\ UNCHANGED <<guest, at, pc, native, blocks, held, yielded, calls>>

-----------------------------------------------------------------------------
Init ==
    /\ code \in Programs /\ stack = <<>> /\ mem \in G!RegFile /\ ccr = {}
    /\ live = Scratch /\ at = "idle" /\ pc = Wild /\ cur = 1 /\ framed = FALSE
    /\ loaded = 0 /\ cache = <<>> /\ cap = 0
    /\ held = Nothing
    /\ budget = 0 /\ yielded = Wild /\ stop = FALSE /\ runs = <<>> /\ resume = None

Engine ==
    \/ Fail \/ Reload \/ Proceed \/ Poll \/ Hit \/ Translate
    \/ ChainLoad \/ ChainStore \/ Body \/ TailSlot \/ Epilogue \/ Unpark \/ BusError
    \/ Jump \/ Branch \/ Own \/ Call \/ Trap \/ Rts \/ Rte \/ Exit
    \/ CallLibrary \/ Served \/ Blocked \/ UnLoadSeg \/ CacheClear \/ Link
    \/ \E x \in Pc : Redirect(x) \/ Hook(x)
Embedder == Resume \/ RequestStop \/ \E e \in Pc : Start(e)
Next == Engine \/ Embedder

Spec == Init /\ [][Next]_vars
(* The thread runs, and library calls return. *)
FairSpec == Spec /\ WF_vars(Engine)

(* Another context, which has an engine of its own, unloads or loads code
   while this one is off the thread: only that engine's blocks are dropped. *)
SiblingUnloads ==
    /\ at = "idle" /\ resume # None /\ code' \in Programs
    /\ UNCHANGED <<stack, mem, ccr, at, pc, native, blocks, held, safety, calls>>
SharedSpec == Init /\ [][Next \/ SiblingUnloads]_vars

-----------------------------------------------------------------------------
(* Properties                                                              *)

Pointer    == [block : Nat \ {0}, cap : Nat]
Activation == [base : Nat, back : G!Target, held : Pointer]
Dispatch   == {"idle", "top", "poll", "fetch", "back", "bridge", "link"}

GuestType == /\ code \in [Pc -> G!Code] /\ stack \in Seq(G!Frame)
             /\ mem \in G!RegFile /\ ccr \subseteq G!Flag
NativeType == /\ live \in G!RegFile /\ cur \in Nat \ {0} /\ framed \in BOOLEAN
              /\ loaded \in Int
              /\ at \in Native => cur \in Index
CacheType == cache \in Seq(Block) /\ cap \in 0 .. MaxBlocks /\ Len(cache) <= cap
ThreadType == /\ at \in Native \cup Dispatch /\ pc \in G!Target /\ held \in Pointer
              /\ yielded \in G!Target /\ stop \in BOOLEAN /\ budget \in Int
              /\ at \in {"back", "bridge"} => held.block \in Index
CallsType == /\ runs \in Seq(Activation) /\ resume \in Nat \cup {None}
             /\ at = "idle" <=> runs = <<>>
             /\ runs # <<>> => resume = None

(* The state of the engine is well formed: what is active and what can be
   resumed exclude each other, a thread in translated code is in a cached
   block, and the cache never exceeds its array (cache_reserve_one). *)
TypeOK == GuestType /\ NativeType /\ CacheType /\ ThreadType /\ CallsType

(* A patched slot leads to the block of its own target, and never into one
   whose floating point save it would skip (link_if_resolved: a chain must
   be the program's path). *)
LinksTrue ==
    \A i \in Index : \A k \in Slots(cache[i]) :
        LET n == cache[i].link[k]
        IN n # 0 => /\ n \in Index /\ cache[n].pc = Goes(cache[i], k)
                    /\ ~cache[n].code.fp

(* The epilogue that ends an activation, however long its chain, takes off
   the host's stack exactly what its outer entry put there: the floating
   point registers if and only if they were saved (translate_block). *)
FramePaired == at = "epilogue" => framed = cache[cur].code.fp

(* The chained, cached, interrupted and resumed execution is an execution of
   the program: registers, condition codes, stack and path (j5d_run). *)
RunsTheProgram == G!Spec

(* A stop requested from a signal handler is taken up, or the run ends by
   itself, even in code that is entirely chained (j5d_request_stop). *)
StopLands == stop ~> (~stop \/ at = "idle")

(* Safe points cost no progress: unless stops keep coming, a block that is
   entered gets to its end, or the run ends or yields (chain_quantum). *)
BlocksFinish == <>[](~stop) => (at = "load" ~> at \in {"tail", "link", "idle"})

(* "Zeroing the budget makes the NEXT chain-entry safe point park"
   (j5d_engine.c:299). *)
StopParksNext == stop /\ at = "load" => budget <= 0

(* "invalidate the whole per-run cache before any byte can be reused"
   (emu68k_host.c:1250): no block is of bytes that have been replaced. *)
NoStaleBlock == \A i \in Index : cache[i].code = code[cache[i].pc]

(* The pointer into the cache that the dispatcher holds over a library call
   is into the present array (j5d_run_inner, cache_reserve_one). *)
HeldIsCurrent == at = "link" => held.cap = cap
=============================================================================
