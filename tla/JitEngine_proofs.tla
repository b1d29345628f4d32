-------------------------- MODULE JitEngine_proofs --------------------------
(***************************************************************************)
(* Proofs about JitEngine, for all programs, block cache sizes, quanta and *)
(* nesting depths: its invariants, and that the chained, cached,           *)
(* interrupted and resumed execution implements Guest68k.                  *)
(***************************************************************************)
EXTENDS JitEngine, SequenceTheorems, TLAPS

-----------------------------------------------------------------------------
(* The inductive invariant                                                 *)

(* In translated code, the frame on the host's stack is the one the block
   at hand will take off. *)
Frames == at \in Native => framed = cache[cur].code.fp
(* A parked block is on its way to the dispatcher, and says where it was. *)
ParkedThere == Parked => /\ at \in {"epilogue", "back"}
                         /\ at = "epilogue" => yielded = cache[cur].pc
Outermost == runs # <<>> => runs[1].back = Wild
(* The bridge is in a call that the code as it is makes. *)
InCall == at = "bridge" => T.kind = "lib"
IInv == TypeOK /\ LinksTrue /\ Frames /\ NoStaleBlock /\ ParkedThere /\ Outermost /\ InCall

-----------------------------------------------------------------------------
(* What the types say                                                      *)

LEMMA TargetFacts ==
    Pc \subseteq G!Target /\ Wild \in G!Target /\ Handler \in G!Target /\ Return \in G!Target
BY AddressAssumption DEF G!Target

LEMMA CodeFacts ==
    ASSUME NEW c \in G!Code
    PROVE  /\ c.calc \in [G!RegFile -> G!RegFile] /\ c.flags \subseteq SUBSET G!Flag
           /\ c.fp \in BOOLEAN /\ c.term.to \in G!Target /\ c.term.after \in G!Target
BY DEF G!Code, G!Term

LEMMA TermFacts ==
    ASSUME TypeOK, at \in {"back", "bridge"}
    PROVE  /\ held.block \in Index /\ cache[held.block].pc \in Pc
           /\ code[cache[held.block].pc] \in G!Code
           /\ T.to \in G!Target /\ T.after \in G!Target
<1>1. held.block \in Index /\ cache \in Seq(Block)
  BY DEF TypeOK, GuestType, NativeType, CacheType, ThreadType, CallsType
<1>2. cache[held.block] \in Block
  BY <1>1 DEF Index
<1>3. cache[held.block].pc \in Pc
  BY <1>2 DEF Block
<1>4. code[cache[held.block].pc] \in G!Code
  BY <1>3 DEF TypeOK, GuestType, NativeType, CacheType, ThreadType, CallsType
<1>. QED
  BY <1>1, <1>3, <1>4, CodeFacts DEF T

LEMMA BlockFacts ==
    ASSUME TypeOK, NEW i \in Index
    PROVE  cache[i] \in Block /\ cache[i].pc \in Pc /\ cache[i].code \in G!Code
<1>1. cache[i] \in Block
  BY DEF TypeOK, GuestType, NativeType, CacheType, ThreadType, CallsType, Index
<1>. QED
  BY <1>1 DEF Block

LEMMA PushType ==
    ASSUME TypeOK, NEW x \in G!Target, NEW k \in {"call", "exception"}, Push(x, k)
    PROVE  stack' \in Seq(G!Frame)
<1>1. [pc |-> x, kind |-> k, ccr |-> ccr] \in G!Frame
  BY DEF TypeOK, GuestType, NativeType, CacheType, ThreadType, CallsType, G!Frame
<1>. QED
  BY <1>1 DEF TypeOK, GuestType, NativeType, CacheType, ThreadType, CallsType, Push

LEMMA CutType ==
    ASSUME TypeOK, NEW n \in Nat, n <= Len(stack)
    PROVE  SubSeq(stack, 1, n) \in Seq(G!Frame)
BY DEF TypeOK, GuestType, NativeType, CacheType, ThreadType, CallsType

LEMMA InnerType ==
    ASSUME TypeOK, runs # <<>>
    PROVE  /\ Len(runs) \in Nat \ {0} /\ runs[Len(runs)] \in Activation
           /\ Base \in Nat /\ Back \in G!Target /\ runs[Len(runs)].held \in Pointer
<1>1. Len(runs) \in Nat \ {0} /\ runs[Len(runs)] \in Activation
  BY EmptySeq DEF TypeOK, GuestType, NativeType, CacheType, ThreadType, CallsType
<1>. QED
  BY <1>1 DEF Activation, Base, Back

LEMMA LeastType ==
    ASSUME TypeOK, runs # <<>>
    PROVE  Least(Base, Len(stack)) \in Nat /\ Least(Base, Len(stack)) <= Len(stack)
BY InnerType DEF TypeOK, GuestType, NativeType, CacheType, ThreadType, CallsType, Least

LEMMA LeaveType ==
    ASSUME TypeOK, runs # <<>>, Leave
    PROVE  /\ runs' \in Seq(Activation) /\ at' \in {"idle", "link"}
           /\ at' = "idle" <=> runs' = <<>>
           /\ pc' \in G!Target /\ held' \in Pointer /\ resume' = None
<1>1. runs' = SubSeq(runs, 1, Len(runs) - 1) /\ Len(runs) - 1 \in Nat
  BY InnerType DEF Leave
<1>0. runs \in Seq(Activation)
  BY DEF TypeOK, GuestType, NativeType, CacheType, ThreadType, CallsType
<1>a. ASSUME NEW q \in Seq(Activation), NEW n \in 0 .. Len(q)
      PROVE  SubSeq(q, 1, n) \in Seq(Activation) /\ Len(SubSeq(q, 1, n)) = n
  BY SubSeqProperties
<1>b. Len(runs) - 1 \in 0 .. Len(runs)
  BY InnerType
<1>2. runs' \in Seq(Activation) /\ Len(runs') = Len(runs) - 1
  BY <1>0, <1>1, <1>a, <1>b
<1>3. runs' = <<>> <=> Len(runs) = 1
  BY <1>2, InnerType, EmptySeq
<1>. QED
  BY <1>2, <1>3, InnerType DEF Leave, TypeOK, CallsType

LEMMA YieldType ==
    ASSUME TypeOK, runs # <<>>, NEW x \in G!Target, Yield(x)
    PROVE  /\ runs' = <<>> /\ runs' \in Seq(Activation) /\ at' = "idle"
           /\ pc' = x /\ resume' \in Nat
BY InnerType DEF Yield

LEMMA GrownType ==
    ASSUME TypeOK, Room
    PROVE  Grown \in 0 .. MaxBlocks /\ Len(cache) + 1 <= Grown
BY BoundAssumption DEF TypeOK, GuestType, NativeType, CacheType, ThreadType, CallsType, Room, Grown, Least

LEMMA ScratchType == Scratch \in G!RegFile
BY RegisterAssumption DEF Scratch, G!RegFile

LEMMA NothingType == Nothing \in Pointer
BY DEF Nothing, Pointer

LEMMA LeftType == ASSUME Left, at' \notin Native PROVE NativeType'
<1>1. live' \in G!RegFile
  BY ScratchType DEF Left
<1>2. cur' \in Nat \ {0}
  BY DEF Left
<1>3. framed' \in BOOLEAN
  BY Zenon DEF Left
<1>4. loaded' \in Int
  BY DEF Left
<1>. QED
  BY <1>1, <1>2, <1>3, <1>4 DEF NativeType

LEMMA EnterType ==
    ASSUME mem \in G!RegFile, NEW i \in Nat \ {0}, i <= Len(cache'), Len(cache') \in Nat,
           NEW fp \in BOOLEAN, loaded \in Int, Enter(i, fp)
    PROVE  NativeType'
BY DEF Enter, NativeType, Index, guest

LEMMA ActivationType ==
    ASSUME NEW n \in Nat, NEW x \in G!Target, NEW h \in Pointer
    PROVE  /\ [base |-> n, back |-> x, held |-> h] \in Activation
           /\ <<[base |-> n, back |-> x, held |-> h]>> \in Seq(Activation)
           /\ <<[base |-> n, back |-> x, held |-> h]>> # <<>>
<1>1. [base |-> n, back |-> x, held |-> h] \in Activation
  BY DEF Activation
<1>. QED
  BY <1>1

LEMMA TranslateType ==
    ASSUME TypeOK, Translate PROVE NativeType' /\ CacheType'
<1> DEFINE b == [pc |-> pc, code |-> code[pc], link |-> [k \in 1 .. 2 |-> 0]]
<1>1. code[pc] \in G!Code
  BY DEF TypeOK, GuestType, Translate
<1>2. b \in Block
  BY <1>1 DEF Translate, Block
<1>3. cache \in Seq(Block) /\ cache' = Append(cache, b) /\ cap' = Grown
  BY DEF TypeOK, CacheType, Translate
<1>4. cache' \in Seq(Block) /\ Len(cache') = Len(cache) + 1 /\ Len(cache) \in Nat
  <2>. HIDE DEF b
  <2>. QED
    BY <1>2, <1>3
<1>5. CacheType'
  BY <1>3, <1>4, GrownType DEF CacheType, Translate
<1>6. mem \in G!RegFile /\ loaded \in Int /\ code[pc].fp \in BOOLEAN
  BY <1>1, CodeFacts DEF TypeOK, GuestType, NativeType
<1>7. Enter(Len(cache) + 1, code[pc].fp)
  BY DEF Translate
<1>8. NativeType'
  BY <1>4, <1>6, <1>7, EnterType
<1>. QED
  BY <1>5, <1>8

LEMMA HitType ==
    ASSUME TypeOK, NEW i \in Index, Enter(i, cache[i].code.fp), UNCHANGED cache PROVE NativeType'
<1>1. cache[i].code.fp \in BOOLEAN
  BY BlockFacts, CodeFacts
<1>2. i \in Nat \ {0} /\ i <= Len(cache') /\ Len(cache') \in Nat
  BY DEF Index, TypeOK, CacheType
<1>3. mem \in G!RegFile /\ loaded \in Int
  BY DEF TypeOK, GuestType, NativeType
<1>. QED
  BY <1>1, <1>2, <1>3, EnterType

(* emit_cond_bool computes what bcc_taken decides. *)
LEMMA Conditions == ASSUME NEW cc, NEW f PROVE CondBool(cc, f) <=> G!BccTaken(cc, f)
BY Zenon DEF CondBool, G!BccTaken

LEMMA NextBlock ==
    ASSUME IInv, at = "tail", Slots(cache[cur]) # {}, Leads(cache[cur]) # 0
    PROVE  /\ Leads(cache[cur]) \in Index /\ ~cache[Leads(cache[cur])].code.fp
           /\ ~cache[cur].code.fp
           /\ \/ /\ cache[cur].code.term.kind = "jmp"
                 /\ cache[Leads(cache[cur])].pc = cache[cur].code.term.to
              \/ /\ cache[cur].code.term.kind = "bcc"
                 /\ cache[Leads(cache[cur])].pc =
                      IF CondBool(cache[cur].code.term.cc, ccr)
                      THEN cache[cur].code.term.to ELSE cache[cur].code.term.after
<1>1. cur \in Index
  BY DEF IInv, TypeOK, NativeType, Native
<1>2. \A k \in Slots(cache[cur]) : cache[cur].link[k] # 0 =>
          /\ cache[cur].link[k] \in Index /\ ~cache[cache[cur].link[k]].code.fp
          /\ cache[cache[cur].link[k]].pc = Goes(cache[cur], k)
  BY <1>1 DEF IInv, LinksTrue
<1>3. CASE cache[cur].code.term.kind = "bcc"
  BY <1>2, <1>3 DEF Slots, Leads, Goes
<1>4. CASE cache[cur].code.term.kind = "jmp"
  BY <1>2, <1>4 DEF Slots, Leads, Goes
<1>. QED
  BY <1>3, <1>4 DEF Slots

LEMMA LinkType == ASSUME TypeOK, Link PROVE cache' \in Seq(Block) /\ Len(cache') = Len(cache)
<1>1. CASE UNCHANGED cache
  BY <1>1 DEF TypeOK, CacheType
<1>2. ASSUME held.block \in Index, NEW i \in Hits(pc),
             cache' = [cache EXCEPT ![held.block].link =
                         [k \in 1 .. 2 |-> IF k \in Linkable(cache[held.block], i)
                                          THEN i ELSE @[k]]]
      PROVE  cache' \in Seq(Block) /\ Len(cache') = Len(cache)
  <2> DEFINE b == cache[held.block]
             l == [k \in 1 .. 2 |-> IF k \in Linkable(b, i) THEN i ELSE b.link[k]]
  <2>1. b \in Block /\ i \in Nat
    BY <1>2, BlockFacts DEF Hits, Index
  <2>2. l \in [1 .. 2 -> Nat]
    <3>1. b.link \in [1 .. 2 -> Nat]
      BY <2>1 DEF Block
    <3>. QED
      BY <2>1, <3>1
  <2>3. [b EXCEPT !.link = l] \in Block
    BY <2>1, <2>2 DEF Block
  <2>4. cache' = [cache EXCEPT ![held.block] = [b EXCEPT !.link = l]]
    BY <1>2
  <2>. QED
    <3>. HIDE DEF b, l
    <3>1. cache \in Seq(Block) /\ held.block \in 1 .. Len(cache)
      BY <1>2 DEF TypeOK, CacheType, Index
    <3>. QED
      BY <2>3, <2>4, <3>1
<1>. QED
  BY <1>1, <1>2 DEF Link

LEMMA ReturnType ==
    ASSUME TypeOK, stack # <<>>
    PROVE  /\ stack[Len(stack)] \in G!Frame /\ stack[Len(stack)].pc \in G!Target
           /\ stack[Len(stack)].ccr \subseteq G!Flag
           /\ SubSeq(stack, 1, Len(stack) - 1) \in Seq(G!Frame)
<1>1. stack \in Seq(G!Frame) /\ Len(stack) \in Nat \ {0}
  BY EmptySeq DEF TypeOK, GuestType
<1>2. stack[Len(stack)] \in G!Frame
  BY <1>1
<1>. QED
  BY <1>1, <1>2, CutType DEF G!Frame

LEMMA TypeStep == ASSUME IInv, Next PROVE TypeOK'
<1>. USE DEF vars, guest, native, blocks, safety, calls, Left
<1>0. TypeOK BY DEF IInv
<1>1. ASSUME Fail PROVE TypeOK'
  <2>1. GuestType'
    BY <1>0, <1>1, LeastType, CutType, LeaveType, ScratchType DEF TypeOK, Enter, Pointer, GuestType, NativeType, CacheType, ThreadType, CallsType, Native, Dispatch, Index, Fail, Decodes, Goto, Unstack
  <2>2. NativeType'
    BY <1>0, <1>1, LeftType, LeaveType, InnerType DEF Fail, Native, TypeOK, CallsType
  <2>3. CacheType'
    BY <1>0, <1>1, LeastType, CutType, LeaveType, ScratchType DEF TypeOK, Enter, Pointer, GuestType, NativeType, CacheType, ThreadType, CallsType, Native, Dispatch, Index, Fail, Decodes, Goto, Unstack
  <2>4. ThreadType'
    BY <1>0, <1>1, LeastType, CutType, LeaveType, ScratchType DEF TypeOK, Enter, Pointer, GuestType, NativeType, CacheType, ThreadType, CallsType, Native, Dispatch, Index, Fail, Decodes, Goto, Unstack
  <2>5. CallsType'
    BY <1>0, <1>1, LeastType, CutType, LeaveType, ScratchType DEF TypeOK, Enter, Pointer, GuestType, NativeType, CacheType, ThreadType, CallsType, Native, Dispatch, Index, Fail, Decodes, Goto, Unstack
  <2>. QED BY <2>1, <2>2, <2>3, <2>4, <2>5 DEF TypeOK
<1>2. ASSUME Reload PROVE TypeOK'
  <2>1. GuestType'
    BY <1>0, <1>2, QuantumAssumption DEF TypeOK, Enter, Pointer, GuestType, NativeType, CacheType, ThreadType, CallsType, Native, Dispatch, Index, Reload, Decodes, Goto, Unstack
  <2>2. NativeType'
    BY <1>0, <1>2, QuantumAssumption DEF TypeOK, Enter, Pointer, GuestType, NativeType, CacheType, ThreadType, CallsType, Native, Dispatch, Index, Reload, Decodes, Goto, Unstack
  <2>3. CacheType'
    BY <1>0, <1>2, QuantumAssumption DEF TypeOK, Enter, Pointer, GuestType, NativeType, CacheType, ThreadType, CallsType, Native, Dispatch, Index, Reload, Decodes, Goto, Unstack
  <2>4. ThreadType'
    BY <1>0, <1>2, QuantumAssumption DEF TypeOK, Enter, Pointer, GuestType, NativeType, CacheType, ThreadType, CallsType, Native, Dispatch, Index, Reload, Decodes, Goto, Unstack
  <2>5. CallsType'
    BY <1>0, <1>2, QuantumAssumption DEF TypeOK, Enter, Pointer, GuestType, NativeType, CacheType, ThreadType, CallsType, Native, Dispatch, Index, Reload, Decodes, Goto, Unstack
  <2>. QED BY <2>1, <2>2, <2>3, <2>4, <2>5 DEF TypeOK
<1>3. ASSUME Proceed PROVE TypeOK'
  <2>1. GuestType'
    BY <1>0, <1>3 DEF TypeOK, Enter, Pointer, GuestType, NativeType, CacheType, ThreadType, CallsType, Native, Dispatch, Index, Proceed, Decodes, Goto, Unstack
  <2>2. NativeType'
    BY <1>0, <1>3 DEF TypeOK, Enter, Pointer, GuestType, NativeType, CacheType, ThreadType, CallsType, Native, Dispatch, Index, Proceed, Decodes, Goto, Unstack
  <2>3. CacheType'
    BY <1>0, <1>3 DEF TypeOK, Enter, Pointer, GuestType, NativeType, CacheType, ThreadType, CallsType, Native, Dispatch, Index, Proceed, Decodes, Goto, Unstack
  <2>4. ThreadType'
    BY <1>0, <1>3 DEF TypeOK, Enter, Pointer, GuestType, NativeType, CacheType, ThreadType, CallsType, Native, Dispatch, Index, Proceed, Decodes, Goto, Unstack
  <2>5. CallsType'
    BY <1>0, <1>3 DEF TypeOK, Enter, Pointer, GuestType, NativeType, CacheType, ThreadType, CallsType, Native, Dispatch, Index, Proceed, Decodes, Goto, Unstack
  <2>. QED BY <2>1, <2>2, <2>3, <2>4, <2>5 DEF TypeOK
<1>4. ASSUME Poll PROVE TypeOK'
  <2>1. GuestType'
    BY <1>0, <1>4, LeastType, CutType, LeaveType, YieldType DEF TypeOK, Enter, Pointer, GuestType, NativeType, CacheType, ThreadType, CallsType, Native, Dispatch, Index, Poll, Decodes, Goto, Unstack
  <2>2. NativeType'
    BY <1>0, <1>4, LeastType, CutType, LeaveType, YieldType DEF TypeOK, Enter, Pointer, GuestType, NativeType, CacheType, ThreadType, CallsType, Native, Dispatch, Index, Poll, Decodes, Goto, Unstack
  <2>3. CacheType'
    BY <1>0, <1>4, LeastType, CutType, LeaveType, YieldType DEF TypeOK, Enter, Pointer, GuestType, NativeType, CacheType, ThreadType, CallsType, Native, Dispatch, Index, Poll, Decodes, Goto, Unstack
  <2>4. ThreadType'
    BY <1>0, <1>4, LeastType, CutType, LeaveType, YieldType DEF TypeOK, Enter, Pointer, GuestType, NativeType, CacheType, ThreadType, CallsType, Native, Dispatch, Index, Poll, Decodes, Goto, Unstack
  <2>5. CallsType'
    BY <1>0, <1>4, LeastType, CutType, LeaveType, YieldType DEF TypeOK, Enter, Pointer, GuestType, NativeType, CacheType, ThreadType, CallsType, Native, Dispatch, Index, Poll, Decodes, Goto, Unstack
  <2>. QED BY <2>1, <2>2, <2>3, <2>4, <2>5 DEF TypeOK
<1>5. ASSUME Hit PROVE TypeOK'
  <2>1. GuestType'
    BY <1>0, <1>5, BlockFacts, TargetFacts DEF TypeOK, Enter, Pointer, GuestType, NativeType, CacheType, ThreadType, CallsType, Native, Dispatch, Index, Hit, Decodes, Goto, Unstack
  <2>2. NativeType'
    BY <1>0, <1>5, HitType DEF Hit, Hits, blocks
  <2>3. CacheType'
    BY <1>0, <1>5, BlockFacts, TargetFacts DEF TypeOK, Enter, Pointer, GuestType, NativeType, CacheType, ThreadType, CallsType, Native, Dispatch, Index, Hit, Decodes, Goto, Unstack
  <2>4. ThreadType'
    BY <1>0, <1>5, BlockFacts, TargetFacts DEF TypeOK, Enter, Pointer, GuestType, NativeType, CacheType, ThreadType, CallsType, Native, Dispatch, Index, Hit, Decodes, Goto, Unstack
  <2>5. CallsType'
    BY <1>0, <1>5, BlockFacts, TargetFacts DEF TypeOK, Enter, Pointer, GuestType, NativeType, CacheType, ThreadType, CallsType, Native, Dispatch, Index, Hit, Decodes, Goto, Unstack
  <2>. QED BY <2>1, <2>2, <2>3, <2>4, <2>5 DEF TypeOK
<1>6. ASSUME Translate PROVE TypeOK'
  <2>1. GuestType'
    BY <1>0, <1>6, GrownType DEF TypeOK, Enter, Pointer, GuestType, NativeType, CacheType, ThreadType, CallsType, Native, Dispatch, Index, Translate, Decodes, Goto, Unstack
  <2>2. NativeType'
    BY <1>0, <1>6, TranslateType
  <2>3. CacheType'
    BY <1>0, <1>6, TranslateType
  <2>4. ThreadType'
    BY <1>0, <1>6, GrownType DEF TypeOK, Enter, Pointer, GuestType, NativeType, CacheType, ThreadType, CallsType, Native, Dispatch, Index, Translate, Decodes, Goto, Unstack
  <2>5. CallsType'
    BY <1>0, <1>6, GrownType DEF TypeOK, Enter, Pointer, GuestType, NativeType, CacheType, ThreadType, CallsType, Native, Dispatch, Index, Translate, Decodes, Goto, Unstack
  <2>. QED BY <2>1, <2>2, <2>3, <2>4, <2>5 DEF TypeOK
<1>7. ASSUME ChainLoad PROVE TypeOK'
  <2>1. GuestType'
    BY <1>0, <1>7 DEF TypeOK, Enter, Pointer, GuestType, NativeType, CacheType, ThreadType, CallsType, Native, Dispatch, Index, ChainLoad, Decodes, Goto, Unstack
  <2>2. NativeType'
    BY <1>0, <1>7 DEF TypeOK, Enter, Pointer, GuestType, NativeType, CacheType, ThreadType, CallsType, Native, Dispatch, Index, ChainLoad, Decodes, Goto, Unstack
  <2>3. CacheType'
    BY <1>0, <1>7 DEF TypeOK, Enter, Pointer, GuestType, NativeType, CacheType, ThreadType, CallsType, Native, Dispatch, Index, ChainLoad, Decodes, Goto, Unstack
  <2>4. ThreadType'
    BY <1>0, <1>7 DEF TypeOK, Enter, Pointer, GuestType, NativeType, CacheType, ThreadType, CallsType, Native, Dispatch, Index, ChainLoad, Decodes, Goto, Unstack
  <2>5. CallsType'
    BY <1>0, <1>7 DEF TypeOK, Enter, Pointer, GuestType, NativeType, CacheType, ThreadType, CallsType, Native, Dispatch, Index, ChainLoad, Decodes, Goto, Unstack
  <2>. QED BY <2>1, <2>2, <2>3, <2>4, <2>5 DEF TypeOK
<1>8. ASSUME ChainStore PROVE TypeOK'
  <2>1. GuestType'
    BY <1>0, <1>8, TargetFacts, BlockFacts DEF TypeOK, Enter, Pointer, GuestType, NativeType, CacheType, ThreadType, CallsType, Native, Dispatch, Index, ChainStore, Decodes, Goto, Unstack
  <2>2. NativeType'
    BY <1>0, <1>8, TargetFacts, BlockFacts DEF TypeOK, Enter, Pointer, GuestType, NativeType, CacheType, ThreadType, CallsType, Native, Dispatch, Index, ChainStore, Decodes, Goto, Unstack
  <2>3. CacheType'
    BY <1>0, <1>8, TargetFacts, BlockFacts DEF TypeOK, Enter, Pointer, GuestType, NativeType, CacheType, ThreadType, CallsType, Native, Dispatch, Index, ChainStore, Decodes, Goto, Unstack
  <2>4. ThreadType'
    BY <1>0, <1>8, TargetFacts, BlockFacts DEF TypeOK, Enter, Pointer, GuestType, NativeType, CacheType, ThreadType, CallsType, Native, Dispatch, Index, ChainStore, Decodes, Goto, Unstack
  <2>5. CallsType'
    BY <1>0, <1>8, TargetFacts, BlockFacts DEF TypeOK, Enter, Pointer, GuestType, NativeType, CacheType, ThreadType, CallsType, Native, Dispatch, Index, ChainStore, Decodes, Goto, Unstack
  <2>. QED BY <2>1, <2>2, <2>3, <2>4, <2>5 DEF TypeOK
<1>9. ASSUME Body PROVE TypeOK'
  <2>1. GuestType'
    BY <1>0, <1>9, BlockFacts, CodeFacts DEF TypeOK, Enter, Pointer, GuestType, NativeType, CacheType, ThreadType, CallsType, Native, Dispatch, Index, Body, Decodes, Goto, Unstack
  <2>2. NativeType'
    BY <1>0, <1>9, BlockFacts, CodeFacts DEF TypeOK, Enter, Pointer, GuestType, NativeType, CacheType, ThreadType, CallsType, Native, Dispatch, Index, Body, Decodes, Goto, Unstack
  <2>3. CacheType'
    BY <1>0, <1>9, BlockFacts, CodeFacts DEF TypeOK, Enter, Pointer, GuestType, NativeType, CacheType, ThreadType, CallsType, Native, Dispatch, Index, Body, Decodes, Goto, Unstack
  <2>4. ThreadType'
    BY <1>0, <1>9, BlockFacts, CodeFacts DEF TypeOK, Enter, Pointer, GuestType, NativeType, CacheType, ThreadType, CallsType, Native, Dispatch, Index, Body, Decodes, Goto, Unstack
  <2>5. CallsType'
    BY <1>0, <1>9, BlockFacts, CodeFacts DEF TypeOK, Enter, Pointer, GuestType, NativeType, CacheType, ThreadType, CallsType, Native, Dispatch, Index, Body, Decodes, Goto, Unstack
  <2>. QED BY <2>1, <2>2, <2>3, <2>4, <2>5 DEF TypeOK
<1>10. ASSUME TailSlot PROVE TypeOK'
  <2>1. GuestType'
    BY <1>0, <1>10, NextBlock DEF TypeOK, Enter, Pointer, GuestType, NativeType, CacheType, ThreadType, CallsType, Native, Dispatch, Index, TailSlot, Decodes, Goto, Unstack
  <2>2. NativeType'
    BY <1>0, <1>10, NextBlock DEF TypeOK, Enter, Pointer, GuestType, NativeType, CacheType, ThreadType, CallsType, Native, Dispatch, Index, TailSlot, Decodes, Goto, Unstack
  <2>3. CacheType'
    BY <1>0, <1>10, NextBlock DEF TypeOK, Enter, Pointer, GuestType, NativeType, CacheType, ThreadType, CallsType, Native, Dispatch, Index, TailSlot, Decodes, Goto, Unstack
  <2>4. ThreadType'
    BY <1>0, <1>10, NextBlock DEF TypeOK, Enter, Pointer, GuestType, NativeType, CacheType, ThreadType, CallsType, Native, Dispatch, Index, TailSlot, Decodes, Goto, Unstack
  <2>5. CallsType'
    BY <1>0, <1>10, NextBlock DEF TypeOK, Enter, Pointer, GuestType, NativeType, CacheType, ThreadType, CallsType, Native, Dispatch, Index, TailSlot, Decodes, Goto, Unstack
  <2>. QED BY <2>1, <2>2, <2>3, <2>4, <2>5 DEF TypeOK
<1>11. ASSUME Epilogue PROVE TypeOK'
  <2>1. GuestType'
    BY <1>0, <1>11, ScratchType DEF TypeOK, Enter, Pointer, GuestType, NativeType, CacheType, ThreadType, CallsType, Native, Dispatch, Index, Epilogue, Decodes, Goto, Unstack
  <2>2. NativeType'
    BY <1>11, LeftType DEF Epilogue, Native
  <2>3. CacheType'
    BY <1>0, <1>11, ScratchType DEF TypeOK, Enter, Pointer, GuestType, NativeType, CacheType, ThreadType, CallsType, Native, Dispatch, Index, Epilogue, Decodes, Goto, Unstack
  <2>4. ThreadType'
    BY <1>0, <1>11, ScratchType DEF TypeOK, Enter, Pointer, GuestType, NativeType, CacheType, ThreadType, CallsType, Native, Dispatch, Index, Epilogue, Decodes, Goto, Unstack
  <2>5. CallsType'
    BY <1>0, <1>11, ScratchType DEF TypeOK, Enter, Pointer, GuestType, NativeType, CacheType, ThreadType, CallsType, Native, Dispatch, Index, Epilogue, Decodes, Goto, Unstack
  <2>. QED BY <2>1, <2>2, <2>3, <2>4, <2>5 DEF TypeOK
<1>12. ASSUME Unpark PROVE TypeOK'
  <2>1. GuestType'
    BY <1>0, <1>12, TargetFacts, NothingType DEF TypeOK, Enter, Pointer, GuestType, NativeType, CacheType, ThreadType, CallsType, Native, Dispatch, Index, Unpark, Decodes, Goto, Unstack
  <2>2. NativeType'
    BY <1>0, <1>12, TargetFacts, NothingType DEF TypeOK, Enter, Pointer, GuestType, NativeType, CacheType, ThreadType, CallsType, Native, Dispatch, Index, Unpark, Decodes, Goto, Unstack
  <2>3. CacheType'
    BY <1>0, <1>12, TargetFacts, NothingType DEF TypeOK, Enter, Pointer, GuestType, NativeType, CacheType, ThreadType, CallsType, Native, Dispatch, Index, Unpark, Decodes, Goto, Unstack
  <2>4. ThreadType'
    BY <1>0, <1>12, TargetFacts, NothingType DEF TypeOK, Enter, Pointer, GuestType, NativeType, CacheType, ThreadType, CallsType, Native, Dispatch, Index, Unpark, Decodes, Goto, Unstack
  <2>5. CallsType'
    BY <1>0, <1>12, TargetFacts, NothingType DEF TypeOK, Enter, Pointer, GuestType, NativeType, CacheType, ThreadType, CallsType, Native, Dispatch, Index, Unpark, Decodes, Goto, Unstack
  <2>. QED BY <2>1, <2>2, <2>3, <2>4, <2>5 DEF TypeOK
<1>13. ASSUME BusError PROVE TypeOK'
  <2>1. GuestType'
    BY <1>0, <1>13, TargetFacts, PushType, AddressAssumption DEF TypeOK, Enter, Pointer, GuestType, NativeType, CacheType, ThreadType, CallsType, Native, Dispatch, Index, BusError, Decodes, Goto, Unstack
  <2>2. NativeType'
    BY <1>0, <1>13, TargetFacts, PushType, AddressAssumption DEF TypeOK, Enter, Pointer, GuestType, NativeType, CacheType, ThreadType, CallsType, Native, Dispatch, Index, BusError, Decodes, Goto, Unstack
  <2>3. CacheType'
    BY <1>0, <1>13, TargetFacts, PushType, AddressAssumption DEF TypeOK, Enter, Pointer, GuestType, NativeType, CacheType, ThreadType, CallsType, Native, Dispatch, Index, BusError, Decodes, Goto, Unstack
  <2>4. ThreadType'
    BY <1>0, <1>13, TargetFacts, PushType, AddressAssumption DEF TypeOK, Enter, Pointer, GuestType, NativeType, CacheType, ThreadType, CallsType, Native, Dispatch, Index, BusError, Decodes, Goto, Unstack
  <2>5. CallsType'
    BY <1>0, <1>13, TargetFacts, PushType, AddressAssumption DEF TypeOK, Enter, Pointer, GuestType, NativeType, CacheType, ThreadType, CallsType, Native, Dispatch, Index, BusError, Decodes, Goto, Unstack
  <2>. QED BY <2>1, <2>2, <2>3, <2>4, <2>5 DEF TypeOK
<1>14. ASSUME Jump PROVE TypeOK'
  <2>1. GuestType'
    BY <1>0, <1>14, TermFacts DEF TypeOK, Enter, Pointer, GuestType, NativeType, CacheType, ThreadType, CallsType, Native, Dispatch, Index, Jump, Decodes, Goto, Unstack
  <2>2. NativeType'
    BY <1>0, <1>14, TermFacts DEF TypeOK, Enter, Pointer, GuestType, NativeType, CacheType, ThreadType, CallsType, Native, Dispatch, Index, Jump, Decodes, Goto, Unstack
  <2>3. CacheType'
    BY <1>0, <1>14, TermFacts DEF TypeOK, Enter, Pointer, GuestType, NativeType, CacheType, ThreadType, CallsType, Native, Dispatch, Index, Jump, Decodes, Goto, Unstack
  <2>4. ThreadType'
    BY <1>0, <1>14, TermFacts DEF TypeOK, Enter, Pointer, GuestType, NativeType, CacheType, ThreadType, CallsType, Native, Dispatch, Index, Jump, Decodes, Goto, Unstack
  <2>5. CallsType'
    BY <1>0, <1>14, TermFacts DEF TypeOK, Enter, Pointer, GuestType, NativeType, CacheType, ThreadType, CallsType, Native, Dispatch, Index, Jump, Decodes, Goto, Unstack
  <2>. QED BY <2>1, <2>2, <2>3, <2>4, <2>5 DEF TypeOK
<1>15. ASSUME Branch PROVE TypeOK'
  <2>1. GuestType'
    BY <1>0, <1>15, TermFacts DEF TypeOK, Enter, Pointer, GuestType, NativeType, CacheType, ThreadType, CallsType, Native, Dispatch, Index, Branch, Decodes, Goto, Unstack
  <2>2. NativeType'
    BY <1>0, <1>15, TermFacts DEF TypeOK, Enter, Pointer, GuestType, NativeType, CacheType, ThreadType, CallsType, Native, Dispatch, Index, Branch, Decodes, Goto, Unstack
  <2>3. CacheType'
    BY <1>0, <1>15, TermFacts DEF TypeOK, Enter, Pointer, GuestType, NativeType, CacheType, ThreadType, CallsType, Native, Dispatch, Index, Branch, Decodes, Goto, Unstack
  <2>4. ThreadType'
    BY <1>0, <1>15, TermFacts DEF TypeOK, Enter, Pointer, GuestType, NativeType, CacheType, ThreadType, CallsType, Native, Dispatch, Index, Branch, Decodes, Goto, Unstack
  <2>5. CallsType'
    BY <1>0, <1>15, TermFacts DEF TypeOK, Enter, Pointer, GuestType, NativeType, CacheType, ThreadType, CallsType, Native, Dispatch, Index, Branch, Decodes, Goto, Unstack
  <2>. QED BY <2>1, <2>2, <2>3, <2>4, <2>5 DEF TypeOK
<1>16. ASSUME Own PROVE TypeOK'
  <2>1. GuestType'
    BY <1>0, <1>16, TermFacts, CodeFacts DEF TypeOK, Enter, Pointer, GuestType, NativeType, CacheType, ThreadType, CallsType, Native, Dispatch, Index, Own, Decodes, Goto, Unstack
  <2>2. NativeType'
    BY <1>0, <1>16, TermFacts, CodeFacts DEF TypeOK, Enter, Pointer, GuestType, NativeType, CacheType, ThreadType, CallsType, Native, Dispatch, Index, Own, Decodes, Goto, Unstack
  <2>3. CacheType'
    BY <1>0, <1>16, TermFacts, CodeFacts DEF TypeOK, Enter, Pointer, GuestType, NativeType, CacheType, ThreadType, CallsType, Native, Dispatch, Index, Own, Decodes, Goto, Unstack
  <2>4. ThreadType'
    BY <1>0, <1>16, TermFacts, CodeFacts DEF TypeOK, Enter, Pointer, GuestType, NativeType, CacheType, ThreadType, CallsType, Native, Dispatch, Index, Own, Decodes, Goto, Unstack
  <2>5. CallsType'
    BY <1>0, <1>16, TermFacts, CodeFacts DEF TypeOK, Enter, Pointer, GuestType, NativeType, CacheType, ThreadType, CallsType, Native, Dispatch, Index, Own, Decodes, Goto, Unstack
  <2>. QED BY <2>1, <2>2, <2>3, <2>4, <2>5 DEF TypeOK
<1>17. ASSUME Call PROVE TypeOK'
  <2>1. GuestType'
    BY <1>0, <1>17, TermFacts, PushType DEF TypeOK, Enter, Pointer, GuestType, NativeType, CacheType, ThreadType, CallsType, Native, Dispatch, Index, Call, Decodes, Goto, Unstack
  <2>2. NativeType'
    BY <1>0, <1>17, TermFacts, PushType DEF TypeOK, Enter, Pointer, GuestType, NativeType, CacheType, ThreadType, CallsType, Native, Dispatch, Index, Call, Decodes, Goto, Unstack
  <2>3. CacheType'
    BY <1>0, <1>17, TermFacts, PushType DEF TypeOK, Enter, Pointer, GuestType, NativeType, CacheType, ThreadType, CallsType, Native, Dispatch, Index, Call, Decodes, Goto, Unstack
  <2>4. ThreadType'
    BY <1>0, <1>17, TermFacts, PushType DEF TypeOK, Enter, Pointer, GuestType, NativeType, CacheType, ThreadType, CallsType, Native, Dispatch, Index, Call, Decodes, Goto, Unstack
  <2>5. CallsType'
    BY <1>0, <1>17, TermFacts, PushType DEF TypeOK, Enter, Pointer, GuestType, NativeType, CacheType, ThreadType, CallsType, Native, Dispatch, Index, Call, Decodes, Goto, Unstack
  <2>. QED BY <2>1, <2>2, <2>3, <2>4, <2>5 DEF TypeOK
<1>18. ASSUME Trap PROVE TypeOK'
  <2>1. GuestType'
    BY <1>0, <1>18, TargetFacts, TermFacts, PushType, AddressAssumption DEF TypeOK, Enter, Pointer, GuestType, NativeType, CacheType, ThreadType, CallsType, Native, Dispatch, Index, Trap, Decodes, Goto, Unstack
  <2>2. NativeType'
    BY <1>0, <1>18, TargetFacts, TermFacts, PushType, AddressAssumption DEF TypeOK, Enter, Pointer, GuestType, NativeType, CacheType, ThreadType, CallsType, Native, Dispatch, Index, Trap, Decodes, Goto, Unstack
  <2>3. CacheType'
    BY <1>0, <1>18, TargetFacts, TermFacts, PushType, AddressAssumption DEF TypeOK, Enter, Pointer, GuestType, NativeType, CacheType, ThreadType, CallsType, Native, Dispatch, Index, Trap, Decodes, Goto, Unstack
  <2>4. ThreadType'
    BY <1>0, <1>18, TargetFacts, TermFacts, PushType, AddressAssumption DEF TypeOK, Enter, Pointer, GuestType, NativeType, CacheType, ThreadType, CallsType, Native, Dispatch, Index, Trap, Decodes, Goto, Unstack
  <2>5. CallsType'
    BY <1>0, <1>18, TargetFacts, TermFacts, PushType, AddressAssumption DEF TypeOK, Enter, Pointer, GuestType, NativeType, CacheType, ThreadType, CallsType, Native, Dispatch, Index, Trap, Decodes, Goto, Unstack
  <2>. QED BY <2>1, <2>2, <2>3, <2>4, <2>5 DEF TypeOK
<1>19. ASSUME Rts PROVE TypeOK'
  <2>1. GuestType'
    BY <1>0, <1>19, TargetFacts, ReturnType DEF TypeOK, Enter, Pointer, GuestType, NativeType, CacheType, ThreadType, CallsType, Native, Dispatch, Index, Rts, Decodes, Goto, Unstack
  <2>2. NativeType'
    BY <1>0, <1>19, TargetFacts, ReturnType DEF TypeOK, Enter, Pointer, GuestType, NativeType, CacheType, ThreadType, CallsType, Native, Dispatch, Index, Rts, Decodes, Goto, Unstack
  <2>3. CacheType'
    BY <1>0, <1>19, TargetFacts, ReturnType DEF TypeOK, Enter, Pointer, GuestType, NativeType, CacheType, ThreadType, CallsType, Native, Dispatch, Index, Rts, Decodes, Goto, Unstack
  <2>4. ThreadType'
    BY <1>0, <1>19, TargetFacts, ReturnType DEF TypeOK, Enter, Pointer, GuestType, NativeType, CacheType, ThreadType, CallsType, Native, Dispatch, Index, Rts, Decodes, Goto, Unstack
  <2>5. CallsType'
    BY <1>0, <1>19, TargetFacts, ReturnType DEF TypeOK, Enter, Pointer, GuestType, NativeType, CacheType, ThreadType, CallsType, Native, Dispatch, Index, Rts, Decodes, Goto, Unstack
  <2>. QED BY <2>1, <2>2, <2>3, <2>4, <2>5 DEF TypeOK
<1>20. ASSUME Rte PROVE TypeOK'
  <2>1. GuestType'
    BY <1>0, <1>20, TargetFacts, ReturnType DEF TypeOK, Enter, Pointer, GuestType, NativeType, CacheType, ThreadType, CallsType, Native, Dispatch, Index, Rte, Decodes, Goto, Unstack
  <2>2. NativeType'
    BY <1>0, <1>20, TargetFacts, ReturnType DEF TypeOK, Enter, Pointer, GuestType, NativeType, CacheType, ThreadType, CallsType, Native, Dispatch, Index, Rte, Decodes, Goto, Unstack
  <2>3. CacheType'
    BY <1>0, <1>20, TargetFacts, ReturnType DEF TypeOK, Enter, Pointer, GuestType, NativeType, CacheType, ThreadType, CallsType, Native, Dispatch, Index, Rte, Decodes, Goto, Unstack
  <2>4. ThreadType'
    BY <1>0, <1>20, TargetFacts, ReturnType DEF TypeOK, Enter, Pointer, GuestType, NativeType, CacheType, ThreadType, CallsType, Native, Dispatch, Index, Rte, Decodes, Goto, Unstack
  <2>5. CallsType'
    BY <1>0, <1>20, TargetFacts, ReturnType DEF TypeOK, Enter, Pointer, GuestType, NativeType, CacheType, ThreadType, CallsType, Native, Dispatch, Index, Rte, Decodes, Goto, Unstack
  <2>. QED BY <2>1, <2>2, <2>3, <2>4, <2>5 DEF TypeOK
<1>21. ASSUME Exit PROVE TypeOK'
  <2>1. GuestType'
    BY <1>0, <1>21, LeaveType DEF TypeOK, Enter, Pointer, GuestType, NativeType, CacheType, ThreadType, CallsType, Native, Dispatch, Index, Exit, Decodes, Goto, Unstack
  <2>2. NativeType'
    BY <1>0, <1>21, LeaveType DEF TypeOK, Enter, Pointer, GuestType, NativeType, CacheType, ThreadType, CallsType, Native, Dispatch, Index, Exit, Decodes, Goto, Unstack
  <2>3. CacheType'
    BY <1>0, <1>21, LeaveType DEF TypeOK, Enter, Pointer, GuestType, NativeType, CacheType, ThreadType, CallsType, Native, Dispatch, Index, Exit, Decodes, Goto, Unstack
  <2>4. ThreadType'
    BY <1>0, <1>21, LeaveType DEF TypeOK, Enter, Pointer, GuestType, NativeType, CacheType, ThreadType, CallsType, Native, Dispatch, Index, Exit, Decodes, Goto, Unstack
  <2>5. CallsType'
    BY <1>0, <1>21, LeaveType DEF TypeOK, Enter, Pointer, GuestType, NativeType, CacheType, ThreadType, CallsType, Native, Dispatch, Index, Exit, Decodes, Goto, Unstack
  <2>. QED BY <2>1, <2>2, <2>3, <2>4, <2>5 DEF TypeOK
<1>22. ASSUME CallLibrary PROVE TypeOK'
  <2>1. GuestType'
    BY <1>0, <1>22 DEF TypeOK, Enter, Pointer, GuestType, NativeType, CacheType, ThreadType, CallsType, Native, Dispatch, Index, CallLibrary, Decodes, Goto, Unstack
  <2>2. NativeType'
    BY <1>0, <1>22 DEF TypeOK, Enter, Pointer, GuestType, NativeType, CacheType, ThreadType, CallsType, Native, Dispatch, Index, CallLibrary, Decodes, Goto, Unstack
  <2>3. CacheType'
    BY <1>0, <1>22 DEF TypeOK, Enter, Pointer, GuestType, NativeType, CacheType, ThreadType, CallsType, Native, Dispatch, Index, CallLibrary, Decodes, Goto, Unstack
  <2>4. ThreadType'
    BY <1>0, <1>22 DEF TypeOK, Enter, Pointer, GuestType, NativeType, CacheType, ThreadType, CallsType, Native, Dispatch, Index, CallLibrary, Decodes, Goto, Unstack
  <2>5. CallsType'
    BY <1>0, <1>22 DEF TypeOK, Enter, Pointer, GuestType, NativeType, CacheType, ThreadType, CallsType, Native, Dispatch, Index, CallLibrary, Decodes, Goto, Unstack
  <2>. QED BY <2>1, <2>2, <2>3, <2>4, <2>5 DEF TypeOK
<1>23. ASSUME Served PROVE TypeOK'
  <2>1. GuestType'
    BY <1>0, <1>23, TermFacts DEF TypeOK, Enter, Pointer, GuestType, NativeType, CacheType, ThreadType, CallsType, Native, Dispatch, Index, Served, Decodes, Goto, Unstack
  <2>2. NativeType'
    BY <1>0, <1>23, TermFacts DEF TypeOK, Enter, Pointer, GuestType, NativeType, CacheType, ThreadType, CallsType, Native, Dispatch, Index, Served, Decodes, Goto, Unstack
  <2>3. CacheType'
    BY <1>0, <1>23, TermFacts DEF TypeOK, Enter, Pointer, GuestType, NativeType, CacheType, ThreadType, CallsType, Native, Dispatch, Index, Served, Decodes, Goto, Unstack
  <2>4. ThreadType'
    BY <1>0, <1>23, TermFacts DEF TypeOK, Enter, Pointer, GuestType, NativeType, CacheType, ThreadType, CallsType, Native, Dispatch, Index, Served, Decodes, Goto, Unstack
  <2>5. CallsType'
    BY <1>0, <1>23, TermFacts DEF TypeOK, Enter, Pointer, GuestType, NativeType, CacheType, ThreadType, CallsType, Native, Dispatch, Index, Served, Decodes, Goto, Unstack
  <2>. QED BY <2>1, <2>2, <2>3, <2>4, <2>5 DEF TypeOK
<1>24. ASSUME Blocked PROVE TypeOK'
  <2>1. GuestType'
    BY <1>0, <1>24, TermFacts, YieldType, NothingType DEF TypeOK, Enter, Pointer, GuestType, NativeType, CacheType, ThreadType, CallsType, Native, Dispatch, Index, Blocked, Decodes, Goto, Unstack
  <2>2. NativeType'
    BY <1>0, <1>24, TermFacts, YieldType, NothingType DEF TypeOK, Enter, Pointer, GuestType, NativeType, CacheType, ThreadType, CallsType, Native, Dispatch, Index, Blocked, Decodes, Goto, Unstack
  <2>3. CacheType'
    BY <1>0, <1>24, TermFacts, YieldType, NothingType DEF TypeOK, Enter, Pointer, GuestType, NativeType, CacheType, ThreadType, CallsType, Native, Dispatch, Index, Blocked, Decodes, Goto, Unstack
  <2>4. ThreadType'
    BY <1>0, <1>24, TermFacts, YieldType, NothingType DEF TypeOK, Enter, Pointer, GuestType, NativeType, CacheType, ThreadType, CallsType, Native, Dispatch, Index, Blocked, Decodes, Goto, Unstack
  <2>5. CallsType'
    BY <1>0, <1>24, TermFacts, YieldType, NothingType DEF TypeOK, Enter, Pointer, GuestType, NativeType, CacheType, ThreadType, CallsType, Native, Dispatch, Index, Blocked, Decodes, Goto, Unstack
  <2>. QED BY <2>1, <2>2, <2>3, <2>4, <2>5 DEF TypeOK
<1>25. ASSUME UnLoadSeg PROVE TypeOK'
  <2>1. GuestType'
    BY <1>0, <1>25, TermFacts, ProgramAssumption, EmptySeq DEF TypeOK, Enter, Pointer, GuestType, NativeType, CacheType, ThreadType, CallsType, Native, Dispatch, Index, UnLoadSeg, Decodes, Goto, Unstack
  <2>2. NativeType'
    BY <1>0, <1>25, TermFacts, ProgramAssumption, EmptySeq DEF TypeOK, Enter, Pointer, GuestType, NativeType, CacheType, ThreadType, CallsType, Native, Dispatch, Index, UnLoadSeg, Decodes, Goto, Unstack
  <2>3. CacheType'
    BY <1>0, <1>25, TermFacts, ProgramAssumption, EmptySeq DEF TypeOK, Enter, Pointer, GuestType, NativeType, CacheType, ThreadType, CallsType, Native, Dispatch, Index, UnLoadSeg, Decodes, Goto, Unstack
  <2>4. ThreadType'
    BY <1>0, <1>25, TermFacts, ProgramAssumption, EmptySeq DEF TypeOK, Enter, Pointer, GuestType, NativeType, CacheType, ThreadType, CallsType, Native, Dispatch, Index, UnLoadSeg, Decodes, Goto, Unstack
  <2>5. CallsType'
    BY <1>0, <1>25, TermFacts, ProgramAssumption, EmptySeq DEF TypeOK, Enter, Pointer, GuestType, NativeType, CacheType, ThreadType, CallsType, Native, Dispatch, Index, UnLoadSeg, Decodes, Goto, Unstack
  <2>. QED BY <2>1, <2>2, <2>3, <2>4, <2>5 DEF TypeOK
<1>26. ASSUME CacheClear PROVE TypeOK'
  <2>1. GuestType'
    BY <1>0, <1>26, TargetFacts, TermFacts, PushType, ProgramAssumption, AddressAssumption, EmptySeq DEF TypeOK, Enter, Pointer, GuestType, NativeType, CacheType, ThreadType, CallsType, Native, Dispatch, Index, CacheClear, Decodes, Goto, Unstack
  <2>2. NativeType'
    BY <1>0, <1>26, TargetFacts, TermFacts, PushType, ProgramAssumption, AddressAssumption, EmptySeq DEF TypeOK, Enter, Pointer, GuestType, NativeType, CacheType, ThreadType, CallsType, Native, Dispatch, Index, CacheClear, Decodes, Goto, Unstack
  <2>3. CacheType'
    BY <1>0, <1>26, TargetFacts, TermFacts, PushType, ProgramAssumption, AddressAssumption, EmptySeq DEF TypeOK, Enter, Pointer, GuestType, NativeType, CacheType, ThreadType, CallsType, Native, Dispatch, Index, CacheClear, Decodes, Goto, Unstack
  <2>4. ThreadType'
    BY <1>0, <1>26, TargetFacts, TermFacts, PushType, ProgramAssumption, AddressAssumption, EmptySeq DEF TypeOK, Enter, Pointer, GuestType, NativeType, CacheType, ThreadType, CallsType, Native, Dispatch, Index, CacheClear, Decodes, Goto, Unstack
  <2>5. CallsType'
    BY <1>0, <1>26, TargetFacts, TermFacts, PushType, ProgramAssumption, AddressAssumption, EmptySeq DEF TypeOK, Enter, Pointer, GuestType, NativeType, CacheType, ThreadType, CallsType, Native, Dispatch, Index, CacheClear, Decodes, Goto, Unstack
  <2>. QED BY <2>1, <2>2, <2>3, <2>4, <2>5 DEF TypeOK
<1>27. ASSUME Link PROVE TypeOK'
  <2>1. GuestType'
    BY <1>0, <1>27, NothingType, LinkType DEF TypeOK, Enter, Pointer, GuestType, NativeType, CacheType, ThreadType, CallsType, Native, Dispatch, Index, Link, Decodes, Goto, Unstack
  <2>2. NativeType'
    BY <1>0, <1>27, NothingType, LinkType DEF TypeOK, Enter, Pointer, GuestType, NativeType, CacheType, ThreadType, CallsType, Native, Dispatch, Index, Link, Decodes, Goto, Unstack
  <2>3. CacheType'
    BY <1>0, <1>27, NothingType, LinkType DEF TypeOK, Enter, Pointer, GuestType, NativeType, CacheType, ThreadType, CallsType, Native, Dispatch, Index, Link, Decodes, Goto, Unstack
  <2>4. ThreadType'
    BY <1>0, <1>27, NothingType, LinkType DEF TypeOK, Enter, Pointer, GuestType, NativeType, CacheType, ThreadType, CallsType, Native, Dispatch, Index, Link, Decodes, Goto, Unstack
  <2>5. CallsType'
    BY <1>0, <1>27, NothingType, LinkType DEF TypeOK, Enter, Pointer, GuestType, NativeType, CacheType, ThreadType, CallsType, Native, Dispatch, Index, Link, Decodes, Goto, Unstack
  <2>. QED BY <2>1, <2>2, <2>3, <2>4, <2>5 DEF TypeOK
<1>28. ASSUME Resume PROVE TypeOK'
  <2>1. GuestType'
    BY <1>0, <1>28 DEF TypeOK, Enter, Pointer, GuestType, NativeType, CacheType, ThreadType, CallsType, Native, Dispatch, Index, Resume, Decodes, Goto, Unstack
  <2>2. NativeType'
    BY <1>0, <1>28 DEF TypeOK, Enter, Pointer, GuestType, NativeType, CacheType, ThreadType, CallsType, Native, Dispatch, Index, Resume, Decodes, Goto, Unstack
  <2>3. CacheType'
    BY <1>0, <1>28 DEF TypeOK, Enter, Pointer, GuestType, NativeType, CacheType, ThreadType, CallsType, Native, Dispatch, Index, Resume, Decodes, Goto, Unstack
  <2>4. ThreadType'
    BY <1>0, <1>28 DEF TypeOK, Enter, Pointer, GuestType, NativeType, CacheType, ThreadType, CallsType, Native, Dispatch, Index, Resume, Decodes, Goto, Unstack
  <2>5. CallsType'
    BY <1>0, <1>28, ActivationType, TargetFacts DEF Resume, TypeOK, CallsType, ThreadType, None
  <2>. QED BY <2>1, <2>2, <2>3, <2>4, <2>5 DEF TypeOK
<1>29. ASSUME RequestStop PROVE TypeOK'
  <2>1. GuestType'
    BY <1>0, <1>29 DEF TypeOK, Enter, Pointer, GuestType, NativeType, CacheType, ThreadType, CallsType, Native, Dispatch, Index, RequestStop, Decodes, Goto, Unstack
  <2>2. NativeType'
    BY <1>0, <1>29 DEF TypeOK, Enter, Pointer, GuestType, NativeType, CacheType, ThreadType, CallsType, Native, Dispatch, Index, RequestStop, Decodes, Goto, Unstack
  <2>3. CacheType'
    BY <1>0, <1>29 DEF TypeOK, Enter, Pointer, GuestType, NativeType, CacheType, ThreadType, CallsType, Native, Dispatch, Index, RequestStop, Decodes, Goto, Unstack
  <2>4. ThreadType'
    BY <1>0, <1>29 DEF TypeOK, Enter, Pointer, GuestType, NativeType, CacheType, ThreadType, CallsType, Native, Dispatch, Index, RequestStop, Decodes, Goto, Unstack
  <2>5. CallsType'
    BY <1>0, <1>29 DEF TypeOK, Enter, Pointer, GuestType, NativeType, CacheType, ThreadType, CallsType, Native, Dispatch, Index, RequestStop, Decodes, Goto, Unstack
  <2>. QED BY <2>1, <2>2, <2>3, <2>4, <2>5 DEF TypeOK
<1>30. ASSUME NEW x \in Pc, Redirect(x) PROVE TypeOK'
  <2>1. GuestType'
    BY <1>0, <1>30, TargetFacts, TermFacts, PushType DEF TypeOK, Enter, Pointer, GuestType, NativeType, CacheType, ThreadType, CallsType, Native, Dispatch, Index, Redirect, Decodes, Goto, Unstack
  <2>2. NativeType'
    BY <1>0, <1>30, TargetFacts, TermFacts, PushType DEF TypeOK, Enter, Pointer, GuestType, NativeType, CacheType, ThreadType, CallsType, Native, Dispatch, Index, Redirect, Decodes, Goto, Unstack
  <2>3. CacheType'
    BY <1>0, <1>30, TargetFacts, TermFacts, PushType DEF TypeOK, Enter, Pointer, GuestType, NativeType, CacheType, ThreadType, CallsType, Native, Dispatch, Index, Redirect, Decodes, Goto, Unstack
  <2>4. ThreadType'
    BY <1>0, <1>30, TargetFacts, TermFacts, PushType DEF TypeOK, Enter, Pointer, GuestType, NativeType, CacheType, ThreadType, CallsType, Native, Dispatch, Index, Redirect, Decodes, Goto, Unstack
  <2>5. CallsType'
    BY <1>0, <1>30, TargetFacts, TermFacts, PushType DEF TypeOK, Enter, Pointer, GuestType, NativeType, CacheType, ThreadType, CallsType, Native, Dispatch, Index, Redirect, Decodes, Goto, Unstack
  <2>. QED BY <2>1, <2>2, <2>3, <2>4, <2>5 DEF TypeOK
<1>31. ASSUME NEW x \in Pc, Hook(x) PROVE TypeOK'
  <2>1. GuestType'
    BY <1>0, <1>31, TargetFacts, TermFacts DEF TypeOK, Enter, Pointer, GuestType, NativeType, CacheType, ThreadType, CallsType, Native, Dispatch, Index, Hook, Decodes, Goto, Unstack
  <2>2. NativeType'
    BY <1>0, <1>31, TargetFacts, TermFacts DEF TypeOK, Enter, Pointer, GuestType, NativeType, CacheType, ThreadType, CallsType, Native, Dispatch, Index, Hook, Decodes, Goto, Unstack
  <2>3. CacheType'
    BY <1>0, <1>31, TargetFacts, TermFacts DEF TypeOK, Enter, Pointer, GuestType, NativeType, CacheType, ThreadType, CallsType, Native, Dispatch, Index, Hook, Decodes, Goto, Unstack
  <2>4. ThreadType'
    BY <1>0, <1>31, TargetFacts, TermFacts DEF TypeOK, Enter, Pointer, GuestType, NativeType, CacheType, ThreadType, CallsType, Native, Dispatch, Index, Hook, Decodes, Goto, Unstack
  <2>5. CallsType'
    BY <1>0, <1>31, ActivationType, TermFacts DEF Hook, TypeOK, CallsType, GuestType, ThreadType
  <2>. QED BY <2>1, <2>2, <2>3, <2>4, <2>5 DEF TypeOK
<1>32. ASSUME NEW x \in Pc, Start(x) PROVE TypeOK'
  <2>1. GuestType'
    BY <1>0, <1>32, TargetFacts, EmptySeq DEF TypeOK, Enter, Pointer, GuestType, NativeType, CacheType, ThreadType, CallsType, Native, Dispatch, Index, Start, Decodes, Goto, Unstack
  <2>2. NativeType'
    BY <1>0, <1>32, TargetFacts, EmptySeq DEF TypeOK, Enter, Pointer, GuestType, NativeType, CacheType, ThreadType, CallsType, Native, Dispatch, Index, Start, Decodes, Goto, Unstack
  <2>3. CacheType'
    BY <1>0, <1>32, TargetFacts, EmptySeq DEF TypeOK, Enter, Pointer, GuestType, NativeType, CacheType, ThreadType, CallsType, Native, Dispatch, Index, Start, Decodes, Goto, Unstack
  <2>4. ThreadType'
    BY <1>0, <1>32, TargetFacts, EmptySeq DEF TypeOK, Enter, Pointer, GuestType, NativeType, CacheType, ThreadType, CallsType, Native, Dispatch, Index, Start, Decodes, Goto, Unstack
  <2>5. CallsType'
    BY <1>0, <1>32, ActivationType, TargetFacts DEF Start, TypeOK, CallsType, ThreadType, None
  <2>. QED BY <2>1, <2>2, <2>3, <2>4, <2>5 DEF TypeOK
<1>. QED BY <1>1, <1>2, <1>3, <1>4, <1>5, <1>6, <1>7, <1>8, <1>9, <1>10, <1>11, <1>12, <1>13, <1>14, <1>15, <1>16, <1>17, <1>18, <1>19, <1>20, <1>21, <1>22, <1>23, <1>24, <1>25, <1>26, <1>27, <1>28, <1>29, <1>30, <1>31, <1>32 DEF Next, Engine, Embedder

-----------------------------------------------------------------------------
(* The rest of the invariant                                               *)

LEMMA InitInv == ASSUME Init PROVE IInv
<1>. USE DEF Init
<1>1. GuestType
  BY ProgramAssumption, EmptySeq DEF GuestType
<1>2. NativeType
  <2>1. live \in G!RegFile
    BY ScratchType
  <2>2. framed \in BOOLEAN
    BY Zenon
  <2>. QED
    BY <2>1, <2>2 DEF NativeType, Native
<1>3. CacheType
  BY EmptySeq, BoundAssumption DEF CacheType
<1>4. ThreadType
  <2>1. stop \in BOOLEAN
    BY Zenon
  <2>. QED
    BY <2>1, TargetFacts, NothingType DEF ThreadType, Dispatch
<1>5. CallsType
  BY EmptySeq DEF CallsType
<1>6. Index = {}
  BY DEF Index
<1>. QED
  BY <1>1, <1>2, <1>3, <1>4, <1>5, <1>6
     DEF IInv, TypeOK, LinksTrue, Frames, Native, NoStaleBlock, ParkedThere, Parked, Outermost, InCall

(* The steps that change the cache or the program. *)
LEMMA CacheSteps ==
    ASSUME Next
    PROVE  \/ UNCHANGED <<cache, code>>
           \/ Translate \/ UnLoadSeg \/ CacheClear
           \/ Link
BY DEF Next, Engine, Embedder, guest, native, blocks, safety, calls, Fail, Reload, Proceed,
       Poll, Hit, Enter, ChainLoad, ChainStore, Body, TailSlot, Epilogue, Unpark, BusError,
       Jump, Branch, Own, Call, Trap, Rts, Rte, Unstack, Exit, CallLibrary, Served, Blocked,
       Redirect, Hook, Start, Resume, RequestStop

(* The steps that are, or end, in translated code. *)
LEMMA NativeSteps ==
    ASSUME Next, at' \in Native
    PROVE  \/ Hit \/ Translate \/ ChainLoad \/ ChainStore \/ Body \/ TailSlot
           \/ RequestStop
BY DEF Next, Engine, Embedder, guest, native, blocks, safety, calls, Fail, Reload, Proceed,
       Poll, Hit, Enter, Epilogue, Unpark, BusError, Native, Leave, Yield, Goto,
       Jump, Branch, Own, Call, Trap, Rts, Rte, Unstack, Exit, CallLibrary, Served, Blocked,
       Redirect, Hook, Start, Resume, RequestStop, UnLoadSeg, CacheClear, Link

LEMMA NewBlock ==
    ASSUME IInv, Translate
    PROVE  /\ Index' = Index \cup {Len(cache) + 1} /\ Len(cache) + 1 \notin Index
           /\ \A i \in Index : cache'[i] = cache[i]
           /\ cache'[Len(cache) + 1] =
                [pc |-> pc, code |-> code[pc], link |-> [k \in 1 .. 2 |-> 0]]
<1> DEFINE b == [pc |-> pc, code |-> code[pc], link |-> [k \in 1 .. 2 |-> 0]]
<1>1. cache \in Seq(Block) /\ cache' = Append(cache, b)
  BY DEF IInv, TypeOK, CacheType, Translate
<1>. HIDE DEF b
<1>2. /\ Len(cache) \in Nat /\ Len(cache') = Len(cache) + 1
      /\ \A i \in 1 .. Len(cache) : cache'[i] = cache[i]
      /\ cache'[Len(cache) + 1] = b
  BY <1>1
<1>. QED
  BY <1>2 DEF Index, b

(* What linking does to the blocks: their addresses and code stay, and a slot
   that is patched leads to a block of its target. *)
LEMMA NewLinks ==
    ASSUME IInv, Link
    PROVE  /\ Index' = Index
           /\ \A j \in Index : cache'[j].pc = cache[j].pc /\ cache'[j].code = cache[j].code
           /\ \A j \in Index : \A k \in Slots(cache[j]) :
                 \/ cache'[j].link[k] = cache[j].link[k]
                 \/ /\ cache'[j].link[k] \in Index
                    /\ cache[cache'[j].link[k]].pc = Goes(cache[j], k)
                    /\ ~cache[cache'[j].link[k]].code.fp
<1>0. Index' = Index
  BY LinkType DEF IInv, Index
<1>1. CASE UNCHANGED cache
  BY <1>0, <1>1
<1>2. ASSUME held.block \in Index, NEW i \in Hits(pc),
             cache' = [cache EXCEPT ![held.block].link =
                         [k \in 1 .. 2 |-> IF k \in Linkable(cache[held.block], i)
                                          THEN i ELSE @[k]]],
             NEW j \in Index
      PROVE  /\ cache'[j].pc = cache[j].pc /\ cache'[j].code = cache[j].code
             /\ \A k \in Slots(cache[j]) :
                 \/ cache'[j].link[k] = cache[j].link[k]
                 \/ /\ cache'[j].link[k] \in Index
                    /\ cache[cache'[j].link[k]].pc = Goes(cache[j], k)
                    /\ ~cache[cache'[j].link[k]].code.fp
  <2> DEFINE b == cache[held.block]
             l == [k \in 1 .. 2 |-> IF k \in Linkable(b, i) THEN i ELSE b.link[k]]
  <2>1. cache' = [cache EXCEPT ![held.block] = [b EXCEPT !.link = l]]
    BY <1>2
  <2>2. b \in Block /\ cache \in Seq(Block)
    BY <1>2, BlockFacts DEF IInv, TypeOK, CacheType
  <2>3. CASE j # held.block
    <3>1. cache'[j] = cache[j]
      <4>. HIDE DEF b, l
      <4>. QED
        BY <2>1, <2>2, <2>3 DEF Index
    <3>. QED
      BY <3>1
  <2>4. CASE j = held.block
    <3>1. cache'[j] = [b EXCEPT !.link = l]
      <4>. HIDE DEF b, l
      <4>. QED
        BY <2>1, <2>2, <2>4 DEF Index
    <3>2. /\ cache'[j].pc = b.pc /\ cache'[j].code = b.code
          /\ cache'[j].link = l
      <4>. HIDE DEF l
      <4>. QED
        BY <3>1, <2>2 DEF Block
    <3>3. ASSUME NEW k \in Slots(b), k \in Linkable(b, i)
          PROVE  l[k] = i /\ i \in Index /\ cache[i].pc = Goes(b, k) /\ ~cache[i].code.fp
      BY <3>3 DEF Linkable, Hits, Slots
    <3>4. ASSUME NEW k \in Slots(b), k \notin Linkable(b, i) PROVE l[k] = b.link[k]
      BY <3>4 DEF Slots
    <3>. QED
      <4>. HIDE DEF l
      <4>. QED
        BY <2>4, <3>2, <3>3, <3>4
  <2>. QED
    BY <2>3, <2>4
<1>. QED
  BY <1>0, <1>1, <1>2 DEF Link

LEMMA LinksStep == ASSUME IInv, Next PROVE LinksTrue'
<1>1. CASE UNCHANGED <<cache, code>>
  BY <1>1 DEF IInv, LinksTrue, Index
<1>2. CASE Translate
  <2>. SUFFICES ASSUME NEW i \in Index', NEW k \in Slots(cache'[i]), cache'[i].link[k] # 0
                PROVE  /\ cache'[i].link[k] \in Index'
                       /\ cache'[cache'[i].link[k]].pc = Goes(cache'[i], k)
                       /\ ~cache'[cache'[i].link[k]].code.fp
    BY DEF LinksTrue
  <2>1. i # Len(cache) + 1
    <3>1. k \in 1 .. 2
      BY DEF Slots
    <3>. QED
      BY <1>2, <3>1, NewBlock
  <2>2. i \in Index /\ cache'[i] = cache[i]
    BY <1>2, <2>1, NewBlock
  <2>3. /\ cache[i].link[k] \in Index
        /\ cache[cache[i].link[k]].pc = Goes(cache[i], k)
        /\ ~cache[cache[i].link[k]].code.fp
    BY <2>2 DEF IInv, LinksTrue
  <2>4. cache[i].link[k] \in Index' /\ cache'[cache[i].link[k]] = cache[cache[i].link[k]]
    BY <1>2, <2>3, NewBlock
  <2>. QED
    BY <2>2, <2>3, <2>4
<1>3. CASE UnLoadSeg \/ CacheClear
  BY <1>3 DEF UnLoadSeg, CacheClear, LinksTrue, Index
<1>4. CASE Link
  <2>. SUFFICES ASSUME NEW i \in Index', NEW k \in Slots(cache'[i]), cache'[i].link[k] # 0
                PROVE  /\ cache'[i].link[k] \in Index'
                       /\ cache'[cache'[i].link[k]].pc = Goes(cache'[i], k)
                       /\ ~cache'[cache'[i].link[k]].code.fp
    BY DEF LinksTrue
  <2>1. i \in Index /\ Slots(cache'[i]) = Slots(cache[i]) /\ Goes(cache'[i], k) = Goes(cache[i], k)
    BY <1>4, NewLinks DEF Slots, Goes
  <2>2. /\ cache'[i].link[k] \in Index
        /\ cache[cache'[i].link[k]].pc = Goes(cache[i], k)
        /\ ~cache[cache'[i].link[k]].code.fp
    BY <1>4, <2>1, NewLinks DEF IInv, LinksTrue
  <2>. QED
    BY <1>4, <2>1, <2>2, NewLinks
<1>. QED
  BY <1>1, <1>2, <1>3, <1>4, CacheSteps

LEMMA FreshStep == ASSUME IInv, Next PROVE NoStaleBlock'
<1>1. CASE UNCHANGED <<cache, code>>
  BY <1>1 DEF IInv, NoStaleBlock, Index
<1>2. CASE Translate
  <2>1. UNCHANGED code
    BY <1>2 DEF Translate, Enter, guest
  <2>2. ASSUME NEW i \in Index' PROVE cache'[i].code = code[cache'[i].pc]
    <3>1. CASE i \in Index
      BY <1>2, <3>1, NewBlock DEF IInv, NoStaleBlock
    <3>2. CASE i = Len(cache) + 1
      BY <1>2, <3>2, NewBlock
    <3>. QED
      BY <1>2, <3>1, <3>2, NewBlock
  <2>. QED
    BY <2>1, <2>2 DEF NoStaleBlock
<1>3. CASE UnLoadSeg \/ CacheClear
  BY <1>3 DEF UnLoadSeg, CacheClear, NoStaleBlock, Index
<1>4. CASE Link
  BY <1>4, NewLinks DEF IInv, NoStaleBlock, Link, guest
<1>. QED
  BY <1>1, <1>2, <1>3, <1>4, CacheSteps

LEMMA FrameStep == ASSUME IInv, Next PROVE Frames'
<1>. SUFFICES ASSUME at' \in Native PROVE framed' = cache'[cur'].code.fp
  BY DEF Frames
<1>1. CASE Hit
  BY <1>1 DEF Hit, Enter, blocks
<1>2. CASE Translate
  BY <1>2, NewBlock DEF Translate, Enter
<1>3. CASE ChainLoad \/ ChainStore \/ Body \/ RequestStop
  <2>1. at \in Native /\ UNCHANGED <<framed, cache, cur>>
    BY <1>3 DEF ChainLoad, ChainStore, Body, RequestStop, Native, blocks, native
  <2>. QED
    BY <2>1 DEF IInv, Frames
<1>4. CASE TailSlot
  <2>1. at = "tail" /\ UNCHANGED <<framed, cache>> /\ at \in Native
    BY <1>4 DEF TailSlot, blocks, Native
  <2>2. CASE cur' = cur
    BY <2>1, <2>2 DEF IInv, Frames
  <2>3. CASE Slots(cache[cur]) # {} /\ Leads(cache[cur]) # 0 /\ cur' = Leads(cache[cur])
    <3>1. cache[cur].code.fp \in BOOLEAN /\ cache[cur'].code.fp \in BOOLEAN
      BY <2>1, <2>3, NextBlock, BlockFacts, CodeFacts DEF IInv, TypeOK, NativeType
    <3>2. framed = cache[cur].code.fp
      BY <2>1 DEF IInv, Frames
    <3>3. ~cache[cur].code.fp /\ ~cache[cur'].code.fp
      BY <2>1, <2>3, NextBlock
    <3>. QED
      BY <2>1, <3>1, <3>2, <3>3
  <2>. QED
    BY <1>4, <2>2, <2>3 DEF TailSlot
<1>. QED
  BY <1>1, <1>2, <1>3, <1>4, NativeSteps

LEMMA ParkStep == ASSUME IInv, Next PROVE ParkedThere'
<1>. USE DEF guest, native, blocks, safety, calls
<1>1. CASE UNCHANGED yielded /\ ~Parked
  BY <1>1 DEF ParkedThere, Parked
<1>2. CASE ChainStore
  <2>1. CASE loaded > 0
    BY <1>2, <2>1 DEF ChainStore, IInv, ParkedThere, Parked
  <2>2. CASE ~(loaded > 0)
    BY <1>2, <2>2 DEF ChainStore, ParkedThere
  <2>. QED
    BY <2>1, <2>2
<1>3. CASE Unpark
  BY <1>3 DEF Unpark, ParkedThere, Parked
<1>4. CASE Epilogue
  BY <1>4 DEF Epilogue, Left, ParkedThere, Parked, IInv
<1>5. CASE RequestStop
  BY <1>5 DEF RequestStop, ParkedThere, Parked, IInv
<1>6. CASE Parked /\ ~ChainStore /\ ~Unpark /\ ~Epilogue /\ ~RequestStop
  <2>1. at \in {"epilogue", "back"}
    BY <1>6 DEF IInv, ParkedThere
  <2>. QED
    BY <1>6, <2>1
    DEF IInv, ParkedThere, Next, Engine, Embedder, Fail, Reload, Proceed, Poll, Hit, Translate,
        ChainLoad, Body, TailSlot, BusError, Jump, Branch, Own, Call, Trap, Rts, Rte, Exit,
        Decodes, CallLibrary, Served, Blocked, UnLoadSeg, CacheClear, Link, Redirect, Hook,
        Start, Resume, IInv, TypeOK, CallsType
<1>7. ASSUME ~ChainStore, ~Unpark, ~Parked PROVE UNCHANGED yielded
  BY <1>7
  DEF Next, Engine, Embedder, Fail, Reload, Proceed, Poll, Hit, Translate, Enter, Left,
      ChainLoad, Body, TailSlot, Epilogue, BusError, Jump, Branch, Own, Call, Trap, Rts, Rte,
      Unstack, Exit, CallLibrary, Served, Blocked, UnLoadSeg, CacheClear, Link, Redirect,
      Hook, Start, Resume, RequestStop
<1>. QED
  BY <1>1, <1>2, <1>3, <1>4, <1>5, <1>6, <1>7

(* What a step does to the active calls of j5d_run. *)
LEMMA CallSteps ==
    ASSUME Next
    PROVE  \/ UNCHANGED runs
           \/ runs' = <<>>
           \/ at # "idle" /\ runs' = SubSeq(runs, 1, Len(runs) - 1)
           \/ \E h : runs' = <<[base |-> 0, back |-> Wild, held |-> h]>>
           \/ \E n, h : runs' = <<[base |-> n, back |-> Wild, held |-> h]>>
           \/ at # "idle" /\ \E n, x, h : runs' = Append(runs, [base |-> n, back |-> x, held |-> h])
BY DEF Next, Engine, Embedder, guest, native, blocks, safety, calls, Fail, Reload, Proceed,
       Poll, Hit, Translate, Enter, ChainLoad, ChainStore, Body, TailSlot, Epilogue, Unpark,
       BusError, Leave, Yield, Jump, Branch, Own, Call, Trap, Rts, Rte, Unstack, Exit,
       CallLibrary, Served, Blocked, Redirect, Hook, Start, Resume, RequestStop, UnLoadSeg,
       CacheClear, Link, Decodes

LEMMA OuterStep == ASSUME IInv, Next PROVE Outermost'
<1>0. runs \in Seq(Activation) /\ (at # "idle" => Len(runs) \in Nat \ {0} /\ runs # <<>>)
  BY InnerType DEF IInv, TypeOK, CallsType
<1>1. CASE UNCHANGED runs \/ runs' = <<>>
  BY <1>1 DEF Outermost, IInv
<1>2. CASE at # "idle" /\ runs' = SubSeq(runs, 1, Len(runs) - 1)
  <2>1. ASSUME Len(runs) > 1 PROVE runs'[1] = runs[1]
    BY <1>0, <1>2, <2>1
  <2>2. ASSUME Len(runs) = 1 PROVE runs' = <<>>
    BY <1>0, <1>2, <2>2
  <2>. QED
    BY <1>0, <1>2, <2>1, <2>2 DEF Outermost, IInv
<1>3. ASSUME NEW n, NEW h, runs' = <<[base |-> n, back |-> Wild, held |-> h]>> PROVE Outermost'
  BY <1>3 DEF Outermost
<1>4. ASSUME at # "idle", NEW r, runs' = Append(runs, r) PROVE Outermost'
  <2>1. runs'[1] = runs[1]
    BY <1>0, <1>4
  <2>. QED
    BY <1>0, <1>4, <2>1 DEF Outermost, IInv
<1>. QED
  BY <1>1, <1>2, <1>3, <1>4, CallSteps

LEMMA CallStep == ASSUME IInv, Next PROVE InCall'
<1>. SUFFICES ASSUME at' = "bridge" PROVE (T.kind = "lib")'
  BY DEF InCall
<1>1. CallLibrary \/ RequestStop
  BY DEF Next, Engine, Embedder, guest, native, blocks, safety, calls, Fail, Reload, Proceed,
       Poll, Hit, Translate, Enter, ChainLoad, ChainStore, Body, TailSlot, Epilogue, Unpark,
       BusError, Leave, Yield, Goto, Jump, Branch, Own, Call, Trap, Rts, Rte, Unstack, Exit,
       CallLibrary, Served, Blocked, Redirect, Hook, Start, Resume, RequestStop, UnLoadSeg,
       CacheClear, Link, Decodes
<1>2. UNCHANGED <<code, cache, held>> /\ T.kind = "lib"
  BY <1>1 DEF CallLibrary, RequestStop, Decodes, guest, blocks, IInv, InCall
<1>. QED
  BY <1>2 DEF T

-----------------------------------------------------------------------------
(* The theorems about the invariant                                        *)

LEMMA Inductive == Spec => []IInv
<1>1. IInv /\ [Next]_vars => IInv'
  <2>1. ASSUME IInv, Next PROVE IInv'
    BY <2>1, TypeStep, LinksStep, FreshStep, FrameStep, ParkStep, OuterStep, CallStep DEF IInv
  <2>2. ASSUME IInv, UNCHANGED vars PROVE IInv'
    BY <2>2 DEF vars, guest, native, blocks, safety, calls, IInv, TypeOK, GuestType, NativeType,
                CacheType, ThreadType, CallsType, LinksTrue, Frames, NoStaleBlock, ParkedThere,
                Parked, Outermost, InCall, T, Index
  <2>. QED
    BY <2>1, <2>2
<1>. QED
  BY <1>1, InitInv, PTL DEF Spec

(* The state of the engine stays well formed, for every program, cache size,
   quantum and nesting depth: the cache within its array, the block that runs
   or is dispatched in the cache, a suspended run and an active one never at
   the same time. *)
THEOREM EngineTypeCorrect == Spec => []TypeOK
<1>1. IInv => TypeOK
  BY DEF IInv
<1>. QED
  BY <1>1, Inductive, PTL

(* Every patched slot leads to the block of its own target, which has no
   floating point save to skip (link_if_resolved). *)
THEOREM LinksStayTrue == Spec => []LinksTrue
<1>1. IInv => LinksTrue
  BY DEF IInv
<1>. QED
  BY <1>1, Inductive, PTL

(* However long the chain, its epilogue restores what its outer entry saved
   (translate_block). *)
THEOREM FramesStayPaired == Spec => []FramePaired
<1>1. IInv => FramePaired
  BY DEF IInv, Frames, FramePaired, Native
<1>. QED
  BY <1>1, Inductive, PTL

(* With one engine, no cached block is of code that has been replaced
   (j5d_run_free before UnLoadSeg and CacheClear return). *)
THEOREM OwnBlocksFresh == Spec => []NoStaleBlock
<1>1. IInv => NoStaleBlock
  BY DEF IInv
<1>. QED
  BY <1>1, Inductive, PTL

-----------------------------------------------------------------------------
(* The refinement: every step of the engine is a step of the program or      *)
(* none of its steps                                                         *)

(* Where the program is, by what the thread is doing. *)
LEMMA SeenInDispatch ==
    ASSUME runs # <<>>, at \in {"top", "poll", "fetch", "link"}
    PROVE  GuestPc = pc /\ GuestPhase = "body" /\ GuestRegs = mem
BY DEF GuestPc, GuestPhase, GuestRegs, Native

LEMMA SeenInDispatchNext ==
    ASSUME runs' # <<>>, at' \in {"top", "poll", "fetch", "link"}
    PROVE  GuestPc' = pc' /\ GuestPhase' = "body" /\ GuestRegs' = mem'
BY DEF GuestPc, GuestPhase, GuestRegs, Native

LEMMA SeenAtTerm ==
    ASSUME IInv, at \in {"back", "bridge"}, at = "back" => ~Parked
    PROVE  /\ runs # <<>> /\ GuestPc = cache[held.block].pc /\ GuestPc \in Pc
           /\ GuestPhase = "term" /\ GuestRegs = mem /\ G!T = T
<1>1. runs # <<>>
  BY DEF IInv, TypeOK, CallsType
<1>2. GuestPc = cache[held.block].pc
  BY <1>1 DEF GuestPc, Native
<1>3. GuestPc \in Pc
  BY <1>2, TermFacts DEF IInv
<1>4. GuestPhase = "term" /\ GuestRegs = mem
  BY DEF GuestPhase, GuestRegs, Native
<1>. QED
  BY <1>1, <1>2, <1>3, <1>4 DEF G!T, T

LEMMA SeenInBlock ==
    ASSUME IInv, at \in Native
    PROVE  /\ runs # <<>> /\ cur \in Index /\ GuestPc = cache[cur].pc /\ GuestPc \in Pc
           /\ GuestRegs = live /\ cache[cur].code = code[GuestPc]
<1>1. runs # <<>>
  BY DEF IInv, TypeOK, CallsType, Native
<1>2. cur \in Index
  BY DEF IInv, TypeOK, NativeType
<1>3. GuestPc = cache[cur].pc /\ GuestRegs = live
  BY <1>1 DEF GuestPc, GuestRegs
<1>. QED
  BY <1>1, <1>2, <1>3, BlockFacts DEF IInv, NoStaleBlock

LEMMA FunIsSeq == ASSUME NEW S, NEW n \in Nat, NEW f \in [1 .. n -> S]
                  PROVE  f \in Seq(S) /\ Len(f) = n
<1>1. f \in Seq(S)
  BY SeqDef
<1>2. DOMAIN f = 1 .. n /\ DOMAIN f = 1 .. Len(f) /\ Len(f) \in Nat
  BY <1>1, LenProperties
<1>3. Len(f) = n
  BY <1>2
<1>. QED
  BY <1>1, <1>3

LEMMA SameRuns == ASSUME UNCHANGED <<runs, resume>> PROVE GuestRuns' = GuestRuns
BY DEF GuestRuns

(* The runs of the program are the calls of j5d_run. *)
LEMMA SeenRuns ==
    ASSUME IInv, runs # <<>>
    PROVE  /\ GuestRuns # <<>> /\ Len(GuestRuns) = Len(runs) /\ G!Running
           /\ G!Base = Base /\ G!Top(GuestRuns).back = Back
           /\ GuestRuns \in Seq([base : Nat, back : G!Target])
<1>1. Len(runs) \in Nat \ {0} /\ runs \in Seq(Activation)
  BY InnerType DEF IInv, TypeOK, CallsType
<1>2. GuestRuns = [i \in 1 .. Len(runs) |-> [base |-> runs[i].base, back |-> runs[i].back]]
  BY DEF GuestRuns
<1>3. \A i \in 1 .. Len(runs) : [base |-> runs[i].base, back |-> runs[i].back]
                                  \in [base : Nat, back : G!Target]
  <2>1. ASSUME NEW i \in 1 .. Len(runs) PROVE runs[i] \in Activation
    BY <1>1
  <2>. QED
    BY <2>1 DEF Activation
<1>4. GuestRuns \in Seq([base : Nat, back : G!Target]) /\ Len(GuestRuns) = Len(runs)
  <2>1. GuestRuns \in [1 .. Len(runs) -> [base : Nat, back : G!Target]]
    BY <1>2, <1>3
  <2>. QED
    BY <1>1, <2>1, FunIsSeq
<1>5. GuestRuns[Len(runs)] = [base |-> Base, back |-> Back]
  BY <1>1, <1>2 DEF Base, Back
<1>. QED
  BY <1>1, <1>4, <1>5, EmptySeq DEF G!Running, G!Base, G!Top

LEMMA LeaveRuns ==
    ASSUME IInv, runs # <<>>, Leave, at' \in {"idle", "link"}
    PROVE  G!Leave
<1>0. Len(runs) \in Nat \ {0} /\ runs \in Seq(Activation) /\ resume = None
  BY InnerType DEF IInv, TypeOK, CallsType
<1>1. runs' = SubSeq(runs, 1, Len(runs) - 1) /\ Len(runs') = Len(runs) - 1
      /\ \A i \in 1 .. Len(runs) - 1 : runs'[i] = runs[i]
  <2>1. ASSUME NEW q \in Seq(Activation), NEW n \in Nat, n + 1 = Len(q)
        PROVE  /\ Len(SubSeq(q, 1, n)) = n
               /\ \A i \in 1 .. n : SubSeq(q, 1, n)[i] = q[i]
    BY <2>1
  <2>2. Len(runs) - 1 \in Nat /\ (Len(runs) - 1) + 1 = Len(runs)
    BY <1>0
  <2>3. runs' = SubSeq(runs, 1, Len(runs) - 1)
    BY DEF Leave
  <2>. QED
    <3> DEFINE n == Len(runs) - 1
    <3>1. n \in Nat /\ n + 1 = Len(runs) /\ runs' = SubSeq(runs, 1, n)
      BY <2>2, <2>3
    <3>. HIDE DEF n
    <3>2. Len(runs') = n /\ \A i \in 1 .. n : runs'[i] = runs[i]
      BY <1>0, <2>1, <3>1
    <3>. QED
      BY <3>1, <3>2 DEF n
<1>2. G!Pop(GuestRuns) = SubSeq(GuestRuns, 1, Len(runs) - 1)
  BY SeenRuns DEF G!Pop
<1>a. GuestRuns = [i \in 1 .. Len(runs) |-> [base |-> runs[i].base, back |-> runs[i].back]]
  BY DEF GuestRuns
<1>3. SubSeq(GuestRuns, 1, Len(runs) - 1) =
        [i \in 1 .. Len(runs) - 1 |-> [base |-> runs[i].base, back |-> runs[i].back]]
  <2> DEFINE g == GuestRuns
  <2>1. g \in Seq([base : Nat, back : G!Target]) /\ Len(g) = Len(runs)
    BY SeenRuns
  <2>2. \A i \in 1 .. Len(runs) - 1 : g[i] = [base |-> runs[i].base, back |-> runs[i].back]
    BY <1>0, <1>a
  <2>3. SubSeq(g, 1, Len(runs) - 1) = [i \in 1 .. Len(runs) - 1 |-> g[i]]
    <3>. HIDE DEF g
    <3>. QED
      BY <2>1, <1>0
  <2>. QED
    BY <2>2, <2>3
<1>4. CASE Len(runs) = 1
  <2>1. runs' = <<>> /\ resume' = None /\ at' = "idle"
    BY <1>0, <1>1, <1>4, EmptySeq DEF Leave
  <2>2. GuestRuns' = <<>> /\ GuestPc' = Wild /\ GuestPhase' = "body"
    BY <2>1 DEF GuestRuns, GuestPc, GuestPhase
  <2>3. G!Pop(GuestRuns) = <<>>
    BY <1>2, <1>4, SeenRuns
  <2>. QED
    BY <1>4, <2>2, <2>3, SeenRuns DEF G!Leave
<1>5. CASE Len(runs) # 1
  <2>1. runs' # <<>> /\ at' = "link" /\ pc' = Back
    <3>1. Len(runs') # 0
      BY <1>0, <1>1, <1>5
    <3>. QED
      BY <1>5, <3>1 DEF Leave
  <2>2. GuestPc' = Back /\ GuestPhase' = "body"
    BY <2>1, SeenInDispatchNext
  <2>3. GuestRuns' = [i \in 1 .. Len(runs) - 1 |-> [base |-> runs[i].base, back |-> runs[i].back]]
    BY <1>1, <2>1 DEF GuestRuns
  <2>. QED
    BY <1>2, <1>3, <1>5, <2>2, <2>3, SeenRuns DEF G!Leave
<1>. QED
  BY <1>4, <1>5

(* A run that yields stays, for the program, where it was. *)
LEMMA YieldRuns ==
    ASSUME IInv, runs # <<>>, NEW x \in G!Target, Yield(x)
    PROVE  GuestRuns' = GuestRuns /\ GuestPc' = x /\ GuestPhase' = "body"
<1>1. runs' = <<>> /\ resume' = Base /\ Base \in Nat /\ pc' = x /\ at' = "idle" /\ resume' # None
  BY InnerType DEF Yield, None, IInv
<1>2. Len(runs) = 1 /\ runs[1].back = Wild /\ Base = runs[1].base
  BY DEF Yield, IInv, Outermost, Base
<1>3. GuestRuns = <<[base |-> Base, back |-> Wild]>>
  BY <1>2 DEF GuestRuns
<1>4. GuestRuns' = <<[base |-> Base, back |-> Wild]>>
  BY <1>1 DEF GuestRuns
<1>. QED
  BY <1>1, <1>3, <1>4 DEF GuestPc, GuestPhase

LEMMA HookRuns ==
    ASSUME IInv, runs # <<>>, NEW n \in Nat, NEW x \in G!Target, NEW h \in Pointer,
           runs' = Append(runs, [base |-> n, back |-> x, held |-> h])
    PROVE  runs' # <<>> /\ GuestRuns' = Append(GuestRuns, [base |-> n, back |-> x])
<1> DEFINE r == [base |-> n, back |-> x, held |-> h]
<1>0. Len(runs) \in Nat \ {0} /\ runs \in Seq(Activation) /\ r \in Activation
  BY InnerType, ActivationType DEF IInv, TypeOK, CallsType
<1>1. /\ Len(runs') = Len(runs) + 1 /\ runs'[Len(runs) + 1] = r /\ runs' # <<>>
      /\ \A i \in 1 .. Len(runs) : runs'[i] = runs[i]
  <2>. HIDE DEF r
  <2>1. runs' = Append(runs, r)
    BY DEF r
  <2>. QED
    BY <1>0, <2>1
<1>2. GuestRuns' = [i \in 1 .. Len(runs) + 1 |-> [base |-> runs'[i].base, back |-> runs'[i].back]]
  BY <1>1 DEF GuestRuns
<1>3. GuestRuns = [i \in 1 .. Len(runs) |-> [base |-> runs[i].base, back |-> runs[i].back]]
  BY DEF GuestRuns
<1> DEFINE g == GuestRuns  e == [base |-> n, back |-> x]
<1>4. Append(g, e) = [i \in 1 .. Len(g) + 1 |-> IF i = Len(g) + 1 THEN e ELSE g[i]]
  <2> DEFINE S == [base : Nat, back : G!Target]
             f == [i \in 1 .. Len(g) + 1 |-> IF i = Len(g) + 1 THEN e ELSE g[i]]
  <2>1. g \in Seq(S) /\ e \in S
    BY SeenRuns
  <2>. HIDE DEF g, e, S
  <2>2. Len(g) + 1 \in Nat /\ f \in [1 .. Len(g) + 1 -> S]
    BY <2>1
  <2>3. f \in Seq(S) /\ Len(f) = Len(g) + 1
    BY <2>2, FunIsSeq
  <2>4. Append(g, e) \in Seq(S) /\ Len(Append(g, e)) = Len(f)
    BY <2>1, <2>3, AppendProperties
  <2>5. \A i \in 1 .. Len(f) : f[i] = Append(g, e)[i]
    BY <2>1, <2>3
  <2>. QED
    BY <2>3, <2>4, <2>5, SeqEqual
<1>5. ASSUME NEW i \in 1 .. Len(runs) + 1
      PROVE  [base |-> runs'[i].base, back |-> runs'[i].back] =
             IF i = Len(runs) + 1 THEN e ELSE g[i]
  BY <1>0, <1>1, <1>3
<1>6. Len(g) = Len(runs)
  BY SeenRuns
<1>. QED
  BY <1>1, <1>2, <1>4, <1>5, <1>6

(* Steps that the program does not see *)
LEMMA Unseen ==
    ASSUME UNCHANGED <<code, ccr, stack>>, GuestPc' = GuestPc, GuestPhase' = GuestPhase,
           GuestRegs' = GuestRegs, GuestRuns' = GuestRuns
    PROVE  UNCHANGED G!vars
BY DEF G!vars

LEMMA DispatcherUnseen ==
    ASSUME IInv, Resume \/ Reload \/ Proceed \/ Hit \/ Translate \/ CallLibrary \/ Link
    PROVE  UNCHANGED G!vars
<1>. USE DEF guest, native, blocks, safety, calls
<1>1. CASE Resume
  <2>1. runs = <<>> /\ runs' # <<>> /\ at' = "top" /\ resume # None
    BY <1>1 DEF IInv, TypeOK, CallsType, Resume
  <2>2. GuestRuns' = GuestRuns
    BY <1>1, <2>1 DEF GuestRuns, Resume
  <2>. QED
    BY <1>1, <2>1, <2>2, Unseen DEF Resume, GuestPc, GuestPhase, GuestRegs, Native
<1>2. CASE Reload \/ Proceed \/ Link
  <2>1. runs # <<>> /\ runs' = runs /\ resume' = resume
    BY <1>2 DEF IInv, TypeOK, CallsType, Reload, Proceed, Link
  <2>2. at \in {"top", "poll", "fetch", "link"} /\ at' \in {"top", "poll", "fetch", "link"}
    BY <1>2 DEF Reload, Proceed, Link
  <2>3. UNCHANGED <<code, ccr, stack, pc, mem>>
    BY <1>2 DEF Reload, Proceed, Link
  <2>. QED
    BY <2>1, <2>2, <2>3, SameRuns, SeenInDispatch, SeenInDispatchNext, Unseen
<1>3. CASE Hit \/ Translate
  <2>1. /\ runs # <<>> /\ runs' = runs /\ resume' = resume /\ at = "fetch" /\ at' = "load"
        /\ UNCHANGED <<code, ccr, stack>> /\ live' = mem
    BY <1>3 DEF IInv, TypeOK, CallsType, Hit, Translate, Enter
  <2>2. cache'[cur'].pc = pc
    <3>1. CASE Hit
      BY <3>1 DEF Hit, Enter, Hits
    <3>2. CASE Translate
      <4>1. cur' = Len(cache) + 1
        BY <3>2 DEF Translate, Enter
      <4>. QED
        BY <3>2, <4>1, NewBlock
    <3>. QED
      BY <1>3, <3>1, <3>2
  <2>3. GuestPc' = pc /\ GuestPhase' = "body" /\ GuestRegs' = mem
    BY <2>1, <2>2 DEF GuestPc, GuestPhase, GuestRegs, Native
  <2>. QED
    BY <2>1, <2>3, SameRuns, SeenInDispatch, Unseen
<1>4. CASE CallLibrary
  <2>1. /\ at = "back" /\ ~Parked /\ at' = "bridge" /\ UNCHANGED <<code, ccr, stack, mem, runs, resume>>
        /\ UNCHANGED <<held, cache, yielded>>
    BY <1>4 DEF CallLibrary, Decodes
  <2>2. runs # <<>>
    BY <2>1, SeenAtTerm
  <2>3. GuestPc' = cache[held.block].pc /\ GuestPhase' = "term" /\ GuestRegs' = mem
    BY <2>1, <2>2 DEF GuestPc, GuestPhase, GuestRegs, Native
  <2>. QED
    BY <2>1, <2>3, SameRuns, SeenAtTerm, Unseen
<1>. QED
  BY <1>1, <1>2, <1>3, <1>4

LEMMA NativeUnseen ==
    ASSUME IInv, ChainLoad \/ ChainStore \/ Epilogue \/ Unpark \/ RequestStop
    PROVE  UNCHANGED G!vars
<1>. USE DEF guest, native, blocks, safety, calls
<1>1. CASE ChainLoad
  <2>1. /\ at = "load" /\ at' = "store" /\ UNCHANGED <<runs, cache, cur, live, code, ccr, stack, resume>>
    BY <1>1 DEF ChainLoad
  <2>2. GuestPhase = "body" /\ GuestPhase' = "body"
    BY <2>1 DEF GuestPhase
  <2>3. GuestPc' = GuestPc /\ GuestRegs' = GuestRegs
    <3>1. runs # <<>>
      BY <2>1, SeenInBlock DEF Native
    <3>2. runs' = runs /\ cache' = cache /\ cur' = cur /\ live' = live
      BY <2>1
    <3>. QED
      BY <2>1, <3>1, <3>2 DEF GuestPc, GuestRegs, Native
  <2>. QED
    BY <2>1, <2>2, <2>3, SameRuns, Unseen
<1>2. CASE ChainStore
  <2>1. /\ at = "store" /\ UNCHANGED <<runs, cache, cur, live, code, ccr, stack, resume>>
    BY <1>2 DEF ChainStore
  <2>2. cache[cur].pc # Wild /\ runs # <<>>
    BY <2>1, SeenInBlock, AddressAssumption DEF Native
  <2>3. at' = "body" \/ (at' = "epilogue" /\ Parked')
    BY <1>2, <2>2 DEF ChainStore, Parked
  <2>4. GuestPhase' = "body" /\ GuestPc' = GuestPc /\ GuestRegs' = GuestRegs
    BY <2>1, <2>2, <2>3 DEF GuestPc, GuestPhase, GuestRegs, Native
  <2>5. GuestPhase = "body"
    BY <2>1 DEF GuestPhase
  <2>. QED
    BY <2>1, <2>4, <2>5, SameRuns, Unseen
<1>3. CASE Epilogue
  <2>1. /\ at = "epilogue" /\ at' = "back" /\ mem' = live /\ held'.block = cur
        /\ UNCHANGED <<runs, cache, code, ccr, stack, resume, yielded>>
    BY <1>3 DEF Epilogue
  <2>2. /\ runs # <<>> /\ GuestPc = cache[cur].pc /\ GuestRegs = live
    BY <2>1, SeenInBlock DEF Native
  <2>3. GuestPc' = cache[cur].pc
    BY <2>1, <2>2 DEF GuestPc, Native, IInv, ParkedThere, Parked
  <2>4. GuestPhase' = GuestPhase /\ GuestRegs' = live
    BY <2>1 DEF GuestPhase, GuestRegs, Native, Parked
  <2>. QED
    BY <2>1, <2>2, <2>3, <2>4, SameRuns, Unseen
<1>4. CASE Unpark
  <2>1. /\ at = "back" /\ at' = "top" /\ Parked /\ pc' = yielded
        /\ UNCHANGED <<mem, runs, code, ccr, stack, resume>>
    BY <1>4 DEF Unpark
  <2>2. runs # <<>>
    BY <2>1 DEF IInv, TypeOK, CallsType
  <2>3. GuestPc = yielded /\ GuestPhase = "body" /\ GuestRegs = mem
    BY <2>1, <2>2 DEF GuestPc, GuestPhase, GuestRegs, Native
  <2>. QED
    BY <2>1, <2>2, <2>3, SameRuns, SeenInDispatchNext, Unseen
<1>5. CASE RequestStop
  BY <1>5, SameRuns, Unseen DEF RequestStop, GuestPc, GuestPhase, GuestRegs, Parked
<1>. QED
  BY <1>1, <1>2, <1>3, <1>4, <1>5

-----------------------------------------------------------------------------
(* Steps of translated code *)

LEMMA BodySeen == ASSUME IInv, Body PROVE G!Body
<1>. USE DEF guest, native, blocks, safety, calls
<1>1. /\ at = "body" /\ at' = "tail" /\ live' = cache[cur].code.calc[live]
      /\ UNCHANGED <<runs, resume, code, stack, cache, cur>>
      /\ IF cache[cur].code.flags = {} THEN UNCHANGED ccr ELSE ccr' \in cache[cur].code.flags
  BY DEF Body
<1>2. /\ runs # <<>> /\ GuestPc = cache[cur].pc /\ GuestPc \in Pc
      /\ GuestRegs = live /\ cache[cur].code = code[GuestPc]
  BY <1>1, SeenInBlock DEF Native
<1>3. GuestPc' = GuestPc /\ GuestPhase = "body" /\ GuestPhase' = "term" /\ GuestRegs' = live'
  BY <1>1, <1>2 DEF GuestPc, GuestPhase, GuestRegs, Native
<1>. QED
  BY <1>1, <1>2, <1>3, SameRuns, SeenRuns DEF G!Body, G!Test

LEMMA TailSlotSeen == ASSUME IInv, TailSlot PROVE G!Jump \/ G!Branch \/ UNCHANGED G!vars
<1>. USE DEF guest, native, blocks, safety, calls
<1>1. /\ at = "tail" /\ UNCHANGED <<runs, resume, code, stack, cache, live, ccr, yielded>>
  BY DEF TailSlot
<1>2. /\ runs # <<>> /\ GuestPc = cache[cur].pc /\ GuestPc \in Pc /\ cur \in Index
      /\ GuestRegs = live /\ cache[cur].code = code[GuestPc] /\ GuestPhase = "term"
  BY <1>1, SeenInBlock DEF Native, GuestPhase
<1>3. CASE at' = "epilogue" /\ UNCHANGED cur
  <2>1. ~Parked
    BY <1>1 DEF IInv, ParkedThere
  <2>2. GuestPc' = GuestPc /\ GuestPhase' = "term" /\ GuestRegs' = live
    BY <1>1, <1>2, <1>3, <2>1 DEF GuestPc, GuestPhase, GuestRegs, Native, Parked
  <2>. QED
    BY <1>1, <1>2, <2>2, SameRuns, Unseen
<1>4. CASE Slots(cache[cur]) # {} /\ Leads(cache[cur]) # 0 /\ at' = "load" /\ cur' = Leads(cache[cur])
  <2>1. GuestPc' = cache[Leads(cache[cur])].pc /\ GuestPhase' = "body" /\ GuestRegs' = GuestRegs
    BY <1>1, <1>2, <1>4 DEF GuestPc, GuestPhase, GuestRegs, Native
  <2>2. G!T = cache[cur].code.term
    BY <1>2 DEF G!T
  <2>3. CASE /\ cache[cur].code.term.kind = "jmp"
             /\ cache[Leads(cache[cur])].pc = cache[cur].code.term.to
    BY <1>1, <1>2, <2>1, <2>2, <2>3, SameRuns, SeenRuns DEF G!Jump, G!At, G!Continue
  <2>4. CASE /\ cache[cur].code.term.kind = "bcc"
             /\ cache[Leads(cache[cur])].pc =
                  IF CondBool(cache[cur].code.term.cc, ccr)
                  THEN cache[cur].code.term.to ELSE cache[cur].code.term.after
    <3>1. GuestPc' = IF G!BccTaken(G!T.cc, ccr) THEN G!T.to ELSE G!T.after
      BY <2>1, <2>2, <2>4, Conditions
    <3>. QED
      BY <1>1, <1>2, <2>1, <2>2, <2>4, <3>1, SameRuns, SeenRuns DEF G!Branch, G!At, G!Continue
  <2>. QED
    BY <1>1, <1>4, <2>3, <2>4, NextBlock
<1>. QED
  BY <1>3, <1>4 DEF TailSlot

-----------------------------------------------------------------------------
(* Steps of the dispatcher *)

LEMMA StartSeen == ASSUME IInv, NEW e \in Pc, Start(e) PROVE G!Begin(e)
<1>. USE DEF guest, native, blocks, safety, calls
<1>1. /\ runs = <<>> /\ resume = None /\ resume' = None /\ stack' = <<>> /\ pc' = e /\ at' = "top"
      /\ runs' = <<[base |-> 0, back |-> Wild, held |-> held]>> /\ UNCHANGED <<code, mem, ccr>>
      /\ at = "idle"
  BY DEF Start, IInv, TypeOK, CallsType
<1>2. GuestRuns = <<>> /\ GuestRegs = mem
  BY <1>1 DEF GuestRuns, GuestRegs, Native
<1>3. runs' # <<>> /\ GuestRuns' = <<[base |-> 0, back |-> Wild]>>
  BY <1>1 DEF GuestRuns
<1>. QED
  BY <1>1, <1>2, <1>3, SeenInDispatchNext DEF G!Begin, G!Running, G!Continue

LEMMA AbortSeen ==
    ASSUME IInv, runs # <<>>, Leave, mem' \in G!RegFile, UNCHANGED <<code, ccr>>,
           stack' = SubSeq(stack, 1, Least(Base, Len(stack)))
    PROVE  G!Abort
<1>1. at' \in {"idle", "link"}
  BY DEF Leave
<1>2. GuestRegs' = mem'
  BY <1>1 DEF GuestRegs, Native
<1>. QED
  BY <1>1, <1>2, LeaveRuns, SeenRuns DEF G!Abort, Least

LEMMA FailSeen == ASSUME IInv, Fail PROVE G!Abort
<1>1. runs # <<>>
  BY DEF Fail, IInv, TypeOK, CallsType
<1>. QED
  BY <1>1, AbortSeen DEF Fail

LEMMA PollSeen == ASSUME IInv, Poll PROVE G!Abort \/ UNCHANGED G!vars
<1>. USE DEF guest, native, blocks, safety, calls
<1>1. runs # <<>> /\ at = "poll" /\ UNCHANGED <<code, ccr>>
  BY DEF Poll, IInv, TypeOK, CallsType
<1>2. CASE at' = "fetch" /\ UNCHANGED <<stack, mem, pc, held, calls>>
  BY <1>1, <1>2, SameRuns, SeenInDispatch, SeenInDispatchNext, Unseen
<1>3. CASE Yield(pc) /\ UNCHANGED <<stack, mem, held>>
  <2>1. pc \in G!Target /\ at' = "idle"
    BY <1>3 DEF IInv, TypeOK, ThreadType, Yield
  <2>2. GuestRegs' = mem
    BY <1>3, <2>1 DEF GuestRegs, Native
  <2>. QED
    BY <1>1, <1>3, <2>1, <2>2, YieldRuns, SeenInDispatch, Unseen
<1>4. CASE Leave /\ mem' \in G!RegFile /\ stack' = SubSeq(stack, 1, Least(Base, Len(stack)))
  BY <1>1, <1>4, AbortSeen
<1>. QED
  BY <1>2, <1>3, <1>4 DEF Poll

LEMMA BusErrorSeen == ASSUME IInv, BusError PROVE G!BusError
<1>. USE DEF guest, native, blocks, safety, calls
<1>1. /\ runs # <<>> /\ runs' = runs /\ resume' = resume /\ at = "fetch" /\ at' = "top"
      /\ pc = Wild /\ pc' = Handler /\ UNCHANGED <<code, mem, ccr>> /\ Push(Wild, "exception")
  BY DEF BusError, IInv, TypeOK, CallsType
<1>. QED
  BY <1>1, SameRuns, SeenRuns, SeenInDispatch, SeenInDispatchNext
  DEF G!BusError, G!Continue, G!Push, Push

(* What the dispatcher's terminators have in common. *)
LEMMA TermSeen ==
    ASSUME IInv, NEW k, Decodes(k), runs' = runs, resume' = resume,
           NEW x, Goto(x)
    PROVE  /\ G!At(k) /\ G!Continue(x) /\ GuestRuns' = GuestRuns /\ G!T = T
           /\ GuestRegs = mem /\ GuestRegs' = mem' /\ code[GuestPc] = code[cache[held.block].pc]
           /\ G!Base = Base
<1>1. at = "back" /\ ~Parked /\ T.kind = k /\ pc' = x /\ at' = "link"
  BY DEF Decodes, Goto
<1>2. /\ runs # <<>> /\ GuestPc = cache[held.block].pc /\ GuestPc \in Pc
      /\ GuestPhase = "term" /\ GuestRegs = mem /\ G!T = T
  BY <1>1, SeenAtTerm
<1>3. GuestPc' = x /\ GuestPhase' = "body" /\ GuestRegs' = mem'
  BY <1>1, <1>2, SeenInDispatchNext
<1>. QED
  BY <1>1, <1>2, <1>3, SameRuns, SeenRuns DEF G!At, G!Continue

LEMMA JumpSeen == ASSUME IInv, Jump PROVE G!Jump
BY TermSeen DEF Jump, G!Jump, guest, calls

LEMMA BranchSeen == ASSUME IInv, Branch PROVE G!Branch
<1> DEFINE x == IF G!BccTaken(T.cc, ccr) THEN T.to ELSE T.after
<1>1. /\ Decodes("bcc") /\ Goto(x) /\ UNCHANGED <<runs, resume, code, ccr, stack, mem>>
  BY DEF Branch, guest, calls
<1>2. /\ G!At("bcc") /\ G!Continue(x) /\ GuestRuns' = GuestRuns /\ G!T = T
      /\ GuestRegs = mem /\ GuestRegs' = mem'
  <2>. HIDE DEF x
  <2>. QED
    BY <1>1, TermSeen
<1>. QED
  BY <1>1, <1>2 DEF G!Branch

LEMMA OwnSeen == ASSUME IInv, Own PROVE G!Own
BY TermSeen DEF Own, G!Own, G!Test, guest, calls

LEMMA CallSeen == ASSUME IInv, Call PROVE G!Call
BY TermSeen DEF Call, G!Call, Push, G!Push, guest, calls

LEMMA TrapSeen == ASSUME IInv, Trap PROVE G!Trap
BY TermSeen DEF Trap, G!Trap, Push, G!Push, guest, calls

LEMMA UnstackSeen ==
    ASSUME IInv, NEW kind, Decodes(kind), NEW k, Unstack(k)
    PROVE  /\ G!At(kind) /\ G!Unstack(k) /\ GuestRuns' = GuestRuns /\ G!Base = Base
           /\ GuestRegs' = GuestRegs
<1> DEFINE x == IF stack[Len(stack)].kind = k THEN stack[Len(stack)].pc ELSE Wild
<1>1. /\ Goto(x) /\ UNCHANGED <<runs, resume, mem>> /\ stack # <<>>
      /\ stack' = SubSeq(stack, 1, Len(stack) - 1)
  BY DEF Unstack, calls
<1>2. /\ G!At(kind) /\ G!Continue(x) /\ GuestRuns' = GuestRuns /\ G!Base = Base
      /\ GuestRegs = mem /\ GuestRegs' = mem'
  <2>. HIDE DEF x
  <2>. QED
    BY <1>1, TermSeen
<1>. QED
  BY <1>1, <1>2 DEF G!Unstack, G!Top, G!Pop

LEMMA RtsSeen == ASSUME IInv, Rts PROVE G!Rts
BY UnstackSeen DEF Rts, G!Rts, Unstack

LEMMA RteSeen == ASSUME IInv, Rte PROVE G!Rte
BY UnstackSeen DEF Rte, G!Rte, G!Top, Unstack

LEMMA ExitSeen == ASSUME IInv, Exit PROVE G!Exit
<1>. USE DEF guest, native, blocks, safety, calls
<1>1. /\ at = "back" /\ ~Parked /\ T.kind = "rts" /\ Leave /\ Len(stack) <= Base
      /\ IF Len(runs) = 1 THEN UNCHANGED mem ELSE mem' \in G!RegFile
      /\ UNCHANGED <<code, stack, ccr>> /\ at' \in {"idle", "link"}
  BY DEF Exit, Decodes, Leave
<1>2. /\ runs # <<>> /\ GuestPc \in Pc /\ GuestPhase = "term" /\ GuestRegs = mem /\ G!T = T
  BY <1>1, SeenAtTerm
<1>3. GuestRegs' = mem'
  BY <1>1 DEF GuestRegs, Native
<1>. QED
  BY <1>1, <1>2, <1>3, LeaveRuns, SeenRuns DEF G!Exit, G!At

-----------------------------------------------------------------------------
(* Library calls *)

LEMMA BridgeSeen ==
    ASSUME IInv, at = "bridge"
    PROVE  /\ G!At("lib") /\ runs # <<>> /\ GuestRegs = mem /\ G!T = T
           /\ T.after \in G!Target
<1>1. T.kind = "lib"
  BY DEF IInv, InCall
<1>. QED
  BY <1>1, SeenAtTerm, SeenRuns, TermFacts DEF G!At, IInv

LEMMA ServedSeen ==
    ASSUME IInv, Served \/ UnLoadSeg \/ CacheClear \/ \E x \in Pc : Redirect(x)
    PROVE  G!Library
<1>. USE DEF guest, native, blocks, safety, calls
<1>1. at = "bridge" /\ at' = "link" /\ runs' = runs /\ resume' = resume /\ UNCHANGED ccr
  BY DEF Served, UnLoadSeg, CacheClear, Redirect, Goto
<1>2. G!At("lib") /\ runs # <<>> /\ GuestRegs = mem /\ G!T = T
  BY <1>1, BridgeSeen
<1>3. GuestPc' = pc' /\ GuestPhase' = "body" /\ GuestRegs' = mem' /\ GuestRuns' = GuestRuns
  BY <1>1, <1>2, SeenInDispatchNext, SameRuns
<1>4. mem' \in G!RegFile
  BY DEF Served, UnLoadSeg, CacheClear, Redirect, IInv, TypeOK, GuestType
<1>5. CASE Served \/ UnLoadSeg
  BY <1>1, <1>2, <1>3, <1>4, <1>5 DEF Served, UnLoadSeg, Goto, G!Library, G!Continue
<1>6. CASE CacheClear \/ \E x \in Pc : Redirect(x)
  <2>1. /\ Push(T.after, "call") /\ \E x \in Pc : pc' = x
        /\ code' = code \/ code' \in Programs
    BY <1>6, AddressAssumption DEF CacheClear, Redirect, Goto
  <2>. QED
    BY <1>1, <1>2, <1>3, <1>4, <2>1 DEF G!Library, G!Continue, G!Push, Push
<1>. QED
  BY <1>5, <1>6

LEMMA BlockedSeen == ASSUME IInv, Blocked PROVE G!Library
<1>. USE DEF guest, native, blocks, safety, calls
<1>1. at = "bridge" /\ Yield(T.after) /\ mem' \in G!RegFile /\ UNCHANGED <<code, stack, ccr>>
  BY DEF Blocked
<1>2. G!At("lib") /\ runs # <<>> /\ GuestRegs = mem /\ G!T = T /\ T.after \in G!Target
  BY <1>1, BridgeSeen
<1>3. GuestRuns' = GuestRuns /\ GuestPc' = T.after /\ GuestPhase' = "body"
  <2> DEFINE x == T.after
  <2>1. x \in G!Target /\ Yield(x)
    BY <1>1, <1>2
  <2>. HIDE DEF x
  <2>2. GuestRuns' = GuestRuns /\ GuestPc' = x /\ GuestPhase' = "body"
    BY <1>2, <2>1, YieldRuns
  <2>. QED
    BY <2>2 DEF x
<1>4. GuestRegs' = mem'
  BY <1>1 DEF GuestRegs, Native, Yield
<1>. QED
  BY <1>1, <1>2, <1>3, <1>4 DEF G!Library, G!Continue

LEMMA HookSeen == ASSUME IInv, NEW e \in Pc, Hook(e) PROVE G!Hook(e)
<1>. USE DEF guest, native, blocks, safety, calls
<1>1. /\ at = "bridge" /\ Len(runs) < NestMax /\ pc' = e /\ at' = "top"
      /\ runs' = Append(runs, [base |-> Len(stack), back |-> T.after, held |-> held])
      /\ UNCHANGED <<code, stack, mem, ccr>>
  BY DEF Hook
<1>2. G!At("lib") /\ runs # <<>> /\ GuestRegs = mem /\ G!T = T /\ T.after \in G!Target
  BY <1>1, BridgeSeen
<1>3. Len(stack) \in Nat /\ held \in Pointer
  BY DEF IInv, TypeOK, GuestType, ThreadType
<1>4. runs' # <<>> /\ GuestRuns' = Append(GuestRuns, [base |-> Len(stack), back |-> T.after])
  <2> DEFINE x == T.after  n == Len(stack)
  <2>1. /\ x \in G!Target /\ n \in Nat
        /\ runs' = Append(runs, [base |-> n, back |-> x, held |-> held])
    BY <1>1, <1>2, <1>3
  <2>. HIDE DEF x, n
  <2>2. runs' # <<>> /\ GuestRuns' = Append(GuestRuns, [base |-> n, back |-> x])
    BY <1>2, <1>3, <2>1, HookRuns
  <2>. QED
    BY <2>2 DEF x, n
<1>. QED
  BY <1>1, <1>2, <1>4, SeenInDispatchNext, SeenRuns DEF G!Hook, G!Continue

-----------------------------------------------------------------------------
LEMMA InitSeen == ASSUME Init PROVE G!Init
<1>1. /\ code \in Programs /\ stack = <<>> /\ mem \in G!RegFile /\ ccr = {} /\ at = "idle"
      /\ runs = <<>> /\ resume = None
  BY DEF Init
<1>2. GuestPc = Wild /\ GuestPhase = "body" /\ GuestRegs = mem /\ GuestRuns = <<>>
  BY <1>1 DEF GuestPc, GuestPhase, GuestRegs, GuestRuns, Native
<1>. QED
  BY <1>1, <1>2 DEF G!Init

(* The chained, cached, interrupted and resumed execution of translated code
   is an execution of the program, by a machine that has no blocks, no cache
   and no safe points: the same registers, condition codes, stack and path,
   for every program (j5d_run). *)
THEOREM EngineRunsTheProgram == Spec => RunsTheProgram
<1>1. ASSUME IInv, [Next]_vars PROVE [G!Next]_(G!vars)
  <2>1. CASE UNCHANGED vars
    BY <2>1 DEF vars, guest, native, blocks, safety, calls, G!vars, GuestPc, GuestPhase,
                GuestRegs, GuestRuns, Parked
  <2>2. CASE Resume \/ Reload \/ Proceed \/ Hit \/ Translate \/ CallLibrary \/ Link
    BY <1>1, <2>2, DispatcherUnseen
  <2>3. CASE ChainLoad \/ ChainStore \/ Epilogue \/ Unpark \/ RequestStop
    BY <1>1, <2>3, NativeUnseen
  <2>4. CASE Body \/ TailSlot
    BY <1>1, <2>4, BodySeen, TailSlotSeen DEF G!Next
  <2>5. CASE Fail \/ Poll
    BY <1>1, <2>5, FailSeen, PollSeen DEF G!Next
  <2>6. CASE BusError \/ Jump \/ Branch \/ Own \/ Call \/ Trap \/ Rts \/ Rte \/ Exit
    BY <1>1, <2>6, BusErrorSeen, JumpSeen, BranchSeen, OwnSeen, CallSeen, TrapSeen, RtsSeen,
       RteSeen, ExitSeen DEF G!Next
  <2>7. CASE Served \/ UnLoadSeg \/ CacheClear \/ Blocked \/ \E x \in Pc : Redirect(x)
    BY <1>1, <2>7, ServedSeen, BlockedSeen DEF G!Next
  <2>8. CASE \E x \in Pc : Hook(x) \/ Start(x)
    BY <1>1, <2>8, HookSeen, StartSeen DEF G!Next
  <2>. QED
    BY <1>1, <2>1, <2>2, <2>3, <2>4, <2>5, <2>6, <2>7, <2>8 DEF Next, Engine, Embedder
<1>. QED
  BY <1>1, InitSeen, Inductive, PTL DEF Spec, RunsTheProgram, G!Spec

=============================================================================
