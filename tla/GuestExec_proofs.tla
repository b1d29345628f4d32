-------------------------- MODULE GuestExec_proofs --------------------------
(***************************************************************************)
(* Proofs about GuestExec, for every number of contexts, every set of      *)
(* signals and calls, and every bound.                                     *)
(***************************************************************************)
EXTENDS GuestExec, TLAPS, SequenceTheorems, FiniteSetTheorems

(* How many contexts the table holds, the root counted before it is adopted. *)
Bound(n) == IF n = 0 THEN 1 ELSE n

(* What is true of a C stack st, the context table cx and its length n:     *)
(* whichever context has a turn is marked and has one turn, the root's run  *)
(* is the oldest, and only contexts of the table are named.                 *)
StackInv(st, cx, n) ==
  /\ st \in Seq(Frame)
  /\ \A i \in 1 .. Len(st) :
        st[i].k = "turn" => /\ cx[st[i].c].onStack
                            /\ st[i].c < Bound(n) /\ st[i].outer < Bound(n)
  /\ \A i, j \in 1 .. Len(st) :
        st[i].k = "turn" /\ st[j].k = "turn" /\ st[i].c = st[j].c => i = j
  /\ \A i \in 1 .. Len(st) : st[i].k = "root" => i = 1

(* The slots behind the last context are unused.                            *)
TableInv(cx, n, c) ==
  /\ cx \in [Ctx -> ContextRecord]
  /\ n \in 0 .. MaxCtx /\ n # 1
  /\ c \in Ctx /\ c < Bound(n)
  /\ \A i \in Ctx : i >= Bound(n) => ~cx[i].onStack

(* The types of the variables the two parts above do not mention.           *)
RestOK ==
  /\ engine \in Ctx \cup {None}
  /\ eng \in [Ctx -> EngineRecord]
  /\ sig \in [Ctx -> SUBSET Signals] /\ native \subseteq Sources
  /\ depth \in 0 .. CallbackMax /\ command \in Nat
  /\ err \in BOOLEAN /\ rootFinished \in BOOLEAN /\ kill \in BOOLEAN
  /\ run \in {"live", "done", "stopped", "undefined"}
  /\ faulted \subseteq Ctx

IndInv == StackInv(stack, ctx, nctx) /\ TableInv(ctx, nctx, cur) /\ RestOK

-----------------------------------------------------------------------------
(* Sequences: cutting a stack back, and putting a frame on it.              *)

(* Cutting a C stack at one of its frames keeps the frames below. *)
LEMMA CutFacts ==
  ASSUME NEW S, NEW st \in Seq(S), NEW m \in 0 .. Len(st)
  PROVE  /\ SubSeq(st, 1, m) \in Seq(S)
         /\ Len(SubSeq(st, 1, m)) = m
         /\ \A i \in 1 .. m : SubSeq(st, 1, m)[i] = st[i]
<1>1. Len(st) \in Nat
  BY LenProperties
<1>2. \A i \in 1 .. m : st[i] \in S
  BY <1>1, ElementOfSeq
<1>3. QED
  BY <1>1, <1>2, SubSeqProperties

(* The top frame of a C stack that is not empty is one of its frames. *)
LEMMA TopFacts ==
  ASSUME stack \in Seq(Frame), stack # <<>>
  PROVE  /\ Len(stack) \in Nat \ {0}
         /\ Top \in Frame
<1>1. Len(stack) \in Nat \ {0}
  BY EmptySeq
<1>2. Len(stack) \in 1 .. Len(stack)
  BY <1>1
<1>3. QED
  BY <1>1, <1>2, ElementOfSeq DEF Top

(* Popping the top frame leaves the others where they were. *)
LEMMA BelowFacts ==
  ASSUME stack \in Seq(Frame), stack # <<>>
  PROVE  /\ Below \in Seq(Frame)
         /\ Len(Below) = Len(stack) - 1
         /\ \A i \in 1 .. Len(stack) - 1 : Below[i] = stack[i]
<1>1. Len(stack) \in Nat \ {0}
  BY TopFacts
<1>2. Len(stack) - 1 \in 0 .. Len(stack)
  BY <1>1
<1>3. QED
  BY <1>2, CutFacts DEF Below

(* The shape of the frames of each kind.                                    *)
LEMMA FrameShapes ==
  ASSUME NEW f \in Frame
  PROVE  /\ f.k = "turn" => f \in TurnFrames
         /\ f.k = "sched" => f \in SchedFrames
         /\ f.k = "delay" => f \in DelayFrames
         /\ f.k = "wait" => f \in WaitFrames
BY DEF Frame, TurnFrames, SchedFrames, DelayFrames, WaitFrames

-----------------------------------------------------------------------------
(* How the invariant of the stack moves with the stack.                     *)

(* Unwinding the C stack to a frame keeps what its turns satisfy. *)
LEMMA CutKeeps ==
  ASSUME NEW st, NEW cx, NEW n, StackInv(st, cx, n), NEW m \in 0 .. Len(st)
  PROVE  StackInv(SubSeq(st, 1, m), cx, n)
<1>1. st \in Seq(Frame) /\ Len(st) \in Nat
  BY LenProperties DEF StackInv
<1>2. /\ SubSeq(st, 1, m) \in Seq(Frame)
      /\ Len(SubSeq(st, 1, m)) = m
      /\ \A i \in 1 .. m : SubSeq(st, 1, m)[i] = st[i]
  BY <1>1, CutFacts
<1>3. \A i \in 1 .. m : i \in 1 .. Len(st)
  BY <1>1
<1>4. QED
  BY <1>2, <1>3 DEF StackInv

(* Pushing a frame that is no turn keeps what the turns satisfy. *)
LEMMA PushKeeps ==
  ASSUME NEW st, NEW cx, NEW n, StackInv(st, cx, n),
         NEW f \in Frame, f.k \notin {"turn", "root"}
  PROVE  StackInv(Append(st, f), cx, n)
<1> DEFINE s == Append(st, f)
<1>1. st \in Seq(Frame) /\ Len(st) \in Nat
  BY LenProperties DEF StackInv
<1>2. /\ s \in Seq(Frame)
      /\ Len(s) = Len(st) + 1
      /\ \A i \in 1 .. Len(st) : s[i] = st[i]
      /\ s[Len(st) + 1] = f
  BY <1>1, AppendProperties
<1> HIDE DEF s
<1>3. \A i \in 1 .. Len(s) : s[i].k \in {"turn", "root"} => i \in 1 .. Len(st) /\ s[i] = st[i]
  BY <1>1, <1>2
<1>4. StackInv(s, cx, n)
  BY <1>2, <1>3 DEF StackInv
<1>5. QED
  BY <1>4 DEF s

(* A table in which no mark was taken away, and which did not shrink.       *)
LEMMA MarksKept ==
  ASSUME NEW st, NEW cx, NEW n \in Nat, NEW cy, NEW m \in Nat, StackInv(st, cx, n),
         Bound(n) <= Bound(m),
         \A i \in Ctx : cx[i].onStack => cy[i].onStack
  PROVE  StackInv(st, cy, m)
<1>1. \A i \in 1 .. Len(st) : st[i].k = "turn" => st[i].c \in Ctx /\ st[i].outer \in Ctx
  BY FrameShapes, ElementOfSeq DEF StackInv, TurnFrames
<1>2. \A a \in Ctx : a < Bound(n) => a < Bound(m)
  BY DEF Ctx, Bound
<1>3. QED
  BY <1>1, <1>2 DEF StackInv

(* A turn for an unmarked context of the table.                             *)
LEMMA TurnKeeps ==
  ASSUME NEW st, NEW cx, NEW n, StackInv(st, cx, n), NEW cy,
         NEW i \in Ctx, NEW o \in Ctx, i < Bound(n), o < Bound(n), ~cx[i].onStack,
         cy[i].onStack, \A j \in Ctx \ {i} : cy[j].onStack = cx[j].onStack
  PROVE  StackInv(Append(st, TurnFrame(i, o)), cy, n)
<1> DEFINE f == TurnFrame(i, o)
<1> DEFINE s == Append(st, f)
<1>0. f \in Frame /\ f.k = "turn" /\ f.c = i /\ f.outer = o
  BY DEF TurnFrame, Frame, TurnFrames
<1>1. st \in Seq(Frame) /\ Len(st) \in Nat
  BY LenProperties DEF StackInv
<1>2. /\ s \in Seq(Frame)
      /\ Len(s) = Len(st) + 1
      /\ \A j \in 1 .. Len(st) : s[j] = st[j]
      /\ s[Len(st) + 1] = f
  BY <1>0, <1>1, AppendProperties
<1> HIDE DEF s, f
<1>3. \A j \in 1 .. Len(s) : j = Len(st) + 1 \/ (j \in 1 .. Len(st) /\ s[j] = st[j])
  BY <1>1, <1>2
<1>4. \A j \in 1 .. Len(st) : st[j].k = "turn" => st[j].c \in Ctx \ {i}
  BY FrameShapes, ElementOfSeq, <1>1 DEF StackInv, TurnFrames
<1>5. \A j \in 1 .. Len(s) :
         s[j].k = "turn" => cy[s[j].c].onStack /\ s[j].c < Bound(n) /\ s[j].outer < Bound(n)
  BY <1>0, <1>2, <1>3, <1>4 DEF StackInv
<1>6. \A j, k \in 1 .. Len(s) :
         s[j].k = "turn" /\ s[k].k = "turn" /\ s[j].c = s[k].c => j = k
  BY <1>0, <1>2, <1>3, <1>4 DEF StackInv
<1>7. \A j \in 1 .. Len(s) : s[j].k = "root" => j = 1
  BY <1>0, <1>2, <1>3 DEF StackInv
<1>8. StackInv(s, cy, n)
  BY <1>2, <1>5, <1>6, <1>7 DEF StackInv
<1>9. QED
  BY <1>8 DEF s, f

(* The stack cut back under a turn, whose mark is taken away.               *)
LEMMA CutUnderTurn ==
  ASSUME NEW st, NEW cx, NEW n, StackInv(st, cx, n), NEW cy,
         NEW m \in 1 .. Len(st), st[m].k = "turn",
         \A j \in Ctx \ {st[m].c} : cy[j].onStack = cx[j].onStack
  PROVE  StackInv(SubSeq(st, 1, m - 1), cy, n)
<1> DEFINE s == SubSeq(st, 1, m - 1)
<1>1. st \in Seq(Frame) /\ Len(st) \in Nat
  BY LenProperties DEF StackInv
<1>2. /\ s \in Seq(Frame)
      /\ Len(s) = m - 1
      /\ \A i \in 1 .. m - 1 : s[i] = st[i]
  BY <1>1, CutFacts
<1> HIDE DEF s
<1>3. \A i \in 1 .. Len(s) : i \in 1 .. Len(st) /\ i # m /\ s[i] = st[i]
  BY <1>1, <1>2
<1>4. \A i \in 1 .. Len(s) : s[i].k = "turn" => s[i].c \in Ctx \ {st[m].c}
  BY <1>3, FrameShapes, ElementOfSeq, <1>1 DEF StackInv, TurnFrames
<1>5. \A i \in 1 .. Len(s) :
         s[i].k = "turn" => cy[s[i].c].onStack /\ s[i].c < Bound(n) /\ s[i].outer < Bound(n)
  <2>1. \A i \in 1 .. Len(s) : s[i].k = "turn" => cy[s[i].c].onStack = cx[s[i].c].onStack
    BY <1>4
  <2>2. QED
    BY <1>3, <2>1 DEF StackInv
<1>6. \A i, j \in 1 .. Len(s) :
         s[i].k = "turn" /\ s[j].k = "turn" /\ s[i].c = s[j].c => i = j
  BY <1>3 DEF StackInv
<1>7. \A i \in 1 .. Len(s) : s[i].k = "root" => i = 1
  BY <1>3 DEF StackInv
<1>8. StackInv(s, cy, n)
  BY <1>2, <1>5, <1>6, <1>7 DEF StackInv
<1>9. QED
  BY <1>8 DEF s

(* With nothing on the C stack there is no turn to account for. *)
LEMMA EmptyStack ==
  ASSUME NEW cx, NEW n
  PROVE  StackInv(<<>>, cx, n)
BY EmptySeq DEF StackInv

-----------------------------------------------------------------------------
(* Pushing and popping C frames leaves the tables alone.                    *)
LEMMA PopKeeps ==
  ASSUME IndInv, stack # <<>>
  PROVE  StackInv(Below, ctx, nctx)
<1>1. Len(stack) - 1 \in 0 .. Len(stack)
  BY TopFacts DEF IndInv, StackInv
<1>2. QED
  BY <1>1, CutKeeps DEF IndInv, Below

(* Advancing a loop frame in place keeps what the turns satisfy. *)
LEMMA UpdateKeeps ==
  ASSUME IndInv, stack # <<>>, NEW f \in Frame, f.k \notin {"turn", "root"}
  PROVE  StackInv(Update(f), ctx, nctx)
BY PopKeeps, PushKeeps DEF Update

(* Polls and signals.                                                       *)
LEMMA SetPollType ==
  ASSUME NEW es \in [Ctx -> EngineRecord], NEW e, NEW p \in {"quantum", "context", "nested"}
  PROVE  SetPoll(es, e, p) \in [Ctx -> EngineRecord]
BY DEF SetPoll, EngineRecord

(* Polling and counting a roundtrip keep the engines' type. *)
LEMMA CountdownTypes ==
  ASSUME IndInv
  PROVE  Polled \in [Ctx -> EngineRecord] /\ Ticked \in [Ctx -> EngineRecord]
<1>1. eng \in [Ctx -> EngineRecord]
  BY DEF IndInv, RestOK
<1>2. Polled \in [Ctx -> EngineRecord]
  BY <1>1 DEF Polled, EngineRecord
<1>3. [eng EXCEPT ![engine].count = @ + 1] \in [Ctx -> EngineRecord]
  <2>1. CASE engine \in Ctx
    <3>1. eng[engine] \in EngineRecord /\ eng[engine].count + 1 \in Nat
      BY <1>1, <2>1 DEF EngineRecord
    <3>2. [eng[engine] EXCEPT !.count = @ + 1] \in EngineRecord
      BY <3>1 DEF EngineRecord
    <3>3. QED
      BY <1>1, <2>1, <3>2
  <2>2. CASE engine \notin Ctx
    BY <1>1, <2>2
  <2>3. QED
    BY <2>1, <2>2
<1>4. QED
  BY <1>2, <1>3 DEF Ticked

(* Recording a continuation keeps the engines' type. *)
LEMMA RecordedType ==
  ASSUME IndInv, stack # <<>>
  PROVE  Recorded \in [Ctx -> EngineRecord]
<1> DEFINE v == CASE Top.k = "turn" -> Top.c [] Top.k = "root" -> 0 [] OTHER -> Nested
<1>1. Top \in Frame
  BY TopFacts DEF IndInv, StackInv
<1>2. v \in Ctx \cup {None, Nested}
  BY <1>1, FrameShapes, ContextsAssumption DEF TurnFrames, Ctx
<1> HIDE DEF v
<1>3. [Polled EXCEPT ![engine].resume = v] \in [Ctx -> EngineRecord]
  BY <1>2, CountdownTypes DEF EngineRecord
<1>4. QED
  BY <1>3 DEF Recorded, v

(* Pumping native sources keeps the received signals' type. *)
LEMMA SigPumpedType ==
  ASSUME IndInv, NEW mask
  PROVE  SigPumped(mask) \in [Ctx -> SUBSET Signals]
BY SignalsAssumption DEF IndInv, RestOK, SigPumped

-----------------------------------------------------------------------------
(* Entering and leaving the runs.                                           *)

(* A turn is entered only by an unmarked context of the table.              *)
LEMMA StartTurnKeeps ==
  ASSUME IndInv, NEW i \in Ctx, NEW below, NEW sigs \in [Ctx -> SUBSET Signals],
         StackInv(below, ctx, nctx), StartTurn(i, below, sigs),
         nctx' \in 0 .. MaxCtx, nctx' # 1, Bound(nctx) <= Bound(nctx'),
         i < Bound(nctx'), ~ctx[i].onStack
  PROVE  /\ StackInv(stack', ctx', nctx') /\ TableInv(ctx', nctx', cur')
         /\ sig' \in [Ctx -> SUBSET Signals]
         /\ eng' \in [Ctx -> EngineRecord] /\ engine' \in Ctx
<1>1. /\ ctx \in [Ctx -> ContextRecord] /\ cur \in Ctx /\ nctx \in Nat /\ nctx' \in Nat
      /\ cur < Bound(nctx) /\ \A j \in Ctx : j >= Bound(nctx) => ~ctx[j].onStack
      /\ eng \in [Ctx -> EngineRecord]
  BY ContextsAssumption DEF IndInv, TableInv, RestOK
<1>2. /\ ctx' \in [Ctx -> ContextRecord]
      /\ ctx'[i].onStack
      /\ \A j \in Ctx \ {i} : ctx'[j] = ctx[j]
  BY <1>1 DEF StartTurn, ContextRecord
<1>3. cur < Bound(nctx')
  BY <1>1 DEF Ctx, Bound
<1>4. StackInv(below, ctx, nctx')
  BY <1>1, MarksKept
<1>5. StackInv(stack', ctx', nctx')
  BY <1>1, <1>2, <1>3, <1>4, TurnKeeps DEF StartTurn
<1>6. TableInv(ctx', nctx', cur')
  <2>1. cur' = i
    BY DEF StartTurn
  <2>2. \A j \in Ctx : j >= Bound(nctx') => j # i /\ j >= Bound(nctx)
    BY <1>1 DEF Ctx, Bound
  <2>3. QED
    BY <1>1, <1>2, <2>1, <2>2 DEF TableInv
<1>7. sig' \in [Ctx -> SUBSET Signals]
  BY DEF StartTurn
<1>8. eng' \in [Ctx -> EngineRecord]
  <2>1. SetPoll(eng, i, "context") \in [Ctx -> EngineRecord]
    BY <1>1, SetPollType
  <2>2. [SetPoll(eng, i, "context") EXCEPT ![i].resume = None] \in [Ctx -> EngineRecord]
    BY <2>1 DEF EngineRecord
  <2>3. QED
    BY <2>2 DEF StartTurn
<1>9. engine' \in Ctx
  BY DEF StartTurn
<1>10. QED
  BY <1>5, <1>6, <1>7, <1>8, <1>9

(* The turn at height m is left, whatever lies above it.                    *)
LEMMA EndTurnKeeps ==
  ASSUME IndInv, NEW m \in 1 .. Len(stack), stack[m].k = "turn",
         NEW es \in [Ctx -> EngineRecord], NEW flags \in ContextRecord,
         EndTurn(SubSeq(stack, 1, m - 1), stack[m], es, flags), nctx' = nctx
  PROVE  /\ StackInv(stack', ctx', nctx') /\ TableInv(ctx', nctx', cur')
         /\ eng' \in [Ctx -> EngineRecord] /\ engine' \in Ctx
<1>1. stack[m] \in TurnFrames
  BY FrameShapes, ElementOfSeq DEF IndInv, StackInv
<1>2. /\ ctx \in [Ctx -> ContextRecord] /\ nctx \in 0 .. MaxCtx /\ nctx # 1
      /\ \A j \in Ctx : j >= Bound(nctx) => ~ctx[j].onStack
  BY DEF IndInv, TableInv
<1>3. /\ ctx' \in [Ctx -> ContextRecord]
      /\ ~ctx'[stack[m].c].onStack
      /\ \A j \in Ctx \ {stack[m].c} : ctx'[j] = ctx[j]
  BY <1>1, <1>2 DEF EndTurn, OffStack, ContextRecord, TurnFrames
<1>4. StackInv(SubSeq(stack, 1, m - 1), ctx', nctx)
  BY <1>3, CutUnderTurn DEF IndInv
<1>5. cur' \in Ctx /\ cur' < Bound(nctx)
  BY <1>1 DEF EndTurn, TurnFrames, IndInv, StackInv
<1>6. TableInv(ctx', nctx, cur')
  BY <1>2, <1>3, <1>5 DEF TableInv
<1>7. eng' \in [Ctx -> EngineRecord] /\ engine' \in Ctx
  BY <1>1, SetPollType DEF EndTurn, TurnFrames
<1>8. QED
  BY <1>4, <1>6, <1>7 DEF EndTurn

(* The same for the turn on top.                                            *)
LEMMA EndTopTurnKeeps ==
  ASSUME IndInv, Is("turn"),
         NEW es \in [Ctx -> EngineRecord], NEW flags \in ContextRecord,
         EndTurn(Below, Top, es, flags), nctx' = nctx
  PROVE  /\ StackInv(stack', ctx', nctx') /\ TableInv(ctx', nctx', cur')
         /\ eng' \in [Ctx -> EngineRecord] /\ engine' \in Ctx
<1>1. Len(stack) \in 1 .. Len(stack)
  BY TopFacts DEF Is, IndInv, StackInv
<1>2. QED
  BY <1>1, EndTurnKeeps DEF Is, Top, Below

(* Leaving a callback's or a command's j5d_run keeps the invariant. *)
LEMMA LeaveNestedKeeps ==
  ASSUME IndInv, stack # <<>>, NEW es \in [Ctx -> EngineRecord], LeaveNested(es)
  PROVE  /\ StackInv(stack', ctx, nctx)
         /\ depth' \in 0 .. CallbackMax /\ command' \in Nat
         /\ eng' \in [Ctx -> EngineRecord]
<1>1. StackInv(stack', ctx, nctx)
  BY PopKeeps DEF LeaveNested
<1>2. depth' \in 0 .. CallbackMax /\ command' \in Nat
  BY BoundsAssumption DEF LeaveNested, DepthAfter, IndInv, RestOK
<1>3. eng' \in [Ctx -> EngineRecord]
  BY SetPollType DEF LeaveNested, RestoreGuestPoll
<1>4. QED
  BY <1>1, <1>2, <1>3

(* The root's run is the oldest: nothing is left under it.                  *)
LEMMA LeaveRootKeeps ==
  ASSUME IndInv, Is("root"), NEW es \in [Ctx -> EngineRecord],
         NEW flags \in [Ctx -> ContextRecord],
         \A i \in Ctx : flags[i].onStack = ctx[i].onStack,
         LeaveRoot(es, flags), nctx' = nctx
  PROVE  /\ StackInv(stack', ctx', nctx') /\ TableInv(ctx', nctx', cur')
         /\ eng' \in [Ctx -> EngineRecord] /\ engine' = None
<1>0. stack # <<>> /\ stack[Len(stack)].k = "root"
  BY DEF Is, Top
<1>1. Len(stack) = 1
  <2>1. Len(stack) \in 1 .. Len(stack)
    BY <1>0, TopFacts DEF IndInv, StackInv
  <2>2. QED
    BY <1>0, <2>1 DEF IndInv, StackInv
<1>2. Below = <<>>
  BY <1>1, BelowFacts, EmptySeq DEF Is, IndInv, StackInv
<1>3. StackInv(stack', ctx', nctx)
  BY <1>2, EmptyStack DEF LeaveRoot
<1>4. ctx' \in [Ctx -> ContextRecord] /\ \A i \in Ctx : ctx'[i].onStack => ctx[i].onStack
  <2>1. \A r \in ContextRecord : /\ [r EXCEPT !.onStack = FALSE] \in ContextRecord
                                /\ ~[r EXCEPT !.onStack = FALSE].onStack
    BY DEF ContextRecord
  <2>2. cur \in Ctx /\ flags[cur] \in ContextRecord
    BY DEF IndInv, TableInv
  <2>3. CASE ctx' = flags
    BY <2>3
  <2>4. CASE ctx' = [flags EXCEPT ![cur].onStack = FALSE]
    <3>1. ctx' = [j \in Ctx |-> IF j = cur THEN [flags[cur] EXCEPT !.onStack = FALSE]
                                          ELSE flags[j]]
      BY <2>4
    <3>2. QED
      BY <2>1, <2>2, <3>1
  <2>5. QED
    BY <2>3, <2>4 DEF LeaveRoot
<1>5. TableInv(ctx', nctx, cur')
  BY <1>4 DEF LeaveRoot, IndInv, TableInv
<1>6. QED
  BY <1>3, <1>5 DEF LeaveRoot

(* What a call that only computes leaves alone.                             *)
QuietVars == <<nctx, cur, engine, native, stack, depth, command, run,
               rootFinished, kill, faulted>>

(* A new context table in which no mark has changed.                        *)
LEMMA FlagsKeep ==
  ASSUME IndInv, NEW cx \in [Ctx -> ContextRecord],
         \A i \in Ctx : cx[i].onStack = ctx[i].onStack
  PROVE  StackInv(stack, cx, nctx) /\ TableInv(cx, nctx, cur)
<1>1. nctx \in Nat
  BY ContextsAssumption DEF IndInv, TableInv
<1>2. StackInv(stack, cx, nctx)
  BY <1>1, MarksKept DEF IndInv, Bound
<1>3. TableInv(cx, nctx, cur)
  BY DEF IndInv, TableInv
<1>4. QED
  BY <1>2, <1>3

(* Stopping at a safe point keeps the invariant, whatever frame stops. *)
LEMMA ParkKeeps ==
  ASSUME IndInv, stack # <<>>, Top.k \in GuestKinds,
         NEW flags \in ContextRecord, flags.onStack = ctx[cur].onStack, Park(flags)
  PROVE  /\ StackInv(stack', ctx', nctx') /\ TableInv(ctx', nctx', cur')
         /\ eng' \in [Ctx -> EngineRecord] /\ engine' \in Ctx \cup {None}
         /\ depth' \in 0 .. CallbackMax /\ command' \in Nat /\ err' \in BOOLEAN
<1>1. Recorded \in [Ctx -> EngineRecord]
  BY RecordedType
<1>2. nctx' = nctx
  BY DEF Park
<1>3. CASE Is("turn")
  <2>1. EndTurn(Below, Top, Recorded, flags) /\ UNCHANGED <<depth, command, err>>
    BY <1>3 DEF Park, Is, LeaveRoot
  <2>2. QED
    BY <2>1, <1>1, <1>2, <1>3, EndTopTurnKeeps DEF IndInv, RestOK
<1>4. CASE Is("root")
  <2>1. LeaveRoot(Recorded, ctx) /\ UNCHANGED err
    BY <1>4 DEF Park, Is
  <2>2. /\ StackInv(stack', ctx', nctx') /\ TableInv(ctx', nctx', cur')
        /\ eng' \in [Ctx -> EngineRecord] /\ engine' = None
    <3>1. ctx \in [Ctx -> ContextRecord]
      BY DEF IndInv, TableInv
    <3>2. QED
      BY <2>1, <3>1, <1>1, <1>2, <1>4, LeaveRootKeeps
  <2>3. QED
    BY <2>1, <2>2 DEF LeaveRoot, IndInv, RestOK
<1>5. CASE Top.k \in {"callback", "command"}
  <2>1. LeaveNested(Recorded) /\ ctx' = [ctx EXCEPT ![cur] = flags] /\ err' = TRUE
    BY <1>5 DEF Park, Is
  <2>2. /\ StackInv(stack', ctx, nctx) /\ depth' \in 0 .. CallbackMax /\ command' \in Nat
        /\ eng' \in [Ctx -> EngineRecord]
    BY <2>1, <1>1, LeaveNestedKeeps
  <2>3. ctx' \in [Ctx -> ContextRecord] /\ \A i \in Ctx : ctx'[i].onStack = ctx[i].onStack
    BY <2>1 DEF IndInv, TableInv
  <2>4. TableInv(ctx', nctx, cur)
    BY <2>3, FlagsKeep
  <2>5. nctx \in Nat
    BY ContextsAssumption DEF IndInv, TableInv
  <2>6. StackInv(stack', ctx', nctx)
    BY <2>2, <2>3, <2>5, MarksKept DEF Bound
  <2>7. QED
    BY <1>2, <2>1, <2>2, <2>4, <2>6 DEF LeaveNested, IndInv, RestOK
<1>6. QED
  BY <1>3, <1>4, <1>5 DEF Is, GuestKinds

(* dos.Exit and RemTask of oneself keep the invariant. *)
LEMMA LeaveContextKeeps ==
  ASSUME IndInv, LeaveContext, nctx' = nctx
  PROVE  /\ StackInv(stack', ctx', nctx') /\ TableInv(ctx', nctx', cur')
         /\ eng' \in [Ctx -> EngineRecord] /\ engine' \in Ctx \cup {None}
         /\ rootFinished' \in BOOLEAN
         /\ run' \in {"live", "done", "stopped", "undefined"}
<1> DEFINE turns == {n \in 1 .. Len(stack) : stack[n].k = "turn" /\ stack[n].c = cur}
           gone == [ctx[cur] EXCEPT !.finished = TRUE, !.blocked = FALSE]
<1>1. /\ ctx \in [Ctx -> ContextRecord] /\ cur \in Ctx
      /\ eng \in [Ctx -> EngineRecord] /\ engine \in Ctx \cup {None}
      /\ rootFinished \in BOOLEAN /\ run \in {"live", "done", "stopped", "undefined"}
  BY DEF IndInv, TableInv, RestOK
<1>2. gone \in ContextRecord /\ gone.onStack = ctx[cur].onStack
  BY <1>1 DEF ContextRecord
<1>3. CASE \E n \in turns : EndTurn(SubSeq(stack, 1, n - 1), stack[n], eng, gone)
                            /\ UNCHANGED outcome
  <2>1. PICK n \in turns : EndTurn(SubSeq(stack, 1, n - 1), stack[n], eng, gone)
                           /\ UNCHANGED outcome
    BY <1>3
  <2>2. n \in 1 .. Len(stack) /\ stack[n].k = "turn"
    OBVIOUS
  <2> HIDE DEF turns, gone
  <2>3. QED
    BY <1>1, <1>2, <2>1, <2>2, EndTurnKeeps DEF outcome
<1>4. CASE run' = "undefined" /\ UNCHANGED <<ctx, cur, engine, eng, stack, rootFinished>>
  BY <1>1, <1>4 DEF IndInv
<1>5. CASE /\ ctx' = IF nctx > 0 THEN [ctx EXCEPT ![cur] = gone] ELSE ctx
           /\ eng' = Ticked
           /\ UNCHANGED <<cur, engine, stack, outcome>>
  <2> HIDE DEF gone
  <2>1. ctx' \in [Ctx -> ContextRecord] /\ \A i \in Ctx : ctx'[i].onStack = ctx[i].onStack
    BY <1>1, <1>2, <1>5
  <2>2. StackInv(stack, ctx', nctx) /\ TableInv(ctx', nctx, cur)
    BY <2>1, FlagsKeep
  <2>3. QED
    BY <1>1, <1>5, <2>2, CountdownTypes DEF outcome
<1>6. QED
  BY <1>3, <1>4, <1>5 DEF LeaveContext

-----------------------------------------------------------------------------
(* The inductive invariant.                                                 *)

(* A new run satisfies the invariant. *)
LEMMA InvInit == Init => IndInv
<1> SUFFICES ASSUME Init PROVE IndInv
  OBVIOUS
<1>1. StackInv(stack, ctx, nctx)
  BY EmptyStack DEF Init
<1>2. TableInv(ctx, nctx, cur)
  <2>1. 0 \in 0 .. ForbidMax
    BY BoundsAssumption
  <2>2. \A b \in BOOLEAN : /\ [FreshCtx EXCEPT !.started = b] \in ContextRecord
                          /\ ~[FreshCtx EXCEPT !.started = b].onStack
    BY <2>1 DEF FreshCtx, ContextRecord
  <2>3. \A i \in Ctx : (i = 0) \in BOOLEAN
    OBVIOUS
  <2>4. ctx \in [Ctx -> ContextRecord] /\ \A i \in Ctx : ~ctx[i].onStack
    BY <2>2, <2>3 DEF Init
  <2>5. nctx = 0 /\ cur = 0 /\ 0 \in Ctx /\ 0 \in 0 .. MaxCtx
    BY ContextsAssumption DEF Init, Ctx
  <2>6. QED
    BY <2>4, <2>5 DEF TableInv, Bound
<1>3. RestOK
  <2>1. 0 \in 0 .. CallbackMax
    BY BoundsAssumption
  <2>2. eng \in [Ctx -> EngineRecord]
    BY DEF Init, EngineRecord
  <2>3. QED
    BY <2>1, <2>2 DEF Init, RestOK
<1>4. QED
  BY <1>1, <1>2, <1>3 DEF IndInv

(* The calls that neither run nor leave guest code.                         *)
LEMMA QuietCalls ==
  ASSUME IndInv,
         \/ PollKill \/ Compute \/ Forbid \/ Permit \/ Fault
         \/ \E i \in Ctx, s \in Signals : Signal(i, s)
  PROVE  IndInv'
<1>1. Ticked \in [Ctx -> EngineRecord] /\ Polled \in [Ctx -> EngineRecord]
  BY CountdownTypes
<1>2. ASSUME UNCHANGED ctx, UNCHANGED QuietVars, err' \in BOOLEAN,
             sig' \in [Ctx -> SUBSET Signals], eng' \in [Ctx -> EngineRecord]
      PROVE  IndInv'
  BY <1>2 DEF QuietVars, IndInv, RestOK
<1>3. ASSUME ctx' \in [Ctx -> ContextRecord], \A i \in Ctx : ctx'[i].onStack = ctx[i].onStack,
             UNCHANGED <<sig, err>>, UNCHANGED QuietVars, eng' = Ticked
      PROVE  IndInv'
  <2>1. StackInv(stack, ctx', nctx) /\ TableInv(ctx', nctx, cur)
    BY <1>3, FlagsKeep
  <2>2. QED
    BY <1>1, <1>3, <2>1 DEF QuietVars, IndInv, RestOK
<1>4. CASE PollKill
  BY <1>1, <1>2, <1>4 DEF PollKill, QuietVars, outcome, IndInv, RestOK
<1>5. CASE Compute
  BY <1>1, <1>2, <1>5 DEF Compute, QuietCall, QuietVars, outcome, IndInv, RestOK
<1>6. CASE Fault
  BY <1>2, <1>6 DEF Fault, QuietVars, table, outcome, IndInv, RestOK
<1>7. CASE \E i \in Ctx, s \in Signals : Signal(i, s)
  BY <1>1, <1>2, <1>7 DEF Signal, QuietCall, QuietVars, outcome, IndInv, RestOK
<1>8. CASE Forbid
  <2>1. ctx' \in [Ctx -> ContextRecord] /\ \A i \in Ctx : ctx'[i].onStack = ctx[i].onStack
    <3>1. cur \in Ctx /\ ctx[cur] \in ContextRecord /\ ctx \in [Ctx -> ContextRecord]
      BY DEF IndInv, TableInv
    <3>2. (IF ctx[cur].forbid < ForbidMax THEN ctx[cur].forbid + 1 ELSE ctx[cur].forbid)
             \in 0 .. ForbidMax
      BY <3>1, BoundsAssumption DEF ContextRecord
    <3>3. QED
      BY <1>8, <3>1, <3>2 DEF Forbid, ContextRecord
  <2>2. QED
    BY <1>3, <1>8, <2>1 DEF Forbid, QuietCall, QuietVars, outcome
<1>9. CASE Permit
  <2>1. ctx' \in [Ctx -> ContextRecord] /\ \A i \in Ctx : ctx'[i].onStack = ctx[i].onStack
    <3>1. cur \in Ctx /\ ctx[cur] \in ContextRecord /\ ctx \in [Ctx -> ContextRecord]
      BY DEF IndInv, TableInv
    <3>2. ctx[cur].forbid - 1 \in 0 .. ForbidMax
      BY <1>9, <3>1, BoundsAssumption DEF Permit, ContextRecord
    <3>3. QED
      BY <1>9, <3>1, <3>2 DEF Permit, ContextRecord
  <2>2. QED
    BY <1>3, <1>9, <2>1 DEF Permit, QuietCall, QuietVars, outcome
<1>10. QED
  BY <1>4, <1>5, <1>6, <1>7, <1>8, <1>9

(* The host's own steps.                                                    *)
LEMMA HostSteps ==
  ASSUME IndInv,
         \/ HostQuantum \/ AfterlifeQuantum \/ AfterlifeEnd \/ Kill
         \/ \E i \in Ctx : NativeEvent(i)
  PROVE  IndInv'
<1>1. /\ ctx \in [Ctx -> ContextRecord] /\ cur \in Ctx /\ eng \in [Ctx -> EngineRecord]
      /\ nctx \in 0 .. MaxCtx /\ nctx \in Nat /\ cur < Bound(nctx) /\ 0 \in Ctx
  BY ContextsAssumption DEF IndInv, TableInv, RestOK, Ctx
<1>2. SetPoll(eng, 0, "quantum") \in [Ctx -> EngineRecord]
  BY <1>1, SetPollType
<1>3. CASE HostQuantum
  <2>1. ctx' \in [Ctx -> ContextRecord]
        /\ \A i \in Ctx : ctx'[i].onStack # ctx[i].onStack => nctx > 0 /\ i = cur
    BY <1>1, <1>3 DEF HostQuantum, ContextRecord
  <2>2. StackInv(stack', ctx', nctx')
    <3>1. RootFrame \in Frame /\ RootFrame.k = "root"
      BY DEF RootFrame, Frame
    <3>2. <<RootFrame>> \in Seq(Frame) /\ Len(<<RootFrame>>) = 1 /\ <<RootFrame>>[1] = RootFrame
      BY <3>1
    <3>3. stack' = <<RootFrame>>
      BY <1>3 DEF HostQuantum
    <3>4. QED
      BY <3>1, <3>2, <3>3 DEF StackInv
  <2>3. TableInv(ctx', nctx', cur')
    BY <1>1, <1>3, <2>1 DEF HostQuantum, IndInv, TableInv, Ctx, Bound
  <2>4. eng' \in [Ctx -> EngineRecord]
    BY <1>2, <1>3 DEF HostQuantum, EngineRecord
  <2>5. QED
    BY <1>1, <1>3, <2>2, <2>3, <2>4 DEF HostQuantum, IndInv, RestOK, outcome
<1>4. CASE AfterlifeQuantum
  <2>1. SchedFrame(cur) \in Frame /\ SchedFrame(cur).k = "sched"
    BY <1>1, ContextsAssumption DEF SchedFrame, Frame, SchedFrames
  <2>2. StackInv(Append(<<>>, SchedFrame(cur)), ctx, nctx)
    BY <2>1, EmptyStack, PushKeeps
  <2>3. Append(<<>>, SchedFrame(cur)) = <<SchedFrame(cur)>>
    OBVIOUS
  <2>4. QED
    BY <1>1, <1>2, <1>4, <2>2, <2>3 DEF AfterlifeQuantum, IndInv, RestOK, outcome
<1>5. CASE AfterlifeEnd
  BY <1>5, EmptyStack DEF AfterlifeEnd, IndInv, RestOK
<1>6. CASE Kill
  <2>1. [eng EXCEPT ![engine].stop = TRUE] \in [Ctx -> EngineRecord]
    BY <1>1 DEF EngineRecord
  <2>2. QED
    BY <1>6, <2>1 DEF Kill, IndInv, RestOK, outcome
<1>7. CASE \E i \in Ctx : NativeEvent(i)
  BY <1>7 DEF NativeEvent, IndInv, RestOK, outcome
<1>8. QED
  BY <1>3, <1>4, <1>5, <1>6, <1>7

(* The ends of a slice: the poll's yield, and Wait.                         *)
LEMMA SliceEnds ==
  ASSUME IndInv, QuantumYield \/ \E want \in SUBSET Signals : Wait(want)
  PROVE  IndInv'
<1>1. /\ ctx \in [Ctx -> ContextRecord] /\ cur \in Ctx /\ ctx[cur] \in ContextRecord
      /\ sig \in [Ctx -> SUBSET Signals]
  BY DEF IndInv, TableInv, RestOK
<1>2. CASE QuantumYield
  <2>1. Park(ctx[cur]) /\ stack # <<>> /\ Top.k \in GuestKinds
    BY <1>2 DEF QuantumYield, GuestRuns
  <2>2. /\ StackInv(stack', ctx', nctx') /\ TableInv(ctx', nctx', cur')
        /\ eng' \in [Ctx -> EngineRecord] /\ engine' \in Ctx \cup {None}
        /\ depth' \in 0 .. CallbackMax /\ command' \in Nat /\ err' \in BOOLEAN
    BY <1>1, <2>1, ParkKeeps
  <2>3. QED
    BY <1>2, <2>1, <2>2 DEF QuantumYield, Park, outcome, IndInv, RestOK
<1>3. CASE \E want \in SUBSET Signals : Wait(want)
  <2>1. PICK want \in SUBSET Signals : Wait(want)
    BY <1>3
  <2> DEFINE sigs == SigPumped(want)
             got == sigs[cur] \cap want
             flags == [ctx[cur] EXCEPT !.blocked = TRUE, !.mask = want]
  <2>2. sigs \in [Ctx -> SUBSET Signals]
    BY SigPumpedType
  <2>3. flags \in ContextRecord /\ flags.onStack = ctx[cur].onStack
    BY <1>1 DEF ContextRecord
  <2>4. native' \subseteq Sources /\ stack # <<>> /\ Top.k \in GuestKinds
    BY <2>1 DEF Wait, Call, CanExecute, GuestRuns, IndInv, RestOK
  <2>5. CASE /\ sig' = [sigs EXCEPT ![cur] = @ \ got]
             /\ eng' = Ticked
             /\ UNCHANGED <<table, cur, engine, stack, depth, command, err,
                            outcome, kill, faulted>>
    BY <2>2, <2>4, <2>5, CountdownTypes DEF table, outcome, IndInv, RestOK
  <2>6. CASE sig' = sigs /\ Park(flags)
    <3>1. /\ StackInv(stack', ctx', nctx') /\ TableInv(ctx', nctx', cur')
          /\ eng' \in [Ctx -> EngineRecord] /\ engine' \in Ctx \cup {None}
          /\ depth' \in 0 .. CallbackMax /\ command' \in Nat /\ err' \in BOOLEAN
      BY <2>3, <2>4, <2>6, ParkKeeps
    <3>2. UNCHANGED <<outcome, kill, faulted>>
      BY <2>6 DEF Park
    <3>3. QED
      BY <2>2, <2>4, <2>6, <3>1, <3>2 DEF outcome, IndInv, RestOK
  <2>7. CASE /\ sig' = sigs
             /\ stack' = Append(stack, WaitFrame(want))
             /\ eng' = Ticked
             /\ UNCHANGED <<table, cur, engine, depth, command, err,
                            outcome, kill, faulted>>
    <3>1. WaitFrame(want) \in Frame /\ WaitFrame(want).k = "wait"
      BY BoundsAssumption, ContextsAssumption DEF WaitFrame, Frame, WaitFrames
    <3>2. StackInv(stack', ctx, nctx)
      BY <2>7, <3>1, PushKeeps DEF IndInv
    <3>3. QED
      BY <2>2, <2>4, <2>7, <3>2, CountdownTypes DEF table, outcome, IndInv, RestOK
  <2>8. QED
    BY <2>1, <2>5, <2>6, <2>7 DEF Wait
<1>4. QED
  BY <1>2, <1>3

(* The calls that put a frame on the stack.                                 *)
LEMMA Pushes ==
  ASSUME IndInv, Delay \/ Reschedule \/ Callback \/ CallHook \/ RunCommand
  PROVE  IndInv'
<1>1. /\ cur \in Ctx /\ 0 \in Ctx /\ Ticked \in [Ctx -> EngineRecord]
      /\ eng \in [Ctx -> EngineRecord] /\ Len(stack) \in Nat
  BY ContextsAssumption, CountdownTypes, LenProperties
     DEF IndInv, TableInv, RestOK, Ctx, StackInv
<1>2. /\ DelayFrame \in Frame /\ SchedFrame(cur) \in Frame
      /\ CallbackFrame \in Frame /\ CommandFrame \in Frame
  BY <1>1, ContextsAssumption, BoundsAssumption
     DEF DelayFrame, SchedFrame, CallbackFrame, CommandFrame, Frame, DelayFrames, SchedFrames
<1>3. /\ DelayFrame.k = "delay" /\ SchedFrame(cur).k = "sched"
      /\ CallbackFrame.k = "callback" /\ CommandFrame.k = "command"
  BY DEF DelayFrame, SchedFrame, CallbackFrame, CommandFrame
<1>4. CASE Delay
  <2>1. StackInv(stack', ctx, nctx)
    BY <1>2, <1>3, <1>4, PushKeeps DEF Delay, IndInv
  <2>2. QED
    BY <1>1, <1>4, <2>1 DEF Delay, outcome, IndInv, RestOK
<1>5. CASE Reschedule
  <2>1. StackInv(stack', ctx, nctx)
    BY <1>2, <1>3, <1>5, PushKeeps DEF Reschedule, IndInv
  <2>2. QED
    BY <1>1, <1>5, <2>1 DEF Reschedule, outcome, IndInv, RestOK
<1>6. ASSUME NEW f \in Frame, f.k \notin {"turn", "root"}, NEW e \in Ctx, EnterNested(f, e),
             depth' \in 0 .. CallbackMax, command' \in Nat, err' = err
      PROVE  IndInv'
  <2>1. StackInv(stack', ctx, nctx)
    BY <1>6, PushKeeps DEF EnterNested, IndInv
  <2>2. eng' \in [Ctx -> EngineRecord]
    <3>1. SetPoll(eng, e, "nested") \in [Ctx -> EngineRecord]
      BY <1>1, SetPollType
    <3>2. [SetPoll(eng, e, "nested") EXCEPT ![e].resume = None] \in [Ctx -> EngineRecord]
      BY <3>1 DEF EngineRecord
    <3>3. QED
      BY <1>6, <3>2 DEF EnterNested
  <2>3. QED
    BY <1>6, <2>1, <2>2 DEF EnterNested, table, outcome, IndInv, RestOK
<1>7. CASE Callback
  <2>1. CASE depth < CallbackMax /\ depth' = depth + 1 /\ EnterNested(CallbackFrame, cur)
             /\ UNCHANGED <<err, command>>
    <3>1. depth' \in 0 .. CallbackMax /\ command' \in Nat
      BY <2>1, BoundsAssumption DEF IndInv, RestOK
    <3>2. QED
      BY <1>1, <1>2, <1>3, <1>6, <2>1, <3>1
  <2>2. CASE err' = TRUE /\ UNCHANGED command
             /\ UNCHANGED <<table, cur, engine, eng, sig, native, stack, depth,
                            outcome, kill, faulted>>
    BY <2>2 DEF table, outcome, IndInv, RestOK
  <2>3. QED
    BY <1>7, <2>1, <2>2 DEF Callback
<1>8. CASE CallHook
  <2>1. depth' \in 0 .. CallbackMax /\ command' \in Nat /\ err' = err
    BY <1>8, BoundsAssumption DEF CallHook, IndInv, RestOK
  <2>2. QED
    BY <1>1, <1>2, <1>3, <1>6, <1>8, <2>1 DEF CallHook
<1>9. CASE RunCommand
  <2>1. depth' \in 0 .. CallbackMax /\ command' \in Nat /\ err' = err
    BY <1>1, <1>9 DEF RunCommand, IndInv, RestOK
  <2>2. QED
    BY <1>1, <1>2, <1>3, <1>6, <1>9, <2>1 DEF RunCommand
<1>10. QED
  BY <1>4, <1>5, <1>7, <1>8, <1>9

(* CreateNewProc and AddTask: the next slot is free, and becomes a turn.    *)
LEMMA CreateKeeps ==
  ASSUME IndInv, Create
  PROVE  IndInv'
<1>1. /\ ctx \in [Ctx -> ContextRecord] /\ nctx \in 0 .. MaxCtx /\ nctx # 1
      /\ \A i \in Ctx : i >= Bound(nctx) => ~ctx[i].onStack
      /\ sig \in [Ctx -> SUBSET Signals]
  BY DEF IndInv, TableInv, RestOK
<1>2. FreeSlot \in Nat /\ FreeSlot >= 1 /\ FreeSlot >= Bound(nctx) /\ FreeSlot = Bound(nctx)
  BY <1>1, ContextsAssumption DEF FreeSlot, Bound
<1>3. CASE FreeSlot < MaxCtx /\ nctx' = FreeSlot + 1 /\ StartTurn(FreeSlot, stack, sig)
           /\ UNCHANGED err
  <2>1. FreeSlot \in Ctx /\ ~ctx[FreeSlot].onStack
    BY <1>1, <1>2, <1>3, ContextsAssumption DEF Ctx
  <2>2. /\ nctx' \in 0 .. MaxCtx /\ nctx' # 1 /\ Bound(nctx) <= Bound(nctx')
        /\ FreeSlot < Bound(nctx')
    BY <1>1, <1>2, <1>3, ContextsAssumption DEF Bound
  <2>3. /\ StackInv(stack', ctx', nctx') /\ TableInv(ctx', nctx', cur')
        /\ sig' \in [Ctx -> SUBSET Signals]
        /\ eng' \in [Ctx -> EngineRecord] /\ engine' \in Ctx
    BY <1>1, <1>3, <2>1, <2>2, StartTurnKeeps DEF IndInv
  <2>4. QED
    BY <1>3, <2>3 DEF Create, outcome, IndInv, RestOK
<1>4. CASE err' = TRUE /\ UNCHANGED <<table, cur, engine, eng, sig, stack>>
  BY <1>4 DEF Create, table, outcome, IndInv, RestOK
<1>5. QED
  BY <1>3, <1>4 DEF Create

(* Guest code returns, and the error path: each kind of frame is left once.  *)
LEMMA ReturnKeeps ==
  ASSUME IndInv, Return
  PROVE  IndInv'
<1>1. /\ ctx \in [Ctx -> ContextRecord] /\ eng \in [Ctx -> EngineRecord]
      /\ stack # <<>> /\ Top \in Frame
      /\ UNCHANGED <<nctx, sig, native, err, kill, faulted>>
  BY TopFacts DEF Return, Call, CanExecute, GuestRuns, IndInv, TableInv, RestOK, StackInv
<1>2. ASSUME Is("turn"), EndTurn(Below, Top, eng, [ctx[Top.c] EXCEPT !.finished = TRUE]),
             UNCHANGED <<depth, command, outcome>>
      PROVE  IndInv'
  <2>1. Top.c \in Ctx
    BY <1>1, <1>2, FrameShapes DEF Is, TurnFrames
  <2>2. [ctx[Top.c] EXCEPT !.finished = TRUE] \in ContextRecord
    <3>1. ctx[Top.c] \in ContextRecord
      BY <1>1, <2>1
    <3>2. QED
      BY <3>1 DEF ContextRecord
  <2>3. /\ StackInv(stack', ctx', nctx') /\ TableInv(ctx', nctx', cur')
        /\ eng' \in [Ctx -> EngineRecord] /\ engine' \in Ctx
    BY <1>1, <1>2, <2>2, EndTopTurnKeeps
  <2>4. QED
    BY <1>1, <1>2, <2>3 DEF outcome, IndInv, RestOK
<1>3. ASSUME LeaveNested(eng), UNCHANGED <<ctx, outcome>>
      PROVE  IndInv'
  <2>1. /\ StackInv(stack', ctx, nctx) /\ depth' \in 0 .. CallbackMax /\ command' \in Nat
        /\ eng' \in [Ctx -> EngineRecord]
    BY <1>1, <1>3, LeaveNestedKeeps
  <2>2. QED
    BY <1>1, <1>3, <2>1 DEF LeaveNested, outcome, IndInv, RestOK
<1>4. ASSUME Is("root"), NEW flags \in [Ctx -> ContextRecord], LeaveRoot(eng, flags),
             \A i \in Ctx : flags[i].onStack = ctx[i].onStack,
             rootFinished' \in BOOLEAN, run' \in {"live", "done", "stopped", "undefined"}
      PROVE  IndInv'
  <2>1. /\ StackInv(stack', ctx', nctx') /\ TableInv(ctx', nctx', cur')
        /\ eng' \in [Ctx -> EngineRecord] /\ engine' = None
    BY <1>1, <1>4, LeaveRootKeeps
  <2>2. QED
    BY <1>1, <1>4, <2>1 DEF LeaveRoot, IndInv, RestOK
<1>5. CASE Is("root") /\ LeaveRoot(eng, [ctx EXCEPT ![0].finished = TRUE])
           /\ rootFinished' = TRUE /\ UNCHANGED run
  <2>1. [ctx EXCEPT ![0].finished = TRUE] \in [Ctx -> ContextRecord]
    BY <1>1 DEF ContextRecord
  <2>2. \A i \in Ctx : [ctx EXCEPT ![0].finished = TRUE][i].onStack = ctx[i].onStack
    BY <1>1 DEF ContextRecord
  <2>3. QED
    BY <1>4, <1>5, <2>1, <2>2 DEF IndInv, RestOK
<1>6. CASE Is("root") /\ LeaveRoot(eng, ctx) /\ run' = "done" /\ UNCHANGED rootFinished
  BY <1>1, <1>4, <1>6 DEF IndInv, RestOK
<1>7. QED
  BY <1>2, <1>3, <1>5, <1>6 DEF Return

(* dos.Exit keeps the invariant, inside a RunCommand and outside. *)
LEMMA ExitKeeps ==
  ASSUME IndInv, Exit \/ \E i \in Ctx : RemTask(i)
  PROVE  IndInv'
<1>1. /\ ctx \in [Ctx -> ContextRecord] /\ eng \in [Ctx -> EngineRecord]
      /\ command \in Nat /\ Ticked \in [Ctx -> EngineRecord]
  BY CountdownTypes DEF IndInv, TableInv, RestOK
<1>2. ASSUME LeaveContext, UNCHANGED <<nctx, sig, native, depth, command, err, kill, faulted>>
      PROVE  IndInv'
  <2>1. /\ StackInv(stack', ctx', nctx') /\ TableInv(ctx', nctx', cur')
        /\ eng' \in [Ctx -> EngineRecord] /\ engine' \in Ctx \cup {None}
        /\ rootFinished' \in BOOLEAN
        /\ run' \in {"live", "done", "stopped", "undefined"}
    BY <1>2, LeaveContextKeeps
  <2>2. QED
    BY <1>2, <2>1 DEF IndInv, RestOK
<1>3. CASE Exit
  <2>1. UNCHANGED <<nctx, sig, native, depth, err, kill, faulted>>
    BY <1>3 DEF Exit
  <2>2. CASE command = 0 /\ LeaveContext /\ UNCHANGED command
    BY <1>2, <2>1, <2>2
  <2>3. CASE /\ command > 0 /\ command <= Len(stack) /\ command' = 0
             /\ stack' = SubSeq(stack, 1, command - 1)
             /\ eng' = RestoreGuestPoll(eng, depth)
             /\ UNCHANGED outcome /\ UNCHANGED <<ctx, cur, engine>>
    <3>1. Len(stack) \in Nat
      BY LenProperties DEF IndInv, StackInv
    <3>2. StackInv(stack', ctx, nctx)
      BY <1>1, <2>3, <3>1, CutKeeps DEF IndInv
    <3>3. eng' \in [Ctx -> EngineRecord]
      BY <1>1, <2>3, SetPollType DEF RestoreGuestPoll
    <3>4. QED
      BY <2>1, <2>3, <3>2, <3>3 DEF outcome, IndInv, RestOK
  <2>4. CASE command' = 0 /\ run' = "undefined" /\ UNCHANGED <<stack, eng, rootFinished>>
             /\ UNCHANGED <<ctx, cur, engine>>
    BY <2>1, <2>4 DEF IndInv, RestOK
  <2>5. QED
    BY <1>3, <2>2, <2>3, <2>4 DEF Exit
<1>4. CASE \E i \in Ctx : RemTask(i)
  <2>1. PICK i \in Ctx : RemTask(i)
    BY <1>4
  <2>2. UNCHANGED <<nctx, sig, native, depth, command, err, kill, faulted>>
    BY <2>1 DEF RemTask
  <2>3. CASE LeaveContext
    BY <1>2, <2>2, <2>3
  <2>4. CASE /\ ctx' = [ctx EXCEPT ![i].finished = TRUE, ![i].blocked = FALSE]
             /\ eng' = Ticked
             /\ UNCHANGED <<cur, engine, stack, outcome>>
    <3>1. ctx' \in [Ctx -> ContextRecord] /\ \A j \in Ctx : ctx'[j].onStack = ctx[j].onStack
      <4>1. \A r \in ContextRecord :
               LET g == [r EXCEPT !.finished = TRUE, !.blocked = FALSE]
               IN  g \in ContextRecord /\ g.onStack = r.onStack
        BY DEF ContextRecord
      <4>2. ctx' = [j \in Ctx |->
               IF j = i THEN [ctx[j] EXCEPT !.finished = TRUE, !.blocked = FALSE] ELSE ctx[j]]
        BY <1>1, <2>4
      <4>3. \A j \in Ctx : ctx[j] \in ContextRecord
        BY <1>1
      <4>4. QED
        BY <4>1, <4>2, <4>3
    <3>2. StackInv(stack, ctx', nctx) /\ TableInv(ctx', nctx, cur)
      BY <3>1, FlagsKeep
    <3>3. QED
      BY <1>1, <2>2, <2>4, <3>2 DEF outcome, IndInv, RestOK
  <2>5. QED
    BY <2>1, <2>3, <2>4 DEF RemTask
<1>5. QED
  BY <1>3, <1>4

(* The scheduler's and Wait's visits give a turn to unmarked contexts only. *)
LEMMA Visits ==
  ASSUME IndInv, SchedVisit \/ SweepVisit
  PROVE  IndInv'
<1>1. /\ ctx \in [Ctx -> ContextRecord] /\ nctx \in 0 .. MaxCtx /\ nctx # 1
      /\ sig \in [Ctx -> SUBSET Signals] /\ native \subseteq Sources
      /\ nctx \in Nat /\ stack # <<>> /\ Top \in Frame
  <2>1. stack # <<>>
    BY DEF SchedVisit, SweepVisit, Resumed, Is
  <2>2. Top \in Frame
    BY <2>1, TopFacts DEF IndInv, StackInv
  <2>3. ctx \in [Ctx -> ContextRecord] /\ nctx \in 0 .. MaxCtx /\ nctx # 1
    BY DEF IndInv, TableInv
  <2>4. sig \in [Ctx -> SUBSET Signals] /\ native \subseteq Sources
    BY DEF IndInv, RestOK
  <2>5. QED
    BY <2>1, <2>2, <2>3, <2>4, ContextsAssumption
<1>2. ASSUME NEW i \in Ctx, NEW f \in Frame, f.k \notin {"turn", "root"},
             NEW sigs \in [Ctx -> SUBSET Signals], StartTurn(i, Update(f), sigs),
             i < nctx, ~ctx[i].onStack, native' \subseteq Sources,
             UNCHANGED <<nctx, depth, command, err, outcome, kill, faulted>>
      PROVE  IndInv'
  <2>1. StackInv(Update(f), ctx, nctx)
    BY <1>1, <1>2, UpdateKeeps
  <2>2. /\ nctx' \in 0 .. MaxCtx /\ nctx' # 1 /\ Bound(nctx) <= Bound(nctx')
        /\ i < Bound(nctx')
    BY <1>1, <1>2 DEF Bound, Ctx
  <2>3. /\ StackInv(stack', ctx', nctx') /\ TableInv(ctx', nctx', cur')
        /\ sig' \in [Ctx -> SUBSET Signals]
        /\ eng' \in [Ctx -> EngineRecord] /\ engine' \in Ctx
    BY <1>2, <2>1, <2>2, StartTurnKeeps
  <2>4. QED
    BY <1>2, <2>3 DEF outcome, IndInv, RestOK
<1>3. CASE SchedVisit
  <2> DEFINE i == Top.next
             mask == ctx[i].mask
             sigs == IF ctx[i].blocked /\ sig[i] \cap mask = {} THEN SigPumped(mask) ELSE sig
             f == [Top EXCEPT !.next = @ + 1]
  <2>1. Top \in SchedFrames /\ i < nctx
    BY <1>1, <1>3, FrameShapes DEF SchedVisit, Resumed, Is
  <2>2. i \in Ctx /\ i \in Nat /\ Top.outer \in Ctx
    BY <1>1, <2>1, ContextsAssumption DEF SchedFrames, Ctx
  <2>3. f \in Frame /\ f.k = "sched"
    <3>1. f \in SchedFrames
      BY <1>1, <2>1, <2>2, ContextsAssumption DEF SchedFrames
    <3>2. QED
      BY <3>1 DEF Frame, SchedFrames
  <2>4. sigs \in [Ctx -> SUBSET Signals]
    BY <1>1, SigPumpedType
  <2>5. native' \subseteq Sources
    BY <1>1, <1>3 DEF SchedVisit
  <2>6. UNCHANGED <<nctx, depth, command, err, outcome, kill, faulted>>
    BY <1>3 DEF SchedVisit
  <2>7. CASE stack' = Update(f) /\ UNCHANGED <<ctx, cur, engine, eng, sig>>
    <3>1. StackInv(stack', ctx, nctx)
      BY <1>1, <2>3, <2>7, UpdateKeeps
    <3>2. QED
      BY <2>5, <2>6, <2>7, <3>1 DEF outcome, IndInv, RestOK
  <2>8. CASE stack' = Update(f) /\ sig' = sigs /\ engine' = Top.outer
             /\ UNCHANGED <<ctx, cur, eng>>
    <3>1. StackInv(stack', ctx, nctx)
      BY <1>1, <2>3, <2>8, UpdateKeeps
    <3>2. QED
      BY <2>2, <2>4, <2>5, <2>6, <2>8, <3>1 DEF outcome, IndInv, RestOK
  <2>9. CASE ~Passed(i) /\ StartTurn(i, Update(f), sigs)
    <3>1. ~ctx[i].onStack
      BY <2>9 DEF Passed
    <3>2. QED
      BY <1>2, <2>1, <2>2, <2>3, <2>4, <2>5, <2>6, <2>9, <3>1
  <2>10. QED
    BY <1>3, <2>7, <2>8, <2>9 DEF SchedVisit, Visited
<1>4. CASE SweepVisit
  <2> DEFINE i == Top.next
             f(at, some) == [Top EXCEPT !.at = at, !.next = i + 1, !.progress = @ \/ some]
  <2>1. Top \in WaitFrames /\ i < nctx
    BY <1>1, <1>4, FrameShapes DEF SweepVisit, Resumed, Is
  <2>2. i \in Ctx /\ i \in Nat
    BY <1>1, <2>1, ContextsAssumption DEF WaitFrames, Ctx
  <2>3. \A at \in {"sweep", "ran"}, some \in BOOLEAN :
           f(at, some) \in Frame /\ f(at, some).k = "wait"
    <3>1. \A b \in BOOLEAN : (Top.progress \/ b) \in BOOLEAN
      OBVIOUS
    <3>2. i + 1 \in 0 .. MaxCtx
      BY <1>1, <2>1, <2>2, ContextsAssumption
    <3>3. \A at \in {"sweep", "ran"}, some \in BOOLEAN : f(at, some) \in WaitFrames
      BY <2>1, <3>1, <3>2, ZenonT(60) DEF WaitFrames
    <3>4. \A w \in WaitFrames : w \in Frame /\ w.k = "wait"
      BY DEF Frame, WaitFrames
    <3> HIDE DEF f
    <3>5. QED
      BY <3>3, <3>4
  <2>4. UNCHANGED <<nctx, native, depth, command, err, outcome, kill, faulted>>
    BY <1>4 DEF SweepVisit
  <2>5. CASE stack' = Update(f("sweep", FALSE)) /\ UNCHANGED <<ctx, cur, engine, eng, sig>>
    <3>1. f("sweep", FALSE) \in Frame /\ f("sweep", FALSE).k = "wait"
      BY <2>3
    <3>2. StackInv(stack', ctx, nctx)
      BY <1>1, <2>5, <3>1, UpdateKeeps
    <3>3. QED
      BY <2>4, <2>5, <3>2 DEF outcome, IndInv, RestOK
  <2>6. CASE ~ctx[i].onStack /\ StartTurn(i, Update(f("ran", TRUE)), sig)
    <3>1. f("ran", TRUE) \in Frame /\ f("ran", TRUE).k = "wait"
      BY <2>3
    <3>2. QED
      BY <1>1, <1>2, <2>1, <2>2, <2>4, <2>6, <3>1
  <2>7. QED
    BY <1>4, <2>5, <2>6 DEF SweepVisit
<1>5. QED
  BY <1>3, <1>4

(* The other steps of the C loops change only their own frame and signals.  *)
LEMMA LoopSteps ==
  ASSUME IndInv, SchedDone \/ DelayStep \/ TakeSignals \/ SweepOn \/ SweepEnd \/ Idle
  PROVE  IndInv'
<1>1. /\ ctx \in [Ctx -> ContextRecord] /\ cur \in Ctx /\ 0 \in Ctx
      /\ sig \in [Ctx -> SUBSET Signals] /\ native \subseteq Sources
      /\ stack # <<>> /\ Top \in Frame
      /\ Control
  BY TopFacts, ContextsAssumption
     DEF IndInv, TableInv, RestOK, StackInv, Ctx, SchedDone, DelayStep, TakeSignals,
         SweepOn, SweepEnd, Idle, Resumed, Is
<1>2. ASSUME StackInv(stack', ctx, nctx), sig' \in [Ctx -> SUBSET Signals],
             native' \subseteq Sources, err' \in BOOLEAN
      PROVE  IndInv'
  BY <1>1, <1>2 DEF Control, table, outcome, IndInv, RestOK
<1>3. StackInv(Below, ctx, nctx)
  BY <1>1, PopKeeps
<1>4. \A f \in Frame : f.k \notin {"turn", "root"} => StackInv(Update(f), ctx, nctx)
  BY <1>1, UpdateKeeps
<1>5. \A f \in Frame : f.k \notin {"turn", "root"} =>
         StackInv(Append(Update(f), SchedFrame(cur)), ctx, nctx)
  <2>1. SchedFrame(cur) \in Frame /\ SchedFrame(cur).k = "sched"
    BY <1>1, ContextsAssumption DEF SchedFrame, Frame, SchedFrames
  <2>2. QED
    BY <1>4, <2>1, PushKeeps
<1>6. \A mask : SigPumped(mask) \in [Ctx -> SUBSET Signals]
  BY SigPumpedType
<1>7. err \in BOOLEAN
  BY DEF IndInv, RestOK
<1>8. CASE SchedDone
  BY <1>1, <1>2, <1>3, <1>7, <1>8 DEF SchedDone
<1>9. CASE TakeSignals
  <2>1. sig' \in [Ctx -> SUBSET Signals]
    BY <1>1, <1>9 DEF TakeSignals
  <2>2. QED
    BY <1>1, <1>2, <1>3, <1>7, <1>9, <2>1 DEF TakeSignals
<1>10. CASE DelayStep
  <2> DEFINE f == [Top EXCEPT !.left = @ - 1]
  <2>1. CASE Top.left > 0 /\ stack' = Append(Update(f), SchedFrame(cur))
             /\ UNCHANGED <<sig, native, err>>
    <3>1. Top \in DelayFrames
      BY <1>1, <1>10, FrameShapes DEF DelayStep, Resumed, Is
    <3>2. f \in DelayFrames
      BY <2>1, <3>1, BoundsAssumption DEF DelayFrames
    <3>3. f \in Frame /\ f.k = "delay"
      BY <3>2 DEF Frame, DelayFrames
    <3>4. QED
      BY <1>1, <1>2, <1>5, <1>7, <2>1, <3>3
  <2>2. CASE stack' = Below /\ sig' = SigPumped(Signals) /\ native' = {} /\ UNCHANGED err
    BY <1>2, <1>3, <1>6, <1>7, <2>2
  <2>3. QED
    BY <1>10, <2>1, <2>2 DEF DelayStep
<1>11. ASSUME Is("wait"), NEW at \in {"sweep", "idle", "checked"}
       PROVE  /\ [Top EXCEPT !.at = at] \in Frame
              /\ [Top EXCEPT !.at = at].k = "wait"
  <2>1. Top \in WaitFrames
    BY <1>1, <1>11, FrameShapes DEF Is
  <2>2. [Top EXCEPT !.at = at] \in WaitFrames
    BY <2>1 DEF WaitFrames
  <2>3. QED
    BY <2>2 DEF Frame, WaitFrames
<1>12. CASE SweepOn
  <2>1. StackInv(stack', ctx, nctx)
    BY <1>4, <1>11, <1>12 DEF SweepOn, Resumed
  <2>2. QED
    BY <1>1, <1>2, <1>7, <1>12, <2>1 DEF SweepOn
<1>13. CASE SweepEnd
  <2> DEFINE again == Top.progress /\ ~kill /\ Top.spun + 1 < SweepMax
             mask == IF Sources # {} /\ NativeSig \in Top.want THEN Top.want ELSE Signals
             f == [Top EXCEPT !.next = 0, !.progress = FALSE, !.spun = @ + 1]
  <2>1. CASE again /\ stack' = Update(f) /\ UNCHANGED <<sig, native, err>>
    <3>1. Top \in WaitFrames
      BY <1>1, <1>13, FrameShapes DEF SweepEnd, Resumed, Is
    <3>2. f \in WaitFrames
      <4>1. 0 \in 0 .. MaxCtx /\ Top.spun + 1 \in 0 .. SweepMax
        BY <2>1, <3>1, BoundsAssumption, ContextsAssumption DEF WaitFrames
      <4>2. QED
        BY <3>1, <4>1 DEF WaitFrames
    <3>3. f \in Frame /\ f.k = "wait"
      BY <3>2 DEF Frame, WaitFrames
    <3>4. QED
      BY <1>1, <1>2, <1>4, <1>7, <2>1, <3>3
  <2>2. CASE /\ sig' = SigPumped(mask) /\ native' = native \ Delivered(mask)
             /\ stack' = Append(Update([Top EXCEPT !.at = "idle"]), SchedFrame(cur))
             /\ UNCHANGED err
    <3>1. StackInv(stack', ctx, nctx)
      BY <1>5, <1>11, <1>13, <2>2 DEF SweepEnd, Resumed
    <3>2. QED
      BY <1>1, <1>2, <1>6, <1>7, <2>2, <3>1
  <2>3. QED
    BY <1>13, <2>1, <2>2 DEF SweepEnd
<1>14. CASE Idle
  <2>1. CASE /\ stack' = Append(Update([Top EXCEPT !.at = "checked"]), SchedFrame(cur))
             /\ sig' = SigPumped(Signals) /\ native' = {} /\ UNCHANGED err
    <3>1. StackInv(stack', ctx, nctx)
      BY <1>5, <1>11, <1>14, <2>1 DEF Idle, Resumed
    <3>2. QED
      BY <1>1, <1>2, <1>6, <1>7, <2>1, <3>1
  <2>2. CASE stack' = Below /\ err' = TRUE /\ UNCHANGED <<sig, native>>
    BY <1>1, <1>2, <1>3, <2>2
  <2>3. QED
    BY <1>14, <2>1, <2>2 DEF Idle
<1>15. QED
  BY <1>8, <1>9, <1>10, <1>12, <1>13, <1>14

(* Quarantining a context keeps the table's type and every mark. *)
LEMMA QuarantinedKeeps ==
  ASSUME ctx \in [Ctx -> ContextRecord], NEW i
  PROVE  /\ Quarantined(i) \in [Ctx -> ContextRecord]
         /\ \A j \in Ctx : Quarantined(i)[j].onStack = ctx[j].onStack
<1> DEFINE out(r) == [r EXCEPT !.failed = TRUE, !.finished = TRUE, !.blocked = FALSE]
<1>1. Quarantined(i) = [j \in Ctx |-> IF j = i THEN out(ctx[j]) ELSE ctx[j]]
  BY DEF Quarantined
<1>2. \A r \in ContextRecord : out(r) \in ContextRecord /\ out(r).onStack = r.onStack
  BY DEF ContextRecord
<1> HIDE DEF out
<1>3. \A j \in Ctx : ctx[j] \in ContextRecord
  OBVIOUS
<1>4. \A j \in Ctx : /\ Quarantined(i)[j] \in ContextRecord
                    /\ Quarantined(i)[j].onStack = ctx[j].onStack
  BY <1>1, <1>2, <1>3
<1>5. QED
  BY <1>1, <1>2, <1>3, <1>4

(* The error path.                                                          *)
LEMMA ErrorSteps ==
  ASSUME IndInv, Contain \/ PassError
  PROVE  IndInv'
<1>1. /\ ctx \in [Ctx -> ContextRecord] /\ eng \in [Ctx -> EngineRecord]
      /\ stack # <<>> /\ Top \in Frame
  BY TopFacts DEF Contain, PassError, Is, IndInv, TableInv, RestOK, StackInv
<1>2. CASE Contain
  <2>1. ctx' \in [Ctx -> ContextRecord] /\ \A j \in Ctx : ctx'[j].onStack = ctx[j].onStack
    BY <1>1, <1>2, QuarantinedKeeps DEF Contain
  <2>2. StackInv(stack, ctx', nctx) /\ TableInv(ctx', nctx, cur)
    BY <2>1, FlagsKeep
  <2>3. QED
    BY <1>2, <2>2 DEF Contain, outcome, IndInv, RestOK
<1>3. CASE PassError
  <2>1. UNCHANGED <<nctx, sig, native, err, rootFinished, kill>>
    BY <1>3 DEF PassError
  <2>2. CASE /\ Is("turn") /\ EndTurn(Below, Top, eng, ctx[Top.c])
             /\ faulted' = faulted \cup {Top.c}
             /\ UNCHANGED <<depth, command, run>>
    <3>1. Top.c \in Ctx
      BY <1>1, <2>2, FrameShapes DEF Is, TurnFrames
    <3>2. /\ StackInv(stack', ctx', nctx') /\ TableInv(ctx', nctx', cur')
          /\ eng' \in [Ctx -> EngineRecord] /\ engine' \in Ctx
      BY <1>1, <2>1, <2>2, <3>1, EndTopTurnKeeps
    <3>3. QED
      BY <2>1, <2>2, <3>1, <3>2 DEF IndInv, RestOK
  <2>3. CASE LeaveNested(eng) /\ UNCHANGED <<ctx, faulted, run>>
    <3>1. /\ StackInv(stack', ctx, nctx) /\ depth' \in 0 .. CallbackMax
          /\ command' \in Nat /\ eng' \in [Ctx -> EngineRecord]
      BY <1>1, <2>3, LeaveNestedKeeps
    <3>2. QED
      BY <2>1, <2>3, <3>1 DEF LeaveNested, IndInv, RestOK
  <2>4. CASE Is("root") /\ LeaveRoot(eng, ctx) /\ run' = "stopped" /\ UNCHANGED faulted
    <3>1. /\ StackInv(stack', ctx', nctx') /\ TableInv(ctx', nctx', cur')
          /\ eng' \in [Ctx -> EngineRecord] /\ engine' = None
      BY <1>1, <2>1, <2>4, LeaveRootKeeps
    <3>2. QED
      BY <2>1, <2>4, <3>1 DEF LeaveRoot, IndInv, RestOK
  <2>5. CASE /\ stack' = Below
             /\ engine' = IF Below = <<>> THEN None ELSE engine
             /\ run' = IF Below = <<>> THEN "stopped" ELSE run
             /\ UNCHANGED <<ctx, cur, eng, depth, command, faulted>>
    <3>1. StackInv(stack', ctx, nctx)
      BY <1>1, <2>5, PopKeeps
    <3>2. QED
      BY <2>1, <2>5, <3>1 DEF IndInv, RestOK
  <2>6. QED
    BY <1>3, <2>2, <2>3, <2>4, <2>5 DEF PassError
<1>4. QED
  BY <1>2, <1>3

(* Every step of the run keeps the invariant. *)
LEMMA InvNext == IndInv /\ [Next]_vars => IndInv'
<1> SUFFICES ASSUME IndInv, [Next]_vars PROVE IndInv'
  OBVIOUS
<1>1. CASE UNCHANGED vars
  BY <1>1 DEF vars, IndInv, RestOK
<1>2. CASE HostQuantum \/ AfterlifeQuantum \/ AfterlifeEnd \/ Kill \/ \E i \in Ctx : NativeEvent(i)
  BY <1>2, HostSteps
<1>3. CASE QuantumYield \/ PollKill
  BY <1>3, SliceEnds, QuietCalls
<1>4. CASE GuestCall
  <2>1. CASE \/ Compute \/ Forbid \/ Permit \/ Fault
             \/ \E i \in Ctx, s \in Signals : Signal(i, s)
    BY <2>1, QuietCalls
  <2>2. CASE \E want \in SUBSET Signals \ {{}} : Wait(want)
    BY <2>2, SliceEnds
  <2>3. CASE Delay \/ Reschedule \/ Callback \/ CallHook \/ RunCommand
    BY <2>3, Pushes
  <2>4. CASE Create
    BY <2>4, CreateKeeps
  <2>5. CASE Return
    BY <2>5, ReturnKeeps
  <2>6. CASE Exit \/ \E i \in Ctx : RemTask(i)
    BY <2>6, ExitKeeps
  <2>7. QED
    BY <1>4, <2>1, <2>2, <2>3, <2>4, <2>5, <2>6 DEF GuestCall
<1>5. CASE SchedVisit \/ SweepVisit
  BY <1>5, Visits
<1>6. CASE SchedDone \/ DelayStep \/ TakeSignals \/ SweepOn \/ SweepEnd \/ Idle
  BY <1>6, LoopSteps
<1>7. CASE Contain \/ PassError
  BY <1>7, ErrorSteps
<1>8. QED
  BY <1>1, <1>2, <1>3, <1>4, <1>5, <1>6, <1>7 DEF Next, Thread, Loop

(* The invariant holds throughout: of the C stack, the context table and the
   types of everything else. *)
THEOREM Invariant == Spec => []IndInv
<1>1. QED
  BY InvInit, InvNext, PTL DEF Spec

(* run_context_nested is never entered for a context that is on the C stack
   already, whatever the guest programs call and however their calls nest,
   return, fault or unwind: on_stack marks every context that has a turn, and
   each has one. *)
THEOREM NoReentry == Spec => []NeverReentered
<1>1. IndInv => NeverReentered
  BY DEF IndInv, StackInv, NeverReentered
<1>2. QED
  BY <1>1, Invariant, PTL

-----------------------------------------------------------------------------
(* The execution domain, and the callbacks counted: what a step does to the  *)
(* C stack, to the saved depths and to callback_depth.                       *)

(* How many nested runs st has up to the frame at height n.                  *)
Runs(st, n) == Cardinality({m \in 1 .. n : st[m].k \in GuestKinds \ {"root"}})

(* A nested run is one more, any other frame is none. *)
LEMMA RunsStep ==
  ASSUME NEW st, NEW n \in Nat
  PROVE  /\ Runs(st, n) \in Nat
         /\ Runs(st, n + 1) = IF st[n + 1].k \in GuestKinds \ {"root"}
                              THEN Runs(st, n) + 1 ELSE Runs(st, n)
         /\ Runs(st, 0) = 0
<1> DEFINE R(k) == {m \in 1 .. k : st[m].k \in GuestKinds \ {"root"}}
<1>1. ASSUME NEW k \in Nat PROVE IsFiniteSet(R(k)) /\ Cardinality(R(k)) \in Nat
  <2>1. IsFiniteSet(1 .. k) /\ R(k) \in SUBSET (1 .. k)
    BY FS_Interval
  <2>2. IsFiniteSet(R(k))
    BY <2>1, FS_Subset
  <2>3. QED
    BY <2>2, FS_CardinalityType
<1>2. ASSUME st[n + 1].k \in GuestKinds \ {"root"}
      PROVE  Runs(st, n + 1) = Runs(st, n) + 1
  <2>1. R(n + 1) = R(n) \cup {n + 1} /\ n + 1 \notin R(n)
    BY <1>2
  <2>2. Runs(st, n) = Cardinality(R(n)) /\ Runs(st, n + 1) = Cardinality(R(n + 1))
    BY DEF Runs
  <2> HIDE DEF R
  <2>3. QED
    BY <1>1, <1>2, <2>1, <2>2, FS_AddElement
<1>3. ASSUME st[n + 1].k \notin GuestKinds \ {"root"}
      PROVE  Runs(st, n + 1) = Runs(st, n)
  <2>1. R(n + 1) = R(n)
    BY <1>3
  <2>2. Runs(st, n) = Cardinality(R(n)) /\ Runs(st, n + 1) = Cardinality(R(n + 1))
    BY DEF Runs
  <2> HIDE DEF R
  <2>3. QED
    BY <1>1, <1>3, <2>1, <2>2
<1>4. Runs(st, 0) = 0
  <2>1. R(0) = {}
    OBVIOUS
  <2>2. QED
    BY <2>1, FS_EmptySet DEF Runs
<1>5. Runs(st, n) \in Nat
  BY <1>1 DEF Runs
<1>6. QED
  BY <1>2, <1>3, <1>4, <1>5

(* The runs up to a height are those of every stack that agrees up to it. *)
LEMMA RunsAgree ==
  ASSUME NEW st, NEW s, NEW n \in Nat, \A i \in 1 .. n : s[i] = st[i]
  PROVE  Runs(s, n) = Runs(st, n)
<1>1. {m \in 1 .. n : s[m].k \in GuestKinds \ {"root"}}
      = {m \in 1 .. n : st[m].k \in GuestKinds \ {"root"}}
  OBVIOUS
<1>2. QED
  BY <1>1 DEF Runs

(* There are no fewer further up. *)
LEMMA RunsGrow ==
  ASSUME NEW st, NEW n \in Nat, NEW m \in 0 .. n
  PROVE  Runs(st, m) <= Runs(st, n)
<1>1. IsFiniteSet({i \in 1 .. n : st[i].k \in GuestKinds \ {"root"}})
  <2>1. IsFiniteSet(1 .. n)
    BY FS_Interval
  <2>2. {i \in 1 .. n : st[i].k \in GuestKinds \ {"root"}} \in SUBSET (1 .. n)
    OBVIOUS
  <2>3. QED
    BY <2>1, <2>2, FS_Subset
<1>2. {i \in 1 .. m : st[i].k \in GuestKinds \ {"root"}}
      \in SUBSET {i \in 1 .. n : st[i].k \in GuestKinds \ {"root"}}
  OBVIOUS
<1>3. QED
  BY <1>1, <1>2, FS_Subset DEF Runs

(* The depth of native code: one library call is under way.  Only the depth
   below the first run of an afterlife may be that of guest code. *)
Native(b, k, rf) == b[k] = 1 \/ (rf /\ k = 1 /\ b[k] = 0)

(* What is true of a C stack st, the depths b above those its nested runs have
   saved, and root_finished: there is a saved depth for every nested run, every
   one that of native code; the current one is that of the frame on top; and
   the root's run is at the bottom until it has returned. *)
DomainInv(st, b, rf) ==
  /\ b \in Seq(Nat)
  /\ Len(b) = Runs(st, Len(st)) + 1
  /\ \A k \in 1 .. Len(b) - 1 : Native(b, k, rf)
  /\ st # <<>> => IF st[Len(st)].k \in GuestKinds THEN b[Len(b)] = 0
                  ELSE Native(b, Len(b), rf)
  /\ st = <<>> => b[1] = 0 \/ (rf /\ b[1] = 1)
  /\ \A i \in 1 .. Len(st) : st[i].k = "root" => i = 1 /\ ~rf
  /\ ~rf /\ st # <<>> => st[1].k = "root"

(* With a run on top there is a root or a nested run. *)
LEMMA GuestBelow ==
  ASSUME NEW st \in Seq(Frame), NEW b, NEW rf, DomainInv(st, b, rf),
         NEW n \in 1 .. Len(st), st[n].k \in GuestKinds
  PROVE  rf => Runs(st, n) >= 1
<1>1. Len(st) \in Nat
  BY LenProperties
<1>2. n - 1 \in Nat /\ (n - 1) + 1 = n
  BY <1>1
<1>3. rf => st[n].k # "root"
  BY DEF DomainInv
<1>4. Runs(st, n - 1) \in Nat
  BY <1>2, RunsStep
<1>5. rf => Runs(st, n) = Runs(st, n - 1) + 1
  BY <1>2, <1>3, RunsStep
<1>6. QED
  BY <1>4, <1>5

(* A library call is entered by the guest code on top. *)
LEMMA CallNative ==
  ASSUME NEW st \in Seq(Frame), NEW b, NEW rf \in BOOLEAN, DomainInv(st, b, rf),
         st # <<>>, st[Len(st)].k \in GuestKinds
  PROVE  /\ InBridge(b) \in Seq(Nat) /\ Len(InBridge(b)) = Len(b)
         /\ \A k \in 1 .. Len(b) - 1 : InBridge(b)[k] = b[k]
         /\ InBridge(b)[Len(b)] = 1
<1>1. b \in Seq(Nat) /\ Len(b) \in Nat /\ b[Len(b)] = 0
  BY LenProperties DEF DomainInv
<1>2. Len(b) \in 1 .. Len(b)
  <2>1. Len(st) \in Nat
    BY LenProperties
  <2>2. Runs(st, Len(st)) \in Nat
    BY <2>1, RunsStep
  <2>3. QED
    BY <1>1, <2>2 DEF DomainInv
<1>3. InBridge(b) = [b EXCEPT ![Len(b)] = 1]
  BY <1>1, <1>2 DEF InBridge
<1>4. QED
  BY <1>1, <1>2, <1>3, ExceptSeq

(* The frame on top is a library call's, or a loop under one.                *)
LEMMA PushNative ==
  ASSUME NEW st \in Seq(Frame), NEW b, NEW rf \in BOOLEAN, DomainInv(st, b, rf),
         NEW f \in Frame, f.k \notin GuestKinds, NEW c \in Seq(Nat), Len(c) = Len(b),
         \A k \in 1 .. Len(b) - 1 : c[k] = b[k], Native(c, Len(b), rf), st # <<>>
  PROVE  DomainInv(Append(st, f), c, rf)
<1> DEFINE s == Append(st, f)
           n == Len(st)
<1>1. n \in Nat /\ n >= 1
  BY LenProperties, EmptySeq
<1>2. /\ Len(s) = n + 1 /\ s # <<>> /\ s[n + 1] = f
      /\ \A i \in 1 .. n : s[i] = st[i]
  BY AppendProperties
<1> HIDE DEF s
<1>3. Runs(s, n + 1) = Runs(st, n)
  <2>1. Runs(s, n) = Runs(st, n)
    BY <1>1, <1>2, RunsAgree
  <2>2. Runs(s, n + 1) = Runs(s, n)
    BY <1>1, <1>2, RunsStep
  <2>3. QED
    BY <2>1, <2>2
<1>4. Len(c) = Runs(s, Len(s)) + 1
  BY <1>2, <1>3 DEF DomainInv
<1>5. \A k \in 1 .. Len(c) - 1 : Native(c, k, rf)
  <2>1. \A k \in 1 .. Len(b) - 1 : Native(b, k, rf)
    BY DEF DomainInv
  <2>2. \A k \in 1 .. Len(c) - 1 : k \in 1 .. Len(b) - 1 /\ c[k] = b[k]
    OBVIOUS
  <2>3. QED
    BY <2>1, <2>2 DEF Native
<1>6. IF s[Len(s)].k \in GuestKinds THEN c[Len(c)] = 0 ELSE Native(c, Len(c), rf)
  BY <1>2
<1>7. \A i \in 1 .. Len(s) : s[i].k = "root" => i = 1 /\ ~rf
  <2>1. \A i \in 1 .. n : st[i].k = "root" => i = 1 /\ ~rf
    BY DEF DomainInv
  <2>2. \A i \in 1 .. Len(s) : i = n + 1 \/ (i \in 1 .. n /\ s[i] = st[i])
    BY <1>1, <1>2
  <2>3. f.k # "root"
    BY DEF GuestKinds
  <2>4. QED
    BY <1>2, <2>1, <2>2, <2>3
<1>8. ~rf => s[1].k = "root"
  BY <1>1, <1>2 DEF DomainInv
<1>9. DomainInv(s, c, rf)
  BY <1>2, <1>4, <1>5, <1>6, <1>7, <1>8 DEF DomainInv
<1>10. QED
  BY <1>9 DEF s

(* A nested run saves the depth and begins at that of guest code.            *)
LEMMA PushRun ==
  ASSUME NEW st \in Seq(Frame), NEW b, NEW rf \in BOOLEAN, DomainInv(st, b, rf),
         NEW f \in Frame, f.k \in GuestKinds \ {"root"}, NEW c \in Seq(Nat), Len(c) = Len(b),
         \A k \in 1 .. Len(b) - 1 : c[k] = b[k], Native(c, Len(b), rf), st # <<>>
  PROVE  DomainInv(Append(st, f), EnterGuest(c), rf)
<1> DEFINE s == Append(st, f)
           d == Append(c, 0)
           n == Len(st)
<1>1. n \in Nat /\ n >= 1 /\ Len(b) \in Nat
  BY LenProperties, EmptySeq DEF DomainInv
<1>2. /\ Len(s) = n + 1 /\ s # <<>> /\ s[n + 1] = f
      /\ \A i \in 1 .. n : s[i] = st[i]
  BY AppendProperties
<1>3. /\ d \in Seq(Nat) /\ Len(d) = Len(b) + 1 /\ d[Len(b) + 1] = 0
      /\ \A k \in 1 .. Len(b) : d[k] = c[k]
  BY AppendProperties
<1> HIDE DEF s, d
<1>4. Runs(s, n + 1) = Runs(st, n) + 1
  <2>1. Runs(s, n) = Runs(st, n)
    BY <1>1, <1>2, RunsAgree
  <2>2. Runs(s, n + 1) = Runs(s, n) + 1
    BY <1>1, <1>2, RunsStep
  <2>3. QED
    BY <2>1, <2>2
<1>5. Runs(st, n) \in Nat
  BY <1>1, RunsStep
<1>6. Len(d) = Runs(s, Len(s)) + 1
  BY <1>2, <1>3, <1>4, <1>5 DEF DomainInv
<1>7. \A k \in 1 .. Len(d) - 1 : Native(d, k, rf)
  <2>1. ASSUME NEW k \in 1 .. Len(b) PROVE Native(d, k, rf)
    <3>1. CASE k = Len(b)
      BY <1>3, <3>1 DEF Native
    <3>2. CASE k \in 1 .. Len(b) - 1
      BY <1>3, <3>2 DEF DomainInv, Native
    <3>3. QED
      BY <1>1, <3>1, <3>2
  <2>2. QED
    BY <1>1, <1>3, <2>1
<1>8. s[Len(s)].k \in GuestKinds /\ d[Len(d)] = 0
  BY <1>2, <1>3
<1>9. \A i \in 1 .. Len(s) : s[i].k = "root" => i = 1 /\ ~rf
  <2>1. \A i \in 1 .. Len(s) : i = n + 1 \/ (i \in 1 .. n /\ s[i] = st[i])
    BY <1>1, <1>2
  <2>2. QED
    BY <1>2, <2>1 DEF DomainInv
<1>10. ~rf => s[1].k = "root"
  BY <1>1, <1>2 DEF DomainInv
<1>11. DomainInv(s, d, rf)
  BY <1>2, <1>3, <1>6, <1>7, <1>8, <1>9, <1>10 DEF DomainInv
<1>12. QED
  BY <1>11 DEF s, d, EnterGuest

(* Unwinding to height m, with the depth c that was saved above it: if guest
   code is on top there, its library call returns. *)
LEMMA Unwind ==
  ASSUME NEW st \in Seq(Frame), NEW b, NEW rf \in BOOLEAN, DomainInv(st, b, rf),
         NEW m \in 0 .. Len(st), m = 0 => rf,
         NEW c \in Seq(Nat), Len(c) = Runs(st, m) + 1, Len(c) <= Len(b),
         \A k \in 1 .. Len(c) - 1 : c[k] = b[k], Native(c, Len(c), rf)
  PROVE  DomainInv(SubSeq(st, 1, m), Back(SubSeq(st, 1, m), c), rf)
<1> DEFINE s == SubSeq(st, 1, m)
           d == Back(s, c)
<1>1. m \in Nat /\ Len(st) \in Nat /\ Len(c) \in Nat /\ Runs(st, m) \in Nat
  BY LenProperties, RunsStep
<1>2. /\ s \in Seq(Frame) /\ Len(s) = m
      /\ \A i \in 1 .. m : s[i] = st[i]
  BY CutFacts
<1> HIDE DEF s
<1>3. Len(c) \in 1 .. Len(c) /\ Runs(s, m) = Runs(st, m)
  <2>1. Len(c) \in 1 .. Len(c)
    BY <1>1
  <2>2. Runs(s, m) = Runs(st, m)
    BY <1>1, <1>2, RunsAgree
  <2>3. QED
    BY <2>1, <2>2
<1>4. \A k \in 1 .. Len(c) - 1 : Native(c, k, rf)
  <2>1. b \in Seq(Nat) /\ Len(b) \in Nat
    BY LenProperties DEF DomainInv
  <2>2. \A k \in 1 .. Len(b) - 1 : Native(b, k, rf)
    BY DEF DomainInv
  <2>3. \A k \in 1 .. Len(c) - 1 : k \in 1 .. Len(b) - 1 /\ c[k] = b[k]
    BY <1>1, <2>1
  <2>4. QED
    BY <2>2, <2>3 DEF Native
<1>5. \A i \in 1 .. Len(s) : s[i].k = "root" => i = 1 /\ ~rf
  <2>1. \A i \in 1 .. Len(st) : st[i].k = "root" => i = 1 /\ ~rf
    BY DEF DomainInv
  <2>2. \A i \in 1 .. Len(s) : i \in 1 .. Len(st) /\ s[i] = st[i]
    BY <1>1, <1>2
  <2>3. QED
    BY <2>1, <2>2
<1>6. ~rf /\ s # <<>> => s[1].k = "root"
  <2>1. s # <<>> => Len(s) >= 1
    BY <1>1, <1>2, EmptySeq
  <2>2. st # <<>> \/ m = 0
    BY <1>1, EmptySeq
  <2>3. QED
    BY <1>1, <1>2, <2>1, <2>2 DEF DomainInv
<1>7. CASE s = <<>>
  <2>1. m = 0 /\ rf
    BY <1>2, <1>7, EmptySeq
  <2>2. d = c /\ Len(c) = 1
    BY <1>7, <2>1, RunsStep DEF Back
  <2>3. c[1] = 0 \/ c[1] = 1
    BY <2>2 DEF Native
  <2> HIDE DEF d
  <2>4. DomainInv(s, c, rf)
    BY <1>2, <1>3, <1>4, <1>5, <1>6, <1>7, <2>1, <2>2, <2>3 DEF DomainInv
  <2>5. QED
    BY <2>2, <2>4 DEF s, d
<1>8. CASE s # <<>> /\ s[Len(s)].k \in GuestKinds
  <2>1. m \in 1 .. m
    BY <1>1, <1>2, <1>8, EmptySeq
  <2>2. rf => Runs(st, m) >= 1
    <3>1. m \in 1 .. Len(st) /\ st[m].k \in GuestKinds
      BY <1>1, <1>2, <1>8, <2>1
    <3>2. QED
      BY <3>1, GuestBelow
  <2>3. c[Len(c)] = 1
    BY <1>1, <2>2 DEF Native
  <2>4. d = [c EXCEPT ![Len(c)] = 0]
    BY <1>3, <1>8, <2>3 DEF Back
  <2>5. /\ d \in Seq(Nat) /\ Len(d) = Len(c) /\ d[Len(c)] = 0
        /\ \A k \in 1 .. Len(c) - 1 : d[k] = c[k]
    BY <1>1, <1>3, <2>4, ExceptSeq
  <2> HIDE DEF d
  <2>6. \A k \in 1 .. Len(d) - 1 : Native(d, k, rf)
    BY <1>4, <2>5 DEF Native
  <2>7. DomainInv(s, d, rf)
    BY <1>2, <1>3, <1>5, <1>6, <1>8, <2>5, <2>6 DEF DomainInv
  <2>8. QED
    BY <2>7 DEF s, d
<1>9. CASE s # <<>> /\ s[Len(s)].k \notin GuestKinds
  <2>1. d = c
    BY <1>9 DEF Back
  <2> HIDE DEF d
  <2>2. DomainInv(s, c, rf)
    BY <1>2, <1>3, <1>4, <1>5, <1>6, <1>9 DEF DomainInv
  <2>3. QED
    BY <2>1, <2>2 DEF s, d
<1>10. QED
  BY <1>7, <1>8, <1>9 DEF s, d

(* Advancing a loop frame in place changes no depth. *)
LEMMA LoopOn ==
  ASSUME NEW st \in Seq(Frame), NEW b, NEW rf \in BOOLEAN, DomainInv(st, b, rf),
         st # <<>>, st[Len(st)].k \notin GuestKinds, NEW f \in Frame, f.k \notin GuestKinds
  PROVE  DomainInv(Append(SubSeq(st, 1, Len(st) - 1), f), b, rf)
<1> DEFINE n == Len(st)
           w == SubSeq(st, 1, n - 1)
           s == Append(w, f)
<1>1. n \in Nat /\ n >= 1 /\ n - 1 \in 0 .. n /\ n - 1 \in Nat /\ (n - 1) + 1 = n
  BY LenProperties, EmptySeq
<1>2. w \in Seq(Frame) /\ Len(w) = n - 1 /\ \A i \in 1 .. n - 1 : w[i] = st[i]
  BY <1>1, CutFacts
<1> HIDE DEF w
<1>3. /\ s \in Seq(Frame) /\ Len(s) = n /\ s # <<>> /\ s[n] = f
      /\ \A i \in 1 .. n - 1 : s[i] = st[i]
  <2>1. /\ s \in Seq(Frame) /\ Len(s) = Len(w) + 1 /\ s # <<>> /\ s[Len(w) + 1] = f
        /\ \A i \in 1 .. Len(w) : s[i] = w[i]
    BY <1>2, AppendProperties
  <2> HIDE DEF s
  <2>2. QED
    BY <1>1, <1>2, <2>1
<1> HIDE DEF s
<1>4. Runs(s, n) = Runs(st, n)
  <2>1. Runs(s, n - 1) = Runs(st, n - 1)
    BY <1>1, <1>3, RunsAgree
  <2>2. Runs(s, n) = Runs(s, n - 1)
    BY <1>1, <1>3, RunsStep
  <2>3. Runs(st, n) = Runs(st, n - 1)
    BY <1>1, RunsStep
  <2>4. QED
    BY <2>1, <2>2, <2>3
<1>5. \A i \in 1 .. n : i = n \/ (i \in 1 .. n - 1 /\ s[i] = st[i])
  <2> HIDE DEF n
  <2>1. \A i \in 1 .. n : i = n \/ i \in 1 .. n - 1
    BY <1>1
  <2>2. QED
    BY <1>3, <2>1
<1>6. \A i \in 1 .. Len(s) : s[i].k = "root" => i = 1 /\ ~rf
  BY <1>3, <1>5 DEF DomainInv, GuestKinds
<1>7. ~rf => s[1].k = "root"
  <2>1. ~rf => n # 1 /\ st[1].k = "root"
    BY <1>1 DEF DomainInv, GuestKinds
  <2>2. QED
    BY <1>1, <1>3, <2>1
<1>8. DomainInv(s, b, rf)
  BY <1>3, <1>4, <1>6, <1>7 DEF DomainInv
<1>9. QED
  BY <1>8 DEF s, w

-----------------------------------------------------------------------------
(* The same, of the C stack of the run.                                      *)
DomainOK == DomainInv(stack, bridge, rootFinished)

GuestOnTop == stack # <<>> /\ Top.k \in GuestKinds
LoopOnTop == stack # <<>> /\ Top.k \notin GuestKinds

(* A library call that suspends guest code under a loop. *)
LEMMA DomainCall ==
  ASSUME IndInv, DomainOK, GuestOnTop, NEW f \in Frame, f.k \notin GuestKinds,
         stack' = Append(stack, f), bridge' = InBridge(bridge), UNCHANGED rootFinished
  PROVE  DomainOK'
<1>1. stack \in Seq(Frame) /\ rootFinished \in BOOLEAN
  BY DEF IndInv, StackInv, RestOK
<1>2. /\ InBridge(bridge) \in Seq(Nat) /\ Len(InBridge(bridge)) = Len(bridge)
      /\ \A k \in 1 .. Len(bridge) - 1 : InBridge(bridge)[k] = bridge[k]
      /\ InBridge(bridge)[Len(bridge)] = 1
  BY <1>1, CallNative DEF DomainOK, GuestOnTop, Top
<1>3. Native(InBridge(bridge), Len(bridge), rootFinished)
  BY <1>2 DEF Native
<1>4. DomainInv(Append(stack, f), InBridge(bridge), rootFinished)
  BY <1>1, <1>2, <1>3, PushNative DEF DomainOK, GuestOnTop
<1>5. QED
  BY <1>4 DEF DomainOK

(* A library call that runs guest code before it returns. *)
LEMMA DomainNest ==
  ASSUME IndInv, DomainOK, GuestOnTop, NEW f \in Frame, f.k \in GuestKinds \ {"root"},
         stack' = Append(stack, f), bridge' = EnterGuest(InBridge(bridge)),
         UNCHANGED rootFinished
  PROVE  DomainOK'
<1>1. stack \in Seq(Frame) /\ rootFinished \in BOOLEAN
  BY DEF IndInv, StackInv, RestOK
<1>2. /\ InBridge(bridge) \in Seq(Nat) /\ Len(InBridge(bridge)) = Len(bridge)
      /\ \A k \in 1 .. Len(bridge) - 1 : InBridge(bridge)[k] = bridge[k]
      /\ InBridge(bridge)[Len(bridge)] = 1
  BY <1>1, CallNative DEF DomainOK, GuestOnTop, Top
<1>3. Native(InBridge(bridge), Len(bridge), rootFinished)
  BY <1>2 DEF Native
<1>4. DomainInv(Append(stack, f), EnterGuest(InBridge(bridge)), rootFinished)
  BY <1>1, <1>2, <1>3, PushRun DEF DomainOK, GuestOnTop
<1>5. QED
  BY <1>4 DEF DomainOK

(* A loop goes on, alone, with another loop on top, or with a turn. *)
LEMMA DomainLoop ==
  ASSUME IndInv, DomainOK, LoopOnTop, NEW f \in Frame, f.k \notin GuestKinds,
         UNCHANGED rootFinished,
         \/ stack' = Update(f) /\ bridge' = bridge
         \/ \E g \in Frame : /\ g.k \notin GuestKinds
                            /\ stack' = Append(Update(f), g) /\ bridge' = bridge
         \/ \E g \in Frame : /\ g.k = "turn"
                            /\ stack' = Append(Update(f), g) /\ bridge' = EnterGuest(bridge)
  PROVE  DomainOK'
<1>1. stack \in Seq(Frame) /\ rootFinished \in BOOLEAN
  BY DEF IndInv, StackInv, RestOK
<1>2. DomainInv(Update(f), bridge, rootFinished)
  BY <1>1, LoopOn DEF DomainOK, LoopOnTop, Top, Update, Below
<1>3. /\ Update(f) \in Seq(Frame) /\ Update(f) # <<>>
      /\ Update(f)[Len(Update(f))] = f
  <2>1. Below \in Seq(Frame)
    BY <1>1, BelowFacts DEF LoopOnTop
  <2>2. QED
    BY <2>1, AppendProperties DEF Update
<1>4. /\ bridge \in Seq(Nat) /\ Native(bridge, Len(bridge), rootFinished)
      /\ \A k \in 1 .. Len(bridge) - 1 : bridge[k] = bridge[k]
  BY <1>2, <1>3 DEF DomainInv
<1>5. CASE stack' = Update(f) /\ bridge' = bridge
  BY <1>2, <1>5 DEF DomainOK
<1>6. ASSUME NEW g \in Frame, g.k \notin GuestKinds,
             stack' = Append(Update(f), g), bridge' = bridge
      PROVE  DomainOK'
  <2>1. DomainInv(Append(Update(f), g), bridge, rootFinished)
    BY <1>1, <1>2, <1>3, <1>4, <1>6, PushNative
  <2>2. QED
    BY <1>6, <2>1 DEF DomainOK
<1>7. ASSUME NEW g \in Frame, g.k = "turn",
             stack' = Append(Update(f), g), bridge' = EnterGuest(bridge)
      PROVE  DomainOK'
  <2>1. g.k \in GuestKinds \ {"root"}
    BY <1>7 DEF GuestKinds
  <2>2. DomainInv(Append(Update(f), g), EnterGuest(bridge), rootFinished)
    BY <1>1, <1>2, <1>3, <1>4, <2>1, PushRun
  <2>3. QED
    BY <1>7, <2>2 DEF DomainOK
<1>8. QED
  BY <1>5, <1>6, <1>7

(* A loop ends, and the call over it returns. *)
LEMMA DomainPop ==
  ASSUME IndInv, DomainOK, LoopOnTop, stack' = Below, bridge' = Back(Below, bridge),
         UNCHANGED rootFinished
  PROVE  DomainOK'
<1> DEFINE n == Len(stack)
<1>1. stack \in Seq(Frame) /\ rootFinished \in BOOLEAN
  BY DEF IndInv, StackInv, RestOK
<1>2. n \in Nat \ {0} /\ n - 1 \in 0 .. n /\ n - 1 \in Nat /\ (n - 1) + 1 = n
  BY <1>1, TopFacts DEF LoopOnTop
<1>3. stack[n].k \notin GuestKinds /\ Native(bridge, Len(bridge), rootFinished)
  BY DEF LoopOnTop, Top, DomainOK, DomainInv
<1>4. Runs(stack, n - 1) = Runs(stack, n)
  BY <1>2, <1>3, RunsStep
<1>5. /\ bridge \in Seq(Nat) /\ Len(bridge) = Runs(stack, n - 1) + 1
      /\ Len(bridge) <= Len(bridge)
  BY <1>4, LenProperties DEF DomainOK, DomainInv
<1>6. n - 1 = 0 => rootFinished
  <2>1. ~rootFinished => stack[1].k = "root"
    BY DEF LoopOnTop, DomainOK, DomainInv
  <2> HIDE DEF n
  <2>2. QED
    BY <1>2, <1>3, <2>1 DEF GuestKinds
<1>7. DomainInv(SubSeq(stack, 1, n - 1), Back(SubSeq(stack, 1, n - 1), bridge), rootFinished)
  BY <1>1, <1>2, <1>3, <1>5, <1>6, Unwind DEF DomainOK
<1>8. QED
  BY <1>7 DEF DomainOK, Below

(* The nested run at height m is left, by a return, an error or a longjmp: the
   depth it saved is put back, or that of the call that jumps. *)
LEMMA DomainLeave ==
  ASSUME IndInv, DomainOK, NEW m \in 1 .. Len(stack), stack[m].k \in GuestKinds \ {"root"},
         stack' = SubSeq(stack, 1, m - 1), UNCHANGED rootFinished,
         \/ bridge' = Back(stack', Restored(m))
         \/ /\ bridge' = Back(stack', NotRestored(m))
            /\ GuestOnTop
  PROVE  DomainOK'
<1> DEFINE c == Restored(m)
           e == Runs(stack, m - 1) + 1
<1>1. stack \in Seq(Frame) /\ rootFinished \in BOOLEAN /\ Len(stack) \in Nat
  BY LenProperties DEF IndInv, StackInv, RestOK
<1>2. m - 1 \in 0 .. Len(stack) /\ m - 1 \in Nat /\ (m - 1) + 1 = m /\ m \in 0 .. Len(stack)
  BY <1>1
<1>3. Entries(m) = e /\ e \in Nat /\ e >= 1
  <2>1. Entries(m) = Runs(stack, m)
    BY DEF Entries, Runs
  <2>2. QED
    BY <1>2, <2>1, RunsStep
<1>4. bridge \in Seq(Nat) /\ Len(bridge) \in Nat /\ e <= Len(bridge) - 1
  <2>1. Runs(stack, m) <= Runs(stack, Len(stack)) /\ Runs(stack, Len(stack)) \in Nat
    BY <1>1, <1>2, RunsGrow, RunsStep
  <2>2. Runs(stack, m) = e
    BY <1>2, RunsStep
  <2>3. bridge \in Seq(Nat) /\ Len(bridge) = Runs(stack, Len(stack)) + 1
    BY DEF DomainOK, DomainInv
  <2>4. QED
    BY <1>3, <2>1, <2>2, <2>3
<1>5. /\ c \in Seq(Nat) /\ Len(c) = e /\ \A k \in 1 .. e : c[k] = bridge[k]
  <2>1. e \in 0 .. Len(bridge)
    BY <1>3, <1>4
  <2>2. QED
    BY <1>3, <1>4, <2>1, CutFacts DEF Restored
<1>6. Native(c, e, rootFinished)
  BY <1>3, <1>4, <1>5 DEF DomainOK, DomainInv, Native
<1>7. m - 1 = 0 => rootFinished
  BY <1>1, <1>2, EmptySeq DEF DomainOK, DomainInv
<1> HIDE DEF c, e
<1>8. CASE bridge' = Back(stack', c)
  <2>1. DomainInv(SubSeq(stack, 1, m - 1), Back(SubSeq(stack, 1, m - 1), c), rootFinished)
    <3>1. Len(c) = Runs(stack, m - 1) + 1 /\ Len(c) <= Len(bridge)
      BY <1>3, <1>4, <1>5 DEF e
    <3>2. \A k \in 1 .. Len(c) - 1 : c[k] = bridge[k]
      BY <1>3, <1>5
    <3>3. QED
      BY <1>1, <1>2, <1>5, <1>6, <1>7, <3>1, <3>2, Unwind DEF DomainOK
  <2>2. QED
    BY <1>8, <2>1 DEF DomainOK
<1>9. CASE bridge' = Back(stack', NotRestored(m)) /\ GuestOnTop
  <2> DEFINE d == [c EXCEPT ![e] = 1]
  <2>1. bridge[Len(bridge)] = 0
    BY <1>9 DEF GuestOnTop, Top, DomainOK, DomainInv
  <2>2. NotRestored(m) = d
    BY <1>3, <2>1 DEF NotRestored, c
  <2>3. /\ d \in Seq(Nat) /\ Len(d) = e /\ d[e] = 1
        /\ \A k \in 1 .. e - 1 : d[k] = bridge[k]
    <3>1. e \in 1 .. Len(c) /\ 1 \in Nat
      BY <1>3, <1>5
    <3>2. QED
      BY <1>3, <1>5, <3>1, ExceptSeq
  <2> HIDE DEF d
  <2>4. DomainInv(SubSeq(stack, 1, m - 1), Back(SubSeq(stack, 1, m - 1), d), rootFinished)
    <3>1. Len(d) = Runs(stack, m - 1) + 1 /\ Len(d) <= Len(bridge)
      BY <1>3, <1>4, <2>3 DEF e
    <3>2. (\A k \in 1 .. Len(d) - 1 : d[k] = bridge[k]) /\ Native(d, Len(d), rootFinished)
      BY <2>3 DEF Native
    <3>3. QED
      BY <1>1, <1>2, <1>7, <2>3, <3>1, <3>2, Unwind DEF DomainOK
  <2>5. QED
    BY <1>9, <2>2, <2>4 DEF DomainOK
<1>10. QED
  BY <1>8, <1>9 DEF c

(* How a loop frame goes on, as itself. *)
LEMMA FramesGoOn ==
  ASSUME IndInv, stack # <<>>
  PROVE  /\ Is("sched") /\ Top.next < nctx =>
               LET f == [Top EXCEPT !.next = @ + 1]
               IN  f \in Frame /\ f.k = "sched" /\ f.outer = Top.outer
         /\ Is("delay") /\ Top.left > 0 =>
               LET f == [Top EXCEPT !.left = @ - 1] IN f \in Frame /\ f.k = "delay"
         /\ \A at \in {"sweep", "idle", "checked"} : Is("wait") =>
               LET f == [Top EXCEPT !.at = at] IN f \in Frame /\ f.k = "wait"
         /\ Is("wait") /\ Top.next < nctx => \A at \in {"sweep", "ran"}, b \in BOOLEAN :
               LET f == [Top EXCEPT !.at = at, !.next = Top.next + 1, !.progress = @ \/ b]
               IN  f \in Frame /\ f.k = "wait"
         /\ Is("wait") /\ Top.spun + 1 < SweepMax =>
               LET f == [Top EXCEPT !.next = 0, !.progress = FALSE, !.spun = @ + 1]
               IN  f \in Frame /\ f.k = "wait"
<1>1. Top \in Frame /\ nctx \in 0 .. MaxCtx /\ MaxCtx \in Nat
  BY TopFacts, ContextsAssumption DEF IndInv, StackInv, TableInv
<1>2. ASSUME Is("sched"), Top.next < nctx
      PROVE  LET f == [Top EXCEPT !.next = @ + 1]
             IN  f \in Frame /\ f.k = "sched" /\ f.outer = Top.outer
  <2>1. Top \in SchedFrames
    BY <1>1, <1>2, FrameShapes DEF Is
  <2>2. Top.next + 1 \in 0 .. MaxCtx
    BY <1>1, <1>2, <2>1 DEF SchedFrames
  <2>3. [Top EXCEPT !.next = @ + 1] \in SchedFrames
    BY <2>1, <2>2 DEF SchedFrames
  <2>4. QED
    BY <2>1, <2>3 DEF Frame, SchedFrames
<1>3. ASSUME Is("delay"), Top.left > 0
      PROVE  LET f == [Top EXCEPT !.left = @ - 1] IN f \in Frame /\ f.k = "delay"
  <2>1. Top \in DelayFrames
    BY <1>1, <1>3, FrameShapes DEF Is
  <2>2. [Top EXCEPT !.left = @ - 1] \in DelayFrames
    BY <1>3, <2>1, BoundsAssumption DEF DelayFrames
  <2>3. QED
    BY <2>2 DEF Frame, DelayFrames
<1>4. \A w \in WaitFrames : w \in Frame /\ w.k = "wait"
  BY DEF Frame, WaitFrames
<1>5. Is("wait") => Top \in WaitFrames
  BY <1>1, FrameShapes DEF Is
<1>6. ASSUME NEW at \in {"sweep", "idle", "checked"}, Is("wait")
      PROVE  LET f == [Top EXCEPT !.at = at] IN f \in Frame /\ f.k = "wait"
  <2>1. [Top EXCEPT !.at = at] \in WaitFrames
    BY <1>5, <1>6 DEF WaitFrames
  <2>2. QED
    BY <1>4, <2>1
<1>7. ASSUME Is("wait"), Top.next < nctx, NEW at \in {"sweep", "ran"}, NEW b \in BOOLEAN
      PROVE  LET f == [Top EXCEPT !.at = at, !.next = Top.next + 1, !.progress = @ \/ b]
             IN  f \in Frame /\ f.k = "wait"
  <2> DEFINE f == [Top EXCEPT !.at = at, !.next = Top.next + 1, !.progress = @ \/ b]
  <2>1. (Top.progress \/ b) \in BOOLEAN
    OBVIOUS
  <2>2. Top.next + 1 \in 0 .. MaxCtx
    BY <1>1, <1>5, <1>7 DEF WaitFrames
  <2>3. f \in WaitFrames
    BY <1>5, <1>7, <2>1, <2>2, ZenonT(60) DEF WaitFrames
  <2> HIDE DEF f
  <2>4. QED
    BY <1>4, <2>3 DEF f
<1>8. ASSUME Is("wait"), Top.spun + 1 < SweepMax
      PROVE  LET f == [Top EXCEPT !.next = 0, !.progress = FALSE, !.spun = @ + 1]
             IN  f \in Frame /\ f.k = "wait"
  <2>1. 0 \in 0 .. MaxCtx /\ Top.spun + 1 \in 0 .. SweepMax
    BY <1>1, <1>5, <1>8, BoundsAssumption DEF WaitFrames
  <2>2. [Top EXCEPT !.next = 0, !.progress = FALSE, !.spun = @ + 1] \in WaitFrames
    BY <1>5, <1>8, <2>1 DEF WaitFrames
  <2>3. QED
    BY <1>4, <2>2
<1>9. QED
  BY <1>2, <1>3, <1>6, <1>7, <1>8

(* The frames that calls put on the C stack. *)
LEMMA FramesMade ==
  ASSUME IndInv
  PROVE  /\ SchedFrame(cur) \in Frame /\ SchedFrame(cur).k = "sched" /\ SchedFrame(cur).outer = cur
         /\ DelayFrame \in Frame /\ DelayFrame.k = "delay"
         /\ \A want \in SUBSET Signals : WaitFrame(want) \in Frame /\ WaitFrame(want).k = "wait"
         /\ CallbackFrame \in Frame /\ CallbackFrame.k = "callback"
         /\ CommandFrame \in Frame /\ CommandFrame.k = "command"
         /\ RootFrame \in Frame /\ RootFrame.k = "root"
         /\ \A i \in Ctx : /\ TurnFrame(i, cur) \in Frame /\ TurnFrame(i, cur).k = "turn"
                           /\ TurnFrame(i, cur).c = i /\ TurnFrame(i, cur).outer = cur
<1>1. cur \in Ctx /\ 0 \in 0 .. MaxCtx /\ DelayTurns \in 0 .. DelayTurns /\ 0 \in 0 .. SweepMax
  BY ContextsAssumption, BoundsAssumption DEF IndInv, TableInv
<1>2. SchedFrame(cur) \in Frame /\ SchedFrame(cur).k = "sched" /\ SchedFrame(cur).outer = cur
  BY <1>1 DEF SchedFrame, Frame, SchedFrames
<1>3. DelayFrame \in Frame /\ DelayFrame.k = "delay"
  BY <1>1 DEF DelayFrame, Frame, DelayFrames
<1>4. \A want \in SUBSET Signals : WaitFrame(want) \in Frame /\ WaitFrame(want).k = "wait"
  BY <1>1 DEF WaitFrame, Frame, WaitFrames
<1>5. /\ CallbackFrame \in Frame /\ CallbackFrame.k = "callback"
      /\ CommandFrame \in Frame /\ CommandFrame.k = "command"
      /\ RootFrame \in Frame /\ RootFrame.k = "root"
  BY DEF CallbackFrame, CommandFrame, RootFrame, Frame
<1>6. \A i \in Ctx : /\ TurnFrame(i, cur) \in Frame /\ TurnFrame(i, cur).k = "turn"
                     /\ TurnFrame(i, cur).c = i /\ TurnFrame(i, cur).outer = cur
  BY <1>1 DEF TurnFrame, Frame, TurnFrames
<1>7. QED
  BY <1>2, <1>3, <1>4, <1>5, <1>6

(* What a step of a loop does to the C stack: it ends; or it goes on, by itself,
   with a scheduler's pass on top, or with the turn of an unmarked context. *)
LoopEnds ==
  /\ stack' = Below /\ bridge' = Back(Below, bridge)
  /\ Is("sched") => Len(stack) > 1
  /\ UNCHANGED <<ctx, cur, engine, eng>>
LoopGoes(f) ==
  /\ stack' = Update(f) /\ bridge' = bridge /\ err' = err
  /\ UNCHANGED <<ctx, cur, eng>>
  /\ engine' = engine \/ (Is("sched") /\ engine' = Top.outer)
LoopPasses(f) ==
  /\ stack' = Append(Update(f), SchedFrame(cur)) /\ bridge' = bridge /\ err' = err
  /\ UNCHANGED <<ctx, cur, engine, eng>>
LoopTurns(f) ==
  \E i \in Ctx, sigs \in [Ctx -> SUBSET Signals] :
     /\ i < nctx /\ ~ctx[i].onStack /\ ~ctx[i].finished
     /\ StartTurn(i, Update(f), sigs) /\ bridge' = EnterGuest(bridge) /\ err' = err

(* Every step of a loop does one of these, and touches nothing else of the run. *)
LEMMA LoopMoves ==
  ASSUME IndInv,
         \/ SchedVisit \/ SchedDone \/ DelayStep \/ TakeSignals
         \/ SweepVisit \/ SweepOn \/ SweepEnd \/ Idle
  PROVE  /\ LoopOnTop /\ ~err /\ run = "live"
         /\ UNCHANGED <<nctx, depth, command, run, rootFinished, kill, faulted>>
         /\ \/ LoopEnds
            \/ \E f \in Frame : /\ f.k = Top.k /\ (f.k = "sched" => f.outer = Top.outer)
                                /\ LoopGoes(f) \/ LoopPasses(f) \/ LoopTurns(f)
<1>1. ~err /\ run = "live" /\ stack # <<>> /\ Top.k \in {"sched", "delay", "wait"}
  BY DEF SchedVisit, SchedDone, DelayStep, TakeSignals, SweepVisit, SweepOn, SweepEnd, Idle,
         Resumed, Is
<1>2. UNCHANGED <<nctx, depth, command, run, rootFinished, kill, faulted>>
  BY DEF SchedVisit, SchedDone, DelayStep, TakeSignals, SweepVisit, SweepOn, SweepEnd, Idle,
         Control, table, outcome
<1>3. LoopOnTop
  BY <1>1 DEF LoopOnTop, GuestKinds
<1>4. sig \in [Ctx -> SUBSET Signals] /\ nctx \in 0 .. MaxCtx /\ MaxCtx \in Nat
  BY ContextsAssumption DEF IndInv, RestOK, TableInv
<1>5. CASE SchedVisit
  <2> DEFINE f == [Top EXCEPT !.next = @ + 1]
             i == Top.next
             o == ctx[i]
             asleep == o.blocked /\ sig[i] \cap o.mask = {}
             sigs == IF asleep THEN SigPumped(o.mask) ELSE sig
  <2>1. Is("sched") /\ i < nctx /\ err' = err
    BY <1>5 DEF SchedVisit, Resumed
  <2>2. f \in Frame /\ f.k = Top.k /\ f.outer = Top.outer
    BY <1>1, <2>1, FramesGoOn DEF Is
  <2>3. i \in Ctx /\ sigs \in [Ctx -> SUBSET Signals]
    <3>1. Top \in SchedFrames
      BY <1>1, <2>1, TopFacts, FrameShapes DEF Is, IndInv, StackInv
    <3>2. QED
      BY <1>4, <2>1, <3>1, SigPumpedType DEF SchedFrames, Ctx
  <2>4. CASE stack' = Visited /\ UNCHANGED <<ctx, cur, engine, eng, sig, bridge>>
    BY <1>1, <1>2, <1>3, <2>1, <2>2, <2>4 DEF LoopGoes, Visited
  <2>5. CASE stack' = Visited /\ engine' = Top.outer /\ UNCHANGED <<ctx, cur, eng, bridge>>
    BY <1>1, <1>2, <1>3, <2>1, <2>2, <2>5 DEF LoopGoes, Visited
  <2>6. CASE ~Passed(i) /\ StartTurn(i, Visited, sigs) /\ bridge' = EnterGuest(bridge)
    <3>1. ~ctx[i].onStack /\ ~ctx[i].finished
      BY <2>6 DEF Passed
    <3>2. LoopTurns(f)
      BY <2>1, <2>3, <2>6, <3>1 DEF LoopTurns, Visited
    <3>3. QED
      BY <1>1, <1>2, <1>3, <2>2, <3>2
  <2>7. QED
    BY <1>5, <2>4, <2>5, <2>6 DEF SchedVisit
<1>6. CASE SchedDone
  BY <1>1, <1>2, <1>3, <1>6 DEF SchedDone, Control, table, LoopEnds
<1>7. CASE DelayStep
  <2> DEFINE f == [Top EXCEPT !.left = @ - 1]
  <2>1. CASE Top.left > 0 /\ stack' = Append(Update(f), SchedFrame(cur)) /\ UNCHANGED bridge
    <3>1. f \in Frame /\ f.k = "delay" /\ Top.k = "delay"
      BY <1>1, <1>7, <2>1, FramesGoOn DEF DelayStep, Resumed, Is
    <3>2. LoopPasses(f)
      BY <1>7, <2>1 DEF LoopPasses, DelayStep, Control, table
    <3>3. QED
      BY <1>1, <1>2, <1>3, <3>1, <3>2
  <2>2. CASE stack' = Below /\ bridge' = Back(Below, bridge)
    BY <1>1, <1>2, <1>3, <1>7, <2>2 DEF DelayStep, Resumed, Is, Control, table, LoopEnds
  <2>3. QED
    BY <1>7, <2>1, <2>2 DEF DelayStep
<1>8. CASE TakeSignals
  BY <1>1, <1>2, <1>3, <1>8 DEF TakeSignals, Resumed, Is, Control, table, LoopEnds
<1>9. CASE SweepVisit
  <2> DEFINE i == Top.next
             f(at, some) == [Top EXCEPT !.at = at, !.next = i + 1, !.progress = @ \/ some]
  <2>1. Is("wait") /\ i < nctx /\ err' = err
    BY <1>9 DEF SweepVisit, Resumed
  <2>2. \A at \in {"sweep", "ran"}, b \in BOOLEAN : f(at, b) \in Frame /\ f(at, b).k = "wait"
    BY <1>1, <2>1, FramesGoOn
  <2>3. i \in Ctx /\ Top.k = "wait"
    <3>1. Top \in WaitFrames
      BY <1>1, <2>1, TopFacts, FrameShapes DEF Is, IndInv, StackInv
    <3>2. QED
      BY <1>4, <2>1, <3>1 DEF WaitFrames, Ctx
  <2>4. CASE stack' = Update(f("sweep", FALSE)) /\ UNCHANGED <<ctx, cur, engine, eng, sig, bridge>>
    <3>1. LoopGoes(f("sweep", FALSE))
      BY <2>1, <2>4 DEF LoopGoes
    <3>2. f("sweep", FALSE) \in Frame /\ f("sweep", FALSE).k = "wait"
      BY <2>2
    <3> HIDE DEF f
    <3>3. QED
      BY <1>1, <1>2, <1>3, <2>3, <3>1, <3>2
  <2>5. CASE /\ ~(i = cur \/ ctx[i].finished \/ ctx[i].onStack)
             /\ StartTurn(i, Update(f("ran", TRUE)), sig) /\ bridge' = EnterGuest(bridge)
    <3>1. LoopTurns(f("ran", TRUE))
      BY <1>4, <2>1, <2>3, <2>5 DEF LoopTurns
    <3>2. f("ran", TRUE) \in Frame /\ f("ran", TRUE).k = "wait"
      BY <2>2
    <3> HIDE DEF f
    <3>3. QED
      BY <1>1, <1>2, <1>3, <2>3, <3>1, <3>2
  <2>6. QED
    BY <1>9, <2>4, <2>5 DEF SweepVisit
<1>10. CASE SweepOn
  <2> DEFINE f == [Top EXCEPT !.at = "sweep"]
  <2>1. f \in Frame /\ f.k = "wait" /\ Top.k = "wait"
    BY <1>1, <1>10, FramesGoOn DEF SweepOn, Resumed, Is
  <2>2. LoopGoes(f)
    BY <1>10 DEF SweepOn, Control, table, LoopGoes
  <2>3. QED
    BY <1>1, <1>2, <1>3, <2>1, <2>2
<1>11. CASE SweepEnd
  <2> DEFINE f == [Top EXCEPT !.next = 0, !.progress = FALSE, !.spun = @ + 1]
             g == [Top EXCEPT !.at = "idle"]
  <2>1. Is("wait") /\ Top.k = "wait"
    BY <1>11 DEF SweepEnd, Resumed, Is
  <2>2. CASE Top.spun + 1 < SweepMax /\ stack' = Update(f)
    <3>1. f \in Frame /\ f.k = "wait"
      BY <1>1, <2>1, <2>2, FramesGoOn
    <3>2. LoopGoes(f)
      BY <1>11, <2>2 DEF SweepEnd, Control, table, LoopGoes
    <3>3. QED
      BY <1>1, <1>2, <1>3, <2>1, <3>1, <3>2
  <2>3. CASE stack' = Append(Update(g), SchedFrame(cur))
    <3>1. g \in Frame /\ g.k = "wait"
      BY <1>1, <2>1, FramesGoOn
    <3>2. LoopPasses(g)
      BY <1>11, <2>3 DEF SweepEnd, Control, table, LoopPasses
    <3>3. QED
      BY <1>1, <1>2, <1>3, <2>1, <3>1, <3>2
  <2>4. QED
    BY <1>11, <2>2, <2>3 DEF SweepEnd
<1>12. CASE Idle
  <2> DEFINE f == [Top EXCEPT !.at = "checked"]
  <2>1. Is("wait") /\ Top.k = "wait"
    BY <1>12 DEF Idle, Resumed, Is
  <2>2. CASE stack' = Append(Update(f), SchedFrame(cur)) /\ UNCHANGED <<bridge, err>>
    <3>1. f \in Frame /\ f.k = "wait"
      BY <1>1, <2>1, FramesGoOn
    <3>2. LoopPasses(f)
      BY <1>12, <2>2 DEF Idle, Control, table, LoopPasses
    <3>3. QED
      BY <1>1, <1>2, <1>3, <2>1, <3>1, <3>2
  <2>3. CASE stack' = Below /\ bridge' = Back(Below, bridge)
    BY <1>1, <1>2, <1>3, <1>12, <2>3 DEF Idle, Resumed, Is, Control, table, LoopEnds
  <2>4. QED
    BY <1>12, <2>2, <2>3 DEF Idle
<1>13. QED
  BY <1>5, <1>6, <1>7, <1>8, <1>9, <1>10, <1>11, <1>12

-----------------------------------------------------------------------------
(* What a step does to the C stack, and what it may change besides.          *)

(* The continuations recorded, but for those of the engines in es. *)
ResumesKept(es) == \A i \in Ctx \ es : eng'[i].resume = eng[i].resume

(* No frame is pushed or popped. *)
Stays ==
  /\ UNCHANGED <<stack, bridge, nctx, cur, engine, depth, rootFinished, faulted>>
  /\ run' \in {run, "undefined"}
  /\ err => err' \/ LoopOnTop
  /\ \A i \in Ctx : /\ ctx'[i].onStack = ctx[i].onStack
                    /\ ctx'[i].canUnwind = ctx[i].canUnwind
                    /\ ctx'[i].blocked => ctx[i].blocked
                    /\ ctx[i].finished => ctx'[i].finished
  /\ ResumesKept({})

(* A quantum begins. *)
Begins ==
  /\ stack = <<>> /\ engine' = 0
  /\ \/ ~rootFinished /\ stack' = <<RootFrame>>
     \/ rootFinished /\ stack' = <<SchedFrame(cur)>>
  /\ \A i \in Ctx : i # cur => ctx'[i] = ctx[i]
  /\ \A i \in Ctx : ctx'[i].canUnwind = ctx[i].canUnwind
  /\ UNCHANGED <<bridge, nctx, cur, depth, rootFinished, run, err, faulted>>
  /\ ResumesKept({0})

(* A library call is suspended under a loop ... *)
Suspends(f) ==
  /\ GuestOnTop /\ ~err /\ f.k \notin GuestKinds /\ (f.k = "sched" => f.outer = cur)
  /\ stack' = Append(stack, f) /\ bridge' = InBridge(bridge)
  /\ UNCHANGED <<ctx, nctx, cur, engine, depth, rootFinished, run, err, faulted>>
  /\ ResumesKept({})

(* ... or under a callback or a command ... *)
Nests(f, e) ==
  /\ GuestOnTop /\ ~err /\ f \in {CallbackFrame, CommandFrame}
  /\ e = cur \/ (e = 0 /\ "Hook" \in Calls)
  /\ stack' = Append(stack, f) /\ bridge' = EnterGuest(InBridge(bridge))
  /\ engine' = e /\ eng'[e].resume = None /\ ResumesKept({e})
  /\ depth' = IF f = CallbackFrame THEN depth + 1 ELSE depth
  /\ UNCHANGED <<ctx, nctx, cur, rootFinished, run, err, faulted>>

(* ... or under the first turn of a new context. *)
Creates ==
  /\ GuestOnTop /\ ~err /\ FreeSlot < MaxCtx /\ nctx' = FreeSlot + 1
  /\ StartTurn(FreeSlot, stack, sig) /\ bridge' = EnterGuest(InBridge(bridge))
  /\ UNCHANGED <<depth, rootFinished, run, err, faulted>>

(* A callback or a command ends: it returns, it fails, or it cannot be parked. *)
LeavesNested ==
  /\ stack # <<>> /\ Top.k \in {"callback", "command"}
  /\ \/ LeaveNested(eng) /\ UNCHANGED <<ctx, err>>
     \/ /\ ~err /\ err' /\ LeaveNested(Recorded)
        /\ \A i \in Ctx : i # cur => ctx'[i] = ctx[i]
        /\ \A i \in Ctx : /\ ctx'[i].onStack = ctx[i].onStack
                          /\ ctx'[i].canUnwind = ctx[i].canUnwind
                          /\ ctx'[i].finished = ctx[i].finished
  /\ UNCHANGED <<nctx, rootFinished, run, faulted>>

(* The turn at height m ends: it is parked, or its context is gone. *)
LeavesTurn(m) ==
  /\ stack[m].k = "turn" /\ (m = Len(stack) \/ stack[m].c = cur)
  /\ \E es \in {eng, Recorded}, flags \in ContextRecord :
        /\ EndTurn(SubSeq(stack, 1, m - 1), stack[m], es, flags)
        /\ \/ es = Recorded /\ m = Len(stack) /\ ~err
           \/ es = eng /\ ~err /\ flags.finished
           \/ es = eng /\ err /\ m = Len(stack) /\ stack[m].c \in faulted'
  /\ \/ bridge' = Back(stack', Restored(m))
     \/ bridge' = Back(stack', NotRestored(m)) /\ GuestOnTop
  /\ faulted \subseteq faulted'
  /\ UNCHANGED <<nctx, depth, rootFinished, run, err>>

(* dos.Exit unwinds to the command whose setjmp was last. *)
ExitsCommand ==
  /\ GuestOnTop /\ ~err /\ "Exit" \in Calls /\ command \in 1 .. Len(stack)
  /\ stack[command].k = "command" /\ stack' = SubSeq(stack, 1, command - 1)
  /\ bridge' = Back(stack', Restored(command))
  /\ UNCHANGED <<ctx, nctx, cur, engine, depth, rootFinished, run, err, faulted>>
  /\ ResumesKept({})

(* The root's run ends, by a yield, a return or an error. *)
LeavesRoot ==
  /\ Is("root") /\ stack' = Below /\ engine' = None
  /\ \A i \in Ctx : i \notin {0, cur} => ctx'[i] = ctx[i]
  /\ \A i \in Ctx : /\ ctx'[i].canUnwind = ctx[i].canUnwind
                    /\ ctx[i].finished => ctx'[i].finished
  /\ rootFinished => rootFinished'
  /\ run' \in {run, "stopped"} \/ (run' = "done" /\ LiveChildren = {})
  /\ UNCHANGED <<bridge, nctx, cur, depth, err, faulted>>
  /\ ResumesKept({engine})

(* An error passes through a loop. *)
LoopFails ==
  /\ LoopOnTop /\ err /\ stack' = Below /\ bridge' = Back(Below, bridge)
  /\ engine' = IF Below = <<>> THEN None ELSE engine
  /\ run' \in {run, "stopped"}
  /\ UNCHANGED <<ctx, nctx, cur, eng, depth, rootFinished, err, faulted>>

(* The pass of an afterlife ends. *)
PassEnds ==
  /\ Is("sched") /\ Len(stack) = 1 /\ ~err /\ rootFinished
  /\ stack' = <<>> /\ engine' = None
  /\ run' \in {run, "stopped"} \/ (run' = "done" /\ LiveChildren = {})
  /\ UNCHANGED <<bridge, ctx, nctx, cur, eng, depth, rootFinished, err, faulted>>

LoopStep == \/ SchedVisit \/ SchedDone \/ DelayStep \/ TakeSignals
            \/ SweepVisit \/ SweepOn \/ SweepEnd \/ Idle

Shapes ==
  \/ Stays \/ Begins \/ Creates \/ LeavesNested \/ ExitsCommand \/ LeavesRoot
  \/ LoopFails \/ PassEnds \/ LoopStep
  \/ \E f \in Frame : Suspends(f) \/ \E e \in Ctx : Nests(f, e)
  \/ \E m \in 1 .. Len(stack) : LeavesTurn(m)

(* Installing a poll and counting a roundtrip leave the continuations. *)
LEMMA ResumeFacts ==
  ASSUME IndInv
  PROVE  /\ \A i \in Ctx : Ticked[i].resume = eng[i].resume /\ Polled[i].resume = eng[i].resume
         /\ \A es \in [Ctx -> EngineRecord] : \A e, p :
               \A i \in Ctx : SetPoll(es, e, p)[i].resume = es[i].resume
<1>1. eng \in [Ctx -> EngineRecord]
  BY DEF IndInv, RestOK
<1>2. \A r \in EngineRecord : \A n : [r EXCEPT !.count = n].resume = r.resume
  BY DEF EngineRecord
<1>3. ASSUME NEW i \in Ctx PROVE Polled[i].resume = eng[i].resume
  <2>1. Polled[i] = IF i = engine THEN [eng[i] EXCEPT !.count = 0, !.stop = FALSE] ELSE eng[i]
    BY <1>1 DEF Polled
  <2>2. eng[i] \in EngineRecord
    BY <1>1
  <2>3. QED
    BY <2>1, <2>2 DEF EngineRecord
<1>4. \A i \in Ctx : [eng EXCEPT ![engine].count = @ + 1][i].resume = eng[i].resume
  <2>1. [eng EXCEPT ![engine].count = @ + 1] =
           [i \in Ctx |-> IF i = engine
                          THEN [eng[i] EXCEPT !.count = eng[engine].count + 1] ELSE eng[i]]
    BY <1>1
  <2>2. \A i \in Ctx : eng[i] \in EngineRecord
    BY <1>1
  <2>3. QED
    BY <1>2, <2>1, <2>2
<1>5. ASSUME NEW es \in [Ctx -> EngineRecord], NEW e, NEW p, NEW i \in Ctx
      PROVE  SetPoll(es, e, p)[i].resume = es[i].resume
  <2>1. SetPoll(es, e, p)[i] = IF i = e THEN [es[i] EXCEPT !.poll = p, !.count = 0] ELSE es[i]
    BY <1>5 DEF SetPoll
  <2>2. es[i] \in EngineRecord
    BY <1>5
  <2>3. QED
    BY <2>1, <2>2 DEF EngineRecord
<1>6. \A i \in Ctx : Ticked[i].resume = eng[i].resume
  BY <1>3, <1>4 DEF Ticked
<1>7. QED
  BY <1>3, <1>5, <1>6

(* The steps that leave the C stack as it is. *)
LEMMA QuietShapes ==
  ASSUME IndInv,
         \/ PollKill \/ Compute \/ Forbid \/ Permit \/ Fault \/ Kill
         \/ (\E i \in Ctx, s \in Signals : Signal(i, s)) \/ \E i \in Ctx : NativeEvent(i)
  PROVE  run = "live" /\ Stays
<1>1. /\ \A i \in Ctx : Ticked[i].resume = eng[i].resume /\ Polled[i].resume = eng[i].resume
      /\ ctx \in [Ctx -> ContextRecord] /\ eng \in [Ctx -> EngineRecord] /\ cur \in Ctx
  BY ResumeFacts DEF IndInv, TableInv, RestOK
<1>2. ASSUME UNCHANGED <<stack, bridge, nctx, cur, engine, depth, run, rootFinished, faulted>>,
             UNCHANGED ctx, err => err', ResumesKept({})
      PROVE  Stays
  BY <1>2 DEF Stays
<1>3. ASSUME UNCHANGED <<stack, bridge, nctx, cur, engine, depth, run, rootFinished, faulted, err>>,
             NEW n, ctx' = [ctx EXCEPT ![cur].forbid = n], ResumesKept({})
      PROVE  Stays
  <2>1. \A r \in ContextRecord :
           LET s == [r EXCEPT !.forbid = n]
           IN  /\ s.onStack = r.onStack /\ s.canUnwind = r.canUnwind
               /\ s.blocked = r.blocked /\ s.finished = r.finished
    BY DEF ContextRecord
  <2>2. ctx' = [i \in Ctx |-> IF i = cur THEN [ctx[cur] EXCEPT !.forbid = n] ELSE ctx[i]]
    BY <1>1, <1>3
  <2>3. \A i \in Ctx : /\ ctx'[i].onStack = ctx[i].onStack
                       /\ ctx'[i].canUnwind = ctx[i].canUnwind
                       /\ ctx'[i].blocked = ctx[i].blocked
                       /\ ctx'[i].finished = ctx[i].finished
    BY <1>1, <2>1, <2>2
  <2>4. QED
    BY <1>3, <2>3 DEF Stays
<1>4. CASE PollKill \/ Compute \/ Fault \/ \E i \in Ctx, s \in Signals : Signal(i, s)
  <2>1. /\ UNCHANGED <<stack, bridge, nctx, cur, engine, depth, run, rootFinished, faulted>>
        /\ UNCHANGED ctx /\ run = "live" /\ ~err
    BY <1>4 DEF PollKill, Compute, Fault, Signal, QuietCall, Call, CanExecute, GuestRuns,
                outcome, table
  <2>2. eng' \in {eng, Ticked, Polled}
    BY <1>4 DEF PollKill, Compute, Fault, Signal, QuietCall
  <2>3. ResumesKept({})
    BY <1>1, <2>2 DEF ResumesKept
  <2>4. QED
    BY <1>2, <2>1, <2>3
<1>5. CASE Kill
  <2>1. /\ UNCHANGED <<stack, bridge, nctx, cur, engine, depth, run, rootFinished, faulted>>
        /\ UNCHANGED ctx /\ run = "live" /\ err' = err
    BY <1>5 DEF Kill, outcome
  <2>2. \A i \in Ctx : eng'[i].resume = eng[i].resume
    <3>1. CASE eng' = eng
      BY <3>1
    <3>2. CASE eng' = [eng EXCEPT ![engine].stop = TRUE]
      <4>1. \A i \in Ctx : eng[i] \in EngineRecord
        BY <1>1
      <4>2. \A i \in Ctx : eng'[i] = IF i = engine THEN [eng[i] EXCEPT !.stop = TRUE] ELSE eng[i]
        BY <1>1, <3>2
      <4>3. QED
        BY <4>1, <4>2 DEF EngineRecord
    <3>3. QED
      BY <1>5, <3>1, <3>2 DEF Kill
  <2>3. QED
    BY <1>2, <2>1, <2>2 DEF ResumesKept
<1>6. CASE \E i \in Ctx : NativeEvent(i)
  BY <1>2, <1>6 DEF NativeEvent, ResumesKept, outcome
<1>7. CASE Forbid \/ Permit
  <2>1. /\ UNCHANGED <<stack, bridge, nctx, cur, engine, depth, run, rootFinished, faulted, err>>
        /\ eng' = Ticked /\ run = "live"
    BY <1>7 DEF Forbid, Permit, QuietCall, Call, CanExecute, GuestRuns, outcome
  <2>2. ResumesKept({})
    BY <1>1, <2>1 DEF ResumesKept
  <2>3. \E n : ctx' = [ctx EXCEPT ![cur].forbid = n]
    BY <1>7 DEF Forbid, Permit
  <2>4. QED
    BY <1>3, <2>1, <2>2, <2>3
<1>8. QED
  BY <1>4, <1>5, <1>6, <1>7

(* The host begins a quantum, or ends that of an afterlife. *)
LEMMA HostShapes ==
  ASSUME IndInv, HostQuantum \/ AfterlifeQuantum \/ AfterlifeEnd
  PROVE  run = "live" /\ (Begins \/ PassEnds)
<1>1. /\ \A i \in Ctx : SetPoll(eng, 0, "quantum")[i].resume = eng[i].resume
      /\ ctx \in [Ctx -> ContextRecord] /\ eng \in [Ctx -> EngineRecord] /\ cur \in Ctx
  BY ResumeFacts DEF IndInv, TableInv, RestOK
<1>2. CASE HostQuantum
  <2>1. ResumesKept({0})
    BY <1>1, <1>2, SetPollType DEF HostQuantum, ResumesKept
  <2>2. \A i \in Ctx : /\ i # cur => ctx'[i] = ctx[i]
                       /\ ctx'[i].canUnwind = ctx[i].canUnwind
    <3>1. CASE ctx' = ctx
      BY <3>1
    <3>2. CASE ctx' = [ctx EXCEPT ![cur].onStack = TRUE]
      <4>1. \A i \in Ctx : ctx[i] \in ContextRecord
        BY <1>1
      <4>2. \A i \in Ctx : ctx'[i] = IF i = cur THEN [ctx[i] EXCEPT !.onStack = TRUE] ELSE ctx[i]
        BY <1>1, <3>2
      <4>3. QED
        BY <4>1, <4>2 DEF ContextRecord
    <3>3. QED
      BY <1>2, <3>1, <3>2 DEF HostQuantum
  <2>3. QED
    BY <1>2, <2>1, <2>2 DEF HostQuantum, Begins, outcome
<1>3. CASE AfterlifeQuantum
  BY <1>1, <1>3 DEF AfterlifeQuantum, Begins, ResumesKept, outcome
<1>4. CASE AfterlifeEnd
  BY <1>4 DEF AfterlifeEnd, PassEnds
<1>5. QED
  BY <1>2, <1>3, <1>4

(* What a guest call finds. *)
LEMMA CallFacts ==
  ASSUME IndInv, GuestRuns
  PROVE  /\ run = "live" /\ ~err /\ GuestOnTop /\ Len(stack) \in 1 .. Len(stack)
         /\ stack[Len(stack)] = Top /\ Below = SubSeq(stack, 1, Len(stack) - 1)
         /\ ctx[cur] \in ContextRecord /\ Top \in Frame
BY TopFacts DEF GuestRuns, GuestOnTop, Top, Below, IndInv, StackInv, TableInv

(* Leaving the frame on top puts back the depth it saved. *)
LEMMA TopRestored ==
  ASSUME IndInv, DomainOK, stack # <<>>, Top.k \in GuestKinds \ {"root"}
  PROVE  LeaveGuest(bridge) = Restored(Len(stack))
<1>1. Len(stack) \in Nat /\ bridge \in Seq(Nat) /\ Len(bridge) = Runs(stack, Len(stack)) + 1
  BY LenProperties DEF IndInv, StackInv, DomainOK, DomainInv
<1>2. Entries(Len(stack)) = Runs(stack, Len(stack)) /\ Runs(stack, Len(stack)) \in Nat
  BY <1>1, RunsStep DEF Entries, Runs
<1>3. Entries(Len(stack)) = Len(bridge) - 1
  BY <1>1, <1>2
<1>4. QED
  BY <1>3 DEF LeaveGuest, Restored

(* A run on top stops at a safe point. *)
LEMMA ParkShapes ==
  ASSUME IndInv, DomainOK, GuestRuns, NEW flags \in ContextRecord, Park(flags),
         flags.onStack = ctx[cur].onStack, flags.canUnwind = ctx[cur].canUnwind,
         flags.finished = ctx[cur].finished
  PROVE  LeavesNested \/ LeavesRoot \/ \E m \in 1 .. Len(stack) : LeavesTurn(m)
<1>1. /\ run = "live" /\ ~err /\ GuestOnTop /\ Len(stack) \in 1 .. Len(stack)
      /\ stack[Len(stack)] = Top /\ Below = SubSeq(stack, 1, Len(stack) - 1)
  BY CallFacts
<1>2. /\ ctx \in [Ctx -> ContextRecord] /\ cur \in Ctx /\ UNCHANGED <<nctx, rootFinished, run, faulted>>
      /\ stack # <<>>
  BY <1>1 DEF Park, outcome, IndInv, TableInv, GuestOnTop
<1>3. CASE Is("turn")
  <2>1. /\ EndTurn(Below, Top, Recorded, flags) /\ bridge' = Back(Below, LeaveGuest(bridge))
        /\ UNCHANGED <<depth, err>>
    BY <1>3 DEF Park, Is, LeaveRoot
  <2>2. LeaveGuest(bridge) = Restored(Len(stack))
    BY <1>1, <1>2, <1>3, TopRestored DEF Is, GuestKinds
  <2>3. stack' = Below
    BY <2>1 DEF EndTurn
  <2>4. LeavesTurn(Len(stack))
    BY <1>1, <1>2, <1>3, <2>1, <2>2, <2>3 DEF LeavesTurn, Is
  <2>5. QED
    BY <1>1, <2>4
<1>4. CASE Is("root")
  <2>1. LeaveRoot(Recorded, ctx) /\ UNCHANGED err
    BY <1>4 DEF Park, Is
  <2>2. ResumesKept({engine})
    <3>1. \A i \in Ctx : Polled[i].resume = eng[i].resume
      BY ResumeFacts
    <3>2. Polled \in [Ctx -> EngineRecord]
      BY CountdownTypes
    <3>3. \A i \in Ctx : i # engine => Recorded[i] = Polled[i]
      BY <3>2 DEF Recorded
    <3>4. QED
      BY <2>1, <3>1, <3>3 DEF LeaveRoot, ResumesKept
  <2>3. \A i \in Ctx : /\ i # cur => ctx'[i] = ctx[i]
                       /\ ctx'[i].canUnwind = ctx[i].canUnwind
                       /\ ctx'[i].finished = ctx[i].finished
    <3>1. CASE ctx' = ctx
      BY <3>1
    <3>2. CASE ctx' = [ctx EXCEPT ![cur].onStack = FALSE]
      <4>1. \A i \in Ctx : ctx[i] \in ContextRecord
        BY <1>2
      <4>2. \A i \in Ctx : ctx'[i] = IF i = cur THEN [ctx[i] EXCEPT !.onStack = FALSE] ELSE ctx[i]
        BY <1>2, <3>2
      <4>3. QED
        BY <4>1, <4>2 DEF ContextRecord
    <3>3. QED
      BY <2>1, <3>1, <3>2 DEF LeaveRoot
  <2>4. LeavesRoot
    BY <1>2, <1>4, <2>1, <2>2, <2>3 DEF LeavesRoot, LeaveRoot
  <2>5. QED
    BY <2>4
<1>5. CASE Top.k \in {"callback", "command"}
  <2>1. LeaveNested(Recorded) /\ ctx' = [ctx EXCEPT ![cur] = flags] /\ err' = TRUE
    BY <1>5 DEF Park, Is
  <2>2. \A i \in Ctx : /\ i # cur => ctx'[i] = ctx[i]
                       /\ ctx'[i].onStack = ctx[i].onStack
                       /\ ctx'[i].canUnwind = ctx[i].canUnwind
                       /\ ctx'[i].finished = ctx[i].finished
    BY <1>2, <2>1
  <2>3. LeavesNested
    BY <1>1, <1>2, <1>5, <2>1, <2>2 DEF LeavesNested
  <2>4. QED
    BY <2>3
<1>6. QED
  BY <1>1, <1>3, <1>4, <1>5 DEF Is, GuestKinds, GuestOnTop

(* A slice ends, or Wait is called. *)
LEMMA SliceShapes ==
  ASSUME IndInv, DomainOK, QuantumYield \/ \E want \in SUBSET Signals : Wait(want)
  PROVE  run = "live" /\ Shapes
<1>1. GuestRuns
  BY DEF QuantumYield, Wait, Call, CanExecute
<1>2. /\ run = "live" /\ ~err /\ GuestOnTop /\ ctx[cur] \in ContextRecord
  BY <1>1, CallFacts
<1>3. ResumesKept({}) \/ eng' # Ticked
  BY ResumeFacts DEF ResumesKept
<1>4. CASE QuantumYield
  <2>1. LeavesNested \/ LeavesRoot \/ \E m \in 1 .. Len(stack) : LeavesTurn(m)
    BY <1>1, <1>2, <1>4, ParkShapes DEF QuantumYield
  <2>2. QED
    BY <1>2, <2>1 DEF Shapes
<1>5. CASE \E want \in SUBSET Signals : Wait(want)
  <2>1. PICK want \in SUBSET Signals : Wait(want)
    BY <1>5
  <2> DEFINE flags == [ctx[cur] EXCEPT !.blocked = TRUE, !.mask = want]
  <2>2. CASE /\ eng' = Ticked
             /\ UNCHANGED <<table, cur, engine, stack, depth, command, err,
                            outcome, kill, bridge, faulted>>
    <3>1. Stays
      BY <1>3, <2>2 DEF Stays, table, outcome
    <3>2. QED
      BY <1>2, <3>1 DEF Shapes
  <2>3. CASE Park(flags)
    <3>1. /\ flags \in ContextRecord /\ flags.onStack = ctx[cur].onStack
          /\ flags.canUnwind = ctx[cur].canUnwind /\ flags.finished = ctx[cur].finished
      BY <1>2 DEF ContextRecord
    <3> HIDE DEF flags
    <3>2. LeavesNested \/ LeavesRoot \/ \E m \in 1 .. Len(stack) : LeavesTurn(m)
      BY <1>1, <2>3, <3>1, ParkShapes
    <3>3. QED
      BY <1>2, <3>2 DEF Shapes
  <2>4. CASE /\ stack' = Append(stack, WaitFrame(want)) /\ bridge' = InBridge(bridge)
             /\ eng' = Ticked
             /\ UNCHANGED <<table, cur, engine, depth, command, err, outcome, kill, faulted>>
    <3>1. WaitFrame(want) \in Frame /\ WaitFrame(want).k = "wait"
      BY FramesMade
    <3>2. Suspends(WaitFrame(want))
      BY <1>2, <1>3, <2>4, <3>1 DEF Suspends, table, outcome, GuestKinds
    <3>3. QED
      BY <1>2, <3>1, <3>2 DEF Shapes
  <2>5. QED
    BY <2>1, <2>2, <2>3, <2>4 DEF Wait
<1>6. QED
  BY <1>4, <1>5

(* A call that suspends the guest code that makes it. *)
LEMMA PushShapes ==
  ASSUME IndInv, Delay \/ Reschedule \/ Callback \/ CallHook \/ RunCommand \/ Create
  PROVE  run = "live" /\ Shapes
<1>1. GuestRuns /\ cur \in Ctx /\ 0 \in Ctx /\ eng \in [Ctx -> EngineRecord]
  BY ContextsAssumption
     DEF Delay, Reschedule, Callback, CallHook, RunCommand, Create, Call, CanExecute,
         IndInv, TableInv, RestOK, Ctx
<1>2. run = "live" /\ ~err /\ GuestOnTop
  BY <1>1, CallFacts
<1>3. ResumesKept({}) \/ eng' # Ticked
  BY ResumeFacts DEF ResumesKept
<1>4. /\ SchedFrame(cur) \in Frame /\ SchedFrame(cur).k = "sched" /\ SchedFrame(cur).outer = cur
      /\ DelayFrame \in Frame /\ DelayFrame.k = "delay"
      /\ CallbackFrame \in Frame /\ CallbackFrame.k = "callback"
      /\ CommandFrame \in Frame /\ CommandFrame.k = "command"
  BY FramesMade
<1>5. CASE Delay
  <2>1. Suspends(DelayFrame)
    BY <1>2, <1>3, <1>4, <1>5 DEF Delay, Suspends, outcome, GuestKinds
  <2>2. QED
    BY <1>2, <1>4, <2>1 DEF Shapes
<1>6. CASE Reschedule
  <2>1. Suspends(SchedFrame(cur))
    BY <1>2, <1>3, <1>4, <1>6 DEF Reschedule, Suspends, outcome, GuestKinds
  <2>2. QED
    BY <1>2, <1>4, <2>1 DEF Shapes
<1>7. ASSUME NEW f \in {CallbackFrame, CommandFrame}, NEW e \in Ctx, EnterNested(f, e),
             e = cur \/ (e = 0 /\ "Hook" \in Calls), UNCHANGED err,
             depth' = IF f = CallbackFrame THEN depth + 1 ELSE depth
      PROVE  Shapes
  <2>1. eng'[e].resume = None /\ ResumesKept({e})
    <3> DEFINE es == SetPoll(eng, e, "nested")
    <3>1. es \in [Ctx -> EngineRecord] /\ \A i \in Ctx : es[i].resume = eng[i].resume
      BY <1>1, SetPollType, ResumeFacts
    <3> HIDE DEF es
    <3>2. eng' = [es EXCEPT ![e].resume = None]
      BY <1>7 DEF EnterNested, es
    <3>3. es[e] \in EngineRecord /\ eng'[e] = [es[e] EXCEPT !.resume = None]
      BY <3>1, <3>2
    <3>4. \A i \in Ctx \ {e} : eng'[i] = es[i]
      BY <3>1, <3>2
    <3>5. QED
      BY <3>1, <3>3, <3>4 DEF ResumesKept, EngineRecord
  <2>2. Nests(f, e)
    BY <1>2, <1>7, <2>1 DEF Nests, EnterNested, table, outcome
  <2>3. QED
    BY <1>4, <2>2 DEF Shapes
<1>8. ASSUME err' = TRUE, UNCHANGED <<table, cur, engine, eng, stack, depth, outcome, bridge, faulted>>
      PROVE  Shapes
  <2>1. Stays
    BY <1>2, <1>8 DEF Stays, table, outcome, ResumesKept
  <2>2. QED
    BY <2>1 DEF Shapes
<1>9. CommandFrame # CallbackFrame
  BY <1>4
<1>10. CASE Callback
  <2>1. CASE depth' = depth + 1 /\ EnterNested(CallbackFrame, cur) /\ UNCHANGED err
    BY <1>1, <1>2, <1>7, <2>1
  <2>2. CASE err' = TRUE /\ UNCHANGED <<table, cur, engine, eng, sig, native, stack, depth,
                                        outcome, kill, bridge, faulted>>
    BY <1>2, <1>8, <2>2
  <2>3. QED
    BY <1>10, <2>1, <2>2 DEF Callback
<1>11. CASE CallHook
  BY <1>1, <1>2, <1>7, <1>11 DEF CallHook, Call
<1>12. CASE RunCommand
  BY <1>1, <1>2, <1>7, <1>9, <1>12 DEF RunCommand
<1>13. CASE Create
  <2>1. CASE FreeSlot < MaxCtx /\ nctx' = FreeSlot + 1 /\ StartTurn(FreeSlot, stack, sig)
             /\ bridge' = EnterGuest(InBridge(bridge)) /\ UNCHANGED err
    <3>1. Creates
      BY <1>2, <1>13, <2>1 DEF Create, Creates, outcome
    <3>2. QED
      BY <1>2, <3>1 DEF Shapes
  <2>2. CASE err' = TRUE /\ UNCHANGED <<table, cur, engine, eng, sig, stack, bridge>>
    <3>1. UNCHANGED <<table, cur, engine, eng, stack, depth, outcome, bridge, faulted>>
      BY <1>13, <2>2 DEF Create
    <3>2. QED
      BY <1>2, <1>8, <2>2, <3>1
  <2>3. QED
    BY <1>13, <2>1, <2>2 DEF Create
<1>14. QED
  BY <1>5, <1>6, <1>10, <1>11, <1>12, <1>13

(* The table and the engines behind the root's run. *)
LEMMA RootShapes ==
  ASSUME IndInv, Is("root"), NEW flags \in [Ctx -> ContextRecord], LeaveRoot(eng, flags),
         \A i \in Ctx \ {0} : flags[i] = ctx[i],
         \A i \in Ctx : /\ flags[i].canUnwind = ctx[i].canUnwind
                        /\ ctx[i].finished => flags[i].finished,
         UNCHANGED <<nctx, err, faulted>>, rootFinished => rootFinished',
         run' \in {run, "stopped"} \/ (run' = "done" /\ LiveChildren = {})
  PROVE  LeavesRoot
<1>1. ctx \in [Ctx -> ContextRecord] /\ cur \in Ctx
  BY DEF IndInv, TableInv
<1>2. \A i \in Ctx : /\ i \notin {0, cur} => ctx'[i] = ctx[i]
                     /\ ctx'[i].canUnwind = ctx[i].canUnwind
                     /\ ctx[i].finished => ctx'[i].finished
  <2>1. CASE ctx' = flags
    BY <2>1
  <2>2. CASE ctx' = [flags EXCEPT ![cur].onStack = FALSE]
    <3>1. \A i \in Ctx : flags[i] \in ContextRecord
      OBVIOUS
    <3>2. \A i \in Ctx : ctx'[i] = IF i = cur THEN [flags[i] EXCEPT !.onStack = FALSE] ELSE flags[i]
      BY <1>1, <2>2
    <3>3. \A i \in Ctx : /\ ctx'[i].canUnwind = flags[i].canUnwind
                         /\ ctx'[i].finished = flags[i].finished
      BY <3>1, <3>2 DEF ContextRecord
    <3>4. QED
      BY <3>2, <3>3
  <2>3. QED
    BY <2>1, <2>2 DEF LeaveRoot
<1>3. QED
  BY <1>2 DEF LeavesRoot, LeaveRoot, ResumesKept

(* Guest code returns: from the root program, a turn, a callback or a command. *)
LEMMA ReturnShapes ==
  ASSUME IndInv, DomainOK, Return
  PROVE  run = "live" /\ Shapes
<1>1. GuestRuns /\ UNCHANGED <<nctx, sig, native, err, kill, faulted>>
  BY DEF Return, Call, CanExecute
<1>2. /\ run = "live" /\ ~err /\ GuestOnTop /\ Len(stack) \in 1 .. Len(stack)
      /\ stack[Len(stack)] = Top /\ Below = SubSeq(stack, 1, Len(stack) - 1)
      /\ Top \in Frame /\ ctx \in [Ctx -> ContextRecord] /\ eng \in [Ctx -> EngineRecord]
      /\ stack # <<>>
  BY <1>1, CallFacts DEF IndInv, TableInv, RestOK, GuestOnTop
<1>3. CASE Is("turn") /\ EndTurn(Below, Top, eng, [ctx[Top.c] EXCEPT !.finished = TRUE])
           /\ bridge' = Back(Below, LeaveGuest(bridge)) /\ UNCHANGED <<depth, command, outcome>>
  <2> DEFINE flags == [ctx[Top.c] EXCEPT !.finished = TRUE]
  <2>1. flags \in ContextRecord /\ flags.finished
    <3>1. ctx[Top.c] \in ContextRecord
      BY <1>2, <1>3, FrameShapes DEF Is, TurnFrames
    <3>2. QED
      BY <3>1 DEF ContextRecord
  <2>2. LeaveGuest(bridge) = Restored(Len(stack))
    BY <1>2, <1>3, TopRestored DEF Is, GuestKinds
  <2>3. stack' = Below
    BY <1>3 DEF EndTurn
  <2>4. LeavesTurn(Len(stack))
    BY <1>1, <1>2, <1>3, <2>1, <2>2, <2>3 DEF LeavesTurn, Is, outcome
  <2>5. QED
    BY <1>2, <2>4 DEF Shapes
<1>4. CASE Top.k \in {"callback", "command"} /\ LeaveNested(eng) /\ UNCHANGED <<ctx, outcome>>
  <2>1. LeavesNested
    BY <1>1, <1>2, <1>4 DEF LeavesNested, outcome
  <2>2. QED
    BY <1>2, <2>1 DEF Shapes
<1>5. CASE Is("root") /\ LeaveRoot(eng, [ctx EXCEPT ![0].finished = TRUE])
           /\ rootFinished' = TRUE /\ UNCHANGED run
  <2> DEFINE flags == [ctx EXCEPT ![0].finished = TRUE]
  <2>1. /\ flags \in [Ctx -> ContextRecord] /\ \A i \in Ctx \ {0} : flags[i] = ctx[i]
        /\ \A i \in Ctx : /\ flags[i].canUnwind = ctx[i].canUnwind
                          /\ ctx[i].finished => flags[i].finished
    <3>1. ctx[0] \in ContextRecord /\ 0 \in Ctx
      BY <1>2, ContextsAssumption DEF Ctx
    <3>2. QED
      BY <1>2, <3>1 DEF ContextRecord
  <2> HIDE DEF flags
  <2>2. LeavesRoot
    BY <1>1, <1>5, <2>1, RootShapes DEF flags
  <2>3. QED
    BY <1>2, <2>2 DEF Shapes
<1>6. CASE Is("root") /\ Alone /\ LeaveRoot(eng, ctx) /\ run' = "done" /\ UNCHANGED rootFinished
  <2>1. LeavesRoot
    BY <1>1, <1>2, <1>6, RootShapes DEF Alone
  <2>2. QED
    BY <1>2, <2>1 DEF Shapes
<1>7. QED
  BY <1>3, <1>4, <1>5, <1>6 DEF Return

(* Leaving the context for good. *)
LEMMA GoneShapes ==
  ASSUME IndInv, GuestRuns, LeaveContext, UNCHANGED <<nctx, depth, err, faulted>>
  PROVE  Shapes
<1> DEFINE gone == [ctx[cur] EXCEPT !.finished = TRUE, !.blocked = FALSE]
<1>1. /\ run = "live" /\ ~err /\ GuestOnTop /\ ctx[cur] \in ContextRecord
      /\ ctx \in [Ctx -> ContextRecord] /\ cur \in Ctx
  BY CallFacts DEF IndInv, TableInv
<1>2. /\ gone \in ContextRecord /\ gone.finished /\ ~gone.blocked
      /\ gone.onStack = ctx[cur].onStack /\ gone.canUnwind = ctx[cur].canUnwind
  BY <1>1 DEF ContextRecord
<1> HIDE DEF gone
<1>3. ASSUME NEW n \in 1 .. Len(stack), stack[n].k = "turn", stack[n].c = cur,
             EndTurn(SubSeq(stack, 1, n - 1), stack[n], eng, gone),
             bridge' = Back(SubSeq(stack, 1, n - 1), NotRestored(n)), UNCHANGED outcome
      PROVE  Shapes
  <2>1. stack' = SubSeq(stack, 1, n - 1)
    BY <1>3 DEF EndTurn
  <2>2. LeavesTurn(n)
    BY <1>1, <1>2, <1>3, <2>1 DEF LeavesTurn, outcome
  <2>3. QED
    BY <2>2 DEF Shapes
<1>4. CASE run' = "undefined" /\ UNCHANGED <<ctx, cur, engine, eng, stack, bridge, rootFinished>>
  <2>1. Stays
    BY <1>1, <1>4 DEF Stays, ResumesKept
  <2>2. QED
    BY <2>1 DEF Shapes
<1>5. CASE /\ ctx' = IF nctx > 0 THEN [ctx EXCEPT ![cur] = gone] ELSE ctx
           /\ eng' = Ticked
           /\ UNCHANGED <<cur, engine, stack, bridge, outcome>>
  <2>1. \A i \in Ctx : ctx'[i] = ctx[i] \/ (i = cur /\ ctx'[i] = gone)
    BY <1>1, <1>5
  <2>2. ResumesKept({})
    BY <1>5, ResumeFacts DEF ResumesKept
  <2>3. Stays
    BY <1>1, <1>2, <1>5, <2>1, <2>2 DEF Stays, outcome
  <2>4. QED
    BY <2>3 DEF Shapes
<1>6. QED
  BY <1>3, <1>4, <1>5 DEF LeaveContext, gone

(* dos.Exit and RemTask: a command, a context or nothing is left. *)
LEMMA ExitShapes ==
  ASSUME IndInv, Exit \/ \E i \in Ctx : RemTask(i)
  PROVE  run = "live" /\ Shapes
<1>1. GuestRuns /\ UNCHANGED <<nctx, depth, err, faulted>>
  BY DEF Exit, RemTask, Call, CanExecute
<1>2. run = "live" /\ ~err /\ GuestOnTop
  BY <1>1, CallFacts
<1>3. ctx \in [Ctx -> ContextRecord] /\ eng \in [Ctx -> EngineRecord]
  BY DEF IndInv, TableInv, RestOK
<1>4. CASE LeaveContext
  BY <1>1, <1>2, <1>4, GoneShapes
<1>5. CASE Exit /\ ~LeaveContext
  <2>1. command > 0 /\ UNCHANGED <<ctx, cur, engine>> /\ "Exit" \in Calls
    BY <1>5 DEF Exit, Call
  <2>2. CASE /\ command <= Len(stack) /\ stack[command].k = "command"
             /\ stack' = SubSeq(stack, 1, command - 1)
             /\ bridge' = Back(SubSeq(stack, 1, command - 1), Restored(command))
             /\ eng' = RestoreGuestPoll(eng, depth) /\ UNCHANGED outcome
    <3>1. ResumesKept({})
      BY <1>3, <2>2, ResumeFacts DEF ResumesKept, RestoreGuestPoll
    <3>2. command \in 1 .. Len(stack)
      BY <2>1, <2>2, LenProperties DEF IndInv, RestOK, StackInv
    <3>3. ExitsCommand
      BY <1>1, <1>2, <2>1, <2>2, <3>1, <3>2 DEF ExitsCommand, outcome
    <3>4. QED
      BY <1>2, <3>3 DEF Shapes
  <2>3. CASE run' = "undefined" /\ UNCHANGED <<stack, eng, bridge, rootFinished>>
    <3>1. Stays
      BY <1>1, <1>2, <2>1, <2>3 DEF Stays, ResumesKept
    <3>2. QED
      BY <1>2, <3>1 DEF Shapes
  <2>4. QED
    BY <1>5, <2>2, <2>3 DEF Exit
<1>6. ASSUME NEW i \in Ctx, eng' = Ticked, UNCHANGED <<cur, engine, stack, bridge, outcome>>,
             ctx' = [ctx EXCEPT ![i].finished = TRUE, ![i].blocked = FALSE]
      PROVE  Shapes
  <2> DEFINE gone(r) == [r EXCEPT !.finished = TRUE, !.blocked = FALSE]
  <2>1. \A r \in ContextRecord : /\ gone(r).finished /\ ~gone(r).blocked
                                /\ gone(r).onStack = r.onStack /\ gone(r).canUnwind = r.canUnwind
    BY DEF ContextRecord
  <2>2. \A j \in Ctx : ctx[j] \in ContextRecord /\ ctx'[j] = IF j = i THEN gone(ctx[j]) ELSE ctx[j]
    BY <1>3, <1>6
  <2> HIDE DEF gone
  <2>3. ResumesKept({})
    BY <1>6, ResumeFacts DEF ResumesKept
  <2>4. \A j \in Ctx : /\ ctx'[j].onStack = ctx[j].onStack
                       /\ ctx'[j].canUnwind = ctx[j].canUnwind
                       /\ ctx'[j].blocked => ctx[j].blocked
                       /\ ctx[j].finished => ctx'[j].finished
    BY <2>1, <2>2
  <2>5. Stays
    BY <1>1, <1>2, <1>6, <2>3, <2>4 DEF Stays, outcome
  <2>6. QED
    BY <2>5 DEF Shapes
<1>7. CASE (\E i \in Ctx : RemTask(i)) /\ ~LeaveContext
  <2>1. PICK i \in Ctx : RemTask(i)
    BY <1>7
  <2>2. QED
    BY <1>2, <1>6, <1>7, <2>1 DEF RemTask
<1>8. QED
  BY <1>4, <1>5, <1>7

(* An error is contained, or passed on by the frame on top. *)
LEMMA ErrorShapes ==
  ASSUME IndInv, DomainOK, Contain \/ PassError
  PROVE  run = "live" /\ Shapes
<1>1. /\ run = "live" /\ err /\ stack # <<>> /\ ctx \in [Ctx -> ContextRecord]
      /\ Len(stack) \in 1 .. Len(stack) /\ stack[Len(stack)] = Top /\ Top \in Frame
      /\ Below = SubSeq(stack, 1, Len(stack) - 1)
  BY TopFacts DEF Contain, PassError, Is, IndInv, TableInv, StackInv, Top, Below
<1>2. CASE Contain
  <2> DEFINE i == Top.next - 1
             out(r) == [r EXCEPT !.failed = TRUE, !.finished = TRUE, !.blocked = FALSE]
  <2>1. LoopOnTop
    BY <1>2 DEF Contain, LoopOnTop, Is, GuestKinds
  <2>2. ctx' = Quarantined(i)
    BY <1>2 DEF Contain
  <2>3. \A r \in ContextRecord : /\ out(r).finished /\ ~out(r).blocked
                                /\ out(r).onStack = r.onStack /\ out(r).canUnwind = r.canUnwind
    BY DEF ContextRecord
  <2>4. \A j \in Ctx : ctx[j] \in ContextRecord /\ ctx'[j] = IF j = i THEN out(ctx[j]) ELSE ctx[j]
    BY <1>1, <2>2 DEF Quarantined
  <2> HIDE DEF out, i
  <2>5. \A j \in Ctx : /\ ctx'[j].onStack = ctx[j].onStack
                       /\ ctx'[j].canUnwind = ctx[j].canUnwind
                       /\ ctx'[j].blocked => ctx[j].blocked
                       /\ ctx[j].finished => ctx'[j].finished
    BY <2>3, <2>4
  <2>6. Stays
    BY <1>1, <1>2, <2>1, <2>5 DEF Contain, Stays, ResumesKept, outcome
  <2>7. QED
    BY <1>1, <2>6 DEF Shapes
<1>3. CASE PassError
  <2>1. UNCHANGED <<nctx, sig, native, err, rootFinished, kill>>
    BY <1>3 DEF PassError
  <2>2. CASE /\ Is("turn") /\ EndTurn(Below, Top, eng, ctx[Top.c])
             /\ bridge' = Back(Below, LeaveGuest(bridge))
             /\ faulted' = faulted \cup {Top.c}
             /\ UNCHANGED <<depth, command, run>>
    <3>1. ctx[Top.c] \in ContextRecord
      BY <1>1, <2>2, FrameShapes DEF Is, TurnFrames
    <3>2. LeaveGuest(bridge) = Restored(Len(stack))
      BY <1>1, <2>2, TopRestored DEF Is, GuestKinds
    <3>3. stack' = Below
      BY <2>2 DEF EndTurn
    <3>4. LeavesTurn(Len(stack))
      BY <1>1, <2>1, <2>2, <3>1, <3>2, <3>3 DEF LeavesTurn, Is
    <3>5. QED
      BY <1>1, <3>4 DEF Shapes
  <2>3. CASE /\ Top.k \in {"callback", "command"} /\ LeaveNested(eng)
             /\ UNCHANGED <<ctx, faulted, run>>
    <3>1. LeavesNested
      BY <1>1, <2>1, <2>3 DEF LeavesNested
    <3>2. QED
      BY <1>1, <3>1 DEF Shapes
  <2>4. CASE Is("root") /\ LeaveRoot(eng, ctx) /\ run' = "stopped" /\ UNCHANGED faulted
    <3>1. LeavesRoot
      BY <1>1, <2>1, <2>4, RootShapes
    <3>2. QED
      BY <1>1, <3>1 DEF Shapes
  <2>5. CASE /\ Top.k \in {"wait", "delay", "sched"}
             /\ stack' = Below
             /\ bridge' = Back(Below, bridge)
             /\ engine' = IF Below = <<>> THEN None ELSE engine
             /\ run' = IF Below = <<>> THEN "stopped" ELSE run
             /\ UNCHANGED <<ctx, cur, eng, depth, command, faulted>>
    <3>1. LoopFails
      BY <1>1, <2>1, <2>5 DEF LoopFails, LoopOnTop, GuestKinds
    <3>2. QED
      BY <1>1, <3>1 DEF Shapes
  <2>6. QED
    BY <1>3, <2>2, <2>3, <2>4, <2>5 DEF PassError, Is
<1>4. QED
  BY <1>2, <1>3

(* Every step has one of the shapes, and only a live run takes one. *)
LEMMA StepShapes ==
  ASSUME IndInv, DomainOK, [Next]_vars
  PROVE  UNCHANGED vars \/ (run = "live" /\ Shapes)
<1>1. CASE \/ PollKill \/ Compute \/ Forbid \/ Permit \/ Fault \/ Kill
           \/ (\E i \in Ctx, s \in Signals : Signal(i, s)) \/ \E i \in Ctx : NativeEvent(i)
  BY <1>1, QuietShapes DEF Shapes
<1>2. CASE HostQuantum \/ AfterlifeQuantum \/ AfterlifeEnd
  BY <1>2, HostShapes DEF Shapes
<1>3. CASE QuantumYield \/ \E want \in SUBSET Signals : Wait(want)
  BY <1>3, SliceShapes
<1>4. CASE Delay \/ Reschedule \/ Callback \/ CallHook \/ RunCommand \/ Create
  BY <1>4, PushShapes
<1>5. CASE Return
  BY <1>5, ReturnShapes
<1>6. CASE Exit \/ \E i \in Ctx : RemTask(i)
  BY <1>6, ExitShapes
<1>7. CASE LoopStep
  BY <1>7, LoopMoves DEF LoopStep, Shapes
<1>8. CASE Contain \/ PassError
  BY <1>8, ErrorShapes
<1>9. QED
  BY <1>1, <1>2, <1>3, <1>4, <1>5, <1>6, <1>7, <1>8 DEF Next, Thread, GuestCall, Loop, LoopStep

-----------------------------------------------------------------------------
(* The execution domain follows the C stack.                                 *)

(* The root's run is alone on the C stack when it ends. *)
LEMMA RootAlone ==
  ASSUME IndInv, Is("root")
  PROVE  Len(stack) = 1 /\ Below = <<>>
<1>0. stack # <<>> /\ stack[Len(stack)].k = "root"
  BY DEF Is, Top
<1>1. Len(stack) = 1
  <2>1. Len(stack) \in 1 .. Len(stack)
    BY <1>0, TopFacts DEF IndInv, StackInv
  <2>2. QED
    BY <1>0, <2>1 DEF IndInv, StackInv
<1>2. Below = <<>>
  BY <1>0, <1>1, BelowFacts, EmptySeq DEF IndInv, StackInv
<1>3. QED
  BY <1>1, <1>2

(* Nothing has been entered when the run begins. *)
LEMMA DomainInit == Init => DomainOK
<1> SUFFICES ASSUME Init PROVE DomainOK
  OBVIOUS
<1>1. stack = <<>> /\ bridge = <<0>> /\ rootFinished = FALSE /\ Len(stack) = 0
  BY EmptySeq DEF Init
<1>2. bridge \in Seq(Nat) /\ Len(bridge) = 1 /\ bridge[1] = 0
  BY <1>1
<1>3. Runs(stack, Len(stack)) = 0
  BY <1>1, RunsStep
<1>4. QED
  BY <1>1, <1>2, <1>3 DEF DomainOK, DomainInv

(* A quantum begins at the root program, or with an afterlife's pass. *)
LEMMA DomainBegins ==
  ASSUME IndInv, DomainOK, Begins
  PROVE  DomainOK'
<1>1. PICK f \in Frame : /\ stack' = <<f>>
                         /\ (f.k = "root" /\ ~rootFinished) \/ (f.k = "sched" /\ rootFinished)
  <2>1. /\ RootFrame \in Frame /\ RootFrame.k = "root"
        /\ SchedFrame(cur) \in Frame /\ SchedFrame(cur).k = "sched"
    BY FramesMade
  <2>2. CASE ~rootFinished /\ stack' = <<RootFrame>>
    BY <2>1, <2>2
  <2>3. CASE rootFinished /\ stack' = <<SchedFrame(cur)>>
    BY <2>1, <2>3
  <2>4. QED
    BY <2>2, <2>3 DEF Begins
<1>2. Len(stack') = 1 /\ stack'[1] = f /\ stack' # <<>>
  BY <1>1
<1>3. Runs(stack', 1) = 0 /\ Runs(stack, 0) = 0 /\ Len(stack) = 0
  <2>1. Runs(stack', 0) = 0 /\ Runs(stack, 0) = 0
    BY RunsStep
  <2>2. Runs(stack', 0 + 1) = IF stack'[0 + 1].k \in GuestKinds \ {"root"}
                              THEN Runs(stack', 0) + 1 ELSE Runs(stack', 0)
    BY RunsStep
  <2>3. f.k \notin GuestKinds \ {"root"}
    BY <1>1 DEF GuestKinds
  <2>4. QED
    BY <1>2, <2>1, <2>2, <2>3, EmptySeq DEF Begins
<1>4. /\ bridge \in Seq(Nat) /\ Len(bridge) = 1
      /\ bridge[1] = 0 \/ (rootFinished /\ bridge[1] = 1)
  BY <1>3 DEF DomainOK, DomainInv, Begins
<1>5. bridge' = bridge /\ rootFinished' = rootFinished
  BY DEF Begins
<1>6. QED
  BY <1>1, <1>2, <1>3, <1>4, <1>5 DEF DomainOK, DomainInv, Native, GuestKinds

(* The root's run, alone on the C stack, leaves the depth it found. *)
LEMMA DomainRootLeaves ==
  ASSUME IndInv, DomainOK, LeavesRoot
  PROVE  DomainOK'
<1>1. Len(stack) = 1 /\ stack' = <<>> /\ Len(stack') = 0 /\ bridge' = bridge
  BY RootAlone, EmptySeq DEF LeavesRoot
<1>2. stack[1].k = "root" /\ stack # <<>>
  BY <1>1 DEF LeavesRoot, Is, Top
<1>3. Runs(stack, 1) = 0 /\ Runs(stack', 0) = 0
  <2>1. Runs(stack, 0 + 1) = Runs(stack, 0) /\ Runs(stack, 0) = 0 /\ Runs(stack', 0) = 0
    BY <1>2, RunsStep
  <2>2. QED
    BY <2>1
<1>4. bridge \in Seq(Nat) /\ Len(bridge) = 1 /\ bridge[1] = 0
  BY <1>1, <1>2, <1>3 DEF DomainOK, DomainInv, GuestKinds
<1>5. QED
  BY <1>1, <1>3, <1>4 DEF DomainOK, DomainInv

(* A loop, native code itself, pushes or pops what is native or a turn. *)
LEMMA DomainLoopSteps ==
  ASSUME IndInv, DomainOK, LoopStep
  PROVE  DomainOK'
<1>1. /\ LoopOnTop /\ UNCHANGED rootFinished
      /\ \/ LoopEnds
         \/ \E f \in Frame : f.k = Top.k /\ (LoopGoes(f) \/ LoopPasses(f) \/ LoopTurns(f))
  BY LoopMoves DEF LoopStep
<1>2. CASE LoopEnds
  BY <1>1, <1>2, DomainPop DEF LoopEnds
<1>3. ASSUME NEW f \in Frame, f.k = Top.k, LoopGoes(f) \/ LoopPasses(f) \/ LoopTurns(f)
      PROVE  DomainOK'
  <2>1. f.k \notin GuestKinds
    BY <1>1, <1>3 DEF LoopOnTop
  <2>2. CASE LoopGoes(f)
    BY <1>1, <1>3, <2>1, <2>2, DomainLoop DEF LoopGoes
  <2>3. CASE LoopPasses(f)
    <3>1. SchedFrame(cur) \in Frame /\ SchedFrame(cur).k \notin GuestKinds
      BY FramesMade DEF GuestKinds
    <3>2. stack' = Append(Update(f), SchedFrame(cur)) /\ bridge' = bridge
      BY <2>3 DEF LoopPasses
    <3>3. QED
      BY <1>1, <1>3, <2>1, <3>1, <3>2, DomainLoop
  <2>4. CASE LoopTurns(f)
    <3>1. PICK i \in Ctx : stack' = Append(Update(f), TurnFrame(i, cur))
      BY <2>4 DEF LoopTurns, StartTurn
    <3>2. TurnFrame(i, cur) \in Frame /\ TurnFrame(i, cur).k = "turn"
      BY FramesMade
    <3>3. bridge' = EnterGuest(bridge)
      BY <2>4 DEF LoopTurns
    <3>4. QED
      BY <1>1, <1>3, <2>1, <3>1, <3>2, <3>3, DomainLoop
  <2>5. QED
    BY <1>3, <2>2, <2>3, <2>4
<1>4. QED
  BY <1>1, <1>2, <1>3

(* A step of any shape keeps the saved depths in step with the C stack. *)
LEMMA DomainKept == IndInv /\ DomainOK /\ [Next]_vars => DomainOK'
<1> SUFFICES ASSUME IndInv, DomainOK, [Next]_vars PROVE DomainOK'
  OBVIOUS
<1>1. CASE UNCHANGED vars \/ Stays
  BY <1>1 DEF vars, Stays, DomainOK
<1>2. CASE Begins
  BY <1>2, DomainBegins
<1>3. ASSUME NEW f \in Frame, Suspends(f) PROVE DomainOK'
  BY <1>3, DomainCall DEF Suspends
<1>4. ASSUME NEW f \in Frame, NEW e \in Ctx, Nests(f, e) PROVE DomainOK'
  <2>1. f.k \in GuestKinds \ {"root"}
    BY <1>4, FramesMade DEF Nests, GuestKinds
  <2>2. QED
    BY <1>4, <2>1, DomainNest DEF Nests
<1>5. CASE Creates
  <2>1. FreeSlot \in Ctx
    BY <1>5, ContextsAssumption DEF Creates, FreeSlot, Ctx, IndInv, TableInv
  <2>2. TurnFrame(FreeSlot, cur) \in Frame /\ TurnFrame(FreeSlot, cur).k \in GuestKinds \ {"root"}
    BY <2>1, FramesMade DEF GuestKinds
  <2>3. stack' = Append(stack, TurnFrame(FreeSlot, cur))
    BY <1>5 DEF Creates, StartTurn
  <2>4. QED
    BY <1>5, <2>2, <2>3, DomainNest DEF Creates
<1>6. CASE LeavesNested
  <2>1. Top.k \in GuestKinds \ {"root"} /\ stack # <<>> /\ UNCHANGED rootFinished
    BY <1>6 DEF LeavesNested, GuestKinds
  <2>2. stack' = Below /\ bridge' = Back(Below, LeaveGuest(bridge))
    BY <1>6 DEF LeavesNested, LeaveNested
  <2>3. LeaveGuest(bridge) = Restored(Len(stack))
    BY <2>1, TopRestored
  <2>4. Len(stack) \in 1 .. Len(stack)
    BY <2>1, TopFacts DEF IndInv, StackInv
  <2>5. QED
    BY <2>1, <2>2, <2>3, <2>4, DomainLeave DEF Below, Top
<1>7. ASSUME NEW m \in 1 .. Len(stack), LeavesTurn(m) PROVE DomainOK'
  <2>1. stack[m].k \in GuestKinds \ {"root"} /\ stack' = SubSeq(stack, 1, m - 1)
    BY <1>7 DEF LeavesTurn, EndTurn, GuestKinds
  <2>2. QED
    BY <1>7, <2>1, DomainLeave DEF LeavesTurn
<1>8. CASE ExitsCommand
  BY <1>8, DomainLeave DEF ExitsCommand, GuestKinds
<1>9. CASE LeavesRoot
  BY <1>9, DomainRootLeaves
<1>10. CASE LoopFails
  BY <1>10, DomainPop DEF LoopFails
<1>11. CASE PassEnds
  <2>1. LoopOnTop /\ UNCHANGED <<bridge, rootFinished>> /\ stack' = <<>> /\ Len(stack) = 1
    BY <1>11 DEF PassEnds, Is, LoopOnTop, GuestKinds
  <2>2. Below = <<>>
    BY <2>1, BelowFacts, EmptySeq DEF IndInv, StackInv, LoopOnTop
  <2>3. Back(Below, bridge) = bridge
    BY <2>2 DEF Back
  <2>4. QED
    BY <2>1, <2>2, <2>3, DomainPop
<1>12. CASE LoopStep
  BY <1>12, DomainLoopSteps
<1>13. QED
  BY <1>1, <1>2, <1>3, <1>4, <1>5, <1>6, <1>7, <1>8, <1>9, <1>10, <1>11, <1>12, StepShapes
     DEF Shapes

(* Hence they are, throughout. *)
LEMMA DomainInvariant == Spec => [](IndInv /\ DomainOK)
<1>1. QED
  BY InvInit, InvNext, DomainInit, DomainKept, PTL DEF Spec

(* Every variable keeps its type.  *)
THEOREM TypeCorrect == Spec => []TypeOK
<1>1. IndInv /\ DomainOK => TypeOK
  BY DEF IndInv, StackInv, TableInv, RestOK, DomainOK, DomainInv, TypeOK
<1>2. QED
  BY <1>1, DomainInvariant, PTL

(* classify_hardware tells the program's faults from the system's: g_in_bridge
   is 0 whenever guest code runs, and not 0 in the C loops under it, whichever
   nested runs, error returns and longjmps came before.  (A run's depths are
   those of native code at every saved level but the one an afterlife found.) *)
THEOREM FaultsClassified == Spec => []DomainTrue
<1>1. IndInv /\ DomainOK => DomainTrue
  <2> SUFFICES ASSUME IndInv, DomainOK, stack # <<>> PROVE DomainTrue
    BY DEF DomainTrue
  <2>1. bridge \in Seq(Nat)
    BY DEF DomainOK, DomainInv
  <2>2. Top.k \in GuestKinds => bridge[Len(bridge)] = 0
    BY DEF DomainOK, DomainInv, Top
  <2>3. Top.k \notin GuestKinds /\ ~rootFinished => bridge[Len(bridge)] = 1
    BY DEF DomainOK, DomainInv, Native, Top
  <2>4. QED
    BY <2>2, <2>3 DEF DomainTrue
<1>2. QED
  BY <1>1, DomainInvariant, PTL

-----------------------------------------------------------------------------
(* callback_depth and the callbacks on the C stack.                          *)
CallbacksOf(st) == {n \in 1 .. Len(st) : st[n].k = "callback"}

(* A C stack has finitely many callbacks. *)
LEMMA CallbacksFinite ==
  ASSUME NEW st \in Seq(Frame)
  PROVE  IsFiniteSet(CallbacksOf(st)) /\ Cardinality(CallbacksOf(st)) \in Nat
<1>1. IsFiniteSet(1 .. Len(st)) /\ CallbacksOf(st) \in SUBSET (1 .. Len(st))
  BY FS_Interval, LenProperties DEF CallbacksOf
<1>2. IsFiniteSet(CallbacksOf(st))
  BY <1>1, FS_Subset
<1>3. QED
  BY <1>2, FS_CardinalityType

(* A push adds at most the frame pushed; cutting a stack back adds none. *)
LEMMA CallbacksMove ==
  ASSUME NEW st \in Seq(Frame), NEW f \in Frame, NEW m \in 0 .. Len(st)
  PROVE  /\ Cardinality(CallbacksOf(Append(st, f))) =
               Cardinality(CallbacksOf(st)) + (IF f.k = "callback" THEN 1 ELSE 0)
         /\ Cardinality(CallbacksOf(SubSeq(st, 1, m))) <= Cardinality(CallbacksOf(st))
<1> DEFINE n == Len(st)
           s == Append(st, f)
           w == SubSeq(st, 1, m)
<1>1. n \in Nat /\ m \in Nat
  BY LenProperties
<1>2. Len(s) = n + 1 /\ s[n + 1] = f /\ \A i \in 1 .. n : s[i] = st[i]
  BY AppendProperties
<1>3. Len(w) = m /\ \A i \in 1 .. m : w[i] = st[i]
  BY CutFacts
<1>4. IsFiniteSet(CallbacksOf(st)) /\ Cardinality(CallbacksOf(st)) \in Nat
  BY CallbacksFinite
<1> HIDE DEF s, w
<1>5. ASSUME f.k = "callback"
      PROVE  Cardinality(CallbacksOf(s)) = Cardinality(CallbacksOf(st)) + 1
  <2>1. CallbacksOf(s) = CallbacksOf(st) \cup {n + 1} /\ n + 1 \notin CallbacksOf(st)
    BY <1>1, <1>2, <1>5 DEF CallbacksOf
  <2>2. QED
    BY <1>4, <2>1, FS_AddElement
<1>6. ASSUME f.k # "callback"
      PROVE  Cardinality(CallbacksOf(s)) = Cardinality(CallbacksOf(st))
  <2>1. CallbacksOf(s) = CallbacksOf(st)
    BY <1>1, <1>2, <1>6 DEF CallbacksOf
  <2>2. QED
    BY <2>1
<1>7. Cardinality(CallbacksOf(w)) <= Cardinality(CallbacksOf(st))
  <2>1. CallbacksOf(w) \in SUBSET CallbacksOf(st)
    BY <1>1, <1>3 DEF CallbacksOf
  <2>2. QED
    BY <1>4, <2>1, FS_Subset
<1>8. QED
  BY <1>4, <1>5, <1>6, <1>7 DEF s, w

(* A callback on top is one more than there are below it. *)
LEMMA CallbacksBelow ==
  ASSUME stack \in Seq(Frame), stack # <<>>
  PROVE  /\ Cardinality(CallbacksOf(Below)) <= Cardinality(CallbacksOf(stack))
         /\ Top.k = "callback" =>
               Cardinality(CallbacksOf(stack)) = Cardinality(CallbacksOf(Below)) + 1
<1>1. /\ Len(stack) \in Nat \ {0} /\ Below \in Seq(Frame) /\ Len(Below) = Len(stack) - 1
      /\ \A i \in 1 .. Len(stack) - 1 : Below[i] = stack[i]
  BY TopFacts, BelowFacts
<1>2. Cardinality(CallbacksOf(Below)) <= Cardinality(CallbacksOf(stack))
  <2>1. Len(stack) - 1 \in 0 .. Len(stack) /\ DelayFrame \in Frame
    BY <1>1, BoundsAssumption DEF DelayFrame, Frame, DelayFrames
  <2>2. QED
    BY <2>1, CallbacksMove DEF Below
<1>3. ASSUME Top.k = "callback"
      PROVE  Cardinality(CallbacksOf(stack)) = Cardinality(CallbacksOf(Below)) + 1
  <2>1. CallbacksOf(stack) = CallbacksOf(Below) \cup {Len(stack)}
    BY <1>1, <1>3 DEF CallbacksOf, Top
  <2>2. Len(stack) \notin CallbacksOf(Below) /\ IsFiniteSet(CallbacksOf(Below))
    BY <1>1, CallbacksFinite DEF CallbacksOf
  <2>3. QED
    BY <2>1, <2>2, FS_AddElement, CallbacksFinite, <1>1
<1>4. QED
  BY <1>2, <1>3

DepthOK == Cardinality(CallbacksOf(stack)) <= depth

(* There is no callback when the run begins. *)
LEMMA DepthInit == Init => DepthOK
<1> SUFFICES ASSUME Init PROVE DepthOK
  OBVIOUS
<1>1. stack = <<>> /\ Len(stack) = 0 /\ depth = 0
  BY EmptySeq DEF Init
<1>2. CallbacksOf(stack) = {}
  BY <1>1 DEF CallbacksOf
<1>3. QED
  BY <1>1, <1>2, FS_EmptySet DEF DepthOK

(* The steps that pop frames, or that put up a frame that is no callback. *)
LEMMA DepthMoves ==
  ASSUME IndInv, DepthOK, UNCHANGED depth
  PROVE  /\ \A m \in 0 .. Len(stack) : stack' = SubSeq(stack, 1, m) => DepthOK'
         /\ \A f \in Frame : f.k # "callback" /\ stack' = Append(stack, f) => DepthOK'
         /\ stack # <<>> => \A f, g \in Frame : f.k # "callback" /\ g.k # "callback" =>
               /\ stack' = Update(f) => DepthOK'
               /\ stack' = Append(Update(f), g) => DepthOK'
<1>1. stack \in Seq(Frame) /\ Cardinality(CallbacksOf(stack)) \in Nat
  BY CallbacksFinite DEF IndInv, StackInv
<1>2. depth' = depth /\ depth \in Nat
  BY BoundsAssumption DEF IndInv, RestOK
<1>3. ASSUME NEW s \in Seq(Frame), Cardinality(CallbacksOf(s)) <= Cardinality(CallbacksOf(stack)),
             stack' = s
      PROVE  DepthOK'
  <2>1. Cardinality(CallbacksOf(s)) \in Nat
    BY CallbacksFinite
  <2>2. QED
    BY <1>1, <1>2, <1>3, <2>1 DEF DepthOK
<1>4. ASSUME NEW m \in 0 .. Len(stack), stack' = SubSeq(stack, 1, m) PROVE DepthOK'
  <2>1. DelayFrame \in Frame
    BY BoundsAssumption DEF DelayFrame, Frame, DelayFrames
  <2>2. Cardinality(CallbacksOf(SubSeq(stack, 1, m))) <= Cardinality(CallbacksOf(stack))
    BY <1>1, <2>1, CallbacksMove
  <2>3. SubSeq(stack, 1, m) \in Seq(Frame)
    BY <1>1, CutFacts
  <2>4. QED
    BY <1>3, <1>4, <2>2, <2>3
<1>5. ASSUME NEW f \in Frame, f.k # "callback", NEW s \in Seq(Frame)
      PROVE  /\ Cardinality(CallbacksOf(Append(s, f))) = Cardinality(CallbacksOf(s))
             /\ Append(s, f) \in Seq(Frame)
  <2>1. 0 \in 0 .. Len(s) /\ Cardinality(CallbacksOf(s)) \in Nat
    BY LenProperties, CallbacksFinite
  <2>2. QED
    BY <1>5, <2>1, CallbacksMove, AppendProperties
<1>6. ASSUME NEW f \in Frame, f.k # "callback", stack' = Append(stack, f) PROVE DepthOK'
  <2> DEFINE s == Append(stack, f)
  <2>1. s \in Seq(Frame) /\ Cardinality(CallbacksOf(s)) = Cardinality(CallbacksOf(stack))
    BY <1>1, <1>5, <1>6
  <2>2. stack' = s
    BY <1>6
  <2> HIDE DEF s
  <2>3. Cardinality(CallbacksOf(s)) <= Cardinality(CallbacksOf(stack))
    BY <1>1, <2>1
  <2>4. QED
    BY <1>3, <2>1, <2>2, <2>3
<1>7. ASSUME stack # <<>>, NEW f \in Frame, NEW g \in Frame, f.k # "callback", g.k # "callback",
             stack' = Update(f) \/ stack' = Append(Update(f), g)
      PROVE  DepthOK'
  <2>1. Below \in Seq(Frame) /\ Cardinality(CallbacksOf(Below)) <= Cardinality(CallbacksOf(stack))
    BY <1>1, <1>7, BelowFacts, CallbacksBelow
  <2>2. Update(f) \in Seq(Frame) /\ Cardinality(CallbacksOf(Update(f))) = Cardinality(CallbacksOf(Below))
    BY <1>5, <1>7, <2>1 DEF Update
  <2>3. /\ Append(Update(f), g) \in Seq(Frame)
        /\ Cardinality(CallbacksOf(Append(Update(f), g))) = Cardinality(CallbacksOf(Below))
    BY <1>5, <1>7, <2>2
  <2>4. QED
    BY <1>3, <1>7, <2>1, <2>2, <2>3
<1>8. QED
  BY <1>4, <1>6, <1>7

(* A step keeps callback_depth at or above the number of callbacks. *)
LEMMA DepthKept == IndInv /\ DomainOK /\ DepthOK /\ [Next]_vars => DepthOK'
<1> SUFFICES ASSUME IndInv, DomainOK, DepthOK, [Next]_vars PROVE DepthOK'
  OBVIOUS
<1>0. /\ stack \in Seq(Frame) /\ Cardinality(CallbacksOf(stack)) \in Nat /\ depth \in Nat
      /\ Len(stack) \in Nat
  BY CallbacksFinite, BoundsAssumption, LenProperties DEF IndInv, StackInv, RestOK
<1>1. CASE UNCHANGED vars \/ Stays
  BY <1>1 DEF vars, Stays, DepthOK
<1>2. CASE Begins
  <2>1. stack = SubSeq(stack, 1, 0) /\ stack = <<>>
    BY <1>2, EmptySeq DEF Begins
  <2>2. PICK f \in Frame : f.k # "callback" /\ stack' = Append(stack, f)
    <3>1. /\ RootFrame \in Frame /\ RootFrame.k = "root"
          /\ SchedFrame(cur) \in Frame /\ SchedFrame(cur).k = "sched"
      BY FramesMade
    <3>2. \A g : <<g>> = Append(<<>>, g)
      OBVIOUS
    <3>3. QED
      BY <1>2, <2>1, <3>1, <3>2 DEF Begins
  <2>3. QED
    BY <1>2, <2>2, DepthMoves DEF Begins
<1>3. ASSUME NEW f \in Frame, Suspends(f) PROVE DepthOK'
  BY <1>3, DepthMoves DEF Suspends, GuestKinds
<1>4. ASSUME NEW f \in Frame, NEW e \in Ctx, Nests(f, e) PROVE DepthOK'
  <2>1. CallbackFrame.k = "callback" /\ CommandFrame.k = "command"
    BY FramesMade
  <2>2. CASE f = CommandFrame
    <3>1. f.k # "callback" /\ UNCHANGED depth
      BY <1>4, <2>1, <2>2 DEF Nests
    <3>2. QED
      BY <1>4, <3>1, DepthMoves DEF Nests
  <2>3. CASE f = CallbackFrame
    <3>1. stack' = Append(stack, f) /\ depth' = depth + 1
      BY <1>4, <2>3 DEF Nests
    <3>2. Cardinality(CallbacksOf(Append(stack, f))) = Cardinality(CallbacksOf(stack)) + 1
      <4>1. 0 \in 0 .. Len(stack)
        BY <1>0
      <4>2. QED
        BY <1>0, <2>1, <2>3, <4>1, CallbacksMove
    <3>3. QED
      BY <1>0, <3>1, <3>2 DEF DepthOK
  <2>4. QED
    BY <1>4, <2>2, <2>3 DEF Nests
<1>5. CASE Creates
  <2>1. FreeSlot \in Ctx
    BY <1>5, ContextsAssumption DEF Creates, FreeSlot, Ctx, IndInv, TableInv
  <2>2. TurnFrame(FreeSlot, cur) \in Frame /\ TurnFrame(FreeSlot, cur).k = "turn"
    BY <2>1, FramesMade
  <2>3. stack' = Append(stack, TurnFrame(FreeSlot, cur)) /\ UNCHANGED depth
    BY <1>5 DEF Creates, StartTurn
  <2>4. QED
    BY <2>2, <2>3, DepthMoves
<1>6. CASE LeavesNested
  <2>1. stack # <<>> /\ stack' = Below /\ depth' = DepthAfter
    BY <1>6 DEF LeavesNested, LeaveNested
  <2>2. /\ Cardinality(CallbacksOf(Below)) <= Cardinality(CallbacksOf(stack))
        /\ Top.k = "callback" =>
              Cardinality(CallbacksOf(stack)) = Cardinality(CallbacksOf(Below)) + 1
        /\ Cardinality(CallbacksOf(Below)) \in Nat
    BY <1>0, <2>1, CallbacksBelow, BelowFacts, CallbacksFinite
  <2>3. QED
    BY <1>0, <2>1, <2>2 DEF DepthAfter, DepthOK, Is
<1>7. ASSUME NEW m \in 1 .. Len(stack), stack' = SubSeq(stack, 1, m - 1), UNCHANGED depth
      PROVE  DepthOK'
  <2>1. m - 1 \in 0 .. Len(stack)
    BY <1>0
  <2>2. QED
    BY <1>7, <2>1, DepthMoves
<1>8. ASSUME NEW m \in 1 .. Len(stack), LeavesTurn(m) PROVE DepthOK'
  BY <1>7, <1>8 DEF LeavesTurn, EndTurn
<1>9. CASE ExitsCommand
  BY <1>7, <1>9 DEF ExitsCommand
<1>10. ASSUME stack # <<>>, stack' = Below, UNCHANGED depth PROVE DepthOK'
  <2>1. Len(stack) \in 1 .. Len(stack)
    BY <1>0, <1>10, TopFacts
  <2>2. QED
    BY <1>7, <1>10, <2>1 DEF Below
<1>11. CASE LeavesRoot \/ LoopFails
  BY <1>10, <1>11 DEF LeavesRoot, LoopFails, LoopOnTop, Is
<1>12. CASE PassEnds
  <2>1. stack # <<>> /\ Below = <<>>
    BY <1>0, <1>12, BelowFacts, EmptySeq DEF PassEnds, Is
  <2>2. QED
    BY <1>10, <1>12, <2>1 DEF PassEnds
<1>13. CASE LoopStep
  <2>1. /\ LoopOnTop /\ UNCHANGED depth /\ stack # <<>>
        /\ \/ LoopEnds
           \/ \E f \in Frame : f.k = Top.k /\ (LoopGoes(f) \/ LoopPasses(f) \/ LoopTurns(f))
    BY <1>13, LoopMoves DEF LoopStep, LoopOnTop
  <2>2. CASE LoopEnds
    BY <1>10, <2>1, <2>2 DEF LoopEnds
  <2>3. ASSUME NEW f \in Frame, f.k = Top.k, LoopGoes(f) \/ LoopPasses(f) \/ LoopTurns(f)
        PROVE  DepthOK'
    <3>1. f.k # "callback"
      BY <2>1, <2>3 DEF LoopOnTop, GuestKinds
    <3>2. CASE LoopGoes(f)
      BY <2>1, <3>1, <3>2, DepthMoves DEF LoopGoes
    <3>3. ASSUME NEW g \in Frame, g.k # "callback", stack' = Append(Update(f), g)
          PROVE  DepthOK'
      BY <2>1, <3>1, <3>3, DepthMoves
    <3>4. CASE LoopPasses(f)
      BY <3>3, <3>4, FramesMade DEF LoopPasses
    <3>5. CASE LoopTurns(f)
      BY <3>3, <3>5, FramesMade DEF LoopTurns, StartTurn
    <3>6. QED
      BY <2>3, <3>2, <3>4, <3>5
  <2>4. QED
    BY <2>1, <2>2, <2>3
<1>14. QED
  BY <1>1, <1>2, <1>3, <1>4, <1>5, <1>6, <1>8, <1>9, <1>11, <1>12, <1>13, StepShapes
     DEF Shapes

(* callback_depth never falls below the number of callbacks on the C stack,
   whatever returns, fails, is parked or jumps: the poll that may yield comes
   back only when the outermost callback has returned. *)
THEOREM CallbacksCounted == Spec => []CallbacksCovered
<1>1. DepthOK => CallbacksCovered
  BY DEF DepthOK, CallbacksOf, CallbacksCovered, CallbacksOnStack
<1>2. IndInv /\ DomainOK /\ DepthOK /\ [Next]_vars => DepthOK'
  BY DepthKept
<1>3. QED
  BY <1>1, <1>2, DepthInit, DomainInvariant, PTL DEF Spec

(* The run is reported done only when no child can still use the arena, and no
   step follows that could start one. *)
THEOREM DoneAlone == Spec => []DoneMeansAlone
<1>1. Init => DoneMeansAlone
  BY DEF Init, DoneMeansAlone
<1>2. IndInv /\ DomainOK /\ DoneMeansAlone /\ [Next]_vars => DoneMeansAlone'
  <2> SUFFICES ASSUME IndInv, DomainOK, DoneMeansAlone, [Next]_vars, run' = "done"
               PROVE  (LiveChildren = {} /\ stack = <<>>)'
    BY DEF DoneMeansAlone
  <2>1. CASE UNCHANGED vars
    BY <2>1 DEF vars, DoneMeansAlone, LiveChildren
  <2>2. CASE run = "live" /\ Shapes
    <3>1. LeavesRoot \/ PassEnds
      <4>1. ~LoopStep
        BY <2>2, LoopMoves DEF LoopStep
      <4>2. \A m : ~LeavesTurn(m)
        BY <2>2 DEF LeavesTurn
      <4>3. QED
        BY <2>2, <4>1, <4>2
           DEF Shapes, Stays, Begins, Creates, LeavesNested, ExitsCommand, LoopFails,
               Suspends, Nests
    <3>2. LiveChildren = {} /\ stack' = <<>> /\ nctx' = nctx /\ nctx \in 0 .. MaxCtx
      BY <2>2, <3>1, RootAlone DEF LeavesRoot, PassEnds, IndInv, TableInv
    <3>3. \A i \in Ctx : ctx[i].finished => ctx'[i].finished
      BY <3>1 DEF LeavesRoot, PassEnds
    <3>4. \A i \in 1 .. nctx - 1 : i \in Ctx
      BY <3>2, ContextsAssumption DEF Ctx
    <3>5. QED
      BY <3>2, <3>3, <3>4 DEF LiveChildren
  <2>3. QED
    BY <2>1, <2>2, StepShapes
<1>3. QED
  BY <1>1, <1>2, DomainInvariant, PTL DEF Spec

-----------------------------------------------------------------------------
(* Who executes: the innermost turn.                                         *)

(* c is the context whose guest code the frames of st up to height n execute. *)
Own(st, n, c) ==
  \/ c = 0 /\ \A m \in 1 .. n : st[m].k # "turn"
  \/ \E m \in 1 .. n : /\ st[m].k = "turn" /\ st[m].c = c
                       /\ \A o \in m + 1 .. n : st[o].k # "turn"

(* What the frames of a C stack sit on, and that a turn and a scheduler's pass
   remember the context under them. *)
Nesting(st) ==
  /\ \A m \in 1 .. Len(st) : st[m].k = "turn" => Own(st, m - 1, st[m].outer)
  /\ \A m \in 1 .. Len(st) : st[m].k = "sched" => Own(st, m, st[m].outer)
  /\ \A m \in 1 .. Len(st) :
        st[m].k \in {"callback", "command"} => st[m - 1].k \in GuestKinds
  /\ \A m \in 1 .. Len(st) : st[m].k \notin {"root", "sched"} => m > 1

(* The frames up to a height execute one context. *)
LEMMA OwnUnique ==
  ASSUME NEW st, NEW n \in Nat, NEW c, NEW d, Own(st, n, c), Own(st, n, d)
  PROVE  c = d
<1>1. ASSUME NEW p \in 1 .. n, NEW q \in 1 .. n, st[p].k = "turn", st[q].k = "turn",
             \A o \in p + 1 .. n : st[o].k # "turn", \A o \in q + 1 .. n : st[o].k # "turn"
      PROVE  p = q
  BY <1>1
<1>2. QED
  BY <1>1 DEF Own

(* It is that of every C stack that agrees up to the height. *)
LEMMA OwnAgree ==
  ASSUME NEW st, NEW s, NEW n \in Nat, NEW c, \A i \in 1 .. n : s[i] = st[i], Own(st, n, c)
  PROVE  Own(s, n, c)
<1>1. \A m \in 1 .. n : \A o \in m + 1 .. n : o \in 1 .. n
  OBVIOUS
<1>2. QED
  BY <1>1 DEF Own

(* One frame further up it is the same context, or that of the turn there. *)
LEMMA OwnUp ==
  ASSUME NEW st, NEW n \in Nat, NEW c
  PROVE  /\ st[n + 1].k # "turn" => (Own(st, n + 1, c) <=> Own(st, n, c))
         /\ st[n + 1].k = "turn" => Own(st, n + 1, st[n + 1].c)
<1>1. \A m \in 1 .. n + 1 : m \in 1 .. n \/ m = n + 1
  OBVIOUS
<1>2. \A m \in 1 .. n : m \in 1 .. n + 1 /\ n + 1 \in m + 1 .. n + 1
  OBVIOUS
<1>3. \A m \in 1 .. n : \A o \in m + 1 .. n + 1 : o = n + 1 \/ o \in m + 1 .. n
  OBVIOUS
<1>4. \A m \in 1 .. n : \A o \in m + 1 .. n : o \in m + 1 .. n + 1
  OBVIOUS
<1>5. n + 1 \in 1 .. n + 1 /\ \A o \in (n + 1) + 1 .. n + 1 : FALSE
  OBVIOUS
<1>6. st[n + 1].k = "turn" => Own(st, n + 1, st[n + 1].c)
  BY <1>5 DEF Own
<1>7. ASSUME st[n + 1].k # "turn", Own(st, n, c) PROVE Own(st, n + 1, c)
  <2>1. CASE c = 0 /\ \A m \in 1 .. n : st[m].k # "turn"
    BY <1>1, <1>7, <2>1 DEF Own
  <2>2. CASE \E m \in 1 .. n : /\ st[m].k = "turn" /\ st[m].c = c
                              /\ \A o \in m + 1 .. n : st[o].k # "turn"
    <3>1. PICK m \in 1 .. n : /\ st[m].k = "turn" /\ st[m].c = c
                              /\ \A o \in m + 1 .. n : st[o].k # "turn"
      BY <2>2
    <3>2. m \in 1 .. n + 1 /\ \A o \in m + 1 .. n + 1 : st[o].k # "turn"
      BY <1>2, <1>3, <1>7, <3>1
    <3>3. QED
      BY <3>1, <3>2 DEF Own
  <2>3. QED
    BY <1>7, <2>1, <2>2 DEF Own
<1>8. ASSUME st[n + 1].k # "turn", Own(st, n + 1, c) PROVE Own(st, n, c)
  <2>1. CASE c = 0 /\ \A m \in 1 .. n + 1 : st[m].k # "turn"
    BY <1>2, <2>1 DEF Own
  <2>2. CASE \E m \in 1 .. n + 1 : /\ st[m].k = "turn" /\ st[m].c = c
                                  /\ \A o \in m + 1 .. n + 1 : st[o].k # "turn"
    <3>1. PICK m \in 1 .. n + 1 : /\ st[m].k = "turn" /\ st[m].c = c
                                  /\ \A o \in m + 1 .. n + 1 : st[o].k # "turn"
      BY <2>2
    <3>2. m \in 1 .. n /\ \A o \in m + 1 .. n : st[o].k # "turn"
      BY <1>1, <1>4, <1>8, <3>1
    <3>3. QED
      BY <3>1, <3>2 DEF Own
  <2>3. QED
    BY <1>8, <2>1, <2>2 DEF Own
<1>9. QED
  BY <1>6, <1>7, <1>8

(* Cutting a C stack back keeps what its frames sit on. *)
LEMMA NestCut ==
  ASSUME NEW st \in Seq(Frame), Nesting(st), NEW m \in 0 .. Len(st)
  PROVE  /\ Nesting(SubSeq(st, 1, m))
         /\ \A n \in 0 .. m : \A c : Own(st, n, c) => Own(SubSeq(st, 1, m), n, c)
<1> DEFINE s == SubSeq(st, 1, m)
<1>1. m \in Nat /\ Len(st) \in Nat /\ Len(s) = m /\ \A i \in 1 .. m : s[i] = st[i]
  BY LenProperties, CutFacts
<1> HIDE DEF s
<1>2. ASSUME NEW n \in 0 .. m, NEW c, Own(st, n, c) PROVE Own(s, n, c)
  <2>1. n \in Nat /\ \A i \in 1 .. n : s[i] = st[i]
    BY <1>1, <1>2
  <2>2. QED
    BY <1>2, <2>1, OwnAgree
<1>3. \A i \in 1 .. m : i \in 1 .. Len(st) /\ i - 1 \in 0 .. m /\ i \in 0 .. m
  BY <1>1
<1>4. \A i \in 1 .. m : s[i].k = "turn" => Own(s, i - 1, s[i].outer)
  BY <1>1, <1>2, <1>3 DEF Nesting
<1>5. \A i \in 1 .. m : s[i].k = "sched" => Own(s, i, s[i].outer)
  BY <1>1, <1>2, <1>3 DEF Nesting
<1>6. \A i \in 1 .. m : s[i].k \notin {"root", "sched"} => i > 1
  BY <1>1, <1>3 DEF Nesting
<1>7. \A i \in 1 .. m : s[i].k \in {"callback", "command"} => s[i - 1].k \in GuestKinds
  <2>1. ASSUME NEW i \in 1 .. m, s[i].k \in {"callback", "command"}
        PROVE  s[i - 1].k \in GuestKinds
    <3>1. i > 1 /\ st[i - 1].k \in GuestKinds
      BY <1>1, <1>3, <1>6, <2>1 DEF Nesting
    <3>2. s[i - 1] = st[i - 1]
      BY <1>1, <3>1
    <3>3. QED
      BY <3>1, <3>2
  <2>2. QED
    BY <2>1
<1>8. Nesting(s)
  BY <1>1, <1>4, <1>5, <1>6, <1>7 DEF Nesting
<1>9. QED
  BY <1>2, <1>8 DEF s

(* So does a frame put where it may be put. *)
LEMMA NestPush ==
  ASSUME NEW st \in Seq(Frame), Nesting(st), NEW c, Own(st, Len(st), c),
         NEW f \in Frame, f.k \in {"turn", "sched"} => f.outer = c,
         f.k \in {"callback", "command"} => st[Len(st)].k \in GuestKinds,
         f.k \notin {"root", "sched"} => st # <<>>
  PROVE  /\ Nesting(Append(st, f)) /\ Len(Append(st, f)) = Len(st) + 1
         /\ Append(st, f) # <<>> /\ Append(st, f)[Len(st) + 1] = f
         /\ Own(Append(st, f), Len(st) + 1, IF f.k = "turn" THEN f.c ELSE c)
<1> DEFINE s == Append(st, f)
           n == Len(st)
<1>1. /\ n \in Nat /\ Len(s) = n + 1 /\ s[n + 1] = f /\ \A i \in 1 .. n : s[i] = st[i]
      /\ s # <<>>
  BY LenProperties, AppendProperties
<1> HIDE DEF s
<1>2. ASSUME NEW k \in 0 .. n, NEW d, Own(st, k, d) PROVE Own(s, k, d)
  <2>1. k \in Nat /\ \A i \in 1 .. k : s[i] = st[i]
    BY <1>1, <1>2
  <2>2. QED
    BY <1>2, <2>1, OwnAgree
<1>3. Own(s, n, c)
  BY <1>1, <1>2
<1>4. Own(s, n + 1, IF f.k = "turn" THEN f.c ELSE c)
  BY <1>1, <1>3, OwnUp
<1>5. st # <<>> => n >= 1
  BY <1>1, EmptySeq
<1> HIDE DEF n
<1>6. \A i \in 1 .. n + 1 : i = n + 1 \/ i \in 1 .. n
  BY <1>1
<1>7. \A i \in 1 .. n : i - 1 \in 0 .. n /\ i \in 0 .. n
  BY <1>1
<1>8. \A i \in 1 .. n + 1 : s[i].k = "turn" => Own(s, i - 1, s[i].outer)
  <2>1. s[n + 1].k = "turn" => Own(s, (n + 1) - 1, s[n + 1].outer)
    BY <1>1, <1>3
  <2>2. \A i \in 1 .. n : s[i].k = "turn" => Own(s, i - 1, s[i].outer)
    BY <1>1, <1>2, <1>7 DEF Nesting, n
  <2>3. QED
    BY <1>6, <2>1, <2>2
<1>9. \A i \in 1 .. n + 1 : s[i].k = "sched" => Own(s, i, s[i].outer)
  <2>1. s[n + 1].k = "sched" => Own(s, n + 1, s[n + 1].outer)
    BY <1>1, <1>4
  <2>2. \A i \in 1 .. n : s[i].k = "sched" => Own(s, i, s[i].outer)
    BY <1>1, <1>2, <1>7 DEF Nesting, n
  <2>3. QED
    BY <1>6, <2>1, <2>2
<1>10. \A i \in 1 .. n + 1 : s[i].k \notin {"root", "sched"} => i > 1
  <2>1. \A i \in 1 .. n : s[i].k \notin {"root", "sched"} => i > 1
    BY <1>1 DEF Nesting, n
  <2>2. QED
    BY <1>1, <1>5, <1>6, <2>1
<1>11. \A i \in 1 .. n + 1 : s[i].k \in {"callback", "command"} => s[i - 1].k \in GuestKinds
  <2>1. ASSUME NEW i \in 1 .. n, s[i].k \in {"callback", "command"}
        PROVE  s[i - 1].k \in GuestKinds
    <3>1. i > 1 /\ st[i - 1].k \in GuestKinds
      BY <1>1, <1>6, <1>10, <2>1 DEF Nesting, n
    <3>2. s[i - 1] = st[i - 1]
      BY <1>1, <3>1
    <3>3. QED
      BY <3>1, <3>2
  <2>2. s[n + 1].k \in {"callback", "command"} => s[(n + 1) - 1].k \in GuestKinds
    <3>1. f.k \in {"callback", "command"} => st # <<>> /\ st[n].k \in GuestKinds
      BY DEF n
    <3>2. st # <<>> => s[n] = st[n] /\ (n + 1) - 1 = n
      BY <1>1, <1>5
    <3>3. QED
      BY <1>1, <3>1, <3>2
  <2>3. QED
    BY <1>6, <2>1, <2>2
<1>12. Nesting(s)
  BY <1>1, <1>8, <1>9, <1>10, <1>11 DEF Nesting
<1>13. QED
  BY <1>1, <1>4, <1>12 DEF s, n

(* The run of the innermost turn's context, on its own engine. *)
OwnOK ==
  /\ Own(stack, Len(stack), cur) /\ Nesting(stack)
  /\ engine = IF stack = <<>> THEN None ELSE cur

(* Nobody executes when the run begins, and the root is current. *)
LEMMA OwnInit == Init => OwnOK
<1> SUFFICES ASSUME Init PROVE OwnOK
  OBVIOUS
<1>1. stack = <<>> /\ Len(stack) = 0 /\ cur = 0 /\ engine = None
  BY EmptySeq DEF Init
<1>2. QED
  BY <1>1 DEF OwnOK, Own, Nesting

(* Facts about the frame on top. *)
LEMMA OwnTop ==
  ASSUME IndInv, OwnOK, stack # <<>>
  PROVE  /\ Len(stack) \in Nat \ {0} /\ Len(stack) - 1 \in Nat /\ Len(stack) - 1 \in 0 .. Len(stack)
         /\ Len(stack) \in 1 .. Len(stack) /\ stack[Len(stack)] = Top /\ Top \in Frame
         /\ Top.k # "turn" => Own(stack, Len(stack) - 1, cur)
         /\ Top.k \in {"turn", "sched"} => Own(stack, IF Top.k = "turn" THEN Len(stack) - 1
                                                   ELSE Len(stack), Top.outer)
         /\ Top.k = "turn" => cur = Top.c
         /\ Top.k = "sched" => cur = Top.outer
         /\ Top.k \notin {"root", "sched"} => Len(stack) > 1
<1> DEFINE n == Len(stack)
<1>1. n \in Nat \ {0} /\ Top \in Frame /\ stack[n] = Top
  BY TopFacts DEF IndInv, StackInv, Top
<1>2. Own(stack, n, cur) /\ Nesting(stack)
  BY DEF OwnOK
<1> HIDE DEF n
<1>3. n - 1 \in Nat /\ (n - 1) + 1 = n /\ n \in 1 .. n /\ n - 1 \in 0 .. n
  BY <1>1
<1>4. Top.k # "turn" => Own(stack, n - 1, cur)
  BY <1>1, <1>2, <1>3, OwnUp
<1>5. /\ Top.k = "turn" => Own(stack, n - 1, Top.outer)
      /\ Top.k = "sched" => Own(stack, n, Top.outer)
      /\ Top.k \notin {"root", "sched"} => n > 1
  BY <1>1, <1>2, <1>3 DEF Nesting, n
<1>6. Top.k = "turn" => cur = Top.c
  <2>1. stack[(n - 1) + 1].k = "turn" => Own(stack, (n - 1) + 1, stack[(n - 1) + 1].c)
    BY <1>3, OwnUp
  <2>2. Top.k = "turn" => Own(stack, n, Top.c)
    BY <1>1, <1>3, <2>1
  <2>3. QED
    BY <1>1, <1>2, <2>2, OwnUnique
<1>7. Top.k = "sched" => cur = Top.outer
  BY <1>1, <1>2, <1>5, OwnUnique
<1>8. QED
  BY <1>1, <1>3, <1>4, <1>5, <1>6, <1>7 DEF n

(* A frame is put on the C stack: whose it is, and on which engine. *)
LEMMA OwnPush ==
  ASSUME IndInv, OwnOK, NEW f \in Frame, stack' = Append(stack, f),
         f.k \in {"turn", "sched"} => f.outer = cur,
         f.k \in {"callback", "command"} => GuestOnTop,
         f.k \notin {"root", "sched"} => stack # <<>>,
         cur' = IF f.k = "turn" THEN f.c ELSE cur,
         engine' = cur'
  PROVE  OwnOK'
<1>1. stack \in Seq(Frame) /\ Nesting(stack) /\ Own(stack, Len(stack), cur)
  BY DEF IndInv, StackInv, OwnOK
<1>2. f.k \in {"callback", "command"} => stack[Len(stack)].k \in GuestKinds
  BY DEF GuestOnTop, Top
<1> DEFINE s == Append(stack, f)
<1>3. /\ Nesting(s) /\ Len(s) = Len(stack) + 1 /\ s # <<>>
      /\ Own(s, Len(stack) + 1, cur')
  BY <1>1, <1>2, NestPush
<1> HIDE DEF s
<1>4. stack' = s
  BY DEF s
<1>5. QED
  BY <1>3, <1>4 DEF OwnOK

(* A loop goes on with f in its place, and then with g on top. *)
LEMMA OwnLoop ==
  ASSUME IndInv, OwnOK, LoopOnTop, NEW f \in Frame, f.k = Top.k,
         f.k = "sched" => f.outer = Top.outer
  PROVE  /\ stack' = Update(f) /\ cur' = cur /\ engine' = cur => OwnOK'
         /\ \A g \in Frame : /\ stack' = Append(Update(f), g)
                             /\ g.k \in {"turn", "sched"} /\ g.outer = cur
                             /\ cur' = (IF g.k = "turn" THEN g.c ELSE cur) /\ engine' = cur'
                             => OwnOK'
<1> DEFINE w == Below
           u == Append(w, f)
<1>1. stack # <<>> /\ Top.k \notin GuestKinds /\ stack \in Seq(Frame) /\ Nesting(stack)
  BY DEF LoopOnTop, IndInv, StackInv, OwnOK
<1>2. /\ Len(stack) - 1 \in Nat /\ Len(stack) - 1 \in 0 .. Len(stack)
      /\ Own(stack, Len(stack) - 1, cur)
      /\ Top.k = "sched" => cur = Top.outer
      /\ Top.k \notin {"root", "sched"} => Len(stack) > 1
  BY <1>1, OwnTop DEF GuestKinds
<1>3. w \in Seq(Frame) /\ Len(w) = Len(stack) - 1
  BY <1>1, BelowFacts
<1>4. Nesting(w) /\ Own(w, Len(w), cur)
  <2>1. Len(w) \in 0 .. Len(w)
    BY <1>2, <1>3
  <2>2. QED
    BY <1>1, <1>2, <1>3, <2>1, NestCut DEF Below
<1>5. f.k \notin {"root", "sched"} => w # <<>>
  BY <1>2, <1>3, EmptySeq
<1>6. f.k \notin {"turn", "root", "callback", "command"}
  BY <1>1 DEF GuestKinds
<1> HIDE DEF w
<1>7. u \in Seq(Frame) /\ Nesting(u) /\ u # <<>> /\ Own(u, Len(u), cur)
  <2>1. /\ Nesting(u) /\ Len(u) = Len(w) + 1 /\ u # <<>> /\ Own(u, Len(w) + 1, cur)
    BY <1>2, <1>3, <1>4, <1>5, <1>6, NestPush
  <2>2. u \in Seq(Frame)
    BY <1>3, AppendProperties
  <2>3. QED
    BY <2>1, <2>2
<1> HIDE DEF u
<1>8. Update(f) = u
  BY DEF Update, u, w
<1>9. stack' = u /\ cur' = cur /\ engine' = cur => OwnOK'
  BY <1>7 DEF OwnOK
<1>10. ASSUME NEW g \in Frame, stack' = Append(u, g), g.k \in {"turn", "sched"}, g.outer = cur,
              cur' = (IF g.k = "turn" THEN g.c ELSE cur), engine' = cur'
       PROVE  OwnOK'
  <2> DEFINE s == Append(u, g)
  <2>1. /\ Nesting(s) /\ Len(s) = Len(u) + 1 /\ s # <<>>
        /\ Own(s, Len(u) + 1, cur')
    BY <1>7, <1>10, NestPush
  <2>2. stack' = s
    BY <1>10
  <2> HIDE DEF s
  <2>3. QED
    BY <1>10, <2>1, <2>2 DEF OwnOK
<1>11. QED
  BY <1>8, <1>9, <1>10

(* The C stack is cut back to height m, and c is the context it is left in. *)
LEMMA OwnCut ==
  ASSUME IndInv, OwnOK, NEW m \in 0 .. Len(stack), NEW c, Own(stack, m, c),
         stack' = SubSeq(stack, 1, m), cur' = c, engine' = IF m = 0 THEN None ELSE c
  PROVE  OwnOK'
<1> DEFINE s == SubSeq(stack, 1, m)
<1>1. stack \in Seq(Frame) /\ Nesting(stack) /\ m \in Nat
  BY LenProperties DEF IndInv, StackInv, OwnOK
<1>2. m \in 0 .. m
  BY <1>1
<1>3. Nesting(s) /\ Len(s) = m /\ Own(s, m, c) /\ s \in Seq(Frame)
  BY <1>1, <1>2, NestCut, CutFacts
<1> HIDE DEF s
<1>4. stack' = s
  BY DEF s
<1>5. s = <<>> <=> m = 0
  BY <1>3, EmptySeq
<1>6. QED
  BY <1>3, <1>4, <1>5 DEF OwnOK

(* A frame that is no turn is popped. *)
LEMMA OwnPop ==
  ASSUME IndInv, OwnOK, stack # <<>>, Top.k # "turn", stack' = Below, cur' = cur,
         engine' = IF Below = <<>> THEN None ELSE cur
  PROVE  OwnOK'
<1>1. Len(stack) - 1 \in 0 .. Len(stack) /\ Own(stack, Len(stack) - 1, cur)
  BY OwnTop
<1>2. Below = <<>> <=> Len(stack) - 1 = 0
  BY BelowFacts, EmptySeq DEF IndInv, StackInv
<1>3. QED
  BY <1>1, <1>2, OwnCut DEF Below

(* Every way of entering and leaving guest code keeps who executes, but for
   call_hook, which runs its callback on the root's engine, and for the Exit
   that leaves a command. *)
LEMMA OwnKept ==
  ASSUME "Hook" \notin Calls, command = 0 \/ "Exit" \notin Calls,
         IndInv, DomainOK, OwnOK, [Next]_vars
  PROVE  OwnOK'
<1>0. stack \in Seq(Frame) /\ Len(stack) \in Nat /\ cur \in Ctx
  BY LenProperties DEF IndInv, StackInv, TableInv
<1>1. CASE UNCHANGED vars \/ Stays
  BY <1>1 DEF vars, Stays, OwnOK
<1>2. CASE Begins
  <2>1. stack = <<>> /\ Len(stack) = 0 /\ cur = 0
    BY <1>2, EmptySeq DEF Begins, OwnOK, Own
  <2>2. PICK f \in Frame : /\ f.k \in {"root", "sched"} /\ (f.k = "sched" => f.outer = cur)
                           /\ stack' = Append(stack, f)
    <3>1. /\ RootFrame \in Frame /\ RootFrame.k = "root"
          /\ SchedFrame(cur) \in Frame /\ SchedFrame(cur).k = "sched"
          /\ SchedFrame(cur).outer = cur
      BY FramesMade
    <3>2. \A g : <<g>> = Append(<<>>, g)
      OBVIOUS
    <3>3. QED
      BY <1>2, <2>1, <3>1, <3>2 DEF Begins
  <2>3. cur' = cur /\ engine' = cur'
    BY <1>2, <2>1 DEF Begins
  <2>4. QED
    BY <2>2, <2>3, OwnPush
<1>3. ASSUME GuestOnTop PROVE stack # <<>> /\ engine = cur
  BY <1>3 DEF GuestOnTop, OwnOK
<1>4. ASSUME NEW f \in Frame, Suspends(f) PROVE OwnOK'
  BY <1>3, <1>4, OwnPush DEF Suspends, GuestKinds
<1>5. ASSUME NEW f \in Frame, NEW e \in Ctx, Nests(f, e) PROVE OwnOK'
  BY <1>3, <1>5, OwnPush, FramesMade DEF Nests
<1>6. CASE Creates
  <2>1. FreeSlot \in Ctx
    BY <1>6, ContextsAssumption DEF Creates, FreeSlot, Ctx, IndInv, TableInv
  <2>2. /\ TurnFrame(FreeSlot, cur) \in Frame /\ TurnFrame(FreeSlot, cur).k = "turn"
        /\ TurnFrame(FreeSlot, cur).c = FreeSlot /\ TurnFrame(FreeSlot, cur).outer = cur
    BY <2>1, FramesMade
  <2>3. /\ stack' = Append(stack, TurnFrame(FreeSlot, cur))
        /\ cur' = FreeSlot /\ engine' = FreeSlot
    BY <1>6 DEF Creates, StartTurn
  <2>4. QED
    BY <1>3, <1>6, <2>2, <2>3, OwnPush DEF Creates
<1>7. CASE LeavesNested
  <2>1. /\ stack # <<>> /\ Top.k \in {"callback", "command"} /\ stack' = Below
        /\ UNCHANGED <<cur, engine>>
    BY <1>7 DEF LeavesNested, LeaveNested
  <2>2. Below # <<>> /\ engine = cur
    BY <2>1, OwnTop, BelowFacts, EmptySeq, <1>0 DEF OwnOK
  <2>3. QED
    BY <2>1, <2>2, OwnPop
<1>8. ASSUME NEW m \in 1 .. Len(stack), LeavesTurn(m) PROVE OwnOK'
  <2>1. /\ stack[m].k = "turn" /\ stack' = SubSeq(stack, 1, m - 1)
        /\ cur' = stack[m].outer /\ engine' = stack[m].outer
    BY <1>8 DEF LeavesTurn, EndTurn
  <2>2. m > 1 /\ Own(stack, m - 1, stack[m].outer)
    BY <2>1 DEF OwnOK, Nesting
  <2>3. m - 1 \in 0 .. Len(stack) /\ m - 1 # 0
    BY <1>0, <2>2
  <2>4. QED
    BY <2>1, <2>2, <2>3, OwnCut
<1>9. CASE ExitsCommand
  BY <1>9 DEF ExitsCommand
<1>10. CASE LeavesRoot
  <2>1. stack # <<>> /\ Top.k = "root" /\ stack' = Below /\ cur' = cur /\ engine' = None
    BY <1>10 DEF LeavesRoot, Is
  <2>2. Below = <<>>
    BY <1>10, RootAlone DEF LeavesRoot
  <2>3. QED
    BY <2>1, <2>2, OwnPop
<1>11. CASE LoopFails
  <2>1. stack # <<>> /\ Top.k # "turn" /\ engine = cur
    BY <1>11 DEF LoopFails, LoopOnTop, GuestKinds, OwnOK
  <2>2. QED
    BY <1>11, <2>1, OwnPop DEF LoopFails
<1>12. CASE PassEnds
  <2>1. stack # <<>> /\ Top.k # "turn" /\ Below = <<>>
    BY <1>0, <1>12, BelowFacts, EmptySeq DEF PassEnds, Is
  <2>2. QED
    BY <1>12, <2>1, OwnPop DEF PassEnds
<1>13. CASE LoopStep
  <2>1. /\ LoopOnTop
        /\ \/ LoopEnds
           \/ \E f \in Frame : /\ f.k = Top.k /\ (f.k = "sched" => f.outer = Top.outer)
                               /\ LoopGoes(f) \/ LoopPasses(f) \/ LoopTurns(f)
    BY <1>13, LoopMoves DEF LoopStep
  <2>2. stack # <<>> /\ engine = cur /\ Top.k \notin GuestKinds
    BY <2>1 DEF LoopOnTop, OwnOK
  <2>3. CASE LoopEnds
    <3>1. Len(stack) > 1
      BY <2>2, <2>3, OwnTop DEF LoopEnds, Is, GuestKinds
    <3>2. Below # <<>>
      BY <1>0, <2>2, <3>1, BelowFacts, EmptySeq
    <3>3. QED
      BY <2>2, <2>3, <3>2, OwnPop DEF LoopEnds, GuestKinds
  <2>4. ASSUME NEW f \in Frame, f.k = Top.k, f.k = "sched" => f.outer = Top.outer,
               LoopGoes(f) \/ LoopPasses(f) \/ LoopTurns(f)
        PROVE  OwnOK'
    <3>1. CASE LoopGoes(f)
      <4>1. engine' = cur
        BY <2>2, <3>1, OwnTop DEF LoopGoes, Is
      <4>2. QED
        BY <2>1, <2>4, <3>1, <4>1, OwnLoop DEF LoopGoes
    <3>2. CASE LoopPasses(f)
      BY <2>1, <2>2, <2>4, <3>2, OwnLoop, FramesMade DEF LoopPasses
    <3>3. CASE LoopTurns(f)
      <4>1. PICK i \in Ctx : /\ stack' = Append(Update(f), TurnFrame(i, cur))
                             /\ cur' = i /\ engine' = i
        BY <3>3 DEF LoopTurns, StartTurn
      <4>2. QED
        BY <2>1, <2>4, <4>1, OwnLoop, FramesMade
    <3>4. QED
      BY <2>4, <3>1, <3>2, <3>3
  <2>5. QED
    BY <2>1, <2>3, <2>4
<1>14. QED
  BY <1>1, <1>2, <1>4, <1>5, <1>6, <1>7, <1>8, <1>9, <1>10, <1>11, <1>12, <1>13, StepShapes
     DEF Shapes

(* command_unwind is set by RunCommand only. *)
CommandOK == "Command" \in Calls \/ command = 0

(* No other step sets it. *)
LEMMA CommandKept == CommandOK /\ [Next]_vars => CommandOK'
<1> SUFFICES ASSUME CommandOK, [Next]_vars, "Command" \notin Calls PROVE command' = 0
  BY DEF CommandOK
<1>1. command = 0
  BY DEF CommandOK
<1>2. CASE UNCHANGED vars
  BY <1>1, <1>2 DEF vars
<1>3. CASE QuantumYield \/ \E want \in SUBSET Signals \ {{}} : Wait(want)
  BY <1>1, <1>3 DEF QuantumYield, Wait, Park, LeaveRoot, LeaveNested
<1>4. CASE Compute \/ Forbid \/ Permit \/ \E s \in Signals, i \in Ctx : Signal(i, s)
  BY <1>1, <1>4 DEF Compute, Forbid, Permit, Signal, QuietCall
<1>5. CASE Callback \/ CallHook \/ RunCommand \/ Delay \/ Reschedule \/ Create
  BY <1>1, <1>5 DEF Callback, CallHook, RunCommand, Call, Delay, Reschedule, Create
<1>6. CASE Return \/ PassError
  BY <1>1, <1>6 DEF Return, PassError, LeaveNested, LeaveRoot
<1>7. CASE Fault \/ Exit \/ (\E i \in Ctx : RemTask(i)) \/ PollKill
  BY <1>1, <1>7 DEF Fault, Exit, RemTask, PollKill
<1>8. CASE \/ SchedVisit \/ SchedDone \/ DelayStep \/ AfterlifeEnd \/ TakeSignals
           \/ SweepVisit \/ SweepOn \/ SweepEnd \/ Idle \/ Contain
  BY <1>1, <1>8 DEF SchedVisit, SchedDone, DelayStep, AfterlifeEnd, TakeSignals, SweepVisit,
                   SweepOn, SweepEnd, Idle, Contain, Control
<1>9. CASE HostQuantum \/ AfterlifeQuantum \/ Kill \/ \E i \in Ctx : NativeEvent(i)
  BY <1>1, <1>9 DEF HostQuantum, AfterlifeQuantum, Kill, NativeEvent
<1>10. QED
  BY <1>2, <1>3, <1>4, <1>5, <1>6, <1>7, <1>8, <1>9 DEF Next, Thread, GuestCall, Loop

(* What is left out: a callback run by call_hook stays on the root's engine,
   and an Exit that leaves a command leaves cur_ctx as it is, whoever calls. *)
Unwound == "Hook" \notin Calls /\ ("Command" \notin Calls \/ "Exit" \notin Calls)

(* Hence the innermost turn's context executes, throughout. *)
LEMMA OwnInvariant ==
  ASSUME Unwound
  PROVE  Spec => [](IndInv /\ DomainOK /\ OwnOK)
<1>1. Init => OwnOK /\ CommandOK
  BY OwnInit DEF CommandOK, Init
<1>2. IndInv /\ DomainOK /\ OwnOK /\ CommandOK /\ [Next]_vars => OwnOK' /\ CommandOK'
  BY OwnKept, CommandKept DEF Unwound, CommandOK
<1>3. QED
  BY <1>1, <1>2, DomainInvariant, PTL DEF Spec

(* The operator of the property is the context of the innermost turn. *)
LEMMA OwnerIs ==
  ASSUME NEW n \in Nat, NEW c, Own(stack, n, c)
  PROVE  OwnerAt(n) = c
<1> DEFINE turns == {m \in 1 .. n : stack[m].k = "turn"}
           top == CHOOSE m \in turns : \A o \in turns : o <= m
<1>1. CASE c = 0 /\ \A m \in 1 .. n : stack[m].k # "turn"
  <2>1. turns = {}
    BY <1>1
  <2>2. QED
    BY <1>1, <2>1 DEF OwnerAt
<1>2. ASSUME NEW m \in 1 .. n, stack[m].k = "turn", stack[m].c = c,
             \A o \in m + 1 .. n : stack[o].k # "turn"
      PROVE  OwnerAt(n) = c
  <2>1. m \in turns /\ \A o \in turns : o <= m
    <3>1. \A o \in 1 .. n : o \in m + 1 .. n \/ o <= m
      OBVIOUS
    <3>2. QED
      BY <1>2, <3>1
  <2>2. top \in turns /\ \A o \in turns : o <= top
    BY <2>1
  <2>3. top = m
    <3>1. m <= top /\ top <= m /\ top \in Nat /\ m \in Nat
      BY <2>1, <2>2
    <3> HIDE DEF top, turns
    <3>2. QED
      BY <3>1
  <2>4. OwnerAt(n) = stack[top].c
    BY <2>1 DEF OwnerAt
  <2>5. QED
    BY <1>2, <2>3, <2>4
<1>3. QED
  BY <1>1, <1>2 DEF Own

(* Guest code runs as the context whose turn is innermost and on that context's
   own engine, whichever turns, callbacks, commands and errors came before, in
   a program that makes no call_hook and does not leave its commands by Exit. *)
THEOREM RunsAsItself ==
  ASSUME Unwound
  PROVE  Spec => []ExecutesAsItself
<1>1. IndInv /\ OwnOK => ExecutesAsItself
  <2> SUFFICES ASSUME IndInv, OwnOK, GuestRuns
               PROVE  cur = OwnerAt(Len(stack)) /\ engine = cur
    BY DEF ExecutesAsItself
  <2>1. Len(stack) \in Nat /\ stack # <<>>
    BY LenProperties DEF IndInv, StackInv, GuestRuns
  <2>2. QED
    BY <2>1, OwnerIs DEF OwnOK
<1>2. QED
  BY <1>1, OwnInvariant, PTL

-----------------------------------------------------------------------------
(* The flags of the table and the continuations in the engines.              *)
HasTurn(st, i) == \E m \in 1 .. Len(st) : st[m].k = "turn" /\ st[m].c = i

(* The context is passing an error on: its guest code is not resumed. *)
Passing(i) == err /\ cur = i /\ GuestOnTop

FlagOK ==
  /\ \A i \in Ctx : ctx[i].canUnwind <=> HasTurn(stack, i)
  /\ \A i \in 1 .. nctx - 1 :
        /\ ctx[i].onStack <=> HasTurn(stack, i)
        /\ ctx[i].blocked /\ ctx[i].onStack => Passing(i)
        /\ ctx[i].onStack => eng[i].resume = None \/ Passing(i)
        /\ ~ctx[i].onStack /\ ~ctx[i].finished /\ i \notin faulted => eng[i].resume = i

(* No context has a turn, a flag or a continuation when the run begins. *)
LEMMA FlagInit == Init => FlagOK
<1> SUFFICES ASSUME Init PROVE FlagOK
  OBVIOUS
<1>1. stack = <<>> /\ Len(stack) = 0 /\ nctx = 0
  BY EmptySeq DEF Init
<1>2. \A i : ~HasTurn(stack, i)
  BY <1>1 DEF HasTurn
<1>3. \A i \in Ctx : ~ctx[i].canUnwind
  BY DEF Init, FreshCtx
<1>4. QED
  BY <1>1, <1>2, <1>3 DEF FlagOK

(* A turn on the C stack is a turn of whoever it names. *)
LEMMA TurnsPush ==
  ASSUME NEW st \in Seq(Frame), NEW f \in Frame, NEW i
  PROVE  HasTurn(Append(st, f), i) <=> HasTurn(st, i) \/ (f.k = "turn" /\ f.c = i)
<1> DEFINE s == Append(st, f)
<1>1. /\ Len(st) \in Nat /\ Len(s) = Len(st) + 1 /\ s[Len(st) + 1] = f
      /\ \A k \in 1 .. Len(st) : s[k] = st[k]
  BY LenProperties, AppendProperties
<1> HIDE DEF s
<1>2. \A k \in 1 .. Len(s) : k = Len(st) + 1 \/ k \in 1 .. Len(st)
  BY <1>1
<1>3. Len(st) + 1 \in 1 .. Len(s) /\ \A k \in 1 .. Len(st) : k \in 1 .. Len(s)
  BY <1>1
<1>4. HasTurn(s, i) <=> HasTurn(st, i) \/ (f.k = "turn" /\ f.c = i)
  BY <1>1, <1>2, <1>3 DEF HasTurn
<1>5. QED
  BY <1>4 DEF s

(* Cutting a C stack back to height m leaves the turns up to there. *)
LEMMA TurnsCut ==
  ASSUME NEW st \in Seq(Frame), NEW m \in 0 .. Len(st), NEW i
  PROVE  HasTurn(SubSeq(st, 1, m), i) <=> \E k \in 1 .. m : st[k].k = "turn" /\ st[k].c = i
<1> DEFINE s == SubSeq(st, 1, m)
<1>1. Len(s) = m /\ \A k \in 1 .. m : s[k] = st[k]
  BY CutFacts
<1> HIDE DEF s
<1>2. HasTurn(s, i) <=> \E k \in 1 .. m : st[k].k = "turn" /\ st[k].c = i
  BY <1>1 DEF HasTurn
<1>3. QED
  BY <1>2 DEF s

(* Popping a frame that is no turn, or replacing it, keeps the turns. *)
LEMMA TurnsBelow ==
  ASSUME stack \in Seq(Frame), stack # <<>>, Top.k # "turn"
  PROVE  /\ \A i : HasTurn(Below, i) <=> HasTurn(stack, i)
         /\ \A f \in Frame : \A i : f.k # "turn" => (HasTurn(Update(f), i) <=> HasTurn(stack, i))
<1> DEFINE n == Len(stack)
<1>1. n \in Nat \ {0} /\ stack[n] = Top
  BY TopFacts DEF Top
<1>2. Below \in Seq(Frame) /\ Below = SubSeq(stack, 1, n - 1)
  BY BelowFacts DEF Below
<1>3. \A i : HasTurn(stack, i) <=> \E k \in 1 .. n : stack[k].k = "turn" /\ stack[k].c = i
  BY DEF HasTurn
<1>4. n - 1 \in 0 .. n
  BY <1>1
<1>5. \A i : HasTurn(Below, i) <=> \E k \in 1 .. n - 1 : stack[k].k = "turn" /\ stack[k].c = i
  BY <1>2, <1>4, TurnsCut
<1> HIDE DEF n
<1>6. \A k \in 1 .. n : k = n \/ k \in 1 .. n - 1
  BY <1>1
<1>7. \A k \in 1 .. n - 1 : k \in 1 .. n
  BY <1>1
<1>8. \A i : HasTurn(Below, i) <=> HasTurn(stack, i)
  BY <1>1, <1>3, <1>5, <1>6, <1>7
<1>9. QED
  BY <1>2, <1>8, TurnsPush DEF Update

(* A step that pushes or pops no turn: each context keeps its flags and its
   continuation, or is left passing an error on, or begins a nested run. *)
LEMMA FlagsStay ==
  ASSUME FlagOK, nctx' = nctx, faulted' = faulted,
         \A i \in Ctx : HasTurn(stack', i) <=> HasTurn(stack, i),
         \A i \in Ctx : ctx'[i].canUnwind = ctx[i].canUnwind,
         \A i \in 1 .. nctx - 1 : i \in Ctx,
         \A i \in 1 .. nctx - 1 :
            /\ ctx'[i].onStack = ctx[i].onStack
            /\ \/ /\ ctx'[i].blocked => ctx[i].blocked
                  /\ ctx[i].finished => ctx'[i].finished
                  /\ eng'[i].resume = eng[i].resume
                  /\ Passing(i) => Passing(i)'
               \/ HasTurn(stack, i) /\ Passing(i)'
               \/ /\ HasTurn(stack, i) /\ ~err
                  /\ ctx'[i].blocked => ctx[i].blocked
                  /\ eng'[i].resume = None
  PROVE  FlagOK'
<1>1. \A i \in Ctx : ctx'[i].canUnwind <=> HasTurn(stack', i)
  BY DEF FlagOK
<1>2. ASSUME NEW i \in 1 .. nctx - 1
      PROVE  /\ ctx'[i].onStack <=> HasTurn(stack', i)
             /\ ctx'[i].blocked /\ ctx'[i].onStack => Passing(i)'
             /\ ctx'[i].onStack => eng'[i].resume = None \/ Passing(i)'
             /\ ~ctx'[i].onStack /\ ~ctx'[i].finished /\ i \notin faulted' => eng'[i].resume = i
  <2>1. /\ ctx[i].onStack <=> HasTurn(stack, i)
        /\ ctx[i].blocked /\ ctx[i].onStack => Passing(i)
        /\ ctx[i].onStack => eng[i].resume = None \/ Passing(i)
        /\ ~ctx[i].onStack /\ ~ctx[i].finished /\ i \notin faulted => eng[i].resume = i
    BY DEF FlagOK
  <2>2. HasTurn(stack', i) <=> HasTurn(stack, i)
    OBVIOUS
  <2>3. Passing(i) => err
    BY DEF Passing
  <2>4. CASE /\ ctx'[i].blocked => ctx[i].blocked
             /\ ctx[i].finished => ctx'[i].finished
             /\ eng'[i].resume = eng[i].resume
             /\ Passing(i) => Passing(i)'
    BY <2>1, <2>2, <2>4
  <2>5. CASE HasTurn(stack, i) /\ Passing(i)'
    BY <2>1, <2>2, <2>5
  <2>6. CASE /\ HasTurn(stack, i) /\ ~err
             /\ ctx'[i].blocked => ctx[i].blocked
             /\ eng'[i].resume = None
    BY <2>1, <2>2, <2>3, <2>6
  <2>7. QED
    BY <2>4, <2>5, <2>6
<1>3. QED
  BY <1>1, <1>2 DEF FlagOK

(* A context other than the root that executes has a turn. *)
LEMMA CurHasTurn ==
  ASSUME OwnOK, cur # 0
  PROVE  HasTurn(stack, cur)
BY DEF OwnOK, Own, HasTurn

(* The children are contexts of the table, which is typed. *)
LEMMA ChildFacts ==
  ASSUME IndInv
  PROVE  /\ \A i \in 1 .. nctx - 1 : i \in Ctx /\ i # 0
         /\ stack \in Seq(Frame) /\ ctx \in [Ctx -> ContextRecord]
         /\ eng \in [Ctx -> EngineRecord] /\ cur \in Ctx /\ nctx \in Nat
BY ContextsAssumption DEF Ctx, IndInv, TableInv, StackInv, RestOK

(* A turn begins, for a context without one. *)
LEMMA FlagsTurn ==
  ASSUME IndInv, FlagOK, ~err, NEW i \in Ctx, NEW st \in Seq(Frame), NEW sigs,
         \A j \in Ctx : HasTurn(st, j) <=> HasTurn(stack, j),
         StartTurn(i, st, sigs), faulted' = faulted,
         nctx' = nctx \/ (nctx' = i + 1 /\ i = FreeSlot)
  PROVE  FlagOK'
<1>1. /\ \A j \in 1 .. nctx - 1 : j \in Ctx /\ j # 0
      /\ ctx \in [Ctx -> ContextRecord] /\ eng \in [Ctx -> EngineRecord] /\ cur \in Ctx
      /\ nctx \in Nat
  BY ChildFacts
<1>2. TurnFrame(i, cur) \in Frame /\ TurnFrame(i, cur).k = "turn" /\ TurnFrame(i, cur).c = i
  BY FramesMade
<1>3. \A j \in Ctx : HasTurn(stack', j) <=> HasTurn(stack, j) \/ j = i
  <2>1. stack' = Append(st, TurnFrame(i, cur))
    BY DEF StartTurn
  <2>2. QED
    BY <1>2, <2>1, TurnsPush
<1>4. /\ ctx'[i].onStack /\ ctx'[i].canUnwind /\ ~ctx'[i].blocked
      /\ \A j \in Ctx : j # i => ctx'[j] = ctx[j]
  <2>1. ctx[i] \in ContextRecord
    BY <1>1
  <2>2. ctx'[i] = [ctx[i] EXCEPT !.started = TRUE, !.blocked = FALSE,
                                 !.onStack = TRUE, !.canUnwind = TRUE]
    BY <1>1 DEF StartTurn
  <2>3. ctx'[i].onStack /\ ctx'[i].canUnwind /\ ~ctx'[i].blocked
    BY <2>1, <2>2 DEF ContextRecord
  <2>4. QED
    BY <1>1, <2>3 DEF StartTurn
<1>5. eng'[i].resume = None /\ \A j \in Ctx : j # i => eng'[j].resume = eng[j].resume
  <2> DEFINE es == SetPoll(eng, i, "context")
  <2>1. es \in [Ctx -> EngineRecord] /\ \A j \in Ctx : es[j].resume = eng[j].resume
    BY <1>1, SetPollType, ResumeFacts
  <2> HIDE DEF es
  <2>2. eng' = [es EXCEPT ![i].resume = None]
    BY DEF StartTurn, es
  <2>3. es[i] \in EngineRecord /\ eng'[i] = [es[i] EXCEPT !.resume = None]
    BY <2>1, <2>2
  <2>4. \A j \in Ctx : j # i => eng'[j] = es[j]
    BY <2>1, <2>2
  <2>5. QED
    BY <2>1, <2>3, <2>4 DEF EngineRecord
<1>6. \A j \in 1 .. nctx' - 1 : j \in Ctx /\ (j # i => j \in 1 .. nctx - 1)
  BY <1>1 DEF FreeSlot
<1>7. \A j \in Ctx : ctx'[j].canUnwind <=> HasTurn(stack', j)
  BY <1>3, <1>4 DEF FlagOK
<1>8. ASSUME NEW j \in 1 .. nctx' - 1
      PROVE  /\ ctx'[j].onStack <=> HasTurn(stack', j)
             /\ ctx'[j].blocked /\ ctx'[j].onStack => Passing(j)'
             /\ ctx'[j].onStack => eng'[j].resume = None \/ Passing(j)'
             /\ ~ctx'[j].onStack /\ ~ctx'[j].finished /\ j \notin faulted' => eng'[j].resume = j
  <2>1. CASE j = i
    BY <1>3, <1>4, <1>5, <2>1
  <2>2. CASE j # i
    <3>1. /\ ctx[j].onStack <=> HasTurn(stack, j)
          /\ ctx[j].blocked /\ ctx[j].onStack => Passing(j)
          /\ ctx[j].onStack => eng[j].resume = None \/ Passing(j)
          /\ ~ctx[j].onStack /\ ~ctx[j].finished /\ j \notin faulted => eng[j].resume = j
      BY <1>6, <2>2 DEF FlagOK
    <3>2. ~Passing(j)
      BY DEF Passing
    <3>3. j \in Ctx /\ ctx'[j] = ctx[j] /\ eng'[j].resume = eng[j].resume
      BY <1>4, <1>5, <1>6, <2>2
    <3>4. QED
      BY <1>3, <2>2, <3>1, <3>2, <3>3
  <2>3. QED
    BY <2>1, <2>2
<1>9. QED
  BY <1>7, <1>8 DEF FlagOK

(* A turn ends: that of the context that executes. *)
LEMMA FlagsTurnEnds ==
  ASSUME IndInv, OwnOK, FlagOK, NEW m \in 1 .. Len(stack), LeavesTurn(m)
  PROVE  FlagOK'
<1> DEFINE c == stack[m].c
<1>1. /\ \A j \in 1 .. nctx - 1 : j \in Ctx /\ j # 0
      /\ ctx \in [Ctx -> ContextRecord] /\ eng \in [Ctx -> EngineRecord] /\ cur \in Ctx
      /\ nctx \in Nat /\ stack \in Seq(Frame) /\ Len(stack) \in Nat
  BY ChildFacts, LenProperties
<1>2. stack[m].k = "turn" /\ c \in Ctx
  <2>1. stack[m] \in Frame /\ stack[m].k = "turn"
    BY <1>1, ElementOfSeq DEF LeavesTurn
  <2>2. QED
    BY <2>1, FrameShapes DEF TurnFrames
<1>3. \A k, l \in 1 .. Len(stack) :
         stack[k].k = "turn" /\ stack[l].k = "turn" /\ stack[k].c = stack[l].c => k = l
  BY DEF IndInv, StackInv
<1>4. cur = c /\ \A o \in m + 1 .. Len(stack) : stack[o].k # "turn"
  <2>1. CASE m = Len(stack)
    <3>1. stack # <<>> /\ Top.k = "turn" /\ Top.c = c
      BY <1>2, <2>1, EmptySeq DEF Top
    <3>2. QED
      BY <2>1, <3>1, OwnTop
  <2>2. CASE c = cur
    <3>1. ~(\A k \in 1 .. Len(stack) : stack[k].k # "turn")
      BY <1>2
    <3>2. PICK t \in 1 .. Len(stack) : /\ stack[t].k = "turn" /\ stack[t].c = cur
                                       /\ \A o \in t + 1 .. Len(stack) : stack[o].k # "turn"
      BY <3>1 DEF OwnOK, Own
    <3>3. stack[t].c = stack[m].c
      BY <2>2, <3>2
    <3> HIDE DEF c
    <3>4. t = m
      BY <1>2, <1>3, <3>2, <3>3
    <3>5. QED
      BY <2>2, <3>2, <3>4
  <2>3. QED
    BY <2>1, <2>2 DEF LeavesTurn
<1>5. \A j \in Ctx : HasTurn(stack', j) <=> HasTurn(stack, j) /\ j # c
  <2>1. stack' = SubSeq(stack, 1, m - 1) /\ m - 1 \in 0 .. Len(stack)
    BY <1>1 DEF LeavesTurn, EndTurn
  <2>2. ASSUME NEW j
        PROVE  HasTurn(stack', j) <=> \E k \in 1 .. m - 1 : stack[k].k = "turn" /\ stack[k].c = j
    <3>1. HasTurn(SubSeq(stack, 1, m - 1), j) <=>
             \E k \in 1 .. m - 1 : stack[k].k = "turn" /\ stack[k].c = j
      BY <1>1, <2>1, TurnsCut
    <3>2. QED
      BY <2>1, <3>1
  <2>3. \A k \in 1 .. Len(stack) : k \in 1 .. m - 1 \/ k = m \/ k \in m + 1 .. Len(stack)
    BY <1>1
  <2>4. \A k \in 1 .. m - 1 : k \in 1 .. Len(stack) /\ k # m
    BY <1>1
  <2>5. ASSUME NEW j \in Ctx, HasTurn(stack', j) PROVE HasTurn(stack, j) /\ j # c
    <3>1. PICK k \in 1 .. m - 1 : stack[k].k = "turn" /\ stack[k].c = j
      BY <2>2, <2>5
    <3>2. k \in 1 .. Len(stack) /\ k # m
      BY <2>4
    <3>3. QED
      BY <1>2, <1>3, <3>1, <3>2 DEF HasTurn
  <2>6. ASSUME NEW j \in Ctx, HasTurn(stack, j), j # c PROVE HasTurn(stack', j)
    <3>1. PICK k \in 1 .. Len(stack) : stack[k].k = "turn" /\ stack[k].c = j
      BY <2>6 DEF HasTurn
    <3>2. k \in 1 .. m - 1
      BY <1>4, <2>3, <2>6, <3>1
    <3>3. QED
      BY <2>2, <3>1, <3>2
  <2>7. QED
    BY <2>5, <2>6
<1>6. PICK es \in {eng, Recorded}, flags \in ContextRecord :
         /\ EndTurn(SubSeq(stack, 1, m - 1), stack[m], es, flags)
         /\ \/ es = Recorded /\ m = Len(stack) /\ ~err
            \/ es = eng /\ ~err /\ flags.finished
            \/ es = eng /\ err /\ m = Len(stack) /\ c \in faulted'
  BY DEF LeavesTurn
<1>7. /\ ~ctx'[c].onStack /\ ~ctx'[c].canUnwind /\ ctx'[c].finished = flags.finished
      /\ \A j \in Ctx : j # c => ctx'[j] = ctx[j]
  <2>1. ctx' = [ctx EXCEPT ![c] = OffStack(flags)]
    BY <1>6 DEF EndTurn
  <2>2. ~OffStack(flags).onStack /\ ~OffStack(flags).canUnwind
        /\ OffStack(flags).finished = flags.finished
    BY DEF OffStack, ContextRecord
  <2> HIDE DEF c
  <2>3. QED
    BY <1>1, <1>2, <2>1, <2>2
<1>8. /\ \A j \in Ctx : j # c => eng'[j].resume = eng[j].resume
      /\ es = Recorded /\ m = Len(stack) => eng'[c].resume = c
  <2>1. \A j \in Ctx : eng'[j].resume = es[j].resume
    <3>1. stack # <<>>
      BY <1>1, EmptySeq
    <3>2. es \in [Ctx -> EngineRecord]
      BY <1>1, <1>6, <3>1, RecordedType
    <3>3. eng' = SetPoll(es, stack[m].outer, "quantum")
      BY <1>6 DEF EndTurn
    <3>4. QED
      BY <3>2, <3>3, ResumeFacts
  <2>2. CASE es = eng /\ es # Recorded
    BY <2>1, <2>2
  <2>3. CASE es = Recorded
    <3>1. \A j \in Ctx : Polled[j].resume = eng[j].resume
      BY ResumeFacts
    <3>2. Polled \in [Ctx -> EngineRecord]
      BY CountdownTypes
    <3>3. engine = c
      BY <1>1, <1>4, EmptySeq DEF OwnOK
    <3>4. \A j \in Ctx : j # c => Recorded[j] = Polled[j]
      BY <3>2, <3>3 DEF Recorded
    <3>5. m = Len(stack) => Recorded[c].resume = c
      <4>1. m = Len(stack) => Top.k = "turn" /\ Top.c = c
        BY <1>2 DEF Top
      <4>2. m = Len(stack) => Recorded = [Polled EXCEPT ![c].resume = c]
        BY <3>3, <4>1 DEF Recorded
      <4>3. Polled[c] \in EngineRecord
        BY <1>2, <3>2
      <4> HIDE DEF c
      <4>4. m = Len(stack) => Recorded[c] = [Polled[c] EXCEPT !.resume = c]
        BY <1>2, <3>2, <4>2
      <4>5. QED
        BY <4>3, <4>4 DEF EngineRecord
    <3>6. QED
      BY <1>2, <2>1, <2>3, <3>1, <3>4, <3>5
  <2>4. QED
    BY <1>6, <2>2, <2>3
<1>9. nctx' = nctx /\ faulted \subseteq faulted'
  BY DEF LeavesTurn
<1>10. \A j \in Ctx : ctx'[j].canUnwind <=> HasTurn(stack', j)
  BY <1>2, <1>5, <1>7 DEF FlagOK
<1>11. ASSUME NEW j \in 1 .. nctx - 1
       PROVE  /\ ctx'[j].onStack <=> HasTurn(stack', j)
              /\ ctx'[j].blocked /\ ctx'[j].onStack => Passing(j)'
              /\ ctx'[j].onStack => eng'[j].resume = None \/ Passing(j)'
              /\ ~ctx'[j].onStack /\ ~ctx'[j].finished /\ j \notin faulted' => eng'[j].resume = j
  <2>0. j \in Ctx
    BY <1>1
  <2>1. CASE j = c
    <3>1. (es = Recorded /\ m = Len(stack)) \/ flags.finished \/ c \in faulted'
      BY <1>6
    <3>2. ~ctx'[j].onStack /\ ~HasTurn(stack', j)
      BY <1>2, <1>5, <1>7, <2>1
    <3>3. ~ctx'[j].finished /\ j \notin faulted' => eng'[j].resume = j
      BY <1>7, <1>8, <2>1, <3>1
    <3>4. QED
      BY <3>2, <3>3
  <2>2. CASE j # c
    <3>1. /\ ctx[j].onStack <=> HasTurn(stack, j)
          /\ ctx[j].blocked /\ ctx[j].onStack => Passing(j)
          /\ ctx[j].onStack => eng[j].resume = None \/ Passing(j)
          /\ ~ctx[j].onStack /\ ~ctx[j].finished /\ j \notin faulted => eng[j].resume = j
      BY DEF FlagOK
    <3>2. ~Passing(j)
      BY <1>4, <2>2 DEF Passing
    <3>3. ctx'[j] = ctx[j] /\ eng'[j].resume = eng[j].resume
      BY <1>7, <1>8, <2>0, <2>2
    <3>4. QED
      BY <1>5, <1>9, <2>0, <2>2, <3>1, <3>2, <3>3
  <2>3. QED
    BY <2>1, <2>2
<1>12. QED
  BY <1>9, <1>10, <1>11 DEF FlagOK

(* A callback or a command ends: the context under it goes on, or passes the
   error on. *)
LEMMA FlagsNestedEnds ==
  ASSUME IndInv, OwnOK, FlagOK, LeavesNested
  PROVE  FlagOK'
<1>1. /\ \A i \in 1 .. nctx - 1 : i \in Ctx /\ i # 0
      /\ stack \in Seq(Frame) /\ ctx \in [Ctx -> ContextRecord]
      /\ eng \in [Ctx -> EngineRecord] /\ cur \in Ctx /\ nctx \in Nat
  BY ChildFacts
<1>2. stack # <<>> /\ Top.k \in {"callback", "command"} /\ stack' = Below
      /\ nctx' = nctx /\ faulted' = faulted /\ cur' = cur
  BY DEF LeavesNested, LeaveNested
<1>3. \A i \in Ctx : HasTurn(stack', i) <=> HasTurn(stack, i)
  BY <1>1, <1>2, TurnsBelow
<1>4. GuestOnTop'
  <2>1. /\ Len(stack) \in Nat \ {0} /\ Len(stack) \in 1 .. Len(stack)
        /\ stack[Len(stack)] = Top /\ Len(stack) > 1
    BY <1>2, OwnTop
  <2>2. stack[Len(stack) - 1].k \in GuestKinds
    BY <1>2, <2>1 DEF OwnOK, Nesting
  <2>3. Below # <<>> /\ Below[Len(Below)] = stack[Len(stack) - 1]
    BY <1>1, <1>2, <2>1, BelowFacts, EmptySeq
  <2>4. QED
    BY <1>2, <2>2, <2>3 DEF GuestOnTop, Top
<1>5. CASE LeaveNested(eng) /\ UNCHANGED <<ctx, err>>
  <2>1. \A i \in Ctx : eng'[i].resume = eng[i].resume
    BY <1>1, <1>5, ResumeFacts DEF LeaveNested, RestoreGuestPoll
  <2>2. \A i : Passing(i) => Passing(i)'
    BY <1>2, <1>4, <1>5 DEF Passing
  <2>3. QED
    BY <1>1, <1>2, <1>3, <1>5, <2>1, <2>2, FlagsStay
<1>6. ASSUME ~err, err', LeaveNested(Recorded),
             \A i \in Ctx : i # cur => ctx'[i] = ctx[i],
             \A i \in Ctx : /\ ctx'[i].onStack = ctx[i].onStack
                            /\ ctx'[i].canUnwind = ctx[i].canUnwind
                            /\ ctx'[i].finished = ctx[i].finished
      PROVE  FlagOK'
  <2>1. \A i : i = cur => Passing(i)'
    BY <1>2, <1>4, <1>6 DEF Passing
  <2>2. \A i \in Ctx : i # cur => eng'[i].resume = eng[i].resume
    <3>1. Polled \in [Ctx -> EngineRecord] /\ Recorded \in [Ctx -> EngineRecord]
      BY <1>2, CountdownTypes, RecordedType
    <3>2. \A i \in Ctx : eng'[i].resume = Recorded[i].resume
      BY <1>6, <3>1, ResumeFacts DEF LeaveNested, RestoreGuestPoll
    <3>3. engine = cur
      BY <1>2 DEF OwnOK
    <3>4. \A i \in Ctx : i # cur => Recorded[i] = Polled[i]
      BY <3>1, <3>3 DEF Recorded
    <3>5. \A i \in Ctx : Polled[i].resume = eng[i].resume
      BY ResumeFacts
    <3>6. QED
      BY <3>2, <3>4, <3>5
  <2>3. \A i : ~Passing(i)
    BY <1>6 DEF Passing
  <2>4. cur # 0 => HasTurn(stack, cur)
    BY CurHasTurn
  <2>5. ASSUME NEW i \in 1 .. nctx - 1
        PROVE  /\ ctx'[i].onStack = ctx[i].onStack
               /\ \/ /\ ctx'[i].blocked => ctx[i].blocked
                     /\ ctx[i].finished => ctx'[i].finished
                     /\ eng'[i].resume = eng[i].resume
                     /\ Passing(i) => Passing(i)'
                  \/ HasTurn(stack, i) /\ Passing(i)'
                  \/ /\ HasTurn(stack, i) /\ ~err
                     /\ ctx'[i].blocked => ctx[i].blocked
                     /\ eng'[i].resume = None
    <3>1. i \in Ctx /\ i # 0
      BY <1>1
    <3>2. CASE i = cur
      BY <1>6, <2>1, <2>4, <3>1, <3>2
    <3>3. CASE i # cur
      BY <1>6, <2>2, <2>3, <3>1, <3>3
    <3>4. QED
      BY <3>2, <3>3
  <2>6. QED
    BY <1>1, <1>2, <1>3, <1>6, <2>5, FlagsStay
<1>7. QED
  BY <1>5, <1>6 DEF LeavesNested

(* A loop takes a step. *)
LEMMA FlagsLoop ==
  ASSUME IndInv, FlagOK, LoopStep
  PROVE  FlagOK'
<1>1. /\ \A i \in 1 .. nctx - 1 : i \in Ctx /\ i # 0
      /\ stack \in Seq(Frame) /\ nctx \in Nat
  BY ChildFacts
<1>2. /\ LoopOnTop /\ ~err /\ nctx' = nctx /\ faulted' = faulted
      /\ \/ LoopEnds
         \/ \E f \in Frame : /\ f.k = Top.k /\ (f.k = "sched" => f.outer = Top.outer)
                             /\ LoopGoes(f) \/ LoopPasses(f) \/ LoopTurns(f)
  BY LoopMoves DEF LoopStep
<1>3. stack # <<>> /\ Top.k \notin GuestKinds /\ Top.k # "turn"
  BY <1>2 DEF LoopOnTop, GuestKinds
<1>4. \A i : ~Passing(i)
  BY <1>2 DEF Passing
<1>5. ASSUME UNCHANGED <<ctx, eng>>, \A i \in Ctx : HasTurn(stack', i) <=> HasTurn(stack, i)
      PROVE  FlagOK'
  BY <1>1, <1>2, <1>4, <1>5, FlagsStay
<1>6. CASE LoopEnds
  BY <1>1, <1>3, <1>5, <1>6, TurnsBelow DEF LoopEnds
<1>7. ASSUME NEW f \in Frame, f.k = Top.k, LoopGoes(f) \/ LoopPasses(f) \/ LoopTurns(f)
      PROVE  FlagOK'
  <2>1. Update(f) \in Seq(Frame) /\ \A i : HasTurn(Update(f), i) <=> HasTurn(stack, i)
    <3>1. Update(f) \in Seq(Frame)
      BY <1>1, <1>3, BelowFacts, AppendProperties DEF Update
    <3>2. QED
      BY <1>1, <1>3, <1>7, <3>1, TurnsBelow
  <2>2. CASE LoopGoes(f)
    BY <1>5, <2>1, <2>2 DEF LoopGoes
  <2>3. CASE LoopPasses(f)
    <3>1. SchedFrame(cur) \in Frame /\ SchedFrame(cur).k = "sched"
      BY FramesMade
    <3>2. \A i : HasTurn(stack', i) <=> HasTurn(Update(f), i)
      BY <2>1, <2>3, <3>1, TurnsPush DEF LoopPasses
    <3>3. QED
      BY <1>5, <2>1, <2>3, <3>2 DEF LoopPasses
  <2>4. CASE LoopTurns(f)
    <3>1. PICK i \in Ctx, sigs \in [Ctx -> SUBSET Signals] : StartTurn(i, Update(f), sigs)
      BY <2>4 DEF LoopTurns
    <3>2. QED
      BY <1>2, <2>1, <3>1, FlagsTurn
  <2>5. QED
    BY <1>7, <2>2, <2>3, <2>4
<1>8. QED
  BY <1>2, <1>6, <1>7

(* A step of any shape keeps the flags, the marks and the continuations. *)
LEMMA FlagKept ==
  ASSUME "Hook" \notin Calls, command = 0 \/ "Exit" \notin Calls,
         IndInv, DomainOK, OwnOK, FlagOK, [Next]_vars
  PROVE  FlagOK'
<1>1. /\ \A i \in 1 .. nctx - 1 : i \in Ctx /\ i # 0
      /\ stack \in Seq(Frame) /\ ctx \in [Ctx -> ContextRecord]
      /\ eng \in [Ctx -> EngineRecord] /\ cur \in Ctx /\ nctx \in Nat
  BY ChildFacts
<1>2. CASE UNCHANGED vars
  BY <1>2 DEF vars, FlagOK, HasTurn, Passing, GuestOnTop, Top
<1>3. CASE Stays
  <2>1. \A i : Passing(i) => Passing(i)'
    BY <1>3 DEF Stays, Passing, GuestOnTop, LoopOnTop, Top
  <2>2. \A i \in Ctx : eng'[i].resume = eng[i].resume
    BY <1>3 DEF Stays, ResumesKept
  <2>3. QED
    BY <1>1, <1>3, <2>1, <2>2, FlagsStay DEF Stays
<1>4. CASE Begins
  <2>1. stack = <<>> /\ cur = 0
    BY <1>4, EmptySeq DEF Begins, OwnOK, Own
  <2>2. \A i : ~Passing(i)
    BY <2>1 DEF Passing, GuestOnTop
  <2>3. PICK f \in Frame : f.k # "turn" /\ stack' = Append(stack, f)
    <3>1. /\ RootFrame \in Frame /\ RootFrame.k = "root"
          /\ SchedFrame(cur) \in Frame /\ SchedFrame(cur).k = "sched"
      BY FramesMade
    <3>2. \A g : <<g>> = Append(<<>>, g)
      OBVIOUS
    <3>3. QED
      BY <1>4, <2>1, <3>1, <3>2 DEF Begins
  <2>4. \A i : HasTurn(stack', i) <=> HasTurn(stack, i)
    BY <1>1, <2>3, TurnsPush
  <2>5. \A i \in Ctx : i # 0 => eng'[i].resume = eng[i].resume
    BY <1>4 DEF Begins, ResumesKept
  <2>6. QED
    BY <1>1, <1>4, <2>1, <2>2, <2>4, <2>5, FlagsStay DEF Begins
<1>5. ASSUME NEW f \in Frame, Suspends(f) PROVE FlagOK'
  <2>1. \A i : HasTurn(stack', i) <=> HasTurn(stack, i)
    BY <1>1, <1>5, TurnsPush DEF Suspends, GuestKinds
  <2>2. \A i : ~Passing(i)
    BY <1>5 DEF Suspends, Passing
  <2>3. \A i \in Ctx : eng'[i].resume = eng[i].resume
    BY <1>5 DEF Suspends, ResumesKept
  <2>4. QED
    BY <1>1, <1>5, <2>1, <2>2, <2>3, FlagsStay DEF Suspends
<1>6. ASSUME NEW f \in Frame, NEW e \in Ctx, Nests(f, e) PROVE FlagOK'
  <2>1. f.k # "turn" /\ e = cur
    BY <1>6, FramesMade DEF Nests
  <2>2. \A i : HasTurn(stack', i) <=> HasTurn(stack, i)
    BY <1>1, <1>6, <2>1, TurnsPush DEF Nests
  <2>3. \A i : ~Passing(i)
    BY <1>6 DEF Nests, Passing
  <2>4. ASSUME NEW i \in 1 .. nctx - 1
        PROVE  \/ eng'[i].resume = eng[i].resume
               \/ HasTurn(stack, i) /\ eng'[i].resume = None
    <3>1. i \in Ctx /\ i # 0
      BY <1>1
    <3>2. CASE i = e
      BY <1>6, <2>1, <3>1, <3>2, CurHasTurn DEF Nests
    <3>3. CASE i # e
      BY <1>6, <3>1, <3>3 DEF Nests, ResumesKept
    <3>4. QED
      BY <3>2, <3>3
  <2>5. UNCHANGED <<ctx, nctx, faulted>> /\ ~err
    BY <1>6 DEF Nests
  <2>6. QED
    BY <1>1, <2>2, <2>3, <2>4, <2>5, FlagsStay
<1>7. CASE Creates
  <2>1. FreeSlot \in Ctx
    BY <1>7, ContextsAssumption DEF Creates, FreeSlot, Ctx, IndInv, TableInv
  <2>2. ~err /\ StartTurn(FreeSlot, stack, sig) /\ faulted' = faulted /\ nctx' = FreeSlot + 1
    BY <1>7 DEF Creates
  <2>3. QED
    BY <1>1, <2>1, <2>2, FlagsTurn
<1>8. CASE LeavesNested
  BY <1>8, FlagsNestedEnds
<1>9. ASSUME NEW m \in 1 .. Len(stack), LeavesTurn(m) PROVE FlagOK'
  BY <1>9, FlagsTurnEnds
<1>10. CASE ExitsCommand
  BY <1>10 DEF ExitsCommand
<1>11. CASE LeavesRoot
  <2>1. stack # <<>> /\ Top.k = "root" /\ stack' = Below /\ engine = cur
    BY <1>11 DEF LeavesRoot, Is, OwnOK
  <2>2. cur = 0
    <3>1. Len(stack) = 1 /\ stack[1].k = "root"
      BY <1>11, <2>1, RootAlone DEF LeavesRoot, Top
    <3>2. QED
      BY <3>1 DEF OwnOK, Own
  <2>3. \A i : HasTurn(stack', i) <=> HasTurn(stack, i)
    BY <1>1, <2>1, TurnsBelow
  <2>4. \A i \in Ctx : i # 0 => /\ ctx'[i] = ctx[i] /\ eng'[i].resume = eng[i].resume
                                /\ ~Passing(i)
    BY <1>11, <2>1, <2>2 DEF LeavesRoot, ResumesKept, Passing
  <2>5. (\A i \in Ctx : ctx'[i].canUnwind = ctx[i].canUnwind) /\ UNCHANGED <<nctx, faulted>>
    BY <1>11 DEF LeavesRoot
  <2>6. QED
    BY <1>1, <2>3, <2>4, <2>5, FlagsStay
<1>12. CASE LoopFails \/ PassEnds
  <2>1. stack # <<>> /\ Top.k # "turn" /\ Top.k \notin GuestKinds
    BY <1>12 DEF LoopFails, PassEnds, LoopOnTop, Is, GuestKinds
  <2>2. stack' = Below
    <3>1. PassEnds => Below = <<>>
      BY <1>1, <2>1, BelowFacts, EmptySeq DEF PassEnds
    <3>2. QED
      BY <1>12, <3>1 DEF LoopFails, PassEnds
  <2>3. \A i : HasTurn(stack', i) <=> HasTurn(stack, i)
    BY <1>1, <2>1, <2>2, TurnsBelow
  <2>4. \A i : ~Passing(i)
    BY <2>1 DEF Passing, GuestOnTop
  <2>5. UNCHANGED <<ctx, nctx, eng, faulted>>
    BY <1>12 DEF LoopFails, PassEnds
  <2>6. QED
    BY <1>1, <2>3, <2>4, <2>5, FlagsStay
<1>13. CASE LoopStep
  BY <1>13, FlagsLoop
<1>14. QED
  BY <1>2, <1>3, <1>4, <1>5, <1>6, <1>7, <1>8, <1>9, <1>10, <1>11, <1>12, <1>13, StepShapes
     DEF Shapes

(* Hence they are kept throughout. *)
LEMMA FlagInvariant ==
  ASSUME Unwound
  PROVE  Spec => [](IndInv /\ FlagOK)
<1>1. Init => OwnOK /\ CommandOK /\ FlagOK
  BY OwnInit, FlagInit DEF CommandOK, Init
<1>2. IndInv /\ DomainOK /\ OwnOK /\ CommandOK /\ FlagOK /\ [Next]_vars
      => OwnOK' /\ CommandOK' /\ FlagOK'
  BY OwnKept, CommandKept, FlagKept DEF Unwound, CommandOK
<1>3. QED
  BY <1>1, <1>2, DomainInvariant, PTL DEF Spec

(* The on_stack and can_unwind flags of a child are set exactly while its one
   turn is on the C stack, and no context parked in a Wait is on it, but for
   the one that passes on the error of a Wait it could not be parked in: for any
   contexts and bounds, and programs as in RunsAsItself. *)
THEOREM FlagsTellTruth ==
  ASSUME Unwound
  PROVE  Spec => []FlagsMatchStack
<1>1. IndInv /\ FlagOK => FlagsMatchStack
  <2> SUFFICES ASSUME IndInv, FlagOK, NEW i \in 1 .. nctx - 1
               PROVE  /\ ctx[i].onStack = (TurnsOf(i) # {})
                      /\ ctx[i].canUnwind = ctx[i].onStack
                      /\ Cardinality(TurnsOf(i)) <= 1
                      /\ ctx[i].blocked => err \/ ~ctx[i].onStack
    BY DEF FlagsMatchStack
  <2>1. i \in Ctx /\ ctx[i] \in ContextRecord
    BY ChildFacts
  <2>2. ctx[i].onStack \in BOOLEAN /\ ctx[i].canUnwind \in BOOLEAN
    BY <2>1 DEF ContextRecord
  <2>3. HasTurn(stack, i) <=> TurnsOf(i) # {}
    BY DEF HasTurn, TurnsOf
  <2>4. /\ ctx[i].onStack <=> HasTurn(stack, i)
        /\ ctx[i].canUnwind <=> HasTurn(stack, i)
        /\ ctx[i].blocked /\ ctx[i].onStack => err
    BY <2>1 DEF FlagOK, Passing
  <2>5. Cardinality(TurnsOf(i)) <= 1
    <3>1. \A m, n \in TurnsOf(i) : m = n
      BY DEF TurnsOf, IndInv, StackInv
    <3>2. CASE TurnsOf(i) = {}
      BY <3>2, FS_EmptySet
    <3>3. CASE TurnsOf(i) # {}
      <4>1. PICK n : n \in TurnsOf(i)
        BY <3>3
      <4>2. TurnsOf(i) = {n}
        BY <3>1, <4>1
      <4>3. Cardinality({n}) = 1
        BY FS_Singleton
      <4>4. QED
        BY <4>2, <4>3
    <3>4. QED
      BY <3>2, <3>3
  <2>6. QED
    BY <2>2, <2>3, <2>4, <2>5
<1>2. QED
  BY <1>1, FlagInvariant, PTL

(* A child that is off the C stack and neither finished nor faulted has its own
   continuation in its engine, and one that runs has none there to be resumed
   by a nested run. *)
THEOREM ContinuationsKept ==
  ASSUME Unwound
  PROVE  Spec => []ContinuationKept
<1>1. IndInv /\ FlagOK => ContinuationKept
  BY DEF FlagOK, ContinuationKept, Passing
<1>2. QED
  BY <1>1, FlagInvariant, PTL
=============================================================================
