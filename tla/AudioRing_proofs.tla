-------------------------- MODULE AudioRing_proofs --------------------------
(***************************************************************************)
(* Proofs about AudioRing, for every ring size, every number of laps of    *)
(* the counters, and every set of frames.                                  *)
(***************************************************************************)
EXTENDS AudioRing, TLAPS, SequenceTheorems

-----------------------------------------------------------------------------
(* Division with remainder: what the mask `counter & (cap - 1)' does.      *)

(* A product with a positive factor is at least the other factor. *)
LEMMA MulAtLeast ==
  ASSUME NEW d \in Int, NEW b \in Nat \ {0}, d >= 1
  PROVE  d * b >= b
OBVIOUS

(* What % Cap gives, as the quotient and remainder it stands for. *)
LEMMA Division ==
  ASSUME NEW a \in Nat, NEW b \in Nat \ {0}
  PROVE  /\ a = b * (a \div b) + (a % b)
         /\ (a % b) \in 0 .. b - 1
         /\ a \div b \in Nat
OBVIOUS

(* Quotient and remainder are determined by their sum.                     *)
LEMMA RemainderUnique ==
  ASSUME NEW b \in Nat \ {0}, NEW q1 \in Int, NEW q2 \in Int,
         NEW r1 \in 0 .. b - 1, NEW r2 \in 0 .. b - 1,
         b * q1 + r1 = b * q2 + r2
  PROVE  q1 = q2 /\ r1 = r2
<1>1. b * (q1 - q2) = r2 - r1
  OBVIOUS
<1>2. ~(q1 - q2 >= 1)
  <2>1. SUFFICES ASSUME q1 - q2 >= 1 PROVE FALSE
    OBVIOUS
  <2>2. (q1 - q2) * b >= b
    BY <2>1, MulAtLeast
  <2>3. QED
    BY <2>2, <1>1
<1>3. ~(q2 - q1 >= 1)
  <2>1. SUFFICES ASSUME q2 - q1 >= 1 PROVE FALSE
    OBVIOUS
  <2>2. (q2 - q1) * b >= b
    BY <2>1, MulAtLeast
  <2>3. QED
    BY <2>2, <1>1
<1>4. q1 = q2
  BY <1>2, <1>3
<1>5. QED
  BY <1>4

(* Whole multiples of the divisor do not change the remainder.             *)
LEMMA RemainderShift ==
  ASSUME NEW a \in Nat, NEW b \in Nat \ {0}, NEW k \in Nat
  PROVE  (a + k * b) % b = a % b
<1> DEFINE c == a + k * b
<1>1. c \in Nat
  OBVIOUS
<1>2. /\ a = b * (a \div b) + (a % b)
      /\ (a % b) \in 0 .. b - 1
      /\ a \div b \in Nat
  BY Division
<1>3. /\ c = b * (c \div b) + (c % b)
      /\ (c % b) \in 0 .. b - 1
      /\ c \div b \in Nat
  BY <1>1, Division
<1>4. c = a + k * b
  OBVIOUS
<1> HIDE DEF c
<1>5. b * (c \div b) + (c % b) = b * ((a \div b) + k) + (a % b)
  <2>1. b * ((a \div b) + k) = b * (a \div b) + k * b
    BY <1>2
  <2>2. QED
    BY <1>2, <1>3, <1>4, <2>1
<1>6. (a \div b) + k \in Int
  BY <1>2
<1>7. c % b = a % b
  <2> DEFINE q1 == c \div b
             q2 == (a \div b) + k
             r1 == c % b
             r2 == a % b
  <2>1. /\ q1 \in Int /\ q2 \in Int
        /\ r1 \in 0 .. b - 1 /\ r2 \in 0 .. b - 1
        /\ b * q1 + r1 = b * q2 + r2
    BY <1>2, <1>3, <1>5, <1>6
  <2> HIDE DEF q1, q2, r1, r2
  <2>2. r1 = r2
    BY ONLY b \in Nat \ {0}, <2>1, RemainderUnique
  <2>3. QED
    BY <2>2 DEF r1, r2
<1>8. QED
  BY <1>4, <1>7

-----------------------------------------------------------------------------
(* The counters wrap at a positive number no smaller than the ring. *)
LEMMA ModulusFacts == Modulus \in Nat /\ Modulus >= Cap
BY CapAssumption, LapsAssumption DEF Modulus

(* A counter that is advanced by less than a lap set is a counter. *)
LEMMA AdvanceInCounter ==
  ASSUME NEW c \in Counter, NEW n \in 0 .. Cap
  PROVE  Advance(c, n) \in Counter
BY ModulusFacts, CapAssumption DEF Counter, Advance

(* Every counter names a slot of the ring (idx = counter & mask). *)
LEMMA SlotInRange ==
  ASSUME NEW c \in Counter
  PROVE  SlotOf(c) \in 0 .. Cap - 1
<1>1. c \in Nat
  BY ModulusFacts DEF Counter
<1>2. QED
  BY <1>1, Division, CapAssumption DEF SlotOf

(* Advancing a counter, wrapping included, moves the slot by as much.      *)
LEMMA SlotOfAdvance ==
  ASSUME NEW c \in Counter, NEW k \in 0 .. Cap
  PROVE  SlotOf(Advance(c, k)) = (c + k) % Cap
<1>1. c \in Nat /\ c + k \in Nat
  BY ModulusFacts, CapAssumption DEF Counter
<1>2. CASE c + k < Modulus
  BY <1>1, <1>2, ModulusFacts DEF SlotOf, Advance
<1>3. CASE c + k >= Modulus
  <2> DEFINE a == c + k - Modulus
  <2>1. a \in Nat /\ a + Laps * Cap = c + k
    BY <1>1, <1>3, ModulusFacts, CapAssumption, LapsAssumption DEF Modulus
  <2>2. Advance(c, k) = a
    BY <1>1, <1>3, ModulusFacts DEF Advance
  <2> HIDE DEF a
  <2>3. (a + Laps * Cap) % Cap = a % Cap
    <3>1. a \in Nat /\ Cap \in Nat \ {0} /\ Laps \in Nat
      BY <2>1, CapAssumption, LapsAssumption
    <3>2. QED
      BY ONLY <3>1, RemainderShift
  <2>4. QED
    BY <2>1, <2>2, <2>3 DEF SlotOf
<1>4. QED
  BY <1>1, <1>2, <1>3, ModulusFacts

(* Fewer than Cap consecutive counters have different slots.               *)
LEMMA SlotInjective ==
  ASSUME NEW c \in Counter, NEW i \in 0 .. Cap - 1, NEW j \in 0 .. Cap - 1,
         SlotOf(Advance(c, i)) = SlotOf(Advance(c, j))
  PROVE  i = j
<1>1. c \in Nat /\ c + i \in Nat /\ c + j \in Nat
  BY ModulusFacts, CapAssumption DEF Counter
<1>2. (c + i) % Cap = (c + j) % Cap
  BY SlotOfAdvance, CapAssumption
<1> DEFINE q1 == (c + i) \div Cap
           q2 == (c + j) \div Cap
           r == (c + i) % Cap
<1>3. /\ c + i = Cap * q1 + r /\ c + j = Cap * q2 + r
      /\ q1 \in Nat /\ q2 \in Nat /\ r \in 0 .. Cap - 1
  <2>1. Cap \in Nat \ {0}
    BY CapAssumption
  <2>2. /\ c + i = Cap * ((c + i) \div Cap) + ((c + i) % Cap)
        /\ ((c + i) % Cap) \in 0 .. Cap - 1
        /\ (c + i) \div Cap \in Nat
    BY ONLY <1>1, <2>1, Division
  <2>3. /\ c + j = Cap * ((c + j) \div Cap) + ((c + j) % Cap)
        /\ (c + j) \div Cap \in Nat
    BY ONLY <1>1, <2>1, Division
  <2>4. QED
    BY <1>2, <2>2, <2>3
<1> HIDE DEF q1, q2, r
<1>4. j - i = Cap * (q2 - q1)
  BY <1>1, <1>3, CapAssumption
<1>5. ~(q2 - q1 >= 1)
  <2>1. SUFFICES ASSUME q2 - q1 >= 1 PROVE FALSE
    OBVIOUS
  <2>2. (q2 - q1) * Cap >= Cap
    BY <1>3, <2>1, MulAtLeast, CapAssumption
  <2>3. QED
    BY <1>3, <1>4, <2>2, CapAssumption
<1>6. ~(q1 - q2 >= 1)
  <2>1. SUFFICES ASSUME q1 - q2 >= 1 PROVE FALSE
    OBVIOUS
  <2>2. (q1 - q2) * Cap >= Cap
    BY <1>3, <2>1, MulAtLeast, CapAssumption
  <2>3. QED
    BY <1>3, <1>4, <2>2, CapAssumption
<1>7. q1 = q2
  BY <1>3, <1>5, <1>6
<1>8. QED
  BY <1>3, <1>4, <1>7, CapAssumption

-----------------------------------------------------------------------------
(* How distances change as one of the two counters advances.               *)

(* Unsigned subtraction undoes an advance and stays a counter. *)
LEMMA DistanceFacts ==
  ASSUME NEW h \in Counter, NEW t \in Counter
  PROVE  /\ Distance(h, t) \in 0 .. Modulus - 1
         /\ Advance(h, Distance(h, t)) = t
         /\ \A n \in Nat : Distance(h, t) + n < Modulus =>
              /\ Advance(t, n) \in Counter
              /\ Distance(h, Advance(t, n)) = Distance(h, t) + n
              /\ Advance(h, Distance(h, t) + n) = Advance(t, n)
         /\ \A n \in Nat : n <= Distance(h, t) =>
              /\ Advance(h, n) \in Counter
              /\ Distance(Advance(h, n), t) = Distance(h, t) - n
BY ModulusFacts, CapAssumption DEF Counter, Distance, Advance

-----------------------------------------------------------------------------
(* What a caller of ca_ring_push may pass. *)
LEMMA PushSourceFacts ==
  ASSUME NEW s \in PushSources
  PROVE  s \in Seq(Frame) /\ Len(s) \in Nat \ {0}
BY SizeAssumption DEF PushSources

(* ca_open leaves the ring empty and both sides idle. *)
LEMMA InvInit == Init => RingInv
<1> SUFFICES ASSUME Init PROVE RingInv
  OBVIOUS
<1>1. head \in Counter /\ tail \in Counter /\ Used = 0
  BY ModulusFacts, CapAssumption DEF Init, Counter, Used, Distance
<1>2. TypeOK
  BY <1>1, CapAssumption DEF Init, TypeOK, Usable
<1>3. QED
  BY <1>1, <1>2, CapAssumption DEF Init, RingInv, Usable, Space, SpaceIsAPromise

(* Every load, store and frame copy of either side keeps RingInv. *)
LEMMA InvNext == RingInv /\ [Next]_vars => RingInv'
<1> SUFFICES ASSUME RingInv, [Next]_vars PROVE RingInv'
  OBVIOUS
<1> USE CapAssumption, ModulusFacts
<1>0. /\ TypeOK /\ Used \in 0 .. Usable /\ Usable \in Nat /\ Usable < Modulus
      /\ Space \in 0 .. Usable
      /\ ppc = "copy" => Used + accepted <= Usable
      /\ ppc = "idle" => accepted = 0 /\ promise <= Space
      /\ cpc = "drain" => take <= Used /\ Len(out) <= take
      /\ SpaceIsAPromise
  <2>1. Distance(head, tail) \in 0 .. Modulus - 1
    BY DistanceFacts DEF RingInv, TypeOK
  <2>2. QED
    BY <2>1 DEF RingInv, Used, Usable, Space
<1>1. CASE QuerySpace
  BY <1>0, <1>1 DEF QuerySpace, RingInv, TypeOK, Used, Space, SpaceIsAPromise,
                    shared, consumer
<1>2. ASSUME NEW s \in PushSources, PushBegin(s) PROVE RingInv'
  <2>1. s \in Seq(Frame) /\ Len(s) \in Nat \ {0}
    BY PushSourceFacts
  <2>2. Least(Len(s), Space) \in 0 .. Len(s) /\ Least(Len(s), Space) <= Space
    BY <1>0, <2>1 DEF Least
  <2>3. promise >= Len(s) => Least(Len(s), Space) = Len(s)
    BY <1>0, <1>2, <2>1 DEF Least, PushBegin, TypeOK
  <2>4. TypeOK'
    BY <1>0, <1>2, <2>1, <2>2 DEF PushBegin, TypeOK, shared, consumer
  <2>5. QED
    BY <1>0, <1>2, <2>1, <2>2, <2>3, <2>4
    DEF PushBegin, RingInv, TypeOK, Used, Space, SpaceIsAPromise, shared, consumer
<1>3. CASE PushFrame
  <2>1. Advance(tail, copied) \in Counter
    BY <1>0, <1>3, AdvanceInCounter DEF PushFrame, TypeOK, Usable
  <2>2. SlotOf(Advance(tail, copied)) \in 0 .. Cap - 1
    BY <2>1, SlotInRange
  <2>3. src[copied + 1] \in Frame
    BY <1>0, <1>3, ElementOfSeq DEF PushFrame, TypeOK
  <2>4. TypeOK'
    BY <1>0, <1>3, <2>2, <2>3 DEF PushFrame, TypeOK, consumer
  <2>5. QED
    BY <1>0, <1>3, <2>4
    DEF PushFrame, RingInv, Used, Space, SpaceIsAPromise, consumer
<1>4. CASE PushPublish
  <2>1. /\ Advance(tail, accepted) \in Counter
        /\ Distance(head, Advance(tail, accepted)) = Used + accepted
    <3>1. accepted \in Nat /\ Distance(head, tail) + accepted < Modulus
      BY <1>0, <1>4, LenProperties DEF PushPublish, TypeOK, Used
    <3>2. QED
      BY <1>0, <3>1, DistanceFacts DEF TypeOK, Used
  <2>2. TypeOK'
    BY <1>0, <1>4, <2>1, EmptySeq DEF PushPublish, TypeOK, consumer
  <2>3. QED
    BY <1>0, <1>4, <2>1, <2>2
    DEF PushPublish, RingInv, TypeOK, Used, Space, SpaceIsAPromise, consumer
<1>5. ASSUME NEW w \in 1 .. MaxWant, RenderBegin(w) PROVE RingInv'
  <2>1. w \in Nat /\ Least(Used, w) \in 0 .. w /\ Least(Used, w) <= Used
    BY <1>0, SizeAssumption DEF Least
  <2>2. TypeOK'
    BY <1>0, <1>5, <2>1, EmptySeq DEF RenderBegin, Take, TypeOK, shared, producer
  <2>3. QED
    BY <1>0, <1>5, <2>1, <2>2, EmptySeq
    DEF RenderBegin, Take, RingInv, Used, Space, SpaceIsAPromise, shared, producer
<1>6. CASE RenderFrame
  <2>1. Len(out) \in 0 .. Cap
    BY <1>0, <1>6, LenProperties DEF RenderFrame, TypeOK, Usable
  <2>2. SlotOf(Advance(head, Len(out))) \in 0 .. Cap - 1
    BY <1>0, <2>1, AdvanceInCounter, SlotInRange DEF TypeOK
  <2>3. slots[SlotOf(Advance(head, Len(out)))] \in Frame \union {Silence}
    BY <1>0, <2>2 DEF TypeOK
  <2>4. out' \in Seq(Frame \union {Silence}) /\ Len(out') = Len(out) + 1
    BY <1>0, <1>6, <2>3, AppendProperties DEF RenderFrame, TypeOK
  <2>5. TypeOK'
    BY <1>0, <1>6, <2>4 DEF RenderFrame, TypeOK, shared, producer
  <2>6. QED
    BY <1>0, <1>6, <2>1, <2>4, <2>5
    DEF RenderFrame, RingInv, TypeOK, Used, Space, SpaceIsAPromise, shared, producer
<1>7. CASE RenderPublish
  <2>1. /\ Advance(head, take) \in Counter
        /\ Distance(Advance(head, take), tail) = Used - take
    BY <1>0, <1>7, DistanceFacts DEF RenderPublish, TypeOK, Used
  <2>2. out' \in Seq(Frame \union {Silence})
    <3>1. [i \in 1 .. want - take |-> Silence] \in Seq(Frame \union {Silence})
      BY <1>0 DEF TypeOK
    <3>2. QED
      BY <1>0, <1>7, <3>1, ConcatProperties DEF RenderPublish, TypeOK
  <2>3. TypeOK'
    BY <1>0, <1>7, <2>1, <2>2 DEF RenderPublish, TypeOK, producer
  <2>4. QED
    BY <1>0, <1>7, <2>1, <2>3
    DEF RenderPublish, RingInv, TypeOK, Used, Space, SpaceIsAPromise, producer
<1>8. CASE UNCHANGED vars
  BY <1>0, <1>8 DEF RingInv, TypeOK, Used, Space, SpaceIsAPromise, vars, shared,
                    producer, consumer
<1>9. QED
  BY <1>1, <1>2, <1>3, <1>4, <1>5, <1>6, <1>7, <1>8 DEF Next, Producer, Consumer

(* The strengthened invariant holds in every reachable state.              *)
THEOREM RingInvariant == Spec => []RingInv
BY InvInit, InvNext, PTL DEF Spec

(* Every variable keeps its type, for every ring size.                     *)
THEOREM TypeCorrect == Spec => []TypeOK
<1>1. RingInv => TypeOK
  BY DEF RingInv
<1>2. QED
  BY <1>1, RingInvariant, PTL

(* A ca_ring_space answer is honoured by the push that relies on it.       *)
THEOREM PromiseKept == Spec => []SpaceIsAPromise
<1>1. RingInv => SpaceIsAPromise
  BY DEF RingInv
<1>2. QED
  BY <1>1, RingInvariant, PTL

(* The copy loop of a push and the drain loop of a callback never touch    *)
(* the same slot of the ring.                                              *)
THEOREM NoTearing == Spec => []NoSlotShared
<1>1. RingInv => NoSlotShared
  <2> SUFFICES ASSUME RingInv, ppc = "copy", cpc = "drain",
                      NEW i \in Len(out) .. take - 1,
                      NEW j \in 0 .. accepted - 1,
                      SlotOf(Advance(head, i)) = SlotOf(Advance(tail, j))
               PROVE FALSE
    BY DEF NoSlotShared, Unread, Unpublished
  <2>1. /\ TypeOK /\ Used + accepted <= Usable /\ take <= Used
        /\ Distance(head, tail) \in 0 .. Modulus - 1
    BY DistanceFacts DEF RingInv, TypeOK
  <2>2. Used + j \in 0 .. Cap - 1 /\ i \in 0 .. Cap - 1 /\ i < Used + j
    <3>1. Len(out) \in Nat
      BY <2>1, LenProperties DEF TypeOK
    <3>2. Used \in Nat /\ Usable = Cap - 1 /\ Cap \in Nat /\ accepted \in Nat /\ take \in Nat
      BY <2>1, CapAssumption, LenProperties, ModulusFacts DEF TypeOK, Used, Usable
    <3>3. QED
      BY <2>1, <3>1, <3>2
  <2>3. Advance(tail, j) = Advance(head, Used + j)
    <3>1. head \in Counter /\ tail \in Counter /\ j \in Nat /\ Used = Distance(head, tail)
      BY <2>1 DEF TypeOK, Used
    <3>2. Used + j < Modulus
      BY <2>2, ModulusFacts, CapAssumption
    <3>3. QED
      BY <3>1, <3>2, DistanceFacts
  <2>4. QED
    BY <2>1, <2>2, <2>3, SlotInjective DEF TypeOK
<1>2. QED
  BY <1>1, RingInvariant, PTL

-----------------------------------------------------------------------------
(* The ring as a queue.                                                    *)

Sample == Frame \union {Silence}

(* n frames of the slots sl, from the counter h on. *)
Slice(sl, h, n) == [i \in 1 .. n |-> sl[SlotOf(Advance(h, i - 1))]]

(* What the two sides have done of their loops: a push has put its first   *)
(* frames behind tail, a callback has got those behind head.               *)
LoopsInv ==
  /\ ppc = "idle" <=> src = <<>>
  /\ cpc = "idle" <=> want = 0
  /\ \A i \in 0 .. copied - 1 : slots[SlotOf(Advance(tail, i))] = src[i + 1]
  /\ cpc = "drain" => \A i \in 0 .. Len(out) - 1 : slots[SlotOf(Advance(head, i))] = out[i + 1]

(* RingInv in the numbers it is about. *)
LEMMA RingFacts ==
  ASSUME RingInv
  PROVE  /\ Used \in 0 .. Usable /\ Usable \in Nat /\ Usable = Cap - 1 /\ Cap \in Nat
         /\ Usable < Modulus /\ Space = Usable - Used /\ Modulus \in Nat
         /\ head \in Counter /\ tail \in Counter
         /\ slots \in [0 .. Cap - 1 -> Sample]
         /\ src \in Seq(Frame) /\ out \in Seq(Sample) /\ Len(out) \in Nat /\ Len(src) \in Nat
         /\ accepted \in 0 .. Len(src) /\ copied \in 0 .. accepted
         /\ want \in Nat /\ take \in 0 .. want
         /\ ppc \in {"idle", "copy"} /\ cpc \in {"idle", "drain"}
         /\ ppc = "copy" => Used + accepted <= Usable
         /\ ppc = "idle" => accepted = 0
         /\ cpc = "drain" => take <= Used /\ Len(out) <= take
<1>1. Distance(head, tail) \in 0 .. Modulus - 1
  BY DistanceFacts DEF RingInv, TypeOK
<1>2. out \in Seq(Sample) /\ src \in Seq(Frame)
  BY DEF RingInv, TypeOK, Sample
<1>3. Len(out) \in Nat /\ Len(src) \in Nat
  BY <1>2, LenProperties
<1>4. QED
  BY <1>1, <1>2, <1>3, ModulusFacts, CapAssumption DEF RingInv, TypeOK, Used, Usable, Space, Sample

(* A slice is a sequence of samples. *)
LEMMA SliceFacts ==
  ASSUME NEW sl \in [0 .. Cap - 1 -> Sample], NEW h \in Counter, NEW n \in 0 .. Cap
  PROVE  /\ Slice(sl, h, n) \in Seq(Sample) /\ Len(Slice(sl, h, n)) = n
         /\ \A i \in 1 .. n : Slice(sl, h, n)[i] = sl[SlotOf(Advance(h, i - 1))]
<1> DEFINE s == Slice(sl, h, n)
<1>1. n \in Nat /\ Cap \in Nat
  BY CapAssumption
<1>2. \A i \in 1 .. n : sl[SlotOf(Advance(h, i - 1))] \in Sample
  <2> SUFFICES ASSUME NEW i \in 1 .. n PROVE sl[SlotOf(Advance(h, i - 1))] \in Sample
    OBVIOUS
  <2>1. i - 1 \in 0 .. Cap
    BY <1>1
  <2>2. SlotOf(Advance(h, i - 1)) \in 0 .. Cap - 1
    BY <2>1, AdvanceInCounter, SlotInRange
  <2>3. QED
    BY <2>2
<1>3. s \in [1 .. n -> Sample]
  BY <1>2 DEF Slice
<1>4. s \in Seq(Sample) /\ Len(s) = n
  BY <1>1, <1>3
<1>5. QED
  BY <1>4 DEF Slice

(* The queue's frames are such a slice. *)
LEMMA ContentsFacts ==
  ASSUME RingInv
  PROVE  /\ Contents = Slice(slots, head, Used) /\ Contents \in Seq(Sample) /\ Len(Contents) = Used
         /\ \A i \in 1 .. Used : Contents[i] = slots[SlotOf(Advance(head, i - 1))]
<1>1. Contents = Slice(slots, head, Used)
  BY DEF Contents, Slice
<1>2. Used \in 0 .. Cap
  BY RingFacts
<1>3. QED
  BY <1>1, <1>2, RingFacts, SliceFacts

(* Advancing twice. *)
LEMMA AdvanceTwice ==
  ASSUME NEW c \in Counter, NEW m \in Nat, NEW n \in Nat, m + n < Modulus
  PROVE  Advance(Advance(c, m), n) = Advance(c, m + n)
BY ModulusFacts DEF Counter, Advance

(* tail is Used frames behind head. *)
LEMMA BehindTail ==
  ASSUME RingInv, NEW n \in Nat, Used + n < Modulus
  PROVE  /\ Advance(tail, n) \in Counter /\ Distance(head, Advance(tail, n)) = Used + n
         /\ Advance(head, Used + n) = Advance(tail, n)
BY RingFacts, DistanceFacts DEF Used

(* Nothing is copied when the ring is opened. *)
LEMMA LoopsInit == Init => LoopsInv
<1> SUFFICES ASSUME Init PROVE LoopsInv
  OBVIOUS
<1>1. \A i : i \notin 0 .. 0 - 1
  OBVIOUS
<1>2. QED
  BY <1>1 DEF Init, LoopsInv

(* A copied frame goes into a slot that holds no frame of the queue, and none
   of those the push has copied. *)
LEMMA CopySlot ==
  ASSUME RingInv, PushFrame
  PROVE  /\ SlotOf(Advance(tail, copied)) \in 0 .. Cap - 1
         /\ slots'[SlotOf(Advance(tail, copied))] = src[copied + 1]
         /\ \A i \in 0 .. Used - 1 : slots'[SlotOf(Advance(head, i))] = slots[SlotOf(Advance(head, i))]
         /\ \A i \in 0 .. copied - 1 : slots'[SlotOf(Advance(tail, i))] = slots[SlotOf(Advance(tail, i))]
<1>1. /\ Used + copied \in 0 .. Cap - 1 /\ copied \in 0 .. Cap - 1 /\ Used + copied < Modulus
      /\ Used \in Nat /\ copied \in Nat /\ head \in Counter /\ tail \in Counter
      /\ slots \in [0 .. Cap - 1 -> Sample] /\ Cap \in Nat
  <2>1. /\ ppc = "copy" /\ copied < accepted
    BY DEF PushFrame
  <2>2. /\ Used \in Nat /\ Usable = Cap - 1 /\ Cap \in Nat /\ Usable < Modulus /\ Modulus \in Nat
        /\ Used + accepted <= Usable /\ copied \in Nat /\ accepted \in Nat
        /\ head \in Counter /\ tail \in Counter /\ slots \in [0 .. Cap - 1 -> Sample]
    BY <2>1, RingFacts
  <2>3. QED
    BY <2>1, <2>2
<1>2. Advance(tail, copied) \in Counter /\ Advance(head, Used + copied) = Advance(tail, copied)
  BY <1>1, BehindTail
<1> DEFINE w == SlotOf(Advance(tail, copied))
<1>3. w \in 0 .. Cap - 1
  BY <1>2, SlotInRange
<1>4. slots' = [slots EXCEPT ![w] = src[copied + 1]]
  BY DEF PushFrame
<1>5. ASSUME NEW i \in 0 .. Used - 1 PROVE SlotOf(Advance(head, i)) # w
  <2>1. i \in 0 .. Cap - 1 /\ i # Used + copied
    BY <1>1
  <2>2. QED
    BY <1>1, <1>2, <2>1, SlotInjective
<1>6. ASSUME NEW i \in 0 .. copied - 1 PROVE SlotOf(Advance(tail, i)) # w
  <2>1. i \in 0 .. Cap - 1 /\ i # copied
    BY <1>1
  <2>2. QED
    BY <1>1, <2>1, SlotInjective
<1>7. \A k : k # w => slots'[k] = slots[k]
  <2>1. \A k \in 0 .. Cap - 1 : k # w => slots'[k] = slots[k]
    BY <1>1, <1>4
  <2>2. QED
    BY <1>4
<1>8. QED
  BY <1>1, <1>3, <1>4, <1>5, <1>6, <1>7

(* Every load, store and frame copy of either side keeps it. *)
LEMMA LoopsNext == RingInv /\ LoopsInv /\ [Next]_vars => LoopsInv'
<1> SUFFICES ASSUME RingInv, LoopsInv, [Next]_vars PROVE LoopsInv'
  OBVIOUS
<1>0. /\ copied \in 0 .. accepted /\ accepted \in 0 .. Len(src) /\ Len(src) \in Nat
      /\ take \in 0 .. want /\ want \in Nat /\ Len(out) \in Nat
      /\ out \in Seq(Sample) /\ slots \in [0 .. Cap - 1 -> Sample]
      /\ ppc = "idle" => accepted = 0
      /\ cpc = "drain" => take <= Used /\ Len(out) <= take
      /\ Used \in 0 .. Cap - 1 /\ head \in Counter /\ Cap \in Nat
  BY RingFacts
<1>1. CASE QuerySpace
  BY <1>1 DEF QuerySpace, LoopsInv, shared, consumer
<1>2. ASSUME NEW s \in PushSources, PushBegin(s) PROVE LoopsInv'
  <2>1. s # <<>>
    BY PushSourceFacts, EmptySeq
  <2>2. \A i : i \notin 0 .. 0 - 1
    OBVIOUS
  <2>3. QED
    BY <1>2, <2>1, <2>2 DEF PushBegin, LoopsInv, shared, consumer
<1>3. CASE PushFrame
  <2>1. \A i \in 0 .. copied' - 1 : i = copied \/ i \in 0 .. copied - 1
    BY <1>0, <1>3 DEF PushFrame
  <2>2. \A i \in 0 .. copied' - 1 : slots'[SlotOf(Advance(tail, i))] = src[i + 1]
    BY <1>3, <2>1, CopySlot DEF LoopsInv
  <2>3. cpc = "drain" => \A i \in 0 .. Len(out) - 1 : i \in 0 .. Used - 1
    BY <1>0
  <2>4. cpc = "drain" => \A i \in 0 .. Len(out) - 1 : slots'[SlotOf(Advance(head, i))] = out[i + 1]
    BY <1>3, <2>3, CopySlot DEF LoopsInv
  <2>5. QED
    BY <1>3, <2>2, <2>4 DEF PushFrame, LoopsInv, consumer
<1>4. CASE PushPublish
  <2>1. \A i : i \notin 0 .. 0 - 1
    OBVIOUS
  <2>2. QED
    BY <1>4, <2>1 DEF PushPublish, LoopsInv, consumer
<1>5. ASSUME NEW w \in 1 .. MaxWant, RenderBegin(w) PROVE LoopsInv'
  <2>1. \A i : i \notin 0 .. 0 - 1
    OBVIOUS
  <2>2. w # 0 /\ Len(<<>>) = 0
    BY EmptySeq
  <2>3. QED
    BY <1>5, <2>1, <2>2 DEF RenderBegin, LoopsInv, shared, producer
<1>6. CASE RenderFrame
  <2> DEFINE x == slots[SlotOf(Advance(head, Len(out)))]
  <2>1. x \in Sample
    <3>1. Len(out) \in 0 .. Cap
      BY <1>0, <1>6 DEF RenderFrame
    <3>2. QED
      BY <1>0, <3>1, AdvanceInCounter, SlotInRange
  <2> HIDE DEF x
  <2>2. /\ Len(Append(out, x)) = Len(out) + 1 /\ Append(out, x)[Len(out) + 1] = x
        /\ \A i \in 1 .. Len(out) : Append(out, x)[i] = out[i]
    BY <1>0, <2>1, AppendProperties
  <2>3. out' = Append(out, x) /\ UNCHANGED <<slots, head, tail, cpc, want, ppc, src, copied>>
    BY <1>6 DEF RenderFrame, x, shared, producer
  <2>4. \A i \in 0 .. Len(out) : i = Len(out) \/ (i \in 0 .. Len(out) - 1 /\ i + 1 \in 1 .. Len(out))
    BY <1>0
  <2>5. cpc = "drain" => \A i \in 0 .. Len(out) : slots[SlotOf(Advance(head, i))] = Append(out, x)[i + 1]
    BY <2>2, <2>4 DEF LoopsInv, x
  <2>6. Len(out') - 1 = Len(out)
    BY <1>0, <2>2, <2>3
  <2>7. QED
    BY <2>3, <2>5, <2>6 DEF LoopsInv
<1>7. CASE RenderPublish
  BY <1>7 DEF RenderPublish, LoopsInv, producer
<1>8. CASE UNCHANGED vars
  BY <1>8 DEF LoopsInv, vars, shared, producer, consumer
<1>9. QED
  BY <1>1, <1>2, <1>3, <1>4, <1>5, <1>6, <1>7, <1>8 DEF Next, Producer, Consumer

(* The counters stay with the slots and the numbers that the queue is read
   off: nothing changes in it. *)
LEMMA SameContents ==
  ASSUME UNCHANGED <<slots, head, tail>>
  PROVE  Contents' = Contents
BY DEF Contents, Used

(* A frame copied is not yet in the queue. *)
LEMMA PushFrameSeen ==
  ASSUME RingInv, PushFrame
  PROVE  UNCHANGED Fifo!fifoVars
<1>1. Used' = Used /\ head' = head
  BY DEF PushFrame, Used
<1>2. \A i \in 1 .. Used : slots'[SlotOf(Advance(head, i - 1))] = slots[SlotOf(Advance(head, i - 1))]
  <2>1. \A i \in 1 .. Used : i - 1 \in 0 .. Used - 1
    BY RingFacts
  <2>2. QED
    BY <2>1, CopySlot
<1>3. Contents' = Contents
  BY <1>1, <1>2 DEF Contents
<1>4. QED
  BY <1>3 DEF PushFrame, Fifo!fifoVars, consumer

(* A push is called when it has loaded head. *)
LEMMA PushBeginSeen ==
  ASSUME RingInv, LoopsInv, NEW s \in PushSources, PushBegin(s)
  PROVE  Fifo!Call
<1>1. s \in Seq(Frame) \ {<<>>} /\ Len(s) \in Nat
  BY PushSourceFacts, EmptySeq
<1>2. src = <<>> /\ src' = s /\ accepted' = Least(Len(s), Space)
  BY DEF PushBegin, LoopsInv
<1>3. Contents' = Contents /\ UNCHANGED <<want, take, cpc, out>>
  BY SameContents DEF PushBegin, shared, consumer
<1>4. Least(Len(s), Space) = Fifo!Shorter(Len(s), Usable - Len(Contents))
  BY RingFacts, ContentsFacts DEF Least, Fifo!Shorter
<1>5. QED
  BY <1>1, <1>2, <1>3, <1>4 DEF Fifo!Call

(* Its store of tail puts all its frames behind the queue. *)
LEMMA PushPublishSeen ==
  ASSUME RingInv, LoopsInv, PushPublish
  PROVE  Fifo!Publish
<1>1. /\ accepted \in Nat /\ Used \in Nat /\ Used + accepted <= Usable /\ Usable < Modulus /\ Usable \in Nat
      /\ Used + accepted \in 0 .. Cap /\ accepted \in 0 .. Len(src) /\ Len(src) \in Nat
      /\ src \in Seq(Frame) /\ src \in Seq(Sample) /\ slots \in [0 .. Cap - 1 -> Sample]
      /\ head \in Counter /\ Modulus \in Nat
  BY RingFacts, SeqMonotonic DEF PushPublish, Sample
<1>2. Used' = Used + accepted
  <2>1. accepted \in Nat /\ Used + accepted < Modulus
    BY <1>1
  <2>2. Distance(head, Advance(tail, accepted)) = Used + accepted
    BY <2>1, BehindTail
  <2>3. QED
    BY <2>2 DEF PushPublish, Used
<1>3. \A i \in 0 .. accepted - 1 : slots[SlotOf(Advance(tail, i))] = src[i + 1]
  BY DEF LoopsInv, PushPublish
<1> DEFINE t == SubSeq(src, 1, accepted)
           q == Slice(slots, head, Used)
           r == Slice(slots, head, Used + accepted)
<1>4. t \in Seq(Sample) /\ Len(t) = accepted /\ \A i \in 1 .. accepted : t[i] = src[i]
  <2>1. \A i \in 1 .. accepted : src[i] \in Sample
    BY <1>1, ElementOfSeq
  <2>2. t \in Seq(Sample) /\ Len(t) = (IF 1 <= accepted THEN accepted - 1 + 1 ELSE 0)
        /\ \A i \in 1 .. accepted - 1 + 1 : t[i] = src[1 + i - 1]
    BY <1>1, <2>1, SubSeqProperties
  <2> HIDE DEF t
  <2>3. QED
    BY <1>1, <2>2
<1>5. /\ q \in Seq(Sample) /\ Len(q) = Used
      /\ \A i \in 1 .. Used : q[i] = slots[SlotOf(Advance(head, i - 1))]
  <2>1. Used \in 0 .. Cap
    BY <1>1, CapAssumption
  <2>2. QED
    BY <1>1, <2>1, SliceFacts
<1>6. /\ r \in Seq(Sample) /\ Len(r) = Used + accepted
      /\ \A i \in 1 .. Used + accepted : r[i] = slots[SlotOf(Advance(head, i - 1))]
  BY <1>1, SliceFacts
<1>7. Contents = q /\ Contents' = r
  <2>1. Contents' = Slice(slots', head', Used')
    BY DEF Contents, Slice
  <2>2. QED
    BY <1>2, <2>1, ContentsFacts DEF PushPublish
<1> HIDE DEF t, q, r
<1>8. r = q \o t
  <2>1. /\ q \o t \in Seq(Sample) /\ Len(q \o t) = Used + accepted
        /\ \A i \in 1 .. Used + accepted : (q \o t)[i] = IF i <= Used THEN q[i] ELSE t[i - Used]
    BY <1>4, <1>5, ConcatProperties
  <2>2. ASSUME NEW i \in 1 .. Used + accepted PROVE r[i] = (q \o t)[i]
    <3>1. CASE i <= Used
      <4>1. i \in 1 .. Used
        BY <1>1, <3>1
      <4>2. QED
        BY <1>5, <1>6, <2>1, <3>1, <4>1
    <3>2. CASE ~(i <= Used)
      <4>1. /\ i - Used \in 1 .. accepted /\ i - Used - 1 \in 0 .. accepted - 1
            /\ Used + (i - Used - 1) = i - 1 /\ (i - Used - 1) + 1 = i - Used
        BY <1>1, <3>2
      <4>2. Advance(head, i - 1) = Advance(tail, i - Used - 1)
        <5>1. i - Used - 1 \in Nat /\ Used + (i - Used - 1) < Modulus
          <6>1. i \in Int /\ i <= Used + accepted
            BY <1>1
          <6>2. i - 1 < Modulus
            BY <1>1, <6>1
          <6>3. QED
            BY <4>1, <6>2
        <5>2. Advance(head, Used + (i - Used - 1)) = Advance(tail, i - Used - 1)
          BY <5>1, BehindTail
        <5>3. QED
          BY <4>1, <5>2
      <4>3. slots[SlotOf(Advance(tail, i - Used - 1))] = src[i - Used]
        BY <1>3, <4>1
      <4>4. QED
        BY <1>4, <1>6, <2>1, <3>2, <4>1, <4>2, <4>3
    <3>3. QED
      BY <3>1, <3>2
  <2>3. QED
    BY <1>6, <2>1, <2>2, SeqEqual
<1>9. src # <<>> /\ src' = <<>> /\ accepted' = 0 /\ UNCHANGED <<want, take, cpc, out>>
  BY DEF PushPublish, LoopsInv, consumer
<1>10. QED
  BY <1>7, <1>8, <1>9 DEF Fifo!Publish, t

(* A block is asked for when the callback has loaded both counters. *)
LEMMA RenderBeginSeen ==
  ASSUME RingInv, LoopsInv, NEW w \in 1 .. MaxWant, RenderBegin(w)
  PROVE  Fifo!Ask
<1>1. Contents' = Contents /\ UNCHANGED <<src, accepted>>
  BY SameContents DEF RenderBegin, shared, producer
<1>2. want = 0 /\ want' = w /\ take' = Take(w) /\ cpc' = "drain"
  BY DEF RenderBegin, LoopsInv
<1>3. Take(w) = Fifo!Shorter(w, Len(Contents))
  <2>1. Len(Contents) = Used /\ Used \in Nat /\ w \in Nat
    BY RingFacts, ContentsFacts
  <2>2. QED
    BY <2>1 DEF Take, Least, Fifo!Shorter
<1>4. QED
  BY <1>1, <1>2, <1>3 DEF Fifo!Ask

(* Its store of head takes off the queue what the block holds. *)
LEMMA RenderPublishSeen ==
  ASSUME RingInv, LoopsInv, RenderPublish
  PROVE  Fifo!Deliver
<1>1. /\ take \in Nat /\ Used \in Nat /\ take <= Used /\ Used < Modulus /\ Used \in 0 .. Cap
      /\ Used - take \in 0 .. Cap /\ Len(out) = take /\ out \in Seq(Sample)
      /\ slots \in [0 .. Cap - 1 -> Sample] /\ head \in Counter /\ tail \in Counter
      /\ Modulus \in Nat /\ want \in Nat /\ take <= want
  <2>1. cpc = "drain" /\ Len(out) = take
    BY DEF RenderPublish
  <2>2. /\ Used \in 0 .. Usable /\ Usable \in Nat /\ Usable = Cap - 1 /\ Cap \in Nat
        /\ Usable < Modulus /\ Modulus \in Nat /\ want \in Nat /\ take \in 0 .. want
        /\ take <= Used
    BY <2>1, RingFacts
  <2>3. /\ out \in Seq(Sample) /\ slots \in [0 .. Cap - 1 -> Sample]
        /\ head \in Counter /\ tail \in Counter
    BY RingFacts
  <2>4. QED
    BY <2>1, <2>2, <2>3
<1>2. Used' = Used - take /\ Advance(head, take) \in Counter
  <2>1. Advance(head, take) \in Counter /\ Distance(Advance(head, take), tail) = Distance(head, tail) - take
    <3>1. take <= Distance(head, tail)
      BY <1>1 DEF Used
    <3>2. QED
      BY <1>1, <3>1, DistanceFacts
  <2>2. head' = Advance(head, take) /\ tail' = tail
    BY DEF RenderPublish
  <2>3. QED
    BY <2>1, <2>2 DEF Used
<1> DEFINE q == Slice(slots, head, Used)
           r == Slice(slots, Advance(head, take), Used - take)
<1>3. /\ q \in Seq(Sample) /\ Len(q) = Used
      /\ \A i \in 1 .. Used : q[i] = slots[SlotOf(Advance(head, i - 1))]
  BY <1>1, SliceFacts
<1>4. /\ r \in Seq(Sample) /\ Len(r) = Used - take
      /\ \A i \in 1 .. Used - take : r[i] = slots[SlotOf(Advance(Advance(head, take), i - 1))]
  BY <1>1, <1>2, SliceFacts
<1>5. Contents = q /\ Contents' = r
  <2>1. Contents' = Slice(slots', head', Used')
    BY DEF Contents, Slice
  <2>2. QED
    BY <1>2, <2>1, ContentsFacts DEF RenderPublish
<1> HIDE DEF q, r
<1>6. SubSeq(q, 1, take) = out
  <2> DEFINE s == SubSeq(q, 1, take)
  <2>1. \A i \in 1 .. take : q[i] \in Sample
    BY <1>1, <1>3, ElementOfSeq
  <2>2. s \in Seq(Sample) /\ Len(s) = take /\ \A i \in 1 .. take : s[i] = q[i]
    <3>1. s \in Seq(Sample) /\ Len(s) = (IF 1 <= take THEN take - 1 + 1 ELSE 0)
          /\ \A i \in 1 .. take - 1 + 1 : s[i] = q[1 + i - 1]
      BY <1>1, <2>1, SubSeqProperties
    <3> HIDE DEF s
    <3>2. QED
      BY <1>1, <3>1
  <2> HIDE DEF s
  <2>3. ASSUME NEW i \in 1 .. take PROVE s[i] = out[i]
    <3>1. i - 1 \in 0 .. Len(out) - 1 /\ i \in 1 .. Used /\ (i - 1) + 1 = i
      BY <1>1
    <3>2. slots[SlotOf(Advance(head, i - 1))] = out[(i - 1) + 1]
      BY <3>1 DEF LoopsInv, RenderPublish
    <3>3. QED
      BY <1>3, <2>2, <3>1, <3>2
  <2>4. s = out
    BY <1>1, <2>2, <2>3, SeqEqual
  <2>5. QED
    BY <2>4 DEF s
<1>7. SubSeq(q, take + 1, Used) = r
  <2> DEFINE s == SubSeq(q, take + 1, Used)
  <2>1. \A i \in take + 1 .. Used : q[i] \in Sample
    BY <1>1, <1>3, ElementOfSeq
  <2>2. s \in Seq(Sample) /\ Len(s) = Used - take
        /\ \A i \in 1 .. Used - take : s[i] = q[take + i]
    <3>1. s \in Seq(Sample) /\ Len(s) = (IF take + 1 <= Used THEN Used - (take + 1) + 1 ELSE 0)
          /\ \A i \in 1 .. Used - (take + 1) + 1 : s[i] = q[take + 1 + i - 1]
      BY <1>1, <2>1, SubSeqProperties
    <3> HIDE DEF s
    <3>2. QED
      BY <1>1, <3>1
  <2> HIDE DEF s
  <2>3. ASSUME NEW i \in 1 .. Used - take PROVE s[i] = r[i]
    <3>1. take + i \in 1 .. Used /\ i - 1 \in Nat /\ take + (i - 1) < Modulus
          /\ take + (i - 1) = (take + i) - 1
      BY <1>1
    <3>2. Advance(Advance(head, take), i - 1) = Advance(head, (take + i) - 1)
      BY <1>1, <3>1, AdvanceTwice
    <3>3. q[take + i] = slots[SlotOf(Advance(head, (take + i) - 1))]
      BY <1>3, <3>1
    <3>4. QED
      BY <1>4, <2>2, <3>2, <3>3
  <2>4. s = r
    BY <1>1, <1>4, <2>2, <2>3, SeqEqual
  <2>5. QED
    BY <2>4 DEF s
<1>8. /\ want # 0 /\ want' = 0 /\ take' = 0 /\ cpc' = "idle" /\ cpc # "idle"
      /\ out' = out \o [i \in 1 .. want - take |-> Silence] /\ UNCHANGED <<src, accepted>>
  BY DEF RenderPublish, LoopsInv, producer
<1>9. QED
  BY <1>3, <1>5, <1>6, <1>7, <1>8 DEF Fifo!Deliver

(* The ring is opened empty. *)
LEMMA QueueInit == Init => Fifo!Init
<1> SUFFICES ASSUME Init PROVE Fifo!Init
  OBVIOUS
<1>1. Used = 0
  BY DEF Init, Used, Distance
<1>2. Contents = <<>>
  <2>1. Contents = [i \in 1 .. 0 |-> slots[SlotOf(Advance(head, i - 1))]]
    BY <1>1 DEF Contents
  <2>2. QED
    BY <2>1
<1>3. QED
  BY <1>2 DEF Init, Fifo!Init

(* The ring is a first-in first-out queue of Cap - 1 frames: whatever the  *)
(* size of the ring, the laps of its counters and the frames pushed, and   *)
(* however the two sides' loads, copies and stores interleave, the frames  *)
(* a push accepted are rendered once each, in order and untorn, and a      *)
(* block has silence only behind the last frame there was.                 *)
THEOREM RingIsQueue == Spec => FifoSpec
<1>1. ASSUME RingInv, LoopsInv, [Next]_vars
      PROVE  [Fifo!Next]_(Fifo!fifoVars)
  <2>1. CASE QuerySpace \/ UNCHANGED vars
    <3>1. UNCHANGED <<slots, head, tail, src, accepted, want, take, cpc, out>>
      BY <2>1 DEF QuerySpace, vars, shared, producer, consumer
    <3>2. QED
      BY <3>1, SameContents DEF Fifo!fifoVars
  <2>2. ASSUME NEW s \in PushSources, PushBegin(s) PROVE [Fifo!Next]_(Fifo!fifoVars)
    BY <1>1, <2>2, PushBeginSeen DEF Fifo!Next
  <2>3. CASE PushFrame
    BY <1>1, <2>3, PushFrameSeen
  <2>4. CASE PushPublish
    BY <1>1, <2>4, PushPublishSeen DEF Fifo!Next
  <2>5. ASSUME NEW w \in 1 .. MaxWant, RenderBegin(w) PROVE [Fifo!Next]_(Fifo!fifoVars)
    BY <1>1, <2>5, RenderBeginSeen DEF Fifo!Next
  <2>6. CASE RenderFrame
    <3>1. UNCHANGED <<slots, head, tail, src, accepted, want, take, cpc>> /\ cpc # "idle"
      BY <2>6 DEF RenderFrame, shared, producer
    <3>2. QED
      BY <3>1, SameContents DEF Fifo!fifoVars
  <2>7. CASE RenderPublish
    BY <1>1, <2>7, RenderPublishSeen DEF Fifo!Next
  <2>8. QED
    BY <1>1, <2>1, <2>2, <2>3, <2>4, <2>5, <2>6, <2>7 DEF Next, Producer, Consumer
<1>2. RingInv /\ LoopsInv /\ [Next]_vars => RingInv' /\ LoopsInv'
  BY InvNext, LoopsNext
<1>3. Init => RingInv /\ LoopsInv /\ Fifo!Init
  BY InvInit, LoopsInit, QueueInit
<1>4. QED
  BY <1>1, <1>2, <1>3, PTL DEF Spec, FifoSpec, Fifo!Spec
=============================================================================
