--------------------------- MODULE GuestLib_proofs ---------------------------
(***************************************************************************)
(* Proofs about GuestLib.  RegistersKept, HoldsCounted and InPlace, which  *)
(* the run guest_lib checks, hold for every graph of libraries, if turns   *)
(* end outside library code (~Preempt).                                    *)
(*                                                                         *)
(* None of them is inductive: each needs the others.  Registers come back  *)
(* because no slot is in two calls; a library that is closed is not one    *)
(* that waits in its own expunge, because an expunge begins when the image *)
(* counts no base; and it counts what the holders have of it.  IndInv says *)
(* all that: Control of the stack of calls, Places of what each call and   *)
(* slot knows of guest memory, Tallied of who holds what.  Holders are     *)
(* counted as in References, once for the libraries that list bases (Refs: *)
(* a close in flight is one) and once for the images that count them       *)
(* (Count: a base is counted from its Open to its Close).                  *)
(***************************************************************************)
EXTENDS GuestLib, FiniteSetTheorems, SequenceTheorems, FunctionTheorems, TLAPS

-----------------------------------------------------------------------------
(* How often the members of B occur in a sequence *)

Positions(s, B) == {k \in DOMAIN s : s[k] \in B}
Occ(s, B) == Cardinality(Positions(s, B))

(* The positions of a sequence. *)
LEMMA SeqFacts ==
    ASSUME NEW S, NEW s \in Seq(S)
    PROVE  /\ Len(s) \in Nat /\ DOMAIN s = 1 .. Len(s)
           /\ \A k \in 1 .. Len(s) : s[k] \in S
           /\ s = <<>> <=> Len(s) = 0
  BY LenProperties, ElementOfSeq, EmptySeq

(* A count is a number, 0 exactly if nothing counted occurs. *)
LEMMA OccFacts ==
    ASSUME NEW S, NEW s \in Seq(S), NEW B
    PROVE  /\ IsFiniteSet(Positions(s, B)) /\ Occ(s, B) \in Nat
           /\ Occ(s, B) = 0 <=> \A k \in 1 .. Len(s) : s[k] \notin B
<1>1. DOMAIN s = 1 .. Len(s) /\ Len(s) \in Nat
  BY SeqFacts
<1>2. IsFiniteSet(1 .. Len(s)) /\ Positions(s, B) \in SUBSET (1 .. Len(s))
  BY <1>1, FS_Interval DEF Positions
<1>3. IsFiniteSet(Positions(s, B)) /\ Occ(s, B) \in Nat
  BY <1>2, FS_Subset, FS_CardinalityType DEF Occ
<1>4. Occ(s, B) = 0 <=> Positions(s, B) = {}
  BY <1>3, FS_EmptySet DEF Occ
<1>. QED
  BY <1>1, <1>3, <1>4 DEF Positions

(* An empty sequence has none. *)
LEMMA OccEmpty == \A B : Positions(<<>>, B) = {} /\ Occ(<<>>, B) = 0
  BY FS_EmptySet DEF Positions, Occ

(* A sequence of one. *)
LEMMA OccOne ==
    ASSUME NEW b, NEW B
    PROVE  Occ(<<b>>, B) = IF b \in B THEN 1 ELSE 0
<1>1. DOMAIN <<b>> = {1} /\ <<b>>[1] = b
  OBVIOUS
<1>2. Positions(<<b>>, B) = IF b \in B THEN {1} ELSE {}
  BY <1>1 DEF Positions
<1>. QED
  BY <1>2, FS_EmptySet, FS_Singleton DEF Occ

(* One more at the end. *)
LEMMA OccAppend ==
    ASSUME NEW S, NEW s \in Seq(S), NEW b \in S, NEW B
    PROVE  Occ(Append(s, b), B) = Occ(s, B) + IF b \in B THEN 1 ELSE 0
<1>1. Len(s) \in Nat /\ DOMAIN s = 1 .. Len(s)
  BY SeqFacts
<1>2. /\ DOMAIN Append(s, b) = 1 .. Len(s) + 1 /\ Append(s, b)[Len(s) + 1] = b
      /\ \A k \in 1 .. Len(s) : Append(s, b)[k] = s[k]
  BY <1>1, AppendProperties
<1>3. IsFiniteSet(Positions(s, B)) /\ Occ(s, B) \in Nat
  BY OccFacts
<1>4. Len(s) + 1 \notin Positions(s, B)
  BY <1>1 DEF Positions
<1>5. CASE b \in B
  <2>1. Positions(Append(s, b), B) = Positions(s, B) \cup {Len(s) + 1}
    BY <1>1, <1>2, <1>5 DEF Positions
  <2>2. Cardinality(Positions(s, B) \cup {Len(s) + 1}) = Cardinality(Positions(s, B)) + 1
    BY <1>3, <1>4, FS_AddElement
  <2>. QED
    BY <1>5, <2>1, <2>2 DEF Occ
<1>6. CASE b \notin B
  <2>1. Positions(Append(s, b), B) = Positions(s, B)
    BY <1>1, <1>2, <1>6 DEF Positions
  <2>. QED
    BY <1>3, <1>6, <2>1 DEF Occ
<1>. QED
  BY <1>5, <1>6

(* Two sequences of the same length and values are the same. *)
LEMMA SameSeq ==
    ASSUME NEW S, NEW s \in Seq(S), NEW t \in Seq(S), Len(s) = Len(t),
           \A k \in 1 .. Len(s) : s[k] = t[k]
    PROVE  s = t
  BY SeqEqual

(* The last taken off, as a close of what was opened last does. *)
Front(s) == SubSeq(s, 1, Len(s) - 1)

(* All but the last of a sequence. *)
LEMMA FrontFacts ==
    ASSUME NEW S, NEW s \in Seq(S), s # <<>>
    PROVE  /\ Front(s) \in Seq(S) /\ s[Len(s)] \in S /\ Len(Front(s)) = Len(s) - 1
           /\ s = Append(Front(s), s[Len(s)]) /\ Len(s) \in Nat \ {0}
           /\ \A k \in 1 .. Len(Front(s)) : Front(s)[k] = s[k]
<1>1. Len(s) \in Nat \ {0} /\ Len(s) \in Nat /\ Len(s) >= 1
  BY SeqFacts
<1>2. /\ Front(s) \in Seq(S) /\ Len(Front(s)) = Len(s) - 1
      /\ \A k \in 1 .. Len(Front(s)) : Front(s)[k] = s[k]
  <2>1. \A i \in 1 .. Len(s) - 1 : s[i] \in S
    BY <1>1, SeqFacts
  <2>2. 1 \in Int /\ Len(s) - 1 \in Int /\ Len(s) - 1 - 1 + 1 = Len(s) - 1
    BY <1>1
  <2>3. /\ SubSeq(s, 1, Len(s) - 1) \in Seq(S)
        /\ Len(SubSeq(s, 1, Len(s) - 1)) =
             IF 1 <= Len(s) - 1 THEN Len(s) - 1 - 1 + 1 ELSE 0
        /\ \A i \in 1 .. Len(s) - 1 - 1 + 1 : SubSeq(s, 1, Len(s) - 1)[i] = s[1 + i - 1]
    BY <2>1, <2>2, SubSeqProperties
  <2>4. /\ Front(s) \in Seq(S)
        /\ Len(Front(s)) = IF 1 <= Len(s) - 1 THEN Len(s) - 1 - 1 + 1 ELSE 0
        /\ \A i \in 1 .. Len(s) - 1 - 1 + 1 : Front(s)[i] = s[1 + i - 1]
    BY <2>3, Zenon DEF Front
  <2>5. \A n \in Nat : n >= 1 => /\ (IF 1 <= n - 1 THEN n - 1 - 1 + 1 ELSE 0) = n - 1
                                 /\ \A k \in 1 .. n - 1 : k \in 1 .. n - 1 - 1 + 1 /\ 1 + k - 1 = k
    OBVIOUS
  <2>. QED
    BY <1>1, <2>4, <2>5, Zenon
<1>3. s[Len(s)] \in S
  BY <1>1, SeqFacts
<1>4. /\ Append(Front(s), s[Len(s)]) \in Seq(S) /\ Len(Append(Front(s), s[Len(s)])) = Len(s)
      /\ \A k \in 1 .. Len(s) : Append(Front(s), s[Len(s)])[k] = s[k]
  BY <1>1, <1>2, <1>3, AppendProperties
<1>5. s = Append(Front(s), s[Len(s)])
  BY <1>4, SameSeq
<1>. QED
  BY <1>1, <1>2, <1>3, <1>5

(* What it takes away from the count. *)
LEMMA OccFront ==
    ASSUME NEW S, NEW s \in Seq(S), s # <<>>, NEW B
    PROVE  Occ(s, B) = Occ(Front(s), B) + IF s[Len(s)] \in B THEN 1 ELSE 0
<1>1. Front(s) \in Seq(S) /\ s[Len(s)] \in S /\ s = Append(Front(s), s[Len(s)])
  BY FrontFacts
<1>2. Occ(Append(Front(s), s[Len(s)]), B) = Occ(Front(s), B) + IF s[Len(s)] \in B THEN 1 ELSE 0
  BY <1>1, OccAppend
<1>. QED
  BY <1>1, <1>2

(* Lowest finds the least number of a set of indices. *)
LEMMA LowestFacts ==
    ASSUME NEW n \in Nat, NEW A \in SUBSET (1 .. n), A # {}
    PROVE  Lowest(A) \in A /\ \A k \in A : Lowest(A) <= k
<1>. DEFINE I == 1 .. n
            P == {1 .. k : k \in A}
<1>1. \A k \in A : k \in Nat /\ 1 .. k \subseteq I /\ IsFiniteSet(1 .. k)
  <2>. TAKE k \in A
  <2>1. k \in Nat /\ k >= 1 /\ k <= n
    OBVIOUS
  <2>2. IsFiniteSet(1 .. k)
    BY <2>1, FS_Interval
  <2>. QED
    BY <2>1, <2>2
<1>2. P \subseteq FiniteSubsetsOf(I) /\ P # {}
  BY <1>1 DEF FiniteSubsetsOf
<1>3. IsWellFoundedOn(StrictSubsetOrdering(I), FiniteSubsetsOf(I))
  BY FS_StrictSubsetOrderingWellFounded
<1>4. PICK x \in P : \A y \in P : ~ (<<y, x>> \in StrictSubsetOrdering(I))
  <2>. HIDE DEF P, I
  <2>. QED
    BY <1>2, <1>3, WFMin
<1>5. PICK m \in A : x = 1 .. m
  OBVIOUS
<1>6. ASSUME NEW k \in A, k < m PROVE FALSE
  <2>1. 1 .. k \in P /\ 1 .. k \subseteq 1 .. m /\ 1 .. m \subseteq I
    BY <1>6, <1>1
  <2>2. m \in 1 .. m /\ m \notin 1 .. k
    BY <1>6, <1>1
  <2>3. <<1 .. k, x>> \in StrictSubsetOrdering(I)
    BY <2>1, <2>2, <1>5 DEF StrictSubsetOrdering
  <2>. QED
    BY <2>1, <2>3, <1>4
<1>7. \A k \in A : m <= k
  BY <1>1, <1>6
<1>. QED
  BY <1>7 DEF Lowest

(* Two pieces around position k, put together: the rest keeps its order. *)
LEMMA Spliced ==
    ASSUME NEW S, NEW s \in Seq(S), NEW k \in 1 .. Len(s)
    PROVE  LET t == SubSeq(s, 1, k - 1) \o SubSeq(s, k + 1, Len(s))
           IN  /\ t \in Seq(S) /\ Len(t) = Len(s) - 1
               /\ \A j \in 1 .. Len(t) : t[j] = IF j < k THEN s[j] ELSE s[j + 1]
<1>1. Len(s) \in Nat /\ k \in Nat /\ k >= 1 /\ k <= Len(s)
  BY SeqFacts
<1>2. \A i \in 1 .. Len(s) : s[i] \in S
  BY SeqFacts
<1>3. /\ SubSeq(s, 1, k - 1) \in Seq(S)
      /\ Len(SubSeq(s, 1, k - 1)) = k - 1
      /\ \A i \in 1 .. k - 1 : SubSeq(s, 1, k - 1)[i] = s[i]
  <2>1. 1 \in Int /\ k - 1 \in Int /\ \A i \in 1 .. k - 1 : s[i] \in S
    BY <1>1, <1>2
  <2>2. /\ SubSeq(s, 1, k - 1) \in Seq(S)
        /\ Len(SubSeq(s, 1, k - 1)) = IF 1 <= k - 1 THEN k - 1 - 1 + 1 ELSE 0
        /\ \A i \in 1 .. k - 1 - 1 + 1 : SubSeq(s, 1, k - 1)[i] = s[1 + i - 1]
    BY <2>1, SubSeqProperties
  <2>. QED
    BY <1>1, <2>2
<1>4. /\ SubSeq(s, k + 1, Len(s)) \in Seq(S)
      /\ Len(SubSeq(s, k + 1, Len(s))) = Len(s) - k
      /\ \A i \in 1 .. Len(s) - k : SubSeq(s, k + 1, Len(s))[i] = s[k + i]
  <2>1. k + 1 \in Int /\ Len(s) \in Int /\ \A i \in k + 1 .. Len(s) : s[i] \in S
    BY <1>1, <1>2
  <2>2. /\ SubSeq(s, k + 1, Len(s)) \in Seq(S)
        /\ Len(SubSeq(s, k + 1, Len(s))) =
             IF k + 1 <= Len(s) THEN Len(s) - (k + 1) + 1 ELSE 0
        /\ \A i \in 1 .. Len(s) - (k + 1) + 1 :
             SubSeq(s, k + 1, Len(s))[i] = s[k + 1 + i - 1]
    BY <2>1, SubSeqProperties
  <2>. QED
    BY <1>1, <2>2
<1>. DEFINE u == SubSeq(s, 1, k - 1)
            v == SubSeq(s, k + 1, Len(s))
<1>5. /\ u \in Seq(S) /\ Len(u) = k - 1
      /\ \A i \in 1 .. k - 1 : u[i] = s[i]
  BY <1>3, Zenon
<1>6. /\ v \in Seq(S) /\ Len(v) = Len(s) - k
      /\ \A i \in 1 .. Len(s) - k : v[i] = s[k + i]
  BY <1>4, Zenon
<1>. HIDE DEF u, v
<1>7. /\ u \o v \in Seq(S) /\ Len(u \o v) = Len(u) + Len(v)
      /\ \A i \in 1 .. Len(u) + Len(v) : (u \o v)[i] = IF i <= Len(u) THEN u[i] ELSE v[i - Len(u)]
  BY <1>5, <1>6, ConcatProperties
<1>8. ASSUME NEW j \in 1 .. Len(s) - 1
      PROVE  (u \o v)[j] = IF j < k THEN s[j] ELSE s[j + 1]
  <2>1. CASE j < k
    BY <1>1, <1>5, <1>6, <1>7, <2>1
  <2>2. CASE j >= k
    <3>1. (u \o v)[j] = v[j - (k - 1)] /\ j - (k - 1) \in 1 .. Len(s) - k
      BY <1>1, <1>5, <1>6, <1>7, <2>2
    <3>2. v[j - (k - 1)] = s[k + (j - (k - 1))] /\ k + (j - (k - 1)) = j + 1
      BY <1>1, <1>6, <3>1
    <3>. QED
      BY <1>1, <2>2, <3>1, <3>2
  <2>3. j < k \/ j >= k
    BY <1>1
  <2>. QED
    BY <2>1, <2>2, <2>3, Zenon
<1>9. u \o v \in Seq(S) /\ Len(u \o v) = Len(s) - 1
  BY <1>1, <1>5, <1>6, <1>7
<1>. QED
  BY <1>8, <1>9 DEF u, v

(* Without position k, a member of B goes if that position had one. *)
LEMMA OccSpliced ==
    ASSUME NEW S, NEW s \in Seq(S), NEW t \in Seq(S), NEW k \in 1 .. Len(s), NEW B,
           Len(t) = Len(s) - 1,
           \A j \in 1 .. Len(t) : t[j] = IF j < k THEN s[j] ELSE s[j + 1]
    PROVE  Occ(s, B) = Occ(t, B) + IF s[k] \in B THEN 1 ELSE 0
<1>. DEFINE P == Positions(s, B) \ {k}
            f == [j \in P |-> IF j < k THEN j ELSE j - 1]
<1>1. /\ Len(s) \in Nat /\ DOMAIN s = 1 .. Len(s) /\ Len(t) \in Nat /\ DOMAIN t = 1 .. Len(t)
      /\ k \in Nat /\ k >= 1 /\ k <= Len(s)
  BY SeqFacts
<1>2. /\ IsFiniteSet(Positions(s, B)) /\ Occ(s, B) \in Nat
      /\ IsFiniteSet(Positions(t, B)) /\ Occ(t, B) \in Nat
  BY OccFacts
<1>3. IsFiniteSet(P) /\ Cardinality(P) = Occ(s, B) - IF s[k] \in B THEN 1 ELSE 0
  <2>1. k \in Positions(s, B) <=> s[k] \in B
    BY <1>1 DEF Positions
  <2>2. IsFiniteSet(P) /\ Cardinality(P) = IF k \in Positions(s, B)
                          THEN Cardinality(Positions(s, B)) - 1 ELSE Cardinality(Positions(s, B))
    BY <1>2, FS_RemoveElement
  <2>. QED
    BY <1>2, <2>1, <2>2 DEF Occ
<1>4. \A j : j \in P <=> j \in 1 .. Len(s) /\ s[j] \in B /\ j # k
  BY <1>1 DEF Positions
<1>5. \A j : j \in Positions(t, B) <=> j \in 1 .. Len(t) /\ t[j] \in B
  BY <1>1 DEF Positions
<1>. HIDE DEF P
<1>6. f \in [P -> Positions(t, B)]
  <2>1. ASSUME NEW j \in P PROVE (IF j < k THEN j ELSE j - 1) \in Positions(t, B)
    <3>1. CASE j < k
      BY <1>1, <1>4, <1>5, <3>1
    <3>2. CASE j > k
      <4>1. j - 1 \in 1 .. Len(t) /\ ~ (j - 1 < k) /\ (j - 1) + 1 = j
        BY <1>1, <1>4, <3>2
      <4>2. t[j - 1] = s[j]
        BY <4>1
      <4>. QED
        BY <1>1, <1>4, <1>5, <3>2, <4>1, <4>2
    <3>. QED
      BY <1>1, <1>4, <3>1, <3>2
  <2>. QED
    BY <2>1
<1>7. \A i, j \in P : f[i] = f[j] => i = j
  BY <1>1, <1>4
<1>8. \A q \in Positions(t, B) : \E j \in P : f[j] = q
  <2>. SUFFICES ASSUME NEW q \in Positions(t, B) PROVE \E j \in P : f[j] = q
    OBVIOUS
  <2>1. CASE q < k
    <3>1. q \in P
      BY <1>1, <1>4, <1>5, <2>1
    <3>. QED
      BY <2>1, <3>1
  <2>2. CASE q >= k
    <3>1. q + 1 \in P
      BY <1>1, <1>4, <1>5, <2>2
    <3>2. f[q + 1] = q
      BY <1>1, <1>5, <2>2, <3>1
    <3>. QED
      BY <3>1, <3>2
  <2>. QED
    BY <1>1, <1>5, <2>1, <2>2
<1>9. f \in Bijection(P, Positions(t, B))
  BY <1>6, <1>7, <1>8, Fun_IsBij
<1>10. Cardinality(Positions(t, B)) = Cardinality(P)
  <2>. HIDE DEF f
  <2>. QED
    BY <1>3, <1>9, FS_Bijection DEF ExistsBijection
<1>. QED
  BY <1>2, <1>3, <1>10 DEF Occ

(* DropOne takes one reference away if there is one, and adds nothing. *)
LEMMA DropFacts ==
    ASSUME NEW S, NEW s \in Seq(S), NEW b
    PROVE  /\ DropOne(s, b) \in Seq(S)
           /\ \A k \in 1 .. Len(DropOne(s, b)) : \E j \in 1 .. Len(s) : DropOne(s, b)[k] = s[j]
           /\ (\A j \in 1 .. Len(s) : s[j] # b) => DropOne(s, b) = s
           /\ \A j \in 1 .. Len(s) : s[j] = b =>
                \A B : Occ(s, B) = Occ(DropOne(s, b), B) + IF b \in B THEN 1 ELSE 0
<1>1. Len(s) \in Nat /\ DOMAIN s = 1 .. Len(s)
  BY SeqFacts
<1>2. CASE \A j \in 1 .. Len(s) : s[j] # b
  BY <1>1, <1>2 DEF DropOne
<1>3. CASE \E j \in 1 .. Len(s) : s[j] = b
  <2>. DEFINE A == {j \in DOMAIN s : s[j] = b}
              k == Lowest(A)
              t == SubSeq(s, 1, k - 1) \o SubSeq(s, k + 1, Len(s))
  <2>1. A # {} /\ A \in SUBSET (1 .. Len(s))
    BY <1>1, <1>3
  <2>2. k \in A
    <3>. HIDE DEF A
    <3>. QED
      BY <1>1, <2>1, LowestFacts
  <2>3. k \in 1 .. Len(s) /\ s[k] = b
    BY <1>1, <2>2
  <2>4. DropOne(s, b) = t
    BY <1>1, <1>3 DEF DropOne
  <2>. HIDE DEF k, A
  <2>5. /\ t \in Seq(S) /\ Len(t) = Len(s) - 1
        /\ \A j \in 1 .. Len(t) : t[j] = IF j < k THEN s[j] ELSE s[j + 1]
    BY <2>3, Spliced
  <2>. HIDE DEF t
  <2>6. \A B : Occ(s, B) = Occ(t, B) + IF s[k] \in B THEN 1 ELSE 0
    <3>. TAKE B
    <3>1. k \in 1 .. Len(s) /\ t \in Seq(S) /\ Len(t) = Len(s) - 1
      BY <2>3, <2>5
    <3>. QED
      BY <3>1, <2>5, OccSpliced
  <2>7. \A i \in 1 .. Len(t) : \E j \in 1 .. Len(s) : t[i] = s[j]
    <3>. SUFFICES ASSUME NEW i \in 1 .. Len(t) PROVE \E j \in 1 .. Len(s) : t[i] = s[j]
      OBVIOUS
    <3>1. i \in 1 .. Len(s) /\ i + 1 \in 1 .. Len(s)
      BY <1>1, <2>5
    <3>2. t[i] = s[i] \/ t[i] = s[i + 1]
      BY <2>5
    <3>. QED
      BY <3>1, <3>2
  <2>. QED
    BY <1>3, <2>3, <2>4, <2>5, <2>6, <2>7
<1>. QED
  BY <1>2, <1>3

-----------------------------------------------------------------------------
(* How often the members of B occur in the sequences of the holders in X:    *)
(* f[h] is what holder h holds.                                              *)

Spots(f, X, B) == {r \in X \X Nat : r[2] \in DOMAIN f[r[1]] /\ f[r[1]][r[2]] \in B}
Tally(f, X, B) == Cardinality(Spots(f, X, B))
Table(f, H, S, X) == f \in [H -> Seq(S)] /\ X \in SUBSET H
Filled(f, H, S) == f \in [H -> Seq(S)] /\ IsFiniteSet(Spots(f, H, S))
Share(f, X, p, B) == IF p \in X THEN Occ(f[p], B) ELSE 0

(* A spot is a place in a holder's sequence. *)
LEMMA SpotIn ==
    ASSUME NEW H, NEW S, NEW f \in [H -> Seq(S)], NEW X \in SUBSET H, NEW B
    PROVE  /\ \A r \in Spots(f, X, B) : /\ r = <<r[1], r[2]>> /\ r[1] \in X
                                        /\ r[2] \in 1 .. Len(f[r[1]]) /\ f[r[1]][r[2]] \in B
           /\ \A h \in X : \A k \in 1 .. Len(f[h]) :
                f[h][k] \in B => <<h, k>> \in Spots(f, X, B)
<1>1. \A h \in X : DOMAIN f[h] = 1 .. Len(f[h]) /\ Len(f[h]) \in Nat
  <2>. TAKE h \in X
  <2>1. f[h] \in Seq(S)
    OBVIOUS
  <2>. QED
    BY <2>1, SeqFacts
<1>2. \A r \in Spots(f, X, B) : /\ r = <<r[1], r[2]>> /\ r[1] \in X
                                /\ r[2] \in 1 .. Len(f[r[1]]) /\ f[r[1]][r[2]] \in B
  BY <1>1 DEF Spots
<1>3. ASSUME NEW h \in X, NEW k \in 1 .. Len(f[h]), f[h][k] \in B
      PROVE  <<h, k>> \in Spots(f, X, B)
  <2>1. k \in Nat /\ k \in DOMAIN f[h]
    BY <1>1
  <2>. QED
    BY <1>3, <2>1 DEF Spots
<1>. QED
  BY <1>2, <1>3

(* The spots of some of the holders are some of all spots. *)
LEMMA SpotsFinite ==
    ASSUME NEW H, NEW S, NEW f, Filled(f, H, S), NEW X \in SUBSET H, NEW B
    PROVE  IsFiniteSet(Spots(f, X, B)) /\ Tally(f, X, B) \in Nat
<1>1. \A h \in X : \A k \in DOMAIN f[h] : f[h][k] \in S
  <2>. TAKE h \in X
  <2>1. f[h] \in Seq(S)
    BY DEF Filled
  <2>. QED
    BY <2>1, SeqFacts
<1>2. Spots(f, X, B) \in SUBSET Spots(f, H, S)
  BY <1>1 DEF Spots
<1>3. IsFiniteSet(Spots(f, X, B))
  BY <1>2, FS_Subset DEF Filled
<1>. QED
  BY <1>3, FS_CardinalityType DEF Tally

(* More holders, or more to look for, do not make fewer spots. *)
LEMMA TallyMore ==
    ASSUME NEW H, NEW S, NEW f, Filled(f, H, S), NEW X \in SUBSET H, NEW Y \in SUBSET H,
           X \subseteq Y, NEW B, NEW D,
           \A h \in X : \A k \in 1 .. Len(f[h]) : f[h][k] \in B => f[h][k] \in D
    PROVE  Tally(f, X, B) <= Tally(f, Y, D)
<1>1. IsFiniteSet(Spots(f, Y, D))
  BY SpotsFinite
<1>2. f \in [H -> Seq(S)]
  BY DEF Filled
<1>3. Spots(f, X, B) \in SUBSET Spots(f, Y, D)
  <2>. SUFFICES ASSUME NEW r \in Spots(f, X, B) PROVE r \in Spots(f, Y, D)
    OBVIOUS
  <2>1. /\ r = <<r[1], r[2]>> /\ r[1] \in X
        /\ r[2] \in 1 .. Len(f[r[1]]) /\ f[r[1]][r[2]] \in B
    BY <1>2, SpotIn
  <2>2. f[r[1]][r[2]] \in D /\ r[1] \in Y
    BY <2>1
  <2>3. <<r[1], r[2]>> \in Spots(f, Y, D)
    BY <1>2, <2>1, <2>2, SpotIn
  <2>. QED
    BY <2>1, <2>3
<1>. QED
  BY <1>1, <1>3, FS_Subset DEF Tally

(* Holders that keep or lose what they hold do not add to the tally. *)
LEMMA TallyLess ==
    ASSUME NEW H, NEW S, NEW f, Filled(f, H, S), NEW g \in [H -> Seq(S)],
           NEW X \in SUBSET H, NEW B,
           \A h \in X : g[h] = f[h] \/ g[h] = <<>>
    PROVE  IsFiniteSet(Spots(g, X, B)) /\ Tally(g, X, B) <= Tally(f, X, B)
           /\ Tally(g, X, B) \in Nat
<1>1. IsFiniteSet(Spots(f, X, B))
  BY SpotsFinite
<1>2. \A h \in X : \A k \in DOMAIN g[h] : g[h] = f[h]
  OBVIOUS
<1>3. Spots(g, X, B) \in SUBSET Spots(f, X, B)
  BY <1>2 DEF Spots
<1>4. IsFiniteSet(Spots(g, X, B)) /\ Tally(g, X, B) <= Tally(f, X, B)
  BY <1>1, <1>3, FS_Subset DEF Tally
<1>. QED
  BY <1>4, FS_CardinalityType DEF Tally

(* The tally of a holder and that of the others. *)
LEMMA TallySplit ==
    ASSUME NEW H, NEW S, NEW f, NEW X, Table(f, H, S, X), NEW p, p \in X, NEW B,
           IsFiniteSet(Spots(f, X \ {p}, B))
    PROVE  /\ IsFiniteSet(Spots(f, X, B))
           /\ Tally(f, X, B) = Tally(f, X \ {p}, B) + Occ(f[p], B)
<1>. DEFINE P == Positions(f[p], B)
            Q == {p} \X P
            m == [k \in P |-> <<p, k>>]
<1>1. f[p] \in Seq(S) /\ X \ {p} \in SUBSET H
  BY DEF Table
<1>2. IsFiniteSet(P) /\ Occ(f[p], B) \in Nat /\ Occ(f[p], B) = Cardinality(P)
  BY <1>1, OccFacts DEF Occ
<1>3. P \in SUBSET Nat /\ P = {k \in DOMAIN f[p] : f[p][k] \in B}
  <2>1. DOMAIN f[p] = 1 .. Len(f[p]) /\ Len(f[p]) \in Nat
    BY <1>1, SeqFacts
  <2>. QED
    BY <2>1 DEF Positions
<1>. HIDE DEF P
<1>4. m \in Bijection(P, Q)
  <2>1. m \in [P -> Q] /\ \A a, b \in P : m[a] = m[b] => a = b
    OBVIOUS
  <2>2. \A t \in Q : \E k \in P : m[k] = t
    OBVIOUS
  <2>. QED
    BY <2>1, <2>2, Fun_IsBij
<1>5. IsFiniteSet(Q) /\ Cardinality(Q) = Cardinality(P)
  <2>. HIDE DEF m, Q
  <2>. QED
    BY <1>2, <1>4, FS_Bijection DEF ExistsBijection
<1>6. Spots(f, X, B) = Spots(f, X \ {p}, B) \cup Q
  <2>1. Q = {r \in {p} \X Nat : r[2] \in DOMAIN f[r[1]] /\ f[r[1]][r[2]] \in B}
    BY <1>3
  <2>. QED
    BY <2>1 DEF Spots
<1>7. Spots(f, X \ {p}, B) \cap Q = {}
  BY DEF Spots
<1>. HIDE DEF Q
<1>8. /\ IsFiniteSet(Spots(f, X \ {p}, B) \cup Q)
      /\ Cardinality(Spots(f, X \ {p}, B) \cup Q) =
           Cardinality(Spots(f, X \ {p}, B)) + Cardinality(Q)
             - Cardinality(Spots(f, X \ {p}, B) \cap Q)
  BY <1>5, FS_Union
<1>9. Cardinality(Spots(f, X \ {p}, B)) \in Nat
  BY FS_CardinalityType
<1>10. Cardinality(Spots(f, X \ {p}, B) \cap Q) = 0
  BY <1>7, FS_EmptySet
<1>11. Cardinality(Spots(f, X, B)) = Cardinality(Spots(f, X \ {p}, B)) + Cardinality(P)
  BY <1>2, <1>5, <1>6, <1>8, <1>9, <1>10
<1>. QED
  BY <1>2, <1>6, <1>8, <1>11 DEF Tally

(* A tally is 0 exactly if nobody holds any of it. *)
LEMMA TallyZero ==
    ASSUME NEW H, NEW S, NEW f, Filled(f, H, S), NEW X \in SUBSET H, NEW B
    PROVE  Tally(f, X, B) = 0 <=> \A h \in X : \A k \in 1 .. Len(f[h]) : f[h][k] \notin B
<1>1. IsFiniteSet(Spots(f, X, B)) /\ f \in [H -> Seq(S)]
  BY SpotsFinite DEF Filled
<1>2. Tally(f, X, B) = 0 <=> Spots(f, X, B) = {}
  BY <1>1, FS_EmptySet DEF Tally
<1>3. Spots(f, X, B) = {} <=> \A h \in X : \A k \in 1 .. Len(f[h]) : f[h][k] \notin B
  <2>1. ASSUME Spots(f, X, B) = {}, NEW h \in X, NEW k \in 1 .. Len(f[h])
        PROVE  f[h][k] \notin B
    BY <1>1, <2>1, SpotIn
  <2>2. ASSUME Spots(f, X, B) # {}
        PROVE  \E h \in X : \E k \in 1 .. Len(f[h]) : f[h][k] \in B
    <3>1. PICK r \in Spots(f, X, B) : TRUE
      BY <2>2
    <3>2. r[1] \in X /\ r[2] \in 1 .. Len(f[r[1]]) /\ f[r[1]][r[2]] \in B
      BY <1>1, <3>1, SpotIn
    <3>. QED
      BY <3>2
  <2>. QED
    BY <2>1, <2>2
<1>. QED
  BY <1>2, <1>3

(* Between f and g only the holders in P, of those in X, may get something. *)
Moves(f, g, H, S, X, P) ==
    /\ Filled(f, H, S) /\ Table(g, H, S, X) /\ P \in SUBSET H
    /\ \A h \in X \ P : g[h] = f[h] \/ g[h] = <<>>
Settled(f, X, B) == IsFiniteSet(Spots(f, X, B)) /\ Tally(f, X, B) \in Nat

(* One holder holds something else. *)
LEMMA TallyAt ==
    ASSUME NEW H, NEW S, NEW f, NEW g, NEW X, NEW B, NEW p, Moves(f, g, H, S, X, {p})
    PROVE  /\ Settled(f, X, B) /\ Settled(g, X, B)
           /\ Share(f, X, p, B) \in Nat /\ Share(g, X, p, B) \in Nat
           /\ Tally(g, X, B) + Share(f, X, p, B) <= Tally(f, X, B) + Share(g, X, p, B)
<1>1. /\ f[p] \in Seq(S) /\ g[p] \in Seq(S) /\ X \ {p} \in SUBSET H
      /\ g \in [H -> Seq(S)] /\ Filled(f, H, S) /\ X \in SUBSET H
      /\ \A h \in X \ {p} : g[h] = f[h] \/ g[h] = <<>>
  BY DEF Filled, Moves, Table
<1>2. Occ(f[p], B) \in Nat /\ Occ(g[p], B) \in Nat
  BY <1>1, OccFacts
<1>3. /\ IsFiniteSet(Spots(f, X \ {p}, B)) /\ Tally(f, X \ {p}, B) \in Nat
      /\ IsFiniteSet(Spots(f, X, B)) /\ Tally(f, X, B) \in Nat
  BY <1>1, SpotsFinite
<1>4. /\ IsFiniteSet(Spots(g, X \ {p}, B)) /\ Tally(g, X \ {p}, B) \in Nat
      /\ Tally(g, X \ {p}, B) <= Tally(f, X \ {p}, B)
  BY <1>1, TallyLess
<1>5. CASE p \in X
  <2>1. Table(f, H, S, X) /\ Table(g, H, S, X)
    BY DEF Moves, Table, Filled
  <2>2. Tally(f, X, B) = Tally(f, X \ {p}, B) + Occ(f[p], B)
    BY <1>3, <1>5, <2>1, TallySplit
  <2>3. /\ IsFiniteSet(Spots(g, X, B))
        /\ Tally(g, X, B) = Tally(g, X \ {p}, B) + Occ(g[p], B)
    BY <1>4, <1>5, <2>1, TallySplit
  <2>4. Share(f, X, p, B) = Occ(f[p], B) /\ Share(g, X, p, B) = Occ(g[p], B)
    BY <1>5 DEF Share
  <2>. QED
    BY <1>2, <1>3, <1>4, <2>2, <2>3, <2>4 DEF Settled
<1>6. CASE p \notin X
  <2>1. X \ {p} = X
    BY <1>6
  <2>2. Share(f, X, p, B) = 0 /\ Share(g, X, p, B) = 0
    BY <1>6 DEF Share
  <2>3. /\ IsFiniteSet(Spots(g, X, B)) /\ Tally(g, X, B) \in Nat
        /\ Tally(g, X, B) <= Tally(f, X, B)
    BY <1>4, <2>1, Zenon
  <2>. QED
    BY <1>3, <2>2, <2>3 DEF Settled
<1>. QED
  BY <1>5, <1>6

(* A move of several as a move of one and then of the rest. *)
Midway(f, g, p) == [f EXCEPT ![p] = g[p]]

(* The first of several moves. *)
LEMMA MoveFirst ==
    ASSUME NEW H, NEW S, NEW f, NEW g, NEW X, NEW P, NEW p, p \in P,
           Moves(f, g, H, S, X, P)
    PROVE  /\ Moves(f, Midway(f, g, p), H, S, X, {p})
           /\ Moves(Midway(f, g, p), g, H, S, X, P \ {p})
<1>. DEFINE m == Midway(f, g, p)
<1>1. /\ f \in [H -> Seq(S)] /\ m \in [H -> Seq(S)] /\ p \in H /\ X \in SUBSET H
      /\ Filled(f, H, S)
  BY DEF Filled, Moves, Table, Midway
<1>2. m[p] = g[p] /\ \A h \in H \ {p} : m[h] = f[h]
  BY <1>1 DEF Midway
<1>. HIDE DEF m
<1>3. Moves(f, m, H, S, H, {p}) /\ Moves(f, m, H, S, X, {p})
  BY <1>1, <1>2 DEF Moves, Table
<1>4. IsFiniteSet(Spots(m, H, S))
  BY <1>3, TallyAt DEF Settled
<1>5. Filled(m, H, S)
  BY <1>1, <1>4 DEF Filled
<1>6. \A h \in X \ (P \ {p}) : g[h] = m[h] \/ g[h] = <<>>
  BY <1>1, <1>2 DEF Moves
<1>7. Moves(m, g, H, S, X, P \ {p})
  BY <1>5, <1>6 DEF Moves
<1>. QED
  BY <1>3, <1>7 DEF m

(* Two holders hold something else. *)
LEMMA TallyAtTwo ==
    ASSUME NEW H, NEW S, NEW f, NEW g, NEW X, NEW B, NEW p, NEW q, p # q,
           Moves(f, g, H, S, X, {p, q})
    PROVE  /\ Settled(f, X, B) /\ Settled(g, X, B)
           /\ Share(f, X, p, B) \in Nat /\ Share(g, X, p, B) \in Nat
           /\ Share(f, X, q, B) \in Nat /\ Share(g, X, q, B) \in Nat
           /\ Tally(g, X, B) + Share(f, X, p, B) + Share(f, X, q, B)
                <= Tally(f, X, B) + Share(g, X, p, B) + Share(g, X, q, B)
<1>1. {p, q} \ {p} = {q} /\ p \in {p, q} /\ q \in H
  BY DEF Moves
<1>. DEFINE m == Midway(f, g, p)
<1>2. /\ Moves(f, m, H, S, X, {p}) /\ Moves(m, g, H, S, X, {p, q} \ {p})
      /\ m[p] = g[p] /\ m[q] = f[q]
  <2>. DEFINE P == {p, q}
  <2>1. p \in P /\ Moves(f, g, H, S, X, P)
    OBVIOUS
  <2>. HIDE DEF P, m
  <2>2. /\ Moves(f, Midway(f, g, p), H, S, X, {p})
        /\ Moves(Midway(f, g, p), g, H, S, X, P \ {p})
    BY <2>1, MoveFirst
  <2>3. f \in [H -> Seq(S)] /\ p \in H
    BY DEF Moves, Filled
  <2>4. m[p] = g[p] /\ m[q] = f[q]
    BY <1>1, <2>3 DEF m, Midway
  <2>. QED
    BY <2>2, <2>4 DEF P, m
<1>. HIDE DEF m
<1>3. /\ Settled(f, X, B) /\ Settled(m, X, B)
      /\ Share(f, X, p, B) \in Nat /\ Share(m, X, p, B) \in Nat
      /\ Tally(m, X, B) + Share(f, X, p, B) <= Tally(f, X, B) + Share(m, X, p, B)
  BY <1>2, TallyAt
<1>4. /\ Settled(g, X, B) /\ Share(m, X, q, B) \in Nat /\ Share(g, X, q, B) \in Nat
      /\ Tally(g, X, B) + Share(m, X, q, B) <= Tally(m, X, B) + Share(g, X, q, B)
  BY <1>1, <1>2, TallyAt
<1>5. Share(m, X, p, B) = Share(g, X, p, B) /\ Share(m, X, q, B) = Share(f, X, q, B)
  BY <1>1, <1>2 DEF Share
<1>. QED
  BY <1>3, <1>4, <1>5 DEF Settled

(* Three holders hold something else. *)
LEMMA TallyAtThree ==
    ASSUME NEW H, NEW S, NEW f, NEW g, NEW X, NEW B, NEW p, NEW q, NEW t, p # q, p # t, q # t,
           Moves(f, g, H, S, X, {p, q, t})
    PROVE  /\ Settled(f, X, B) /\ Settled(g, X, B)
           /\ Share(f, X, p, B) \in Nat /\ Share(g, X, p, B) \in Nat
           /\ Share(f, X, q, B) \in Nat /\ Share(g, X, q, B) \in Nat
           /\ Share(f, X, t, B) \in Nat /\ Share(g, X, t, B) \in Nat
           /\ Tally(g, X, B) + Share(f, X, p, B) + Share(f, X, q, B) + Share(f, X, t, B)
                <= Tally(f, X, B) + Share(g, X, p, B) + Share(g, X, q, B) + Share(g, X, t, B)
<1>1. {p, q, t} \ {p} = {q, t} /\ p \in {p, q, t} /\ q \in H /\ t \in H
  BY DEF Moves
<1>. DEFINE m == Midway(f, g, p)
<1>2. /\ Moves(f, m, H, S, X, {p}) /\ Moves(m, g, H, S, X, {p, q, t} \ {p})
      /\ m[p] = g[p] /\ m[q] = f[q] /\ m[t] = f[t]
  <2>. DEFINE P == {p, q, t}
  <2>1. p \in P /\ Moves(f, g, H, S, X, P)
    OBVIOUS
  <2>. HIDE DEF P, m
  <2>2. /\ Moves(f, Midway(f, g, p), H, S, X, {p})
        /\ Moves(Midway(f, g, p), g, H, S, X, P \ {p})
    BY <2>1, MoveFirst
  <2>3. f \in [H -> Seq(S)] /\ p \in H
    BY DEF Moves, Filled
  <2>4. m[p] = g[p] /\ m[q] = f[q] /\ m[t] = f[t]
    BY <1>1, <2>3 DEF m, Midway
  <2>. QED
    BY <2>2, <2>4 DEF P, m
<1>. HIDE DEF m
<1>3. /\ Settled(f, X, B) /\ Settled(m, X, B)
      /\ Share(f, X, p, B) \in Nat /\ Share(m, X, p, B) \in Nat
      /\ Tally(m, X, B) + Share(f, X, p, B) <= Tally(f, X, B) + Share(m, X, p, B)
  BY <1>2, TallyAt
<1>4. Moves(m, g, H, S, X, {q, t})
  BY <1>1, <1>2
<1>5. /\ Settled(g, X, B) /\ Share(m, X, q, B) \in Nat /\ Share(g, X, q, B) \in Nat
      /\ Share(m, X, t, B) \in Nat /\ Share(g, X, t, B) \in Nat
      /\ Tally(g, X, B) + Share(m, X, q, B) + Share(m, X, t, B)
           <= Tally(m, X, B) + Share(g, X, q, B) + Share(g, X, t, B)
  BY <1>4, TallyAtTwo
<1>6. /\ Share(m, X, p, B) = Share(g, X, p, B) /\ Share(m, X, q, B) = Share(f, X, q, B)
      /\ Share(m, X, t, B) = Share(f, X, t, B)
  BY <1>1, <1>2 DEF Share
<1>. QED
  BY <1>3, <1>5, <1>6 DEF Settled

-----------------------------------------------------------------------------
(* The inductive invariant *)

Opening == {"init", "undo", "initDone", "open", "openDone"}
Closing == {"close", "expunge", "closeDone", "reclaim"}
Waiting == {"init", "undo", "expunge"}
Value == Address \cup {None}

SlotRecord == [state : {"empty", "loading", "opening", "ready", "failed", "unloaded"},
               name : Lib \cup {None}, base : Value, opens : Seq(Address),
               closing : Value, start : Value, close : Value, reclaim : BOOLEAN,
               saved : (Context \X Nat) \cup {None}]
Cell == [what : {"free", "image", "clone", "trampoline"}, lib : Lib \cup {None},
         of : Address \cup Slot \cup {None}, count : Int, uses : Seq(Address)]
Call == [slot : Slot, lib : Lib, image : Address, base : Value,
         got : Seq(Address), result : Value, at : Opening \cup Closing]

TypeOK ==
    /\ slot \in [Slot -> SlotRecord] /\ mem \in [Address -> Cell] /\ heap \in 0 .. HeapMax
    /\ stack \in [Context -> Seq(Call)] /\ regs \in [Context -> Context \X Nat]
    /\ held \in [Context -> Seq(Address)] /\ run \in Context

(* Only the context that runs is in library calls: those are its stack. *)
Calls == stack[run]
Alone == \A c \in Context : stack[c] # <<>> => c = run /\ c \notin dead

(* Calls below another wait in an Init, its undoing or an expunge, one that
   opens only on Inits, and no slot is in two calls. *)
Stacked ==
    \A l, m \in 1 .. Len(Calls) : l < m =>
        /\ Calls[l].at \in Waiting /\ (Calls[m].at \in Opening => Calls[l].at = "init")
        /\ Calls[l].slot # Calls[m].slot
Saved ==
    /\ RegistersKept
    /\ \A l \in 1 .. Len(Calls) : slot[Calls[l].slot].saved = <<run, l - 1>>

(* Slots that answer to a name or that a call is in; the bases of an image. *)
OnStack(i) == \E l \in 1 .. Len(Calls) : Calls[l].slot = i
Live(i) == ~Reusable(i) \/ OnStack(i)
Base(b, a) == b = a \/ (mem[b].what = "clone" /\ mem[b].of = a)
Bases(a) == {b \in Address : Base(b, a)}

(* What a call in each place knows of its slot. *)
CallOK(k) ==
    LET s == slot[k.slot] IN
    /\ k.lib = s.name /\ k.image = s.start
    /\ k.at \notin Waiting => k.got = <<>>
    /\ k.at \in {"init", "undo"} => s.state = "loading"
    /\ k.at = "initDone" => \/ s.state = "ready" /\ k.result = None
                            \/ s.state = "loading" /\ k.result \in {None, k.image}
    /\ k.at = "open" => s.state \in {"opening", "ready"} /\ k.result = None
    /\ k.at = "openDone" =>
         \/ k.result = None /\ s.state \in {"failed", "opening", "ready"}
         \/ /\ k.result # None /\ s.state \in {"opening", "ready"} /\ Base(k.result, k.image)
            /\ k.result # k.image => \A j \in Slot : k.result \notin Open(j)
    /\ k.at \in Closing \ {"reclaim"} =>
         s.state = "ready" /\ k.base \in Open(k.slot) /\ s.closing = k.base
    /\ k.at = "close" => k.result = None /\ Base(k.base, k.image)
    /\ k.at = "expunge" \/ (k.at = "closeDone" /\ k.result # None) => mem[k.image].count = 0
    /\ k.at = "reclaim" => \/ s.state = "ready"
                           \/ /\ s.state = "unloaded" /\ s.reclaim /\ mem[k.image].count = 0
                              /\ s.close \in Address /\ mem[s.close] = Trampoline(k.slot)
CallsOK == \A l \in 1 .. Len(Calls) : CallOK(Calls[l])

(* Where a live library is, and what it has handed out. *)
SlotOK(i) ==
    LET s == slot[i] IN
    /\ s.state = "ready" \/ s.opens = <<>>
    /\ Reusable(i) \/ ~s.reclaim
    /\ Live(i) => s.name \in Lib /\ s.start \in Address
                  /\ mem[s.start].what = "image" /\ mem[s.start].lib = s.name
    /\ s.state \in {"opening", "ready"} => s.base = s.start
    /\ s.state = "ready" => s.close \in Address /\ mem[s.close] = Trampoline(i)
    /\ \A b \in Open(i) : /\ b < heap /\ (Base(b, s.start) \/ mem[b].what = "free")
                          /\ b # s.start => Occ(s.opens, {b}) <= 1
SlotsOK == \A i \in Slot : SlotOK(i)
Apart == \A i, j \in Slot : i # j =>
            /\ Live(i) /\ Live(j) => slot[i].name # slot[j].name
            /\ Open(i) \cap Open(j) = {}
HeapOK == \A a \in Address : a >= heap => mem[a] = Free

(* What each holder holds.  A close in flight is a reference until CloseDone;
   the library has counted it until its Close has run, and has counted an open
   from its Open on. *)
Kind == {"program", "library", "call", "flight", "counted"}
HolderSet == Kind \X (Context \cup Address) \X Nat
OwnHolders == {h \in HolderSet : h[1] \in {"program", "library", "call"}}
RefHolders == {h \in HolderSet : h[1] # "counted"}
CountHolders == {h \in HolderSet : h[1] # "flight"}

Carried(kind, k) ==
    IF kind = "call" THEN k.got
    ELSE IF kind = "flight"
         THEN IF k.at \in {"close", "expunge", "closeDone"} THEN <<k.base>> ELSE <<>>
    ELSE IF k.at = "close" THEN <<k.base>>
    ELSE IF k.at = "openDone" /\ k.result # None THEN <<k.result>> ELSE <<>>
HoldingAt(h) ==
    IF h[1] = "program" THEN IF h[2] \in Context /\ h[3] = 0 THEN held[h[2]] ELSE <<>>
    ELSE IF h[1] = "library" THEN IF h[2] \in Address /\ h[3] = 0 THEN mem[h[2]].uses ELSE <<>>
    ELSE IF h[2] \in Context /\ h[3] \in 1 .. Len(stack[h[2]])
         THEN Carried(h[1], stack[h[2]][h[3]]) ELSE <<>>
Holding == [h \in HolderSet |-> HoldingAt(h)]
Finite == IsFiniteSet(Spots(Holding, HolderSet, Value))

(* Whoever holds a base holds one of a ready library; the library lists it as
   often as it is referred to, and its image has counted its bases. *)
Owned(b) == b \in Address /\ \E i \in Ready : Base(b, slot[i].start)
AllOwned == \A h \in OwnHolders : \A k \in 1 .. Len(Holding[h]) : Owned(Holding[h][k])
Refs(b) == Tally(Holding, RefHolders, {b})
Listed(b) == \E i \in Ready : Occ(slot[i].opens, {b}) >= Refs(b)
RefsListed == \A b \in Address : Refs(b) > 0 => Listed(b)
Count(i) == Tally(Holding, CountHolders, Bases(slot[i].start))
Counts == \A i \in Slot : Live(i) => Count(i) <= mem[slot[i].start].count

Control == TypeOK /\ Alone /\ Stacked /\ Saved
Places == CallsOK /\ SlotsOK /\ Apart /\ HeapOK
Tallied == Finite /\ AllOwned /\ RefsListed /\ Counts
IndInv == Control /\ Places /\ Tallied

-----------------------------------------------------------------------------
(* Facts about a state *)

(* The bounds are numbers. *)
LEMMA Limits ==
    /\ SlotMax \in Nat /\ OpensMax \in Nat /\ HeapMax \in Nat /\ HeapMax >= 1
    /\ Root \in Context /\ None \notin Context /\ None \notin Address
  BY LimitAssumption, ContextAssumption, NoneAssumption

(* The cells a step writes. *)
LEMMA Cells ==
    /\ Free \in Cell /\ Free.what = "free" /\ Free.uses = <<>>
    /\ \A n \in Lib : /\ Image(n) \in Cell /\ Image(n).what = "image" /\ Image(n).lib = n
                      /\ Image(n).count = 0 /\ Image(n).uses = <<>>
    /\ \A a \in Address : /\ CloneOf(a) \in Cell /\ CloneOf(a).what = "clone"
                          /\ CloneOf(a).of = a /\ CloneOf(a).uses = <<>>
    /\ \A i \in Slot : /\ Trampoline(i) \in Cell /\ Trampoline(i).what = "trampoline"
                       /\ Trampoline(i).of = i /\ Trampoline(i).uses = <<>>
<1>1. <<>> \in Seq(Address) /\ 0 \in Int
  OBVIOUS
<1>2. Free \in Cell /\ Free.what = "free" /\ Free.uses = <<>>
  BY <1>1 DEF Free, Cell
<1>3. ASSUME NEW n \in Lib
      PROVE  /\ Image(n) \in Cell /\ Image(n).what = "image" /\ Image(n).lib = n
             /\ Image(n).count = 0 /\ Image(n).uses = <<>>
  BY <1>1 DEF Free, Image, Cell
<1>4. ASSUME NEW a \in Address
      PROVE  /\ CloneOf(a) \in Cell /\ CloneOf(a).what = "clone"
             /\ CloneOf(a).of = a /\ CloneOf(a).uses = <<>>
  BY <1>1 DEF Free, CloneOf, Cell
<1>5. ASSUME NEW i \in Slot
      PROVE  /\ Trampoline(i) \in Cell /\ Trampoline(i).what = "trampoline"
             /\ Trampoline(i).of = i /\ Trampoline(i).uses = <<>>
  BY <1>1 DEF Free, Trampoline, Cell
<1>. QED
  BY <1>2, <1>3, <1>4, <1>5

(* The types of a state, one by one. *)
LEMMA Types ==
    ASSUME TypeOK
    PROVE  /\ \A i \in Slot : slot[i] \in SlotRecord
           /\ \A a \in Address : mem[a] \in Cell
           /\ \A c \in Context : stack[c] \in Seq(Call) /\ held[c] \in Seq(Address)
           /\ Calls \in Seq(Call) /\ Len(Calls) \in Nat /\ DOMAIN Calls = 1 .. Len(Calls)
           /\ \A l \in 1 .. Len(Calls) : Calls[l] \in Call
           /\ heap \in Int /\ heap >= 0 /\ heap <= HeapMax
<1>1. /\ \A i \in Slot : slot[i] \in SlotRecord
      /\ \A a \in Address : mem[a] \in Cell
      /\ \A c \in Context : stack[c] \in Seq(Call) /\ held[c] \in Seq(Address)
      /\ heap \in 0 .. HeapMax /\ run \in Context
  BY DEF TypeOK
<1>2. Calls \in Seq(Call)
  BY <1>1 DEF Calls
<1>3. heap \in Int /\ heap >= 0 /\ heap <= HeapMax
  BY <1>1, Limits
<1>. QED
  BY <1>1, <1>2, <1>3, SeqFacts

(* What holders hold are sequences of addresses, or of None. *)
LEMMA HoldingType == TypeOK => Holding \in [HolderSet -> Seq(Value)]
<1>. SUFFICES ASSUME TypeOK, NEW h \in HolderSet PROVE HoldingAt(h) \in Seq(Value)
  BY DEF Holding
<1>1. <<>> \in Seq(Value) /\ \A x \in Seq(Address) : x \in Seq(Value)
  <2>1. Address \subseteq Value
    BY DEF Value
  <2>. QED
    BY <2>1, SeqMonotonic
<1>2. \A v \in Value : <<v>> \in Seq(Value)
  OBVIOUS
<1>3. ASSUME NEW k \in Call PROVE Carried(h[1], k) \in Seq(Value)
  <2>1. k.got \in Seq(Address) /\ k.base \in Value /\ k.result \in Value
    BY DEF Call
  <2>. QED
    BY <1>1, <1>2, <2>1 DEF Carried
<1>4. ASSUME NEW a \in Address PROVE mem[a].uses \in Seq(Address)
  BY Types DEF Cell
<1>5. ASSUME h[2] \in Context, h[3] \in 1 .. Len(stack[h[2]])
      PROVE  stack[h[2]][h[3]] \in Call
  <2>1. stack[h[2]] \in Seq(Call)
    BY <1>5, Types
  <2>. QED
    BY <1>5, <2>1, SeqFacts
<1>. QED
  BY <1>1, <1>3, <1>4, <1>5, Types DEF HoldingAt

-----------------------------------------------------------------------------
(* Steps of the context that runs *)

StackStep == /\ run' = run /\ Calls' \in Seq(Call)
             /\ stack' = [stack EXCEPT ![run] = Calls']

(* The stack of the context that runs is all a step of it changes. *)
LEMMA StackSteps ==
    ASSUME TypeOK, NEW t \in Seq(Call), stack' = [stack EXCEPT ![run] = t], run' = run
    PROVE  /\ StackStep /\ Calls' = t /\ stack' \in [Context -> Seq(Call)]
           /\ \A d \in Context \ {run} : stack'[d] = stack[d]
<1>1. stack \in [Context -> Seq(Call)] /\ run \in Context
  BY DEF TypeOK
<1>2. /\ stack'[run] = t /\ stack' \in [Context -> Seq(Call)]
      /\ \A d \in Context \ {run} : stack'[d] = stack[d]
  BY <1>1
<1>. QED
  BY <1>2 DEF StackStep, Calls

(* What of the holders in X a step leaves alone or takes from them, but for P. *)
KeptBut(X, P) ==
    /\ \A d \in Context : <<"program", d, 0>> \in P \/ held'[d] = held[d]
    /\ \A a \in Address : <<"library", a, 0>> \in P \/ mem'[a].uses \in {mem[a].uses, <<>>}
    /\ \A l \in 1 .. Len(Calls') : \A kind \in {"call", "flight", "counted"} :
         \/ <<kind, run, l>> \notin X \/ <<kind, run, l>> \in P
         \/ Carried(kind, Calls'[l]) = <<>>
         \/ l \in 1 .. Len(Calls) /\ Carried(kind, Calls'[l]) = Carried(kind, Calls[l])

(* Then only P may have got something. *)
LEMMA HoldingMoves ==
    ASSUME TypeOK, Finite, TypeOK', StackStep, NEW X \in SUBSET HolderSet,
           NEW P \in SUBSET HolderSet, KeptBut(X, P)
    PROVE  Moves(Holding, Holding', HolderSet, Value, X, P)
<1>1. Holding \in [HolderSet -> Seq(Value)] /\ Holding' \in [HolderSet -> Seq(Value)]
  <2>1. (Holding \in [HolderSet -> Seq(Value)])'
    BY HoldingType, PTL
  <2>. QED
    BY <2>1, HoldingType
<1>2. ASSUME NEW h \in X \ P PROVE Holding'[h] = Holding[h] \/ Holding'[h] = <<>>
  <2>1. /\ h \in HolderSet /\ h = <<h[1], h[2], h[3]>> /\ h[1] \in Kind /\ h[3] \in Nat
        /\ Holding[h] = HoldingAt(h) /\ Holding'[h] = HoldingAt(h)'
    BY DEF HolderSet, Holding
  <2>2. CASE h[1] = "program"
    <3>1. CASE h[2] \in Context /\ h[3] = 0
      <4>1. h = <<"program", h[2], 0>>
        BY <2>1, <2>2, <3>1
      <4>2. held'[h[2]] = held[h[2]]
        BY <1>2, <3>1, <4>1 DEF KeptBut
      <4>. QED
        BY <2>1, <2>2, <3>1, <4>2 DEF HoldingAt
    <3>. QED
      BY <2>1, <2>2, <3>1 DEF HoldingAt
  <2>3. CASE h[1] = "library"
    <3>1. CASE h[2] \in Address /\ h[3] = 0
      <4>1. h = <<"library", h[2], 0>>
        BY <2>1, <2>3, <3>1
      <4>2. mem'[h[2]].uses \in {mem[h[2]].uses, <<>>}
        BY <1>2, <3>1, <4>1 DEF KeptBut
      <4>. QED
        BY <2>1, <2>3, <3>1, <4>2 DEF HoldingAt
    <3>. QED
      BY <2>1, <2>3, <3>1 DEF HoldingAt
  <2>4. CASE h[1] \in {"call", "flight", "counted"}
    <3>1. CASE h[2] \in Context /\ h[2] # run
      <4>1. stack'[h[2]] = stack[h[2]]
        BY <3>1 DEF StackStep, TypeOK
      <4>. QED
        BY <2>1, <2>4, <4>1 DEF HoldingAt
    <3>2. CASE h[2] = run
      <4>1. stack'[h[2]] = Calls' /\ stack[h[2]] = Calls /\ h[2] \in Context
        BY <3>2 DEF StackStep, Calls, TypeOK
      <4>2. CASE h[3] \in 1 .. Len(Calls')
        <5>1. <<h[1], run, h[3]>> = h
          BY <2>1, <3>2
        <5>2. \/ Carried(h[1], Calls'[h[3]]) = <<>>
              \/ /\ h[3] \in 1 .. Len(Calls)
                 /\ Carried(h[1], Calls'[h[3]]) = Carried(h[1], Calls[h[3]])
          BY <1>2, <2>4, <4>2, <5>1 DEF KeptBut
        <5>3. Holding'[h] = Carried(h[1], Calls'[h[3]])
          BY <2>1, <2>4, <4>1, <4>2 DEF HoldingAt, Carried
        <5>4. h[3] \in 1 .. Len(Calls) => Holding[h] = Carried(h[1], Calls[h[3]])
          BY <2>1, <2>4, <4>1 DEF HoldingAt, Carried
        <5>. QED
          BY <5>2, <5>3, <5>4
      <4>3. CASE h[3] \notin 1 .. Len(Calls')
        BY <2>1, <2>4, <4>1, <4>3 DEF HoldingAt
      <4>. QED
        BY <4>2, <4>3
    <3>3. CASE h[2] \notin Context
      BY <2>1, <2>4, <3>3 DEF HoldingAt
    <3>. QED
      BY <3>1, <3>2, <3>3
  <2>. QED
    BY <2>1, <2>2, <2>3, <2>4 DEF Kind
<1>. QED
  BY <1>1, <1>2 DEF Moves, Table, Filled, Finite

(* Tallies are numbers. *)
LEMMA TallyType ==
    ASSUME TypeOK, Finite, NEW X \in SUBSET HolderSet, NEW B
    PROVE  Filled(Holding, HolderSet, Value) /\ Tally(Holding, X, B) \in Nat
<1>1. Filled(Holding, HolderSet, Value)
  BY HoldingType DEF Filled, Finite
<1>. QED
  BY <1>1, SpotsFinite

(* So they are after a step. *)
LEMMA TallyTypeNext ==
    ASSUME TypeOK', Finite', NEW X \in SUBSET HolderSet, NEW B
    PROVE  Filled(Holding', HolderSet, Value) /\ Tally(Holding', X, B) \in Nat
<1>1. (Holding \in [HolderSet -> Seq(Value)])'
  BY HoldingType, PTL
<1>2. Filled(Holding', HolderSet, Value)
  BY <1>1 DEF Filled, Finite, Spots
<1>. QED
  BY <1>2, SpotsFinite

(* So is how often a slot lists something. *)
LEMMA OccType ==
    ASSUME TypeOK, NEW i \in Slot, NEW B
    PROVE  Occ(slot[i].opens, B) \in Nat
<1>1. slot[i].opens \in Seq(Address)
  BY Types DEF SlotRecord
<1>. QED
  BY <1>1, OccFacts

(* Every base held after a step was held before it, and none more often. *)
Drawn == \A h \in OwnHolders : \A k \in 1 .. Len(Holding'[h]) :
           \E g \in OwnHolders : \E m \in 1 .. Len(Holding[g]) : Holding'[h][k] = Holding[g][m]
NoMore(X) == \A B : Tally(Holding', X, B) <= Tally(Holding, X, B)

(* A step that takes away at most. *)
LEMMA Fewer ==
    ASSUME TypeOK, Finite, TypeOK', StackStep, KeptBut(HolderSet, {})
    PROVE  Finite' /\ Drawn /\ NoMore(RefHolders) /\ NoMore(CountHolders)
<1>1. Moves(Holding, Holding', HolderSet, Value, HolderSet, {})
  BY HoldingMoves
<1>2. /\ Filled(Holding, HolderSet, Value) /\ Holding' \in [HolderSet -> Seq(Value)]
      /\ \A h \in HolderSet : Holding'[h] = Holding[h] \/ Holding'[h] = <<>>
  BY <1>1 DEF Moves, Table
<1>3. HolderSet \in SUBSET HolderSet /\ RefHolders \in SUBSET HolderSet
      /\ CountHolders \in SUBSET HolderSet
  BY DEF RefHolders, CountHolders
<1>4. Finite'
  <2>1. IsFiniteSet(Spots(Holding', HolderSet, Value))
    BY <1>2, <1>3, TallyLess
  <2>. QED
    BY <2>1 DEF Finite, Spots
<1>5. Drawn
  <2>. SUFFICES ASSUME NEW h \in OwnHolders, NEW k \in 1 .. Len(Holding'[h])
                PROVE  \E g \in OwnHolders : \E m \in 1 .. Len(Holding[g]) :
                         Holding'[h][k] = Holding[g][m]
    BY DEF Drawn
  <2>1. h \in HolderSet
    BY DEF OwnHolders
  <2>2. Holding'[h] = Holding[h]
    BY <1>2, <2>1, EmptySeq
  <2>. QED
    BY <2>2
<1>6. NoMore(RefHolders)
  <2>. SUFFICES ASSUME NEW B PROVE Tally(Holding', RefHolders, B) <= Tally(Holding, RefHolders, B)
    BY DEF NoMore
  <2>. QED
    BY <1>2, <1>3, TallyLess
<1>7. NoMore(CountHolders)
  <2>. SUFFICES ASSUME NEW B
                PROVE  Tally(Holding', CountHolders, B) <= Tally(Holding, CountHolders, B)
    BY DEF NoMore
  <2>. QED
    BY <1>2, <1>3, TallyLess
<1>. QED
  BY <1>4, <1>5, <1>6, <1>7

(* A library that stays where it is, with its count and no more bases. *)
Narrows(a) == \A b \in Address : mem'[b].what = "clone" /\ mem'[b].of = a =>
                                 mem[b].what = "clone" /\ mem[b].of = a
Carries(i) ==
    /\ Live(i) /\ slot'[i].start = slot[i].start /\ Narrows(slot[i].start)
    /\ mem'[slot[i].start].count >= mem[slot[i].start].count

(* The start of a live library is an address, its image there. *)
LEMMA LiveFacts ==
    ASSUME TypeOK, SlotsOK, NEW i \in Slot, Live(i)
    PROVE  /\ slot[i].start \in Address /\ mem[slot[i].start].what = "image"
           /\ mem[slot[i].start].lib = slot[i].name /\ mem[slot[i].start].count \in Int
<1>1. /\ slot[i].start \in Address /\ mem[slot[i].start].what = "image"
      /\ mem[slot[i].start].lib = slot[i].name
  BY DEF SlotsOK, SlotOK
<1>2. mem[slot[i].start] \in Cell
  BY <1>1, Types
<1>. QED
  BY <1>1, <1>2 DEF Cell

(* With no more references, and libraries that list what they did, every base
   that is held is of a ready library and listed. *)
LEMMA RefsKept ==
    ASSUME IndInv, TypeOK', Finite', Drawn, NoMore(RefHolders),
           \A b : Owned(b) => Owned(b)',
           \A i \in Ready : i \in Ready' /\ slot'[i].opens = slot[i].opens
    PROVE  AllOwned' /\ RefsListed'
<1>. USE DEF IndInv, Control, Places, Tallied
<1>1. RefHolders \in SUBSET HolderSet
  BY DEF RefHolders
<1>2. AllOwned'
  <2>. SUFFICES ASSUME NEW h \in OwnHolders, NEW k \in 1 .. Len(Holding'[h]), NEW b,
                       b = Holding'[h][k]
                PROVE  Owned(b)'
    BY DEF AllOwned, Owned
  <2>1. PICK g \in OwnHolders : \E m \in 1 .. Len(Holding[g]) : b = Holding[g][m]
    BY DEF Drawn
  <2>2. Owned(b)
    BY <2>1 DEF AllOwned
  <2>. QED
    BY <2>2
<1>3. RefsListed'
  <2>. SUFFICES ASSUME NEW b \in Address, Refs(b)' > 0 PROVE Listed(b)'
    BY DEF RefsListed
  <2>1. /\ Refs(b)' <= Refs(b) /\ Refs(b) \in Nat /\ Refs(b)' \in Nat
    <3>1. Tally(Holding, RefHolders, {b}) \in Nat
      BY <1>1, TallyType
    <3>2. Tally(Holding', RefHolders, {b}) \in Nat
      BY <1>1, TallyTypeNext
    <3>3. Refs(b)' = Tally(Holding', RefHolders, {b})
      BY DEF Refs, Tally, Spots
    <3>. QED
      BY <3>1, <3>2, <3>3 DEF NoMore, Refs
  <2>2. Refs(b) > 0
    BY <2>1
  <2>3. PICK i \in Ready : Occ(slot[i].opens, {b}) >= Refs(b)
    BY <2>2 DEF RefsListed, Listed
  <2>4. i \in Ready' /\ slot'[i].opens = slot[i].opens
    BY <2>3
  <2>5. i \in Slot /\ Occ(slot[i].opens, {b}) \in Nat
    BY OccType DEF Ready
  <2>6. Occ(slot'[i].opens, {b}) >= Refs(b)'
    BY <2>1, <2>3, <2>4, <2>5
  <2>. QED
    BY <2>4, <2>6 DEF Listed
<1>. QED
  BY <1>2, <1>3

(* If they also count what they did, they count what is held. *)
LEMMA CountsKept ==
    ASSUME IndInv, TypeOK', Finite', NoMore(CountHolders),
           \A i \in Slot : Live(i)' => Carries(i) \/ Count(i)' <= mem'[slot'[i].start].count
    PROVE  Counts'
<1>. USE DEF IndInv, Control, Places, Tallied
<1>1. CountHolders \in SUBSET HolderSet
  BY DEF CountHolders
<1>2. Counts'
  <2>. SUFFICES ASSUME NEW i \in Slot, Live(i)' PROVE Count(i)' <= mem'[slot'[i].start].count
    BY DEF Counts
  <2>1. CASE Carries(i)
    <3>. DEFINE a == slot[i].start
    <3>1. /\ Live(i) /\ slot'[i].start = a /\ Narrows(a) /\ mem'[a].count >= mem[a].count
      BY <2>1 DEF Carries
    <3>2. a \in Address /\ mem[a].count \in Int /\ Count(i) <= mem[a].count
      BY <3>1, LiveFacts DEF Counts
    <3>3. mem'[a].count \in Int
      <4>1. (\A x \in Address : mem[x] \in Cell)'
        BY DEF TypeOK
      <4>. QED
        BY <3>2, <4>1 DEF Cell
    <3>. DEFINE B == {b \in Address : b = a \/ (mem'[b].what = "clone" /\ mem'[b].of = a)}
    <3>4. Count(i)' = Tally(Holding', CountHolders, B)
      BY <3>1 DEF Count, Bases, Base, Tally, Spots
    <3>5. Count(i) = Tally(Holding, CountHolders, Bases(a))
      BY DEF Count
    <3>6. B \subseteq Bases(a)
      BY <3>1 DEF Narrows, Bases, Base
    <3>. HIDE DEF B, a
    <3>7. Tally(Holding', CountHolders, B) <= Tally(Holding, CountHolders, B)
      BY DEF NoMore
    <3>8. Filled(Holding, HolderSet, Value) /\ CountHolders \subseteq CountHolders
      BY <1>1, TallyType
    <3>9. Tally(Holding, CountHolders, B) <= Tally(Holding, CountHolders, Bases(a))
      BY <1>1, <3>6, <3>8, TallyMore
    <3>10. Tally(Holding, CountHolders, B) \in Nat /\ Tally(Holding, CountHolders, Bases(a)) \in Nat
      BY <1>1, TallyType
    <3>11. Tally(Holding', CountHolders, B) \in Nat
      BY <1>1, TallyTypeNext
    <3>. QED
      BY <3>1, <3>2, <3>3, <3>4, <3>5, <3>7, <3>9, <3>10, <3>11
  <2>. QED
    BY <2>1
<1>. QED
  BY <1>2

(* With both, the tallies stay right. *)
LEMMA TalliedKept ==
    ASSUME IndInv, TypeOK', Finite', Drawn, NoMore(RefHolders), NoMore(CountHolders),
           \A b : Owned(b) => Owned(b)',
           \A i \in Ready : i \in Ready' /\ slot'[i].opens = slot[i].opens,
           \A i \in Slot : Live(i)' => Carries(i) \/ Count(i)' <= mem'[slot'[i].start].count
    PROVE  Tallied'
<1>1. AllOwned' /\ RefsListed'
  BY RefsKept
<1>2. Counts'
  BY CountsKept
<1>. QED
  BY <1>1, <1>2 DEF Tallied

(* The context that runs, and the call it is in. *)
LEMMA RunFacts ==
    ASSUME NEW c, Runs(c)
    PROVE  c = run /\ run \notin dead /\ stack[c] = Calls
  BY DEF Runs, Calls

Depth == Len(Calls)
Inner == Calls[Depth]

(* The innermost call of the context that runs, and the calls that wait below it. *)
LEMMA TopFacts ==
    ASSUME IndInv, NEW c, NEW place, At(c, place)
    PROVE  /\ c = run /\ run \notin dead /\ stack[c] = Calls /\ Level(c) = Depth /\ Top(c) = Inner
           /\ Depth \in Nat /\ Depth >= 1 /\ Calls # <<>> /\ Depth \in 1 .. Len(Calls)
           /\ Inner \in Call /\ Inner.at = place /\ CallOK(Inner) /\ Live(Inner.slot)
           /\ Inner.slot \in Slot /\ Inner.image \in Address /\ Inner.lib \in Lib
           /\ \A l \in 1 .. Depth - 1 :
                /\ l \in 1 .. Len(Calls) /\ Calls[l] \in Call /\ Calls[l].at \in Waiting
                /\ (place \in Opening => Calls[l].at = "init") /\ CallOK(Calls[l])
                /\ Calls[l].slot # Inner.slot
<1>. USE DEF IndInv, Control, Places
<1>1. c = run /\ run \notin dead /\ stack[c] = Calls /\ Level(c) = Depth /\ Top(c) = Inner
      /\ Calls # <<>> /\ Inner.at = place
  BY RunFacts DEF At, Level, Top, Depth, Inner
<1>2. Calls \in Seq(Call) /\ Depth \in Nat /\ \A l \in 1 .. Depth : Calls[l] \in Call
  BY Types DEF Depth
<1>3. Depth >= 1
  BY <1>1, <1>2, SeqFacts DEF Depth
<1>4. Depth \in 1 .. Len(Calls) /\ \A l \in 1 .. Depth - 1 : l \in 1 .. Len(Calls) /\ l < Depth
  BY <1>2, <1>3 DEF Depth
<1>5. Inner \in Call /\ CallOK(Inner) /\ OnStack(Inner.slot)
  BY <1>2, <1>4 DEF Inner, CallsOK, OnStack, Depth
<1>6. Inner.slot \in Slot /\ Inner.image \in Address /\ Inner.lib \in Lib
  BY <1>5 DEF Call
<1>7. \A l \in 1 .. Depth - 1 :
         /\ l \in 1 .. Len(Calls) /\ Calls[l] \in Call /\ Calls[l].at \in Waiting
         /\ (place \in Opening => Calls[l].at = "init") /\ CallOK(Calls[l])
         /\ Calls[l].slot # Inner.slot
  BY <1>1, <1>2, <1>4 DEF Stacked, CallsOK, Inner, Depth
<1>. QED
  BY <1>1, <1>2, <1>3, <1>4, <1>5, <1>6, <1>7 DEF Live

(* Live libraries start at different addresses: their images have names. *)
LEMMA StartsDiffer ==
    ASSUME IndInv, NEW i \in Slot, NEW j \in Slot, i # j, Live(i), Live(j)
    PROVE  slot[i].start # slot[j].start
<1>1. slot[i].name # slot[j].name
  BY DEF IndInv, Places, Apart
<1>2. /\ mem[slot[i].start].lib = slot[i].name /\ mem[slot[j].start].lib = slot[j].name
  BY LiveFacts DEF IndInv, Control, Places
<1>. QED
  BY <1>1, <1>2

-----------------------------------------------------------------------------
(* What steps do to the stack: the inner call goes on, another is entered, or
   it returns to the routine below. *)

Replaced(k) ==
    /\ StackStep /\ Len(Calls') = Depth /\ Calls'[Depth] = k
    /\ \A l \in 1 .. Depth - 1 : Calls'[l] = Calls[l]
SameBut(x, y) == x.slot = y.slot /\ x.at = y.at /\ x.lib = y.lib /\ x.image = y.image
                 /\ x.base = y.base /\ x.result = y.result
Pushed(k) ==
    /\ StackStep /\ Len(Calls') = Depth + 1 /\ Calls'[Depth + 1] = k
    /\ \A l \in 1 .. Depth : Calls'[l] \in Call /\ SameBut(Calls'[l], Calls[l])
Popped ==
    /\ StackStep /\ Depth \in Nat /\ Depth >= 1 /\ Len(Calls') = Depth - 1
    /\ \A l \in 1 .. Depth - 1 :
         /\ Calls'[l].slot = Calls[l].slot /\ Calls'[l].lib = Calls[l].lib
         /\ Calls'[l].image = Calls[l].image /\ Calls'[l].base = Calls[l].base
         /\ \/ Calls'[l].at = Calls[l].at
            \/ l = Depth - 1 /\ Calls[l].at = "init" /\ Calls'[l].at = "undo"

(* Goes replaces the inner call. *)
LEMMA GoesShape ==
    ASSUME IndInv, NEW c, NEW place, At(c, place), NEW k \in Call, Goes(c, k), run' = run
    PROVE  Replaced(k) /\ stack' \in [Context -> Seq(Call)]
<1>1. c = run /\ stack[c] = Calls /\ Level(c) = Depth /\ Depth \in 1 .. Len(Calls)
  BY TopFacts
<1>2. Calls \in Seq(Call) /\ TypeOK
  BY Types DEF IndInv, Control
<1>. DEFINE t == [Calls EXCEPT ![Depth] = k]
<1>3. /\ t \in Seq(Call) /\ Len(t) = Len(Calls)
      /\ \A l \in 1 .. Len(Calls) : t[l] = IF l = Depth THEN k ELSE Calls[l]
  BY <1>1, <1>2, ExceptSeq
<1>4. stack' = [stack EXCEPT ![run] = t]
  BY <1>1 DEF Goes
<1>. HIDE DEF t
<1>5. StackStep /\ Calls' = t /\ stack' \in [Context -> Seq(Call)]
  BY <1>2, <1>3, <1>4, StackSteps
<1>6. Len(t) = Depth /\ t[Depth] = k /\ \A l \in 1 .. Depth - 1 : t[l] = Calls[l]
  <2>1. Depth = Len(Calls) /\ Depth \in Nat
    BY <1>2, SeqFacts DEF Depth
  <2>. QED
    BY <1>1, <1>3, <2>1
<1>. QED
  BY <1>5, <1>6 DEF Replaced

(* The inner call goes on: registers and what slots have saved are as before. *)
LEMMA ReplaceControl ==
    ASSUME IndInv, NEW c, NEW place, At(c, place), NEW k \in Call, Replaced(k), TypeOK',
           dead' = dead, regs' = regs, k.slot = Inner.slot,
           k.at \in Opening => place \in Opening,
           \A i \in Slot : slot'[i].saved = slot[i].saved
    PROVE  Control'
<1>1. /\ run \notin dead /\ Depth \in Nat /\ Depth >= 1 /\ run' = run /\ Len(Calls') = Depth
      /\ Depth = Len(Calls) /\ Inner.slot \in Slot
      /\ \A l \in 1 .. Depth - 1 :
           /\ l \in 1 .. Len(Calls) /\ Calls[l] \in Call /\ Calls[l].at \in Waiting
           /\ (place \in Opening => Calls[l].at = "init") /\ Calls[l].slot # Inner.slot
      /\ Calls'[Depth] = k /\ \A l \in 1 .. Depth - 1 : Calls'[l] = Calls[l]
  BY TopFacts DEF Replaced, StackStep, Depth
<1>2. Alone'
  BY <1>1 DEF IndInv, Control, Alone, TypeOK, Replaced, StackStep
<1>3. Stacked'
  <2>. SUFFICES ASSUME NEW l \in 1 .. Depth, NEW m \in 1 .. Depth, l < m
                PROVE  /\ Calls'[l].at \in Waiting
                       /\ (Calls'[m].at \in Opening => Calls'[l].at = "init")
                       /\ Calls'[l].slot # Calls'[m].slot
    BY <1>1 DEF Stacked
  <2>1. CASE m = Depth
    <3>1. l \in 1 .. Depth - 1
      BY <1>1, <2>1
    <3>. QED
      BY <1>1, <2>1, <3>1
  <2>2. CASE m # Depth
    <3>1. l \in 1 .. Depth - 1 /\ m \in 1 .. Depth - 1
      BY <1>1, <2>2
    <3>2. Calls'[l] = Calls[l] /\ Calls'[m] = Calls[m] /\ l \in 1 .. Len(Calls) /\ m \in 1 .. Len(Calls)
      BY <1>1, <3>1
    <3>3. Stacked
      BY DEF IndInv, Control
    <3>. QED
      BY <3>2, <3>3 DEF Stacked
  <2>. QED
    BY <2>1, <2>2
<1>4. RegistersKept'
  <2>1. \A d \in Context : Len(stack'[d]) = Len(stack[d])
    <3>1. \A d \in Context \ {run} : stack'[d] = stack[d]
      BY DEF IndInv, Control, TypeOK, Replaced, StackStep
    <3>2. stack'[run] = Calls' /\ stack[run] = Calls
      BY <1>1 DEF Calls
    <3>. QED
      BY <1>1, <3>1, <3>2
  <2>. QED
    BY <2>1 DEF IndInv, Control, Saved, RegistersKept, Level
<1>5. \A l \in 1 .. Len(Calls') : slot'[Calls'[l].slot].saved = <<run', l - 1>>
  <2>. SUFFICES ASSUME NEW l \in 1 .. Depth PROVE slot'[Calls'[l].slot].saved = <<run, l - 1>>
    BY <1>1
  <2>1. Calls'[l].slot = Calls[l].slot /\ Calls[l].slot \in Slot
    <3>1. CASE l = Depth
      BY <1>1, <3>1 DEF Inner
    <3>2. CASE l \in 1 .. Depth - 1
      BY <1>1, <3>2 DEF Call
    <3>. QED
      BY <1>1, <3>1, <3>2
  <2>2. slot[Calls[l].slot].saved = <<run, l - 1>>
    BY <1>1 DEF IndInv, Control, Saved
  <2>. QED
    BY <2>1, <2>2
<1>. QED
  BY <1>2, <1>3, <1>4, <1>5 DEF Control, Saved

(* The same slots are on the stack. *)
LEMMA ReplaceLive ==
    ASSUME IndInv, NEW c, NEW place, At(c, place), NEW k \in Call, Replaced(k),
           k.slot = Inner.slot
    PROVE  \A j \in Slot : OnStack(j)' <=> OnStack(j)
<1>1. /\ Depth \in Nat /\ Depth >= 1 /\ Len(Calls') = Depth /\ Depth = Len(Calls)
      /\ Calls'[Depth] = k /\ \A l \in 1 .. Depth - 1 : Calls'[l] = Calls[l]
  BY TopFacts DEF Replaced, Depth
<1>2. \A l \in 1 .. Depth : Calls'[l].slot = Calls[l].slot
  <2>. SUFFICES ASSUME NEW l \in 1 .. Depth PROVE Calls'[l].slot = Calls[l].slot
    OBVIOUS
  <2>1. l = Depth \/ l \in 1 .. Depth - 1
    BY <1>1
  <2>. QED
    BY <1>1, <2>1 DEF Inner
<1>. QED
  BY <1>1, <1>2 DEF OnStack

(* A waiting call asks nothing but that its slot is left alone, and the count
   of its image while that expunges itself. *)
LEMMA WaitingKept ==
    ASSUME NEW k \in Call, CallOK(k), k.at \in Waiting, slot'[k.slot] = slot[k.slot],
           k.at = "expunge" => mem'[k.image].count = mem[k.image].count
    PROVE  CallOK(k)'
  BY DEF CallOK, Waiting, Opening, Closing, Open

(* A step leaves the slots of other calls alone, and what their images count. *)
Others(i) ==
    /\ \A j \in Slot \ {i} : slot'[j] = slot[j]
    /\ \A j \in Slot \ {i} : Live(j) => mem'[slot[j].start].count = mem[slot[j].start].count

(* Then those calls know what they knew. *)
LEMMA BelowKept ==
    ASSUME IndInv, NEW c, NEW place, At(c, place), Others(Inner.slot)
    PROVE  \A l \in 1 .. Depth - 1 : \A k : k = Calls[l] => CallOK(k)'
<1>. SUFFICES ASSUME NEW l \in 1 .. Depth - 1, NEW k, k = Calls[l] PROVE CallOK(k)'
  OBVIOUS
<1>1. /\ l \in 1 .. Len(Calls) /\ k \in Call /\ k.at \in Waiting /\ CallOK(k)
      /\ k.slot # Inner.slot
  BY TopFacts
<1>2. k.slot \in Slot /\ Live(k.slot) /\ k.image = slot[k.slot].start
  BY <1>1 DEF Call, Live, OnStack, CallOK
<1>3. /\ slot'[k.slot] = slot[k.slot] /\ mem'[k.image].count = mem[k.image].count
  BY <1>1, <1>2 DEF Others
<1>. QED
  BY <1>1, <1>3, WaitingKept

(* So only the inner call remains. *)
LEMMA ReplaceCalls ==
    ASSUME IndInv, NEW c, NEW place, At(c, place), NEW k \in Call, Replaced(k),
           Others(Inner.slot), CallOK(k)'
    PROVE  CallsOK'
<1>1. /\ Depth \in Nat /\ Depth >= 1 /\ Len(Calls') = Depth
      /\ Calls'[Depth] = k /\ \A l \in 1 .. Depth - 1 : Calls'[l] = Calls[l]
  BY TopFacts DEF Replaced
<1>2. \A l \in 1 .. Depth - 1 : \A x : x = Calls[l] => CallOK(x)'
  BY BelowKept
<1>. SUFFICES ASSUME NEW l \in 1 .. Depth, NEW x, x = Calls'[l] PROVE CallOK(x)'
  BY <1>1 DEF CallsOK, CallOK
<1>3. CASE l = Depth
  BY <1>1, <1>3
<1>4. CASE l \in 1 .. Depth - 1
  BY <1>1, <1>2, <1>4
<1>. QED
  BY <1>1, <1>3, <1>4

(* A slot that is left alone is as it should be if its memory is. *)
InMemory(j) ==
    /\ mem'[slot[j].start].what = mem[slot[j].start].what
    /\ mem'[slot[j].start].lib = mem[slot[j].start].lib
Handed(j) ==
    \A b \in Open(j) : /\ b < heap'
                       /\ \/ mem'[b].what = "free"
                          \/ /\ mem'[b].what = mem[b].what /\ mem'[b].of = mem[b].of

(* A slot that a step leaves alone stays as it should be. *)
LEMMA SlotKept ==
    ASSUME NEW j \in Slot, SlotOK(j), slot'[j] = slot[j], Live(j)' => Live(j) /\ InMemory(j),
           slot[j].state = "ready" => mem'[slot[j].close] = mem[slot[j].close], Handed(j)
    PROVE  SlotOK(j)'
<1>1. /\ slot'[j].state = "ready" \/ slot'[j].opens = <<>>
      /\ Reusable(j)' \/ ~slot'[j].reclaim
      /\ slot'[j].state \in {"opening", "ready"} => slot'[j].base = slot'[j].start
  BY DEF SlotOK, Reusable
<1>2. Live(j)' => slot'[j].name \in Lib /\ slot'[j].start \in Address
                  /\ mem'[slot'[j].start].what = "image" /\ mem'[slot'[j].start].lib = slot'[j].name
  BY DEF SlotOK, InMemory
<1>3. slot'[j].state = "ready" => slot'[j].close \in Address
                                  /\ mem'[slot'[j].close] = Trampoline(j)
  BY DEF SlotOK
<1>4. \A b \in Open(j)' :
         /\ b < heap'
         /\ \/ b = slot'[j].start
            \/ mem'[b].what = "clone" /\ mem'[b].of = slot'[j].start
            \/ mem'[b].what = "free"
         /\ b # slot'[j].start => Occ(slot'[j].opens, {b}) <= 1
  <2>. SUFFICES ASSUME NEW b \in Open(j)
                PROVE  /\ b < heap'
                       /\ \/ b = slot[j].start
                          \/ mem'[b].what = "clone" /\ mem'[b].of = slot[j].start
                          \/ mem'[b].what = "free"
                       /\ b # slot[j].start => Occ(slot[j].opens, {b}) <= 1
    BY DEF Open
  <2>1. /\ \/ b = slot[j].start
           \/ mem[b].what = "clone" /\ mem[b].of = slot[j].start
           \/ mem[b].what = "free"
        /\ b # slot[j].start => Occ(slot[j].opens, {b}) <= 1
    BY DEF SlotOK, Base
  <2>. QED
    BY <2>1 DEF Handed
<1>. QED
  BY <1>1, <1>2, <1>3, <1>4 DEF SlotOK, Base, Trampoline, Free

(* A step that leaves memory and slots alone. *)
LEMMA StillPlaces ==
    ASSUME IndInv, mem' = mem, heap' = heap, slot' = slot,
           \A j \in Slot : OnStack(j)' => OnStack(j)
    PROVE  SlotsOK' /\ Apart' /\ HeapOK'
<1>1. \A j \in Slot : Live(j)' => Live(j)
  BY DEF Live, Reusable
<1>2. SlotsOK'
  <2>. SUFFICES ASSUME NEW j \in Slot PROVE SlotOK(j)'
    BY DEF SlotsOK
  <2>1. SlotOK(j)
    BY DEF IndInv, Places, SlotsOK
  <2>2. Handed(j)
    BY <2>1 DEF Handed, SlotOK
  <2>. QED
    BY <1>1, <2>1, <2>2, SlotKept DEF InMemory
<1>3. Apart'
  BY <1>1 DEF IndInv, Places, Apart, Open
<1>4. HeapOK'
  BY DEF IndInv, Places, HeapOK
<1>. QED
  BY <1>2, <1>3, <1>4

(* And takes at most away from holders. *)
LEMMA StillTallied ==
    ASSUME IndInv, TypeOK', StackStep, KeptBut(HolderSet, {}), mem' = mem, slot' = slot,
           \A j \in Slot : OnStack(j)' => OnStack(j)
    PROVE  Tallied'
<1>1. \A j \in Slot : Live(j)' => Live(j)
  BY DEF Live, Reusable
<1>2. Finite' /\ Drawn /\ NoMore(RefHolders) /\ NoMore(CountHolders)
  BY Fewer DEF IndInv, Control, Tallied
<1>3. /\ \A b : Owned(b) => Owned(b)'
      /\ \A i \in Ready : i \in Ready' /\ slot'[i].opens = slot[i].opens
  BY DEF Owned, Base, Ready
<1>4. \A i \in Slot : Live(i)' => Carries(i)
  <2>. SUFFICES ASSUME NEW i \in Slot, Live(i) PROVE Carries(i)
    BY <1>1
  <2>1. mem[slot[i].start].count \in Int
    BY LiveFacts DEF IndInv, Control, Places
  <2>. QED
    BY <2>1 DEF Carries, Narrows
<1>. QED
  BY <1>2, <1>3, <1>4, TalliedKept

(* What a call that goes on holds. *)
LEMMA ReplaceKept ==
    ASSUME IndInv, NEW c, NEW place, At(c, place), NEW k \in Call, Replaced(k), NEW X, NEW P,
           \A d \in Context : <<"program", d, 0>> \in P \/ held'[d] = held[d],
           \A a \in Address : <<"library", a, 0>> \in P \/ mem'[a].uses \in {mem[a].uses, <<>>},
           \A kind \in {"call", "flight", "counted"} :
             \/ <<kind, run, Depth>> \notin X \/ <<kind, run, Depth>> \in P
             \/ Carried(kind, k) = <<>> \/ Carried(kind, k) = Carried(kind, Inner)
    PROVE  KeptBut(X, P)
<1>1. /\ Depth \in Nat /\ Depth >= 1 /\ Len(Calls') = Depth /\ Depth = Len(Calls)
      /\ Calls'[Depth] = k /\ \A l \in 1 .. Depth - 1 : Calls'[l] = Calls[l]
      /\ Inner = Calls[Depth]
  BY TopFacts DEF Replaced, Depth, Inner
<1>2. ASSUME NEW l \in 1 .. Depth, NEW kind \in {"call", "flight", "counted"}
      PROVE  \/ <<kind, run, l>> \notin X \/ <<kind, run, l>> \in P
             \/ Carried(kind, Calls'[l]) = <<>>
             \/ l \in 1 .. Len(Calls) /\ Carried(kind, Calls'[l]) = Carried(kind, Calls[l])
  <2>1. CASE l = Depth
    BY <1>1, <2>1
  <2>2. CASE l \in 1 .. Depth - 1
    BY <1>1, <2>2
  <2>. QED
    BY <1>1, <2>1, <2>2
<1>. QED
  BY <1>1, <1>2 DEF KeptBut

(* A step that only moves the inner call on. *)
LEMMA MovesOn ==
    ASSUME IndInv, NEW c \in Context, NEW place, At(c, place), NEW k \in Call, Goes(c, k),
           UNCHANGED <<slot, mem, heap, regs, held, run, dead>>,
           k.slot = Inner.slot, k.at \in Opening => place \in Opening, CallOK(k)',
           \A kind \in {"call", "flight", "counted"} :
             Carried(kind, k) = <<>> \/ Carried(kind, k) = Carried(kind, Inner)
    PROVE  IndInv'
<1>1. Replaced(k) /\ stack' \in [Context -> Seq(Call)]
  BY GoesShape
<1>2. TypeOK'
  BY <1>1 DEF IndInv, Control, TypeOK
<1>3. Control'
  BY <1>1, <1>2, ReplaceControl
<1>4. \A j \in Slot : OnStack(j)' <=> OnStack(j)
  BY <1>1, ReplaceLive
<1>5. CallsOK'
  <2>1. Others(Inner.slot)
    BY DEF Others
  <2>. QED
    BY <1>1, <2>1, ReplaceCalls
<1>6. SlotsOK' /\ Apart' /\ HeapOK'
  BY <1>4, StillPlaces
<1>7. Tallied'
  <2>1. KeptBut(HolderSet, {})
    BY <1>1, ReplaceKept
  <2>. QED
    BY <1>1, <1>2, <1>4, <2>1, StillTallied DEF Replaced
<1>. QED
  BY <1>3, <1>5, <1>6, <1>7 DEF IndInv, Places

(* One slot changes, but not where its library is. *)
Only(i) == i \in Slot /\ (\A j \in Slot \ {i} : slot'[j] = slot[j])
           /\ slot'[i].name = slot[i].name /\ slot'[i].start = slot[i].start

(* As a step writes it. *)
LEMMA SlotSteps ==
    ASSUME TypeOK, NEW i \in Slot, NEW r \in SlotRecord, slot' = [slot EXCEPT ![i] = r],
           r.name = slot[i].name, r.start = slot[i].start
    PROVE  Only(i) /\ slot'[i] = r /\ slot' \in [Slot -> SlotRecord]
<1>1. slot'[i] = r /\ slot' \in [Slot -> SlotRecord] /\ \A j \in Slot \ {i} : slot'[j] = slot[j]
  BY DEF TypeOK
<1>. QED
  BY <1>1 DEF Only

(* Then nothing else is disturbed. *)
LEMMA OneSlotPlaces ==
    ASSUME IndInv, mem' = mem, heap' = heap, NEW i \in Slot, Only(i), SlotOK(i)',
           Open(i)' \subseteq Open(i), \A j \in Slot : Live(j)' => Live(j)
    PROVE  SlotsOK' /\ Apart' /\ HeapOK' /\ Others(i)
<1>1. \A j \in Slot \ {i} : slot'[j] = slot[j]
  BY DEF Only
<1>2. SlotsOK'
  <2>. SUFFICES ASSUME NEW j \in Slot, j # i PROVE SlotOK(j)'
    BY DEF SlotsOK
  <2>1. SlotOK(j) /\ slot'[j] = slot[j]
    BY <1>1 DEF IndInv, Places, SlotsOK
  <2>2. Handed(j)
    BY <2>1 DEF Handed, SlotOK
  <2>. QED
    BY <2>1, <2>2, SlotKept DEF InMemory
<1>3. Apart'
  <2>. SUFFICES ASSUME NEW j \in Slot, NEW m \in Slot, j # m
                PROVE  /\ Live(j)' /\ Live(m)' => slot'[j].name # slot'[m].name
                       /\ Open(j)' \cap Open(m)' = {}
    BY DEF Apart
  <2>1. \A x \in Slot : slot'[x].name = slot[x].name /\ Open(x)' \subseteq Open(x)
    BY <1>1 DEF Only, Open
  <2>2. /\ Live(j) /\ Live(m) => slot[j].name # slot[m].name
        /\ Open(j) \cap Open(m) = {}
    BY DEF IndInv, Places, Apart
  <2>. QED
    BY <2>1, <2>2
<1>4. HeapOK'
  BY DEF IndInv, Places, HeapOK
<1>. QED
  BY <1>1, <1>2, <1>3, <1>4 DEF Others

(* If it was ready it is, and lists what it did. *)
LEMMA OneSlotTallied ==
    ASSUME IndInv, TypeOK', StackStep, KeptBut(HolderSet, {}), mem' = mem,
           NEW i \in Slot, Only(i), \A j \in Slot : Live(j)' => Live(j),
           slot[i].state = "ready" => slot'[i].state = "ready" /\ slot'[i].opens = slot[i].opens
    PROVE  Tallied'
<1>1. \A j \in Slot \ {i} : slot'[j] = slot[j]
  BY DEF Only
<1>2. Finite' /\ Drawn /\ NoMore(RefHolders) /\ NoMore(CountHolders)
  BY Fewer DEF IndInv, Control, Tallied
<1>3. \A j \in Ready : j \in Ready' /\ slot'[j].opens = slot[j].opens
                       /\ slot'[j].start = slot[j].start
  BY <1>1 DEF Ready, Only
<1>4. \A b : Owned(b) => Owned(b)'
  BY <1>3 DEF Owned, Base
<1>5. \A j \in Slot : Live(j)' => Carries(j)
  <2>. SUFFICES ASSUME NEW j \in Slot, Live(j) PROVE Carries(j)
    OBVIOUS
  <2>1. mem[slot[j].start].count \in Int
    BY LiveFacts DEF IndInv, Control, Places
  <2>. QED
    BY <1>1, <2>1 DEF Carries, Narrows, Only
<1>. QED
  BY <1>2, <1>3, <1>4, <1>5, TalliedKept

(* Another call is entered: its slot has the registers of the routine that
   made it, and none of the calls below is in that slot. *)
LEMMA PushControl ==
    ASSUME IndInv, NEW k \in Call, Pushed(k), TypeOK', run \notin dead, dead' = dead,
           \A l \in 1 .. Depth : Calls[l].at \in Waiting /\ Calls[l].slot # k.slot,
           k.at \in Opening => \A l \in 1 .. Depth : Calls[l].at = "init",
           regs' = [regs EXCEPT ![run] = <<run, Depth + 1>>],
           slot'[k.slot].saved = regs[run],
           \A j \in Slot : j # k.slot => slot'[j].saved = slot[j].saved
    PROVE  Control'
<1>1. /\ Depth \in Nat /\ Depth = Len(Calls) /\ run' = run /\ Len(Calls') = Depth + 1
      /\ Calls'[Depth + 1] = k /\ run \in Context
      /\ \A l \in 1 .. Depth : /\ Calls'[l].slot = Calls[l].slot /\ Calls'[l].at = Calls[l].at
                               /\ Calls[l].slot \in Slot
  BY Types DEF IndInv, Control, TypeOK, Pushed, SameBut, StackStep, Depth, Call
<1>2. Alone'
  BY <1>1 DEF IndInv, Control, Alone, TypeOK, Pushed, StackStep
<1>3. Stacked'
  <2>. SUFFICES ASSUME NEW l \in 1 .. Depth + 1, NEW m \in 1 .. Depth + 1, l < m
                PROVE  /\ Calls'[l].at \in Waiting
                       /\ (Calls'[m].at \in Opening => Calls'[l].at = "init")
                       /\ Calls'[l].slot # Calls'[m].slot
    BY <1>1 DEF Stacked
  <2>1. l \in 1 .. Depth
    BY <1>1
  <2>2. CASE m = Depth + 1
    BY <1>1, <2>1, <2>2
  <2>3. CASE m \in 1 .. Depth
    BY <1>1, <2>1, <2>3 DEF IndInv, Control, Stacked
  <2>. QED
    BY <1>1, <2>2, <2>3
<1>4. RegistersKept'
  <2>. SUFFICES ASSUME NEW d \in Context, d \notin dead
                PROVE  regs'[d] = <<d, Len(stack'[d])>>
    BY DEF RegistersKept, Level
  <2>1. CASE d = run
    <3>1. stack'[run] = Calls'
      BY <1>1 DEF Calls
    <3>2. regs'[run] = <<run, Depth + 1>>
      BY <1>1 DEF IndInv, Control, TypeOK
    <3>. QED
      BY <1>1, <2>1, <3>1, <3>2
  <2>2. CASE d # run
    <3>1. stack'[d] = stack[d] /\ regs'[d] = regs[d]
      BY <2>2 DEF IndInv, Control, TypeOK, Pushed, StackStep
    <3>. QED
      BY <3>1 DEF IndInv, Control, Saved, RegistersKept, Level
  <2>. QED
    BY <2>1, <2>2
<1>5. \A l \in 1 .. Len(Calls') : slot'[Calls'[l].slot].saved = <<run', l - 1>>
  <2>. SUFFICES ASSUME NEW l \in 1 .. Depth + 1
                PROVE  slot'[Calls'[l].slot].saved = <<run, l - 1>>
    BY <1>1
  <2>1. CASE l = Depth + 1
    <3>1. regs[run] = <<run, Depth>>
      BY <1>1 DEF IndInv, Control, Saved, RegistersKept, Level, Depth, Calls
    <3>2. l - 1 = Depth
      BY <1>1, <2>1
    <3>. QED
      BY <1>1, <2>1, <3>1, <3>2
  <2>2. CASE l \in 1 .. Depth
    <3>1. slot[Calls[l].slot].saved = <<run, l - 1>>
      BY <1>1, <2>2 DEF IndInv, Control, Saved
    <3>. QED
      BY <1>1, <2>2, <3>1
  <2>. QED
    BY <1>1, <2>1, <2>2
<1>. QED
  BY <1>2, <1>3, <1>4, <1>5 DEF Control, Saved

(* The inner call returns: the routine below has its registers back. *)
LEMMA PopControl ==
    ASSUME IndInv, Popped, TypeOK', run \notin dead, dead' = dead,
           regs' = [regs EXCEPT ![run] = slot[Inner.slot].saved],
           \A j \in Slot : slot'[j].saved = slot[j].saved
    PROVE  Control'
<1>1. /\ Depth \in Nat /\ Depth >= 1 /\ Depth = Len(Calls) /\ run' = run
      /\ Len(Calls') = Depth - 1 /\ run \in Context
      /\ \A l \in 1 .. Depth : Calls[l].slot \in Slot
      /\ \A l \in 1 .. Depth - 1 :
           /\ Calls'[l].slot = Calls[l].slot
           /\ \/ Calls'[l].at = Calls[l].at
              \/ l = Depth - 1 /\ Calls[l].at = "init" /\ Calls'[l].at = "undo"
  BY Types DEF IndInv, Control, TypeOK, Popped, StackStep, Depth, Call
<1>2. Alone'
  BY <1>1 DEF IndInv, Control, Alone, TypeOK, Popped, StackStep
<1>3. Stacked'
  <2>. SUFFICES ASSUME NEW l \in 1 .. Depth - 1, NEW m \in 1 .. Depth - 1, l < m
                PROVE  /\ Calls'[l].at \in Waiting
                       /\ (Calls'[m].at \in Opening => Calls'[l].at = "init")
                       /\ Calls'[l].slot # Calls'[m].slot
    BY <1>1 DEF Stacked
  <2>1. l # Depth - 1 /\ l \in 1 .. Depth /\ m \in 1 .. Depth
    BY <1>1
  <2>2. /\ Calls[l].at \in Waiting /\ (Calls[m].at \in Opening => Calls[l].at = "init")
        /\ Calls[l].slot # Calls[m].slot
    BY <1>1, <2>1 DEF IndInv, Control, Stacked
  <2>3. Calls'[l].at = Calls[l].at /\ (Calls'[m].at \in Opening => Calls[m].at \in Opening)
    BY <1>1, <2>1 DEF Opening
  <2>. QED
    BY <1>1, <2>2, <2>3
<1>4. slot[Inner.slot].saved = <<run, Depth - 1>>
  BY <1>1 DEF IndInv, Control, Saved, Inner
<1>5. RegistersKept'
  <2>. SUFFICES ASSUME NEW d \in Context, d \notin dead
                PROVE  regs'[d] = <<d, Len(stack'[d])>>
    BY DEF RegistersKept, Level
  <2>1. CASE d = run
    <3>1. stack'[run] = Calls'
      BY <1>1 DEF Calls
    <3>2. regs'[run] = <<run, Depth - 1>>
      BY <1>1, <1>4 DEF IndInv, Control, TypeOK
    <3>. QED
      BY <1>1, <2>1, <3>1, <3>2
  <2>2. CASE d # run
    <3>1. stack'[d] = stack[d] /\ regs'[d] = regs[d]
      BY <2>2 DEF IndInv, Control, TypeOK, Popped, StackStep
    <3>. QED
      BY <3>1 DEF IndInv, Control, Saved, RegistersKept, Level
  <2>. QED
    BY <2>1, <2>2
<1>6. \A l \in 1 .. Len(Calls') : slot'[Calls'[l].slot].saved = <<run', l - 1>>
  <2>. SUFFICES ASSUME NEW l \in 1 .. Depth - 1
                PROVE  slot'[Calls'[l].slot].saved = <<run, l - 1>>
    BY <1>1
  <2>1. l \in 1 .. Depth
    BY <1>1
  <2>2. slot[Calls[l].slot].saved = <<run, l - 1>>
    BY <1>1, <2>1 DEF IndInv, Control, Saved
  <2>. QED
    BY <1>1, <2>1, <2>2
<1>. QED
  BY <1>2, <1>3, <1>5, <1>6 DEF Control, Saved

(* OpenLibrary is called by a program or by the Init of a library; then all
   calls of the context are such Inits. *)
LEMMA AskFacts ==
    ASSUME IndInv, NEW c, NEW n, Asks(c, n)
    PROVE  /\ c = run /\ run \notin dead /\ stack[c] = Calls /\ Level(c) = Depth
           /\ Depth \in Nat /\ Depth = Len(Calls) /\ Calls \in Seq(Call)
           /\ (Calls = <<>> <=> Depth = 0)
           /\ \A l \in 1 .. Depth :
                /\ Calls[l] \in Call /\ Calls[l].at = "init" /\ CallOK(Calls[l])
                /\ Calls[l].slot \in Slot /\ slot[Calls[l].slot].state = "loading"
<1>1. /\ c = run /\ run \notin dead /\ stack[c] = Calls
      /\ Calls = <<>> \/ At(c, "init")
  BY RunFacts DEF Asks, InProgram, At
<1>2. Depth \in Nat /\ Depth = Len(Calls) /\ Calls \in Seq(Call) /\ (Calls = <<>> <=> Depth = 0)
      /\ Level(c) = Depth
  <2>1. Calls \in Seq(Call)
    BY Types DEF IndInv, Control
  <2>. QED
    BY <1>1, <2>1, SeqFacts DEF Depth, Level
<1>3. \A l \in 1 .. Depth : Calls[l] \in Call /\ Calls[l].at = "init" /\ CallOK(Calls[l])
  <2>1. CASE At(c, "init")
    <3>1. /\ Inner \in Call /\ Inner.at = "init" /\ CallOK(Inner) /\ "init" \in Opening
          /\ \A l \in 1 .. Depth - 1 :
               /\ Calls[l] \in Call /\ CallOK(Calls[l])
               /\ ("init" \in Opening => Calls[l].at = "init")
      BY <2>1, TopFacts DEF Opening
    <3>2. \A l \in 1 .. Depth : l = Depth \/ l \in 1 .. Depth - 1
      BY <1>2
    <3>. QED
      BY <3>1, <3>2 DEF Inner
  <2>2. CASE Calls = <<>>
    BY <1>2, <2>2
  <2>. QED
    BY <1>1, <2>1, <2>2
<1>4. \A l \in 1 .. Depth : Calls[l].slot \in Slot /\ slot[Calls[l].slot].state = "loading"
  BY <1>3 DEF Call, CallOK
<1>. QED
  BY <1>1, <1>2, <1>3, <1>4

(* Enter pushes a call on the stack. *)
LEMMA EnterShape ==
    ASSUME IndInv, NEW c, c = run, NEW t \in Seq(Call), Len(t) = Depth,
           \A l \in 1 .. Depth : SameBut(t[l], Calls[l]),
           NEW k \in Call, Enter(c, t, k), run' = run
    PROVE  /\ Pushed(k) /\ stack' \in [Context -> Seq(Call)] /\ Calls' = Append(t, k)
           /\ \A l \in 1 .. Depth : Calls'[l] = t[l]
           /\ regs' = [regs EXCEPT ![run] = <<run, Depth + 1>>]
           /\ regs' \in [Context -> Context \X Nat]
<1>1. TypeOK /\ Depth \in Nat
  BY Types DEF IndInv, Control, Depth
<1>. DEFINE u == Append(t, k)
<1>2. /\ u \in Seq(Call) /\ Len(u) = Depth + 1 /\ u[Depth + 1] = k
      /\ \A l \in 1 .. Depth : u[l] = t[l]
  BY <1>1, AppendProperties
<1>3. stack' = [stack EXCEPT ![run] = u] /\ regs' = [regs EXCEPT ![run] = <<run, Depth + 1>>]
  BY DEF Enter
<1>. HIDE DEF u
<1>4. StackStep /\ Calls' = u /\ stack' \in [Context -> Seq(Call)]
  BY <1>1, <1>2, <1>3, StackSteps
<1>5. Pushed(k)
  <2>1. \A l \in 1 .. Depth : t[l] \in Call
    BY SeqFacts
  <2>. QED
    BY <1>2, <1>4, <2>1 DEF Pushed
<1>6. regs' \in [Context -> Context \X Nat]
  BY <1>1, <1>3 DEF TypeOK
<1>. QED
  BY <1>2, <1>3, <1>4, <1>5, <1>6 DEF u

(* A call that is entered adds its slot to those on the stack. *)
LEMMA PushLive ==
    ASSUME IndInv, NEW k \in Call, Pushed(k)
    PROVE  \A j \in Slot : OnStack(j)' <=> OnStack(j) \/ j = k.slot
<1>1. /\ Depth \in Nat /\ Depth = Len(Calls) /\ Len(Calls') = Depth + 1
      /\ Calls'[Depth + 1] = k /\ \A l \in 1 .. Depth : Calls'[l].slot = Calls[l].slot
  BY Types DEF IndInv, Control, Pushed, SameBut, Depth
<1>. SUFFICES ASSUME NEW j \in Slot PROVE OnStack(j)' <=> OnStack(j) \/ j = k.slot
  OBVIOUS
<1>2. ASSUME NEW l \in 1 .. Depth + 1, Calls'[l].slot = j PROVE OnStack(j) \/ j = k.slot
  <2>1. l = Depth + 1 \/ l \in 1 .. Depth
    BY <1>1
  <2>. QED
    BY <1>1, <1>2, <2>1 DEF OnStack
<1>3. ASSUME NEW l \in 1 .. Depth, Calls[l].slot = j PROVE OnStack(j)'
  <2>1. l \in 1 .. Depth + 1
    BY <1>1
  <2>. QED
    BY <1>1, <1>3, <2>1 DEF OnStack
<1>4. ASSUME j = k.slot PROVE OnStack(j)'
  <2>1. Depth + 1 \in 1 .. Depth + 1
    BY <1>1
  <2>. QED
    BY <1>1, <1>4, <2>1 DEF OnStack
<1>. QED
  BY <1>1, <1>2, <1>3, <1>4 DEF OnStack

(* The calls below it wait, so only it remains. *)
LEMMA PushCalls ==
    ASSUME IndInv, NEW k \in Call, Pushed(k), CallOK(k)', Others(k.slot),
           \A l \in 1 .. Depth : Calls[l].at \in Waiting /\ Calls[l].slot # k.slot
    PROVE  CallsOK'
<1>1. /\ Depth \in Nat /\ Depth = Len(Calls) /\ Len(Calls') = Depth + 1
      /\ Calls'[Depth + 1] = k
      /\ \A l \in 1 .. Depth : /\ Calls[l] \in Call /\ Calls'[l] \in Call
                               /\ SameBut(Calls'[l], Calls[l]) /\ CallOK(Calls[l])
  BY Types DEF IndInv, Control, Places, CallsOK, Pushed, Depth
<1>. SUFFICES ASSUME NEW l \in 1 .. Depth + 1, NEW x, x = Calls'[l] PROVE CallOK(x)'
  BY <1>1 DEF CallsOK, CallOK
<1>2. CASE l = Depth + 1
  BY <1>1, <1>2
<1>3. CASE l \in 1 .. Depth
  <2>0. PICK y : y = Calls[l]
    OBVIOUS
  <2>1. /\ x \in Call /\ y \in Call /\ SameBut(x, y) /\ CallOK(y) /\ y.at \in Waiting
        /\ y.slot # k.slot
    BY <1>1, <1>3, <2>0
  <2>2. y.slot \in Slot /\ Live(y.slot) /\ y.image = slot[y.slot].start
    BY <1>1, <1>3, <2>0, <2>1 DEF Call, Live, OnStack, CallOK
  <2>3. CallOK(x) /\ x.at \in Waiting
    BY <2>1 DEF CallOK, SameBut, Waiting
  <2>4. slot'[x.slot] = slot[x.slot] /\ mem'[x.image].count = mem[x.image].count
    BY <2>1, <2>2 DEF Others, SameBut
  <2>. QED
    BY <2>1, <2>3, <2>4, WaitingKept
<1>. QED
  BY <1>1, <1>2, <1>3

(* What it holds, and the calls below. *)
LEMMA PushKept ==
    ASSUME IndInv, NEW k \in Call, Pushed(k), NEW X, NEW P,
           \A d \in Context : <<"program", d, 0>> \in P \/ held'[d] = held[d],
           \A a \in Address : <<"library", a, 0>> \in P \/ mem'[a].uses \in {mem[a].uses, <<>>},
           \A kind \in {"call", "flight", "counted"} :
             \/ <<kind, run, Depth + 1>> \notin X \/ <<kind, run, Depth + 1>> \in P
             \/ Carried(kind, k) = <<>>,
           \A l \in 1 .. Depth : <<"call", run, l>> \in P \/ Calls'[l].got = Calls[l].got
    PROVE  KeptBut(X, P)
<1>1. /\ Depth \in Nat /\ Depth = Len(Calls) /\ Len(Calls') = Depth + 1
      /\ Calls'[Depth + 1] = k /\ \A l \in 1 .. Depth : SameBut(Calls'[l], Calls[l])
  BY Types DEF IndInv, Control, Pushed, Depth
<1>2. ASSUME NEW l \in 1 .. Depth + 1, NEW kind \in {"call", "flight", "counted"}
      PROVE  \/ <<kind, run, l>> \notin X \/ <<kind, run, l>> \in P
             \/ Carried(kind, Calls'[l]) = <<>>
             \/ l \in 1 .. Len(Calls) /\ Carried(kind, Calls'[l]) = Carried(kind, Calls[l])
  <2>1. CASE l = Depth + 1
    BY <1>1, <2>1
  <2>2. CASE l \in 1 .. Depth
    BY <1>1, <2>2 DEF Carried, SameBut
  <2>. QED
    BY <1>1, <2>1, <2>2
<1>. QED
  BY <1>1, <1>2 DEF KeptBut

(* A call that returns takes its slot off the stack. *)
LEMMA PopLive ==
    ASSUME IndInv, Popped
    PROVE  \A j \in Slot : OnStack(j)' => OnStack(j)
<1>1. /\ Depth \in Nat /\ Depth = Len(Calls) /\ Len(Calls') = Depth - 1
      /\ \A l \in 1 .. Depth - 1 : Calls'[l].slot = Calls[l].slot /\ l \in 1 .. Depth
  BY Types DEF IndInv, Control, Popped, Depth
<1>. QED
  BY <1>1 DEF OnStack

(* The calls below wait, or are told that what they asked for failed. *)
LEMMA PopCalls ==
    ASSUME IndInv, NEW c, NEW place, At(c, place), Popped, Others(Inner.slot)
    PROVE  CallsOK'
<1>1. \A l \in 1 .. Depth - 1 : /\ \A k : k = Calls[l] => CallOK(k)'
                                /\ Calls[l].at \in Waiting
  BY BelowKept, TopFacts
<1>. SUFFICES ASSUME NEW l \in 1 .. Depth - 1, NEW x, x = Calls'[l] PROVE CallOK(x)'
  BY DEF CallsOK, CallOK, Popped
<1>2. PICK y : y = Calls[l]
  OBVIOUS
<1>3. /\ CallOK(y)' /\ y.at \in Waiting /\ x.slot = y.slot /\ x.lib = y.lib
      /\ x.image = y.image /\ x.base = y.base
      /\ x.at = y.at \/ (y.at = "init" /\ x.at = "undo")
  BY <1>1, <1>2 DEF Popped
<1>. QED
  BY <1>3 DEF CallOK, Waiting, Opening, Closing, Open

(* What the calls below hold. *)
LEMMA PopKept ==
    ASSUME IndInv, Popped, NEW X, NEW P,
           \A d \in Context : <<"program", d, 0>> \in P \/ held'[d] = held[d],
           \A a \in Address : <<"library", a, 0>> \in P \/ mem'[a].uses \in {mem[a].uses, <<>>},
           \A l \in 1 .. Depth - 1 : /\ Calls[l].at \in Waiting
                                     /\ <<"call", run, l>> \in P \/ Calls'[l].got = Calls[l].got
    PROVE  KeptBut(X, P)
<1>1. /\ Depth \in Nat /\ Depth = Len(Calls) /\ Len(Calls') = Depth - 1
  BY Types DEF IndInv, Control, Popped, Depth
<1>2. ASSUME NEW l \in 1 .. Depth - 1, NEW kind \in {"call", "flight", "counted"}
      PROVE  \/ <<kind, run, l>> \notin X \/ <<kind, run, l>> \in P
             \/ Carried(kind, Calls'[l]) = <<>>
             \/ l \in 1 .. Len(Calls) /\ Carried(kind, Calls'[l]) = Carried(kind, Calls[l])
  <2>0. PICK x, y : x = Calls'[l] /\ y = Calls[l]
    OBVIOUS
  <2>1. /\ y.at \in Waiting /\ x.base = y.base
        /\ x.at = y.at \/ (y.at = "init" /\ x.at = "undo")
        /\ <<"call", run, l>> \in P \/ x.got = y.got
    BY <2>0 DEF Popped
  <2>2. CASE kind = "call"
    BY <1>1, <2>0, <2>1, <2>2 DEF Carried
  <2>3. CASE kind = "flight"
    BY <1>1, <2>0, <2>1, <2>3 DEF Carried, Waiting
  <2>4. CASE kind = "counted"
    BY <1>1, <2>0, <2>1, <2>4 DEF Carried, Waiting
  <2>. QED
    BY <2>2, <2>3, <2>4
<1>. QED
  BY <1>1, <1>2 DEF KeptBut

(* Holders that hold what they did, of libraries that are where they were. *)
LEMMA SameTallied ==
    ASSUME IndInv, Holding' = Holding, mem' = mem, slot' = slot,
           \A j \in Slot : OnStack(j)' => OnStack(j)
    PROVE  Tallied'
<1>1. Finite' /\ AllOwned'
  BY DEF IndInv, Tallied, Finite, AllOwned, Owned, Ready, Base, Spots
<1>2. RefsListed'
  BY DEF IndInv, Tallied, RefsListed, Refs, Listed, Tally, Spots, Ready
<1>3. Counts'
  <2>. SUFFICES ASSUME NEW i \in Slot, Live(i)' PROVE Count(i)' <= mem'[slot'[i].start].count
    BY DEF Counts
  <2>1. Live(i) /\ Count(i)' = Count(i)
    BY DEF Live, Reusable, Count, Tally, Spots, Bases, Base
  <2>. QED
    BY <2>1 DEF IndInv, Tallied, Counts
<1>. QED
  BY <1>1, <1>2, <1>3 DEF Tallied

(* A step that changes nothing of all this. *)
LEMMA NothingKeeps ==
    ASSUME IndInv, UNCHANGED <<slot, mem, heap, stack, regs, held, run, dead>>
    PROVE  IndInv'
<1>1. Calls' = Calls
  BY DEF Calls
<1>2. Control'
  <2>1. TypeOK' /\ Alone'
    BY DEF IndInv, Control, TypeOK, Alone
  <2>2. Stacked'
    BY <1>1 DEF IndInv, Control, Stacked
  <2>3. Saved'
    BY <1>1 DEF IndInv, Control, Saved, RegistersKept, Level
  <2>. QED
    BY <2>1, <2>2, <2>3 DEF Control
<1>3. \A j \in Slot : OnStack(j)' => OnStack(j)
  BY <1>1 DEF OnStack
<1>4. SlotsOK' /\ Apart' /\ HeapOK'
  BY <1>3, StillPlaces
<1>5. CallsOK'
  <2>. SUFFICES ASSUME NEW l \in 1 .. Len(Calls), NEW k, k = Calls[l] PROVE CallOK(k)'
    BY <1>1 DEF CallsOK, CallOK
  <2>1. CallOK(k)
    BY DEF IndInv, Places, CallsOK
  <2>. QED
    BY <2>1 DEF CallOK, Open, Base, Trampoline, Free
<1>6. Holding' = Holding
  BY DEF Holding, HoldingAt, Carried
<1>7. Tallied'
  BY <1>3, <1>6, SameTallied
<1>. QED
  BY <1>2, <1>4, <1>5, <1>7 DEF IndInv, Places

(* What a slot has saved or is closing says nothing of where its library is. *)
LEMMA TouchedKept ==
    ASSUME NEW i \in Slot, SlotOK(i), Live(i), NEW r, slot'[i] = r, mem' = mem, heap' = heap,
           r.name = slot[i].name, r.start = slot[i].start, r.state = slot[i].state,
           r.opens = slot[i].opens, r.base = slot[i].base, r.close = slot[i].close,
           r.reclaim = slot[i].reclaim
    PROVE  SlotOK(i)'
<1>1. PICK s : s = slot[i]
  OBVIOUS
<1>2. \A b \in Open(i) : /\ b < heap /\ (Base(b, s.start) \/ mem[b].what = "free")
                         /\ b # s.start => Occ(s.opens, {b}) <= 1
  BY <1>1 DEF SlotOK
<1>3. \A b \in Open(i)' : /\ b < heap' /\ (Base(b, r.start)' \/ mem'[b].what = "free")
                          /\ b # r.start => Occ(r.opens, {b}) <= 1
  BY <1>1, <1>2 DEF Open, Base
<1>4. Reusable(i)' <=> Reusable(i)
  BY DEF Reusable
<1>5. /\ r.state = "ready" \/ r.opens = <<>>
      /\ Reusable(i) \/ ~r.reclaim
      /\ r.name \in Lib /\ r.start \in Address
      /\ mem'[r.start].what = "image" /\ mem'[r.start].lib = r.name
      /\ r.state \in {"opening", "ready"} => r.base = r.start
      /\ r.state = "ready" => r.close \in Address /\ mem'[r.close] = Trampoline(i)
  BY DEF SlotOK
<1>. QED
  BY <1>3, <1>4, <1>5 DEF SlotOK, Base, Trampoline, Free

(* Calls hold what the calls of the context that runs do. *)
LEMMA CallHolder ==
    ASSUME TypeOK, Alone, NEW h \in HolderSet, h[1] \in {"call", "flight", "counted"},
           NEW m \in 1 .. Len(Holding[h])
    PROVE  /\ h = <<h[1], run, h[3]>> /\ h[3] \in 1 .. Len(Calls)
           /\ Holding[h] = Carried(h[1], Calls[h[3]])
<1>1. /\ h = <<h[1], h[2], h[3]>> /\ h[3] \in Nat /\ Holding[h] = HoldingAt(h)
  BY DEF HolderSet, Holding
<1>2. h[2] \in Context /\ h[3] \in 1 .. Len(stack[h[2]])
  <2>1. Len(<<>>) = 0 /\ 1 .. 0 = {}
    OBVIOUS
  <2>. QED
    BY <1>1, <2>1 DEF HoldingAt
<1>3. Holding[h] = Carried(h[1], stack[h[2]][h[3]])
  BY <1>1, <1>2 DEF HoldingAt
<1>4. stack[h[2]] # <<>>
  BY <1>2
<1>5. h[2] = run
  BY <1>2, <1>4 DEF Alone
<1>. QED
  BY <1>1, <1>2, <1>3, <1>5 DEF Calls

(* A base that is held is in memory. *)
LEMMA OwnedFacts ==
    ASSUME IndInv, NEW b, Owned(b)
    PROVE  /\ b \in Address /\ mem[b].what \in {"image", "clone"} /\ b < heap
           /\ \E i \in Ready : i \in Slot /\ Live(i) /\ Base(b, slot[i].start)
<1>1. PICK i \in Ready : Base(b, slot[i].start)
  BY DEF Owned
<1>2. i \in Slot /\ Live(i) /\ b \in Address
  BY DEF Ready, Live, Reusable, Owned
<1>3. mem[slot[i].start].what = "image"
  BY <1>2, LiveFacts DEF IndInv, Control, Places
<1>4. mem[b].what \in {"image", "clone"}
  BY <1>1, <1>3 DEF Base
<1>5. ~ (b >= heap)
  BY <1>2, <1>4, Cells DEF IndInv, Places, HeapOK
<1>. QED
  BY <1>1, <1>2, <1>4, <1>5, Types DEF IndInv, Control, Address

(* What nobody owns and no call has counted, nobody holds. *)
LEMMA CountZero ==
    ASSUME IndInv, NEW B, \A b : Owned(b) => b \notin B,
           \A l \in 1 .. Len(Calls) : \A m \in 1 .. Len(Carried("counted", Calls[l])) :
             Carried("counted", Calls[l])[m] \notin B
    PROVE  Tally(Holding, CountHolders, B) = 0
<1>1. CountHolders \in SUBSET HolderSet /\ Filled(Holding, HolderSet, Value)
  BY TallyType DEF IndInv, Control, Tallied, CountHolders
<1>2. ASSUME NEW h \in CountHolders, NEW m \in 1 .. Len(Holding[h])
      PROVE  Holding[h][m] \notin B
  <2>1. h \in HolderSet /\ h[1] \in {"program", "library", "call", "counted"}
    BY DEF CountHolders, HolderSet, Kind
  <2>2. CASE h \in OwnHolders
    BY <2>2 DEF IndInv, Tallied, AllOwned
  <2>3. CASE h \notin OwnHolders
    <3>1. h[1] = "counted"
      BY <2>1, <2>3 DEF OwnHolders
    <3>2. h[3] \in 1 .. Len(Calls) /\ Holding[h] = Carried("counted", Calls[h[3]])
      BY <2>1, <3>1, CallHolder DEF IndInv, Control
    <3>. QED
      BY <3>2
  <2>. QED
    BY <2>2, <2>3
<1>. QED
  BY <1>1, <1>2, TallyZero

(* Memory below the end of the heap stays what it is, or a clone is freed. *)
Steady(a) ==
    \/ mem'[a] = mem[a]
    \/ /\ mem[a].what = "image" /\ mem'[a].what = "image" /\ mem'[a].lib = mem[a].lib
       /\ mem'[a].of = mem[a].of
    \/ mem[a].what = "clone" /\ mem'[a].what = "free"
SteadyMem == heap' \in Int /\ heap' >= heap /\ \A a \in Address : a < heap => Steady(a)

(* What is not free is below the end of the heap. *)
LEMMA BelowHeap ==
    ASSUME TypeOK, HeapOK, NEW a \in Address, mem[a].what # "free"
    PROVE  a < heap
<1>1. heap \in Int /\ a \in Int
  BY Types DEF Address
<1>2. ~ (a >= heap)
  BY Cells DEF HeapOK
<1>. QED
  BY <1>1, <1>2

(* Then a slot that is left alone is as it should be. *)
LEMMA SteadyKept ==
    ASSUME IndInv, SteadyMem, NEW j \in Slot, slot'[j] = slot[j], Live(j)' => Live(j)
    PROVE  SlotOK(j)'
<1>1. /\ SlotOK(j) /\ slot[j] \in SlotRecord /\ heap \in Int /\ heap' >= heap
  BY Types DEF IndInv, Control, Places, SlotsOK, SteadyMem
<1>2. ASSUME Live(j) PROVE InMemory(j)
  <2>1. slot[j].start \in Address /\ mem[slot[j].start].what = "image"
    BY <1>2, LiveFacts DEF IndInv, Control, Places
  <2>2. slot[j].start < heap
    BY <2>1, BelowHeap DEF IndInv, Control, Places
  <2>. QED
    BY <2>1, <2>2 DEF SteadyMem, Steady, InMemory
<1>3. ASSUME slot[j].state = "ready" PROVE mem'[slot[j].close] = mem[slot[j].close]
  <2>1. slot[j].close \in Address /\ mem[slot[j].close].what = "trampoline"
    BY <1>1, <1>3, Cells DEF SlotOK
  <2>2. slot[j].close < heap
    BY <2>1, BelowHeap DEF IndInv, Control, Places
  <2>. QED
    BY <2>1, <2>2 DEF SteadyMem, Steady
<1>4. Handed(j)
  <2>. SUFFICES ASSUME NEW b \in Open(j)
                PROVE  /\ b < heap'
                       /\ \/ mem'[b].what = "free"
                          \/ mem'[b].what = mem[b].what /\ mem'[b].of = mem[b].of
    BY DEF Handed
  <2>1. b < heap /\ b \in Address
    <3>1. slot[j].opens \in Seq(Address)
      BY <1>1 DEF SlotRecord
    <3>2. b \in Address
      BY <3>1, SeqFacts DEF Open
    <3>. QED
      BY <1>1, <3>2 DEF SlotOK
  <2>2. Steady(b)
    BY <2>1 DEF SteadyMem
  <2>3. b < heap'
    <3>1. heap' >= heap /\ b \in Int /\ heap \in Int /\ heap' \in Int
      BY <1>1, <2>1 DEF Address, SteadyMem
    <3>. QED
      BY <2>1, <3>1
  <2>. QED
    BY <2>2, <2>3 DEF Steady
<1>. QED
  BY <1>1, <1>2, <1>3, <1>4, SlotKept

(* What the holders hold, one by one. *)
HoldingValues ==
    /\ \A d \in Context : /\ <<"program", d, 0>> \in HolderSet
                          /\ Holding[<<"program", d, 0>>] = held[d]
    /\ \A a \in Address : /\ <<"library", a, 0>> \in HolderSet
                          /\ Holding[<<"library", a, 0>>] = mem[a].uses
    /\ \A kind \in {"call", "flight", "counted"} : \A l \in Nat :
         /\ <<kind, run, l>> \in HolderSet
         /\ Holding[<<kind, run, l>>] =
              IF l \in 1 .. Len(Calls) THEN Carried(kind, Calls[l]) ELSE <<>>

(* It does so by definition. *)
LEMMA HoldingEach == TypeOK => HoldingValues
<1>. SUFFICES ASSUME TypeOK PROVE HoldingValues
  OBVIOUS
<1>1. ASSUME NEW d \in Context
      PROVE  <<"program", d, 0>> \in HolderSet /\ Holding[<<"program", d, 0>>] = held[d]
  <2>1. <<"program", d, 0>> \in HolderSet
    BY DEF HolderSet, Kind
  <2>. QED
    BY <2>1 DEF Holding, HoldingAt
<1>2. ASSUME NEW a \in Address
      PROVE  <<"library", a, 0>> \in HolderSet /\ Holding[<<"library", a, 0>>] = mem[a].uses
  <2>1. <<"library", a, 0>> \in HolderSet
    BY DEF HolderSet, Kind
  <2>. QED
    BY <2>1 DEF Holding, HoldingAt
<1>3. ASSUME NEW kind \in {"call", "flight", "counted"}, NEW l \in Nat
      PROVE  /\ <<kind, run, l>> \in HolderSet
             /\ Holding[<<kind, run, l>>] =
                  IF l \in 1 .. Len(Calls) THEN Carried(kind, Calls[l]) ELSE <<>>
  <2>1. run \in Context
    BY DEF TypeOK
  <2>2. <<kind, run, l>> \in HolderSet
    BY <2>1 DEF HolderSet, Kind
  <2>. QED
    BY <2>1, <2>2 DEF Holding, HoldingAt, Calls
<1>. QED
  BY <1>1, <1>2, <1>3 DEF HoldingValues

(* After a step of the context that runs. *)
LEMMA HoldingEachNext ==
    ASSUME TypeOK', run' = run
    PROVE  /\ \A d \in Context : Holding'[<<"program", d, 0>>] = held'[d]
           /\ \A a \in Address : Holding'[<<"library", a, 0>>] = mem'[a].uses
           /\ \A kind \in {"call", "flight", "counted"} : \A l \in Nat :
                Holding'[<<kind, run, l>>] =
                  IF l \in 1 .. Len(Calls') THEN Carried(kind, Calls'[l]) ELSE <<>>
<1>1. HoldingValues'
  BY HoldingEach, PTL
<1>. QED
  BY <1>1 DEF HoldingValues, Carried

(* Slots that are left alone are as they should be in steady memory. *)
LEMMA SteadyPlaces ==
    ASSUME IndInv, SteadyMem, slot' = slot, \A j \in Slot : OnStack(j)' => OnStack(j)
    PROVE  SlotsOK' /\ Apart'
<1>1. \A j \in Slot : Live(j)' => Live(j)
  BY DEF Live, Reusable
<1>2. SlotsOK'
  BY <1>1, SteadyKept DEF SlotsOK
<1>3. Apart'
  BY <1>1 DEF IndInv, Places, Apart, Open
<1>. QED
  BY <1>2, <1>3

(* Among X nobody gets anything. *)
LEMMA FewerAmong ==
    ASSUME TypeOK, Finite, TypeOK', StackStep, NEW X \in SUBSET HolderSet, KeptBut(X, {})
    PROVE  NoMore(X) /\ (OwnHolders \subseteq X => Drawn)
<1>1. Moves(Holding, Holding', HolderSet, Value, X, {})
  BY HoldingMoves
<1>2. /\ Filled(Holding, HolderSet, Value) /\ Holding' \in [HolderSet -> Seq(Value)]
      /\ \A h \in X : Holding'[h] = Holding[h] \/ Holding'[h] = <<>>
  BY <1>1 DEF Moves, Table
<1>3. NoMore(X)
  <2>. SUFFICES ASSUME NEW B PROVE Tally(Holding', X, B) <= Tally(Holding, X, B)
    BY DEF NoMore
  <2>. QED
    BY <1>2, TallyLess
<1>4. ASSUME OwnHolders \subseteq X PROVE Drawn
  <2>. SUFFICES ASSUME NEW h \in OwnHolders, NEW k \in 1 .. Len(Holding'[h])
                PROVE  \E g \in OwnHolders : \E m \in 1 .. Len(Holding[g]) :
                         Holding'[h][k] = Holding[g][m]
    BY DEF Drawn
  <2>1. Len(<<>>) = 0 /\ 1 .. 0 = {}
    OBVIOUS
  <2>2. Holding'[h] = Holding[h]
    BY <1>2, <1>4, <2>1
  <2>. QED
    BY <2>2
<1>. QED
  BY <1>3, <1>4

(* The Open of the library hands out base v: the library, or a clone of it. *)
HandsOut(c, v, k, a) ==
    /\ At(c, "open") /\ v \in Address /\ Goes(c, k) /\ a = Inner.image
    /\ k = [Inner EXCEPT !.at = "openDone", !.result = v]
    /\ mem' \in [Address -> Cell] /\ heap' \in 0 .. HeapMax
    /\ \A x \in Address : /\ x \notin {a, v} => mem'[x] = mem[x]
                          /\ mem'[x].uses \in {mem[x].uses, <<>>}
    /\ mem'[a].count = mem[a].count + 1 /\ mem'[a].what = "image" /\ mem'[a].lib = mem[a].lib
    /\ mem'[a].of = mem[a].of
    /\ \/ v = a /\ heap' = heap
       \/ v = heap /\ v # a /\ mem'[v] = CloneOf(a) /\ mem[v] = Free /\ heap' = heap + 1
    /\ UNCHANGED <<slot, regs, held, run, dead>>

(* Its image has counted it before anybody gets it. *)
LEMMA HandsOutKeeps ==
    ASSUME IndInv, NEW c \in Context, NEW v, NEW k, NEW a, HandsOut(c, v, k, a)
    PROVE  IndInv'
<1>. USE DEF HandsOut
<1>0. PICK i : i = Inner.slot
  OBVIOUS
<1>1. /\ Inner \in Call /\ Inner.at = "open" /\ CallOK(Inner) /\ Live(i) /\ i \in Slot
      /\ a \in Address /\ a = slot[i].start /\ Inner.got = <<>> /\ Inner.lib = slot[i].name
      /\ slot[i].state \in {"opening", "ready"}
      /\ Depth \in 1 .. Len(Calls) /\ Depth \in Nat /\ mem[a].what = "image"
      /\ mem[a].count \in Int
  <2>1. /\ Inner \in Call /\ Inner.at = "open" /\ CallOK(Inner) /\ Live(i) /\ i \in Slot
        /\ a \in Address /\ Depth \in 1 .. Len(Calls) /\ Depth \in Nat
    BY <1>0, TopFacts
  <2>2. /\ a = slot[i].start /\ Inner.got = <<>> /\ Inner.lib = slot[i].name
        /\ slot[i].state \in {"opening", "ready"}
    BY <1>0, <2>1 DEF CallOK, Waiting
  <2>. QED
    BY <2>1, <2>2, LiveFacts DEF IndInv, Control, Places
<1>2. /\ k \in Call /\ k.at = "openDone" /\ k.slot = Inner.slot /\ k.lib = Inner.lib
      /\ k.image = a /\ k.got = <<>> /\ k.result = v
  BY <1>1 DEF Call, Opening, Value
<1>3. Replaced(k) /\ stack' \in [Context -> Seq(Call)]
  BY <1>2, GoesShape
<1>4. TypeOK'
  BY <1>3 DEF IndInv, Control, TypeOK
<1>5. Control'
  BY <1>2, <1>3, <1>4, ReplaceControl DEF Opening
<1>6. \A j \in Slot : OnStack(j)' <=> OnStack(j)
  BY <1>2, <1>3, ReplaceLive
<1>7. heap \in Int /\ heap >= 0 /\ a < heap /\ (v = a \/ v >= heap)
  <2>1. heap \in Int /\ heap >= 0
    BY Types DEF IndInv, Control
  <2>2. a < heap
    BY <1>1, BelowHeap DEF IndInv, Control, Places
  <2>. QED
    BY <2>1, <2>2
<1>8. SlotsOK' /\ Apart'
  <2>1. ASSUME NEW x \in Address, x < heap PROVE Steady(x)
    <3>1. x = a \/ x \notin {a, v}
      BY <1>7, <2>1
    <3>. QED
      BY <1>1, <3>1 DEF Steady
  <2>2. SteadyMem
    BY <1>7, <2>1 DEF SteadyMem
  <2>. QED
    BY <1>6, <2>2, SteadyPlaces
<1>9. HeapOK'
  <2>1. ASSUME NEW x \in Address, x >= heap' PROVE mem'[x] = Free
    <3>1. x >= heap /\ x \notin {a, v}
      BY <1>7, <2>1 DEF Address
    <3>. QED
      BY <3>1 DEF IndInv, Places, HeapOK
  <2>. QED
    BY <2>1 DEF HeapOK, Free
<1>10. ASSUME NEW j \in Slot, j # i, Live(j)
       PROVE  /\ slot[j].start \in Address /\ slot[j].start \notin {a, v}
              /\ mem'[slot[j].start] = mem[slot[j].start] /\ mem[slot[j].start].count \in Int
  <2>1. /\ slot[j].start \in Address /\ slot[j].start # a /\ mem[slot[j].start].what = "image"
        /\ mem[slot[j].start].count \in Int
    BY <1>1, <1>10, StartsDiffer, LiveFacts DEF IndInv, Control, Places
  <2>2. slot[j].start # v
    BY <2>1, Cells
  <2>. QED
    BY <2>1, <2>2
<1>11. CallsOK'
  <2>1. Base(v, a)'
    BY <1>1, Cells DEF Base
  <2>2. v # a => \A j \in Slot : v \notin Open(j)
    <3>. SUFFICES ASSUME v # a, NEW j \in Slot, v \in Open(j) PROVE FALSE
      OBVIOUS
    <3>1. v < heap
      BY DEF IndInv, Places, SlotsOK, SlotOK
    <3>. QED
      BY <1>7, <3>1 DEF Address
  <2>3. v # None
    BY Limits
  <2>4. CallOK(k)'
    BY <1>0, <1>1, <1>2, <2>1, <2>2, <2>3 DEF CallOK, Waiting, Opening, Closing, Base, Open
  <2>5. Others(Inner.slot)
    BY <1>0, <1>10 DEF Others
  <2>. QED
    BY <1>2, <1>3, <2>4, <2>5, ReplaceCalls
<1>12. /\ RefHolders \in SUBSET HolderSet /\ CountHolders \in SUBSET HolderSet
       /\ OwnHolders \subseteq RefHolders /\ HolderSet \in SUBSET HolderSet
  BY DEF RefHolders, CountHolders, OwnHolders
<1>13. PICK p : p = <<"counted", run, Depth>>
  OBVIOUS
<1>14. /\ p \in CountHolders /\ p \in HolderSet /\ Holding'[p] = <<v>>
  <2>1. HoldingValues
    BY HoldingEach DEF IndInv, Control
  <2>2. p \in HolderSet
    BY <1>1, <1>13, <2>1 DEF HoldingValues
  <2>3. run' = run /\ Len(Calls') = Depth /\ Calls'[Depth] = k /\ Depth \in 1 .. Depth
    BY <1>1, <1>3 DEF Replaced
  <2>4. Carried("counted", k) = <<v>>
    BY <1>2, Limits DEF Carried
  <2>5. Holding'[p] = <<v>>
    BY <1>1, <1>4, <1>13, <2>3, <2>4, HoldingEachNext
  <2>. QED
    BY <1>13, <2>2, <2>5 DEF CountHolders
<1>15. ASSUME NEW X \in SUBSET HolderSet
       PROVE  Moves(Holding, Holding', HolderSet, Value, X, {p})
  <2>1. \A kind \in {"call", "flight", "counted"} :
          <<kind, run, Depth>> \in {p} \/ Carried(kind, k) = <<>>
    BY <1>2, <1>13 DEF Carried
  <2>2. KeptBut(X, {p})
    <3>1. /\ \A d \in Context : <<"program", d, 0>> \in {p} \/ held'[d] = held[d]
          /\ \A x \in Address : <<"library", x, 0>> \in {p} \/ mem'[x].uses \in {mem[x].uses, <<>>}
      OBVIOUS
    <3>2. \A kind \in {"call", "flight", "counted"} :
            \/ <<kind, run, Depth>> \notin X \/ <<kind, run, Depth>> \in {p}
            \/ Carried(kind, k) = <<>> \/ Carried(kind, k) = Carried(kind, Inner)
      BY <2>1
    <3>. QED
      BY <1>2, <1>3, <3>1, <3>2, ReplaceKept, Zenon
  <2>3. {p} \in SUBSET HolderSet
    BY <1>14
  <2>. QED
    BY <1>3, <1>4, <2>2, <2>3, HoldingMoves DEF IndInv, Control, Tallied, Replaced
<1>16. NoMore(RefHolders) /\ Drawn
  <2>1. \A kind \in {"call", "flight", "counted"} :
          <<kind, run, Depth>> \notin RefHolders \/ Carried(kind, k) = <<>>
    BY <1>2 DEF Carried, RefHolders
  <2>2. KeptBut(RefHolders, {})
    <3>1. /\ \A d \in Context : <<"program", d, 0>> \in {} \/ held'[d] = held[d]
          /\ \A x \in Address : <<"library", x, 0>> \in {} \/ mem'[x].uses \in {mem[x].uses, <<>>}
      BY <1>2
    <3>2. \A kind \in {"call", "flight", "counted"} :
            \/ <<kind, run, Depth>> \notin RefHolders \/ <<kind, run, Depth>> \in {}
            \/ Carried(kind, k) = <<>> \/ Carried(kind, k) = Carried(kind, Inner)
      BY <2>1
    <3>3. At(c, "open") /\ k \in Call /\ Replaced(k)
      BY <1>2, <1>3
    <3>. QED
      BY <3>1, <3>2, <3>3, ReplaceKept
  <2>. QED
    BY <1>3, <1>4, <1>12, <2>2, FewerAmong DEF IndInv, Control, Tallied, Replaced
<1>17. Finite'
  <2>1. Moves(Holding, Holding', HolderSet, Value, HolderSet, {p})
    BY <1>12, <1>15
  <2>2. Settled(Holding', HolderSet, Value)
    BY <2>1, TallyAt
  <2>. QED
    BY <2>2 DEF Settled, Finite, Spots
<1>18. AllOwned' /\ RefsListed'
  <2>1. ASSUME NEW b, Owned(b) PROVE Owned(b)'
    <3>1. b \in Address /\ b < heap /\ \E j \in Ready : j \in Slot /\ Base(b, slot[j].start)
      BY <2>1, OwnedFacts
    <3>2. b = a \/ mem'[b] = mem[b]
      BY <1>7, <3>1
    <3>3. Ready' = Ready
      BY DEF Ready
    <3>. QED
      BY <1>1, <3>1, <3>2, <3>3 DEF Owned, Base
  <2>2. \A j \in Ready : j \in Ready' /\ slot'[j].opens = slot[j].opens
    BY DEF Ready
  <2>. QED
    BY <1>4, <1>16, <1>17, <2>1, <2>2, RefsKept
<1>19. ASSUME NEW B PROVE Tally(Holding', CountHolders, B)
                            <= Tally(Holding, CountHolders, B) + IF v \in B THEN 1 ELSE 0
  <2>1. Moves(Holding, Holding', HolderSet, Value, CountHolders, {p})
    BY <1>12, <1>15
  <2>2. /\ Settled(Holding, CountHolders, B) /\ Settled(Holding', CountHolders, B)
        /\ Share(Holding, CountHolders, p, B) \in Nat /\ Share(Holding', CountHolders, p, B) \in Nat
        /\ Tally(Holding', CountHolders, B) + Share(Holding, CountHolders, p, B)
             <= Tally(Holding, CountHolders, B) + Share(Holding', CountHolders, p, B)
    BY <2>1, TallyAt
  <2>3. Share(Holding', CountHolders, p, B) = IF v \in B THEN 1 ELSE 0
    BY <1>14, OccOne DEF Share
  <2>. QED
    BY <2>2, <2>3 DEF Settled
<1>20. Counts'
  <2>. SUFFICES ASSUME NEW j \in Slot, Live(j)' PROVE Count(j)' <= mem'[slot'[j].start].count
    BY DEF Counts
  <2>0. Live(j) /\ Count(j) <= mem[slot[j].start].count /\ slot'[j] = slot[j]
    BY <1>6 DEF IndInv, Tallied, Counts, Live, Reusable
  <2>. DEFINE s == slot[j].start
              D == {b \in Address : b = s \/ (mem'[b].what = "clone" /\ mem'[b].of = s)}
  <2>1. Count(j)' = Tally(Holding', CountHolders, D)
    BY <2>0 DEF Count, Bases, Base, Tally, Spots
  <2>2. Count(j) = Tally(Holding, CountHolders, Bases(s))
    BY DEF Count
  <2>3. s \in Address /\ mem[s].count \in Int
    BY <2>0, LiveFacts DEF IndInv, Control, Places
  <2>4. \A b \in D : b # v => b \in Bases(s)
    BY <1>1 DEF Bases, Base
  <2>5. j # i => v \notin D
    BY <1>10, <1>1, <2>0, Cells
  <2>. HIDE DEF D, s
  <2>6. ASSUME v = a \/ j # i PROVE \A b \in D : b \in Bases(s)
    <3>1. CASE j = i
      BY <1>1, <2>4, <2>6, <3>1 DEF Bases, Base, s
    <3>2. CASE j # i
      BY <2>4, <2>5, <3>2
    <3>. QED
      BY <3>1, <3>2
  <2>7. ASSUME NEW h \in CountHolders, NEW m \in 1 .. Len(Holding[h]), Holding[h][m] \in D
        PROVE  Holding[h][m] \in Bases(s)
    <3>1. CASE v = a \/ j # i
      BY <2>6, <2>7, <3>1
    <3>2. CASE v # a /\ h \in OwnHolders
      <4>1. Owned(Holding[h][m])
        BY <3>2 DEF IndInv, Tallied, AllOwned
      <4>2. Holding[h][m] # v
        BY <1>7, <3>2, <4>1, OwnedFacts DEF Address
      <4>. QED
        BY <2>4, <2>7, <4>2
    <3>3. CASE h \notin OwnHolders
      <4>1. h \in HolderSet /\ h[1] = "counted"
        BY <3>3 DEF CountHolders, OwnHolders, HolderSet, Kind
      <4>2. h[3] \in 1 .. Len(Calls) /\ Holding[h] = Carried("counted", Calls[h[3]])
        BY <4>1, CallHolder DEF IndInv, Control
      <4>3. h[3] = Depth \/ h[3] \in 1 .. Depth - 1
        BY <1>1, <4>2 DEF Depth
      <4>4. Calls[h[3]].at \in Waiting \/ Calls[h[3]] = Inner
        BY <4>3, TopFacts DEF Inner
      <4>5. Holding[h] = <<>>
        BY <1>1, <4>2, <4>4 DEF Carried, Waiting
      <4>. QED
        BY <4>5
    <3>. QED
      BY <3>1, <3>2, <3>3
  <2>8. Tally(Holding, CountHolders, D) <= Tally(Holding, CountHolders, Bases(s))
    <3>1. Filled(Holding, HolderSet, Value) /\ CountHolders \subseteq CountHolders
      BY <1>12, TallyType DEF IndInv, Control, Tallied
    <3>. QED
      BY <1>12, <2>7, <3>1, TallyMore
  <2>9. /\ Tally(Holding, CountHolders, D) \in Nat /\ Tally(Holding, CountHolders, Bases(s)) \in Nat
        /\ Tally(Holding', CountHolders, D) \in Nat
    BY <1>4, <1>12, <1>17, TallyType, TallyTypeNext DEF IndInv, Control, Tallied
  <2>10. Tally(Holding', CountHolders, D)
           <= Tally(Holding, CountHolders, D) + IF v \in D THEN 1 ELSE 0
    BY <1>19
  <2>11. CASE j = i
    <3>1. s = a /\ slot'[j].start = a
      BY <1>1, <2>0, <2>11 DEF s
    <3>. QED
      BY <1>1, <2>0, <2>1, <2>2, <2>3, <2>8, <2>9, <2>10, <3>1
  <2>12. CASE j # i
    <3>1. slot'[j].start = s /\ mem'[s] = mem[s]
      BY <1>10, <2>0, <2>12 DEF s
    <3>2. Count(j) <= mem[s].count
      BY <2>0 DEF s
    <3>. QED
      BY <2>1, <2>2, <2>3, <2>5, <2>8, <2>9, <2>10, <2>12, <3>1, <3>2
  <2>. QED
    BY <2>11, <2>12
<1>. QED
  BY <1>5, <1>8, <1>9, <1>11, <1>17, <1>18, <1>20 DEF IndInv, Places, Tallied

(* The calls below the inner one. *)
LEMMA BelowShape ==
    ASSUME IndInv, NEW c, NEW place, At(c, place)
    PROVE  /\ Below(c) \in Seq(Call) /\ Len(Below(c)) = Depth - 1
           /\ \A l \in 1 .. Depth - 1 : Below(c)[l] = Calls[l]
           /\ Below(c) = <<>> <=> Depth = 1
<1>1. /\ stack[c] = Calls /\ Level(c) = Depth /\ Calls # <<>> /\ Depth \in Nat
      /\ Calls \in Seq(Call)
  BY TopFacts, Types DEF IndInv, Control
<1>2. Below(c) = Front(Calls)
  BY <1>1 DEF Below, Front, Depth
<1>3. /\ Front(Calls) \in Seq(Call) /\ Len(Front(Calls)) = Depth - 1
      /\ \A l \in 1 .. Len(Front(Calls)) : Front(Calls)[l] = Calls[l]
  BY <1>1, FrontFacts DEF Depth
<1>4. Front(Calls) = <<>> <=> Len(Front(Calls)) = 0
  BY <1>3, SeqFacts
<1>. QED
  BY <1>1, <1>2, <1>3, <1>4

(* A call that returns to the routine below without an answer. *)
LEMMA ReturnShape ==
    ASSUME IndInv, NEW c, NEW place, At(c, place), run' = run, NEW t \in Seq(Call),
           stack' = [stack EXCEPT ![c] = t], Len(t) = Depth - 1,
           \A l \in 1 .. Depth - 1 :
             /\ t[l].slot = Calls[l].slot /\ t[l].lib = Calls[l].lib
             /\ t[l].image = Calls[l].image /\ t[l].base = Calls[l].base
             /\ \/ t[l].at = Calls[l].at
                \/ l = Depth - 1 /\ Calls[l].at = "init" /\ t[l].at = "undo"
    PROVE  Popped /\ stack' \in [Context -> Seq(Call)] /\ Calls' = t
<1>1. c = run /\ Depth \in Nat /\ Depth >= 1 /\ TypeOK
  BY TopFacts DEF IndInv, Control
<1>2. StackStep /\ Calls' = t /\ stack' \in [Context -> Seq(Call)]
  BY <1>1, StackSteps
<1>. QED
  BY <1>1, <1>2 DEF Popped

(* An open that failed returns to a program, or to an Init that gives up. *)
LEMMA RefusedShape ==
    ASSUME IndInv, NEW c, At(c, "openDone"), run' = run, Answered(c, Below(c), None)
    PROVE  /\ Popped /\ stack' \in [Context -> Seq(Call)] /\ held' = held
           /\ \A l \in 1 .. Depth - 1 : Calls'[l].got = Calls[l].got
<1>1. /\ Depth \in Nat /\ Depth >= 1 /\ Depth = Len(Calls) /\ Below(c) \in Seq(Call)
      /\ Len(Below(c)) = Depth - 1
      /\ \A l \in 1 .. Depth - 1 : /\ Below(c)[l] = Calls[l] /\ Calls[l] \in Call
                                   /\ Calls[l].at = "init"
      /\ Below(c) = <<>> <=> Depth = 1
  BY TopFacts, BelowShape DEF Opening, Depth
<1>2. held' = held
  BY DEF Answered
<1>3. CASE Below(c) = <<>>
  <2>1. stack' = [stack EXCEPT ![c] = Below(c)]
    BY <1>3 DEF Answered
  <2>2. Popped /\ stack' \in [Context -> Seq(Call)] /\ Calls' = Below(c)
    BY <1>1, <2>1, ReturnShape
  <2>. QED
    BY <1>1, <1>2, <2>2
<1>4. CASE Below(c) # <<>>
  <2>1. PICK k, t : /\ k = [Below(c)[Depth - 1] EXCEPT !.at = "undo"]
                    /\ t = [Below(c) EXCEPT ![Depth - 1] = k]
    OBVIOUS
  <2>2. Depth - 1 \in 1 .. Len(Below(c)) /\ Depth - 1 \in 1 .. Depth - 1
    BY <1>1, <1>4
  <2>3. k \in Call /\ k.slot = Calls[Depth - 1].slot /\ k.lib = Calls[Depth - 1].lib
        /\ k.image = Calls[Depth - 1].image /\ k.base = Calls[Depth - 1].base
        /\ k.got = Calls[Depth - 1].got /\ k.at = "undo"
    BY <1>1, <2>1, <2>2 DEF Call, Opening
  <2>4. /\ t \in Seq(Call) /\ Len(t) = Depth - 1
        /\ \A l \in 1 .. Depth - 1 : t[l] = IF l = Depth - 1 THEN k ELSE Calls[l]
    BY <1>1, <2>1, <2>2, <2>3, ExceptSeq
  <2>5. stack' = [stack EXCEPT ![c] = t]
    BY <1>1, <1>4, <2>1 DEF Answered
  <2>6. Popped /\ stack' \in [Context -> Seq(Call)] /\ Calls' = t
    <3>1. \A l \in 1 .. Depth - 1 :
            /\ t[l].slot = Calls[l].slot /\ t[l].lib = Calls[l].lib
            /\ t[l].image = Calls[l].image /\ t[l].base = Calls[l].base
            /\ \/ t[l].at = Calls[l].at
               \/ l = Depth - 1 /\ Calls[l].at = "init" /\ t[l].at = "undo"
      BY <1>1, <2>3, <2>4
    <3>. QED
      BY <2>4, <2>5, <3>1, ReturnShape
  <2>7. \A l \in 1 .. Depth - 1 : t[l].got = Calls[l].got
    BY <2>3, <2>4
  <2>. QED
    BY <1>2, <2>6, <2>7
<1>. QED
  BY <1>3, <1>4

(* An open that succeeded returns its base to a program, or to an Init. *)
LEMMA AnswerShape ==
    ASSUME IndInv, NEW c \in Context, At(c, "openDone"), run' = run, NEW b \in Address,
           Answered(c, Below(c), b)
    PROVE  /\ Popped /\ stack' \in [Context -> Seq(Call)]
           /\ \/ Depth = 1 /\ held' = [held EXCEPT ![run] = Append(held[run], b)]
              \/ /\ Depth > 1 /\ held' = held
                 /\ Calls'[Depth - 1].got = Append(Calls[Depth - 1].got, b)
                 /\ Calls'[Depth - 1].at = Calls[Depth - 1].at
                 /\ \A l \in 1 .. Depth - 2 : Calls'[l].got = Calls[l].got
<1>1. /\ Depth \in Nat /\ Depth >= 1 /\ Depth = Len(Calls) /\ Below(c) \in Seq(Call)
      /\ Len(Below(c)) = Depth - 1 /\ c = run /\ b # None
      /\ \A l \in 1 .. Depth - 1 : /\ Below(c)[l] = Calls[l] /\ Calls[l] \in Call
                                   /\ Calls[l].at = "init"
      /\ Below(c) = <<>> <=> Depth = 1
  BY TopFacts, BelowShape, Limits DEF Opening, Depth
<1>2. CASE Below(c) = <<>>
  <2>1. stack' = [stack EXCEPT ![c] = Below(c)] /\ held' = [held EXCEPT ![run] = Append(held[run], b)]
    BY <1>1, <1>2 DEF Answered
  <2>2. Popped /\ stack' \in [Context -> Seq(Call)] /\ Calls' = Below(c)
    BY <1>1, <2>1, ReturnShape
  <2>. QED
    BY <1>1, <1>2, <2>1, <2>2
<1>3. CASE Below(c) # <<>>
  <2>0. PICK g : g = Append(Calls[Depth - 1].got, b)
    OBVIOUS
  <2>1. PICK k, t : /\ k = [Below(c)[Depth - 1] EXCEPT !.got = g]
                    /\ t = [Below(c) EXCEPT ![Depth - 1] = k]
    OBVIOUS
  <2>2. Depth - 1 \in 1 .. Len(Below(c)) /\ Depth - 1 \in 1 .. Depth - 1 /\ Depth > 1
    BY <1>1, <1>3
  <2>3. Calls[Depth - 1] \in Call /\ g \in Seq(Address)
    <3>1. Calls[Depth - 1] \in Call
      BY <1>1, <2>2
    <3>2. Calls[Depth - 1].got \in Seq(Address)
      BY <3>1 DEF Call
    <3>. QED
      BY <2>0, <3>1, <3>2, AppendProperties
  <2>4. k \in Call /\ k.slot = Calls[Depth - 1].slot /\ k.lib = Calls[Depth - 1].lib
        /\ k.image = Calls[Depth - 1].image /\ k.base = Calls[Depth - 1].base
        /\ k.got = g /\ k.at = Calls[Depth - 1].at
    BY <1>1, <2>1, <2>2, <2>3 DEF Call
  <2>5. /\ t \in Seq(Call) /\ Len(t) = Depth - 1
        /\ \A l \in 1 .. Depth - 1 : t[l] = IF l = Depth - 1 THEN k ELSE Calls[l]
    BY <1>1, <2>1, <2>2, <2>4, ExceptSeq
  <2>6. stack' = [stack EXCEPT ![c] = t] /\ held' = held
    BY <1>1, <1>3, <2>0, <2>1, <2>2 DEF Answered
  <2>7. Popped /\ stack' \in [Context -> Seq(Call)] /\ Calls' = t
    <3>1. \A l \in 1 .. Depth - 1 :
            /\ t[l].slot = Calls[l].slot /\ t[l].lib = Calls[l].lib
            /\ t[l].image = Calls[l].image /\ t[l].base = Calls[l].base
            /\ t[l].at = Calls[l].at
      BY <1>1, <2>4, <2>5
    <3>. QED
      BY <2>5, <2>6, <3>1, ReturnShape
  <2>8. t[Depth - 1] = k /\ \A l \in 1 .. Depth - 2 : t[l] = Calls[l]
    <3>1. \A l \in 1 .. Depth - 2 : l \in 1 .. Depth - 1 /\ l # Depth - 1
      BY <1>1
    <3>. QED
      BY <2>2, <2>5, <3>1
  <2>. QED
    BY <2>0, <2>2, <2>4, <2>6, <2>7, <2>8
<1>. QED
  BY <1>2, <1>3

(* No library lists another one: its image is there. *)
LEMMA NotListed ==
    ASSUME IndInv, NEW i \in Slot, NEW j \in Slot, i # j, Live(i)
    PROVE  slot[i].start \notin Open(j)
<1>. SUFFICES ASSUME slot[i].start \in Open(j) PROVE FALSE
  OBVIOUS
<1>1. SlotOK(j)
  BY DEF IndInv, Places, SlotsOK
<1>2. slot[j].opens # <<>>
  BY DEF Open
<1>3. Live(j)
  BY <1>1, <1>2 DEF SlotOK, Live, Reusable
<1>4. slot[i].start # slot[j].start /\ mem[slot[i].start].what = "image"
  BY <1>3, StartsDiffer, LiveFacts DEF IndInv, Control, Places
<1>. QED
  BY <1>1, <1>4 DEF SlotOK, Base

(* One b is taken from s. *)
Taken(s, t, b) ==
    /\ t \in Seq(Address) /\ \E j \in 1 .. Len(s) : s[j] = b
    /\ \A k \in 1 .. Len(t) : \E j \in 1 .. Len(s) : t[k] = s[j]
    /\ \A B : Occ(s, B) = Occ(t, B) + IF b \in B THEN 1 ELSE 0

(* DropOne takes one. *)
LEMMA DropTaken ==
    ASSUME NEW s \in Seq(Address), NEW b, b \in {s[k] : k \in DOMAIN s}
    PROVE  Taken(s, DropOne(s, b), b)
<1>1. \E j \in 1 .. Len(s) : s[j] = b
  BY SeqFacts
<1>. QED
  BY <1>1, DropFacts DEF Taken

(* So does leaving out the last. *)
LEMMA FrontTaken ==
    ASSUME NEW s \in Seq(Address), s # <<>>
    PROVE  Taken(s, Front(s), s[Len(s)])
<1>1. /\ Front(s) \in Seq(Address) /\ Len(Front(s)) = Len(s) - 1 /\ Len(s) \in Nat \ {0}
      /\ \A k \in 1 .. Len(Front(s)) : Front(s)[k] = s[k]
  BY FrontFacts
<1>2. \A B : Occ(s, B) = Occ(Front(s), B) + IF s[Len(s)] \in B THEN 1 ELSE 0
  BY OccFront
<1>3. Len(s) \in 1 .. Len(s) /\ \A k \in 1 .. Len(s) - 1 : k \in 1 .. Len(s)
  BY <1>1
<1>. QED
  BY <1>1, <1>2, <1>3 DEF Taken

(* What CloseLibrary takes the base from: a program's, or what the library in
   the inner call had opened. *)
Taker == IF Depth = 0 THEN <<"program", run, 0>> ELSE <<"call", run, Depth>>

(* The caller of CloseLibrary has the base it closes, and one less afterwards. *)
LEMMA DropsFacts ==
    ASSUME IndInv, NEW c \in Context, NEW b, Drops(c, b, Closer(c))
    PROVE  /\ c = run /\ run \notin dead /\ stack[c] = Calls /\ Depth \in Nat /\ Depth = Len(Calls)
           /\ Closer(c) \in Seq(Call) /\ Len(Closer(c)) = Depth
           /\ \A l \in 1 .. Depth : /\ SameBut(Closer(c)[l], Calls[l]) /\ Calls[l] \in Call
                                    /\ Calls[l].at \in Waiting /\ CallOK(Calls[l])
                                    /\ l # Depth => Closer(c)[l].got = Calls[l].got
           /\ held' \in [Context -> Seq(Address)]
           /\ \A d \in Context : held'[d] = held[d] \/ (Depth = 0 /\ d = run)
           /\ IF Depth = 0 THEN Taken(held[run], held'[run], b)
              ELSE Taken(Calls[Depth].got, Closer(c)[Depth].got, b)
<1>1. held \in [Context -> Seq(Address)] /\ run \in Context /\ Calls \in Seq(Call)
  BY Types DEF IndInv, Control, TypeOK
<1>2. CASE InProgram(c) /\ b \in {held[c][k] : k \in DOMAIN held[c]}
           /\ held' = [held EXCEPT ![c] = DropOne(@, b)]
  <2>1. c = run /\ run \notin dead /\ stack[c] = Calls /\ Calls = <<>> /\ Depth = 0
    BY <1>2, RunFacts DEF InProgram, Depth
  <2>2. Closer(c) = <<>> /\ <<>> \in Seq(Call) /\ Len(<<>>) = 0
    BY <2>1 DEF Closer
  <2>3. Taken(held[run], DropOne(held[run], b), b)
    BY <1>1, <1>2, <2>1, DropTaken
  <2>4. held'[run] = DropOne(held[run], b) /\ \A d \in Context : d # run => held'[d] = held[d]
    BY <1>1, <1>2, <2>1
  <2>5. held' \in [Context -> Seq(Address)]
    BY <1>1, <1>2, <2>1, <2>3 DEF Taken
  <2>6. \A l \in 1 .. Depth : FALSE
    BY <2>1
  <2>7. Taken(held[run], held'[run], b)
    BY <2>3, <2>4
  <2>8. Closer(c) \in Seq(Call) /\ Len(Closer(c)) = Depth /\ Depth \in Nat /\ Depth = Len(Calls)
    BY <2>1, <2>2
  <2>9. \A d \in Context : held'[d] = held[d] \/ (Depth = 0 /\ d = run)
    BY <2>1, <2>4
  <2>. HIDE DEF Depth
  <2>. QED
    BY <2>1, <2>5, <2>6, <2>7, <2>8, <2>9
<1>3. CASE (At(c, "undo") \/ At(c, "expunge")) /\ Top(c).got # <<>>
           /\ b = Top(c).got[Len(Top(c).got)] /\ held' = held
  <2>1. PICK place : At(c, place) /\ place \in Waiting
    BY <1>3 DEF Waiting
  <2>2. /\ c = run /\ run \notin dead /\ stack[c] = Calls /\ Level(c) = Depth /\ Top(c) = Inner
        /\ Depth \in Nat /\ Depth >= 1 /\ Calls # <<>> /\ Depth \in 1 .. Len(Calls)
        /\ Inner \in Call /\ Inner.at = place /\ CallOK(Inner)
        /\ \A l \in 1 .. Depth - 1 : Calls[l] \in Call /\ Calls[l].at \in Waiting /\ CallOK(Calls[l])
    BY <2>1, TopFacts
  <2>3. Inner.got \in Seq(Address) /\ Inner.got # <<>> /\ b = Inner.got[Len(Inner.got)]
    BY <1>3, <2>2 DEF Call
  <2>4. Taken(Inner.got, Front(Inner.got), b)
    BY <2>3, FrontTaken
  <2>5. PICK k : k = [Inner EXCEPT !.got = Front(Inner.got)]
    OBVIOUS
  <2>6. k \in Call /\ SameBut(k, Inner) /\ k.got = Front(Inner.got)
    BY <2>2, <2>4, <2>5 DEF Taken, Call, SameBut
  <2>7. Closer(c) = [Calls EXCEPT ![Depth] = k]
    BY <2>2, <2>5 DEF Closer, Front, Inner
  <2>8. /\ Closer(c) \in Seq(Call) /\ Len(Closer(c)) = Len(Calls)
        /\ \A l \in 1 .. Len(Calls) : Closer(c)[l] = IF l = Depth THEN k ELSE Calls[l]
    BY <1>1, <2>2, <2>6, <2>7, ExceptSeq
  <2>9. \A l \in 1 .. Depth : /\ SameBut(Closer(c)[l], Calls[l]) /\ Calls[l] \in Call
                              /\ Calls[l].at \in Waiting /\ CallOK(Calls[l])
                              /\ l # Depth => Closer(c)[l].got = Calls[l].got
    <3>1. \A l \in 1 .. Depth : l \in 1 .. Len(Calls) /\ (l = Depth \/ l \in 1 .. Depth - 1)
      BY <2>2 DEF Depth
    <3>2. Inner = Calls[Depth]
      BY DEF Inner
    <3>. QED
      BY <2>1, <2>2, <2>6, <2>8, <3>1, <3>2 DEF SameBut
  <2>10. Taken(Calls[Depth].got, Closer(c)[Depth].got, b)
    BY <2>2, <2>4, <2>6, <2>8 DEF Inner
  <2>11. Depth = Len(Calls) /\ Depth # 0
    BY <2>2 DEF Depth
  <2>12. held' \in [Context -> Seq(Address)] /\ \A d \in Context : held'[d] = held[d]
    BY <1>1, <1>3
  <2>. QED
    BY <2>2, <2>8, <2>9, <2>10, <2>11, <2>12
<1>. QED
  BY <1>2, <1>3 DEF Drops

(* A base that somebody holds belongs to a library that lists it. *)
LEMMA OwnerFacts ==
    ASSUME IndInv, NEW h \in OwnHolders, NEW m \in 1 .. Len(Holding[h]), NEW b, b = Holding[h][m]
    PROVE  /\ OwnersOf(b) # {} /\ b \in Address
           /\ \E i \in Slot : /\ i = Lowest(OwnersOf(b)) /\ slot[i].state = "ready" /\ Live(i)
                              /\ b \in Open(i) /\ Base(b, slot[i].start)
<1>1. Owned(b)
  BY DEF IndInv, Tallied, AllOwned
<1>2. b \in Address /\ mem[b].what \in {"image", "clone"}
  BY <1>1, OwnedFacts
<1>3. /\ RefHolders \in SUBSET HolderSet /\ h \in RefHolders
      /\ Filled(Holding, HolderSet, Value) /\ Tally(Holding, RefHolders, {b}) \in Nat
  <2>1. RefHolders \in SUBSET HolderSet /\ h \in RefHolders
    BY DEF RefHolders, OwnHolders
  <2>. QED
    BY <2>1, TallyType DEF IndInv, Control, Tallied
<1>4. Refs(b) > 0
  <2>1. PICK B : B = {b}
    OBVIOUS
  <2>2. Holding[h][m] \in B
    BY <2>1
  <2>3. Tally(Holding, RefHolders, B) # 0
    BY <1>3, <2>2, TallyZero
  <2>. QED
    BY <1>3, <2>1, <2>3 DEF Refs
<1>5. PICK j \in Ready : Occ(slot[j].opens, {b}) >= Refs(b)
  BY <1>2, <1>4 DEF IndInv, Tallied, RefsListed, Listed
<1>6. j \in Slot /\ slot[j].opens \in Seq(Address)
  BY Types DEF IndInv, Control, Ready, SlotRecord
<1>7. b \in Open(j)
  <2>1. Occ(slot[j].opens, {b}) # 0
    BY <1>3, <1>4, <1>5 DEF Refs
  <2>2. \E k \in 1 .. Len(slot[j].opens) : slot[j].opens[k] = b
    BY <1>6, <2>1, OccFacts
  <2>3. DOMAIN slot[j].opens = 1 .. Len(slot[j].opens)
    BY <1>6, SeqFacts
  <2>. QED
    BY <2>2, <2>3 DEF Open
<1>8. OwnersOf(b) # {}
  BY <1>5, <1>7 DEF OwnersOf, Ready
<1>9. PICK i \in Slot : i = Lowest(OwnersOf(b)) /\ i \in OwnersOf(b)
  <2>1. OwnersOf(b) \in SUBSET (1 .. SlotMax)
    BY DEF OwnersOf, Slot
  <2>2. Lowest(OwnersOf(b)) \in OwnersOf(b)
    BY <1>8, <2>1, Limits, LowestFacts
  <2>. QED
    BY <2>2 DEF OwnersOf
<1>10. slot[i].state = "ready" /\ Live(i) /\ SlotOK(i) /\ b \in Open(i) \cup {slot[i].base}
  BY <1>9 DEF OwnersOf, Live, Reusable, IndInv, Places, SlotsOK
<1>11. b \in Open(i)
  <2>. SUFFICES ASSUME b \notin Open(i) PROVE FALSE
    OBVIOUS
  <2>1. b = slot[i].start
    BY <1>10 DEF SlotOK
  <2>2. i # j
    BY <1>7
  <2>. QED
    BY <1>6, <1>7, <1>10, <2>1, <2>2, NotListed
<1>12. Base(b, slot[i].start)
  BY <1>2, <1>10, <1>11 DEF SlotOK
<1>. QED
  BY <1>2, <1>8, <1>9, <1>10, <1>11, <1>12

(* Nobody holds a base of an image that counts none. *)
LEMMA NoneHeld ==
    ASSUME IndInv, NEW i \in Slot, Live(i), mem[slot[i].start].count = 0,
           NEW h \in CountHolders, NEW m \in 1 .. Len(Holding[h])
    PROVE  Holding[h][m] \notin Bases(slot[i].start)
<1>1. CountHolders \in SUBSET HolderSet
  BY DEF CountHolders
<1>2. /\ Filled(Holding, HolderSet, Value) /\ Count(i) \in Nat
  BY <1>1, TallyType DEF IndInv, Control, Tallied, Count
<1>3. Count(i) = 0
  BY <1>2 DEF IndInv, Tallied, Counts
<1>. QED
  BY <1>1, <1>2, <1>3, TallyZero DEF Count

(* Nobody holds a clone that is being closed, apart from that call: a library
   lists its clones once. *)
LEMMA CloneInFlight ==
    ASSUME IndInv, NEW c, At(c, "close"), Inner.base # Inner.image,
           NEW h \in OwnHolders, NEW m \in 1 .. Len(Holding[h])
    PROVE  Holding[h][m] # Inner.base
<1>. SUFFICES ASSUME Holding[h][m] = Inner.base PROVE FALSE
  OBVIOUS
<1>1. PICK b, B : b = Inner.base /\ B = {b}
  OBVIOUS
<1>2. /\ Inner \in Call /\ CallOK(Inner) /\ Inner.at = "close" /\ Inner.slot \in Slot
      /\ Depth \in 1 .. Len(Calls) /\ Depth \in Nat
  BY TopFacts
<1>3. mem[b].what = "clone"
  BY <1>1, <1>2 DEF CallOK, Base
<1>4. PICK q : q = <<"flight", run, Depth>>
  OBVIOUS
<1>5. q \in HolderSet /\ Holding[q] = <<b>>
  <2>1. HoldingValues
    BY HoldingEach DEF IndInv, Control
  <2>. QED
    BY <1>1, <1>2, <1>4, <2>1 DEF HoldingValues, Carried, Inner
<1>6. /\ q \in RefHolders /\ h \in RefHolders \ {q} /\ RefHolders \in SUBSET HolderSet
      /\ RefHolders \ {q} \in SUBSET HolderSet
  BY <1>4, <1>5 DEF RefHolders, OwnHolders
<1>7. /\ Filled(Holding, HolderSet, Value) /\ Tally(Holding, RefHolders \ {q}, B) \in Nat
      /\ IsFiniteSet(Spots(Holding, RefHolders \ {q}, B))
  <2>1. Filled(Holding, HolderSet, Value)
    BY <1>6, TallyType DEF IndInv, Control, Tallied
  <2>. QED
    BY <1>6, <2>1, SpotsFinite
<1>8. Tally(Holding, RefHolders, B) = Tally(Holding, RefHolders \ {q}, B) + 1
  <2>1. Table(Holding, HolderSet, Value, RefHolders)
    BY <1>6, <1>7 DEF Table, Filled
  <2>2. Tally(Holding, RefHolders, B) = Tally(Holding, RefHolders \ {q}, B) + Occ(Holding[q], B)
    BY <1>6, <1>7, <2>1, TallySplit
  <2>3. Occ(Holding[q], B) = 1
    BY <1>1, <1>5, OccOne
  <2>. QED
    BY <2>2, <2>3
<1>9. Tally(Holding, RefHolders \ {q}, B) # 0
  <2>1. PICK X : X = RefHolders \ {q}
    OBVIOUS
  <2>2. h \in X /\ X \in SUBSET HolderSet /\ Holding[h][m] \in B
    BY <1>1, <1>6, <2>1
  <2>3. Tally(Holding, X, B) # 0
    BY <1>7, <2>2, TallyZero
  <2>. QED
    BY <2>1, <2>3
<1>10. Refs(b) > 1
  BY <1>1, <1>7, <1>8, <1>9 DEF Refs
<1>11. Owned(b) /\ b \in Address
  BY <1>1 DEF IndInv, Tallied, AllOwned, Owned
<1>12. PICK j \in Ready : Occ(slot[j].opens, B) >= Refs(b)
  BY <1>1, <1>7, <1>8, <1>10, <1>11 DEF IndInv, Tallied, RefsListed, Listed, Refs
<1>13. j \in Slot /\ SlotOK(j) /\ Live(j) /\ slot[j].opens \in Seq(Address)
  BY Types DEF IndInv, Control, Places, SlotsOK, Ready, SlotRecord, Live, Reusable
<1>14. Occ(slot[j].opens, B) \in Nat /\ Occ(slot[j].opens, B) > 1
  BY <1>1, <1>7, <1>8, <1>10, <1>12, <1>13, OccFacts DEF Refs
<1>15. b \in Open(j)
  <2>1. \E k \in 1 .. Len(slot[j].opens) : slot[j].opens[k] = b
    BY <1>1, <1>13, <1>14, OccFacts
  <2>2. DOMAIN slot[j].opens = 1 .. Len(slot[j].opens)
    BY <1>13, SeqFacts
  <2>. QED
    BY <2>1, <2>2 DEF Open
<1>16. b = slot[j].start
  <2>1. b # slot[j].start => Occ(slot[j].opens, {b}) <= 1
    BY <1>13, <1>15 DEF SlotOK
  <2>2. b # slot[j].start => Occ(slot[j].opens, B) <= 1
    BY <1>1, <2>1
  <2>. QED
    BY <1>14, <2>2
<1>. QED
  BY <1>3, <1>13, <1>16, LiveFacts DEF IndInv, Control, Places

(* The Close of the library: it frees the clone, counts one less, and perhaps
   goes on to close what its Init had opened. *)
Closes(c, k, a, b) ==
    /\ At(c, "close") /\ Goes(c, k) /\ a = Inner.image /\ b = Inner.base
    /\ k \in Call /\ k.slot = Inner.slot /\ k.lib = Inner.lib /\ k.image = a /\ k.base = b
    /\ k.result = None
    /\ mem' \in [Address -> Cell]
    /\ \A x \in Address : x \notin {a, b} => mem'[x] = mem[x]
    /\ mem'[a].count = mem[a].count - 1 /\ mem'[a].what = mem[a].what
    /\ mem'[a].lib = mem[a].lib /\ mem'[a].of = mem[a].of
    /\ b # a => mem'[b] = Free
    /\ \/ k.at = "closeDone" /\ k.got = <<>> /\ mem'[a].uses = mem[a].uses
       \/ /\ k.at = "expunge" /\ k.got = mem[a].uses /\ mem'[a].uses = <<>>
          /\ mem'[a].count = 0
    /\ UNCHANGED <<slot, heap, regs, held, run, dead>>

(* The library counted that reference, and nobody else holds the clone. *)
LEMMA ClosesKeeps ==
    ASSUME IndInv, NEW c \in Context, NEW k, NEW a, NEW b, Closes(c, k, a, b)
    PROVE  IndInv'
<1>. USE DEF Closes
<1>0. PICK i : i = Inner.slot
  OBVIOUS
<1>1. /\ Inner \in Call /\ Inner.at = "close" /\ CallOK(Inner) /\ Live(i) /\ i \in Slot
      /\ a \in Address /\ a = slot[i].start /\ Inner.got = <<>> /\ Inner.lib = slot[i].name
      /\ slot[i].state = "ready" /\ b \in Open(i) /\ slot[i].closing = b /\ Base(b, a)
      /\ b \in Address
      /\ Depth \in 1 .. Len(Calls) /\ Depth \in Nat /\ mem[a].what = "image"
      /\ mem[a].count \in Int
  <2>1. /\ Inner \in Call /\ Inner.at = "close" /\ CallOK(Inner) /\ Live(i) /\ i \in Slot
        /\ a \in Address /\ Depth \in 1 .. Len(Calls) /\ Depth \in Nat
    BY <1>0, TopFacts
  <2>2. /\ a = slot[i].start /\ Inner.got = <<>> /\ Inner.lib = slot[i].name
        /\ slot[i].state = "ready" /\ b \in Open(i) /\ slot[i].closing = b /\ Base(b, a)
    BY <1>0, <2>1 DEF CallOK, Waiting, Closing
  <2>3. slot[i].opens \in Seq(Address)
    BY <2>1, Types DEF IndInv, Control, SlotRecord
  <2>4. b \in Address
    BY <2>2, <2>3, SeqFacts DEF Open
  <2>. QED
    BY <2>1, <2>2, <2>4, LiveFacts DEF IndInv, Control, Places
<1>2. b # a => mem[b].what = "clone" /\ mem[b].of = a
  BY <1>1 DEF Base
<1>3. Replaced(k) /\ stack' \in [Context -> Seq(Call)]
  BY GoesShape
<1>4. TypeOK'
  BY <1>3 DEF IndInv, Control, TypeOK
<1>5. Control'
  BY <1>3, <1>4, ReplaceControl DEF Opening
<1>6. \A j \in Slot : OnStack(j)' <=> OnStack(j)
  BY <1>3, ReplaceLive
<1>7. heap \in Int /\ heap >= 0 /\ a < heap /\ b < heap
  <2>1. heap \in Int /\ heap >= 0
    BY Types DEF IndInv, Control
  <2>2. mem[b].what # "free"
    BY <1>1, <1>2
  <2>3. a < heap /\ b < heap
    BY <1>1, <2>2, BelowHeap DEF IndInv, Control, Places
  <2>. QED
    BY <2>1, <2>3
<1>8. SlotsOK' /\ Apart'
  <2>1. ASSUME NEW x \in Address, x < heap PROVE Steady(x)
    <3>1. x = a \/ (x = b /\ b # a) \/ x \notin {a, b}
      OBVIOUS
    <3>. QED
      BY <1>1, <1>2, <3>1, Cells DEF Steady
  <2>2. SteadyMem
    BY <1>7, <2>1 DEF SteadyMem
  <2>. QED
    BY <1>6, <2>2, SteadyPlaces
<1>9. HeapOK'
  <2>1. ASSUME NEW x \in Address, x >= heap' PROVE mem'[x] = Free
    <3>1. x >= heap /\ x \notin {a, b}
      BY <1>1, <1>7, <2>1 DEF Address
    <3>. QED
      BY <3>1 DEF IndInv, Places, HeapOK
  <2>. QED
    BY <2>1 DEF HeapOK, Free
<1>10. ASSUME NEW j \in Slot, j # i, Live(j)
       PROVE  /\ slot[j].start \in Address /\ slot[j].start \notin {a, b}
              /\ mem'[slot[j].start] = mem[slot[j].start] /\ mem[slot[j].start].count \in Int
  <2>1. /\ slot[j].start \in Address /\ slot[j].start # a /\ mem[slot[j].start].what = "image"
        /\ mem[slot[j].start].count \in Int
    BY <1>1, <1>10, StartsDiffer, LiveFacts DEF IndInv, Control, Places
  <2>2. slot[j].start # b
    BY <1>2, <2>1
  <2>3. mem'[slot[j].start] = mem[slot[j].start]
    BY <1>2, <2>1, <2>2
  <2>. QED
    BY <2>1, <2>2, <2>3
<1>11. CallsOK'
  <2>1. CallOK(k)'
    <3>1. /\ slot' = slot /\ k.slot = i /\ k.lib = slot[i].name /\ k.image = slot[i].start
          /\ slot[i].state = "ready" /\ slot[i].closing = b /\ b \in Open(i)
          /\ k.base = b /\ k.result = None
      BY <1>0, <1>1
    <3>2. \/ k.at = "closeDone" /\ k.got = <<>>
          \/ k.at = "expunge" /\ mem'[k.image].count = 0
      OBVIOUS
    <3>. QED
      BY <3>1, <3>2 DEF CallOK, Waiting, Opening, Closing, Open
  <2>2. Others(Inner.slot)
    BY <1>0, <1>10 DEF Others
  <2>. QED
    BY <1>3, <2>1, <2>2, ReplaceCalls
<1>12. /\ RefHolders \in SUBSET HolderSet /\ CountHolders \in SUBSET HolderSet
       /\ OwnHolders \in SUBSET HolderSet /\ HolderSet \in SUBSET HolderSet
  BY DEF RefHolders, CountHolders, OwnHolders
<1>13. PICK u, v, w : /\ u = <<"counted", run, Depth>> /\ v = <<"library", a, 0>>
                      /\ w = <<"call", run, Depth>>
  OBVIOUS
<1>14. /\ u \in HolderSet /\ v \in HolderSet /\ w \in HolderSet /\ u # v /\ u # w /\ v # w
       /\ Holding[u] = <<b>> /\ Holding[v] = mem[a].uses /\ Holding[w] = <<>>
       /\ u \in CountHolders /\ u \notin OwnHolders
       /\ v \in CountHolders /\ v \in RefHolders /\ v \in OwnHolders
       /\ w \in CountHolders /\ w \in RefHolders /\ w \in OwnHolders
  <2>1. HoldingValues
    BY HoldingEach DEF IndInv, Control
  <2>2. /\ u \in HolderSet /\ v \in HolderSet /\ w \in HolderSet
        /\ Holding[u] = Carried("counted", Inner) /\ Holding[v] = mem[a].uses
        /\ Holding[w] = Carried("call", Inner)
    BY <1>1, <1>13, <2>1 DEF HoldingValues, Inner
  <2>3. Holding[u] = <<b>> /\ Holding[w] = <<>>
    BY <1>1, <2>2 DEF Carried
  <2>4. u[1] = "counted" /\ v[1] = "library" /\ w[1] = "call"
    BY <1>13
  <2>. QED
    BY <2>2, <2>3, <2>4 DEF CountHolders, RefHolders, OwnHolders
<1>15. Holding'[u] = <<>> /\ Holding'[v] = mem'[a].uses /\ Holding'[w] = k.got
  <2>1. run' = run /\ Len(Calls') = Depth /\ Calls'[Depth] = k /\ Depth \in 1 .. Depth
    BY <1>1, <1>3 DEF Replaced
  <2>2. Holding'[u] = Carried("counted", k) /\ Holding'[w] = Carried("call", k)
    BY <1>1, <1>4, <1>13, <2>1, HoldingEachNext
  <2>3. Holding'[v] = mem'[a].uses
    BY <1>1, <1>4, <1>13, HoldingEachNext
  <2>. QED
    BY <2>2, <2>3 DEF Carried
<1>16. mem[a].uses \in Seq(Address)
  BY <1>1, Types DEF IndInv, Control, Cell
<1>17. ASSUME NEW X \in SUBSET HolderSet
       PROVE  Moves(Holding, Holding', HolderSet, Value, X, {u, v, w})
  <2>1. \A x \in Address : <<"library", x, 0>> \in {u, v, w} \/ mem'[x].uses \in {mem[x].uses, <<>>}
    <3>. SUFFICES ASSUME NEW x \in Address, x # a PROVE mem'[x].uses \in {mem[x].uses, <<>>}
      BY <1>13
    <3>. QED
      BY Cells
  <2>2. \A kind \in {"call", "flight", "counted"} :
          \/ <<kind, run, Depth>> \notin X \/ <<kind, run, Depth>> \in {u, v, w}
          \/ Carried(kind, k) = <<>> \/ Carried(kind, k) = Carried(kind, Inner)
    BY <1>1, <1>13 DEF Carried
  <2>3. KeptBut(X, {u, v, w})
    BY <1>3, <2>1, <2>2, ReplaceKept
  <2>4. {u, v, w} \in SUBSET HolderSet
    BY <1>14
  <2>. QED
    BY <1>3, <1>4, <2>3, <2>4, HoldingMoves DEF IndInv, Control, Tallied, Replaced
<1>18. ASSUME NEW X \in SUBSET HolderSet, v \in X, w \in X, NEW B
       PROVE  /\ Settled(Holding, X, B) /\ Settled(Holding', X, B)
              /\ Tally(Holding', X, B) <= Tally(Holding, X, B)
              /\ u \in X /\ b \in B => Tally(Holding', X, B) <= Tally(Holding, X, B) - 1
  <2>1. /\ Settled(Holding, X, B) /\ Settled(Holding', X, B)
        /\ Share(Holding, X, u, B) \in Nat /\ Share(Holding', X, u, B) \in Nat
        /\ Share(Holding, X, v, B) \in Nat /\ Share(Holding', X, v, B) \in Nat
        /\ Share(Holding, X, w, B) \in Nat /\ Share(Holding', X, w, B) \in Nat
        /\ Tally(Holding', X, B) + Share(Holding, X, u, B) + Share(Holding, X, v, B)
             + Share(Holding, X, w, B)
           <= Tally(Holding, X, B) + Share(Holding', X, u, B) + Share(Holding', X, v, B)
             + Share(Holding', X, w, B)
    <3>1. Moves(Holding, Holding', HolderSet, Value, X, {u, v, w})
      BY <1>17
    <3>. QED
      BY <1>14, <3>1, TallyAtThree
  <2>2. /\ Share(Holding', X, u, B) = 0 /\ Share(Holding, X, w, B) = 0
        /\ Share(Holding, X, v, B) = Occ(mem[a].uses, B)
    BY <1>14, <1>15, <1>18, OccEmpty DEF Share
  <2>3. u \in X /\ b \in B => Share(Holding, X, u, B) = 1
    BY <1>14, OccOne DEF Share
  <2>4. Occ(mem[a].uses, B) \in Nat
    BY <1>16, OccFacts
  <2>5. Share(Holding', X, v, B) + Share(Holding', X, w, B) = Occ(mem[a].uses, B)
    BY <1>15, <1>18, <2>4, OccEmpty DEF Share
  <2>. QED
    BY <2>1, <2>2, <2>3, <2>4, <2>5 DEF Settled
<1>19. Finite' /\ NoMore(RefHolders) /\ NoMore(CountHolders)
  <2>1. Settled(Holding', HolderSet, Value)
    BY <1>12, <1>14, <1>18
  <2>2. Finite'
    BY <2>1 DEF Settled, Finite, Spots
  <2>. QED
    BY <1>12, <1>14, <1>18, <2>2 DEF NoMore
<1>20. AllOwned'
  <2>. SUFFICES ASSUME NEW h \in OwnHolders, NEW l \in 1 .. Len(Holding'[h]), NEW x,
                       x = Holding'[h][l]
                PROVE  Owned(x)'
    BY DEF AllOwned, Owned
  <2>1. PICK g \in OwnHolders : \E j \in 1 .. Len(Holding[g]) : x = Holding[g][j]
    <3>1. CASE h = w
      BY <1>14, <1>15, <3>1
    <3>2. CASE h = v
      BY <1>14, <1>15, <3>2
    <3>3. CASE h \notin {v, w}
      <4>1. Moves(Holding, Holding', HolderSet, Value, HolderSet, {u, v, w})
        BY <1>12, <1>17
      <4>2. h \in HolderSet /\ h \notin {u, v, w}
        BY <1>12, <1>14, <3>3
      <4>3. Holding'[h] = Holding[h] \/ Holding'[h] = <<>>
        BY <4>1, <4>2 DEF Moves
      <4>. QED
        BY <4>3
    <3>. QED
      BY <3>1, <3>2, <3>3
  <2>2. Owned(x)
    BY <2>1 DEF IndInv, Tallied, AllOwned
  <2>3. b # a => x # b
    BY <2>1, CloneInFlight
  <2>4. PICK j \in Ready : j \in Slot /\ x \in Address /\ Base(x, slot[j].start)
    BY <2>2, OwnedFacts
  <2>5. mem'[x] = mem[x] \/ x = a
    BY <2>3, <2>4
  <2>6. x = slot[j].start \/ (mem'[x].what = "clone" /\ mem'[x].of = slot[j].start)
    BY <1>1, <2>4, <2>5 DEF Base
  <2>7. Ready' = Ready
    BY DEF Ready
  <2>. QED
    BY <2>4, <2>6, <2>7 DEF Owned, Base
<1>21. RefsListed'
  <2>. SUFFICES ASSUME NEW x \in Address, Refs(x)' > 0 PROVE Listed(x)'
    BY DEF RefsListed
  <2>1. Refs(x) >= Refs(x)' /\ Refs(x) \in Nat /\ Refs(x)' \in Nat
    <3>1. Refs(x) = Tally(Holding, RefHolders, {x}) /\ Refs(x)' = Tally(Holding', RefHolders, {x})
      BY DEF Refs, Tally, Spots
    <3>2. Tally(Holding', RefHolders, {x}) <= Tally(Holding, RefHolders, {x})
      BY <1>19 DEF NoMore
    <3>. QED
      BY <1>4, <1>12, <1>19, <3>1, <3>2, TallyType, TallyTypeNext DEF IndInv, Control, Tallied
  <2>2. Refs(x) > 0
    BY <2>1
  <2>3. PICK j \in Ready : Occ(slot[j].opens, {x}) >= Refs(x)
    BY <2>2 DEF IndInv, Tallied, RefsListed, Listed
  <2>4. Occ(slot[j].opens, {x}) \in Nat
    BY <2>3, OccType DEF IndInv, Control, Ready
  <2>5. Occ(slot[j].opens, {x}) >= Refs(x)' /\ j \in Ready'
    BY <2>1, <2>3, <2>4 DEF Ready
  <2>. QED
    BY <2>5 DEF Listed, Occ, Positions
<1>22. Counts'
  <2>1. ASSUME NEW j \in Slot, Live(j)'
        PROVE  Carries(j) \/ Count(j)' <= mem'[slot'[j].start].count
    <3>1. Live(j)
      BY <1>6, <2>1 DEF Live, Reusable
    <3>2. Narrows(slot[j].start)
      <4>1. \A x \in Address : mem'[x] = mem[x] \/ x = a \/ mem'[x] = Free
        OBVIOUS
      <4>. QED
        BY <1>1, <4>1, Cells DEF Narrows
    <3>3. CASE j # i
      BY <1>10, <3>1, <3>2, <3>3 DEF Carries
    <3>4. CASE j = i
      <4>. DEFINE D == {x \in Address : x = a \/ (mem'[x].what = "clone" /\ mem'[x].of = a)}
      <4>1. Count(j)' = Tally(Holding', CountHolders, D)
        BY <1>1, <3>4 DEF Count, Bases, Base, Tally, Spots
      <4>2. \A x \in D : x \in Bases(a)
        BY <1>1, <3>2, <3>4 DEF Bases, Base, Narrows
      <4>. HIDE DEF D
      <4>3. Filled(Holding', HolderSet, Value)
        BY <1>4, <1>12, <1>19, TallyTypeNext
      <4>4. Tally(Holding', CountHolders, D) <= Tally(Holding', CountHolders, Bases(a))
        BY <1>12, <4>2, <4>3, TallyMore
      <4>5. Tally(Holding', CountHolders, Bases(a)) <= Tally(Holding, CountHolders, Bases(a)) - 1
        <5>1. b \in Bases(a)
          BY <1>1 DEF Bases
        <5>. QED
          BY <1>12, <1>14, <1>18, <5>1
      <4>6. Tally(Holding, CountHolders, Bases(a)) <= mem[a].count
        BY <1>1, <3>1, <3>4 DEF IndInv, Tallied, Counts, Count
      <4>7. /\ Tally(Holding, CountHolders, Bases(a)) \in Nat
            /\ Tally(Holding', CountHolders, Bases(a)) \in Nat
            /\ Tally(Holding', CountHolders, D) \in Nat
        BY <1>4, <1>12, <1>19, TallyType, TallyTypeNext DEF IndInv, Control, Tallied
      <4>8. mem'[slot'[j].start].count = mem[a].count - 1
        BY <1>1, <3>4
      <4>. QED
        BY <1>1, <4>1, <4>4, <4>5, <4>6, <4>7, <4>8
    <3>. QED
      BY <3>3, <3>4
  <2>. QED
    BY <1>4, <1>19, <2>1, CountsKept
<1>. QED
  BY <1>5, <1>8, <1>9, <1>11, <1>19, <1>20, <1>21, <1>22 DEF IndInv, Places, Tallied

-----------------------------------------------------------------------------
(* The actions, one by one *)

(* An Init that gives up goes on to undo what it did. *)
LEMMA GivesUpKeeps ==
    ASSUME IndInv, NEW c \in Context, At(c, "init"), Goes(c, [Inner EXCEPT !.at = "undo"]),
           UNCHANGED <<slot, mem, heap, regs, held, run, dead>>
    PROVE  IndInv'
<1>1. PICK k : k = [Inner EXCEPT !.at = "undo"]
  OBVIOUS
<1>2. Inner \in Call /\ Inner.at = "init" /\ CallOK(Inner)
  BY TopFacts
<1>3. /\ k \in Call /\ k.at = "undo" /\ k.slot = Inner.slot /\ k.lib = Inner.lib
      /\ k.image = Inner.image /\ k.got = Inner.got
  BY <1>1, <1>2 DEF Call, Opening
<1>4. CallOK(k)'
  BY <1>2, <1>3 DEF CallOK, Waiting, Opening, Closing
<1>5. \A kind \in {"call", "flight", "counted"} :
        Carried(kind, k) = <<>> \/ Carried(kind, k) = Carried(kind, Inner)
  BY <1>3 DEF Carried
<1>. QED
  BY <1>1, <1>3, <1>4, <1>5, MovesOn DEF Opening

(* By itself... *)
LEMMA InitGivesUpKeeps ==
    ASSUME IndInv, NEW c \in Context, InitGivesUp(c)
    PROVE  IndInv'
<1>1. At(c, "init")
  BY DEF InitGivesUp
<1>2. Top(c) = Inner
  BY <1>1, TopFacts
<1>. QED
  BY <1>1, <1>2, GivesUpKeeps DEF InitGivesUp

(* ... or because a library it needs was refused.  A program has its answer. *)
LEMMA OpenRefusedKeeps ==
    ASSUME IndInv, NEW c \in Context, NEW n \in Lib, OpenRefused(c, n)
    PROVE  IndInv'
<1>1. /\ Asks(c, n) /\ Answered(c, stack[c], None)
      /\ UNCHANGED <<slot, mem, heap, regs, run, dead>>
  BY DEF OpenRefused
<1>2. held' = held
  BY <1>1 DEF Answered
<1>3. CASE stack[c] = <<>>
  <2>1. stack' = stack
    BY <1>1, <1>3 DEF Answered, IndInv, Control, TypeOK
  <2>. QED
    BY <1>1, <1>2, <2>1, NothingKeeps
<1>4. CASE stack[c] # <<>>
  <2>1. At(c, "init")
    BY <1>1, <1>4 DEF Asks, InProgram
  <2>2. Level(c) = Len(stack[c]) /\ Inner = stack[c][Len(stack[c])]
    BY <2>1, TopFacts DEF Level, Inner, Depth
  <2>3. stack' = [stack EXCEPT ![c] = [stack[c] EXCEPT ![Len(stack[c])].at = "undo"]]
    BY <1>1, <1>4 DEF Answered
  <2>4. Goes(c, [Inner EXCEPT !.at = "undo"])
    BY <2>2, <2>3 DEF Goes
  <2>. QED
    BY <1>1, <1>2, <2>1, <2>4, GivesUpKeeps
<1>. QED
  BY <1>3, <1>4

(* An Init that has undone what it did returns 0. *)
LEMMA InitFailsKeeps ==
    ASSUME IndInv, NEW c \in Context, InitFails(c)
    PROVE  IndInv'
<1>0. PICK k : k = [Inner EXCEPT !.at = "initDone", !.result = None]
  OBVIOUS
<1>1. /\ At(c, "undo") /\ Goes(c, k) /\ Inner.got = <<>>
      /\ UNCHANGED <<slot, mem, heap, regs, held, run, dead>>
  BY <1>0, TopFacts DEF InitFails
<1>2. Inner \in Call /\ Inner.at = "undo" /\ CallOK(Inner)
  BY <1>1, TopFacts
<1>3. /\ k \in Call /\ k.at = "initDone" /\ k.slot = Inner.slot /\ k.lib = Inner.lib
      /\ k.image = Inner.image /\ k.got = Inner.got /\ k.result = None
  BY <1>0, <1>2 DEF Call, Opening, Value
<1>4. CallOK(k)'
  BY <1>1, <1>2, <1>3 DEF CallOK, Waiting, Opening, Closing
<1>5. \A kind \in {"call", "flight", "counted"} :
        Carried(kind, k) = <<>> \/ Carried(kind, k) = Carried(kind, Inner)
  BY <1>3 DEF Carried
<1>. QED
  BY <1>1, <1>3, <1>4, <1>5, MovesOn DEF Opening

(* An expunge that has closed what the Init opened returns the seglist. *)
LEMMA ExpungedKeeps ==
    ASSUME IndInv, NEW c \in Context, Expunged(c)
    PROVE  IndInv'
<1>0. PICK k : k = [Inner EXCEPT !.at = "closeDone", !.result = Inner.image]
  OBVIOUS
<1>1. /\ At(c, "expunge") /\ Goes(c, k) /\ Inner.got = <<>>
      /\ UNCHANGED <<slot, mem, heap, regs, held, run, dead>>
  BY <1>0, TopFacts DEF Expunged
<1>2. Inner \in Call /\ Inner.at = "expunge" /\ CallOK(Inner) /\ Inner.image \in Address
  BY <1>1, TopFacts
<1>3. /\ k \in Call /\ k.at = "closeDone" /\ k.slot = Inner.slot /\ k.lib = Inner.lib
      /\ k.image = Inner.image /\ k.got = Inner.got /\ k.result # None /\ k.base = Inner.base
  BY <1>0, <1>2, Limits DEF Call, Closing, Value
<1>4. CallOK(k)'
  BY <1>1, <1>2, <1>3 DEF CallOK, Waiting, Opening, Closing, Open
<1>5. \A kind \in {"call", "flight", "counted"} :
        Carried(kind, k) = <<>> \/ Carried(kind, k) = Carried(kind, Inner)
  BY <1>2, <1>3 DEF Carried
<1>. QED
  BY <1>1, <1>3, <1>4, <1>5, MovesOn DEF Opening

(* The inner call goes on and its slot changes. *)
LEMMA SlotMovesOn ==
    ASSUME IndInv, NEW c \in Context, NEW place, At(c, place), NEW k \in Call, Goes(c, k),
           NEW r \in SlotRecord, slot' = [slot EXCEPT ![Inner.slot] = r],
           r.name = slot[Inner.slot].name, r.start = slot[Inner.slot].start,
           r.saved = slot[Inner.slot].saved, r.opens = slot[Inner.slot].opens,
           slot[Inner.slot].state = "ready" => r.state = "ready",
           UNCHANGED <<mem, heap, regs, held, run, dead>>,
           k.slot = Inner.slot, k.at \in Opening => place \in Opening,
           CallOK(k)', \A i : i = Inner.slot => SlotOK(i)',
           \A kind \in {"call", "flight", "counted"} :
             Carried(kind, k) = <<>> \/ Carried(kind, k) = Carried(kind, Inner)
    PROVE  IndInv'
<1>0. PICK i : i = Inner.slot
  OBVIOUS
<1>1. Replaced(k) /\ stack' \in [Context -> Seq(Call)] /\ i \in Slot /\ OnStack(i)
  <2>1. Replaced(k) /\ stack' \in [Context -> Seq(Call)]
    BY GoesShape
  <2>2. Inner.slot \in Slot /\ Depth \in 1 .. Len(Calls)
    BY TopFacts
  <2>. QED
    BY <1>0, <2>1, <2>2 DEF OnStack, Inner
<1>2. Only(i) /\ slot'[i] = r /\ slot' \in [Slot -> SlotRecord]
  BY <1>0, <1>1, SlotSteps DEF IndInv, Control
<1>3. TypeOK'
  BY <1>1, <1>2 DEF IndInv, Control, TypeOK
<1>4. Control'
  <2>1. \A j \in Slot : slot'[j].saved = slot[j].saved
    BY <1>0, <1>2 DEF Only
  <2>. QED
    BY <1>1, <1>3, <2>1, ReplaceControl
<1>5. \A j \in Slot : Live(j)' => Live(j)
  <2>1. \A j \in Slot : OnStack(j)' <=> OnStack(j)
    BY <1>1, ReplaceLive
  <2>. QED
    BY <1>1, <1>2, <2>1 DEF Live, Reusable, Only
<1>6. SlotsOK' /\ Apart' /\ HeapOK' /\ Others(i)
  <2>1. Open(i)' \subseteq Open(i)
    BY <1>0, <1>2 DEF Open
  <2>. QED
    BY <1>0, <1>1, <1>2, <1>5, <2>1, OneSlotPlaces
<1>7. CallsOK'
  BY <1>0, <1>1, <1>6, ReplaceCalls
<1>8. Tallied'
  <2>1. KeptBut(HolderSet, {})
    BY <1>1, ReplaceKept
  <2>. QED
    BY <1>0, <1>1, <1>2, <1>3, <1>5, <2>1, OneSlotTallied DEF Replaced
<1>. QED
  BY <1>4, <1>6, <1>7, <1>8 DEF IndInv, Places

(* INIT_DONE goes on to Open, or to the end of an open that failed. *)
LEMMA InitDoneKeeps ==
    ASSUME IndInv, NEW c \in Context, InitDone(c)
    PROVE  IndInv'
<1>0. PICK i : i = Inner.slot
  OBVIOUS
<1>1. /\ At(c, "initDone") /\ Top(c) = Inner
      /\ UNCHANGED <<mem, heap, regs, held, run, dead>>
  <2>1. At(c, "initDone")
    BY DEF InitDone
  <2>. QED
    BY <2>1, TopFacts DEF InitDone
<1>2. /\ Inner \in Call /\ Inner.at = "initDone" /\ CallOK(Inner) /\ Live(i) /\ i \in Slot
      /\ Inner.image \in Address
  BY <1>0, <1>1, TopFacts
<1>3. /\ slot[i] \in SlotRecord /\ SlotOK(i) /\ slot[i].start = Inner.image
      /\ Inner.got = <<>>
      /\ \/ slot[i].state = "ready" /\ Inner.result = None
         \/ slot[i].state = "loading" /\ Inner.result \in {None, Inner.image}
  <2>1. slot[i] \in SlotRecord /\ SlotOK(i)
    BY <1>2, Types DEF IndInv, Control, Places, SlotsOK
  <2>. QED
    BY <1>0, <1>2, <2>1 DEF CallOK, Waiting
<1>4. ASSUME slot[i].state = "loading", Inner.result = None,
             slot' = [slot EXCEPT ![i].state = "failed"],
             Goes(c, [Inner EXCEPT !.at = "openDone"])
      PROVE  IndInv'
  <2>0. PICK k, r : k = [Inner EXCEPT !.at = "openDone"] /\ r = [slot[i] EXCEPT !.state = "failed"]
    OBVIOUS
  <2>1. /\ k \in Call /\ k.at = "openDone" /\ k.slot = Inner.slot /\ k.lib = Inner.lib
        /\ k.image = Inner.image /\ k.got = <<>> /\ k.result = None
    BY <2>0, <1>2, <1>3, <1>4 DEF Call, Opening
  <2>2. /\ r \in SlotRecord /\ r.state = "failed" /\ r.name = slot[i].name
        /\ r.start = slot[i].start /\ r.saved = slot[i].saved /\ r.opens = slot[i].opens
        /\ r.reclaim = slot[i].reclaim
    BY <2>0, <1>3 DEF SlotRecord
  <2>3. slot' = [slot EXCEPT ![i] = r] /\ slot'[i] = r
    BY <1>2, <1>4, <2>0 DEF IndInv, Control, TypeOK
  <2>4. CallOK(k)'
    BY <1>0, <1>2, <2>1, <2>2, <2>3 DEF CallOK, Waiting, Opening, Closing
  <2>5. SlotOK(i)'
    BY <1>1, <1>2, <1>3, <1>4, <2>2, <2>3 DEF SlotOK, Live, Reusable, Open, Base
  <2>. QED
    <3>1. \A kind \in {"call", "flight", "counted"} : Carried(kind, k) = <<>>
      BY <2>1 DEF Carried
    <3>2. \A x : x = Inner.slot => SlotOK(x)'
      BY <1>0, <2>5
    <3>3. /\ Goes(c, k) /\ slot' = [slot EXCEPT ![Inner.slot] = r]
          /\ r.name = slot[Inner.slot].name /\ r.start = slot[Inner.slot].start
          /\ r.saved = slot[Inner.slot].saved /\ r.opens = slot[Inner.slot].opens
          /\ slot[Inner.slot].state # "ready" /\ "initDone" \in Opening
      BY <1>0, <1>4, <2>0, <2>2, <2>3 DEF Opening
    <3>. QED
      BY <1>1, <2>1, <2>2, <2>4, <3>1, <3>2, <3>3, SlotMovesOn
<1>5. ASSUME slot[i].state = "loading", Inner.result # None,
             slot' = [slot EXCEPT ![i].state = "opening", ![i].base = Inner.result],
             Goes(c, [Inner EXCEPT !.at = "open", !.result = None])
      PROVE  IndInv'
  <2>0. PICK k, r : /\ k = [Inner EXCEPT !.at = "open", !.result = None]
                    /\ r = [slot[i] EXCEPT !.state = "opening", !.base = Inner.result]
    OBVIOUS
  <2>1. /\ k \in Call /\ k.at = "open" /\ k.slot = Inner.slot /\ k.lib = Inner.lib
        /\ k.image = Inner.image /\ k.got = <<>> /\ k.result = None
    BY <2>0, <1>2, <1>3, <1>5 DEF Call, Opening, Value
  <2>2. /\ r \in SlotRecord /\ r.state = "opening" /\ r.name = slot[i].name
        /\ r.start = slot[i].start /\ r.saved = slot[i].saved /\ r.opens = slot[i].opens
        /\ r.reclaim = slot[i].reclaim /\ r.base = slot[i].start
    BY <2>0, <1>2, <1>3, <1>5 DEF SlotRecord, Value
  <2>3. slot' = [slot EXCEPT ![i] = r] /\ slot'[i] = r
    BY <1>2, <1>5, <2>0 DEF IndInv, Control, TypeOK
  <2>4. CallOK(k)'
    BY <1>0, <1>2, <2>1, <2>2, <2>3 DEF CallOK, Waiting, Opening, Closing
  <2>5. SlotOK(i)'
    <3>1. slot[i].opens = <<>> /\ Open(i)' = {}
      BY <1>3, <1>5, <2>2, <2>3 DEF SlotOK, Open
    <3>2. /\ slot[i].name \in Lib /\ slot[i].start \in Address /\ ~slot[i].reclaim
          /\ mem[slot[i].start].what = "image" /\ mem[slot[i].start].lib = slot[i].name
      BY <1>2, <1>3, <1>5 DEF SlotOK, Reusable
    <3>. QED
      BY <1>1, <2>2, <2>3, <3>1, <3>2 DEF SlotOK
  <2>. QED
    <3>1. \A kind \in {"call", "flight", "counted"} : Carried(kind, k) = <<>>
      BY <2>1 DEF Carried
    <3>2. \A x : x = Inner.slot => SlotOK(x)'
      BY <1>0, <2>5
    <3>3. /\ Goes(c, k) /\ slot' = [slot EXCEPT ![Inner.slot] = r]
          /\ r.name = slot[Inner.slot].name /\ r.start = slot[Inner.slot].start
          /\ r.saved = slot[Inner.slot].saved /\ r.opens = slot[Inner.slot].opens
          /\ slot[Inner.slot].state # "ready" /\ "initDone" \in Opening
      BY <1>0, <1>5, <2>0, <2>2, <2>3 DEF Opening
    <3>. QED
      BY <1>1, <2>1, <2>2, <2>4, <3>1, <3>2, <3>3, SlotMovesOn
<1>6. ASSUME slot[i].state = "ready", slot' = slot,
             Goes(c, [Inner EXCEPT !.at = "open", !.image = slot[i].base])
      PROVE  IndInv'
  <2>0. PICK k : k = [Inner EXCEPT !.at = "open", !.image = slot[i].base]
    OBVIOUS
  <2>1. slot[i].base = Inner.image /\ Inner.result = None
    BY <1>3, <1>6 DEF SlotOK
  <2>2. /\ k \in Call /\ k.at = "open" /\ k.slot = Inner.slot /\ k.lib = Inner.lib
        /\ k.image = Inner.image /\ k.got = <<>> /\ k.result = None
    BY <2>0, <2>1, <1>2, <1>3 DEF Call, Opening
  <2>3. CallOK(k)'
    BY <1>0, <1>2, <1>6, <2>2 DEF CallOK, Waiting, Opening, Closing
  <2>. QED
    BY <1>1, <1>6, <2>0, <2>2, <2>3, MovesOn DEF Opening, Carried
<1>. QED
  BY <1>0, <1>1, <1>3, <1>4, <1>5, <1>6 DEF InitDone

(* An open of a library that is ready saves the registers in its slot: no other
   call is in it. *)
LEMMA OpenAgainKeeps ==
    ASSUME IndInv, NEW c \in Context, NEW n \in Lib, OpenAgain(c, n)
    PROVE  IndInv'
<1>0. PICK i, k, r :
        /\ i \in Named(n) /\ slot[i].state = "ready" /\ r = [slot[i] EXCEPT !.saved = regs[c]]
        /\ slot' = [slot EXCEPT ![i].saved = regs[c]]
        /\ k = [slot |-> i, lib |-> n, image |-> slot[i].start, base |-> None,
                got |-> <<>>, result |-> None, at |-> "initDone"]
        /\ Enter(c, stack[c], k)
  BY DEF OpenAgain
<1>1. /\ Asks(c, n) /\ UNCHANGED <<mem, heap, held, run, dead>>
  BY DEF OpenAgain
<1>2. /\ c = run /\ run \notin dead /\ stack[c] = Calls
      /\ Depth \in Nat /\ Depth = Len(Calls) /\ Calls \in Seq(Call)
      /\ \A l \in 1 .. Depth :
           /\ Calls[l] \in Call /\ Calls[l].at = "init" /\ CallOK(Calls[l])
           /\ Calls[l].slot \in Slot /\ slot[Calls[l].slot].state = "loading"
  BY <1>1, AskFacts
<1>3. /\ i \in Slot /\ slot[i].name = n /\ ~Reusable(i) /\ Live(i) /\ slot[i].state = "ready"
      /\ slot[i] \in SlotRecord /\ SlotOK(i) /\ slot[i].start \in Address
      /\ regs[c] \in Context \X Nat
  <2>1. i \in Slot /\ slot[i].name = n /\ ~Reusable(i) /\ Live(i)
    BY <1>0 DEF Named, Live
  <2>2. slot[i] \in SlotRecord /\ SlotOK(i) /\ regs[c] \in Context \X Nat
    BY <2>1, Types DEF IndInv, Control, Places, SlotsOK, TypeOK
  <2>. QED
    BY <1>0, <2>1, <2>2 DEF SlotOK
<1>4. /\ k \in Call /\ k.slot = i /\ k.lib = n /\ k.image = slot[i].start /\ k.got = <<>>
      /\ k.result = None /\ k.at = "initDone"
  BY <1>0, <1>3 DEF Call, Opening, Value
<1>5. /\ r \in SlotRecord /\ r.name = slot[i].name /\ r.start = slot[i].start
      /\ r.state = "ready" /\ r.opens = slot[i].opens /\ r.base = slot[i].base
      /\ r.close = slot[i].close /\ r.reclaim = slot[i].reclaim /\ r.saved = regs[run]
  BY <1>0, <1>2, <1>3 DEF SlotRecord
<1>6. slot' = [slot EXCEPT ![i] = r]
  BY <1>0, <1>3 DEF IndInv, Control, TypeOK
<1>7. Only(i) /\ slot'[i] = r /\ slot' \in [Slot -> SlotRecord]
  BY <1>3, <1>5, <1>6, SlotSteps DEF IndInv, Control
<1>8. /\ Pushed(k) /\ stack' \in [Context -> Seq(Call)]
      /\ \A l \in 1 .. Depth : Calls'[l] = Calls[l]
      /\ regs' = [regs EXCEPT ![run] = <<run, Depth + 1>>]
      /\ regs' \in [Context -> Context \X Nat]
  BY <1>0, <1>1, <1>2, <1>4, EnterShape DEF SameBut
<1>9. TypeOK'
  BY <1>1, <1>7, <1>8 DEF IndInv, Control, TypeOK
<1>10. Control'
  <2>1. slot'[k.slot].saved = regs[run] /\ \A j \in Slot : j # k.slot => slot'[j].saved = slot[j].saved
    BY <1>4, <1>5, <1>7 DEF Only
  <2>2. \A l \in 1 .. Depth : Calls[l].at \in Waiting /\ Calls[l].slot # k.slot
    BY <1>2, <1>3, <1>4 DEF Waiting
  <2>. QED
    BY <1>1, <1>2, <1>4, <1>8, <1>9, <2>1, <2>2, PushControl
<1>11. \A j \in Slot : Live(j)' => Live(j)
  <2>1. \A j \in Slot : OnStack(j)' <=> OnStack(j) \/ j = i
    BY <1>4, <1>8, PushLive
  <2>. QED
    BY <1>3, <1>5, <1>7, <2>1 DEF Live, Reusable, Only
<1>12. SlotsOK' /\ Apart' /\ HeapOK' /\ Others(i)
  <2>1. SlotOK(i)'
    BY <1>0, <1>1, <1>3, <1>5, <1>7, TouchedKept
  <2>2. Open(i)' \subseteq Open(i)
    BY <1>5, <1>7 DEF Open
  <2>. QED
    BY <1>1, <1>3, <1>7, <1>11, <2>1, <2>2, OneSlotPlaces
<1>13. CallsOK'
  <2>1. CallOK(k)'
    BY <1>3, <1>4, <1>5, <1>7 DEF CallOK, Waiting, Opening, Closing
  <2>2. \A l \in 1 .. Depth : Calls[l].at \in Waiting /\ Calls[l].slot # k.slot
    BY <1>2, <1>3, <1>4 DEF Waiting
  <2>. QED
    BY <1>4, <1>8, <1>12, <2>1, <2>2, PushCalls
<1>14. Tallied'
  <2>1. \A kind \in {"call", "flight", "counted"} : Carried(kind, k) = <<>>
    BY <1>4 DEF Carried
  <2>2. KeptBut(HolderSet, {})
    BY <1>1, <1>4, <1>8, <2>1, PushKept
  <2>. QED
    BY <1>1, <1>3, <1>5, <1>7, <1>8, <1>9, <1>11, <2>2, OneSlotTallied DEF Pushed
<1>. QED
  BY <1>10, <1>12, <1>13, <1>14 DEF IndInv, Places

(* A load takes a slot that nobody is in and memory that nothing is in. *)
LEMMA LoadKeeps ==
    ASSUME IndInv, NEW c \in Context, NEW n \in Lib, Load(c, n)
    PROVE  IndInv'
<1>0. PICK i, k, r :
        /\ i = Lowest({j \in Slot : Reusable(j)})
        /\ r = [Unused EXCEPT !.state = "loading", !.name = n, !.start = heap, !.saved = regs[c]]
        /\ slot' = [slot EXCEPT ![i] = r]
        /\ k = [slot |-> i, lib |-> n, image |-> heap, base |-> None,
                got |-> <<>>, result |-> None, at |-> "init"]
        /\ Enter(c, stack[c], k)
  BY DEF Load
<1>1. /\ Asks(c, n) /\ Named(n) = {} /\ {j \in Slot : Reusable(j)} # {} /\ heap < HeapMax
      /\ mem' = [mem EXCEPT ![heap] = Image(n)] /\ heap' = heap + 1
      /\ UNCHANGED <<held, run, dead>>
  BY DEF Load
<1>2. /\ c = run /\ run \notin dead /\ stack[c] = Calls
      /\ Depth \in Nat /\ Depth = Len(Calls) /\ Calls \in Seq(Call)
      /\ \A l \in 1 .. Depth :
           /\ Calls[l] \in Call /\ Calls[l].at = "init" /\ CallOK(Calls[l])
           /\ Calls[l].slot \in Slot /\ slot[Calls[l].slot].state = "loading"
  BY <1>1, AskFacts
<1>3. i \in Slot /\ Reusable(i) /\ regs[c] \in Context \X Nat
  <2>1. {j \in Slot : Reusable(j)} \in SUBSET (1 .. SlotMax) /\ SlotMax \in Nat
    BY Limits DEF Slot
  <2>2. i \in {j \in Slot : Reusable(j)}
    BY <1>0, <1>1, <2>1, LowestFacts
  <2>. QED
    BY <2>2 DEF IndInv, Control, TypeOK
<1>4. heap \in Address /\ heap \in Int /\ heap < HeapMax /\ mem[heap] = Free
  <2>1. heap \in Int /\ heap >= 0
    BY Types DEF IndInv, Control
  <2>2. heap \in Address
    BY <1>1, <2>1, Limits DEF Address
  <2>. QED
    BY <1>1, <2>1, <2>2 DEF IndInv, Places, HeapOK
<1>5. /\ k \in Call /\ k.slot = i /\ k.lib = n /\ k.image = heap /\ k.got = <<>>
      /\ k.result = None /\ k.at = "init"
  BY <1>0, <1>3, <1>4 DEF Call, Opening, Value
<1>6. /\ r \in SlotRecord /\ r.name = n /\ r.start = heap /\ r.state = "loading"
      /\ r.opens = <<>> /\ r.reclaim = FALSE /\ r.saved = regs[run]
  <2>1. r = [state |-> "loading", name |-> n, base |-> None, opens |-> <<>>, closing |-> None,
             start |-> heap, close |-> None, reclaim |-> FALSE, saved |-> regs[c]]
    BY <1>0 DEF Unused
  <2>2. <<>> \in Seq(Address) /\ None \in Value /\ heap \in Value /\ regs[c] = regs[run]
    BY <1>2, <1>4 DEF Value
  <2>. QED
    BY <1>3, <2>1, <2>2 DEF SlotRecord
<1>7. /\ slot'[i] = r /\ slot' \in [Slot -> SlotRecord] /\ \A j \in Slot \ {i} : slot'[j] = slot[j]
  BY <1>0, <1>3, <1>6 DEF IndInv, Control, TypeOK
<1>8. /\ mem' \in [Address -> Cell] /\ mem'[heap] = Image(n)
      /\ \A a \in Address \ {heap} : mem'[a] = mem[a]
  BY <1>1, <1>4, Cells DEF IndInv, Control, TypeOK
<1>9. /\ Pushed(k) /\ stack' \in [Context -> Seq(Call)]
      /\ \A l \in 1 .. Depth : Calls'[l] = Calls[l]
      /\ regs' = [regs EXCEPT ![run] = <<run, Depth + 1>>]
      /\ regs' \in [Context -> Context \X Nat]
  <2>1. Enter(run, Calls, k)
    BY <1>0, <1>2
  <2>. QED
    BY <1>1, <1>2, <1>5, <2>1, EnterShape DEF SameBut
<1>10. TypeOK'
  <2>1. heap' \in 0 .. HeapMax
    BY <1>1, <1>4, Limits DEF Address
  <2>. QED
    BY <1>1, <1>7, <1>8, <1>9, <2>1 DEF IndInv, Control, TypeOK
<1>11. \A l \in 1 .. Depth : Calls[l].at \in Waiting /\ Calls[l].slot # k.slot
  BY <1>2, <1>3, <1>5 DEF Waiting, Reusable
<1>12. Control'
  <2>1. slot'[k.slot].saved = regs[run] /\ \A j \in Slot : j # k.slot => slot'[j].saved = slot[j].saved
    BY <1>5, <1>6, <1>7
  <2>2. /\ run \notin dead /\ dead' = dead /\ k \in Call /\ Pushed(k)
        /\ \A l \in 1 .. Depth : Calls[l].at = "init"
        /\ regs' = [regs EXCEPT ![run] = <<run, Depth + 1>>]
    BY <1>1, <1>2, <1>5, <1>9
  <2>. QED
    BY <1>10, <1>11, <2>1, <2>2, PushControl
<1>13. \A j \in Slot : /\ Live(j) => ~Reusable(j) /\ slot[j].name # n
                       /\ j # i /\ Live(j)' => Live(j)
  <2>1. \A j \in Slot : OnStack(j)' <=> OnStack(j) \/ j = i
    BY <1>5, <1>9, PushLive
  <2>2. \A j \in Slot : OnStack(j) => ~Reusable(j)
    BY <1>2 DEF OnStack, Reusable
  <2>3. \A j \in Slot : ~Reusable(j) => slot[j].name # n
    BY <1>1 DEF Named
  <2>. QED
    BY <1>7, <2>1, <2>2, <2>3 DEF Live, Reusable
<1>14. Open(i)' = {}
  BY <1>6, <1>7 DEF Open
<1>15. SlotsOK'
  <2>1. SteadyMem
    BY <1>1, <1>4, <1>8 DEF SteadyMem, Steady
  <2>2. SlotOK(i)'
    BY <1>4, <1>6, <1>7, <1>8, <1>14, Cells DEF SlotOK, Reusable
  <2>3. ASSUME NEW j \in Slot, j # i PROVE SlotOK(j)'
    BY <1>7, <1>13, <2>1, <2>3, SteadyKept
  <2>. QED
    BY <2>2, <2>3 DEF SlotsOK
<1>16. Apart'
  <2>. SUFFICES ASSUME NEW j \in Slot, NEW m \in Slot, j # m
                PROVE  /\ Live(j)' /\ Live(m)' => slot'[j].name # slot'[m].name
                       /\ Open(j)' \cap Open(m)' = {}
    BY DEF Apart
  <2>1. /\ Live(j) /\ Live(m) => slot[j].name # slot[m].name
        /\ Open(j) \cap Open(m) = {}
    BY DEF IndInv, Places, Apart
  <2>2. \A x \in Slot \ {i} : slot'[x].name = slot[x].name /\ Open(x)' = Open(x)
    BY <1>7 DEF Open
  <2>. QED
    BY <1>6, <1>7, <1>13, <1>14, <2>1, <2>2
<1>17. HeapOK'
  <2>1. ASSUME NEW a \in Address, a >= heap + 1 PROVE mem'[a] = Free
    <3>1. a \in Int /\ a >= heap /\ a # heap
      BY <1>4, <2>1 DEF Address
    <3>. QED
      BY <1>8, <3>1 DEF IndInv, Places, HeapOK
  <2>. QED
    BY <1>1, <2>1 DEF HeapOK, Free
<1>18. ASSUME NEW j \in Slot, Live(j)
       PROVE  slot[j].start \in Address /\ slot[j].start # heap
              /\ mem'[slot[j].start] = mem[slot[j].start]
              /\ mem[slot[j].start].count \in Int /\ mem[slot[j].start].what = "image"
  BY <1>4, <1>8, <1>18, LiveFacts, Cells DEF IndInv, Control, Places
<1>19. CallsOK'
  <2>1. CallOK(k)'
    BY <1>5, <1>6, <1>7 DEF CallOK, Waiting, Opening, Closing
  <2>2. Others(k.slot)
    BY <1>5, <1>7, <1>18 DEF Others
  <2>. QED
    BY <1>5, <1>9, <1>11, <2>1, <2>2, PushCalls
<1>20. Tallied'
  <2>1. \A kind \in {"call", "flight", "counted"} : Carried(kind, k) = <<>>
    BY <1>5 DEF Carried
  <2>2. KeptBut(HolderSet, {})
    <3>1. \A a \in Address : mem'[a].uses \in {mem[a].uses, <<>>}
      BY <1>8, Cells
    <3>. QED
      BY <1>1, <1>5, <1>9, <2>1, <3>1, PushKept
  <2>3. Finite' /\ Drawn /\ NoMore(RefHolders) /\ NoMore(CountHolders)
    BY <1>9, <1>10, <2>2, Fewer DEF IndInv, Control, Tallied, Pushed
  <2>4. ASSUME NEW b, Owned(b) PROVE Owned(b)'
    <3>1. /\ b \in Address /\ b # heap
          /\ \E j \in Ready : j \in Slot /\ Live(j) /\ Base(b, slot[j].start)
      BY <1>4, <2>4, OwnedFacts
    <3>2. PICK j \in Ready : j \in Slot /\ Base(b, slot[j].start)
      BY <3>1
    <3>3. j # i /\ slot'[j] = slot[j] /\ j \in Ready'
      BY <1>3, <1>7, <3>2 DEF Ready, Reusable
    <3>4. mem'[b] = mem[b]
      BY <1>8, <3>1
    <3>. QED
      BY <3>1, <3>2, <3>3, <3>4 DEF Owned, Base
  <2>5. \A j \in Ready : j \in Ready' /\ slot'[j].opens = slot[j].opens
    BY <1>3, <1>7 DEF Ready, Reusable
  <2>6. ASSUME NEW j \in Slot, j # i, Live(j)' PROVE Carries(j)
    <3>1. Live(j) /\ slot'[j] = slot[j]
      BY <1>7, <1>13, <2>6
    <3>2. mem'[slot[j].start].count >= mem[slot[j].start].count
      BY <1>18, <3>1
    <3>3. Narrows(slot[j].start)
      BY <1>8, Cells DEF Narrows
    <3>. QED
      BY <3>1, <3>2, <3>3 DEF Carries
  <2>7. Count(i)' <= mem'[slot'[i].start].count
    <3>0. PICK B : B = {b \in Address : b = heap \/ (mem'[b].what = "clone" /\ mem'[b].of = heap)}
      OBVIOUS
    <3>1. Count(i)' = Tally(Holding', CountHolders, B)
      BY <1>6, <1>7, <3>0 DEF Count, Bases, Base, Tally, Spots
    <3>2. \A b : Owned(b) => b \notin B
      <4>. SUFFICES ASSUME NEW b, Owned(b), b \in B PROVE FALSE
        OBVIOUS
      <4>1. /\ b \in Address /\ b # heap
            /\ \E j \in Ready : j \in Slot /\ Live(j) /\ Base(b, slot[j].start)
        BY <1>4, OwnedFacts
      <4>2. PICK j \in Ready : j \in Slot /\ Live(j) /\ Base(b, slot[j].start)
        BY <4>1
      <4>3. mem[b].what = "clone" /\ mem[b].of = heap
        BY <1>8, <3>0, <4>1
      <4>. QED
        BY <1>18, <4>2, <4>3 DEF Base
    <3>3. \A l \in 1 .. Len(Calls) : Carried("counted", Calls[l]) = <<>>
      BY <1>2 DEF Carried
    <3>4. \A l \in 1 .. Len(Calls) : \A m \in 1 .. Len(Carried("counted", Calls[l])) :
            Carried("counted", Calls[l])[m] \notin B
      <4>1. Len(<<>>) = 0 /\ 1 .. 0 = {}
        OBVIOUS
      <4>. QED
        BY <3>3, <4>1
    <3>5. Tally(Holding, CountHolders, B) = 0
      BY <3>2, <3>4, CountZero
    <3>6. Tally(Holding', CountHolders, B) <= Tally(Holding, CountHolders, B)
      BY <2>3 DEF NoMore
    <3>7. mem'[slot'[i].start].count = 0
      BY <1>6, <1>7, <1>8, Cells
    <3>. QED
      BY <3>1, <3>5, <3>6, <3>7
  <2>. QED
    BY <1>10, <2>3, <2>4, <2>5, <2>6, <2>7, TalliedKept
<1>. QED
  BY <1>12, <1>15, <1>16, <1>17, <1>19, <1>20 DEF IndInv, Places

(* What an Init has opened passes from the call to the library. *)
LEMMA InitReturnsKeeps ==
    ASSUME IndInv, NEW c \in Context, InitReturns(c)
    PROVE  IndInv'
<1>0. PICK i, a, k : /\ i = Inner.slot /\ a = Inner.image
                     /\ k = [Inner EXCEPT !.at = "initDone", !.result = Inner.image, !.got = <<>>]
  OBVIOUS
<1>1. /\ At(c, "init") /\ Top(c) = Inner
  <2>1. At(c, "init")
    BY DEF InitReturns
  <2>. QED
    BY <2>1, TopFacts
<1>2. /\ mem' = [mem EXCEPT ![a].uses = Inner.got] /\ Goes(c, k)
      /\ UNCHANGED <<slot, heap, regs, held, run, dead>>
  BY <1>0, <1>1 DEF InitReturns
<1>3. /\ Inner \in Call /\ Inner.at = "init" /\ CallOK(Inner) /\ Live(i) /\ i \in Slot
      /\ a \in Address /\ Inner.got \in Seq(Address) /\ a = slot[i].start
      /\ slot[i].state = "loading" /\ Depth \in 1 .. Len(Calls) /\ Depth \in Nat
  <2>1. /\ Inner \in Call /\ Inner.at = "init" /\ CallOK(Inner) /\ Live(i) /\ i \in Slot
        /\ a \in Address /\ Depth \in 1 .. Len(Calls) /\ Depth \in Nat
    BY <1>0, <1>1, TopFacts
  <2>. QED
    BY <1>0, <2>1 DEF Call, CallOK
<1>4. /\ k \in Call /\ k.at = "initDone" /\ k.slot = i /\ k.lib = Inner.lib
      /\ k.image = a /\ k.got = <<>> /\ k.result = a
  <2>1. <<>> \in Seq(Address) /\ a \in Value /\ Inner.image = a
    BY <1>0, <1>3 DEF Value
  <2>2. /\ k.at = "initDone" /\ k.slot = Inner.slot /\ k.lib = Inner.lib /\ k.base = Inner.base
        /\ k.image = a /\ k.got = <<>> /\ k.result = a
    BY <1>0, <1>3 DEF Call
  <2>3. k \in Call
    BY <1>0, <1>3, <2>1 DEF Call, Opening
  <2>. QED
    BY <1>0, <2>2, <2>3
<1>5. /\ mem' \in [Address -> Cell] /\ mem'[a].uses = Inner.got /\ mem[a].what = "image"
      /\ \A x \in Address : /\ mem'[x].what = mem[x].what /\ mem'[x].lib = mem[x].lib
                            /\ mem'[x].of = mem[x].of /\ mem'[x].count = mem[x].count
                            /\ x # a => mem'[x] = mem[x]
  <2>1. mem \in [Address -> Cell] /\ mem[a].what = "image" /\ \A x \in Address : mem[x] \in Cell
    BY <1>3, LiveFacts, Types DEF IndInv, Control, Places, TypeOK
  <2>2. PICK m : m = [mem[a] EXCEPT !.uses = Inner.got]
    OBVIOUS
  <2>3. /\ m \in Cell /\ m.what = mem[a].what /\ m.lib = mem[a].lib
        /\ m.of = mem[a].of /\ m.count = mem[a].count /\ m.uses = Inner.got
    BY <1>3, <2>1, <2>2 DEF Cell
  <2>4. mem' = [mem EXCEPT ![a] = m]
    BY <1>2, <2>2
  <2>. QED
    BY <1>3, <2>1, <2>3, <2>4
<1>6. Replaced(k) /\ stack' \in [Context -> Seq(Call)]
  BY <1>1, <1>2, <1>4, GoesShape
<1>7. TypeOK'
  BY <1>2, <1>5, <1>6 DEF IndInv, Control, TypeOK
<1>8. Control'
  BY <1>0, <1>1, <1>2, <1>4, <1>6, <1>7, ReplaceControl DEF Opening
<1>9. \A j \in Slot : OnStack(j)' <=> OnStack(j)
  BY <1>0, <1>1, <1>4, <1>6, ReplaceLive
<1>10. SlotsOK' /\ Apart'
  <2>1. SteadyMem
    BY <1>2, <1>5, Types DEF SteadyMem, Steady, IndInv, Control
  <2>. QED
    BY <1>2, <1>9, <2>1, SteadyPlaces
<1>11. HeapOK'
  <2>1. ~ (a >= heap)
    BY <1>3, <1>5, Cells DEF IndInv, Places, HeapOK
  <2>2. \A x \in Address : x >= heap => mem'[x] = Free
    BY <1>5, <2>1 DEF IndInv, Places, HeapOK
  <2>. QED
    BY <1>2, <2>2 DEF HeapOK, Free
<1>12. \A j \in Slot : Live(j) => slot[j].start \in Address /\ mem[slot[j].start].count \in Int
  BY LiveFacts DEF IndInv, Control, Places
<1>13. CallsOK'
  <2>1. CallOK(k)'
    BY <1>0, <1>2, <1>3, <1>4 DEF CallOK, Waiting, Opening, Closing
  <2>2. Others(Inner.slot)
    BY <1>2, <1>5, <1>12 DEF Others
  <2>. QED
    BY <1>1, <1>4, <1>6, <2>1, <2>2, ReplaceCalls
<1>14. Tallied'
  <2>0. PICK p, q : p = <<"call", run, Depth>> /\ q = <<"library", a, 0>>
    OBVIOUS
  <2>1. /\ p \in HolderSet /\ q \in HolderSet /\ p # q
        /\ Holding[p] = Inner.got
    <3>1. HoldingValues
      BY HoldingEach DEF IndInv, Control
    <3>. QED
      BY <1>3, <2>0, <3>1 DEF HoldingValues, Carried, Inner
  <2>2. Holding'[p] = <<>> /\ Holding'[q] = Inner.got
    <3>1. run' = run /\ Len(Calls') = Depth /\ Calls'[Depth] = k
      BY <1>2, <1>6 DEF Replaced
    <3>2. Depth \in 1 .. Depth
      BY <1>3
    <3>. QED
      BY <1>3, <1>4, <1>5, <1>7, <2>0, <3>1, <3>2, HoldingEachNext DEF Carried
  <2>3. ASSUME NEW X \in SUBSET HolderSet
        PROVE  Moves(Holding, Holding', HolderSet, Value, X, {p, q})
    <3>1. KeptBut(X, {p, q})
      <4>1. \A kind \in {"call", "flight", "counted"} :
              <<kind, run, Depth>> \in {p, q} \/ Carried(kind, k) = <<>>
        BY <1>4, <2>0 DEF Carried
      <4>2. \A x \in Address : <<"library", x, 0>> \in {p, q} \/ mem'[x].uses \in {mem[x].uses, <<>>}
        BY <1>5, <2>0
      <4>. QED
        BY <1>1, <1>2, <1>4, <1>6, <4>1, <4>2, ReplaceKept
    <3>2. {p, q} \in SUBSET HolderSet
      BY <2>1
    <3>. QED
      BY <1>6, <1>7, <3>1, <3>2, HoldingMoves DEF IndInv, Control, Tallied, Replaced
  <2>4. HolderSet \in SUBSET HolderSet /\ RefHolders \in SUBSET HolderSet
        /\ CountHolders \in SUBSET HolderSet
    BY DEF RefHolders, CountHolders
  <2>5. ASSUME NEW X \in SUBSET HolderSet, p \in X, q \in X, NEW B
        PROVE  Settled(Holding', X, B) /\ Tally(Holding', X, B) <= Tally(Holding, X, B)
    <3>1. /\ Settled(Holding, X, B) /\ Settled(Holding', X, B)
          /\ Share(Holding, X, p, B) \in Nat /\ Share(Holding', X, p, B) \in Nat
          /\ Share(Holding, X, q, B) \in Nat /\ Share(Holding', X, q, B) \in Nat
          /\ Tally(Holding', X, B) + Share(Holding, X, p, B) + Share(Holding, X, q, B)
               <= Tally(Holding, X, B) + Share(Holding', X, p, B) + Share(Holding', X, q, B)
      <4>1. Moves(Holding, Holding', HolderSet, Value, X, {p, q})
        BY <2>3
      <4>. QED
        BY <2>1, <4>1, TallyAtTwo
    <3>2. Share(Holding', X, p, B) = 0 /\ Share(Holding', X, q, B) = Share(Holding, X, p, B)
      BY <2>1, <2>2, <2>5, OccEmpty DEF Share
    <3>. QED
      BY <3>1, <3>2 DEF Settled
  <2>6. p \in RefHolders /\ q \in RefHolders /\ p \in CountHolders /\ q \in CountHolders
        /\ p \in OwnHolders
    BY <2>0, <2>1 DEF RefHolders, CountHolders, OwnHolders
  <2>7. Finite' /\ NoMore(RefHolders) /\ NoMore(CountHolders)
    <3>1. Settled(Holding', HolderSet, Value)
      BY <2>1, <2>4, <2>5
    <3>2. Finite'
      BY <3>1 DEF Settled, Finite, Spots
    <3>. QED
      BY <2>4, <2>5, <2>6, <3>2 DEF NoMore
  <2>8. Drawn
    <3>. SUFFICES ASSUME NEW h \in OwnHolders, NEW m \in 1 .. Len(Holding'[h])
                  PROVE  \E g \in OwnHolders : \E x \in 1 .. Len(Holding[g]) :
                           Holding'[h][m] = Holding[g][x]
      BY DEF Drawn
    <3>1. h \in HolderSet
      BY DEF OwnHolders
    <3>2. Len(<<>>) = 0 /\ 1 .. 0 = {}
      OBVIOUS
    <3>3. CASE h = p
      BY <2>2, <3>2, <3>3
    <3>4. CASE h = q
      BY <2>1, <2>2, <2>6, <3>4
    <3>5. CASE h \notin {p, q}
      <4>1. Moves(Holding, Holding', HolderSet, Value, HolderSet, {p, q})
        BY <2>3, <2>4
      <4>2. Holding'[h] = Holding[h] \/ Holding'[h] = <<>>
        BY <3>1, <3>5, <4>1 DEF Moves
      <4>. QED
        BY <3>2, <4>2
    <3>. QED
      BY <3>3, <3>4, <3>5
  <2>9. \A b : Owned(b) => Owned(b)'
    BY <1>2, <1>5 DEF Owned, Base, Ready
  <2>10. \A j \in Ready : j \in Ready' /\ slot'[j].opens = slot[j].opens
    BY <1>2 DEF Ready
  <2>11. ASSUME NEW j \in Slot, Live(j)' PROVE Carries(j)
    <3>1. Live(j)
      BY <1>2, <1>9, <2>11 DEF Live, Reusable
    <3>2. mem'[slot[j].start].count >= mem[slot[j].start].count
      BY <1>5, <1>12, <3>1
    <3>. QED
      BY <1>2, <1>5, <3>1, <3>2 DEF Carries, Narrows
  <2>. QED
    BY <1>7, <2>7, <2>8, <2>9, <2>10, <2>11, TalliedKept
<1>. QED
  BY <1>8, <1>10, <1>11, <1>13, <1>14 DEF IndInv, Places

(* Open refuses, hands out the library, or hands out a clone. *)
LEMMA OpenCodeKeeps ==
    ASSUME IndInv, NEW c \in Context, OpenCode(c)
    PROVE  IndInv'
<1>0. PICK a : a = Inner.image
  OBVIOUS
<1>1. At(c, "open") /\ Top(c) = Inner
  <2>1. At(c, "open")
    BY DEF OpenCode
  <2>. QED
    BY <2>1, TopFacts
<1>2. UNCHANGED <<slot, regs, held, run, dead>>
  BY DEF OpenCode
<1>3. /\ Inner \in Call /\ CallOK(Inner) /\ a \in Address /\ Live(Inner.slot)
      /\ Inner.slot \in Slot /\ slot[Inner.slot].start = a /\ Inner.at = "open"
      /\ mem[a].what = "image" /\ mem[a].count \in Int
  <2>1. /\ Inner \in Call /\ CallOK(Inner) /\ a \in Address /\ Live(Inner.slot)
        /\ Inner.slot \in Slot /\ Inner.at = "open"
    BY <1>0, <1>1, TopFacts
  <2>2. slot[Inner.slot].start = a
    BY <1>0, <2>1 DEF CallOK
  <2>. QED
    BY <2>1, <2>2, LiveFacts DEF IndInv, Control, Places
<1>4. PICK m : m = [mem EXCEPT ![a].count = @ + 1]
  OBVIOUS
<1>5. /\ m \in [Address -> Cell] /\ m[a].count = mem[a].count + 1 /\ m[a].what = "image"
      /\ m[a].lib = mem[a].lib /\ m[a].of = mem[a].of /\ m[a].uses = mem[a].uses
      /\ \A x \in Address : x # a => m[x] = mem[x]
  <2>1. mem \in [Address -> Cell] /\ mem[a] \in Cell
    BY <1>3, Types DEF IndInv, Control, TypeOK
  <2>2. PICK y : y = [mem[a] EXCEPT !.count = @ + 1]
    OBVIOUS
  <2>3. /\ y \in Cell /\ y.count = mem[a].count + 1 /\ y.what = "image" /\ y.lib = mem[a].lib
        /\ y.of = mem[a].of /\ y.uses = mem[a].uses
    BY <1>3, <2>1, <2>2 DEF Cell
  <2>4. m = [mem EXCEPT ![a] = y]
    BY <1>4, <2>2
  <2>. QED
    BY <1>3, <2>1, <2>3, <2>4
<1>6. heap \in 0 .. HeapMax
  BY DEF IndInv, Control, TypeOK
<1>7. ASSUME Goes(c, [Inner EXCEPT !.at = "openDone"]), mem' = mem, heap' = heap
      PROVE  IndInv'
  <2>1. PICK k : k = [Inner EXCEPT !.at = "openDone"]
    OBVIOUS
  <2>2. /\ k \in Call /\ k.at = "openDone" /\ k.slot = Inner.slot /\ k.lib = Inner.lib
        /\ k.image = Inner.image /\ k.got = Inner.got /\ k.result = Inner.result
    BY <1>3, <2>1 DEF Call, Opening
  <2>3. Inner.got = <<>> /\ Inner.result = None
    BY <1>3 DEF CallOK, Waiting
  <2>4. CallOK(k)'
    BY <1>2, <1>3, <1>7, <2>2, <2>3 DEF CallOK, Waiting, Opening, Closing
  <2>5. \A kind \in {"call", "flight", "counted"} : Carried(kind, k) = <<>>
    BY <2>2, <2>3 DEF Carried
  <2>. QED
    BY <1>1, <1>2, <1>7, <2>1, <2>2, <2>4, <2>5, MovesOn DEF Opening
<1>8. ASSUME Goes(c, [Inner EXCEPT !.at = "openDone", !.result = a]), mem' = m, heap' = heap
      PROVE  IndInv'
  <2>1. PICK k : k = [Inner EXCEPT !.at = "openDone", !.result = a]
    OBVIOUS
  <2>2. /\ \A x \in Address : /\ x # a => mem'[x] = mem[x]
                              /\ mem'[x].uses \in {mem[x].uses, <<>>}
        /\ mem'[a].count = mem[a].count + 1 /\ mem'[a].what = "image"
        /\ mem'[a].lib = mem[a].lib /\ mem'[a].of = mem[a].of
        /\ mem' \in [Address -> Cell] /\ heap' \in 0 .. HeapMax
    BY <1>5, <1>6, <1>8
  <2>3. HandsOut(c, a, k, a)
    BY <1>0, <1>1, <1>2, <1>3, <1>8, <2>1, <2>2 DEF HandsOut
  <2>. QED
    BY <2>3, HandsOutKeeps
<1>9. ASSUME heap < HeapMax, mem' = [m EXCEPT ![heap] = CloneOf(a)], heap' = heap + 1,
             Goes(c, [Inner EXCEPT !.at = "openDone", !.result = heap])
      PROVE  IndInv'
  <2>1. PICK k, v : v = heap /\ k = [Inner EXCEPT !.at = "openDone", !.result = v]
    OBVIOUS
  <2>2. v \in Address /\ v # a /\ mem[v] = Free /\ heap + 1 \in 0 .. HeapMax
    <3>1. heap \in Int /\ heap >= 0 /\ a < heap
      BY <1>3, Types, BelowHeap DEF IndInv, Control, Places
    <3>2. v \in Address
      BY <1>9, <2>1, <3>1, Limits DEF Address
    <3>3. v # a /\ mem[v] = Free
      BY <2>1, <3>1, <3>2 DEF IndInv, Places, HeapOK, Address
    <3>. QED
      BY <1>9, <3>1, <3>2, <3>3, Limits
  <2>3. /\ \A x \in Address : /\ x \notin {a, v} => mem'[x] = mem[x]
                              /\ mem'[x].uses \in {mem[x].uses, <<>>}
        /\ mem'[a].count = mem[a].count + 1 /\ mem'[a].what = "image"
        /\ mem'[a].lib = mem[a].lib /\ mem'[a].of = mem[a].of /\ mem'[v] = CloneOf(a)
        /\ mem' \in [Address -> Cell]
    BY <1>3, <1>5, <1>9, <2>1, <2>2, Cells
  <2>4. heap' \in 0 .. HeapMax /\ v = heap /\ heap' = heap + 1
    BY <1>9, <2>1, <2>2
  <2>5. Goes(c, k) /\ k = [Inner EXCEPT !.at = "openDone", !.result = v]
    BY <1>9, <2>1
  <2>6. \/ v = a /\ heap' = heap
        \/ v = heap /\ v # a /\ mem'[v] = CloneOf(a) /\ mem[v] = Free /\ heap' = heap + 1
    BY <2>2, <2>3, <2>4
  <2>7. HandsOut(c, v, k, a)
    BY <1>0, <1>1, <1>2, <2>2, <2>3, <2>4, <2>5, <2>6 DEF HandsOut
  <2>. QED
    BY <2>7, HandsOutKeeps
<1>. QED
  BY <1>0, <1>1, <1>2, <1>4, <1>7, <1>8, <1>9 DEF OpenCode

(* An open that fails gives the caller its registers back and nothing else. *)
LEMMA OpenFailedKeeps ==
    ASSUME IndInv, NEW c \in Context, OpenFailed(c)
    PROVE  IndInv'
<1>0. PICK i, r : /\ i = Inner.slot
                  /\ r = IF slot[i].state = "opening" THEN OpenUndone(i) ELSE slot[i]
  OBVIOUS
<1>1. At(c, "openDone") /\ Top(c) = Inner /\ c = run
  <2>1. At(c, "openDone")
    BY DEF OpenFailed
  <2>. QED
    BY <2>1, TopFacts
<1>2. /\ Inner.result = None /\ Answered(c, Below(c), None)
      /\ regs' = [regs EXCEPT ![run] = slot[i].saved] /\ UNCHANGED <<mem, heap, run, dead>>
  BY <1>0, <1>1 DEF OpenFailed, Restored
<1>3. /\ i \in Slot /\ Live(i) /\ slot[i] \in SlotRecord /\ SlotOK(i) /\ run \notin dead
      /\ Depth \in 1 .. Len(Calls) /\ Depth \in Nat
      /\ \A l \in 1 .. Depth - 1 : Calls[l].at \in Waiting
  BY <1>0, <1>1, TopFacts, Types DEF IndInv, Control, Places, SlotsOK
<1>4. /\ r \in SlotRecord /\ r.name = slot[i].name /\ r.start = slot[i].start
      /\ r.saved = slot[i].saved /\ r.opens = slot[i].opens /\ r.reclaim = slot[i].reclaim
      /\ slot[i].state = "opening" => r.state = "failed"
      /\ slot[i].state # "opening" => r = slot[i]
  BY <1>0, <1>3 DEF OpenUndone, SlotRecord, Value
<1>5. slot' = [slot EXCEPT ![i] = r]
  <2>1. slot \in [Slot -> SlotRecord]
    BY DEF IndInv, Control, TypeOK
  <2>. QED
    BY <1>0, <1>1, <1>3, <2>1 DEF OpenFailed
<1>6. Only(i) /\ slot'[i] = r /\ slot' \in [Slot -> SlotRecord]
  BY <1>3, <1>4, <1>5, SlotSteps DEF IndInv, Control
<1>7. /\ Popped /\ stack' \in [Context -> Seq(Call)] /\ held' = held
      /\ \A l \in 1 .. Depth - 1 : Calls'[l].got = Calls[l].got
  BY <1>1, <1>2, RefusedShape
<1>8. TypeOK'
  <2>1. slot[i].saved = <<run, Depth - 1>> /\ run \in Context /\ Depth - 1 \in Nat
    BY <1>0, <1>3 DEF IndInv, Control, Saved, Inner, TypeOK
  <2>2. regs' \in [Context -> Context \X Nat]
    BY <1>2, <2>1 DEF IndInv, Control, TypeOK
  <2>. QED
    BY <1>2, <1>6, <1>7, <2>2 DEF IndInv, Control, TypeOK
<1>9. Control'
  <2>1. \A j \in Slot : slot'[j].saved = slot[j].saved
    BY <1>4, <1>6 DEF Only
  <2>. QED
    BY <1>0, <1>2, <1>3, <1>7, <1>8, <2>1, PopControl
<1>10. \A j \in Slot : Live(j)' => Live(j)
  <2>1. \A j \in Slot : OnStack(j)' => OnStack(j)
    BY <1>7, PopLive
  <2>. QED
    BY <1>3, <1>6, <2>1 DEF Live, Reusable, Only
<1>11. SlotsOK' /\ Apart' /\ HeapOK' /\ Others(i)
  <2>1. SlotOK(i)'
    <3>1. CASE slot[i].state = "opening"
      <4>1. slot[i].opens = <<>> /\ Open(i)' = {} /\ ~slot[i].reclaim
        BY <1>3, <1>4, <1>6, <3>1 DEF SlotOK, Open, Reusable
      <4>2. /\ slot[i].name \in Lib /\ slot[i].start \in Address
            /\ mem[slot[i].start].what = "image" /\ mem[slot[i].start].lib = slot[i].name
        BY <1>3 DEF SlotOK
      <4>. QED
        BY <1>2, <1>4, <1>6, <3>1, <4>1, <4>2 DEF SlotOK
    <3>2. CASE slot[i].state # "opening"
      BY <1>2, <1>3, <1>4, <1>6, <3>2, TouchedKept
    <3>. QED
      BY <3>1, <3>2
  <2>2. Open(i)' \subseteq Open(i)
    BY <1>4, <1>6 DEF Open
  <2>. QED
    BY <1>2, <1>3, <1>6, <1>10, <2>1, <2>2, OneSlotPlaces
<1>12. CallsOK'
  BY <1>0, <1>1, <1>7, <1>11, PopCalls
<1>13. Tallied'
  <2>1. KeptBut(HolderSet, {})
    BY <1>2, <1>3, <1>7, PopKept
  <2>2. slot[i].state = "ready" => slot'[i].state = "ready" /\ slot'[i].opens = slot[i].opens
    BY <1>4, <1>6
  <2>. QED
    BY <1>2, <1>3, <1>6, <1>7, <1>8, <1>10, <2>1, <2>2, OneSlotTallied DEF Popped
<1>. QED
  BY <1>9, <1>11, <1>12, <1>13 DEF IndInv, Places

(* A run that stops for want of room changes nothing. *)
LEMMA OpenOverflowsKeeps ==
    ASSUME IndInv, NEW c \in Context, OpenOverflows(c)
    PROVE  IndInv'
  BY NothingKeeps DEF OpenOverflows

(* OPEN_DONE lists the base and hands it to the caller, who has its registers
   back: one reference more on both sides. *)
LEMMA OpenDoneKeeps ==
    ASSUME IndInv, NEW c \in Context, OpenDone(c)
    PROVE  IndInv'
<1>0. PICK i, b, s : i = Inner.slot /\ b = Inner.result /\ s = slot[i].start
  OBVIOUS
<1>1. At(c, "openDone") /\ Top(c) = Inner /\ c = run
  <2>1. At(c, "openDone")
    BY DEF OpenDone
  <2>. QED
    BY <2>1, TopFacts
<1>2. /\ b # None /\ (slot[i].state = "opening" => heap < HeapMax)
      /\ Answered(c, Below(c), b)
      /\ regs' = [regs EXCEPT ![run] = slot[i].saved] /\ UNCHANGED <<run, dead>>
  BY <1>0, <1>1 DEF OpenDone, Restored
<1>3. /\ i \in Slot /\ Live(i) /\ slot[i] \in SlotRecord /\ SlotOK(i) /\ run \notin dead
      /\ Depth \in 1 .. Len(Calls) /\ Depth \in Nat /\ Depth >= 1
      /\ \A l \in 1 .. Depth - 1 : Calls[l].at \in Waiting
      /\ Inner \in Call /\ Inner.at = "openDone" /\ CallOK(Inner)
  BY <1>0, <1>1, TopFacts, Types DEF IndInv, Control, Places, SlotsOK
<1>4. /\ slot[i].state \in {"opening", "ready"} /\ Base(b, s) /\ b \in Address /\ s \in Address
      /\ b # s => \A j \in Slot : b \notin Open(j)
      /\ mem[s].what = "image" /\ mem[s].lib = slot[i].name /\ Inner.got = <<>>
      /\ slot[i].opens \in Seq(Address)
  <2>1. /\ slot[i].state \in {"opening", "ready"} /\ Base(b, s) /\ Inner.got = <<>>
        /\ b # s => \A j \in Slot : b \notin Open(j)
    BY <1>0, <1>2, <1>3 DEF CallOK, Waiting, Open
  <2>2. b \in Address
    BY <1>0, <1>2, <1>3 DEF Call, Value
  <2>. QED
    BY <1>0, <1>3, <2>1, <2>2 DEF SlotOK, SlotRecord
<1>5. b < heap /\ s < heap /\ heap \in Int /\ heap >= 0 /\ heap <= HeapMax
  <2>1. mem[b].what # "free"
    BY <1>4 DEF Base
  <2>. QED
    BY <1>4, <2>1, BelowHeap, Types DEF IndInv, Control, Places
<1>6. \A j \in Slot : j # i => b \notin Open(j)
  BY <1>0, <1>3, <1>4, NotListed
<1>7. PICK g : g = Append(slot[i].opens, b)
  OBVIOUS
<1>8. g \in Seq(Address) /\ \A B : Occ(g, B) = Occ(slot[i].opens, B) + IF b \in B THEN 1 ELSE 0
  BY <1>4, <1>7, AppendProperties, OccAppend
<1>9. PICK r : r = IF slot[i].state = "opening"
                   THEN [slot[i] EXCEPT !.opens = g, !.state = "ready", !.close = heap]
                   ELSE [slot[i] EXCEPT !.opens = g]
  OBVIOUS
<1>10. slot[i].state = "opening" => heap \in Address
  BY <1>2, <1>5, Limits DEF Address
<1>11. /\ r \in SlotRecord /\ r.name = slot[i].name /\ r.start = s
       /\ r.saved = slot[i].saved /\ r.opens = g /\ r.reclaim = slot[i].reclaim
       /\ r.base = slot[i].base /\ r.state = "ready"
       /\ r.close = IF slot[i].state = "opening" THEN heap ELSE slot[i].close
  <2>1. CASE slot[i].state = "opening"
    BY <1>0, <1>3, <1>8, <1>9, <1>10, <2>1 DEF SlotRecord, Value
  <2>2. CASE slot[i].state = "ready"
    BY <1>0, <1>3, <1>8, <1>9, <2>2 DEF SlotRecord
  <2>. QED
    BY <1>4, <2>1, <2>2
<1>12. slot' = [slot EXCEPT ![i] = r]
  <2>1. slot \in [Slot -> SlotRecord]
    BY DEF IndInv, Control, TypeOK
  <2>2. CASE slot[i].state = "opening"
    BY <1>0, <1>1, <1>3, <1>7, <1>9, <2>1, <2>2 DEF OpenDone
  <2>3. CASE slot[i].state = "ready"
    BY <1>0, <1>1, <1>3, <1>7, <1>9, <2>1, <2>3 DEF OpenDone
  <2>. QED
    BY <1>4, <2>2, <2>3
<1>13. Only(i) /\ slot'[i] = r /\ slot' \in [Slot -> SlotRecord]
       /\ \A j \in Slot \ {i} : slot'[j] = slot[j]
  <2>1. Only(i) /\ slot'[i] = r /\ slot' \in [Slot -> SlotRecord]
    BY <1>0, <1>3, <1>11, <1>12, SlotSteps DEF IndInv, Control
  <2>. QED
    BY <2>1 DEF Only
<1>14. /\ mem' \in [Address -> Cell] /\ heap' \in 0 .. HeapMax /\ heap' \in Int /\ heap' >= heap
       /\ \A a \in Address : a < heap => mem'[a] = mem[a]
       /\ \A a \in Address : a >= heap' => mem'[a] = Free
       /\ \A a \in Address : mem'[a] = mem[a] \/ mem'[a] = Trampoline(i)
       /\ slot[i].state = "opening" => mem'[heap] = Trampoline(i)
       /\ slot[i].state = "ready" => mem' = mem
  <2>1. mem \in [Address -> Cell] /\ \A a \in Address : a >= heap => mem[a] = Free
    BY DEF IndInv, Control, TypeOK, Places, HeapOK
  <2>2. CASE slot[i].state = "opening"
    <3>1. mem' = [mem EXCEPT ![heap] = Trampoline(i)] /\ heap' = heap + 1
      BY <1>0, <1>1, <2>2 DEF OpenDone
    <3>2. heap + 1 \in 0 .. HeapMax /\ heap + 1 \in Int /\ heap + 1 >= heap
      BY <1>2, <1>5, <2>2, Limits
    <3>3. Trampoline(i) \in Cell /\ heap \in Address
      BY <1>3, <1>10, <2>2, Cells
    <3>4. /\ mem' \in [Address -> Cell] /\ mem'[heap] = Trampoline(i)
          /\ \A a \in Address : a # heap => mem'[a] = mem[a]
      BY <2>1, <3>1, <3>3
    <3>5. \A a \in Address : /\ a < heap => a # heap
                             /\ a >= heap + 1 => a >= heap /\ a # heap
      BY <1>5 DEF Address
    <3>. QED
      BY <2>1, <2>2, <3>1, <3>2, <3>4, <3>5
  <2>3. CASE slot[i].state = "ready"
    <3>1. mem' = mem /\ heap' = heap
      BY <1>0, <1>1, <2>3 DEF OpenDone
    <3>. QED
      BY <1>5, <2>1, <2>3, <3>1
  <2>. QED
    BY <1>4, <2>2, <2>3
<1>15. /\ Popped /\ stack' \in [Context -> Seq(Call)]
       /\ \/ Depth = 1 /\ held' = [held EXCEPT ![run] = Append(held[run], b)]
          \/ /\ Depth > 1 /\ held' = held
             /\ Calls'[Depth - 1].got = Append(Calls[Depth - 1].got, b)
             /\ Calls'[Depth - 1].at = Calls[Depth - 1].at
             /\ \A l \in 1 .. Depth - 2 : Calls'[l].got = Calls[l].got
  BY <1>1, <1>2, <1>4, AnswerShape
<1>16. TypeOK'
  <2>1. slot[i].saved = <<run, Depth - 1>> /\ run \in Context /\ Depth - 1 \in Nat
    BY <1>0, <1>3 DEF IndInv, Control, Saved, Inner, TypeOK
  <2>2. regs' \in [Context -> Context \X Nat]
    BY <1>2, <2>1 DEF IndInv, Control, TypeOK
  <2>3. held' \in [Context -> Seq(Address)]
    <3>1. held \in [Context -> Seq(Address)]
      BY DEF IndInv, Control, TypeOK
    <3>2. Append(held[run], b) \in Seq(Address)
      BY <1>4, <2>1, <3>1, AppendProperties
    <3>. QED
      BY <1>15, <3>1, <3>2
  <2>4. run' \in Context
    BY <1>2, <2>1
  <2>. QED
    BY <1>13, <1>14, <1>15, <2>2, <2>3, <2>4 DEF TypeOK
<1>17. Control'
  <2>1. \A j \in Slot : slot'[j].saved = slot[j].saved
    BY <1>11, <1>13
  <2>. QED
    BY <1>0, <1>2, <1>3, <1>15, <1>16, <2>1, PopControl
<1>18. \A j \in Slot : Live(j)' => Live(j)
  <2>1. \A j \in Slot : OnStack(j)' => OnStack(j)
    BY <1>15, PopLive
  <2>. QED
    BY <1>3, <1>13, <2>1 DEF Live, Reusable
<1>19. \A x \in Open(i)' : x = b \/ x \in Open(i)
  <2>. SUFFICES ASSUME NEW k \in DOMAIN g PROVE g[k] = b \/ g[k] \in Open(i)
    BY <1>11, <1>13 DEF Open
  <2>1. /\ DOMAIN g = 1 .. Len(slot[i].opens) + 1 /\ g[Len(slot[i].opens) + 1] = b
        /\ \A l \in 1 .. Len(slot[i].opens) : g[l] = slot[i].opens[l]
        /\ Len(slot[i].opens) \in Nat /\ DOMAIN slot[i].opens = 1 .. Len(slot[i].opens)
    <3>1. Len(g) = Len(slot[i].opens) + 1
      BY <1>4, <1>7, AppendProperties
    <3>2. DOMAIN g = 1 .. Len(g)
      BY <1>8, SeqFacts
    <3>. QED
      BY <1>4, <1>7, <3>1, <3>2, AppendProperties, SeqFacts
  <2>2. k = Len(slot[i].opens) + 1 \/ k \in 1 .. Len(slot[i].opens)
    BY <2>1
  <2>. QED
    BY <2>1, <2>2 DEF Open
<1>20. SlotsOK'
  <2>1. SlotOK(i)'
    <3>1. /\ r.base = s /\ r.close \in Address /\ mem'[r.close] = Trampoline(i) /\ r.name \in Lib
          /\ mem'[s].what = "image" /\ mem'[s].lib = r.name /\ (Reusable(i) \/ ~r.reclaim)
      BY <1>0, <1>3, <1>4, <1>5, <1>10, <1>11, <1>14 DEF SlotOK
    <3>2. ~Reusable(i)
      BY <1>4 DEF Reusable
    <3>3. ASSUME NEW x \in Open(i)'
          PROVE  /\ x < heap' /\ (x = s \/ (mem'[x].what = "clone" /\ mem'[x].of = s)
                                    \/ mem'[x].what = "free")
                 /\ x # s => Occ(g, {x}) <= 1
      <4>1. CASE x = b
        <5>1. mem'[b] = mem[b] /\ b < heap' /\ b \in Int
          BY <1>4, <1>5, <1>14 DEF Address
        <5>2. ASSUME b # s PROVE Occ(g, {b}) <= 1
          <6>1. \A k \in 1 .. Len(slot[i].opens) : slot[i].opens[k] \notin {b}
            BY <1>3, <1>4, <5>2, SeqFacts DEF Open
          <6>2. Occ(slot[i].opens, {b}) = 0
            BY <1>4, <6>1, OccFacts
          <6>. QED
            BY <1>8, <6>2
        <5>. QED
          BY <1>4, <4>1, <5>1, <5>2 DEF Base
      <4>2. CASE x \in Open(i) /\ x # b
        <5>1. /\ x < heap /\ (Base(x, s) \/ mem[x].what = "free")
              /\ x # s => Occ(slot[i].opens, {x}) <= 1
          BY <1>0, <1>3, <4>2 DEF SlotOK
        <5>2. x \in Address
          BY <1>4, <4>2, SeqFacts DEF Open
        <5>3. mem'[x] = mem[x] /\ x < heap' /\ Occ(slot[i].opens, {x}) \in Nat
          BY <1>4, <1>5, <1>14, <5>1, <5>2, OccFacts DEF Address
        <5>4. Occ(g, {x}) = Occ(slot[i].opens, {x})
          <6>1. Occ(g, {x}) = Occ(slot[i].opens, {x}) + 0
            BY <1>8, <4>2
          <6>. QED
            BY <5>3, <6>1
        <5>. QED
          BY <5>1, <5>3, <5>4 DEF Base
      <4>. QED
        BY <1>19, <4>1, <4>2
    <3>4. /\ slot'[i].state = "ready" /\ slot'[i].reclaim = r.reclaim /\ slot'[i].start = s
          /\ slot'[i].name = r.name /\ slot'[i].base = s /\ slot'[i].close = r.close
          /\ slot'[i].opens = g /\ ~r.reclaim
      BY <1>11, <1>13, <3>1, <3>2
    <3>5. \A x \in Open(i)' :
            /\ x < heap' /\ (Base(x, slot[i].start)' \/ mem'[x].what = "free")
            /\ x # slot'[i].start => Occ(slot'[i].opens, {x}) <= 1
      BY <3>3, <3>4 DEF Base
    <3>6. Live(i)' => slot'[i].name \in Lib /\ slot'[i].start \in Address
                      /\ mem'[slot'[i].start].what = "image"
                      /\ mem'[slot'[i].start].lib = slot'[i].name
      BY <1>4, <3>1, <3>4
    <3>7. slot'[i].close \in Address /\ mem'[slot'[i].close] = Trampoline(i)
      BY <3>1, <3>4
    <3>. QED
      BY <3>4, <3>5, <3>6, <3>7 DEF SlotOK, Base, Trampoline, Free
  <2>2. SteadyMem
    BY <1>14 DEF SteadyMem, Steady
  <2>3. ASSUME NEW j \in Slot, j # i PROVE SlotOK(j)'
    BY <1>13, <1>18, <2>2, <2>3, SteadyKept
  <2>. QED
    BY <2>1, <2>3 DEF SlotsOK
<1>21. Apart'
  <2>. SUFFICES ASSUME NEW j \in Slot, NEW m \in Slot, j # m
                PROVE  /\ Live(j)' /\ Live(m)' => slot'[j].name # slot'[m].name
                       /\ Open(j)' \cap Open(m)' = {}
    BY DEF Apart
  <2>1. /\ Live(j) /\ Live(m) => slot[j].name # slot[m].name
        /\ Open(j) \cap Open(m) = {}
    BY DEF IndInv, Places, Apart
  <2>2. \A x \in Slot : /\ slot'[x].name = slot[x].name
                        /\ x # i => Open(x)' = Open(x) /\ b \notin Open(x)
    BY <1>6, <1>11, <1>13 DEF Open
  <2>. QED
    BY <1>18, <1>19, <2>1, <2>2
<1>22. HeapOK'
  BY <1>14 DEF HeapOK, Free
<1>23. ASSUME NEW j \in Slot, Live(j)
       PROVE  /\ slot[j].start \in Address /\ mem[slot[j].start].what = "image"
              /\ mem[slot[j].start].count \in Int /\ mem'[slot[j].start] = mem[slot[j].start]
  <2>1. /\ slot[j].start \in Address /\ mem[slot[j].start].what = "image"
        /\ mem[slot[j].start].count \in Int
    BY <1>23, LiveFacts DEF IndInv, Control, Places
  <2>. QED
    BY <1>14, <2>1, BelowHeap DEF IndInv, Control, Places
<1>24. CallsOK'
  <2>1. Others(i)
    BY <1>13, <1>23 DEF Others
  <2>. QED
    BY <1>0, <1>1, <1>15, <2>1, PopCalls
<1>25. /\ RefHolders \in SUBSET HolderSet /\ CountHolders \in SUBSET HolderSet
       /\ HolderSet \in SUBSET HolderSet /\ OwnHolders \in SUBSET HolderSet
  BY DEF RefHolders, CountHolders, OwnHolders
<1>26. PICK p, q : /\ p = <<"counted", run, Depth>>
                   /\ q = IF Depth = 1 THEN <<"program", run, 0>> ELSE <<"call", run, Depth - 1>>
  OBVIOUS
<1>27. /\ p \in HolderSet /\ q \in HolderSet /\ p # q /\ Holding[p] = <<b>> /\ Holding'[p] = <<>>
       /\ Holding[q] \in Seq(Address) /\ Holding'[q] = Append(Holding[q], b)
  <2>1. /\ p \in HolderSet /\ Holding[p] = Carried("counted", Inner) /\ q \in HolderSet
        /\ Depth = 1 => Holding[q] = held[run]
        /\ Depth # 1 => Holding[q] = Calls[Depth - 1].got
    <3>1. HoldingValues /\ run \in Context
      BY HoldingEach DEF IndInv, Control, TypeOK
    <3>2. Depth # 1 => Depth - 1 \in Nat /\ Depth - 1 \in 1 .. Len(Calls)
      BY <1>3
    <3>. QED
      BY <1>3, <1>26, <3>1, <3>2 DEF HoldingValues, Carried, Inner
  <2>2. Carried("counted", Inner) = <<b>>
    BY <1>0, <1>2, <1>3 DEF Carried
  <2>3. Len(Calls') = Depth - 1 /\ Depth \notin 1 .. Depth - 1
    BY <1>3, <1>15 DEF Popped
  <2>4. Holding'[p] = <<>>
    BY <1>2, <1>3, <1>16, <1>26, <2>3, HoldingEachNext
  <2>5. CASE Depth = 1
    <3>1. held[run] \in Seq(Address) /\ held'[run] = Append(held[run], b) /\ run \in Context
      BY <1>15, <2>5 DEF IndInv, Control, TypeOK
    <3>2. Holding'[q] = held'[run]
      BY <1>2, <1>16, <1>26, <2>5, <3>1, HoldingEachNext
    <3>. QED
      BY <1>26, <2>1, <2>2, <2>4, <2>5, <3>1, <3>2
  <2>6. CASE Depth # 1
    <3>1. Depth - 1 \in Nat /\ Depth - 1 \in 1 .. Depth - 1 /\ Depth - 1 \in 1 .. Len(Calls)
      BY <1>3, <2>6
    <3>2. Calls[Depth - 1].got \in Seq(Address)
      BY <3>1, Types DEF IndInv, Control, Call
    <3>3. Holding'[q] = Calls'[Depth - 1].got
      BY <1>2, <1>16, <1>26, <2>3, <2>6, <3>1, HoldingEachNext DEF Carried
    <3>. QED
      BY <1>15, <1>26, <2>1, <2>2, <2>4, <2>6, <3>2, <3>3
  <2>. QED
    BY <2>5, <2>6
<1>28. ASSUME NEW X \in SUBSET HolderSet
       PROVE  Moves(Holding, Holding', HolderSet, Value, X, {p, q})
  <2>1. \A d \in Context : <<"program", d, 0>> \in {p, q} \/ held'[d] = held[d]
    BY <1>15, <1>26 DEF IndInv, Control, TypeOK
  <2>2. \A a \in Address : mem'[a].uses \in {mem[a].uses, <<>>}
    BY <1>3, <1>14, Cells
  <2>3. \A l \in 1 .. Depth - 1 : /\ Calls[l].at \in Waiting
                                  /\ <<"call", run, l>> \in {p, q} \/ Calls'[l].got = Calls[l].got
    <3>1. \A l \in 1 .. Depth - 1 : l = Depth - 1 \/ l \in 1 .. Depth - 2
      BY <1>3
    <3>2. Depth = 1 => \A l \in 1 .. Depth - 1 : FALSE
      OBVIOUS
    <3>. QED
      BY <1>3, <1>15, <1>26, <3>1, <3>2
  <2>4. KeptBut(X, {p, q})
    BY <1>15, <2>1, <2>2, <2>3, PopKept
  <2>5. {p, q} \in SUBSET HolderSet
    BY <1>27
  <2>. QED
    BY <1>15, <1>16, <2>4, <2>5, HoldingMoves DEF IndInv, Control, Tallied, Popped
<1>29. p \notin RefHolders /\ q \in RefHolders /\ p \in CountHolders /\ q \in CountHolders
       /\ p \notin OwnHolders /\ q \in OwnHolders
  BY <1>26, <1>27 DEF RefHolders, CountHolders, OwnHolders
<1>30. ASSUME NEW X \in SUBSET HolderSet, q \in X, NEW B
       PROVE  /\ Settled(Holding, X, B) /\ Settled(Holding', X, B)
              /\ p \in X => Tally(Holding', X, B) <= Tally(Holding, X, B)
              /\ Tally(Holding', X, B) <= Tally(Holding, X, B) + IF b \in B THEN 1 ELSE 0
  <2>1. /\ Settled(Holding, X, B) /\ Settled(Holding', X, B)
        /\ Share(Holding, X, p, B) \in Nat /\ Share(Holding', X, p, B) \in Nat
        /\ Share(Holding, X, q, B) \in Nat /\ Share(Holding', X, q, B) \in Nat
        /\ Tally(Holding', X, B) + Share(Holding, X, p, B) + Share(Holding, X, q, B)
             <= Tally(Holding, X, B) + Share(Holding', X, p, B) + Share(Holding', X, q, B)
    <3>1. Moves(Holding, Holding', HolderSet, Value, X, {p, q})
      BY <1>28
    <3>. QED
      BY <1>27, <3>1, TallyAtTwo
  <2>2. /\ Share(Holding', X, p, B) = 0
        /\ p \in X => Share(Holding, X, p, B) = IF b \in B THEN 1 ELSE 0
        /\ Share(Holding', X, q, B) = Share(Holding, X, q, B) + IF b \in B THEN 1 ELSE 0
    BY <1>4, <1>27, <1>30, OccEmpty, OccOne, OccAppend DEF Share
  <2>. QED
    BY <2>1, <2>2 DEF Settled
<1>31. Finite' /\ NoMore(CountHolders)
  <2>1. Settled(Holding', HolderSet, Value)
    BY <1>25, <1>27, <1>30
  <2>2. Finite'
    BY <2>1 DEF Settled, Finite, Spots
  <2>. QED
    BY <1>25, <1>29, <1>30, <2>2 DEF NoMore
<1>32. \A j \in Ready : j \in Ready' /\ slot'[j].start = slot[j].start
  BY <1>0, <1>11, <1>13 DEF Ready
<1>33. \A x : Owned(x) => Owned(x)'
  <2>. SUFFICES ASSUME NEW x, Owned(x) PROVE Owned(x)'
    OBVIOUS
  <2>1. x \in Address /\ x < heap /\ \E j \in Ready : j \in Slot /\ Base(x, slot[j].start)
    BY OwnedFacts
  <2>2. mem'[x] = mem[x]
    BY <1>14, <2>1
  <2>. QED
    BY <1>32, <2>1, <2>2 DEF Owned, Base
<1>34. Owned(b)' /\ i \in Ready'
  <2>1. i \in Ready' /\ slot'[i].start = s
    BY <1>3, <1>11, <1>13 DEF Ready
  <2>2. mem'[b] = mem[b]
    BY <1>4, <1>5, <1>14
  <2>. QED
    BY <1>4, <2>1, <2>2 DEF Owned, Base
<1>35. AllOwned'
  <2>. SUFFICES ASSUME NEW h \in OwnHolders, NEW k \in 1 .. Len(Holding'[h]), NEW x,
                       x = Holding'[h][k]
                PROVE  Owned(x)'
    BY DEF AllOwned, Owned
  <2>0. h \in HolderSet /\ Len(<<>>) = 0 /\ 1 .. 0 = {}
    BY <1>25
  <2>1. CASE h = q
    <3>1. /\ Len(Holding'[q]) = Len(Holding[q]) + 1 /\ Holding'[q][Len(Holding[q]) + 1] = b
          /\ \A l \in 1 .. Len(Holding[q]) : Holding'[q][l] = Holding[q][l]
          /\ Len(Holding[q]) \in Nat
      BY <1>4, <1>27, AppendProperties, SeqFacts
    <3>2. k = Len(Holding[q]) + 1 \/ k \in 1 .. Len(Holding[q])
      BY <2>1, <3>1
    <3>3. x = b \/ Owned(x)
      BY <1>29, <2>1, <3>1, <3>2 DEF IndInv, Tallied, AllOwned
    <3>. QED
      BY <1>33, <1>34, <3>3
  <2>2. CASE h # q
    <3>1. Moves(Holding, Holding', HolderSet, Value, HolderSet, {p, q})
      BY <1>25, <1>28
    <3>2. Holding'[h] = Holding[h] \/ Holding'[h] = <<>>
      BY <1>29, <2>0, <2>2, <3>1 DEF Moves
    <3>3. Owned(x)
      BY <2>0, <3>2 DEF IndInv, Tallied, AllOwned
    <3>. QED
      BY <1>33, <3>3
  <2>. QED
    BY <2>1, <2>2
<1>36. RefsListed'
  <2>. SUFFICES ASSUME NEW x \in Address, Refs(x)' > 0 PROVE Listed(x)'
    BY DEF RefsListed
  <2>1. /\ Refs(x) \in Nat /\ Refs(x)' \in Nat
        /\ Refs(x)' <= Refs(x) + IF b \in {x} THEN 1 ELSE 0
    <3>1. /\ Settled(Holding, RefHolders, {x}) /\ Settled(Holding', RefHolders, {x})
          /\ Tally(Holding', RefHolders, {x})
               <= Tally(Holding, RefHolders, {x}) + IF b \in {x} THEN 1 ELSE 0
      BY <1>25, <1>29, <1>30
    <3>2. Refs(x)' = Tally(Holding', RefHolders, {x}) /\ Refs(x) = Tally(Holding, RefHolders, {x})
      BY DEF Refs, Tally, Spots
    <3>. QED
      BY <3>1, <3>2 DEF Settled
  <2>2. \A j \in Slot : Occ(slot[j].opens, {x}) \in Nat
    BY OccType DEF IndInv, Control
  <2>3. Occ(slot[i].opens, {x}) \in Nat
    BY <1>3, <2>2
  <2>4. /\ x = b => Occ(slot'[i].opens, {x}) = Occ(slot[i].opens, {x}) + 1
        /\ x # b => Occ(slot'[i].opens, {x}) = Occ(slot[i].opens, {x})
    <3>1. slot'[i].opens = g
      BY <1>11, <1>13
    <3>2. Occ(g, {x}) = Occ(slot[i].opens, {x}) + IF b \in {x} THEN 1 ELSE 0
      BY <1>8
    <3>. QED
      BY <2>3, <3>1, <3>2
  <2>5. \A j \in Ready : j # i => Occ(slot'[j].opens, {x}) = Occ(slot[j].opens, {x})
    BY <1>13 DEF Ready
  <2>6. CASE x = b
    <3>1. Refs(x) <= Occ(slot[i].opens, {x})
      <4>1. CASE Refs(x) = 0
        BY <2>3, <4>1
      <4>2. CASE Refs(x) > 0
        <5>1. PICK j \in Ready : Occ(slot[j].opens, {x}) >= Refs(x)
          BY <4>2 DEF IndInv, Tallied, RefsListed, Listed
        <5>2. j \in Slot /\ slot[j].opens \in Seq(Address) /\ Occ(slot[j].opens, {x}) # 0
          BY <2>1, <2>2, <4>2, <5>1, Types DEF Ready, IndInv, Control, SlotRecord
        <5>3. \E k \in 1 .. Len(slot[j].opens) : slot[j].opens[k] \in {x}
          BY <5>2, OccFacts
        <5>4. b \in Open(j)
          BY <2>6, <5>2, <5>3, SeqFacts DEF Open
        <5>5. j = i
          BY <1>6, <5>2, <5>4
        <5>. QED
          BY <2>1, <2>3, <5>1, <5>5
      <4>. QED
        BY <2>1, <4>1, <4>2
    <3>2. Occ(slot'[i].opens, {x}) >= Refs(x)'
      BY <2>1, <2>6, <2>3, <2>4, <3>1
    <3>. QED
      BY <1>34, <3>2 DEF Listed
  <2>7. CASE x # b
    <3>1. Refs(x) > 0 /\ Refs(x)' <= Refs(x)
      BY <2>1, <2>7
    <3>2. PICK j \in Ready : Occ(slot[j].opens, {x}) >= Refs(x)
      BY <3>1 DEF IndInv, Tallied, RefsListed, Listed
    <3>3. j \in Slot /\ Occ(slot'[j].opens, {x}) = Occ(slot[j].opens, {x})
      BY <2>7, <2>4, <2>5, <3>2 DEF Ready
    <3>4. Occ(slot'[j].opens, {x}) >= Refs(x)'
      BY <2>1, <2>2, <3>1, <3>2, <3>3
    <3>. QED
      BY <1>32, <3>2, <3>4 DEF Listed
  <2>. QED
    BY <2>6, <2>7
<1>37. Counts'
  <2>1. ASSUME NEW j \in Slot, Live(j)' PROVE Carries(j)
    <3>1. Live(j) /\ slot'[j].start = slot[j].start
      BY <1>0, <1>11, <1>13, <1>18, <2>1
    <3>2. mem'[slot[j].start].count >= mem[slot[j].start].count
      BY <1>23, <3>1
    <3>3. Narrows(slot[j].start)
      BY <1>3, <1>14, Cells DEF Narrows
    <3>. QED
      BY <3>1, <3>2, <3>3 DEF Carries
  <2>. QED
    BY <1>16, <1>31, <2>1, CountsKept
<1>. QED
  BY <1>17, <1>20, <1>21, <1>22, <1>24, <1>31, <1>35, <1>36, <1>37 DEF IndInv, Places, Tallied

(* CloseLibrary finds the library of a base that is held, and calls its Close:
   the reference goes from the caller to the call, which the library counts. *)
LEMMA CloseLibraryKeeps ==
    ASSUME IndInv, NEW c \in Context, NEW b \in Address, CloseLibrary(c, b)
    PROVE  IndInv'
<1>1. PICK t : t = Closer(c)
  OBVIOUS
<1>2. /\ c = run /\ run \notin dead /\ stack[c] = Calls /\ Depth \in Nat /\ Depth = Len(Calls)
      /\ t \in Seq(Call) /\ Len(t) = Depth
      /\ \A l \in 1 .. Depth : /\ SameBut(t[l], Calls[l]) /\ Calls[l] \in Call
                               /\ Calls[l].at \in Waiting /\ CallOK(Calls[l])
                               /\ l # Depth => t[l].got = Calls[l].got
      /\ held' \in [Context -> Seq(Address)]
      /\ \A d \in Context : held'[d] = held[d] \/ (Depth = 0 /\ d = run)
      /\ IF Depth = 0 THEN Taken(held[run], held'[run], b)
         ELSE Taken(Calls[Depth].got, t[Depth].got, b)
  BY <1>1, DropsFacts DEF CloseLibrary
<1>3. PICK p, x, y : /\ p = Taker
                     /\ x = IF Depth = 0 THEN held[run] ELSE Calls[Depth].got
                     /\ y = IF Depth = 0 THEN held'[run] ELSE t[Depth].got
  OBVIOUS
<1>4. HoldingValues /\ run \in Context
  BY HoldingEach DEF IndInv, Control, TypeOK
<1>5. Taken(x, y, b)
  BY <1>2, <1>3
<1>6. p \in OwnHolders /\ Holding[p] = x
  <2>1. CASE Depth = 0
    BY <1>3, <1>4, <2>1 DEF HoldingValues, Taker, OwnHolders
  <2>2. CASE Depth # 0
    <3>1. Depth \in Nat /\ Depth \in 1 .. Len(Calls)
      BY <1>2, <2>2
    <3>. QED
      BY <1>3, <1>4, <2>2, <3>1 DEF HoldingValues, Taker, OwnHolders, Carried
  <2>. QED
    BY <2>1, <2>2
<1>7. PICK m \in 1 .. Len(Holding[p]) : Holding[p][m] = b
  BY <1>5, <1>6 DEF Taken
<1>8. OwnersOf(b) # {}
  BY <1>6, <1>7, OwnerFacts
<1>9. PICK i \in Slot : /\ i = Lowest(OwnersOf(b)) /\ slot[i].state = "ready" /\ Live(i)
                        /\ b \in Open(i) /\ Base(b, slot[i].start)
  BY <1>6, <1>7, OwnerFacts
<1>10. /\ slot[i] \in SlotRecord /\ SlotOK(i) /\ slot[i].name \in Lib /\ slot[i].start \in Address
  BY <1>9, Types DEF IndInv, Control, Places, SlotsOK, SlotOK
<1>11. PICK k, r : /\ k = [slot |-> i, lib |-> slot[i].name, image |-> slot[i].start, base |-> b,
                           got |-> <<>>, result |-> None, at |-> "close"]
                   /\ r = [slot[i] EXCEPT !.closing = b, !.saved = regs[run]]
  OBVIOUS
<1>12. /\ slot' = [slot EXCEPT ![i] = r] /\ Enter(c, t, k)
       /\ UNCHANGED <<mem, heap, run, dead>>
  <2>1. r = BeginClose(i, b, regs[c])
    BY <1>2, <1>11 DEF BeginClose
  <2>. QED
    BY <1>1, <1>8, <1>9, <1>11, <2>1 DEF CloseLibrary
<1>13. /\ k \in Call /\ k.slot = i /\ k.at = "close" /\ k.lib = slot[i].name
       /\ k.image = slot[i].start /\ k.base = b /\ k.got = <<>> /\ k.result = None
  <2>1. <<>> \in Seq(Address) /\ b \in Value /\ None \in Value
    BY DEF Value
  <2>. QED
    BY <1>10, <1>11, <2>1 DEF Call, Closing
<1>14. /\ r \in SlotRecord /\ r.saved = regs[run] /\ r.closing = b /\ r.name = slot[i].name
       /\ r.start = slot[i].start /\ r.state = slot[i].state /\ r.opens = slot[i].opens
       /\ r.base = slot[i].base /\ r.close = slot[i].close /\ r.reclaim = slot[i].reclaim
  <2>1. regs[run] \in Context \X Nat /\ b \in Value
    BY <1>4 DEF IndInv, Control, TypeOK, Value
  <2>. QED
    BY <1>10, <1>11, <2>1 DEF SlotRecord
<1>15. /\ Pushed(k) /\ stack' \in [Context -> Seq(Call)]
       /\ \A l \in 1 .. Depth : Calls'[l] = t[l]
       /\ regs' = [regs EXCEPT ![run] = <<run, Depth + 1>>]
       /\ regs' \in [Context -> Context \X Nat]
  BY <1>2, <1>12, <1>13, EnterShape
<1>16. /\ Only(i) /\ slot'[i] = r /\ slot' \in [Slot -> SlotRecord]
       /\ \A j \in Slot \ {i} : slot'[j] = slot[j]
  <2>1. Only(i) /\ slot'[i] = r /\ slot' \in [Slot -> SlotRecord]
    BY <1>12, <1>14, SlotSteps DEF IndInv, Control
  <2>. QED
    BY <2>1 DEF Only
<1>17. TypeOK'
  BY <1>2, <1>12, <1>15, <1>16 DEF IndInv, Control, TypeOK
<1>18. \A l \in 1 .. Depth : Calls[l].slot # i
  <2>. SUFFICES ASSUME NEW l \in 1 .. Depth, Calls[l].slot = i PROVE FALSE
    OBVIOUS
  <2>1. Calls[l].at \in Waiting /\ CallOK(Calls[l])
    BY <1>2
  <2>2. Calls[l].at = "expunge" /\ Calls[l].image = slot[i].start
    BY <1>9, <2>1 DEF CallOK, Waiting
  <2>3. mem[slot[i].start].count = 0
    BY <2>1, <2>2 DEF CallOK
  <2>4. p \in CountHolders /\ b \in Bases(slot[i].start)
    BY <1>6, <1>9 DEF OwnHolders, CountHolders, Bases
  <2>. QED
    BY <1>7, <1>9, <2>3, <2>4, NoneHeld
<1>19. Control'
  BY <1>2, <1>12, <1>13, <1>14, <1>15, <1>16, <1>17, <1>18, PushControl DEF Opening
<1>20. \A j \in Slot : OnStack(j)' <=> OnStack(j) \/ j = i
  BY <1>13, <1>15, PushLive
<1>21. \A j \in Slot : Live(j)' => Live(j)
  BY <1>9, <1>14, <1>16, <1>20 DEF Live, Reusable
<1>22. SlotsOK' /\ Apart' /\ HeapOK' /\ Others(i)
  <2>1. SlotOK(i)'
    BY <1>9, <1>10, <1>12, <1>14, <1>16, TouchedKept
  <2>2. Open(i)' \subseteq Open(i)
    BY <1>14, <1>16 DEF Open
  <2>. QED
    BY <1>12, <1>16, <1>21, <2>1, <2>2, OneSlotPlaces
<1>23. CallsOK'
  <2>1. CallOK(k)'
    <3>1. b \in Open(i)' /\ Base(b, slot[i].start)'
      BY <1>9, <1>12, <1>14, <1>16 DEF Open, Base
    <3>. QED
      BY <1>9, <1>13, <1>14, <1>16, <3>1 DEF CallOK, Waiting, Opening, Closing, Open, Base
  <2>. QED
    BY <1>2, <1>13, <1>15, <1>18, <1>22, <2>1, PushCalls
<1>24. /\ RefHolders \in SUBSET HolderSet /\ CountHolders \in SUBSET HolderSet
       /\ HolderSet \in SUBSET HolderSet /\ OwnHolders \in SUBSET HolderSet
  BY DEF RefHolders, CountHolders, OwnHolders
<1>25. PICK q, u : q = <<"flight", run, Depth + 1>> /\ u = <<"counted", run, Depth + 1>>
  OBVIOUS
<1>26. /\ p \in HolderSet /\ q \in HolderSet /\ u \in HolderSet /\ p # q /\ p # u /\ q # u
       /\ Holding[q] = <<>> /\ Holding[u] = <<>>
       /\ p \in RefHolders /\ p \in CountHolders
       /\ q \in RefHolders /\ q \notin CountHolders /\ q \notin OwnHolders
       /\ u \notin RefHolders /\ u \in CountHolders /\ u \notin OwnHolders
  <2>1. p[1] \in {"program", "call"} /\ p \in HolderSet
    BY <1>3, <1>6, <1>24 DEF Taker
  <2>2. Depth + 1 \in Nat /\ Depth + 1 \notin 1 .. Len(Calls)
    BY <1>2
  <2>3. /\ q \in HolderSet /\ u \in HolderSet /\ Holding[q] = <<>> /\ Holding[u] = <<>>
    BY <1>4, <1>25, <2>2 DEF HoldingValues
  <2>4. q[1] = "flight" /\ u[1] = "counted"
    BY <1>25
  <2>. QED
    BY <2>1, <2>3, <2>4 DEF RefHolders, CountHolders, OwnHolders
<1>27. Holding'[p] = y /\ Holding'[q] = <<b>> /\ Holding'[u] = <<b>>
  <2>1. run' = run /\ Len(Calls') = Depth + 1 /\ Calls'[Depth + 1] = k
    BY <1>12, <1>15 DEF Pushed
  <2>2. Depth + 1 \in Nat /\ Depth + 1 \in 1 .. Depth + 1 /\ Depth \in 1 .. Depth + 1 <=> Depth # 0
    BY <1>2
  <2>3. Carried("flight", k) = <<b>> /\ Carried("counted", k) = <<b>>
    BY <1>13 DEF Carried
  <2>4. Holding'[q] = <<b>> /\ Holding'[u] = <<b>>
    BY <1>17, <1>25, <2>1, <2>2, <2>3, HoldingEachNext
  <2>5. CASE Depth = 0
    BY <1>3, <1>4, <1>17, <2>1, <2>4, <2>5, HoldingEachNext DEF Taker
  <2>6. CASE Depth # 0
    <3>1. Depth \in 1 .. Depth /\ Calls'[Depth] = t[Depth]
      BY <1>2, <1>15, <2>6
    <3>2. Holding'[<<"call", run, Depth>>] = Carried("call", t[Depth])
      BY <1>2, <1>17, <2>1, <2>2, <2>6, <3>1, HoldingEachNext
    <3>. QED
      BY <1>3, <2>4, <2>6, <3>2 DEF Taker, Carried
  <2>. QED
    BY <2>5, <2>6
<1>28. ASSUME NEW X \in SUBSET HolderSet
       PROVE  Moves(Holding, Holding', HolderSet, Value, X, {p, q, u})
  <2>1. \A d \in Context : <<"program", d, 0>> \in {p, q, u} \/ held'[d] = held[d]
    BY <1>2, <1>3 DEF Taker
  <2>2. \A a \in Address : <<"library", a, 0>> \in {p, q, u} \/ mem'[a].uses \in {mem[a].uses, <<>>}
    BY <1>12
  <2>3. \A kind \in {"call", "flight", "counted"} :
          \/ <<kind, run, Depth + 1>> \notin X \/ <<kind, run, Depth + 1>> \in {p, q, u}
          \/ Carried(kind, k) = <<>>
    BY <1>13, <1>25 DEF Carried
  <2>4. \A l \in 1 .. Depth : <<"call", run, l>> \in {p, q, u} \/ Calls'[l].got = Calls[l].got
    <3>1. Depth = 0 => \A l \in 1 .. Depth : FALSE
      OBVIOUS
    <3>. QED
      BY <1>2, <1>3, <1>15, <3>1 DEF Taker
  <2>5. KeptBut(X, {p, q, u})
    BY <1>13, <1>15, <2>1, <2>2, <2>3, <2>4, PushKept
  <2>6. {p, q, u} \in SUBSET HolderSet
    BY <1>26
  <2>. QED
    BY <1>15, <1>17, <2>5, <2>6, HoldingMoves DEF IndInv, Control, Tallied, Pushed
<1>29. ASSUME NEW X \in SUBSET HolderSet, p \in X, NEW B
       PROVE  /\ Settled(Holding, X, B) /\ Settled(Holding', X, B)
              /\ q \notin X \/ u \notin X => Tally(Holding', X, B) <= Tally(Holding, X, B)
  <2>1. /\ Settled(Holding, X, B) /\ Settled(Holding', X, B)
        /\ Share(Holding, X, p, B) \in Nat /\ Share(Holding', X, p, B) \in Nat
        /\ Share(Holding, X, q, B) \in Nat /\ Share(Holding', X, q, B) \in Nat
        /\ Share(Holding, X, u, B) \in Nat /\ Share(Holding', X, u, B) \in Nat
        /\ Tally(Holding', X, B) + Share(Holding, X, p, B) + Share(Holding, X, q, B)
             + Share(Holding, X, u, B)
           <= Tally(Holding, X, B) + Share(Holding', X, p, B) + Share(Holding', X, q, B)
             + Share(Holding', X, u, B)
    <3>1. Moves(Holding, Holding', HolderSet, Value, X, {p, q, u})
      BY <1>28
    <3>. QED
      BY <1>26, <3>1, TallyAtThree
  <2>2. Share(Holding, X, q, B) = 0 /\ Share(Holding, X, u, B) = 0
    BY <1>26, OccEmpty DEF Share
  <2>3. /\ Share(Holding', X, q, B) = IF q \in X /\ b \in B THEN 1 ELSE 0
        /\ Share(Holding', X, u, B) = IF u \in X /\ b \in B THEN 1 ELSE 0
    BY <1>27, OccOne DEF Share
  <2>4. Share(Holding, X, p, B) = Share(Holding', X, p, B) + IF b \in B THEN 1 ELSE 0
    BY <1>5, <1>6, <1>27, <1>29 DEF Share, Taken
  <2>. QED
    BY <2>1, <2>2, <2>3, <2>4 DEF Settled
<1>30. Finite' /\ NoMore(RefHolders) /\ NoMore(CountHolders)
  <2>1. Settled(Holding', HolderSet, Value)
    BY <1>24, <1>26, <1>29
  <2>2. Finite'
    BY <2>1 DEF Settled, Finite, Spots
  <2>. QED
    BY <1>24, <1>26, <1>29, <2>2 DEF NoMore
<1>31. Drawn
  <2>. SUFFICES ASSUME NEW h \in OwnHolders, NEW l \in 1 .. Len(Holding'[h])
                PROVE  \E g \in OwnHolders : \E j \in 1 .. Len(Holding[g]) :
                         Holding'[h][l] = Holding[g][j]
    BY DEF Drawn
  <2>1. CASE h = p
    BY <1>5, <1>6, <1>27, <2>1 DEF Taken
  <2>2. CASE h # p
    <3>1. h \in HolderSet /\ h \notin {p, q, u}
      BY <1>24, <1>26, <2>2
    <3>2. Moves(Holding, Holding', HolderSet, Value, HolderSet, {p, q, u})
      BY <1>24, <1>28
    <3>3. Holding'[h] = Holding[h] \/ Holding'[h] = <<>>
      BY <3>1, <3>2 DEF Moves
    <3>. QED
      BY <3>3
  <2>. QED
    BY <2>1, <2>2
<1>32. \A j \in Slot : /\ slot'[j].state = slot[j].state /\ slot'[j].opens = slot[j].opens
                       /\ slot'[j].start = slot[j].start
  BY <1>14, <1>16
<1>33. Tallied'
  <2>1. \A a : Owned(a) => Owned(a)'
    BY <1>12, <1>32 DEF Owned, Ready, Base
  <2>2. \A j \in Ready : j \in Ready' /\ slot'[j].opens = slot[j].opens
    BY <1>32 DEF Ready
  <2>3. \A j \in Slot : Live(j)' => Carries(j)
    <3>. SUFFICES ASSUME NEW j \in Slot, Live(j)' PROVE Carries(j)
      OBVIOUS
    <3>1. Live(j)
      BY <1>21
    <3>2. mem[slot[j].start].count \in Int
      BY <3>1, LiveFacts DEF IndInv, Control, Places
    <3>. QED
      BY <1>12, <1>32, <3>1, <3>2 DEF Carries, Narrows
  <2>. QED
    BY <1>17, <1>30, <1>31, <2>1, <2>2, <2>3, TalliedKept
<1>. QED
  BY <1>19, <1>22, <1>23, <1>33 DEF IndInv, Places

(* Close stays, or goes on to expunge. *)
LEMMA CloseCodeKeeps ==
    ASSUME IndInv, NEW c \in Context, CloseCode(c)
    PROVE  IndInv'
<1>0. PICK a, b, i : a = Inner.image /\ b = Inner.base /\ i = Inner.slot
  OBVIOUS
<1>1. At(c, "close") /\ Top(c) = Inner
  <2>1. At(c, "close")
    BY DEF CloseCode
  <2>. QED
    BY <2>1, TopFacts
<1>2. /\ Inner \in Call /\ CallOK(Inner) /\ Inner.at = "close" /\ a \in Address /\ i \in Slot
      /\ Inner.got = <<>> /\ Inner.result = None /\ Base(b, a) /\ b \in Open(i)
  <2>1. /\ Inner \in Call /\ CallOK(Inner) /\ Inner.at = "close" /\ a \in Address /\ i \in Slot
    BY <1>0, <1>1, TopFacts
  <2>. QED
    BY <1>0, <2>1 DEF CallOK, Waiting, Closing
<1>3. b \in Address
  <2>1. slot[i].opens \in Seq(Address)
    BY <1>2, Types DEF IndInv, Control, SlotRecord
  <2>. QED
    BY <1>2, <2>1, SeqFacts DEF Open
<1>4. /\ mem \in [Address -> Cell] /\ mem[a] \in Cell /\ mem[a].count \in Int
      /\ mem[a].uses \in Seq(Address) /\ Free \in Cell /\ <<>> \in Seq(Address)
  <2>1. mem \in [Address -> Cell]
    BY DEF IndInv, Control, TypeOK
  <2>. QED
    BY <1>2, <2>1, Cells DEF Cell
<1>5. PICK f : f = IF b = a THEN mem ELSE [mem EXCEPT ![b] = Free]
  OBVIOUS
<1>6. /\ f \in [Address -> Cell] /\ f[a] = mem[a] /\ (b # a => f[b] = Free)
      /\ \A x \in Address : x # b => f[x] = mem[x]
  BY <1>2, <1>3, <1>4, <1>5
<1>7. \/ /\ mem' = [f EXCEPT ![a].count = mem[a].count - 1]
         /\ Goes(c, [Inner EXCEPT !.at = "closeDone"])
      \/ /\ mem[a].count - 1 = 0 /\ mem' = [f EXCEPT ![a].count = 0, ![a].uses = <<>>]
         /\ Goes(c, [Inner EXCEPT !.at = "expunge", !.got = mem[a].uses])
  BY <1>0, <1>1, <1>5 DEF CloseCode
<1>8. UNCHANGED <<slot, heap, regs, held, run, dead>>
  BY DEF CloseCode
<1>9. CASE /\ mem' = [f EXCEPT ![a].count = mem[a].count - 1]
           /\ Goes(c, [Inner EXCEPT !.at = "closeDone"])
  <2>1. PICK k, m : /\ k = [Inner EXCEPT !.at = "closeDone"]
                    /\ m = [mem[a] EXCEPT !.count = mem[a].count - 1]
    OBVIOUS
  <2>2. /\ k \in Call /\ k.slot = Inner.slot /\ k.lib = Inner.lib /\ k.image = a /\ k.base = b
        /\ k.result = None /\ k.at = "closeDone" /\ k.got = <<>>
    BY <1>0, <1>2, <2>1 DEF Call, Closing
  <2>3. /\ m \in Cell /\ m.count = mem[a].count - 1 /\ m.what = mem[a].what
        /\ m.lib = mem[a].lib /\ m.of = mem[a].of /\ m.uses = mem[a].uses
    <3>1. mem[a].count - 1 \in Int
      BY <1>4
    <3>2. mem[a] \in Cell /\ m = [mem[a] EXCEPT !.count = mem[a].count - 1]
      BY <1>4, <2>1
    <3>. QED
      BY <3>1, <3>2 DEF Cell
  <2>4. mem' = [f EXCEPT ![a] = m]
    BY <1>2, <1>6, <1>9, <2>1
  <2>5. mem' \in [Address -> Cell] /\ mem'[a] = m /\ \A x \in Address : x # a => mem'[x] = f[x]
    BY <1>2, <1>6, <2>3, <2>4
  <2>6. Closes(c, k, a, b)
    BY <1>0, <1>1, <1>3, <1>6, <1>8, <1>9, <2>1, <2>2, <2>3, <2>5 DEF Closes
  <2>. QED
    BY <2>6, ClosesKeeps
<1>10. CASE /\ mem[a].count - 1 = 0 /\ mem' = [f EXCEPT ![a].count = 0, ![a].uses = <<>>]
            /\ Goes(c, [Inner EXCEPT !.at = "expunge", !.got = mem[a].uses])
  <2>1. PICK k, m : /\ k = [Inner EXCEPT !.at = "expunge", !.got = mem[a].uses]
                    /\ m = [mem[a] EXCEPT !.count = 0, !.uses = <<>>]
    OBVIOUS
  <2>2. /\ k \in Call /\ k.slot = Inner.slot /\ k.lib = Inner.lib /\ k.image = a /\ k.base = b
        /\ k.result = None /\ k.at = "expunge" /\ k.got = mem[a].uses
    BY <1>0, <1>2, <1>4, <2>1 DEF Call, Closing
  <2>3. /\ m \in Cell /\ m.count = 0 /\ m.count = mem[a].count - 1 /\ m.what = mem[a].what
        /\ m.lib = mem[a].lib /\ m.of = mem[a].of /\ m.uses = <<>>
    <3>1. 0 \in Int
      OBVIOUS
    <3>2. m \in Cell /\ m.count = 0 /\ m.what = mem[a].what /\ m.uses = <<>>
      BY <1>4, <2>1, <3>1 DEF Cell
    <3>3. m.lib = mem[a].lib /\ m.of = mem[a].of
      BY <1>4, <2>1 DEF Cell
    <3>4. mem[a].count - 1 = 0
      BY <1>10
    <3>. QED
      BY <3>2, <3>3, <3>4
  <2>4. mem' = [f EXCEPT ![a] = m]
    BY <1>2, <1>6, <1>10, <2>1
  <2>5. mem' \in [Address -> Cell] /\ mem'[a] = m /\ \A x \in Address : x # a => mem'[x] = f[x]
    BY <1>2, <1>6, <2>3, <2>4
  <2>6. Closes(c, k, a, b)
    BY <1>0, <1>1, <1>3, <1>6, <1>8, <1>10, <2>1, <2>2, <2>3, <2>5 DEF Closes
  <2>. QED
    BY <2>6, ClosesKeeps
<1>. QED
  BY <1>7, <1>9, <1>10

(* CloseDone takes one reference off the library's list, or all of them when the
   library is gone: nobody holds a base of it any more. *)
LEMMA CloseDoneKeeps ==
    ASSUME IndInv, NEW c \in Context, CloseDone(c)
    PROVE  IndInv'
<1>0. PICK i, a, b : i = Inner.slot /\ a = Inner.image /\ b = Inner.base
  OBVIOUS
<1>1. At(c, "closeDone") /\ Top(c) = Inner
  <2>1. At(c, "closeDone")
    BY DEF CloseDone
  <2>. QED
    BY <2>1, TopFacts
<1>2. /\ Inner \in Call /\ CallOK(Inner) /\ Inner.at = "closeDone" /\ a \in Address /\ i \in Slot
      /\ Live(i) /\ slot[i] \in SlotRecord /\ SlotOK(i)
      /\ Depth \in 1 .. Len(Calls) /\ Depth \in Nat
  BY <1>0, <1>1, TopFacts, Types DEF IndInv, Control, Places, SlotsOK
<1>3. /\ Inner.got = <<>> /\ Inner.lib = slot[i].name /\ a = slot[i].start
      /\ slot[i].state = "ready" /\ b \in Open(i) /\ slot[i].closing = b
      /\ Inner.result # None => mem[a].count = 0
  BY <1>0, <1>2 DEF CallOK, Waiting, Closing
<1>4. slot[i].opens \in Seq(Address) /\ b \in Address
  <2>1. slot[i].opens \in Seq(Address)
    BY <1>2 DEF SlotRecord
  <2>. QED
    BY <1>3, <2>1, SeqFacts DEF Open
<1>5. PICK o : o = DropOne(slot[i].opens, b)
  OBVIOUS
<1>6. Taken(slot[i].opens, o, b)
  BY <1>3, <1>4, <1>5, DropTaken DEF Open
<1>7. PICK k, r : /\ k = [Inner EXCEPT !.at = "reclaim"]
                  /\ r = IF Inner.result = None
                         THEN [slot[i] EXCEPT !.closing = None, !.opens = o]
                         ELSE [slot[i] EXCEPT !.closing = None, !.opens = <<>>, !.base = None,
                                              !.state = "unloaded", !.reclaim = TRUE]
  OBVIOUS
<1>8. slot' = [slot EXCEPT ![i] = r] /\ Goes(c, k) /\ UNCHANGED <<mem, heap, regs, held, run, dead>>
  <2>1. slot \in [Slot -> SlotRecord]
    BY DEF IndInv, Control, TypeOK
  <2>2. Goes(c, k) /\ UNCHANGED <<mem, heap, regs, held, run, dead>>
    BY <1>1, <1>7 DEF CloseDone
  <2>3. CASE Inner.result = None
    <3>1. slot' = [slot EXCEPT ![i].closing = None, ![i].opens = o]
      BY <1>0, <1>1, <1>3, <1>5, <2>3 DEF CloseDone
    <3>. QED
      BY <1>2, <1>7, <2>1, <2>2, <2>3, <3>1
  <2>4. CASE Inner.result # None
    <3>1. slot' = [slot EXCEPT ![i] = [@ EXCEPT !.closing = None, !.opens = <<>>, !.base = None,
                                                !.state = "unloaded", !.reclaim = TRUE]]
      BY <1>0, <1>1, <2>4 DEF CloseDone
    <3>. QED
      BY <1>2, <1>7, <2>1, <2>2, <2>4, <3>1
  <2>. QED
    BY <2>3, <2>4
<1>9. /\ k \in Call /\ k.slot = i /\ k.at = "reclaim" /\ k.lib = slot[i].name /\ k.image = a
      /\ k.base = b /\ k.got = <<>> /\ k.result = Inner.result
  BY <1>0, <1>2, <1>3, <1>7 DEF Call, Closing
<1>10. /\ r \in SlotRecord /\ r.name = slot[i].name /\ r.start = a /\ r.saved = slot[i].saved
       /\ r.close = slot[i].close
       /\ Inner.result = None => /\ r.state = "ready" /\ r.base = slot[i].base
                                 /\ r.reclaim = slot[i].reclaim /\ r.opens = o
       /\ Inner.result # None => r.state = "unloaded" /\ r.reclaim = TRUE /\ r.opens = <<>>
  <2>1. <<>> \in Seq(Address) /\ o \in Seq(Address) /\ None \in Value
    BY <1>6 DEF Taken, Value
  <2>2. CASE Inner.result = None
    <3>1. r = [slot[i] EXCEPT !.closing = None, !.opens = o]
      BY <1>7, <2>2
    <3>. QED
      BY <1>2, <1>3, <2>1, <2>2, <3>1 DEF SlotRecord
  <2>3. CASE Inner.result # None
    <3>1. r = [slot[i] EXCEPT !.closing = None, !.opens = <<>>, !.base = None,
                              !.state = "unloaded", !.reclaim = TRUE]
      BY <1>7, <2>3
    <3>. QED
      BY <1>2, <1>3, <2>1, <2>3, <3>1 DEF SlotRecord
  <2>. QED
    BY <2>2, <2>3
<1>11. Replaced(k) /\ stack' \in [Context -> Seq(Call)]
  BY <1>1, <1>8, <1>9, GoesShape
<1>12. /\ Only(i) /\ slot'[i] = r /\ slot' \in [Slot -> SlotRecord]
       /\ \A j \in Slot \ {i} : slot'[j] = slot[j]
  <2>1. Only(i) /\ slot'[i] = r /\ slot' \in [Slot -> SlotRecord]
    BY <1>2, <1>3, <1>8, <1>10, SlotSteps DEF IndInv, Control
  <2>. QED
    BY <2>1 DEF Only
<1>13. TypeOK'
  BY <1>8, <1>11, <1>12 DEF IndInv, Control, TypeOK
<1>14. Control'
  <2>1. \A j \in Slot : slot'[j].saved = slot[j].saved
    BY <1>10, <1>12
  <2>. QED
    BY <1>0, <1>1, <1>8, <1>9, <1>11, <1>13, <2>1, ReplaceControl DEF Opening
<1>15. \A j \in Slot : OnStack(j)' <=> OnStack(j)
  BY <1>0, <1>1, <1>9, <1>11, ReplaceLive
<1>16. \A j \in Slot : Live(j)' => Live(j)
  <2>1. ASSUME NEW j \in Slot, Live(j)' PROVE Live(j)
    <3>1. CASE j = i
      BY <1>2, <3>1
    <3>2. CASE j # i
      BY <1>12, <1>15, <2>1, <3>2 DEF Live, Reusable
    <3>. QED
      BY <3>1, <3>2
  <2>. QED
    BY <2>1
<1>17. /\ slot[i].base = a /\ slot[i].close \in Address /\ mem[slot[i].close] = Trampoline(i)
       /\ slot[i].name \in Lib /\ mem[a].what = "image" /\ mem[a].lib = slot[i].name
  BY <1>2, <1>3 DEF SlotOK
<1>18. /\ \A x \in Open(i)' : x \in Open(i)
       /\ \A x : Occ(slot'[i].opens, {x}) \in Nat /\ Occ(slot[i].opens, {x}) \in Nat
                 /\ Occ(slot'[i].opens, {x}) <= Occ(slot[i].opens, {x})
       /\ Inner.result = None => \A x : Occ(slot[i].opens, {x}) =
                                          Occ(slot'[i].opens, {x}) + IF b \in {x} THEN 1 ELSE 0
  <2>0. \A x : Occ(slot[i].opens, {x}) \in Nat /\ Occ(o, {x}) \in Nat
    BY <1>4, <1>6, OccFacts DEF Taken
  <2>1. CASE Inner.result = None
    <3>1. slot'[i].opens = o
      BY <1>10, <1>12, <2>1
    <3>2. \A x \in Open(i)' : x \in Open(i)
      <4>1. DOMAIN o = 1 .. Len(o) /\ DOMAIN slot[i].opens = 1 .. Len(slot[i].opens)
        BY <1>4, <1>6, SeqFacts DEF Taken
      <4>. QED
        BY <1>6, <3>1, <4>1 DEF Open, Taken
    <3>3. \A x : Occ(slot[i].opens, {x}) = Occ(o, {x}) + IF b \in {x} THEN 1 ELSE 0
      BY <1>6 DEF Taken
    <3>4. \A x : Occ(o, {x}) <= Occ(slot[i].opens, {x})
      <4>. TAKE x
      <4>1. /\ Occ(slot[i].opens, {x}) = Occ(o, {x}) + IF b \in {x} THEN 1 ELSE 0
            /\ Occ(o, {x}) \in Nat
        BY <2>0, <3>3
      <4>. QED
        BY <4>1
    <3>. QED
      BY <2>0, <3>1, <3>2, <3>3, <3>4, Zenon
  <2>2. CASE Inner.result # None
    <3>1. slot'[i].opens = <<>>
      BY <1>10, <1>12, <2>2
    <3>2. \A x : Occ(slot'[i].opens, {x}) = 0
      BY <3>1, OccEmpty
    <3>3. \A x \in Open(i)' : FALSE
      BY <3>1 DEF Open
    <3>4. \A x : /\ Occ(slot'[i].opens, {x}) <= Occ(slot[i].opens, {x})
                 /\ Occ(slot'[i].opens, {x}) \in Nat
      <4>. TAKE x
      <4>1. Occ(slot'[i].opens, {x}) = 0 /\ Occ(slot[i].opens, {x}) \in Nat
        BY <2>0, <3>2
      <4>. QED
        BY <4>1
    <3>. QED
      BY <2>0, <2>2, <3>3, <3>4, Zenon
  <2>. QED
    BY <2>1, <2>2
<1>19. SlotOK(i)'
  <2>1. /\ slot'[i].state = "ready" \/ slot'[i].opens = <<>>
        /\ slot'[i].state \in {"empty", "unloaded"} \/ ~slot'[i].reclaim
        /\ slot'[i].state \in {"opening", "ready"} => slot'[i].base = slot'[i].start
    <3>1. ~slot[i].reclaim
      BY <1>2, <1>3 DEF SlotOK, Reusable
    <3>. QED
      BY <1>10, <1>12, <1>17, <3>1
  <2>2. /\ slot'[i].name \in Lib /\ slot'[i].start \in Address
        /\ mem'[slot'[i].start].what = "image" /\ mem'[slot'[i].start].lib = slot'[i].name
        /\ slot'[i].close \in Address /\ mem'[slot'[i].close] = Trampoline(i)
    BY <1>2, <1>8, <1>10, <1>12, <1>17
  <2>3. \A x \in Open(i)' :
          /\ x < heap'
          /\ \/ x = slot'[i].start
             \/ mem'[x].what = "clone" /\ mem'[x].of = slot'[i].start
             \/ mem'[x].what = "free"
          /\ x # slot'[i].start => Occ(slot'[i].opens, {x}) <= 1
    <3>. SUFFICES ASSUME NEW x \in Open(i)'
                  PROVE  /\ x < heap
                         /\ x = a \/ (mem[x].what = "clone" /\ mem[x].of = a) \/ mem[x].what = "free"
                         /\ x # a => Occ(slot'[i].opens, {x}) <= 1
      BY <1>8, <1>10, <1>12
    <3>1. /\ x < heap
          /\ x = a \/ (mem[x].what = "clone" /\ mem[x].of = a) \/ mem[x].what = "free"
          /\ x # a => Occ(slot[i].opens, {x}) <= 1
      BY <1>2, <1>3, <1>18 DEF SlotOK, Base
    <3>2. /\ Occ(slot'[i].opens, {x}) \in Nat /\ Occ(slot[i].opens, {x}) \in Nat
          /\ Occ(slot'[i].opens, {x}) <= Occ(slot[i].opens, {x})
      BY <1>18
    <3>. QED
      BY <3>1, <3>2
  <2>. QED
    BY <2>1, <2>2, <2>3 DEF SlotOK, Base, Trampoline, Free, Reusable
<1>20. SlotsOK' /\ Apart' /\ HeapOK' /\ Others(i)
  <2>1. Open(i)' \subseteq Open(i)
    BY <1>18
  <2>. QED
    BY <1>2, <1>8, <1>12, <1>16, <1>19, <2>1, OneSlotPlaces
<1>21. CallsOK'
  <2>1. CallOK(k)'
    <3>1. mem'[slot'[i].close] = Trampoline(i) /\ slot'[i].close \in Address
      BY <1>8, <1>10, <1>12, <1>17
    <3>. QED
      BY <1>3, <1>8, <1>9, <1>10, <1>12, <3>1
      DEF CallOK, Waiting, Opening, Closing, Trampoline, Free
  <2>. QED
    BY <1>0, <1>1, <1>9, <1>11, <1>20, <2>1, ReplaceCalls
<1>22. Finite' /\ Drawn /\ NoMore(RefHolders) /\ NoMore(CountHolders)
  <2>1. \A kind \in {"call", "flight", "counted"} : Carried(kind, k) = <<>>
    BY <1>9 DEF Carried
  <2>2. KeptBut(HolderSet, {})
    BY <1>1, <1>8, <1>9, <1>11, <2>1, ReplaceKept
  <2>. QED
    BY <1>11, <1>13, <2>2, Fewer DEF IndInv, Control, Tallied, Replaced
<1>23. /\ RefHolders \in SUBSET HolderSet /\ CountHolders \in SUBSET HolderSet
       /\ OwnHolders \subseteq CountHolders
  BY DEF RefHolders, CountHolders, OwnHolders
<1>24. ASSUME Inner.result # None, NEW h \in OwnHolders, NEW m \in 1 .. Len(Holding[h])
       PROVE  Holding[h][m] \notin Bases(a)
  BY <1>2, <1>3, <1>23, <1>24, NoneHeld
<1>25. AllOwned'
  <2>. SUFFICES ASSUME NEW h \in OwnHolders, NEW l \in 1 .. Len(Holding'[h]), NEW x,
                       x = Holding'[h][l]
                PROVE  Owned(x)'
    BY DEF AllOwned, Owned
  <2>1. PICK g \in OwnHolders : \E m \in 1 .. Len(Holding[g]) : x = Holding[g][m]
    BY <1>22 DEF Drawn
  <2>2. Owned(x)
    BY <2>1 DEF IndInv, Tallied, AllOwned
  <2>3. PICK j \in Ready : j \in Slot /\ x \in Address /\ Base(x, slot[j].start)
    BY <2>2, OwnedFacts
  <2>4. Inner.result # None => j # i
    BY <1>3, <1>24, <2>1, <2>3 DEF Bases
  <2>5. j \in Ready' /\ slot'[j].start = slot[j].start
    BY <1>3, <1>10, <1>12, <2>3, <2>4 DEF Ready
  <2>. QED
    BY <1>8, <2>3, <2>5 DEF Owned, Base
<1>26. ASSUME NEW x \in Address, Refs(x)' > 0
       PROVE  /\ Refs(x) >= Refs(x)' /\ Refs(x) > 0 /\ Refs(x) \in Nat /\ Refs(x)' \in Nat
              /\ x = b => Refs(x) >= Refs(x)' + 1
  <2>1. PICK B : B = {x}
    OBVIOUS
  <2>2. Refs(x) = Tally(Holding, RefHolders, B) /\ Refs(x)' = Tally(Holding', RefHolders, B)
    BY <2>1 DEF Refs, Tally, Spots
  <2>3. Refs(x) \in Nat /\ Refs(x)' \in Nat
    BY <1>13, <1>22, <1>23, <2>2, TallyType, TallyTypeNext DEF IndInv, Control, Tallied
  <2>4. Refs(x) >= Refs(x)' /\ Refs(x) > 0
    <3>1. Tally(Holding', RefHolders, B) <= Tally(Holding, RefHolders, B)
      BY <1>22 DEF NoMore
    <3>. QED
      BY <1>26, <2>2, <2>3, <3>1
  <2>5. ASSUME x = b PROVE Refs(x) >= Refs(x)' + 1
    <3>1. PICK q : q = <<"flight", run, Depth>>
      OBVIOUS
    <3>2. q \in HolderSet /\ q \in RefHolders /\ Holding[q] = <<b>> /\ Holding'[q] = <<>>
      <4>1. HoldingValues
        BY HoldingEach DEF IndInv, Control
      <4>2. q \in HolderSet /\ Holding[q] = <<b>>
        BY <1>0, <1>2, <3>1, <4>1 DEF HoldingValues, Carried, Inner
      <4>3. run' = run /\ Len(Calls') = Depth /\ Calls'[Depth] = k /\ Depth \in 1 .. Depth
        BY <1>2, <1>8, <1>11 DEF Replaced
      <4>4. Holding'[q] = Carried("flight", k)
        BY <1>2, <1>13, <3>1, <4>3, HoldingEachNext
      <4>. QED
        BY <1>9, <3>1, <4>2, <4>4 DEF Carried, RefHolders
    <3>3. Moves(Holding, Holding', HolderSet, Value, RefHolders, {q})
      <4>1. \A kind \in {"call", "flight", "counted"} : Carried(kind, k) = <<>>
        BY <1>9 DEF Carried
      <4>2. KeptBut(RefHolders, {q})
        BY <1>1, <1>8, <1>9, <1>11, <4>1, ReplaceKept
      <4>3. {q} \in SUBSET HolderSet
        BY <3>2
      <4>. QED
        BY <1>11, <1>13, <1>23, <4>2, <4>3, HoldingMoves DEF IndInv, Control, Tallied, Replaced
    <3>4. /\ Share(Holding, RefHolders, q, B) = 1 /\ Share(Holding', RefHolders, q, B) = 0
      BY <2>1, <2>5, <3>2, OccOne, OccEmpty DEF Share
    <3>5. Tally(Holding', RefHolders, B) + Share(Holding, RefHolders, q, B)
            <= Tally(Holding, RefHolders, B) + Share(Holding', RefHolders, q, B)
      BY <3>3, TallyAt
    <3>. QED
      BY <2>2, <2>3, <3>4, <3>5
  <2>. QED
    BY <2>3, <2>4, <2>5
<1>27. RefsListed'
  <2>. SUFFICES ASSUME NEW x \in Address, Refs(x)' > 0 PROVE Listed(x)'
    BY DEF RefsListed
  <2>1. /\ Refs(x) >= Refs(x)' /\ Refs(x) > 0 /\ Refs(x) \in Nat /\ Refs(x)' \in Nat
        /\ x = b => Refs(x) >= Refs(x)' + 1
    BY <1>26
  <2>2. PICK j \in Ready : Occ(slot[j].opens, {x}) >= Refs(x)
    BY <2>1 DEF IndInv, Tallied, RefsListed, Listed
  <2>3. j \in Slot /\ Occ(slot[j].opens, {x}) \in Nat /\ slot[j].opens \in Seq(Address)
    BY <2>2, OccType, Types DEF IndInv, Control, Ready, SlotRecord
  <2>4. x \in Open(j)
    <3>1. PICK B : B = {x}
      OBVIOUS
    <3>2. Occ(slot[j].opens, B) # 0
      BY <2>1, <2>2, <2>3, <3>1
    <3>3. \E m \in 1 .. Len(slot[j].opens) : slot[j].opens[m] = x
      BY <2>3, <3>1, <3>2, OccFacts
    <3>4. DOMAIN slot[j].opens = 1 .. Len(slot[j].opens)
      BY <2>3, SeqFacts
    <3>. QED
      BY <3>3, <3>4 DEF Open
  <2>5. ASSUME j \in Ready', Occ(slot'[j].opens, {x}) >= Refs(x)' PROVE Listed(x)'
    BY <2>5 DEF Listed, Occ, Positions
  <2>6. CASE j # i
    <3>1. slot'[j] = slot[j] /\ j \in Ready'
      BY <1>12, <2>2, <2>3, <2>6 DEF Ready
    <3>. QED
      BY <2>1, <2>2, <2>3, <2>5, <3>1
  <2>7. CASE j = i /\ Inner.result = None
    <3>1. j \in Ready'
      BY <1>2, <1>10, <1>12, <2>7 DEF Ready
    <3>2. /\ Occ(slot[i].opens, {x}) = Occ(slot'[i].opens, {x}) + IF b \in {x} THEN 1 ELSE 0
          /\ Occ(slot'[i].opens, {x}) \in Nat
      BY <1>18, <2>7
    <3>3. Occ(slot'[i].opens, {x}) >= Refs(x)'
      <4>1. CASE x = b
        BY <2>1, <2>2, <2>7, <3>2, <4>1
      <4>2. CASE x # b
        BY <2>1, <2>2, <2>7, <3>2, <4>2
      <4>. QED
        BY <4>1, <4>2
    <3>. QED
      BY <2>5, <2>7, <3>1, <3>3
  <2>8. CASE j = i /\ Inner.result # None
    <3>1. PICK h \in RefHolders : \E l \in 1 .. Len(Holding'[h]) : Holding'[h][l] = x
      <4>1. PICK B : B = {x}
        OBVIOUS
      <4>2. Refs(x)' = Tally(Holding', RefHolders, B)
        BY <4>1 DEF Refs, Tally, Spots
      <4>3. Filled(Holding', HolderSet, Value)
        BY <1>13, <1>22, <1>23, TallyTypeNext
      <4>4. Tally(Holding', RefHolders, B) # 0
        BY <2>1, <4>2
      <4>5. ~ \A h \in RefHolders : \A l \in 1 .. Len(Holding'[h]) : Holding'[h][l] \notin B
        BY <1>23, <4>3, <4>4, TallyZero
      <4>. QED
        BY <4>1, <4>5
    <3>2. CASE h \in OwnHolders
      <4>1. PICK g \in OwnHolders : \E m \in 1 .. Len(Holding[g]) : x = Holding[g][m]
        BY <1>22, <3>1, <3>2 DEF Drawn
      <4>2. Owned(x)
        BY <4>1 DEF IndInv, Tallied, AllOwned
      <4>3. mem[x].what # "free"
        BY <4>2, OwnedFacts
      <4>4. Base(x, a)
        BY <1>2, <1>3, <2>4, <2>8, <4>3 DEF SlotOK
      <4>. QED
        BY <1>24, <2>8, <4>1, <4>4 DEF Bases
    <3>3. CASE h \notin OwnHolders
      <4>1. h \in HolderSet /\ h[1] = "flight"
        BY <1>23, <3>1, <3>3 DEF RefHolders, OwnHolders, HolderSet, Kind
      <4>2. Holding'[h] = Holding[h]
        <5>1. \A kind \in {"call", "flight", "counted"} : Carried(kind, k) = <<>>
          BY <1>9 DEF Carried
        <5>2. KeptBut(RefHolders, {})
          BY <1>1, <1>8, <1>9, <1>11, <5>1, ReplaceKept
        <5>3. {} \in SUBSET HolderSet
          OBVIOUS
        <5>4. Moves(Holding, Holding', HolderSet, Value, RefHolders, {})
          BY <1>11, <1>13, <1>23, <5>2, <5>3, HoldingMoves DEF IndInv, Control, Tallied, Replaced
        <5>5. Holding'[h] = Holding[h] \/ Holding'[h] = <<>>
          BY <3>1, <5>4 DEF Moves
        <5>. QED
          BY <3>1, <5>5
      <4>3. PICK m \in 1 .. Len(Holding[h]) : Holding[h][m] = x
        BY <3>1, <4>2
      <4>4. PICK l : l = h[3] /\ l \in 1 .. Len(Calls) /\ h = <<"flight", run, l>>
                     /\ Holding[h] = Carried("flight", Calls[l])
        BY <4>1, <4>3, CallHolder DEF IndInv, Control
      <4>5. l # Depth
        <5>. SUFFICES ASSUME l = Depth PROVE FALSE
          OBVIOUS
        <5>1. run' = run /\ Len(Calls') = Depth /\ Calls'[Depth] = k /\ Depth \in 1 .. Depth
          BY <1>2, <1>8, <1>11 DEF Replaced
        <5>2. Holding'[h] = Carried("flight", k)
          BY <1>2, <1>13, <4>4, <5>1, HoldingEachNext
        <5>3. Carried("flight", k) = <<>>
          BY <1>9 DEF Carried
        <5>. QED
          BY <3>1, <5>2, <5>3
      <4>6. l \in 1 .. Depth - 1
        BY <1>2, <4>4, <4>5 DEF Depth
      <4>7. Calls[l].at \in Waiting /\ CallOK(Calls[l]) /\ Calls[l].slot # i /\ Calls[l] \in Call
        BY <1>0, <1>1, <4>6, TopFacts
      <4>8. Calls[l].at = "expunge" /\ Calls[l].base = x
        BY <4>3, <4>4, <4>7 DEF Carried, Waiting
      <4>9. x \in Open(Calls[l].slot) /\ Calls[l].slot \in Slot
        BY <4>7, <4>8 DEF CallOK, Closing, Call
      <4>. QED
        BY <1>2, <2>4, <2>8, <4>7, <4>9 DEF IndInv, Places, Apart
    <3>. QED
      BY <3>2, <3>3
  <2>. QED
    BY <2>6, <2>7, <2>8
<1>28. Counts'
  <2>1. ASSUME NEW j \in Slot, Live(j)' PROVE Carries(j)
    <3>1. Live(j) /\ slot'[j].start = slot[j].start
      BY <1>3, <1>10, <1>12, <1>16, <2>1
    <3>2. mem[slot[j].start].count \in Int
      BY <3>1, LiveFacts DEF IndInv, Control, Places
    <3>. QED
      BY <1>8, <3>1, <3>2 DEF Carries, Narrows
  <2>. QED
    BY <1>13, <1>22, <2>1, CountsKept
<1>. QED
  BY <1>14, <1>20, <1>21, <1>22, <1>25, <1>27, <1>28 DEF IndInv, Places, Tallied

(* Reclaim gives back the memory of a library that is gone: no slot that is live
   has its code or a base of it there. *)
LEMMA ReclaimKeeps ==
    ASSUME IndInv, NEW c \in Context, Reclaim(c)
    PROVE  IndInv'
<1>0. PICK i, a, z : i = Inner.slot /\ a = slot[Inner.slot].start /\ z = slot[Inner.slot].close
  OBVIOUS
<1>1. At(c, "reclaim") /\ Top(c) = Inner /\ c = run
  <2>1. At(c, "reclaim")
    BY DEF Reclaim
  <2>. QED
    BY <2>1, TopFacts
<1>2. /\ Inner \in Call /\ CallOK(Inner) /\ Inner.at = "reclaim" /\ i \in Slot
      /\ Live(i) /\ slot[i] \in SlotRecord /\ SlotOK(i) /\ run \notin dead
      /\ Depth \in 1 .. Len(Calls) /\ Depth \in Nat
      /\ \A l \in 1 .. Depth - 1 :
           /\ l \in 1 .. Len(Calls) /\ Calls[l].at \in Waiting /\ Calls[l].slot # i
  BY <1>0, <1>1, TopFacts, Types DEF IndInv, Control, Places, SlotsOK
<1>3. /\ stack' = [stack EXCEPT ![c] = Below(c)] /\ regs' = [regs EXCEPT ![run] = slot[i].saved]
      /\ UNCHANGED <<held, run, dead>>
  BY <1>0, <1>1 DEF Reclaim, Restored
<1>4. /\ Below(c) \in Seq(Call) /\ Len(Below(c)) = Depth - 1
      /\ \A l \in 1 .. Depth - 1 : Below(c)[l] = Calls[l]
  BY <1>1, BelowShape
<1>5. Popped /\ stack' \in [Context -> Seq(Call)] /\ Calls' = Below(c)
  BY <1>1, <1>3, <1>4, ReturnShape
<1>6. \A l \in 1 .. Depth - 1 : Calls'[l] = Calls[l]
  BY <1>4, <1>5
<1>7. regs' \in [Context -> Context \X Nat]
  <2>1. regs \in [Context -> Context \X Nat] /\ run \in Context
    BY DEF IndInv, Control, TypeOK
  <2>2. slot[i].saved = <<run, Depth - 1>>
    BY <1>0, <1>2 DEF IndInv, Control, Saved, Inner
  <2>3. Depth - 1 \in Nat
    BY <1>2
  <2>. QED
    BY <1>3, <2>1, <2>2, <2>3
<1>8. \A j \in Slot : OnStack(j)' => OnStack(j) /\ j # i
  <2>. SUFFICES ASSUME NEW j \in Slot, OnStack(j)' PROVE OnStack(j) /\ j # i
    OBVIOUS
  <2>1. PICK l \in 1 .. Len(Calls') : Calls'[l].slot = j
    BY DEF OnStack
  <2>2. l \in 1 .. Depth - 1
    BY <1>4, <1>5
  <2>. QED
    BY <1>2, <1>6, <2>1, <2>2 DEF OnStack
<1>9. CASE ~slot[i].reclaim
  <2>1. UNCHANGED <<mem, heap, slot>>
    BY <1>0, <1>1, <1>9 DEF Reclaim
  <2>2. TypeOK'
    BY <1>3, <1>5, <1>7, <2>1 DEF IndInv, Control, TypeOK
  <2>3. Control'
    BY <1>0, <1>2, <1>3, <1>5, <2>1, <2>2, PopControl
  <2>4. SlotsOK' /\ Apart' /\ HeapOK'
    BY <1>8, <2>1, StillPlaces
  <2>5. CallsOK'
    <3>1. Others(Inner.slot)
      BY <2>1 DEF Others
    <3>. QED
      BY <1>1, <1>5, <3>1, PopCalls
  <2>6. Tallied'
    <3>1. \A x \in Address : mem'[x].uses \in {mem[x].uses, <<>>}
      BY <2>1
    <3>2. KeptBut(HolderSet, {})
      BY <1>2, <1>3, <1>5, <1>6, <3>1, PopKept
    <3>. QED
      BY <1>5, <1>8, <2>1, <2>2, <3>2, StillTallied DEF Popped
  <2>. QED
    BY <2>3, <2>4, <2>5, <2>6 DEF IndInv, Places
<1>10. CASE slot[i].reclaim
  <2>1. /\ mem' = Cleared(i) /\ heap' = Lowered(i) /\ slot' = [slot EXCEPT ![i].reclaim = FALSE]
    BY <1>0, <1>1, <1>10 DEF Reclaim
  <2>2. /\ slot[i].state = "unloaded" /\ z \in Address /\ mem[z] = Trampoline(i)
        /\ slot[i].opens = <<>> /\ a \in Address /\ mem[a].what = "image"
    <3>1. slot[i].state = "unloaded"
      BY <1>0, <1>2, <1>10 DEF SlotOK, Reusable, CallOK
    <3>2. z \in Address /\ mem[z] = Trampoline(i)
      BY <1>0, <1>2, <3>1 DEF CallOK
    <3>3. slot[i].opens = <<>> /\ a \in Address /\ mem[a].what = "image"
      BY <1>0, <1>2, <3>1 DEF SlotOK
    <3>. QED
      BY <3>1, <3>2, <3>3
  <2>3. mem[z].what = "trampoline" /\ mem[z].of = i /\ a # z
    BY <1>2, <2>2, Cells
  <2>4. /\ mem \in [Address -> Cell] /\ heap \in Int /\ heap >= 0 /\ heap <= HeapMax
        /\ \A x \in Address : x >= heap => mem[x] = Free
    <3>1. mem \in [Address -> Cell] /\ \A x \in Address : x >= heap => mem[x] = Free
      BY DEF IndInv, Control, TypeOK, Places, HeapOK
    <3>. QED
      BY <3>1, Types DEF IndInv, Control
  <2>5. /\ mem' \in [Address -> Cell]
        /\ \A x \in Address : mem'[x] = IF x \in {a, z} THEN Free ELSE mem[x]
    BY <1>0, <2>1, <2>4, Cells DEF Cleared
  <2>6. /\ heap' \in 0 .. HeapMax /\ heap' \in Int
        /\ \A x \in Address : x >= heap' => x >= heap \/ x \in {a, z}
    <3>1. a \in Int /\ z \in Int /\ a >= 0 /\ HeapMax \in Nat /\ \A x \in Address : x \in Int
      BY <2>2, Limits DEF Address
    <3>2. CASE z = a + 1 /\ heap = z + 1
      <4>1. heap' = a
        BY <1>0, <2>1, <3>2 DEF Lowered
      <4>. QED
        BY <2>4, <3>1, <3>2, <4>1
    <3>3. CASE ~(z = a + 1 /\ heap = z + 1)
      <4>1. heap' = heap
        BY <1>0, <2>1, <3>3 DEF Lowered
      <4>. QED
        BY <2>4, <3>1, <4>1
    <3>. QED
      BY <3>2, <3>3
  <2>7. PICK r : r = [slot[i] EXCEPT !.reclaim = FALSE]
    OBVIOUS
  <2>8. /\ r \in SlotRecord /\ r.name = slot[i].name /\ r.start = a /\ r.saved = slot[i].saved
        /\ r.state = "unloaded" /\ r.opens = <<>>
    BY <1>0, <1>2, <2>2, <2>7 DEF SlotRecord
  <2>9. /\ slot' \in [Slot -> SlotRecord] /\ slot'[i] = r
        /\ \A j \in Slot : j # i => slot'[j] = slot[j]
    BY <1>2, <2>1, <2>7, <2>8 DEF IndInv, Control, TypeOK
  <2>10. TypeOK'
    BY <1>3, <1>5, <1>7, <2>5, <2>6, <2>9 DEF IndInv, Control, TypeOK
  <2>11. Control'
    <3>1. \A j \in Slot : slot'[j].saved = slot[j].saved
      BY <2>8, <2>9
    <3>. QED
      BY <1>0, <1>2, <1>3, <1>5, <2>10, <3>1, PopControl
  <2>12. \A j \in Slot : Live(j)' => Live(j) /\ j # i
    <3>. SUFFICES ASSUME NEW j \in Slot, Live(j)' PROVE Live(j) /\ j # i
      OBVIOUS
    <3>1. j # i
      BY <1>8, <2>8, <2>9 DEF Live, Reusable
    <3>. QED
      BY <1>8, <2>9, <3>1 DEF Live, Reusable
  <2>13. ASSUME NEW j \in Slot, j # i, Live(j)
         PROVE  /\ slot[j].start \in Address /\ slot[j].start \notin {a, z}
                /\ mem'[slot[j].start] = mem[slot[j].start]
                /\ mem[slot[j].start].count \in Int
    <3>1. /\ slot[j].start \in Address /\ slot[j].start # a /\ mem[slot[j].start].what = "image"
          /\ mem[slot[j].start].count \in Int
      BY <1>0, <1>2, <2>13, StartsDiffer, LiveFacts DEF IndInv, Control, Places
    <3>2. slot[j].start # z
      BY <2>3, <3>1
    <3>. QED
      BY <2>5, <3>1, <3>2
  <2>14. ASSUME NEW j \in Slot, j # i, NEW b \in Open(j)
         PROVE  b \in Address /\ b \notin {a, z} /\ b < heap' /\ mem'[b] = mem[b]
    <3>1. SlotOK(j) /\ slot[j].opens \in Seq(Address)
      BY Types DEF IndInv, Control, Places, SlotsOK, SlotRecord
    <3>2. slot[j].opens # <<>>
      BY <2>14 DEF Open
    <3>3. Live(j)
      BY <3>1, <3>2 DEF SlotOK, Live, Reusable
    <3>4. b \in Address
      BY <2>14, <3>1, SeqFacts DEF Open
    <3>5. b # a
      BY <1>0, <1>2, <2>14, NotListed
    <3>6. b # z
      BY <2>3, <2>13, <2>14, <3>1, <3>3 DEF SlotOK, Base
    <3>7. b < heap
      BY <2>14, <3>1 DEF SlotOK
    <3>8. b < heap'
      BY <2>4, <2>6, <3>4, <3>5, <3>6, <3>7 DEF Address
    <3>. QED
      BY <2>5, <3>4, <3>5, <3>6, <3>8
  <2>15. SlotsOK'
    <3>1. ASSUME NEW j \in Slot, j # i PROVE SlotOK(j)'
      <4>1. SlotOK(j) /\ slot'[j] = slot[j]
        BY <2>9, <3>1 DEF IndInv, Places, SlotsOK
      <4>2. Live(j)' => Live(j) /\ InMemory(j)
        BY <2>12, <2>13, <3>1 DEF InMemory
      <4>3. ASSUME slot[j].state = "ready" PROVE mem'[slot[j].close] = mem[slot[j].close]
        <5>1. slot[j].close \in Address /\ mem[slot[j].close] = Trampoline(j)
          BY <4>1, <4>3 DEF SlotOK
        <5>2. mem[slot[j].close].what = "trampoline" /\ mem[slot[j].close].of = j
          BY <5>1, Cells
        <5>3. slot[j].close # a /\ slot[j].close # z
          BY <2>2, <2>3, <3>1, <5>2
        <5>. QED
          BY <2>5, <5>1, <5>3
      <4>4. Handed(j)
        BY <2>14, <3>1 DEF Handed
      <4>. QED
        BY <4>1, <4>2, <4>3, <4>4, SlotKept
    <3>2. SlotOK(i)'
      <4>1. slot'[i].state = "unloaded" /\ slot'[i].opens = <<>> /\ ~ Live(i)'
        BY <1>2, <2>8, <2>9, <2>12
      <4>2. \A x \in Open(i)' : FALSE
        BY <4>1 DEF Open
      <4>. QED
        BY <4>1, <4>2 DEF SlotOK, Reusable
    <3>. QED
      BY <3>1, <3>2 DEF SlotsOK
  <2>16. Apart'
    <3>1. \A j \in Slot : slot'[j].name = slot[j].name /\ slot'[j].opens = slot[j].opens
      BY <2>2, <2>8, <2>9
    <3>2. \A j \in Slot : Open(j)' = Open(j)
      BY <3>1 DEF Open
    <3>. QED
      BY <2>12, <3>1, <3>2 DEF Apart, IndInv, Places
  <2>17. HeapOK'
    <3>1. \A x \in Address : x >= heap' => mem'[x] = Free
      BY <2>4, <2>5, <2>6
    <3>. QED
      BY <3>1 DEF HeapOK, Free
  <2>18. CallsOK'
    <3>1. Others(Inner.slot)
      BY <1>0, <2>9, <2>13 DEF Others
    <3>. QED
      BY <1>1, <1>5, <3>1, PopCalls
  <2>19. Finite' /\ Drawn /\ NoMore(RefHolders) /\ NoMore(CountHolders)
    <3>1. \A x \in Address : mem'[x].uses \in {mem[x].uses, <<>>}
      BY <2>5, Cells
    <3>2. KeptBut(HolderSet, {})
      BY <1>2, <1>3, <1>5, <1>6, <3>1, PopKept
    <3>. QED
      BY <1>5, <2>10, <3>2, Fewer DEF IndInv, Control, Tallied, Popped
  <2>20. Tallied'
    <3>1. \A j \in Ready : j \in Slot /\ j # i /\ j \in Ready' /\ slot'[j] = slot[j]
      BY <2>2, <2>9 DEF Ready
    <3>2. ASSUME NEW x, Owned(x) PROVE Owned(x)'
      <4>1. PICK j \in Ready : j \in Slot /\ x \in Address /\ Base(x, slot[j].start)
        BY <3>2, OwnedFacts
      <4>2. mem[x].what = "clone" => mem'[x] = mem[x]
        BY <2>2, <2>3, <2>5, <4>1
      <4>3. j \in Ready' /\ slot'[j].start = slot[j].start
        BY <3>1, <4>1
      <4>. QED
        BY <4>1, <4>2, <4>3 DEF Owned, Base
    <3>3. ASSUME NEW j \in Slot, Live(j)' PROVE Carries(j)
      <4>1. Live(j) /\ j # i
        BY <2>12, <3>3
      <4>2. Narrows(slot[j].start)
        BY <2>5, Cells DEF Narrows
      <4>3. slot'[j].start = slot[j].start /\ mem'[slot[j].start].count = mem[slot[j].start].count
            /\ mem[slot[j].start].count \in Int
        BY <2>9, <2>13, <4>1
      <4>. QED
        BY <4>1, <4>2, <4>3 DEF Carries
    <3>. QED
      BY <2>10, <2>19, <3>1, <3>2, <3>3, TalliedKept
  <2>. QED
    BY <2>11, <2>15, <2>16, <2>17, <2>18, <2>20 DEF IndInv, Places
<1>. QED
  BY <1>9, <1>10

(* A turn ends in the program of its context: then nobody is in a library call. *)
LEMMA TurnKeeps ==
    ASSUME IndInv, ~Preempt, NEW c \in Context, Turn(c)
    PROVE  IndInv'
<1>1. /\ stack[run] = <<>> /\ run' = c
      /\ UNCHANGED <<slot, mem, heap, stack, regs, held, dead>>
  BY DEF Turn
<1>2. \A d \in Context : stack[d] = <<>>
  BY <1>1 DEF IndInv, Control, Alone
<1>3. Calls' = <<>> /\ Len(Calls') = 0 /\ \A l \in 1 .. Len(Calls') : FALSE
  BY <1>1, <1>2 DEF Calls
<1>4. TypeOK'
  BY <1>1 DEF IndInv, Control, TypeOK
<1>5. Alone'
  BY <1>1, <1>2 DEF Alone
<1>6. RegistersKept'
  BY <1>1 DEF IndInv, Control, Saved, RegistersKept, Level
<1>7. Stacked' /\ Saved' /\ CallsOK'
  BY <1>3, <1>6 DEF Stacked, Saved, CallsOK
<1>8. \A j \in Slot : OnStack(j)' => OnStack(j)
  BY <1>3 DEF OnStack
<1>9. SlotsOK' /\ Apart' /\ HeapOK'
  BY <1>1, <1>8, StillPlaces
<1>10. Tallied'
  <2>1. Holding' = Holding
    BY <1>1 DEF Holding, HoldingAt, Carried
  <2>. QED
    BY <1>1, <1>8, <2>1, SameTallied
<1>. QED
  BY <1>4, <1>5, <1>7, <1>9, <1>10 DEF IndInv, Control, Places

(* A context that faults leaves its calls, and what they held, behind. *)
LEMMA FaultKeeps ==
    ASSUME IndInv, NEW c \in Context, Fault(c)
    PROVE  IndInv'
<1>1. /\ c = run /\ dead' = dead \cup {c} /\ stack' = [stack EXCEPT ![run] = <<>>]
      /\ UNCHANGED <<slot, mem, heap, regs, held, run>>
  BY RunFacts DEF Fault
<1>2. /\ StackStep /\ Calls' = <<>> /\ stack' \in [Context -> Seq(Call)]
      /\ \A d \in Context \ {run} : stack'[d] = stack[d]
  <2>1. <<>> \in Seq(Call)
    OBVIOUS
  <2>. QED
    BY <1>1, <2>1, StackSteps DEF IndInv, Control
<1>3. Len(Calls') = 0 /\ \A l \in 1 .. Len(Calls') : FALSE
  BY <1>2
<1>4. TypeOK'
  BY <1>1, <1>2 DEF IndInv, Control, TypeOK
<1>5. Alone'
  <2>1. run \in Context /\ stack \in [Context -> Seq(Call)]
    BY DEF IndInv, Control, TypeOK
  <2>2. stack'[run] = <<>>
    BY <1>1, <2>1
  <2>3. \A d \in Context \ {run} : stack[d] = <<>>
    BY DEF IndInv, Control, Alone
  <2>. QED
    BY <1>2, <2>2, <2>3 DEF Alone
<1>6. RegistersKept'
  <2>1. \A d \in Context \ dead' : d \in Context \ dead /\ d \in Context \ {run}
    BY <1>1
  <2>. QED
    BY <1>1, <1>2, <2>1 DEF IndInv, Control, Saved, RegistersKept, Level
<1>7. Stacked' /\ Saved' /\ CallsOK'
  BY <1>3, <1>6 DEF Stacked, Saved, CallsOK
<1>8. \A j \in Slot : OnStack(j)' => OnStack(j)
  BY <1>3 DEF OnStack
<1>9. SlotsOK' /\ Apart' /\ HeapOK'
  BY <1>1, <1>8, StillPlaces
<1>10. Tallied'
  <2>1. KeptBut(HolderSet, {})
    BY <1>1, <1>3 DEF KeptBut
  <2>. QED
    BY <1>1, <1>2, <1>4, <1>8, <2>1, StillTallied
<1>. QED
  BY <1>4, <1>5, <1>7, <1>9, <1>10 DEF IndInv, Control, Places

-----------------------------------------------------------------------------
(* The theorems *)

(* No library is loaded, and nobody holds anything. *)
LEMMA InitKeeps == Init => IndInv
<1>. SUFFICES ASSUME Init PROVE IndInv
  OBVIOUS
<1>1. /\ slot = [i \in Slot |-> Unused] /\ mem = [a \in Address |-> Free] /\ heap = 0
      /\ stack = [c \in Context |-> <<>>] /\ regs = [c \in Context |-> <<c, 0>>]
      /\ held = [c \in Context |-> <<>>] /\ run = Root
  BY DEF Init
<1>2. /\ Calls = <<>> /\ Len(Calls) = 0 /\ \A l \in 1 .. Len(Calls) : FALSE
  BY <1>1, Limits DEF Calls
<1>3. /\ Unused \in SlotRecord /\ Unused.state = "empty" /\ Unused.opens = <<>>
      /\ ~Unused.reclaim
  <2>1. <<>> \in Seq(Address)
    OBVIOUS
  <2>. QED
    BY <2>1 DEF Unused, SlotRecord, Value
<1>4. TypeOK
  <2>1. <<>> \in Seq(Call) /\ <<>> \in Seq(Address) /\ 0 \in Nat
    OBVIOUS
  <2>2. heap \in 0 .. HeapMax
    BY <1>1, Limits
  <2>. QED
    BY <1>1, <1>3, <2>1, <2>2, Limits, Cells DEF TypeOK
<1>5. Alone /\ Stacked /\ CallsOK
  BY <1>1, <1>2 DEF Alone, Stacked, CallsOK
<1>6. Saved
  <2>1. \A c \in Context : regs[c] = <<c, 0>> /\ stack[c] = <<>> /\ Len(stack[c]) = 0
    BY <1>1
  <2>. QED
    BY <1>2, <2>1 DEF Saved, RegistersKept, Level
<1>7. \A i \in Slot : /\ slot[i] = Unused /\ ~Live(i) /\ \A b \in Open(i) : FALSE
  BY <1>1, <1>2, <1>3 DEF Live, Reusable, OnStack, Open
<1>8. SlotsOK /\ Apart /\ HeapOK
  BY <1>1, <1>3, <1>7 DEF SlotsOK, SlotOK, Reusable, Apart, HeapOK
<1>9. \A h \in HolderSet : Holding[h] = <<>>
  <2>. SUFFICES ASSUME NEW h \in HolderSet PROVE HoldingAt(h) = <<>>
    BY DEF Holding
  <2>1. \A c \in Context : stack[c] = <<>> /\ Len(stack[c]) = 0 /\ 1 .. 0 = {} /\ held[c] = <<>>
    BY <1>1
  <2>2. \A a \in Address : mem[a].uses = <<>>
    BY <1>1, Cells
  <2>. QED
    BY <2>1, <2>2 DEF HoldingAt
<1>10. \A X \in SUBSET HolderSet : \A B : Spots(Holding, X, B) = {}
  BY <1>9 DEF Spots
<1>11. Finite
  BY <1>10, FS_EmptySet DEF Finite
<1>12. AllOwned
  <2>1. OwnHolders \in SUBSET HolderSet /\ Len(<<>>) = 0 /\ 1 .. 0 = {}
    BY DEF OwnHolders
  <2>. QED
    BY <1>9, <2>1 DEF AllOwned
<1>13. RefsListed
  <2>1. RefHolders \in SUBSET HolderSet
    BY DEF RefHolders
  <2>2. \A b \in Address : Refs(b) = 0
    BY <1>10, <2>1, FS_EmptySet DEF Refs, Tally
  <2>. QED
    BY <2>2 DEF RefsListed
<1>14. Counts
  BY <1>7 DEF Counts
<1>. QED
  BY <1>4, <1>5, <1>6, <1>8, <1>11, <1>12, <1>13, <1>14 DEF IndInv, Control, Places, Tallied

(* Every step keeps the inductive invariant, if turns end outside library code. *)
LEMMA NextKeeps == ~Preempt /\ IndInv /\ [Next]_vars => IndInv'
<1>. SUFFICES ASSUME ~Preempt, IndInv, [Next]_vars PROVE IndInv'
  OBVIOUS
<1>1. CASE UNCHANGED vars
  BY <1>1, NothingKeeps DEF vars
<1>2. ASSUME NEW c \in Context, Inside(c) PROVE IndInv'
  <2>1. CASE InitReturns(c)
    BY <2>1, InitReturnsKeeps
  <2>2. CASE InitGivesUp(c)
    BY <2>2, InitGivesUpKeeps
  <2>3. CASE InitFails(c)
    BY <2>3, InitFailsKeeps
  <2>4. CASE InitDone(c)
    BY <2>4, InitDoneKeeps
  <2>5. CASE OpenCode(c)
    BY <2>5, OpenCodeKeeps
  <2>6. CASE OpenFailed(c)
    BY <2>6, OpenFailedKeeps
  <2>7. CASE OpenDone(c)
    BY <2>7, OpenDoneKeeps
  <2>8. CASE OpenOverflows(c)
    BY <2>8, OpenOverflowsKeeps
  <2>9. CASE CloseCode(c)
    BY <2>9, CloseCodeKeeps
  <2>10. CASE Expunged(c)
    BY <2>10, ExpungedKeeps
  <2>11. CASE CloseDone(c)
    BY <2>11, CloseDoneKeeps
  <2>12. CASE Reclaim(c)
    BY <2>12, ReclaimKeeps
  <2>. QED
    BY <1>2, <2>1, <2>2, <2>3, <2>4, <2>5, <2>6, <2>7, <2>8, <2>9, <2>10, <2>11, <2>12
    DEF Inside
<1>3. ASSUME NEW c \in Context, Calling(c) PROVE IndInv'
  <2>1. ASSUME NEW n \in Lib, OpenRefused(c, n) PROVE IndInv'
    BY <2>1, OpenRefusedKeeps
  <2>2. ASSUME NEW n \in Lib, OpenAgain(c, n) PROVE IndInv'
    BY <2>2, OpenAgainKeeps
  <2>3. ASSUME NEW n \in Lib, Load(c, n) PROVE IndInv'
    BY <2>3, LoadKeeps
  <2>4. ASSUME NEW b \in Address, CloseLibrary(c, b) PROVE IndInv'
    BY <2>4, CloseLibraryKeeps
  <2>. QED
    BY <1>3, <2>1, <2>2, <2>3, <2>4 DEF Calling
<1>4. ASSUME NEW c \in Context, Turn(c) PROVE IndInv'
  BY <1>4, TurnKeeps
<1>5. ASSUME NEW c \in Context, Fault(c) PROVE IndInv'
  BY <1>5, FaultKeeps
<1>. QED
  BY <1>1, <1>2, <1>3, <1>4, <1>5 DEF Next

(* The inductive invariant holds throughout. *)
THEOREM Inductive ==
    ASSUME ~Preempt
    PROVE  Spec => []IndInv
<1>1. Init => IndInv
  BY InitKeeps
<1>2. IndInv /\ [Next]_vars => IndInv'
  BY NextKeeps
<1>. QED
  BY <1>1, <1>2, PTL DEF Spec

(* Whatever libraries were initialised, opened, closed and expunged inside a
   call, the routine that made it goes on with its own registers. *)
THEOREM RegistersAlwaysKept ==
    ASSUME ~Preempt
    PROVE  Spec => []RegistersKept
<1>1. IndInv => RegistersKept
  BY DEF IndInv, Control, Saved
<1>. QED
  BY <1>1, Inductive, PTL

(* Libraries, the bases they handed out, and the code of the calls are where they
   were put. *)
LEMMA PlacedIn == IndInv => InPlace
<1>. SUFFICES ASSUME IndInv PROVE InPlace
  OBVIOUS
<1>1. ASSUME NEW i \in Ready
      PROVE  /\ mem[slot[i].base].what = "image" /\ mem[slot[i].base].lib = slot[i].name
             /\ mem[slot[i].close] = Trampoline(i)
  <2>1. i \in Slot /\ slot[i].state = "ready" /\ Live(i) /\ SlotOK(i)
    BY DEF Ready, Live, Reusable, IndInv, Places, SlotsOK
  <2>. QED
    BY <2>1 DEF SlotOK
<1>2. ASSUME NEW c \in Context, NEW b \in {held[c][k] : k \in DOMAIN held[c]}
      PROVE  mem[b].what \in {"image", "clone"}
  <2>1. HoldingValues
    BY HoldingEach DEF IndInv, Control
  <2>2. PICK h : h = <<"program", c, 0>>
    OBVIOUS
  <2>3. h \in OwnHolders /\ Holding[h] = held[c]
    BY <2>1, <2>2 DEF HoldingValues, OwnHolders
  <2>4. held[c] \in Seq(Address)
    BY Types DEF IndInv, Control
  <2>5. PICK k \in 1 .. Len(held[c]) : b = held[c][k]
    BY <2>4, SeqFacts
  <2>6. Owned(b)
    BY <2>3, <2>5 DEF IndInv, Tallied, AllOwned
  <2>. QED
    BY <2>6, OwnedFacts
<1>3. ASSUME NEW c \in Context, NEW l \in DOMAIN stack[c] PROVE CodeInPlace(stack[c][l])
  <2>1. PICK k : k = stack[c][l]
    OBVIOUS
  <2>2. stack[c] \in Seq(Call) /\ l \in 1 .. Len(stack[c])
    <3>1. stack[c] \in Seq(Call)
      BY Types DEF IndInv, Control
    <3>. QED
      BY <1>3, <3>1, SeqFacts
  <2>3. c = run
    <3>1. stack[c] # <<>>
      BY <2>2
    <3>. QED
      BY <3>1 DEF IndInv, Control, Alone
  <2>4. l \in 1 .. Len(Calls) /\ k = Calls[l]
    BY <2>1, <2>2, <2>3 DEF Calls
  <2>5. k \in Call /\ CallOK(k) /\ k.slot \in Slot /\ Live(k.slot) /\ SlotOK(k.slot)
    <3>1. k \in Call /\ CallOK(k)
      BY <2>4, Types DEF IndInv, Control, Places, CallsOK
    <3>2. k.slot \in Slot
      BY <3>1 DEF Call
    <3>. QED
      BY <2>4, <3>1, <3>2 DEF Live, OnStack, IndInv, Places, SlotsOK
  <2>6. mem[k.image].what = "image" /\ mem[k.image].lib = k.lib
    BY <2>5 DEF CallOK, SlotOK
  <2>7. ASSUME k.at \in {"close", "expunge", "closeDone", "reclaim"}
        PROVE  mem[slot[k.slot].close] = Trampoline(k.slot)
    <3>1. CASE slot[k.slot].state = "ready"
      BY <2>5, <3>1 DEF SlotOK
    <3>2. CASE slot[k.slot].state # "ready"
      BY <2>5, <2>7, <3>2 DEF CallOK, Closing
    <3>. QED
      BY <3>1, <3>2
  <2>. QED
    BY <2>1, <2>6, <2>7 DEF CodeInPlace
<1>. QED
  BY <1>1, <1>2, <1>3 DEF InPlace

(* "Open/Close/Expunge leave no live base pointing into released memory":
   libraries, the bases they handed out and the code of calls stay where they
   were put (emu68k_guestlib_reclaim). *)
THEOREM AlwaysInPlace ==
    ASSUME ~Preempt
    PROVE  Spec => []InPlace
<1>1. IndInv => InPlace
  BY PlacedIn
<1>. QED
  BY <1>1, Inductive, PTL

(* What the property counts is among what the invariant counts. *)
LEMMA HolderCounted ==
    ASSUME IndInv, NEW h \in Holders
    PROVE  h \in RefHolders /\ Holding[h] = Held(h) /\ Held(h) \in Seq(Value)
<1>1. Holding \in [HolderSet -> Seq(Value)]
  BY HoldingType DEF IndInv, Control
<1>2. ASSUME h \in HolderSet, h[1] # "counted", HoldingAt(h) = Held(h)
      PROVE  h \in RefHolders /\ Holding[h] = Held(h) /\ Held(h) \in Seq(Value)
  <2>1. h \in RefHolders /\ Holding[h] = Held(h)
    BY <1>2 DEF RefHolders, Holding
  <2>. QED
    BY <1>1, <1>2, <2>1
<1>3. CASE h \in {"program"} \X Context \X {0}
  <2>1. h[1] = "program" /\ h[2] \in Context /\ h[3] = 0 /\ h \in HolderSet
    BY <1>3 DEF HolderSet, Kind
  <2>2. HoldingAt(h) = held[h[2]] /\ Held(h) = held[h[2]]
    BY <2>1 DEF HoldingAt, Held
  <2>. QED
    BY <1>2, <2>1, <2>2
<1>4. CASE h \in {"library"} \X Address \X {0}
  <2>1. h[1] = "library" /\ h[2] \in Address /\ h[3] = 0 /\ h \in HolderSet
    BY <1>4 DEF HolderSet, Kind
  <2>2. HoldingAt(h) = mem[h[2]].uses /\ Held(h) = mem[h[2]].uses
    BY <2>1 DEF HoldingAt, Held
  <2>. QED
    BY <1>2, <2>1, <2>2
<1>5. CASE \E c \in Context : h \in {"call", "flight"} \X {c} \X DOMAIN stack[c]
  <2>1. PICK c \in Context : h \in {"call", "flight"} \X {c} \X DOMAIN stack[c]
    BY <1>5
  <2>2. stack[c] \in Seq(Call)
    BY Types DEF IndInv, Control
  <2>3. DOMAIN stack[c] = 1 .. Len(stack[c]) /\ Len(stack[c]) \in Nat
    BY <2>2, SeqFacts
  <2>4. /\ h[1] \in {"call", "flight"} /\ h[2] = c /\ h[3] \in 1 .. Len(stack[c]) /\ h[3] \in Nat
        /\ h = <<h[1], h[2], h[3]>>
    BY <2>1, <2>3
  <2>5. h \in HolderSet
    BY <2>4 DEF HolderSet, Kind
  <2>6. HoldingAt(h) = Carried(h[1], stack[c][h[3]])
    BY <2>4 DEF HoldingAt
  <2>7. CASE h[1] = "call"
    BY <1>2, <2>4, <2>5, <2>6, <2>7 DEF Carried, Held
  <2>8. CASE h[1] = "flight"
    BY <1>2, <2>4, <2>5, <2>6, <2>8 DEF Carried, Held
  <2>. QED
    BY <2>4, <2>7, <2>8
<1>. QED
  BY <1>3, <1>4, <1>5 DEF Holders

(* A base that is held is listed as often. *)
LEMMA HoldsListed == IndInv => HoldsCounted
<1>. SUFFICES ASSUME IndInv, NEW b \in Address, References(b) > 0
              PROVE  \E i \in Ready : Occurrences(slot[i].opens, b) >= References(b)
  BY DEF HoldsCounted
<1>. DEFINE R == {r \in UNION {{h} \X DOMAIN Held(h) : h \in Holders} : Held(r[1])[r[2]] = b}
            S == Spots(Holding, RefHolders, {b})
<1>1. R \in SUBSET S
  <2>. SUFFICES ASSUME NEW r \in R PROVE r \in S
    OBVIOUS
  <2>1. PICK h \in Holders : r \in {h} \X DOMAIN Held(h)
    OBVIOUS
  <2>2. r = <<r[1], r[2]>> /\ r[1] = h /\ r[2] \in DOMAIN Held(h) /\ Held(h)[r[2]] = b
    BY <2>1
  <2>3. h \in RefHolders /\ Holding[h] = Held(h) /\ Held(h) \in Seq(Value)
    BY HolderCounted
  <2>4. r[2] \in Nat
    <3>1. DOMAIN Held(h) = 1 .. Len(Held(h)) /\ Len(Held(h)) \in Nat
      BY <2>3, SeqFacts
    <3>. QED
      BY <2>2, <3>1
  <2>. QED
    BY <2>2, <2>3, <2>4 DEF Spots
<1>2. RefHolders \in SUBSET HolderSet
  BY DEF RefHolders
<1>3. IsFiniteSet(S) /\ Refs(b) \in Nat /\ Refs(b) = Cardinality(S)
  <2>1. Filled(Holding, HolderSet, Value)
    BY <1>2, TallyType DEF IndInv, Control, Tallied
  <2>. QED
    BY <1>2, <2>1, SpotsFinite DEF Refs, Tally
<1>4. References(b) = Cardinality(R)
  BY DEF References
<1>. HIDE DEF R, S
<1>5. References(b) \in Nat /\ References(b) <= Refs(b)
  <2>1. IsFiniteSet(R) /\ Cardinality(R) <= Cardinality(S)
    BY <1>1, <1>3, FS_Subset
  <2>. QED
    BY <1>3, <1>4, <2>1, FS_CardinalityType
<1>6. Refs(b) > 0
  BY <1>3, <1>5
<1>7. PICK i \in Ready : Occ(slot[i].opens, {b}) >= Refs(b)
  BY <1>6 DEF IndInv, Tallied, RefsListed, Listed
<1>8. Occ(slot[i].opens, {b}) \in Nat
  BY OccType DEF IndInv, Control, Ready
<1>9. Occurrences(slot[i].opens, b) = Occ(slot[i].opens, {b})
  <2>1. {k \in DOMAIN slot[i].opens : slot[i].opens[k] = b} = Positions(slot[i].opens, {b})
    BY DEF Positions
  <2>. QED
    BY <2>1 DEF Occurrences, Occ
<1>. QED
  BY <1>3, <1>5, <1>7, <1>8, <1>9

(* A base somebody holds belongs to a ready library that lists it as often as it
   is held: opens that were handed the same base are separate references. *)
THEOREM AlwaysHoldsCounted ==
    ASSUME ~Preempt
    PROVE  Spec => []HoldsCounted
<1>1. IndInv => HoldsCounted
  BY HoldsListed
<1>. QED
  BY <1>1, Inductive, PTL

=============================================================================
