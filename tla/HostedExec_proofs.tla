-------------------------- MODULE HostedExec_proofs --------------------------
(***************************************************************************)
(* Proofs about HostedExec, for all casts of tasks, whatever their number  *)
(* and priorities: the queues of the kernel, Forbid, Wait and Signal, and  *)
(* DoIO, which implements the abstract device of DeviceIo, and the         *)
(* allocator, which implements the abstract pool of HeapPool.              *)
(***************************************************************************)
EXTENDS HostedExec, SequenceTheorems, FiniteSetTheorems, WellFoundedInduction, TLAPS

-----------------------------------------------------------------------------
(* Lists in order of priority                                              *)

LEMMA FunIsSeq == ASSUME NEW S, NEW n \in Nat, NEW f \in [1 .. n -> S]
                  PROVE  f \in Seq(S) /\ Len(f) = n
<1>1. f \in Seq(S)
  BY SeqDef
<1>2. DOMAIN f = 1 .. n /\ DOMAIN f = 1 .. Len(f) /\ Len(f) \in Nat
  BY <1>1, LenProperties
<1>3. Len(f) = n
  BY <1>2
<1>. QED
  BY <1>1, <1>3

(* A set of indices that is not empty has a least element. *)
LEMMA Least ==
    ASSUME NEW n \in Nat, NEW S \in SUBSET (1 .. n), S # {}
    PROVE  \E m \in S : \A k \in S : m <= k
<1>. DEFINE I == 1 .. n
            P == {1 .. k : k \in S}
<1>1. \A k \in S : k \in Nat /\ 1 .. k \subseteq I /\ IsFiniteSet(1 .. k)
  <2>. TAKE k \in S
  <2>1. k \in Nat /\ k >= 1 /\ k <= n
    OBVIOUS
  <2>2. IsFiniteSet(1 .. k)
    BY <2>1, FS_Interval
  <2>. QED
    BY <2>1, <2>2
<1>2. P \subseteq FiniteSubsetsOf(I) /\ P # {}
  BY <1>1 DEF FiniteSubsetsOf
<1>3. IsWellFoundedOn(StrictSubsetOrdering(I), FiniteSubsetsOf(I))
  BY FS_StrictSubsetOrderingWellFounded
<1>4. PICK x \in P : \A y \in P : ~ (<<y, x>> \in StrictSubsetOrdering(I))
  <2>. HIDE DEF P, I
  <2>. QED
    BY <1>2, <1>3, WFMin
<1>5. PICK m \in S : x = 1 .. m
  OBVIOUS
<1>6. ASSUME NEW k \in S, k < m PROVE FALSE
  <2>1. 1 .. k \in P /\ 1 .. k \subseteq 1 .. m /\ 1 .. m \subseteq I
    BY <1>6, <1>1
  <2>2. m \in 1 .. m /\ m \notin 1 .. k
    BY <1>6, <1>1
  <2>3. <<1 .. k, x>> \in StrictSubsetOrdering(I)
    BY <2>1, <2>2, <1>5 DEF StrictSubsetOrdering
  <2>. QED
    BY <2>1, <2>3, <1>4
<1>7. \A k \in S : k \in Nat /\ m \in Nat
  BY <1>1
<1>. QED
  BY <1>6, <1>7

(* Enqueue puts the task somewhere, behind those of its priority. *)
LEMMA EnqueuePlace ==
    ASSUME NEW list \in Seq(Task), NEW t \in Task, cast \in Cast
    PROVE  \E m \in 1 .. Len(list) + 1 :
             /\ \A j \in 1 .. m - 1 : cast.pri[list[j]] >= cast.pri[t]
             /\ m <= Len(list) => cast.pri[list[m]] < cast.pri[t]
             /\ Enqueue(list, t) = [k \in 1 .. Len(list) + 1 |->
                  IF k < m THEN list[k] ELSE IF k = m THEN t ELSE list[k - 1]]
<1>. DEFINE n == Len(list)
            K(k) == Keeps(list, t, k)
            S == {k \in 1 .. n + 1 : k = n + 1 \/ ~K(k)}
<1>1. n \in Nat /\ S \in SUBSET (1 .. n + 1) /\ n + 1 \in S
  BY LenProperties
<1>2. PICK m \in S : \A k \in S : m <= k
  <2>. HIDE DEF S, n
  <2>1. n + 1 \in Nat /\ S # {}
    BY <1>1
  <2>. QED
    BY <1>1, <2>1, Least
<1>3. m \in 1 .. n + 1
  BY <1>1
<1>4. \A k \in 1 .. m - 1 : K(k)
  BY <1>1, <1>2, <1>3 DEF Keeps
<1>5. \A j \in 1 .. m - 1 : cast.pri[list[j]] >= cast.pri[t]
  BY <1>3, <1>4 DEF Keeps
<1>6. \A k \in 1 .. n : list[k] \in Task /\ cast.pri[list[k]] \in Int
  BY DEF Cast
<1>7. m <= n => ~K(m)
  BY <1>1, <1>2, <1>3
<1>8. cast.pri[t] \in Int
  BY DEF Cast
<1>9. m <= n => cast.pri[list[m]] < cast.pri[t]
  <2>. HAVE m <= n
  <2>1. PICK j \in 1 .. m : ~(cast.pri[list[j]] >= cast.pri[t])
    BY <1>7 DEF Keeps
  <2>2. j = m
    BY <2>1, <1>5, <1>3, <1>1
  <2>3. m \in 1 .. n
    BY <1>3, <1>1
  <2>. QED
    BY <2>1, <2>2, <2>3, <1>6, <1>8
<1>10. \A k \in 1 .. n + 1 : m <= k /\ k <= n => ~K(k)
  BY <1>7, <1>3, <1>1 DEF Keeps
<1>11. ASSUME NEW k \in 1 .. n + 1
       PROVE  (IF k <= n /\ K(k) THEN list[k]
               ELSE IF k = 1 \/ K(k - 1) THEN t ELSE list[k - 1])
              = (IF k < m THEN list[k] ELSE IF k = m THEN t ELSE list[k - 1])
  <2>. HIDE DEF K
  <2>1. CASE k < m
    BY <2>1, <1>3, <1>4, <1>1
  <2>2. CASE k = m
    <3>1. ~(k <= n /\ K(k))
      BY <2>2, <1>7
    <3>2. k = 1 \/ K(k - 1)
      BY <2>2, <1>3, <1>4, <1>1
    <3>. QED
      BY <2>2, <3>1, <3>2
  <2>3. CASE k > m
    <3>1. ~(k <= n /\ K(k)) /\ k # 1
      BY <2>3, <1>10, <1>3, <1>1
    <3>2. k - 1 \in 1 .. n + 1 /\ m <= k - 1 /\ k - 1 <= n
      BY <2>3, <1>3, <1>1
    <3>3. ~K(k - 1)
      BY <3>2, <1>10
    <3>. QED
      BY <2>3, <3>1, <3>3, <1>3, <1>1
  <2>. QED
    BY <2>1, <2>2, <2>3, <1>3, <1>1
<1>12. Enqueue(list, t) = [k \in 1 .. n + 1 |->
          IF k < m THEN list[k] ELSE IF k = m THEN t ELSE list[k - 1]]
  BY <1>11 DEF Enqueue
<1>. QED
  BY <1>3, <1>5, <1>9, <1>12

(* The tasks of S, each once, in order. *)
Queue(list, S) == list \in Seq(Task) /\ InOrder(cast, list) /\ In(list) = S

(* What it means to be the queue of a set of tasks. *)
LEMMA QueueFacts ==
    ASSUME NEW S, NEW list, Queue(list, S)
    PROVE  /\ Len(list) \in Nat /\ S \subseteq Task
           /\ \A k \in 1 .. Len(list) : list[k] \in S /\ list[k] \in Task
           /\ \A j, k \in 1 .. Len(list) :
                j < k => list[j] # list[k] /\ cast.pri[list[j]] >= cast.pri[list[k]]
<1>1. Len(list) \in Nat /\ \A k \in 1 .. Len(list) : list[k] \in Task
  BY LenProperties, ElementOfSeq DEF Queue
<1>2. \A k \in 1 .. Len(list) : list[k] \in S
  BY DEF Queue, In
<1>3. S \subseteq Task
  BY <1>1 DEF Queue, In
<1>. QED
  BY <1>1, <1>2, <1>3 DEF Queue, InOrder

(* Enqueue adds one task to a queue. *)
LEMMA EnqueueQueue ==
    ASSUME cast \in Cast, NEW S, NEW list, Queue(list, S), NEW t \in Task, t \notin S
    PROVE  Queue(Enqueue(list, t), S \cup {t}) /\ Enqueue(list, t) # <<>>
<1>. DEFINE n == Len(list)
            E == Enqueue(list, t)
<1>1. /\ n \in Nat /\ \A k \in 1 .. n : list[k] \in S /\ list[k] \in Task
      /\ \A j, k \in 1 .. n :
           j < k => list[j] # list[k] /\ cast.pri[list[j]] >= cast.pri[list[k]]
  BY QueueFacts
<1>2. \A s \in Task : cast.pri[s] \in Int
  BY DEF Cast
<1>3. PICK m \in 1 .. n + 1 :
         /\ \A j \in 1 .. m - 1 : cast.pri[list[j]] >= cast.pri[t]
         /\ m <= n => cast.pri[list[m]] < cast.pri[t]
         /\ E = [k \in 1 .. n + 1 |->
                   IF k < m THEN list[k] ELSE IF k = m THEN t ELSE list[k - 1]]
  BY EnqueuePlace DEF Queue
<1>. HIDE DEF E, n
<1>4. \A k \in 1 .. n + 1 : /\ k < m => k \in 1 .. n /\ E[k] = list[k]
                            /\ k = m => E[k] = t
                            /\ k > m => k - 1 \in 1 .. n /\ E[k] = list[k - 1]
  BY <1>1, <1>3
<1>5. \A k \in 1 .. n + 1 : k < m \/ k = m \/ k > m
  BY <1>1, <1>3
<1>6. E \in [1 .. n + 1 -> Task]
  <2>1. \A k \in 1 .. n + 1 : E[k] \in Task
    BY <1>1, <1>4, <1>5
  <2>2. E = [k \in 1 .. n + 1 |-> E[k]]
    BY <1>3
  <2>. QED
    BY <2>1, <2>2
<1>7. E \in Seq(Task) /\ Len(E) = n + 1
  BY <1>1, <1>6, FunIsSeq
<1>8. InOrder(cast, E)
  <2>1. ASSUME NEW j \in 1 .. n + 1, NEW k \in 1 .. n + 1, j < k
        PROVE  E[j] # E[k] /\ cast.pri[E[j]] >= cast.pri[E[k]]
    <3>1. CASE k < m
      BY <3>1, <2>1, <1>1, <1>3, <1>4
    <3>2. CASE k = m
      BY <3>2, <2>1, <1>1, <1>3, <1>4
    <3>3. CASE j < m /\ k > m
      BY <3>3, <2>1, <1>1, <1>3, <1>4
    <3>4. CASE j = m /\ k > m
      <4>1. m \in 1 .. n /\ k - 1 \in 1 .. n /\ m <= k - 1
        BY <3>4, <1>1, <1>3, <1>4
      <4>2. cast.pri[list[m]] >= cast.pri[list[k - 1]]
        BY <4>1, <1>1, <1>2
      <4>3. cast.pri[t] >= cast.pri[list[k - 1]]
        BY <4>1, <4>2, <1>1, <1>2, <1>3
      <4>. QED
        BY <3>4, <4>1, <4>3, <1>1, <1>4
    <3>5. CASE j > m
      BY <3>5, <2>1, <1>1, <1>3, <1>4
    <3>. QED
      BY <3>1, <3>2, <3>3, <3>4, <3>5, <2>1, <1>3, <1>1
  <2>. QED
    BY <2>1, <1>7 DEF InOrder
<1>9. In(E) = S \cup {t}
  <2>1. \A k \in 1 .. n + 1 : E[k] \in S \cup {t}
    BY <1>1, <1>4, <1>5
  <2>2. \A k \in 1 .. n : \E j \in 1 .. n + 1 : E[j] = list[k]
    <3>. TAKE k \in 1 .. n
    <3>1. CASE k < m
      BY <3>1, <1>1, <1>4
    <3>2. CASE k >= m
      <4>1. k + 1 \in 1 .. n + 1 /\ k + 1 > m /\ (k + 1) - 1 = k
        BY <3>2, <1>1, <1>3
      <4>. QED
        BY <4>1, <1>4
    <3>. QED
      BY <3>1, <3>2, <1>1, <1>3
  <2>3. E[m] = t
    BY <1>4
  <2>4. S = {list[k] : k \in 1 .. n}
    BY DEF Queue, In, n
  <2>. QED
    BY <2>1, <2>2, <2>3, <2>4, <1>7 DEF In
<1>10. E # <<>>
  BY <1>7, <1>1
<1>. QED
  BY <1>7, <1>8, <1>9, <1>10 DEF Queue, E

(* Remove takes one task out of a queue. *)
LEMMA RemoveQueue ==
    ASSUME NEW S, NEW list, Queue(list, S), NEW t \in S
    PROVE  Queue(Remove(list, t), S \ {t})
<1>. DEFINE n == Len(list)
            i == CHOOSE k \in 1 .. n : list[k] = t
            R == Remove(list, t)
<1>1. /\ n \in Nat /\ \A k \in 1 .. n : list[k] \in S /\ list[k] \in Task
      /\ \A j, k \in 1 .. n :
           j < k => list[j] # list[k] /\ cast.pri[list[j]] >= cast.pri[list[k]]
  BY QueueFacts
<1>2. \E k \in 1 .. n : list[k] = t
  BY DEF Queue, In
<1>3. i \in 1 .. n /\ list[i] = t
  BY <1>2
<1>4. R = [k \in 1 .. n - 1 |-> IF k < i THEN list[k] ELSE list[k + 1]]
  BY DEF Remove
<1>. HIDE DEF R, n, i
<1>5. \A k \in 1 .. n - 1 : /\ k < i => k \in 1 .. n /\ R[k] = list[k]
                            /\ k >= i => k + 1 \in 1 .. n /\ R[k] = list[k + 1]
  BY <1>1, <1>3, <1>4
<1>6. R \in [1 .. n - 1 -> Task]
  <2>1. \A k \in 1 .. n - 1 : R[k] \in Task
    BY <1>1, <1>3, <1>5
  <2>2. R = [k \in 1 .. n - 1 |-> R[k]]
    BY <1>4
  <2>. QED
    BY <2>1, <2>2
<1>7. n - 1 \in Nat
  BY <1>1, <1>3
<1>8. R \in Seq(Task) /\ Len(R) = n - 1
  BY <1>6, <1>7, FunIsSeq
<1>9. ASSUME NEW j \in 1 .. n - 1, NEW k \in 1 .. n - 1, j < k
      PROVE  R[j] # R[k] /\ cast.pri[R[j]] >= cast.pri[R[k]]
  <2>1. CASE k < i
    BY <2>1, <1>9, <1>1, <1>3, <1>5
  <2>2. CASE j < i /\ k >= i
    BY <2>2, <1>9, <1>1, <1>3, <1>5
  <2>3. CASE j >= i
    BY <2>3, <1>9, <1>1, <1>3, <1>5
  <2>. QED
    BY <2>1, <2>2, <2>3, <1>9, <1>1, <1>3
<1>10. InOrder(cast, R)
  BY <1>8, <1>9 DEF InOrder
<1>11. In(R) = S \ {t}
  <2>1. ASSUME NEW k \in 1 .. n - 1 PROVE R[k] \in S /\ R[k] # t
    <3>1. CASE k < i
      BY <3>1, <1>1, <1>3, <1>5
    <3>2. CASE k >= i
      BY <3>2, <1>1, <1>3, <1>5
    <3>. QED
      BY <3>1, <3>2, <1>1, <1>3
  <2>2. ASSUME NEW k \in 1 .. n, list[k] # t PROVE \E j \in 1 .. n - 1 : R[j] = list[k]
    <3>1. CASE k < i
      BY <3>1, <1>1, <1>3, <1>5
    <3>2. CASE k > i
      <4>1. k - 1 \in 1 .. n - 1 /\ k - 1 >= i /\ (k - 1) + 1 = k
        BY <3>2, <1>1, <1>3
      <4>. QED
        BY <4>1, <1>5
    <3>. QED
      BY <3>1, <3>2, <2>2, <1>1, <1>3
  <2>3. S = {list[k] : k \in 1 .. n}
    BY DEF Queue, In, n
  <2>. QED
    BY <2>1, <2>2, <2>3, <1>8 DEF In
<1>. QED
  BY <1>8, <1>10, <1>11 DEF Queue, R

(* The head of a queue, taken off, leaves the queue of the others. *)
LEMMA TailQueue ==
    ASSUME NEW S, NEW list, Queue(list, S), list # <<>>
    PROVE  list[1] \in S /\ Queue(SubSeq(list, 2, Len(list)), S \ {list[1]})
<1>. DEFINE n == Len(list)
            R == SubSeq(list, 2, n)
<1>1. /\ n \in Nat /\ \A k \in 1 .. n : list[k] \in S /\ list[k] \in Task
      /\ \A j, k \in 1 .. n :
           j < k => list[j] # list[k] /\ cast.pri[list[j]] >= cast.pri[list[k]]
  BY QueueFacts
<1>2. n >= 1 /\ list \in Seq(Task)
  BY EmptySeq, LenProperties DEF Queue
<1>3. R \in Seq(Task) /\ Len(R) = n - 1 /\ \A k \in 1 .. n - 1 : R[k] = list[k + 1]
  <2>1. \A k \in 2 .. n : list[k] \in Task
    BY <1>1
  <2>2. 2 \in Int /\ n \in Int
    BY <1>1
  <2>3. /\ R \in Seq(Task) /\ Len(R) = IF 2 <= n THEN n - 2 + 1 ELSE 0
        /\ \A k \in 1 .. n - 2 + 1 : R[k] = list[2 + k - 1]
    <3>. HIDE DEF n
    <3>. QED
      BY ONLY <2>1, <2>2, SubSeqProperties
  <2>4. Len(R) = n - 1
    <3>. HIDE DEF R, n
    <3>1. n \in Nat /\ n >= 1 /\ Len(R) = IF 2 <= n THEN n - 2 + 1 ELSE 0
      BY <2>3, <1>1, <1>2
    <3>. QED
      BY ONLY <3>1
  <2>5. ASSUME NEW k \in 1 .. n - 1 PROVE R[k] = list[k + 1]
    <3>1. k \in 1 .. n - 2 + 1 /\ 2 + k - 1 = k + 1
      BY <1>1
    <3>. QED
      BY <2>3, <3>1
  <2>. QED
    BY <2>3, <2>4, <2>5
<1>. HIDE DEF R, n
<1>4. \A k \in 1 .. n - 1 : k + 1 \in 1 .. n /\ 1 < k + 1
  BY <1>1, <1>2
<1>5. InOrder(cast, R)
  <2>1. ASSUME NEW j \in 1 .. n - 1, NEW k \in 1 .. n - 1, j < k
        PROVE  R[j] # R[k] /\ cast.pri[R[j]] >= cast.pri[R[k]]
    <3>1. j + 1 \in 1 .. n /\ k + 1 \in 1 .. n /\ j + 1 < k + 1
      BY <2>1, <1>1, <1>4
    <3>. QED
      BY <3>1, <1>1, <1>3
  <2>. QED
    BY <2>1, <1>3 DEF InOrder
<1>6. In(R) = S \ {list[1]}
  <2>1. ASSUME NEW k \in 1 .. n - 1 PROVE R[k] \in S /\ R[k] # list[1]
    BY <1>1, <1>2, <1>3, <1>4
  <2>2. ASSUME NEW k \in 1 .. n, list[k] # list[1] PROVE \E j \in 1 .. n - 1 : R[j] = list[k]
    <3>1. k # 1 /\ k - 1 \in 1 .. n - 1 /\ (k - 1) + 1 = k
      BY <2>2, <1>1
    <3>. QED
      BY <3>1, <1>3
  <2>3. S = {list[k] : k \in 1 .. n}
    BY DEF Queue, In, n
  <2>4. \A x : x \in In(R) <=> \E k \in 1 .. n - 1 : R[k] = x
    BY <1>3 DEF In
  <2>5. In(R) \subseteq S \ {list[1]}
    BY <2>1, <2>4
  <2>6. ASSUME NEW x \in S \ {list[1]} PROVE x \in In(R)
    BY <2>2, <2>3, <2>4
  <2>. QED
    BY <2>5, <2>6
<1>. QED
  BY <1>1, <1>2, <1>3, <1>5, <1>6 DEF Queue, R, n

-----------------------------------------------------------------------------
(* The inductive invariant                                                 *)

Inside == {"in", "block", "park", "take", "wake", "out", "carve", "rest", "account", "close"}
(* Forbid is in force exactly while the task that has the thread is between
   its Forbid and its Permit. *)
ForbidExact ==
    /\ \A t \in Task : at[t] \in Inside => this = t
    /\ forbid = IF \E t \in Task : at[t] \in Inside THEN 1 ELSE 0
Belongs(stage, place) ==
    /\ stage # "call" => place \in Exec
    /\ stage \in {"block", "park", "spin", "restore", "take"} => place \in Waits
    /\ stage = "wake" => place \in Posts
    /\ stage \in {"carve", "rest", "account"} => place = "alloc"
    /\ stage = "close" => place = "free"
Placed == \A t \in Task : Belongs(at[t], pos[t])
(* The device task has a message from GetMsg to ReplyMsg. *)
InHand == \A d \in Task : Is(d, "device") /\ pos[d] \in {"serve", "reply", "ring"}
                          => cur \in Task
(* A task that sleeps is inside Wait; it has nothing of what it waits for,
   unless it is just being signalled. *)
Sleep ==
    /\ \A t \in Task : state[t] = "wait" => at[t] \in {"park", "spin"}
    /\ \A t \in Task : at[t] = "block" => recvd[t] \cap SigSet(t) = {}
    /\ \A t \in Task : state[t] = "wait" /\ recvd[t] \cap sigwait[t] # {}
                       => \E s \in Task : at[s] = "wake" /\ Target(s) = t
Listed == QueuedOnce /\ (on /\ this \in Task => state[this] # "ready")
IInv == TypeOK /\ ForbidExact /\ Placed /\ InHand /\ Sleep /\ Listed

-----------------------------------------------------------------------------
(* What the programs do                                                    *)

LEMMA CastFacts ==
    ASSUME NEW c \in Casts
    PROVE  /\ c \in Cast /\ \A t \in Task : c.role[t] \in Role
           /\ InOrder(c, c.queue) /\ Task = In(c.queue)
           /\ Has(c, "producer") <=> Has(c, "consumer")
           /\ Has(c, "client") => Has(c, "device")
           /\ \A s, t \in Task : c.role[s] = "device" /\ c.role[t] = "device" => s = t
BY CastAssumption DEF Cast, In

(* A task is at a place of its own program. *)
LEMMA RoleOf ==
    ASSUME KernelType, ProgramType, NEW t \in Task
    PROVE  cast.role[t] \in Role /\ pos[t] \in Program(cast.role[t])
BY CastFacts DEF KernelType, ProgramType

(* The task of a role that some task has. *)
LEMMA TheIs ==
    ASSUME NEW r, \E t \in Task : Is(t, r)
    PROVE  The(r) \in Task /\ Is(The(r), r)
BY DEF The

(* A call of exec returns into the program of its task. *)
LEMMA AfterFacts ==
    ASSUME KernelType, ProgramType, DeviceType, NEW t \in Task, pos[t] \in Exec
    PROVE  /\ After(t) \in Program(cast.role[t])
           /\ Is(t, "device") /\ After(t) \in {"serve", "reply", "ring"}
              => pos[t] = "reply" \/ cur \in Task
<1>1. cast.role[t] \in Role /\ pos[t] \in Program(cast.role[t])
  BY RoleOf
<1>2. cur \in Task \cup {None}
  BY DEF DeviceType
<1>3. CASE cast.role[t] = "producer"
  BY <1>1, <1>3 DEF Program, After, Is
<1>4. CASE cast.role[t] = "consumer"
  BY <1>1, <1>4 DEF Program, After, Is
<1>5. CASE cast.role[t] = "device"
  BY <1>1, <1>2, <1>5 DEF Program, After, Is, Exec, Posts, Waits
<1>6. CASE cast.role[t] = "client"
  BY <1>1, <1>6 DEF Program, After, Is, Exec, Posts, Waits
<1>7. CASE cast.role[t] = "worker"
  BY <1>1, <1>7 DEF Program, After, Is, Exec, Posts, Waits
<1>8. CASE cast.role[t] = "busy"
  BY <1>1, <1>8 DEF Program, Exec, Posts, Waits
<1>. QED
  BY <1>1, <1>3, <1>4, <1>5, <1>6, <1>7, <1>8 DEF Role

(* A signal goes to a task. *)
LEMMA TargetFacts ==
    ASSUME KernelType, ProgramType, InHand, NEW t \in Task, pos[t] \in Posts
    PROVE  Target(t) \in Task /\ Bit(t) \in SigBit
<1>1. cast.role[t] \in Role /\ pos[t] \in Program(cast.role[t])
  BY RoleOf
<1>2. Bit(t) \in SigBit
  BY DEF Bit, SigBit
<1>3. CASE cast.role[t] = "producer"
  <2>1. Has(cast, "producer") /\ Has(cast, "consumer")
    BY <1>3, CastFacts DEF KernelType, Has
  <2>2. The("consumer") \in Task
    BY <2>1, TheIs DEF Has, Is
  <2>3. pos[t] = "sendData"
    BY <1>1, <1>3 DEF Program, Posts
  <2>. QED
    BY <1>2, <2>2, <2>3 DEF Target
<1>4. CASE cast.role[t] = "consumer"
  <2>1. Has(cast, "producer") /\ Has(cast, "consumer")
    BY <1>4, CastFacts DEF KernelType, Has
  <2>2. The("producer") \in Task
    BY <2>1, TheIs DEF Has, Is
  <2>3. pos[t] = "sendAck"
    BY <1>1, <1>4 DEF Program, Posts
  <2>. QED
    BY <1>2, <2>2, <2>3 DEF Target
<1>5. CASE cast.role[t] = "device"
  <2>1. pos[t] = "ring"
    BY <1>1, <1>5 DEF Program, Posts
  <2>. QED
    BY <1>2, <1>5, <2>1 DEF Target, Is, InHand
<1>6. CASE cast.role[t] = "client"
  <2>1. Has(cast, "client") /\ Has(cast, "device")
    BY <1>6, CastFacts DEF KernelType, Has
  <2>2. The("device") \in Task
    BY <2>1, TheIs DEF Has, Is
  <2>3. pos[t] = "ring"
    BY <1>1, <1>6 DEF Program, Posts
  <2>. QED
    BY <1>2, <1>6, <2>2, <2>3 DEF Target, Is
<1>7. CASE cast.role[t] \in {"worker", "busy"}
  BY <1>1, <1>7 DEF Program, Posts
<1>. QED
  BY <1>1, <1>3, <1>4, <1>5, <1>6, <1>7 DEF Role

(* What a task waits for. *)
LEMMA SigSetType == ASSUME NEW t \in Task PROVE SigSet(t) \subseteq SigBit
BY DEF SigSet, SigBit

(* No task inside a critical section but the one that has the thread. *)
LEMMA OthersOutside ==
    ASSUME ForbidExact, NEW t \in Task, this = t
    PROVE  \A s \in Task : s # t => at[s] \notin Inside
BY DEF ForbidExact

(* While no task is being signalled, no sleeper has what it waits for. *)
LEMMA AwakeFacts ==
    ASSUME Sleep, ForbidExact, NEW t \in Task, this = t, at[t] # "wake"
    PROVE  /\ \A s \in Task : at[s] # "wake"
           /\ \A s \in Task : state[s] = "wait" => recvd[s] \cap sigwait[s] = {}
<1>1. \A s \in Task : at[s] # "wake"
  BY OthersOutside DEF Inside
<1>. QED
  BY <1>1 DEF Sleep

(* The lists hold as long as the kernel's state does not change. *)
LEMMA SameListed == ASSUME Listed, UNCHANGED <<cast, kernel>> PROVE Listed'
BY DEF Listed, QueuedOnce, InOrder, In, kernel

-----------------------------------------------------------------------------
(* The steps.  What a step inside a critical section, and a step outside    *)
(* the kernel, leave as it was.                                             *)

Core == KernelType /\ ProgramType /\ ForbidExact /\ Placed /\ Sleep /\ Listed

(* A step between Forbid and Permit. *)
LEMMA InsideStep ==
    ASSUME IInv, NEW t \in Task, NEW from \in {"in", "carve", "rest", "account", "close"},
           NEW to \in Inside \ {"wake"}, Steps(t, from, to), Belongs(to, pos[t]),
           to = "block" => recvd[t] \cap SigSet(t) = {},
           UNCHANGED <<cast, kernel, forbid, reg, signals, pos>>
    PROVE  Core'
<1>1. this = t /\ at[t] = from /\ at' = [at EXCEPT ![t] = to] /\ at \in [Task -> Stage]
  BY DEF Steps, Running, IInv, TypeOK, ProgramType
<1>2. KernelType'
  BY DEF IInv, TypeOK, KernelType, kernel, signals
<1>3. ProgramType'
  <2>1. to \in Stage
    BY DEF Inside, Stage
  <2>. QED
    BY <1>1, <2>1 DEF IInv, TypeOK, ProgramType
<1>4. ForbidExact'
  <2>1. from \in Inside
    BY DEF Inside
  <2>. QED
    BY <1>1, <2>1 DEF IInv, ForbidExact, kernel
<1>5. Placed'
  BY <1>1 DEF IInv, Placed, Belongs
<1>6. Sleep'
  <2>1. /\ \A s \in Task : at[s] # "wake"
        /\ \A s \in Task : state[s] = "wait" => recvd[s] \cap sigwait[s] = {}
    BY <1>1, AwakeFacts DEF IInv
  <2>2. \A s \in Task : SigSet(s)' = SigSet(s)
    BY DEF SigSet, Is
  <2>3. state[t] # "wait"
    BY <1>1 DEF IInv, Sleep
  <2>4. \A s \in Task : s # t => at'[s] = at[s] /\ at[s] # "block"
    BY <1>1, OthersOutside DEF IInv, Inside
  <2>5. at'[t] = to
    BY <1>1
  <2>. HIDE DEF SigSet
  <2>6. \A s \in Task : state'[s] = "wait" => at'[s] \in {"park", "spin"}
    BY <2>3, <2>4 DEF IInv, Sleep, kernel
  <2>7. \A s \in Task : at'[s] = "block" => recvd'[s] \cap SigSet(s)' = {}
    BY <2>2, <2>4, <2>5 DEF signals
  <2>8. \A s \in Task : ~(state'[s] = "wait" /\ recvd'[s] \cap sigwait'[s] # {})
    BY <2>1 DEF kernel, signals
  <2>. QED
    BY <2>6, <2>7, <2>8 DEF Sleep
<1>7. Listed'
  BY SameListed DEF IInv
<1>. QED
  BY <1>2, <1>3, <1>4, <1>5, <1>6, <1>7 DEF Core

(* A step of a program outside exec. *)
LEMMA OutsideStep ==
    ASSUME IInv, NEW t \in Task, NEW from, from \notin Exec, NEW to, Goes(t, from, to),
           to \in Program(cast.role[t])
    PROVE  Core'
<1>1. /\ this = t /\ pos[t] = from /\ pos' = [pos EXCEPT ![t] = to]
      /\ pos \in [Task -> UNION {Program(r) : r \in Role}]
      /\ UNCHANGED <<cast, kernel, forbid, reg, signals, at>>
  BY DEF Goes, Running, IInv, TypeOK, ProgramType
<1>2. at[t] = "call"
  BY <1>1 DEF IInv, Placed, Belongs
<1>3. \A s \in Task : at[s] \notin Inside
  BY <1>1, <1>2, OthersOutside DEF IInv, Inside
<1>4. KernelType'
  BY <1>1 DEF IInv, TypeOK, KernelType, kernel, signals
<1>5. ProgramType'
  <2>1. to \in UNION {Program(r) : r \in Role}
    BY RoleOf DEF IInv, TypeOK
  <2>. QED
    BY <1>1, <2>1 DEF IInv, TypeOK, ProgramType
<1>6. ForbidExact'
  BY <1>1, <1>3 DEF IInv, ForbidExact
<1>7. Placed'
  BY <1>1, <1>2 DEF IInv, Placed, Belongs
<1>8. Sleep'
  BY <1>1, <1>3 DEF IInv, Sleep, Inside, kernel, signals
<1>9. Listed'
  BY <1>1, SameListed DEF IInv
<1>. QED
  BY <1>4, <1>5, <1>6, <1>7, <1>8, <1>9 DEF Core

(* The device's variables keep their types. *)
LEMMA SameDevice == ASSUME DeviceType, UNCHANGED device PROVE DeviceType'
BY DEF DeviceType, device

(* The device task keeps its message. *)
LEMMA SameHand == ASSUME InHand, UNCHANGED <<cast, pos, cur>> PROVE InHand'
BY DEF InHand, Is

(* The alarm. *)
LEMMA TickStep == ASSUME IInv, Tick PROVE IInv'
<1>. DEFINE S == {s \in Task : state[s] = "ready"}
            R == S \cup (IF this # Boot /\ state[this] = "run" THEN {this} ELSE {})
<1>1. /\ on /\ forbid = 0 /\ ready # <<>>
      /\ this' = Switch[1] /\ ready' = SubSeq(Switch, 2, Len(Switch))
      /\ state' = [state EXCEPT ![this] = IF @ = "run" THEN "ready" ELSE @, ![this'] = "run"]
      /\ UNCHANGED <<cast, waiting, on, forbid, reg, signals, where, device, heap>>
  BY DEF Tick
<1>2. cast \in Cast /\ Boot \notin Task
  BY CastFacts, NameAssumption DEF IInv, TypeOK, KernelType
<1>3. Queue(ready, S)
  BY DEF IInv, Listed, QueuedOnce, TypeOK, KernelType, Queue
<1>4. this \in Task \cup {Boot} /\ state \in [Task \cup {Boot} -> {"run", "ready", "wait"}]
  BY DEF IInv, TypeOK, KernelType
<1>5. Queue(Switch, R) /\ Switch # <<>>
  <2>1. CASE this # Boot /\ state[this] = "run"
    <3>1. this \in Task /\ this \notin S /\ Switch = Enqueue(ready, this)
      BY <2>1, <1>4 DEF Switch
    <3>. QED
      BY <3>1, <2>1, <1>2, <1>3, EnqueueQueue
  <2>2. CASE ~(this # Boot /\ state[this] = "run")
    BY <2>2, <1>1, <1>3 DEF Switch
  <2>. QED
    BY <2>1, <2>2
<1>6. this' \in R /\ Queue(ready', R \ {this'})
  BY <1>1, <1>5, TailQueue
<1>7. this' \in Task /\ R \subseteq Task
  BY <1>4, <1>6
<1>8. state' \in [Task \cup {Boot} -> {"run", "ready", "wait"}]
  BY <1>1, <1>4, <1>7
<1>9. \A s \in Task : /\ s = this' => state'[s] = "run"
                      /\ s # this' /\ s = this => state'[s] = IF state[s] = "run" THEN "ready"
                                                              ELSE state[s]
                      /\ s # this' /\ s # this => state'[s] = state[s]
  BY <1>1, <1>4, <1>7
<1>10. on /\ \A s \in Task : state[s] = "run" => this = s
  BY <1>1 DEF IInv, Listed, QueuedOnce
<1>11. this \in Task => state[this] # "ready"
  BY <1>1 DEF IInv, Listed
<1>12. R \ {this'} = {s \in Task : state'[s] = "ready"}
  BY <1>2, <1>4, <1>7, <1>9, <1>10, <1>11
<1>13. \A s \in Task : state'[s] = "wait" <=> state[s] = "wait"
  BY <1>6, <1>9, <1>10, <1>11
<1>14. InOrder(cast, ready') /\ In(ready') = {s \in Task : state'[s] = "ready"}
       /\ ready' \in Seq(Task)
  BY <1>6, <1>12 DEF Queue
<1>. HIDE DEF R, S
<1>15. Listed'
  <2>1. (InOrder(cast, ready))' /\ (InOrder(cast, waiting))'
    BY <1>1, <1>14 DEF IInv, Listed, QueuedOnce, InOrder
  <2>2. In(ready)' = {s \in Task : state'[s] = "ready"}
    BY <1>14 DEF In
  <2>3. In(waiting)' = {s \in Task : state'[s] = "wait"}
    <3>1. In(waiting)' = In(waiting)
      BY <1>1 DEF In
    <3>2. In(waiting) = {s \in Task : state[s] = "wait"}
      BY DEF IInv, Listed, QueuedOnce
    <3>. QED
      BY <3>1, <3>2, <1>13
  <2>4. \A s \in Task : state'[s] = "run" => this' = s
    BY <1>9, <1>10
  <2>5. state'[this'] # "ready"
    BY <1>7, <1>9
  <2>. QED
    BY <2>1, <2>2, <2>3, <2>4, <2>5 DEF Listed, QueuedOnce
<1>16. TypeOK'
  <2>1. KernelType'
    BY <1>1, <1>7, <1>8, <1>14 DEF IInv, TypeOK, KernelType, signals
  <2>2. ProgramType' /\ DeviceType'
    BY <1>1, SameDevice DEF IInv, TypeOK, ProgramType, where
  <2>. QED
    BY <2>1, <2>2 DEF TypeOK
<1>17. \A s \in Task : at[s] \notin Inside
  BY <1>1 DEF IInv, ForbidExact
<1>18. ForbidExact'
  BY <1>1, <1>17 DEF ForbidExact, where
<1>19. Placed' /\ InHand'
  BY <1>1, SameHand DEF IInv, Placed, Belongs, where, device
<1>20. Sleep'
  <2>1. \A s \in Task : state[s] = "wait" => recvd[s] \cap sigwait[s] = {}
    BY <1>17 DEF IInv, Sleep, Inside
  <2>. QED
    BY <1>1, <1>13, <1>17, <2>1 DEF IInv, Sleep, Inside, where, signals
<1>. QED
  BY <1>15, <1>16, <1>18, <1>19, <1>20 DEF IInv

(* The main thread stops the prototype. *)
LEMMA ShutdownStep == ASSUME IInv, Shutdown PROVE IInv'
<1>1. /\ on /\ forbid = 0 /\ on' = FALSE /\ this' = Boot /\ state' = [state EXCEPT ![Boot] = "run"]
      /\ UNCHANGED <<cast, ready, waiting, forbid, reg, signals, where, device, heap>>
  BY DEF Shutdown
<1>2. Boot \notin Task /\ state \in [Task \cup {Boot} -> {"run", "ready", "wait"}]
  BY NameAssumption DEF IInv, TypeOK, KernelType
<1>3. /\ state' \in [Task \cup {Boot} -> {"run", "ready", "wait"}]
      /\ \A s \in Task : state'[s] = state[s]
  BY <1>1, <1>2
<1>4. \A s \in Task : at[s] \notin Inside
  BY <1>1 DEF IInv, ForbidExact
<1>5. TypeOK'
  BY <1>1, <1>3, SameDevice DEF IInv, TypeOK, KernelType, ProgramType, signals, where
<1>6. ForbidExact' /\ Placed' /\ InHand'
  BY <1>1, <1>4, SameHand DEF IInv, ForbidExact, Placed, Belongs, where, device
<1>7. Sleep'
  BY <1>1, <1>3, <1>4 DEF IInv, Sleep, Inside, where, signals
<1>8. Listed'
  BY <1>1, <1>3 DEF IInv, Listed, QueuedOnce, InOrder, In
<1>. QED
  BY <1>5, <1>6, <1>7, <1>8 DEF IInv

(* Forbid loads the count: nobody is inside, so it is 0. *)
LEMMA ForbidLoadStep == ASSUME IInv, NEW t \in Task, ForbidLoad(t) PROVE IInv'
<1>1. /\ this = t /\ reg' = [reg EXCEPT ![t] = forbid]
      /\ UNCHANGED <<cast, kernel, forbid, signals, pos, device, heap>>
  BY DEF ForbidLoad, Steps, Running
<1>2. PICK to \in {"store", "restore"} : /\ at' = [at EXCEPT ![t] = to]
                                         /\ at[t] \in {"call", "spin"} /\ state[t] # "wait"
                                         /\ Belongs(to, pos[t])
  <2>1. CASE pos[t] \in Exec /\ Steps(t, "call", "store")
    BY <2>1 DEF Steps, IInv, Sleep, Belongs
  <2>2. CASE state[t] # "wait" /\ Steps(t, "spin", "restore")
    BY <2>2 DEF Steps, IInv, Placed, Belongs
  <2>. QED
    BY <2>1, <2>2 DEF ForbidLoad
<1>3. \A s \in Task : at[s] \notin Inside
  BY <1>1, <1>2, OthersOutside DEF IInv, Inside
<1>4. forbid = 0
  BY <1>3 DEF IInv, ForbidExact
<1>5. at \in [Task -> Stage] /\ at' \in [Task -> Stage]
  BY <1>2 DEF IInv, TypeOK, ProgramType, Stage
<1>6. \A s \in Task : at'[s] = IF s = t THEN to ELSE at[s]
  BY <1>2, <1>5
<1>7. \A s \in Task : at'[s] \notin Inside
  BY <1>3, <1>6 DEF Inside
<1>8. TypeOK'
  BY <1>1, <1>4, <1>5, SameDevice DEF IInv, TypeOK, KernelType, ProgramType, kernel, signals
<1>9. ForbidExact' /\ InHand' /\ Listed'
  BY <1>1, <1>4, <1>7, SameHand, SameListed DEF IInv, ForbidExact, device
<1>10. Placed'
  BY <1>1, <1>2, <1>6 DEF IInv, Placed, Belongs
<1>11. Sleep'
  BY <1>1, <1>2, <1>3, <1>6, <1>7 DEF IInv, Sleep, Inside, kernel, signals
<1>. QED
  BY <1>8, <1>9, <1>10, <1>11 DEF IInv

(* Forbid stores it: whatever came between has left it at 0. *)
LEMMA ForbidStoreStep == ASSUME IInv, NEW t \in Task, ForbidStore(t) PROVE IInv'
<1>1. /\ this = t /\ forbid' = reg[t] + 1 /\ reg' = [reg EXCEPT ![t] = 0]
      /\ UNCHANGED <<cast, kernel, signals, pos, device, heap>>
  BY DEF ForbidStore, Steps, Running
<1>2. PICK to \in {"in", "take"} : /\ at' = [at EXCEPT ![t] = to]
                                   /\ at[t] \in {"store", "restore"}
                                   /\ Belongs(to, pos[t])
  BY DEF ForbidStore, Steps, IInv, Placed, Belongs
<1>3. \A s \in Task : at[s] \notin Inside
  BY <1>1, <1>2, OthersOutside DEF IInv, Inside
<1>4. reg[t] = 0 /\ reg \in [Task -> {0}] /\ reg' \in [Task -> {0}] /\ forbid' = 1
  BY <1>1 DEF IInv, TypeOK, KernelType
<1>5. at \in [Task -> Stage] /\ at' \in [Task -> Stage]
  BY <1>2 DEF IInv, TypeOK, ProgramType, Stage
<1>6. \A s \in Task : at'[s] = IF s = t THEN to ELSE at[s]
  BY <1>2, <1>5
<1>7. TypeOK'
  BY <1>1, <1>4, <1>5, SameDevice DEF IInv, TypeOK, KernelType, ProgramType, kernel, signals
<1>8. ForbidExact' /\ InHand' /\ Listed'
  <2>1. at'[t] \in Inside /\ \A s \in Task : at'[s] \in Inside => s = t
    BY <1>2, <1>3, <1>6 DEF Inside
  <2>2. ForbidExact'
    BY <1>1, <1>4, <2>1 DEF ForbidExact, kernel
  <2>. QED
    BY <1>1, <2>2, SameHand, SameListed DEF IInv, device
<1>9. Placed'
  BY <1>1, <1>2, <1>6 DEF IInv, Placed, Belongs
<1>10. Sleep'
  <2>1. \A s \in Task : at[s] \notin {"wake", "block"} /\ at'[s] \notin {"wake", "block"}
    BY <1>2, <1>3, <1>6 DEF Inside
  <2>2. state[t] # "wait"
    BY <1>2 DEF IInv, Sleep
  <2>. QED
    BY <1>1, <1>6, <2>1, <2>2 DEF IInv, Sleep, kernel, signals
<1>. QED
  BY <1>7, <1>8, <1>9, <1>10 DEF IInv

(* Permit. *)
LEMMA PermitStep == ASSUME IInv, NEW t \in Task, Permit(t) PROVE IInv'
<1>1. /\ this = t /\ forbid' = IF forbid > 0 THEN forbid - 1 ELSE 0
      /\ UNCHANGED <<cast, kernel, reg, signals, device, heap>>
  BY DEF Permit, Steps, Running
<1>2. PICK to \in {"call", "spin"}, place \in Program(cast.role[t]) :
         /\ at' = [at EXCEPT ![t] = to] /\ pos' = [pos EXCEPT ![t] = place]
         /\ at[t] \in {"out", "park"} /\ (to = "call" => at[t] = "out")
         /\ Belongs(to, place)
         /\ Is(t, "device") /\ place \in {"serve", "reply", "ring"} => cur \in Task
  <2>1. cast.role[t] \in Role /\ pos[t] \in Program(cast.role[t])
    BY RoleOf DEF IInv, TypeOK
  <2>2. CASE Steps(t, "out", "call") /\ pos' = [pos EXCEPT ![t] = After(t)]
    <3>1. pos[t] \in Exec
      BY <2>2 DEF Steps, IInv, Placed, Belongs
    <3>2. After(t) \in Program(cast.role[t])
          /\ (Is(t, "device") /\ After(t) \in {"serve", "reply", "ring"}
              => pos[t] = "reply" \/ cur \in Task)
      BY <3>1, AfterFacts DEF IInv, TypeOK
    <3>3. Is(t, "device") /\ pos[t] = "reply" => cur \in Task
      BY DEF IInv, InHand
    <3>4. Belongs("call", After(t))
      BY DEF Belongs
    <3>. QED
      BY <2>2, <3>2, <3>3, <3>4 DEF Steps
  <2>3. CASE Steps(t, "park", "spin") /\ UNCHANGED pos
    <3>1. Belongs("spin", pos[t])
      BY <2>3 DEF Steps, IInv, Placed, Belongs
    <3>2. pos' = [pos EXCEPT ![t] = pos[t]]
      BY <2>3 DEF IInv, TypeOK, ProgramType
    <3>3. Is(t, "device") /\ pos[t] \in {"serve", "reply", "ring"} => cur \in Task
      BY DEF IInv, InHand
    <3>. QED
      BY <2>1, <2>3, <3>1, <3>2, <3>3 DEF Steps
  <2>. QED
    BY <2>2, <2>3 DEF Permit
<1>3. \A s \in Task : s # t => at[s] \notin Inside
  BY <1>1, OthersOutside DEF IInv
<1>4. at[t] \in Inside /\ forbid = 1 /\ forbid' = 0
  BY <1>1, <1>2 DEF IInv, ForbidExact, Inside
<1>5. /\ at \in [Task -> Stage] /\ at' \in [Task -> Stage]
      /\ pos \in [Task -> UNION {Program(r) : r \in Role}]
      /\ pos' \in [Task -> UNION {Program(r) : r \in Role}]
  <2>1. place \in UNION {Program(r) : r \in Role}
    BY <1>2, RoleOf DEF IInv, TypeOK
  <2>. QED
    BY <1>2, <2>1 DEF IInv, TypeOK, ProgramType, Stage
<1>6. \A s \in Task : /\ at'[s] = IF s = t THEN to ELSE at[s]
                      /\ pos'[s] = IF s = t THEN place ELSE pos[s]
  BY <1>2, <1>5
<1>7. \A s \in Task : at'[s] \notin Inside
  BY <1>2, <1>3, <1>6 DEF Inside
<1>8. TypeOK'
  <2>1. KernelType' /\ DeviceType'
    BY <1>1, <1>4, SameDevice DEF IInv, TypeOK, KernelType, kernel, signals
  <2>2. ProgramType'
    BY <1>1, <1>2, <1>5, <1>6 DEF IInv, TypeOK, ProgramType
  <2>. QED
    BY <2>1, <2>2 DEF TypeOK
<1>9. ForbidExact' /\ Listed'
  BY <1>1, <1>4, <1>7, SameListed DEF IInv, ForbidExact
<1>10. InHand'
  BY <1>1, <1>2, <1>6 DEF IInv, InHand, Is, device
<1>11. Placed'
  BY <1>2, <1>6 DEF IInv, Placed, Belongs
<1>12. Sleep'
  <2>1. /\ \A s \in Task : at[s] # "wake"
        /\ \A s \in Task : state[s] = "wait" => recvd[s] \cap sigwait[s] = {}
    BY <1>1, <1>2, AwakeFacts DEF IInv
  <2>2. state[t] = "wait" => to = "spin"
    BY <1>2 DEF IInv, Sleep
  <2>3. \A s \in Task : at'[s] # "block"
    BY <1>7 DEF Inside
  <2>. QED
    BY <1>1, <1>6, <2>1, <2>2, <2>3 DEF IInv, Sleep, kernel, signals
<1>. QED
  BY <1>8, <1>9, <1>10, <1>11, <1>12 DEF IInv

(* Wait looks at what has come. *)
LEMMA TestStep == ASSUME IInv, NEW t \in Task, Test(t) PROVE IInv'
<1>. DEFINE to == IF recvd[t] \cap SigSet(t) = {} THEN "block" ELSE "take"
<1>1. /\ pos[t] \in Waits /\ Steps(t, "in", to)
      /\ UNCHANGED <<cast, kernel, forbid, reg, signals, pos, device, heap>>
  BY DEF Test
<1>2. Belongs(to, pos[t]) /\ to \in Inside \ {"wake"}
      /\ (to = "block" => recvd[t] \cap SigSet(t) = {})
  BY <1>1 DEF Belongs, Exec, Inside
<1>. HIDE DEF to
<1>3. Core'
  BY <1>1, <1>2, InsideStep
<1>. QED
  BY <1>1, <1>3, SameDevice, SameHand DEF IInv, Core, TypeOK, device

(* Wait queues its task: nothing can have come since the test. *)
LEMMA BlockStep == ASSUME IInv, NEW t \in Task, Block(t) PROVE IInv'
<1>1. /\ on /\ this = t /\ at[t] = "block" /\ at' = [at EXCEPT ![t] = "park"]
      /\ sigwait' = [sigwait EXCEPT ![t] = SigSet(t)]
      /\ state' = [state EXCEPT ![t] = "wait"] /\ waiting' = Enqueue(waiting, t)
      /\ UNCHANGED <<cast, this, ready, on, forbid, reg, recvd, pos, device, heap>>
  BY DEF Block, Steps, Running
<1>2. cast \in Cast /\ Boot \notin Task
  BY CastFacts, NameAssumption DEF IInv, TypeOK, KernelType
<1>3. /\ at \in [Task -> Stage] /\ at' \in [Task -> Stage]
      /\ state \in [Task \cup {Boot} -> {"run", "ready", "wait"}]
      /\ state' \in [Task \cup {Boot} -> {"run", "ready", "wait"}]
      /\ sigwait \in [Task -> SUBSET SigBit] /\ sigwait' \in [Task -> SUBSET SigBit]
  BY <1>1, SigSetType DEF IInv, TypeOK, KernelType, ProgramType, Stage
<1>4. \A s \in Task : /\ at'[s] = IF s = t THEN "park" ELSE at[s]
                      /\ state'[s] = IF s = t THEN "wait" ELSE state[s]
                      /\ sigwait'[s] = IF s = t THEN SigSet(t) ELSE sigwait[s]
  BY <1>1, <1>3
<1>5. state[t] = "run"
  <2>1. state[t] # "wait" /\ state[t] # "ready"
    BY <1>1 DEF IInv, Sleep, Listed
  <2>. QED
    BY <2>1, <1>3
<1>6. Queue(waiting, {s \in Task : state[s] = "wait"})
  BY DEF IInv, Listed, QueuedOnce, TypeOK, KernelType, Queue
<1>7. Queue(waiting', {s \in Task : state[s] = "wait"} \cup {t})
  BY <1>1, <1>2, <1>5, <1>6, EnqueueQueue
<1>8. /\ waiting' \in Seq(Task) /\ InOrder(cast, waiting')
      /\ In(waiting') = {s \in Task : state'[s] = "wait"}
  <2>1. {s \in Task : state[s] = "wait"} \cup {t} = {s \in Task : state'[s] = "wait"}
    BY <1>4
  <2>. QED
    BY <1>7, <2>1 DEF Queue
<1>9. TypeOK'
  BY <1>1, <1>3, <1>8, SameDevice DEF IInv, TypeOK, KernelType, ProgramType
<1>10. ForbidExact' /\ InHand'
  BY <1>1, <1>4, SameHand DEF IInv, ForbidExact, Inside, device
<1>11. Placed'
  BY <1>1, <1>4 DEF IInv, Placed, Belongs
<1>12. Sleep'
  <2>1. /\ \A s \in Task : at[s] # "wake"
        /\ \A s \in Task : state[s] = "wait" => recvd[s] \cap sigwait[s] = {}
    BY <1>1, AwakeFacts DEF IInv
  <2>2. recvd[t] \cap SigSet(t) = {}
    BY <1>1 DEF IInv, Sleep
  <2>3. \A s \in Task : at'[s] # "block"
    BY <1>1, <1>4, OthersOutside DEF IInv, Inside
  <2>. QED
    BY <1>1, <1>4, <2>1, <2>2, <2>3 DEF IInv, Sleep
<1>13. Listed'
  <2>1. (InOrder(cast, ready))' /\ (InOrder(cast, waiting))'
    BY <1>1, <1>8 DEF IInv, Listed, QueuedOnce, InOrder
  <2>2. In(ready)' = {s \in Task : state'[s] = "ready"}
    BY <1>1, <1>4, <1>5 DEF IInv, Listed, QueuedOnce, In
  <2>3. In(waiting)' = {s \in Task : state'[s] = "wait"}
    BY <1>8 DEF In
  <2>. QED
    BY <1>1, <1>4, <2>1, <2>2, <2>3 DEF IInv, Listed, QueuedOnce
<1>. QED
  BY <1>9, <1>10, <1>11, <1>12, <1>13 DEF IInv

(* Wait takes what it waited for. *)
LEMMA TakeStep == ASSUME IInv, NEW t \in Task, Take(t) PROVE IInv'
<1>1. /\ this = t /\ at[t] = "take" /\ at' = [at EXCEPT ![t] = "out"]
      /\ recvd' = [recvd EXCEPT ![t] = @ \ SigSet(t)]
      /\ UNCHANGED <<cast, kernel, forbid, reg, sigwait, pos, device, heap>>
  BY DEF Take, Steps, Running
<1>2. /\ at \in [Task -> Stage] /\ at' \in [Task -> Stage]
      /\ recvd \in [Task -> SUBSET SigBit] /\ recvd' \in [Task -> SUBSET SigBit]
  BY <1>1 DEF IInv, TypeOK, KernelType, ProgramType, Stage
<1>3. \A s \in Task : /\ at'[s] = IF s = t THEN "out" ELSE at[s]
                      /\ recvd'[s] \subseteq recvd[s] /\ (s # t => recvd'[s] = recvd[s])
  BY <1>1, <1>2
<1>4. TypeOK'
  BY <1>1, <1>2, SameDevice DEF IInv, TypeOK, KernelType, ProgramType, kernel
<1>5. ForbidExact' /\ InHand' /\ Listed'
  BY <1>1, <1>3, SameHand, SameListed DEF IInv, ForbidExact, Inside, device, kernel
<1>6. Placed'
  BY <1>1, <1>3 DEF IInv, Placed, Belongs
<1>7. Sleep'
  <2>1. /\ \A s \in Task : at[s] # "wake"
        /\ \A s \in Task : state[s] = "wait" => recvd[s] \cap sigwait[s] = {}
    BY <1>1, AwakeFacts DEF IInv
  <2>2. \A s \in Task : at'[s] # "block"
    BY <1>1, <1>3, OthersOutside DEF IInv, Inside
  <2>3. state[t] # "wait"
    BY <1>1 DEF IInv, Sleep
  <2>. QED
    BY <1>1, <1>3, <2>1, <2>2, <2>3 DEF IInv, Sleep, kernel
<1>. QED
  BY <1>4, <1>5, <1>6, <1>7 DEF IInv

(* Signal sets the bit. *)
LEMMA PostStep == ASSUME IInv, NEW t \in Task, Post(t) PROVE IInv'
<1>1. /\ this = t /\ at[t] = "in" /\ at' = [at EXCEPT ![t] = "wake"] /\ pos[t] \in Posts
      /\ recvd' = [recvd EXCEPT ![Target(t)] = @ \cup {Bit(t)}]
      /\ UNCHANGED <<cast, kernel, forbid, reg, sigwait, pos, device, heap>>
  BY DEF Post, Steps, Running
<1>2. Target(t) \in Task /\ Bit(t) \in SigBit
  BY <1>1, TargetFacts DEF IInv, TypeOK
<1>3. Target(t)' = Target(t)
  BY <1>1 DEF Target, The, Is, device
<1>. HIDE DEF Target
<1>4. /\ at \in [Task -> Stage] /\ at' \in [Task -> Stage]
      /\ recvd \in [Task -> SUBSET SigBit] /\ recvd' \in [Task -> SUBSET SigBit]
  BY <1>1, <1>2 DEF IInv, TypeOK, KernelType, ProgramType, Stage
<1>5. \A s \in Task : /\ at'[s] = IF s = t THEN "wake" ELSE at[s]
                      /\ s # Target(t) => recvd'[s] = recvd[s]
  BY <1>1, <1>2, <1>4
<1>6. TypeOK'
  BY <1>1, <1>4, SameDevice DEF IInv, TypeOK, KernelType, ProgramType, kernel
<1>7. ForbidExact' /\ InHand' /\ Listed'
  BY <1>1, <1>5, SameHand, SameListed DEF IInv, ForbidExact, Inside, device, kernel
<1>8. Placed'
  BY <1>1, <1>5 DEF IInv, Placed, Belongs, Exec
<1>9. Sleep'
  <2>1. \A s \in Task : state[s] = "wait" => recvd[s] \cap sigwait[s] = {}
    BY <1>1, AwakeFacts DEF IInv
  <2>2. \A s \in Task : at'[s] # "block"
    BY <1>1, <1>5, OthersOutside DEF IInv, Inside
  <2>3. \A s \in Task : state'[s] = "wait" => at'[s] \in {"park", "spin"}
    BY <1>1, <1>5 DEF IInv, Sleep, kernel
  <2>4. \A s \in Task : state'[s] = "wait" /\ recvd'[s] \cap sigwait'[s] # {}
                        => at'[t] = "wake" /\ Target(t)' = s
    BY <1>1, <1>3, <1>5, <2>1 DEF kernel
  <2>. QED
    BY <2>2, <2>3, <2>4 DEF Sleep
<1>. QED
  BY <1>6, <1>7, <1>8, <1>9 DEF IInv

(* Signal moves the sleeper to the other list. *)
LEMMA WakeStep == ASSUME IInv, NEW t \in Task, Wake(t) PROVE IInv'
<1>. DEFINE s == Target(t)
            W == {u \in Task : state[u] = "wait"}
            R == {u \in Task : state[u] = "ready"}
<1>1. /\ on /\ this = t /\ at[t] = "wake" /\ at' = [at EXCEPT ![t] = "out"]
      /\ UNCHANGED <<cast, this, on, forbid, reg, signals, pos, device, heap>>
  BY DEF Wake, Steps, Running
<1>2. pos[t] \in Posts
  BY <1>1 DEF IInv, Placed, Belongs
<1>3. s \in Task
  BY <1>2, TargetFacts DEF IInv, TypeOK
<1>4. cast \in Cast /\ Boot \notin Task
  BY CastFacts, NameAssumption DEF IInv, TypeOK, KernelType
<1>5. /\ at \in [Task -> Stage] /\ at' \in [Task -> Stage]
      /\ state \in [Task \cup {Boot} -> {"run", "ready", "wait"}]
  BY <1>1 DEF IInv, TypeOK, KernelType, ProgramType, Stage
<1>6. \A u \in Task : at'[u] = IF u = t THEN "out" ELSE at[u]
  BY <1>1, <1>5
<1>7. \A u \in Task : at[u] = "wake" => u = t
  BY <1>1, OthersOutside DEF IInv, Inside
<1>8. \A u \in Task : at'[u] \notin {"wake", "block"}
  BY <1>1, <1>6, OthersOutside DEF IInv, Inside
<1>9. Queue(ready, R) /\ Queue(waiting, W)
  BY DEF IInv, Listed, QueuedOnce, TypeOK, KernelType, Queue
<1>10. \A u \in Task : state[u] = "wait" /\ recvd[u] \cap sigwait[u] # {} => u = s
  <2>. HIDE DEF s
  <2>1. \A u \in Task : state[u] = "wait" /\ recvd[u] \cap sigwait[u] # {}
                        => \E v \in Task : at[v] = "wake" /\ Target(v) = u
    BY DEF IInv, Sleep
  <2>. QED
    BY <1>7, <2>1 DEF s
<1>11. ForbidExact' /\ InHand' /\ Placed'
  BY <1>1, <1>6, SameHand DEF IInv, ForbidExact, Inside, Placed, Belongs, Exec, device
<1>12. ProgramType' /\ DeviceType'
  BY <1>1, <1>5, SameDevice DEF IInv, TypeOK, ProgramType
<1>13. CASE recvd[s] \cap sigwait[s] # {} /\ state[s] = "wait"
  <2>1. /\ waiting' = Remove(waiting, s) /\ ready' = Enqueue(ready, s)
        /\ state' = [state EXCEPT ![s] = "ready"]
    BY <1>13 DEF Wake
  <2>. HIDE DEF s
  <2>2. /\ state' \in [Task \cup {Boot} -> {"run", "ready", "wait"}]
        /\ \A u \in Task : state'[u] = IF u = s THEN "ready" ELSE state[u]
    BY <1>3, <1>5, <2>1
  <2>3. Queue(waiting', W \ {s}) /\ Queue(ready', R \cup {s})
    <3>1. s \in W /\ s \notin R
      BY <1>3, <1>13
    <3>. HIDE DEF W, R
    <3>. QED
      BY <2>1, <3>1, <1>3, <1>4, <1>9, EnqueueQueue, RemoveQueue
  <2>4. /\ W \ {s} = {u \in Task : state'[u] = "wait"}
        /\ R \cup {s} = {u \in Task : state'[u] = "ready"}
    BY <1>3, <2>2
  <2>5. /\ waiting' \in Seq(Task) /\ InOrder(cast, waiting')
        /\ In(waiting') = {u \in Task : state'[u] = "wait"}
        /\ ready' \in Seq(Task) /\ InOrder(cast, ready')
        /\ In(ready') = {u \in Task : state'[u] = "ready"}
    BY <2>3, <2>4 DEF Queue
  <2>6. KernelType'
    BY <1>1, <2>2, <2>5 DEF IInv, TypeOK, KernelType, signals
  <2>7. s # t
    BY <1>1, <1>13 DEF IInv, Sleep
  <2>8. Sleep'
    <3>1. \A u \in Task : ~(state'[u] = "wait" /\ recvd'[u] \cap sigwait'[u] # {})
      BY <1>1, <1>10, <2>2 DEF signals
    <3>2. \A u \in Task : state'[u] = "wait" => at'[u] \in {"park", "spin"}
      BY <1>1, <1>6, <2>2 DEF IInv, Sleep
    <3>. QED
      BY <1>8, <3>1, <3>2 DEF Sleep
  <2>9. Listed'
    <3>1. (InOrder(cast, ready))' /\ (InOrder(cast, waiting))'
      BY <1>1, <2>5 DEF InOrder
    <3>2. In(ready)' = {u \in Task : state'[u] = "ready"}
          /\ In(waiting)' = {u \in Task : state'[u] = "wait"}
      BY <2>5 DEF In
    <3>3. this' = t /\ state'[t] = state[t] /\ state[t] # "ready"
      BY <1>1, <2>2, <2>7 DEF IInv, Listed
    <3>4. \A u \in Task : state'[u] = "run" => this' = u
      BY <1>1, <2>2 DEF IInv, Listed, QueuedOnce
    <3>. QED
      BY <3>1, <3>2, <3>3, <3>4 DEF Listed, QueuedOnce
  <2>. QED
    BY <1>11, <1>12, <2>6, <2>8, <2>9 DEF IInv, TypeOK
<1>14. CASE ~(recvd[s] \cap sigwait[s] # {} /\ state[s] = "wait")
  <2>1. UNCHANGED <<state, waiting, ready>>
    BY <1>14 DEF Wake
  <2>. HIDE DEF s
  <2>2. KernelType' /\ Listed'
    BY <1>1, <2>1, SameListed DEF IInv, TypeOK, KernelType, signals, kernel
  <2>3. Sleep'
    <3>1. \A u \in Task : ~(state'[u] = "wait" /\ recvd'[u] \cap sigwait'[u] # {})
      BY <1>1, <1>10, <1>14, <2>1 DEF signals
    <3>2. \A u \in Task : state'[u] = "wait" => at'[u] \in {"park", "spin"}
      BY <1>1, <1>6, <2>1 DEF IInv, Sleep
    <3>. QED
      BY <1>8, <3>1, <3>2 DEF Sleep
  <2>. QED
    BY <1>11, <1>12, <2>2, <2>3 DEF IInv, TypeOK
<1>. QED
  BY <1>13, <1>14

-----------------------------------------------------------------------------
(* Messages, the device and its client                                     *)

LEMMA WhoIsWhere ==
    ASSUME KernelType, ProgramType, NEW t \in Task
    PROVE  /\ pos[t] \in {"put", "fill", "check"} => Is(t, "client")
           /\ pos[t] \in {"serve", "reply"} => Is(t, "device")
           /\ pos[t] \in {"look", "fetch"} => Is(t, "client") \/ Is(t, "device")
           /\ pos[t] \in {"use", "pause"} => Is(t, "worker")
<1>1. cast.role[t] \in Role /\ pos[t] \in Program(cast.role[t])
  BY RoleOf
<1>2. CASE cast.role[t] \in {"producer", "consumer", "busy"}
  BY <1>1, <1>2 DEF Program
<1>3. CASE cast.role[t] = "device"
  BY <1>1, <1>3 DEF Program, Is
<1>4. CASE cast.role[t] = "client"
  BY <1>1, <1>4 DEF Program, Is
<1>5. CASE cast.role[t] = "worker"
  BY <1>1, <1>5 DEF Program, Is
<1>. QED
  BY <1>1, <1>2, <1>3, <1>4, <1>5 DEF Role

(* A step that leaves the device's variables to the last conjuncts. *)
LEMMA FromCore == ASSUME Core', DeviceType', InHand' PROVE IInv'
BY DEF Core, IInv, TypeOK

(* PutMsg and ReplyMsg. *)
LEMMA AddTailStep == ASSUME IInv, NEW t \in Task, AddTail(t) PROVE IInv'
<1>. DEFINE m == IF pos[t] = "put" THEN t ELSE cur
            to == IF pos[t] = "put" THEN The("device") ELSE cur
<1>1. /\ pos[t] \in {"put", "reply"} /\ Steps(t, "in", "out")
      /\ port' = [port EXCEPT ![to] = Append(@, m)]
      /\ UNCHANGED <<cast, kernel, forbid, reg, signals, pos, cur, io, file, heap>>
  BY DEF AddTail
<1>2. Core'
  <2>1. Belongs("out", pos[t]) /\ "out" \in Inside \ {"wake"}
    BY <1>1 DEF Belongs, Exec, Inside
  <2>. QED
    BY <1>1, <2>1, InsideStep
<1>3. m \in Task /\ to \in Task
  <2>1. CASE pos[t] = "put"
    <3>1. Is(t, "client")
      BY <2>1, WhoIsWhere DEF IInv, TypeOK
    <3>2. Has(cast, "device")
      BY <3>1, CastFacts DEF IInv, TypeOK, KernelType, Has, Is
    <3>. QED
      BY <2>1, <3>2, TheIs DEF Has, Is
  <2>2. CASE pos[t] = "reply"
    BY <2>2, WhoIsWhere DEF IInv, TypeOK, InHand
  <2>. QED
    BY <1>1, <2>1, <2>2
<1>. HIDE DEF m, to
<1>4. DeviceType'
  <2>1. port \in [Task -> Seq(Task)] /\ port[to] \in Seq(Task)
    BY <1>3 DEF IInv, TypeOK, DeviceType
  <2>2. Append(port[to], m) \in Seq(Task)
    BY <1>3, <2>1, AppendProperties
  <2>3. port' \in [Task -> Seq(Task)]
    BY <1>1, <2>1, <2>2
  <2>. QED
    BY <1>1, <2>3 DEF IInv, TypeOK, DeviceType
<1>. QED
  BY <1>1, <1>2, <1>4, FromCore, SameHand DEF IInv

(* GetMsg. *)
LEMMA RemHeadStep == ASSUME IInv, NEW t \in Task, RemHead(t) PROVE IInv'
<1>1. /\ pos[t] = "fetch" /\ Steps(t, "in", "out")
      /\ port' = [port EXCEPT ![t] = IF @ = <<>> THEN @ ELSE Tail(@)]
      /\ IF Is(t, "client") THEN UNCHANGED cur
         ELSE cur' = IF port[t] = <<>> THEN None ELSE port[t][1]
      /\ UNCHANGED <<cast, kernel, forbid, reg, signals, pos, io, file, heap>>
  BY DEF RemHead
<1>2. Core'
  <2>1. Belongs("out", pos[t]) /\ "out" \in Inside \ {"wake"}
    BY <1>1 DEF Belongs, Exec, Posts, Waits, Inside
  <2>. QED
    BY <1>1, <2>1, InsideStep
<1>3. DeviceType'
  <2>1. port \in [Task -> Seq(Task)] /\ port[t] \in Seq(Task) /\ cur \in Task \cup {None}
    BY DEF IInv, TypeOK, DeviceType
  <2>2. port[t] # <<>> => Tail(port[t]) \in Seq(Task) /\ port[t][1] \in Task
    BY <2>1, EmptySeq, ElementOfSeq
  <2>3. port' \in [Task -> Seq(Task)]
    BY <1>1, <2>1, <2>2
  <2>4. cur' \in Task \cup {None}
    BY <1>1, <2>1, <2>2
  <2>. QED
    BY <1>1, <2>3, <2>4 DEF IInv, TypeOK, DeviceType
<1>4. InHand'
  <2>1. CASE Is(t, "client")
    BY <1>1, <2>1, SameHand DEF IInv
  <2>2. CASE ~Is(t, "client")
    <3>1. Is(t, "device")
      BY <1>1, <2>2, WhoIsWhere DEF IInv, TypeOK
    <3>2. \A d \in Task : Is(d, "device") => d = t
      BY <3>1, CastFacts DEF IInv, TypeOK, KernelType, Is
    <3>3. \A d \in Task : Is(d, "device")' => pos'[d] = "fetch"
      BY <1>1, <3>2 DEF Is
    <3>. QED
      BY <3>3 DEF InHand
  <2>. QED
    BY <2>1, <2>2
<1>. QED
  BY <1>2, <1>3, <1>4, FromCore

(* WaitPort's test. *)
LEMMA LookStep == ASSUME IInv, NEW t \in Task, Look(t) PROVE IInv'
<1>. DEFINE to == IF port[t] = <<>> THEN "wait" ELSE "fetch"
<1>1. Goes(t, "look", to) /\ UNCHANGED <<device, heap>>
  BY DEF Look
<1>2. Is(t, "client") \/ Is(t, "device")
  BY <1>1, WhoIsWhere DEF IInv, TypeOK, Goes
<1>3. to \in Program(cast.role[t])
  BY <1>2 DEF Program, Is
<1>4. to \in {"wait", "fetch"}
  OBVIOUS
<1>. HIDE DEF to
<1>5. "look" \notin Exec
  BY DEF Exec, Posts, Waits
<1>6. Core'
  BY <1>1, <1>3, <1>5, OutsideStep
<1>7. InHand'
  <2>1. \A d \in Task : pos'[d] = IF d = t THEN to ELSE pos[d]
    BY <1>1 DEF Goes, IInv, TypeOK, ProgramType
  <2>. QED
    BY <1>1, <1>4, <2>1 DEF IInv, InHand, Is, Goes, device
<1>. QED
  BY <1>1, <1>6, <1>7, FromCore, SameDevice DEF IInv, TypeOK

(* A step of a task that is not the device's leaves the device its message. *)
LEMMA HandKept ==
    ASSUME IInv, NEW t \in Task, NEW from, NEW to, Goes(t, from, to),
           ~Is(t, "device") \/ to \notin {"serve", "reply", "ring"} \/ from = "serve",
           UNCHANGED cur
    PROVE  InHand'
<1>1. \A d \in Task : pos'[d] = IF d = t THEN to ELSE pos[d]
  BY DEF Goes, IInv, TypeOK, ProgramType
<1>. QED
  BY <1>1 DEF IInv, InHand, Is, Goes

Requested == [cmd : {"none", "read", "write"}, val : Val, err : BOOLEAN]

(* A client fills in a request. *)
LEMMA FillStep == ASSUME IInv, NEW t \in Task, Fill(t) PROVE IInv'
<1>1. Goes(t, "fill", "put") /\ UNCHANGED <<port, cur, file, heap>>
  BY DEF Fill
<1>2. Is(t, "client") /\ "fill" \notin Exec
  BY <1>1, WhoIsWhere DEF IInv, TypeOK, Goes, Exec, Posts, Waits
<1>3. Core'
  <2>1. "put" \in Program(cast.role[t])
    BY <1>2 DEF Program, Is
  <2>. QED
    BY <1>1, <1>2, <2>1, OutsideStep
<1>4. InHand'
  BY <1>1, <1>2, HandKept
<1>5. DeviceType'
  <2>1. PICK r \in Requested : io' = [io EXCEPT ![t] = r]
    <3>1. CASE io[t].cmd = "write" /\ ~io[t].err
      BY <3>1, NameAssumption DEF Fill, Requested
    <3>2. CASE ~(io[t].cmd = "write" /\ ~io[t].err)
      BY <3>2 DEF Fill, Requested
    <3>. QED
      BY <3>1, <3>2
  <2>. QED
    BY <1>1, <2>1 DEF IInv, TypeOK, DeviceType, Requested
<1>. QED
  BY <1>3, <1>4, <1>5, FromCore

(* The device performs one. *)
LEMMA ServeStep == ASSUME IInv, NEW t \in Task, Serve(t) PROVE IInv'
<1>1. Goes(t, "serve", "reply") /\ UNCHANGED <<port, cur, heap>>
  BY DEF Serve
<1>2. Is(t, "device") /\ "serve" \notin Exec
  BY <1>1, WhoIsWhere DEF IInv, TypeOK, Goes, Exec, Posts, Waits
<1>3. cur \in Task
  BY <1>1, <1>2 DEF IInv, InHand, Goes
<1>4. Core'
  <2>1. "reply" \in Program(cast.role[t])
    BY <1>2 DEF Program, Is
  <2>. QED
    BY <1>1, <1>2, <2>1, OutsideStep
<1>5. InHand'
  BY <1>1, HandKept
<1>6. DeviceType'
  <2>1. io \in [Task -> Requested] /\ io[cur] \in Requested /\ file \in Val
    BY <1>3 DEF IInv, TypeOK, DeviceType, Requested
  <2>2. io' \in [Task -> Requested] /\ file' \in Val
    <3>1. ASSUME NEW e \in BOOLEAN, io' = [io EXCEPT ![cur].err = e]
          PROVE  io' \in [Task -> Requested]
      <4>1. [io[cur] EXCEPT !.err = e] \in Requested
        BY <2>1 DEF Requested
      <4>2. io' = [io EXCEPT ![cur] = [io[cur] EXCEPT !.err = e]]
        BY <3>1
      <4>. QED
        BY <1>3, <2>1, <4>1, <4>2
    <3>2. ASSUME NEW v \in Val, NEW e \in BOOLEAN,
                 io' = [io EXCEPT ![cur].val = v, ![cur].err = e]
          PROVE  io' \in [Task -> Requested]
      <4>1. [io[cur] EXCEPT !.val = v, !.err = e] \in Requested
        BY <2>1 DEF Requested
      <4>2. io' = [io EXCEPT ![cur] = [io[cur] EXCEPT !.val = v, !.err = e]]
        BY <1>3, <2>1, <3>2
      <4>. QED
        BY <1>3, <2>1, <4>1, <4>2
    <3>3. io[cur].val \in Val
      BY <2>1 DEF Requested
    <3>. QED
      BY <2>1, <3>1, <3>2, <3>3 DEF Serve
  <2>. QED
    BY <1>1, <2>2 DEF IInv, TypeOK, DeviceType, Requested
<1>. QED
  BY <1>4, <1>5, <1>6, FromCore

(* A client goes on to its next round. *)
LEMMA CheckStep == ASSUME IInv, NEW t \in Task, Check(t) PROVE IInv'
<1>1. Goes(t, "check", "fill") /\ UNCHANGED <<device, heap>>
  BY DEF Check
<1>2. Is(t, "client") /\ "check" \notin Exec
  BY <1>1, WhoIsWhere DEF IInv, TypeOK, Goes, Exec, Posts, Waits
<1>3. Core'
  <2>1. "fill" \in Program(cast.role[t])
    BY <1>2 DEF Program, Is
  <2>. QED
    BY <1>1, <1>2, <2>1, OutsideStep
<1>4. InHand'
  BY <1>1, HandKept DEF device
<1>. QED
  BY <1>1, <1>3, <1>4, FromCore, SameDevice DEF IInv, TypeOK

-----------------------------------------------------------------------------
(* The allocator                                                           *)

LEMMA MemoryStep == ASSUME IInv, NEW t \in Task, Memory(t) PROVE IInv'
<1>1. CASE Use(t) \/ Pause(t)
  <2>1. PICK from \in {"use", "pause"}, to \in {"free", "alloc"} :
          Goes(t, from, to) /\ UNCHANGED device
    BY <1>1 DEF Use, Pause
  <2>2. from \notin Exec /\ to \notin {"serve", "reply", "ring"}
    BY DEF Exec, Posts, Waits
  <2>3. to \in Program(cast.role[t])
    <3>1. Is(t, "worker")
      BY <2>1, WhoIsWhere DEF IInv, TypeOK, Goes
    <3>. QED
      BY <3>1 DEF Program, Is
  <2>4. Core'
    BY <2>1, <2>2, <2>3, OutsideStep
  <2>5. InHand'
    BY <2>1, <2>2, HandKept DEF device
  <2>. QED
    BY <2>1, <2>4, <2>5, FromCore, SameDevice DEF IInv, TypeOK
<1>2. CASE Search(t) \/ Carve(t) \/ Rest(t) \/ Account(t) \/ Insert(t) \/ Close(t)
  <2>1. InHeap(t)
    BY <1>2 DEF Search, Carve, Rest, Account, Insert, Close
  <2>2. PICK from \in {"in", "carve", "rest", "account", "close"},
             to \in {"out", "carve", "rest", "account", "close"} :
          Steps(t, from, to) /\ Belongs(to, pos[t])
    <3>1. ASSUME Search(t) PROVE pos[t] = "alloc" /\ (Steps(t, "in", "out") \/ Steps(t, "in", "carve"))
      BY <3>1 DEF Search
    <3>2. ASSUME Carve(t) PROVE /\ at[t] = "carve"
                                /\ Steps(t, "carve", "account") \/ Steps(t, "carve", "rest")
      BY <3>2 DEF Carve, Steps
    <3>3. ASSUME Rest(t) PROVE at[t] = "rest" /\ Steps(t, "rest", "account")
      BY <3>3 DEF Rest, Steps
    <3>4. ASSUME Account(t) PROVE at[t] = "account" /\ Steps(t, "account", "out")
      BY <3>4 DEF Account, Steps
    <3>5. ASSUME Insert(t) PROVE pos[t] = "free" /\ (Steps(t, "in", "out") \/ Steps(t, "in", "close"))
      BY <3>5 DEF Insert
    <3>6. ASSUME Close(t) PROVE at[t] = "close" /\ Steps(t, "close", "out")
      BY <3>6 DEF Close, Steps
    <3>7. at[t] \in {"carve", "rest", "account"} => pos[t] = "alloc"
      BY DEF IInv, Placed, Belongs
    <3>8. at[t] = "close" => pos[t] = "free"
      BY DEF IInv, Placed, Belongs
    <3>9. /\ pos[t] = "alloc" => \A to \in {"out", "carve", "rest", "account"} : Belongs(to, pos[t])
          /\ pos[t] = "free" => \A to \in {"out", "close"} : Belongs(to, pos[t])
      BY DEF Belongs, Exec
    <3>. QED
      BY <1>2, <3>1, <3>2, <3>3, <3>4, <3>5, <3>6, <3>7, <3>8, <3>9
  <2>3. to \in Inside \ {"wake"} /\ to # "block"
    BY DEF Inside
  <2>4. Core'
    BY <2>1, <2>2, <2>3, InsideStep DEF InHeap
  <2>. QED
    BY <2>1, <2>4, FromCore, SameDevice, SameHand DEF InHeap, IInv, TypeOK, device
<1>. QED
  BY <1>1, <1>2 DEF Memory

-----------------------------------------------------------------------------
(* The theorems                                                            *)

LEMMA InitIInv == ASSUME Init PROVE IInv
<1>1. /\ cast \in Cast /\ Queue(cast.queue, Task)
      /\ \A t \in Task : cast.role[t] \in Role
  <2>1. cast \in Casts /\ cast \in Cast /\ cast.queue \in Seq(Task)
    BY CastFacts DEF Init, Cast
  <2>. QED
    BY <2>1, CastFacts DEF Queue
<1>2. Boot \notin Task /\ None \notin Task /\ Zero \in Val
  BY NameAssumption
<1>3. \A t \in Task : state[t] = "ready" /\ at[t] = "call"
  BY <1>2 DEF Init
<1>4. KernelType
  BY <1>1, <1>2 DEF Init, KernelType, Queue
<1>5. ProgramType
  <2>1. \A r \in Role : Starts(r) \in Program(r)
    BY DEF Role, Starts, Program
  <2>2. \A t \in Task : /\ pos[t] \in Program(cast.role[t])
                         /\ pos[t] \in UNION {Program(r) : r \in Role}
    BY <1>1, <2>1 DEF Init
  <2>. QED
    BY <2>2 DEF Init, ProgramType, Stage
<1>6. DeviceType
  BY <1>2 DEF Init, DeviceType
<1>7. ForbidExact /\ Placed /\ Sleep
  BY <1>3 DEF Init, ForbidExact, Placed, Belongs, Sleep, Inside
<1>8. InHand
  <2>1. \A d \in Task : Is(d, "device") => pos[d] = "look"
    BY DEF Init, Is, Starts
  <2>. QED
    BY <2>1 DEF InHand
<1>9. Listed
  <2>1. InOrder(cast, ready) /\ In(ready) = Task /\ In(waiting) = {}
    BY <1>1 DEF Init, Queue, In
  <2>2. InOrder(cast, waiting)
    BY DEF Init, InOrder
  <2>3. /\ {t \in Task : state[t] = "ready"} = Task
        /\ {t \in Task : state[t] = "wait"} = {}
    BY <1>3
  <2>4. on /\ this = Boot /\ \A t \in Task : state[t] # "run"
    BY <1>3 DEF Init
  <2>. QED
    BY <1>2, <2>1, <2>2, <2>3, <2>4 DEF Listed, QueuedOnce
<1>. QED
  BY <1>4, <1>5, <1>6, <1>7, <1>8, <1>9 DEF IInv, TypeOK

(* Every step keeps the inductive invariant. *)
LEMMA NextIInv == ASSUME IInv, [Next]_vars PROVE IInv'
<1>1. CASE Next
  <2>1. ASSUME NEW t \in Task, Step(t) PROVE IInv'
    <3>1. CASE Calls(t)
      BY <3>1, ForbidLoadStep, ForbidStoreStep, PermitStep DEF Calls
    <3>2. CASE Signalling(t)
      BY <3>2, TestStep, BlockStep, TakeStep, PostStep, WakeStep DEF Signalling
    <3>3. CASE Messages(t)
      BY <3>3, AddTailStep, RemHeadStep, LookStep DEF Messages
    <3>4. CASE Requests(t)
      BY <3>4, FillStep, ServeStep, CheckStep DEF Requests
    <3>. QED
      BY <2>1, <3>1, <3>2, <3>3, <3>4, MemoryStep DEF Step
  <2>. QED
    BY <1>1, <2>1, TickStep, ShutdownStep DEF Next
<1>2. CASE UNCHANGED vars
  <2>1. UNCHANGED <<cast, kernel, forbid, reg, signals, where, device>>
    BY <1>2 DEF vars
  <2>2. \A t \in Task : Target(t)' = Target(t) /\ SigSet(t)' = SigSet(t)
    BY <2>1 DEF Target, SigSet, The, Is, where, device
  <2>3. TypeOK' /\ ForbidExact' /\ Placed' /\ InHand' /\ Listed'
    BY <2>1, SameDevice, SameHand, SameListed
       DEF IInv, TypeOK, KernelType, ProgramType, ForbidExact, Placed, Belongs,
           kernel, signals, where, device
  <2>. HIDE DEF Target, SigSet
  <2>4. Sleep'
    BY <2>1, <2>2 DEF IInv, Sleep, kernel, signals, where
  <2>. QED
    BY <2>3, <2>4 DEF IInv
<1>. QED
  BY <1>1, <1>2

(* The inductive invariant holds in every state the kernel reaches: the lists,
   the count of Forbid, who sleeps and what for. *)
THEOREM Inductive == Spec => []IInv
BY InitIInv, NextIInv, PTL DEF Spec

(* The kernel's state is well formed, and forbid_cnt never exceeds one and is
   what Forbid loaded of it, for every number of tasks and every cast:
   dispatching is disabled exactly by the task that asked for it. *)
THEOREM KernelTypeCorrect == Spec => []TypeOK
<1>1. IInv => TypeOK
  BY DEF IInv
<1>. QED
  BY <1>1, Inductive, PTL

(* However many tasks of whatever priority the alarm switches between, each
   is on the list of its state, once, in its place (Enqueue, Remove, the
   handler on_alarm). *)
THEOREM TasksQueuedOnce == Spec => []QueuedOnce
<1>1. IInv => QueuedOnce
  BY DEF IInv, Listed
<1>. QED
  BY <1>1, Inductive, PTL

(* Wait and Signal lose no wakeup, for every number of tasks, whenever the
   alarm comes. *)
THEOREM NoWakeupLost == Spec => []NoLostWakeup
<1>1. IInv => NoLostWakeup
  <2>. SUFFICES ASSUME IInv, forbid = 0
                PROVE  \A t \in Task : state[t] = "wait" => recvd[t] \cap sigwait[t] = {}
    BY DEF NoLostWakeup
  <2>1. \A s \in Task : at[s] \notin Inside
    BY DEF IInv, ForbidExact
  <2>. QED
    BY <2>1 DEF IInv, Sleep, Inside
<1>. QED
  BY <1>1, Inductive, PTL

-----------------------------------------------------------------------------
(* DoIO: where each request's message is.                                  *)

InPort(d, c) == \E k \in 1 .. Len(port[d]) : port[d][k] = c
(* The device task has a message from GetMsg until it has put it on the
   client's port. *)
Busy(d) == \/ pos[d] = "serve"
           \/ pos[d] = "fetch" /\ at[d] = "out"
           \/ pos[d] = "reply" /\ at[d] # "out"
Asked(d, c) == \/ InPort(d, c)
               \/ cur = c /\ pos[d] = "serve"
               \/ cur = c /\ pos[d] = "fetch" /\ at[d] = "out"
Holds(d, c) == InPort(d, c) \/ (cur = c /\ Busy(d))
(* A client whose message the device cannot have, and one that may have its
   answer on its port. *)
Free(c) == \/ pos[c] \in {"fill", "check", "fetch"}
           \/ pos[c] = "put" /\ at[c] # "out"
           \/ port[c] # <<>>
Answered(c) == pos[c] \in {"ring", "look", "wait"} \/ (pos[c] = "fetch" /\ at[c] # "out")
(* The messages the device has are those of clients, each once. *)
Once(d) == /\ \A j, k \in 1 .. Len(port[d]) : port[d][j] = port[d][k] => j = k
           /\ \A k \in 1 .. Len(port[d]) : Is(port[d][k], "client")
           /\ Busy(d) /\ cur # None => Is(cur, "client") /\ ~InPort(d, cur)
(* The message of a client is on one port or in the device's hand: on its own
   only as an answer, and never while the device has it. *)
Trip(d, c) == /\ port[c] = <<>> \/ (Len(port[c]) = 1 /\ Answered(c))
              /\ Free(c) => ~Holds(d, c)
              /\ pos[c] = "put" /\ at[c] = "out" => InPort(d, c)
Trips == \A d \in Task : Is(d, "device") =>
           Once(d) /\ \A c \in Task : Is(c, "client") => Trip(d, c)

(* A prototype has one device task, and it is no client. *)
LEMMA OneDevice ==
    ASSUME KernelType, NEW d \in Task, Is(d, "device")
    PROVE  /\ \A e \in Task : Is(e, "device") => e = d
           /\ The("device") = d
           /\ \A c \in Task : Is(c, "client") => c # d
<1>1. \A e \in Task : Is(e, "device") => e = d
  BY CastFacts DEF KernelType, Is
<1>2. The("device") = d
  BY <1>1, TheIs
<1>3. \A c \in Task : Is(c, "client") => c # d
  BY DEF Is
<1>. QED
  BY <1>1, <1>2, <1>3

(* A prototype with a client has a device task. *)
LEMMA ClientHasDevice ==
    ASSUME KernelType, NEW c \in Task, Is(c, "client")
    PROVE  \E d \in Task : Is(d, "device")
BY CastFacts DEF KernelType, Is, Has

(* Only the one device and its clients have to be looked at. *)
LEMMA TripsFrom ==
    ASSUME KernelType, NEW d \in Task, Is(d, "device"), UNCHANGED cast,
           Once(d)', \A c \in Task : Is(c, "client") => Trip(d, c)'
    PROVE  Trips'
<1>1. \A e \in Task : Is(e, "device")' => e = d
  BY OneDevice DEF Is
<1>2. \A c \in Task : Is(c, "client")' => Is(c, "client")
  BY DEF Is
<1>. QED
  BY <1>1, <1>2 DEF Trips

(* A step that leaves a client alone, and gives the device none of its
   messages, leaves its message where it may be. *)
LEMMA TripKept ==
    ASSUME NEW d \in Task, NEW c \in Task, Trip(d, c), port'[c] = port[c], pos'[c] = pos[c],
           pos[c] \in {"put", "fetch"} => (at'[c] = "out" <=> at[c] = "out"),
           Holds(d, c)' => Holds(d, c),
           pos[c] = "put" /\ at[c] = "out" /\ InPort(d, c) => InPort(d, c)'
    PROVE  Trip(d, c)'
BY DEF Trip, Free, Answered

(* So does a step that leaves the device's port and hand alone. *)
LEMMA OnceKept ==
    ASSUME NEW d \in Task, Once(d), port'[d] = port[d], cur' = cur, UNCHANGED cast,
           Busy(d)' /\ cur # None => Busy(d)
    PROVE  Once(d)'
<1>1. \A c : InPort(d, c)' <=> InPort(d, c)
  BY DEF InPort
<1>. QED
  BY <1>1 DEF Once, Is

(* What a client's request has come to, now and after a step, read off the
   one device. *)
LEMMA PhaseOf ==
    ASSUME KernelType, NEW d \in Task, Is(d, "device"), NEW c \in Task, Is(c, "client"),
           UNCHANGED cast
    PROVE  /\ Phase(c)  = (IF pos[c] \in {"fill", "check"} THEN "idle"
                           ELSE IF pos[c] = "put" \/ Asked(d, c) THEN "asked" ELSE "done")
           /\ Phase(c)' = (IF pos'[c] \in {"fill", "check"} THEN "idle"
                           ELSE IF pos'[c] = "put" \/ Asked(d, c)' THEN "asked" ELSE "done")
<1>1. \A e \in Task : Is(e, "device") <=> e = d
  BY OneDevice
<1>2. \A e \in Task, r \in Role : Is(e, r)' <=> Is(e, r)
  BY DEF Is
<1>3. \A e \in Task : Is(e, "device")' <=> e = d
  BY <1>1, <1>2 DEF Role
<1>4. Is(c, "client")'
  BY <1>2 DEF Role
<1>5. (\E e \in Task : /\ Is(e, "device")
                       /\ \/ c \in In(port[e])
                          \/ cur = c /\ pos[e] = "serve"
                          \/ cur = c /\ pos[e] = "fetch" /\ at[e] = "out")
      <=> Asked(d, c)
  BY <1>1 DEF Asked, InPort, In
<1>6. (\E e \in Task : /\ Is(e, "device")'
                       /\ \/ c \in In(port'[e])
                          \/ cur' = c /\ pos'[e] = "serve"
                          \/ cur' = c /\ pos'[e] = "fetch" /\ at'[e] = "out")
      <=> Asked(d, c)'
  BY <1>3 DEF Asked, InPort, In
<1>7. Phase(c)  = (IF pos[c] \in {"fill", "check"} THEN "idle"
                   ELSE IF pos[c] = "put" \/ Asked(d, c) THEN "asked" ELSE "done")
  BY <1>5 DEF Phase
<1>8. Phase(c)' = (IF pos'[c] \in {"fill", "check"} THEN "idle"
                   ELSE IF pos'[c] = "put" \/ Asked(d, c)' THEN "asked" ELSE "done")
  BY <1>4, <1>6 DEF Phase, In
<1>. QED
  BY <1>7, <1>8

(* A task that is no client never asks. *)
LEMMA PhaseIdle ==
    ASSUME NEW c \in Task, ~Is(c, "client"), UNCHANGED cast
    PROVE  Phase(c) = "idle" /\ Phase(c)' = "idle"
<1>1. ~Is(c, "client")'
  BY DEF Is
<1>. QED
  BY <1>1 DEF Phase

(* A request's phase changes only with its client's place or the device's
   message. *)
LEMMA PhaseKept ==
    ASSUME KernelType, NEW d \in Task, Is(d, "device"), NEW c \in Task, UNCHANGED cast,
           Is(c, "client") => /\ pos'[c] = pos[c]
                              /\ pos[c] \notin {"fill", "check", "put"}
                                 => (Asked(d, c)' <=> Asked(d, c))
    PROVE  Phase(c)' = Phase(c)
BY PhaseOf, PhaseIdle

-----------------------------------------------------------------------------
(* What the abstract device sees of a step.                                *)

(* A stutter: no request changes its phase, no request or file its content. *)
LEMMA NothingSeen ==
    ASSUME \A c \in Task : Phase(c)' = Phase(c), UNCHANGED <<io, file>>
    PROVE  UNCHANGED Device!vars
BY DEF Device!vars

(* A client fills its request in. *)
LEMMA AskSeen ==
    ASSUME NEW c \in Task, Phase(c) = "idle", Phase(c)' = "asked",
           \A e \in Task : e # c => Phase(e)' = Phase(e) /\ io'[e] = io[e],
           io'[c] \in Device!Io, file' = file
    PROVE  Device!Ask(c)
<1>. DEFINE R == [e \in Task |-> [phase |-> Phase(e), io |-> io[e]]]
            S == [e \in Task |-> [phase |-> Phase(e)', io |-> io'[e]]]
<1>1. S = [R EXCEPT ![c] = [phase |-> "asked", io |-> io'[c]]]
  OBVIOUS
<1>2. R[c].phase = "idle"
  OBVIOUS
<1>. QED
  BY <1>1, <1>2 DEF Device!Ask

(* The device performs a request. *)
LEMMA PerformSeen ==
    ASSUME NEW c \in Task, Phase(c) = "asked", Phase(c)' = "done",
           \A e \in Task : e # c => Phase(e)' = Phase(e) /\ io'[e] = io[e],
           NEW v \in Val, NEW err \in BOOLEAN,
           io'[c] = [cmd |-> io[c].cmd, val |-> v, err |-> err],
           io[c].cmd = "read" => file' = file /\ (~err => v = file),
           io[c].cmd # "read" => v = io[c].val /\ file' \in Val /\ (~err => file' = v)
    PROVE  Device!Perform(c)
<1>. DEFINE R == [e \in Task |-> [phase |-> Phase(e), io |-> io[e]]]
            S == [e \in Task |-> [phase |-> Phase(e)', io |-> io'[e]]]
<1>1. S = [R EXCEPT ![c] = [phase |-> "done",
                            io |-> [cmd |-> @.io.cmd, val |-> v, err |-> err]]]
  OBVIOUS
<1>2. R[c].phase = "asked" /\ R[c].io = io[c]
  OBVIOUS
<1>. HIDE DEF R, S
<1>3. /\ R[c].phase = "asked"
      /\ S = [R EXCEPT ![c] = [phase |-> "done",
                            io |-> [cmd |-> @.io.cmd, val |-> v, err |-> err]]]
      /\ IF R[c].io.cmd = "read" THEN file' = file /\ (~err => v = file)
         ELSE v = R[c].io.val /\ file' \in Val /\ (~err => file' = v)
  BY <1>1, <1>2
<1>. QED
  BY <1>3 DEF Device!Perform, R, S

(* DoIO returns. *)
LEMMA ReturnSeen ==
    ASSUME NEW c \in Task, Phase(c) = "done", Phase(c)' = "idle",
           \A e \in Task : e # c => Phase(e)' = Phase(e), UNCHANGED <<io, file>>
    PROVE  Device!Return(c)
<1>. DEFINE R == [e \in Task |-> [phase |-> Phase(e), io |-> io[e]]]
            S == [e \in Task |-> [phase |-> Phase(e)', io |-> io'[e]]]
<1>1. S = [R EXCEPT ![c].phase = "idle"]
  OBVIOUS
<1>2. R[c].phase = "done"
  OBVIOUS
<1>. QED
  BY <1>1, <1>2 DEF Device!Return

(* Steps that the clients' requests do not notice. *)
Quiet == /\ UNCHANGED <<cast, port, cur, io, file>>
         /\ \A s \in Task : Is(s, "client") \/ Is(s, "device") =>
              /\ pos'[s] = pos[s]
              /\ pos[s] \in {"put", "fetch", "reply"} => (at'[s] = "out" <=> at[s] = "out")
Follows == Trips' /\ [Device!Next]_(Device!vars)

(* A quiet step is a stutter of the abstract device. *)
LEMMA QuietFollows == ASSUME KernelType, Trips, Quiet PROVE Follows
<1>1. ASSUME NEW d \in Task, Is(d, "device")
      PROVE  /\ Busy(d)' <=> Busy(d)
             /\ \A c : /\ InPort(d, c)' <=> InPort(d, c)
                       /\ Holds(d, c)' <=> Holds(d, c)
                       /\ Asked(d, c)' <=> Asked(d, c)
  BY <1>1 DEF Quiet, Busy, InPort, Holds, Asked
<1>2. Trips'
  <2>. SUFFICES ASSUME NEW d \in Task, Is(d, "device")' PROVE
                  Once(d)' /\ \A c \in Task : Is(c, "client")' => Trip(d, c)'
    BY DEF Trips
  <2>1. Is(d, "device")
    BY DEF Is, Quiet
  <2>2. Once(d)'
    BY <1>1, <2>1, OnceKept DEF Quiet, Trips
  <2>3. ASSUME NEW c \in Task, Is(c, "client")' PROVE Trip(d, c)'
    <3>1. Is(c, "client")
      BY <2>3 DEF Is, Quiet
    <3>. QED
      BY <1>1, <2>1, <3>1, TripKept DEF Quiet, Trips
  <2>. QED
    BY <2>2, <2>3
<1>3. ASSUME NEW c \in Task PROVE Phase(c)' = Phase(c)
  <2>1. CASE Is(c, "client")
    <3>1. PICK d \in Task : Is(d, "device")
      BY <2>1, ClientHasDevice
    <3>. QED
      BY <1>1, <2>1, <3>1, PhaseKept DEF Quiet
  <2>2. CASE ~Is(c, "client")
    BY <2>2, PhaseIdle DEF Quiet
  <2>. QED
    BY <2>1, <2>2
<1>. QED
  BY <1>2, <1>3, NothingSeen DEF Follows, Quiet

(* A step inside a call that neither fetches nor puts a message is quiet. *)
LEMMA AtQuiet ==
    ASSUME NEW t \in Task, NEW to, at' = [at EXCEPT ![t] = to], ProgramType,
           pos[t] \in {"put", "fetch", "reply"} => (to = "out" <=> at[t] = "out"),
           UNCHANGED <<cast, pos, port, cur, io, file>>
    PROVE  Quiet
<1>1. \A s \in Task : at'[s] = IF s = t THEN to ELSE at[s]
  BY DEF ProgramType
<1>. QED
  BY <1>1 DEF Quiet

(* So is a step of a task that is neither the device nor a client. *)
LEMMA PosQuiet ==
    ASSUME NEW t \in Task, NEW from, NEW to, Goes(t, from, to), ProgramType,
           ~Is(t, "client"), ~Is(t, "device"), UNCHANGED <<port, cur, io, file>>
    PROVE  Quiet
<1>1. \A s \in Task : s # t => pos'[s] = pos[s]
  BY DEF Goes, ProgramType
<1>. QED
  BY <1>1 DEF Quiet, Goes

(* Forbid, and the Permit of a task that goes to sleep. *)
LEMMA CallsQuiet ==
    ASSUME IInv, NEW t \in Task, ForbidLoad(t) \/ ForbidStore(t) \/ (Permit(t) /\ at[t] = "park")
    PROVE  Quiet
<1>0. ProgramType
  BY DEF IInv, TypeOK
<1>1. CASE ForbidLoad(t)
  BY <1>0, <1>1, AtQuiet DEF ForbidLoad, Steps, device
<1>2. CASE ForbidStore(t)
  BY <1>0, <1>2, AtQuiet DEF ForbidStore, Steps, device
<1>3. CASE Permit(t) /\ at[t] = "park"
  BY <1>0, <1>3, AtQuiet DEF Permit, Steps, device
<1>. QED
  BY <1>1, <1>2, <1>3

(* Wait and Signal. *)
LEMMA SignallingQuiet == ASSUME IInv, NEW t \in Task, Signalling(t) PROVE Quiet
<1>0. ProgramType /\ Belongs(at[t], pos[t])
  BY DEF IInv, TypeOK, Placed
<1>1. CASE Test(t)
  <2>1. PICK to \in {"block", "take"} : Steps(t, "in", to)
    BY <1>1 DEF Test
  <2>. QED
    BY <1>0, <1>1, <2>1, AtQuiet DEF Test, Steps, device
<1>2. CASE Block(t)
  BY <1>0, <1>2, AtQuiet DEF Block, Steps, device
<1>3. CASE Take(t)
  <2>1. pos[t] \in Waits
    BY <1>0, <1>3 DEF Take, Steps, Belongs
  <2>. QED
    BY <1>0, <1>3, <2>1, AtQuiet DEF Take, Steps, device, Waits
<1>4. CASE Post(t)
  BY <1>0, <1>4, AtQuiet DEF Post, Steps, device
<1>5. CASE Wake(t)
  <2>1. pos[t] \in Posts
    BY <1>0, <1>5 DEF Wake, Steps, Belongs
  <2>. QED
    BY <1>0, <1>5, <2>1, AtQuiet DEF Wake, Steps, device, Posts
<1>. QED
  BY <1>1, <1>2, <1>3, <1>4, <1>5 DEF Signalling

(* The allocator. *)
LEMMA MemoryQuiet == ASSUME IInv, NEW t \in Task, Memory(t) PROVE Quiet
<1>0. ProgramType /\ KernelType /\ Belongs(at[t], pos[t])
  BY DEF IInv, TypeOK, Placed
<1>1. CASE Use(t) \/ Pause(t)
  <2>1. PICK from \in {"use", "pause"}, to \in {"free", "alloc"} :
           Goes(t, from, to) /\ UNCHANGED device
    BY <1>1 DEF Use, Pause
  <2>2. Is(t, "worker")
    BY <1>0, <2>1, WhoIsWhere DEF Goes
  <2>. QED
    BY <1>0, <2>1, <2>2, PosQuiet DEF device, Is
<1>2. ASSUME NEW from, NEW to, Steps(t, from, to), pos[t] \in {"alloc", "free"},
             UNCHANGED <<cast, pos, device>>
      PROVE  Quiet
  BY <1>0, <1>2, AtQuiet DEF Steps, device
<1>3. CASE Search(t)
  <2>1. pos[t] = "alloc" /\ UNCHANGED <<cast, pos, device>> /\ \E to : Steps(t, "in", to)
    BY <1>3 DEF Search, InHeap
  <2>. QED
    BY <1>2, <2>1
<1>4. CASE Carve(t)
  <2>1. UNCHANGED <<cast, pos, device>> /\ at[t] = "carve" /\ \E to : Steps(t, "carve", to)
    BY <1>4 DEF Carve, InHeap, Steps
  <2>. QED
    BY <1>0, <1>2, <2>1 DEF Belongs
<1>5. CASE Rest(t)
  <2>1. UNCHANGED <<cast, pos, device>> /\ at[t] = "rest" /\ \E to : Steps(t, "rest", to)
    BY <1>5 DEF Rest, InHeap, Steps
  <2>. QED
    BY <1>0, <1>2, <2>1 DEF Belongs
<1>6. CASE Account(t)
  <2>1. UNCHANGED <<cast, pos, device>> /\ at[t] = "account" /\ \E to : Steps(t, "account", to)
    BY <1>6 DEF Account, InHeap, Steps
  <2>. QED
    BY <1>0, <1>2, <2>1 DEF Belongs
<1>7. CASE Insert(t)
  <2>1. pos[t] = "free" /\ UNCHANGED <<cast, pos, device>> /\ \E to : Steps(t, "in", to)
    BY <1>7 DEF Insert, InHeap
  <2>. QED
    BY <1>2, <2>1
<1>8. CASE Close(t)
  <2>1. UNCHANGED <<cast, pos, device>> /\ at[t] = "close" /\ \E to : Steps(t, "close", to)
    BY <1>8 DEF Close, InHeap, Steps
  <2>. QED
    BY <1>0, <1>2, <2>1 DEF Belongs
<1>. QED
  BY <1>1, <1>3, <1>4, <1>5, <1>6, <1>7, <1>8 DEF Memory

(* A step of one client disturbs no other's request. *)
LEMMA ClientMoves ==
    ASSUME KernelType, Trips, NEW d \in Task, Is(d, "device"), NEW t \in Task, Is(t, "client"),
           UNCHANGED <<cast, cur>>,
           \A s \in Task : s # t => pos'[s] = pos[s] /\ at'[s] = at[s] /\ port'[s] = port[s],
           (Trip(d, t))'
    PROVE  /\ Trips' /\ \A e \in Task : e # t => Phase(e)' = Phase(e)
           /\ Asked(d, t)' <=> Asked(d, t)
<1>1. d # t
  BY OneDevice
<1>2. /\ Busy(d)' <=> Busy(d)
      /\ \A c : /\ InPort(d, c)' <=> InPort(d, c)
                /\ Holds(d, c)' <=> Holds(d, c)
                /\ Asked(d, c)' <=> Asked(d, c)
  BY <1>1 DEF Busy, InPort, Holds, Asked
<1>3. Once(d)'
  BY <1>1, <1>2, OnceKept DEF Trips
<1>4. ASSUME NEW c \in Task, Is(c, "client") PROVE Trip(d, c)'
  <2>1. CASE c = t
    BY <2>1
  <2>2. CASE c # t
    BY <1>2, <1>4, <2>2, TripKept DEF Trips
  <2>. QED
    BY <2>1, <2>2
<1>5. ASSUME NEW e \in Task, e # t PROVE Phase(e)' = Phase(e)
  BY <1>2, <1>5, PhaseKept
<1>. QED
  BY <1>2, <1>3, <1>4, <1>5, TripsFrom

(* Ports are lists of tasks. *)
LEMMA PortType ==
    ASSUME IInv, NEW t \in Task
    PROVE  /\ port \in [Task -> Seq(Task)] /\ port[t] \in Seq(Task) /\ Len(port[t]) \in Nat
           /\ port[t] = <<>> <=> Len(port[t]) = 0
<1>1. port \in [Task -> Seq(Task)] /\ port[t] \in Seq(Task)
  BY DEF IInv, TypeOK, DeviceType
<1>. QED
  BY <1>1, EmptySeq, LenProperties

(* The parts of the type invariant. *)
LEMMA Types == ASSUME IInv PROVE KernelType /\ ProgramType /\ DeviceType
BY DEF IInv, TypeOK

(* A client goes on in its program. *)
LEMMA ClientGoes ==
    ASSUME IInv, Trips, NEW t \in Task, Is(t, "client"), NEW to,
           UNCHANGED <<cast, port, cur, io, file>>,
           pos' = [pos EXCEPT ![t] = to],
           \/ UNCHANGED at /\ at[t] = "call"
           \/ at' = [at EXCEPT ![t] = "call"] /\ at[t] = "out",
           \/ pos[t] = "put"  /\ to = "ring" /\ at[t] = "out"
           \/ pos[t] = "ring" /\ to = "look"
           \/ pos[t] = "wait" /\ to = "look"
           \/ pos[t] = "look" /\ to = "wait"
           \/ pos[t] = "look" /\ to = "fetch" /\ port[t] # <<>> /\ at[t] = "call"
           \/ pos[t] = "fetch" /\ to = "check" /\ at[t] = "out"
    PROVE  Follows
<1>1. KernelType /\ ProgramType
  BY Types
<1>2. PICK d \in Task : Is(d, "device")
  BY <1>1, ClientHasDevice
<1>3. d # t /\ Trip(d, t)
  BY <1>1, <1>2, OneDevice DEF Trips
<1>4. /\ \A s \in Task : pos'[s] = IF s = t THEN to ELSE pos[s]
      /\ \A s \in Task : s # t => at'[s] = at[s]
      /\ at'[t] = "call"
  BY <1>1 DEF ProgramType
<1>5. /\ InPort(d, t)' <=> InPort(d, t)
      /\ Holds(d, t)' <=> Holds(d, t)
  BY <1>3, <1>4 DEF InPort, Holds, Busy
<1>6. Trip(d, t)'
  BY <1>3, <1>4, <1>5 DEF Trip, Free, Answered, Holds
<1>7. /\ Trips' /\ \A e \in Task : e # t => Phase(e)' = Phase(e)
      /\ Asked(d, t)' <=> Asked(d, t)
  BY <1>1, <1>2, <1>4, <1>6, ClientMoves
<1>8. /\ Phase(t)  = (IF pos[t] \in {"fill", "check"} THEN "idle"
                      ELSE IF pos[t] = "put" \/ Asked(d, t) THEN "asked" ELSE "done")
      /\ Phase(t)' = (IF pos'[t] \in {"fill", "check"} THEN "idle"
                      ELSE IF pos'[t] = "put" \/ Asked(d, t)' THEN "asked" ELSE "done")
  BY <1>1, <1>2, PhaseOf
<1>9. CASE pos[t] = "fetch" /\ to = "check" /\ at[t] = "out"
  <2>1. ~Holds(d, t)
    BY <1>3, <1>9 DEF Trip, Free
  <2>2. ~Asked(d, t)
    BY <2>1 DEF Holds, Asked, Busy
  <2>3. Phase(t) = "done" /\ Phase(t)' = "idle"
    BY <1>4, <1>8, <1>9, <2>2
  <2>4. Device!Return(t)
    BY <1>7, <2>3, ReturnSeen
  <2>. QED
    BY <1>7, <2>4 DEF Follows, Device!Next
<1>10. CASE ~(pos[t] = "fetch" /\ to = "check" /\ at[t] = "out")
  <2>1. pos[t] = "put" => Asked(d, t)
    BY <1>3, <1>10 DEF Trip, Asked
  <2>2. Phase(t)' = Phase(t)
    BY <1>4, <1>7, <1>8, <1>10, <2>1
  <2>. QED
    BY <1>7, <2>2, NothingSeen DEF Follows
<1>. QED
  BY <1>9, <1>10

(* The device task goes on in its program. *)
LEMMA DeviceGoes ==
    ASSUME IInv, Trips, NEW t \in Task, Is(t, "device"), NEW to,
           UNCHANGED <<cast, port, cur, io, file>>,
           pos' = [pos EXCEPT ![t] = to],
           \/ UNCHANGED at /\ at[t] = "call"
           \/ at' = [at EXCEPT ![t] = "call"] /\ at[t] = "out",
           \/ pos[t] = "fetch" /\ to = "serve" /\ at[t] = "out" /\ cur # None
           \/ pos[t] = "fetch" /\ to = "look" /\ at[t] = "out" /\ cur = None
           \/ pos[t] = "reply" /\ to = "ring" /\ at[t] = "out"
           \/ pos[t] \in {"ring", "wait", "look"} /\ to \in {"fetch", "look", "wait"}
    PROVE  Follows
<1>1. KernelType /\ ProgramType /\ None \notin Task
  BY Types, NameAssumption
<1>2. /\ \A s \in Task : pos'[s] = IF s = t THEN to ELSE pos[s]
      /\ \A s \in Task : s # t => at'[s] = at[s]
      /\ at'[t] = "call"
  BY <1>1 DEF ProgramType
<1>3. cur # None => (Busy(t)' <=> Busy(t))
  BY <1>2 DEF Busy
<1>4. \A c \in Task : /\ InPort(t, c)' <=> InPort(t, c)
                      /\ Holds(t, c)' <=> Holds(t, c)
                      /\ Asked(t, c)' <=> Asked(t, c)
  BY <1>1, <1>2, <1>3 DEF InPort, Holds, Asked
<1>5. Once(t)'
  BY <1>3, OnceKept DEF Trips
<1>6. ASSUME NEW c \in Task, Is(c, "client") PROVE c # t /\ Trip(t, c)'
  <2>1. c # t
    BY <1>1, <1>6, OneDevice
  <2>. QED
    BY <1>2, <1>4, <1>6, <2>1, TripKept DEF Trips
<1>7. ASSUME NEW c \in Task PROVE Phase(c)' = Phase(c)
  BY <1>1, <1>2, <1>4, <1>6, PhaseKept
<1>8. Trips'
  BY <1>1, <1>5, <1>6, TripsFrom
<1>. QED
  BY <1>7, <1>8, NothingSeen DEF Follows

(* The return of a call of exec: the client that has taken its answer off its
   port returns from DoIO, and nothing else is seen. *)
LEMMA PermitFollows == ASSUME IInv, Trips, NEW t \in Task, Permit(t), at[t] = "out" PROVE Follows
<1>1. KernelType /\ ProgramType /\ pos[t] \in Exec
  BY Types DEF IInv, Placed, Belongs
<1>2. /\ at' = [at EXCEPT ![t] = "call"] /\ pos' = [pos EXCEPT ![t] = After(t)]
      /\ UNCHANGED <<cast, port, cur, io, file>>
  BY DEF Permit, Steps, device
<1>3. cast.role[t] \in Role /\ pos[t] \in Program(cast.role[t])
  BY <1>1, RoleOf
<1>4. CASE Is(t, "client")
  <2>1. pos[t] \in {"put", "ring", "wait", "fetch"}
    BY <1>1, <1>3, <1>4 DEF Is, Program, Exec, Posts, Waits
  <2>2. /\ pos[t] = "put" => After(t) = "ring"
        /\ pos[t] = "ring" => After(t) = "look"
        /\ pos[t] = "wait" => After(t) = "look"
        /\ pos[t] = "fetch" => After(t) = "check"
    BY <1>4 DEF After
  <2>. HIDE DEF After
  <2>. QED
    BY <1>2, <1>4, <2>1, <2>2, ClientGoes
<1>5. CASE Is(t, "device")
  <2>0. ~Is(t, "client")
    BY <1>5 DEF Is
  <2>1. pos[t] \in {"reply", "ring", "wait", "fetch"}
    BY <1>1, <1>3, <1>5 DEF Is, Program, Exec, Posts, Waits
  <2>2. /\ pos[t] = "reply" => After(t) = "ring"
        /\ pos[t] = "ring" => After(t) = "fetch"
        /\ pos[t] = "wait" => After(t) = "look"
        /\ pos[t] = "fetch" => After(t) = IF cur = None THEN "look" ELSE "serve"
    BY <2>0 DEF After
  <2>. HIDE DEF After
  <2>. QED
    BY <1>2, <1>5, <2>1, <2>2, DeviceGoes
<1>6. CASE ~Is(t, "client") /\ ~Is(t, "device")
  <2>1. \A s \in Task : s # t => at'[s] = at[s] /\ pos'[s] = pos[s]
    BY <1>1, <1>2 DEF ProgramType
  <2>2. Quiet
    BY <1>2, <1>6, <2>1 DEF Quiet
  <2>. QED
    BY <1>1, <2>2, QuietFollows
<1>. QED
  BY <1>4, <1>5, <1>6

(* WaitPort's test. *)
LEMMA LookFollows == ASSUME IInv, Trips, NEW t \in Task, Look(t) PROVE Follows
<1>1. /\ KernelType /\ ProgramType /\ pos[t] = "look"
      /\ UNCHANGED <<cast, port, cur, io, file, at>>
      /\ pos' = [pos EXCEPT ![t] = IF port[t] = <<>> THEN "wait" ELSE "fetch"]
  BY Types DEF Look, Goes, device
<1>2. at[t] = "call"
  <2>1. "look" \notin Exec
    BY DEF Exec, Posts, Waits
  <2>. QED
    BY <1>1, <2>1 DEF IInv, Placed, Belongs
<1>3. CASE Is(t, "client")
  BY <1>1, <1>2, <1>3, ClientGoes
<1>4. CASE Is(t, "device")
  BY <1>1, <1>2, <1>4, DeviceGoes
<1>. QED
  BY <1>1, <1>3, <1>4, WhoIsWhere

(* Between two rounds. *)
LEMMA CheckFollows == ASSUME IInv, Trips, NEW t \in Task, Check(t) PROVE Follows
<1>1. /\ KernelType /\ ProgramType /\ pos[t] = "check"
      /\ UNCHANGED <<cast, port, cur, io, file, at>>
      /\ pos' = [pos EXCEPT ![t] = "fill"]
  BY Types DEF Check, Goes, device
<1>2. Is(t, "client")
  BY <1>1, WhoIsWhere
<1>3. PICK d \in Task : Is(d, "device")
  BY <1>1, <1>2, ClientHasDevice
<1>4. \A s \in Task : pos'[s] = IF s = t THEN "fill" ELSE pos[s]
  BY <1>1 DEF ProgramType
<1>5. d # t /\ Trip(d, t)
  BY <1>1, <1>2, <1>3, OneDevice DEF Trips
<1>6. Trip(d, t)'
  BY <1>1, <1>4, <1>5 DEF Trip, Free, Answered, Holds, InPort, Busy
<1>7. Trips' /\ \A e \in Task : e # t => Phase(e)' = Phase(e)
  BY <1>1, <1>2, <1>3, <1>4, <1>6, ClientMoves
<1>8. Phase(t) = "idle" /\ Phase(t)' = "idle"
  BY <1>1, <1>2, <1>3, <1>4, PhaseOf
<1>. QED
  BY <1>1, <1>7, <1>8, NothingSeen DEF Follows

(* A new round: the request is asked. *)
LEMMA FillFollows == ASSUME IInv, Trips, NEW t \in Task, Fill(t) PROVE Follows
<1>1. /\ KernelType /\ ProgramType /\ DeviceType /\ pos[t] = "fill"
      /\ UNCHANGED <<cast, port, cur, file, at>>
      /\ pos' = [pos EXCEPT ![t] = "put"]
  BY Types DEF Fill, Goes
<1>2. Is(t, "client")
  BY <1>1, WhoIsWhere
<1>3. PICK d \in Task : Is(d, "device")
  BY <1>1, <1>2, ClientHasDevice
<1>4. \A s \in Task : pos'[s] = IF s = t THEN "put" ELSE pos[s]
  BY <1>1 DEF ProgramType
<1>5. at[t] = "call"
  <2>1. "fill" \notin Exec
    BY DEF Exec, Posts, Waits
  <2>. QED
    BY <1>1, <2>1 DEF IInv, Placed, Belongs
<1>6. d # t /\ Trip(d, t)
  BY <1>1, <1>2, <1>3, OneDevice DEF Trips
<1>7. Trip(d, t)'
  BY <1>1, <1>4, <1>5, <1>6 DEF Trip, Free, Answered, Holds, InPort, Busy
<1>8. Trips' /\ \A e \in Task : e # t => Phase(e)' = Phase(e)
  BY <1>1, <1>2, <1>3, <1>4, <1>7, ClientMoves
<1>9. Phase(t) = "idle" /\ Phase(t)' = "asked"
  BY <1>1, <1>2, <1>3, <1>4, PhaseOf
<1>10. io'[t] \in Device!Io /\ \A e \in Task : e # t => io'[e] = io[e]
  <2>1. PICK r \in Device!Io : io' = [io EXCEPT ![t] = r]
    <3>1. CASE io[t].cmd = "write" /\ ~io[t].err
      BY <3>1, NameAssumption DEF Fill, Device!Io
    <3>2. CASE ~(io[t].cmd = "write" /\ ~io[t].err)
      BY <3>2 DEF Fill, Device!Io
    <3>. QED
      BY <3>1, <3>2
  <2>. QED
    BY <1>1, <2>1 DEF DeviceType
<1>11. Device!Ask(t)
  BY <1>1, <1>8, <1>9, <1>10, AskSeen
<1>. QED
  BY <1>8, <1>11 DEF Follows, Device!Next

(* PutMsg: the client's message comes to the end of the device's port. *)
LEMMA PutFollows ==
    ASSUME IInv, Trips, NEW t \in Task, AddTail(t), pos[t] = "put" PROVE Follows
<1>1. /\ KernelType /\ ProgramType /\ DeviceType /\ at[t] = "in"
      /\ at' = [at EXCEPT ![t] = "out"]
      /\ UNCHANGED <<cast, pos, cur, io, file>>
  BY Types DEF AddTail, Steps
<1>2. Is(t, "client")
  BY <1>1, WhoIsWhere
<1>3. PICK d \in Task : Is(d, "device")
  BY <1>1, <1>2, ClientHasDevice
<1>4. d # t /\ The("device") = d /\ \A c \in Task : Is(c, "client") => c # d
  BY <1>1, <1>2, <1>3, OneDevice
<1>5. /\ port' = [port EXCEPT ![d] = Append(port[d], t)]
      /\ port \in [Task -> Seq(Task)] /\ port[d] \in Seq(Task) /\ Len(port[d]) \in Nat
  BY <1>3, <1>4, PortType DEF AddTail
<1>6. \A s \in Task : /\ at'[s] = IF s = t THEN "out" ELSE at[s]
                      /\ port'[s] = IF s = d THEN Append(port[d], t) ELSE port[s]
  BY <1>1, <1>5 DEF ProgramType
<1>7. /\ Len(port'[d]) = Len(port[d]) + 1
      /\ \A k \in 1 .. Len(port[d]) : port'[d][k] = port[d][k]
      /\ port'[d][Len(port[d]) + 1] = t
  BY <1>3, <1>5, <1>6, AppendProperties
<1>8. \A c : InPort(d, c)' <=> InPort(d, c) \/ c = t
  BY <1>5, <1>7 DEF InPort
<1>9. Once(d) /\ Trip(d, t) /\ ~Holds(d, t)
  BY <1>1, <1>2, <1>3 DEF Trips, Trip, Free
<1>10. Busy(d)' <=> Busy(d)
  BY <1>1, <1>4, <1>6 DEF Busy
<1>11. Once(d)'
  <2>1. ASSUME NEW k \in 1 .. Len(port[d]) + 1, k \notin 1 .. Len(port[d])
        PROVE  k = Len(port[d]) + 1
    BY <2>1, <1>5
  <2>2. \A k \in 1 .. Len(port[d]) : port[d][k] # t
    BY <1>9 DEF Holds, InPort
  <2>3. \A j, k \in 1 .. Len(port'[d]) : port'[d][j] = port'[d][k] => j = k
    BY <1>7, <1>9, <2>1, <2>2 DEF Once
  <2>4. \A k \in 1 .. Len(port'[d]) : Is(port'[d][k], "client")
    BY <1>2, <1>7, <1>9, <2>1 DEF Once
  <2>5. Busy(d) /\ cur # None => cur # t /\ Is(cur, "client") /\ ~InPort(d, cur)
    BY <1>9 DEF Once, Holds
  <2>6. Busy(d)' /\ cur' # None => Is(cur', "client") /\ ~(\E k \in 1 .. Len(port'[d]) : port'[d][k] = cur')
    BY <1>1, <1>8, <1>10, <2>5 DEF InPort
  <2>. QED
    BY <1>1, <2>3, <2>4, <2>6 DEF Once, Is, InPort
<1>12. ASSUME NEW c \in Task, Is(c, "client") PROVE Trip(d, c)'
  <2>1. CASE c = t
    <3>1. port[t] = <<>>
      BY <1>1, <1>9 DEF Trip, Answered
    <3>2. port'[t] = <<>> /\ at'[t] = "out" /\ pos'[t] = "put"
      BY <1>1, <1>4, <1>6, <3>1
    <3>. QED
      BY <1>8, <2>1, <3>2 DEF Trip, Free
  <2>2. CASE c # t
    <3>1. Holds(d, c)' <=> Holds(d, c)
      BY <1>1, <1>8, <1>10, <2>2 DEF Holds
    <3>2. port'[c] = port[c] /\ at'[c] = at[c] /\ pos'[c] = pos[c]
      BY <1>1, <1>4, <1>6, <1>12, <2>2
    <3>. QED
      BY <1>3, <1>8, <1>12, <3>1, <3>2, TripKept DEF Trips
  <2>. QED
    BY <2>1, <2>2
<1>13. ASSUME NEW c \in Task PROVE Phase(c)' = Phase(c)
  <2>1. CASE c = t
    BY <1>1, <1>2, <1>3, <2>1, PhaseOf
  <2>2. CASE c # t
    <3>1. Asked(d, c)' <=> Asked(d, c)
      BY <1>1, <1>4, <1>6, <1>8, <2>2 DEF Asked
    <3>. QED
      BY <1>1, <1>3, <3>1, PhaseKept
  <2>. QED
    BY <2>1, <2>2
<1>14. Trips'
  BY <1>1, <1>3, <1>11, <1>12, TripsFrom
<1>. QED
  BY <1>1, <1>13, <1>14, NothingSeen DEF Follows

(* ReplyMsg: the message goes from the device's hand to its client's port. *)
LEMMA ReplyFollows ==
    ASSUME IInv, Trips, NEW t \in Task, AddTail(t), pos[t] = "reply" PROVE Follows
<1>1. /\ KernelType /\ ProgramType /\ DeviceType /\ at[t] = "in"
      /\ at' = [at EXCEPT ![t] = "out"]
      /\ port' = [port EXCEPT ![cur] = Append(port[cur], cur)]
      /\ UNCHANGED <<cast, pos, cur, io, file>>
  BY Types DEF AddTail, Steps
<1>2. Is(t, "device")
  BY <1>1, WhoIsWhere
<1>3. cur \in Task /\ None \notin Task
  BY <1>2, NameAssumption DEF IInv, InHand
<1>4. Busy(t) /\ Once(t) /\ cur # None
  BY <1>1, <1>2, <1>3 DEF Busy, Trips
<1>5. Is(cur, "client") /\ ~InPort(t, cur) /\ cur # t
  BY <1>2, <1>4 DEF Once, Is
<1>6. Trip(t, cur) /\ Holds(t, cur)
  BY <1>2, <1>3, <1>4, <1>5 DEF Trips, Holds
<1>7. /\ port[cur] = <<>> /\ port \in [Task -> Seq(Task)]
  BY <1>3, <1>6, PortType DEF Trip, Free
<1>8. pos[cur] \in {"ring", "look", "wait"}
  <2>1. pos[cur] \in Program("client")
    BY <1>1, <1>3, <1>5, RoleOf DEF Is
  <2>2. pos[cur] \notin {"fill", "check", "fetch"} /\ (pos[cur] = "put" => at[cur] = "out")
    BY <1>6 DEF Trip, Free
  <2>3. pos[cur] # "put"
    BY <1>5, <1>6, <2>2 DEF Trip
  <2>. QED
    BY <2>1, <2>2, <2>3 DEF Program
<1>9. \A s \in Task : /\ at'[s] = IF s = t THEN "out" ELSE at[s]
                      /\ port'[s] = IF s = cur THEN Append(port[cur], cur) ELSE port[s]
  BY <1>1, <1>3, <1>7 DEF ProgramType
<1>10. Len(port'[cur]) = 1
  <2>1. Append(port[cur], cur) = <<cur>>
    BY <1>7
  <2>. QED
    BY <1>3, <1>9, <2>1
<1>11. ~Busy(t)' /\ port'[t] = port[t]
  BY <1>1, <1>5, <1>9 DEF Busy
<1>12. \A c : InPort(t, c)' <=> InPort(t, c)
  BY <1>11 DEF InPort
<1>13. \A c : Holds(t, c)' => Holds(t, c) /\ c # cur
  BY <1>5, <1>11, <1>12 DEF Holds
<1>14. Once(t)'
  BY <1>1, <1>4, <1>11, OnceKept
<1>15. ASSUME NEW c \in Task, Is(c, "client") PROVE Trip(t, c)'
  <2>1. CASE c = cur
    <3>1. pos'[c] \in {"ring", "look", "wait"} /\ Len(port'[c]) = 1 /\ ~Holds(t, c)'
      BY <1>1, <1>8, <1>10, <1>13, <2>1
    <3>. QED
      BY <3>1 DEF Trip, Answered
  <2>2. CASE c # cur
    <3>1. c # t
      BY <1>2, <1>15 DEF Is
    <3>2. port'[c] = port[c] /\ pos'[c] = pos[c] /\ at'[c] = at[c]
      BY <1>1, <1>9, <2>2, <3>1
    <3>. QED
      BY <1>2, <1>12, <1>13, <1>15, <3>2, TripKept DEF Trips
  <2>. QED
    BY <2>1, <2>2
<1>16. ASSUME NEW c \in Task PROVE Phase(c)' = Phase(c)
  <2>1. Asked(t, c)' <=> Asked(t, c)
    BY <1>1, <1>12 DEF Asked
  <2>. QED
    BY <1>1, <1>2, <2>1, PhaseKept
<1>17. Trips'
  BY <1>1, <1>2, <1>14, <1>15, TripsFrom
<1>. QED
  BY <1>1, <1>16, <1>17, NothingSeen DEF Follows

(* GetMsg of a client: its answer is taken off its port. *)
LEMMA TakenFollows ==
    ASSUME IInv, Trips, NEW t \in Task, RemHead(t), Is(t, "client") PROVE Follows
<1>1. /\ KernelType /\ ProgramType /\ at[t] = "in" /\ pos[t] = "fetch"
      /\ at' = [at EXCEPT ![t] = "out"]
      /\ port' = [port EXCEPT ![t] = IF port[t] = <<>> THEN port[t] ELSE Tail(port[t])]
      /\ UNCHANGED <<cast, pos, cur, io, file>>
  BY Types DEF RemHead, Steps
<1>2. PICK d \in Task : Is(d, "device")
  BY <1>1, ClientHasDevice
<1>3. d # t /\ Trip(d, t)
  BY <1>1, <1>2, OneDevice DEF Trips
<1>4. /\ port \in [Task -> Seq(Task)] /\ port[t] \in Seq(Task)
      /\ Len(port[t]) \in Nat /\ (port[t] = <<>> \/ Len(port[t]) = 1)
  BY <1>3, PortType DEF Trip
<1>5. port'[t] = <<>>
  <2>1. CASE port[t] = <<>>
    BY <1>1, <1>4, <2>1
  <2>2. CASE port[t] # <<>>
    <3>1. Len(port[t]) = 1
      BY <1>4, <2>2
    <3>2. Tail(port[t]) \in Seq(Task) /\ Len(Tail(port[t])) = 0
      BY <1>4, <2>2, <3>1, HeadTailProperties
    <3>3. Tail(port[t]) = <<>>
      BY <3>2, EmptySeq
    <3>. QED
      BY <1>1, <1>4, <2>2, <3>3
  <2>. QED
    BY <2>1, <2>2
<1>6. \A s \in Task : s # t => pos'[s] = pos[s] /\ at'[s] = at[s] /\ port'[s] = port[s]
  BY <1>1, <1>4 DEF ProgramType
<1>7. Holds(d, t)' <=> Holds(d, t)
  BY <1>1, <1>2, <1>3, <1>6 DEF Holds, InPort, Busy
<1>8. Trip(d, t)'
  BY <1>1, <1>3, <1>5, <1>7 DEF Trip, Free
<1>9. /\ Trips' /\ \A e \in Task : e # t => Phase(e)' = Phase(e)
      /\ Asked(d, t)' <=> Asked(d, t)
  BY <1>1, <1>2, <1>6, <1>8, ClientMoves
<1>10. Phase(t)' = Phase(t)
  BY <1>1, <1>2, <1>9, PhaseKept
<1>. QED
  BY <1>1, <1>9, <1>10, NothingSeen DEF Follows

(* GetMsg of the device task: the first message comes into its hand. *)
LEMMA FetchedFollows ==
    ASSUME IInv, Trips, NEW t \in Task, RemHead(t), Is(t, "device") PROVE Follows
<1>1. /\ KernelType /\ ProgramType /\ at[t] = "in" /\ pos[t] = "fetch" /\ this = t
      /\ at' = [at EXCEPT ![t] = "out"]
      /\ port' = [port EXCEPT ![t] = IF port[t] = <<>> THEN port[t] ELSE Tail(port[t])]
      /\ cur' = IF port[t] = <<>> THEN None ELSE port[t][1]
      /\ UNCHANGED <<cast, pos, io, file>>
  <2>1. ~Is(t, "client")
    BY DEF Is
  <2>. QED
    BY <2>1, Types DEF RemHead, Steps, Running
<1>2. /\ port \in [Task -> Seq(Task)] /\ port[t] \in Seq(Task) /\ Len(port[t]) \in Nat
      /\ None \notin Task /\ Once(t)
  BY PortType, NameAssumption DEF Trips
<1>3. \A s \in Task : /\ s # t => pos'[s] = pos[s] /\ at'[s] = at[s] /\ port'[s] = port[s]
                      /\ s # t => at[s] # "out"
  <2>1. \A s \in Task : s # t => at[s] # "out"
    BY <1>1, OthersOutside DEF IInv, Inside
  <2>. QED
    BY <1>1, <1>2, <2>1 DEF ProgramType
<1>4. at'[t] = "out" /\ pos'[t] = "fetch"
  BY <1>1 DEF ProgramType
<1>5. /\ \A c \in Task : InPort(t, c)' \/ cur' = c <=> InPort(t, c)
      /\ Once(t)'
  <2>1. CASE port[t] = <<>>
    <3>1. port'[t] = <<>> /\ cur' = None
      BY <1>1, <1>2, <2>1
    <3>2. \A c \in Task : ~InPort(t, c)' /\ ~InPort(t, c) /\ cur' # c
      BY <1>2, <2>1, <3>1 DEF InPort
    <3>. QED
      BY <3>1, <3>2 DEF Once
  <2>2. CASE port[t] # <<>>
    <3>. DEFINE n == Len(port[t])
    <3>1. port'[t] = Tail(port[t]) /\ cur' = port[t][1]
      BY <1>1, <1>2, <2>2
    <3>2. /\ n \in Nat /\ n >= 1 /\ Len(port'[t]) = n - 1
          /\ \A k \in 1 .. n - 1 : port'[t][k] = port[t][k + 1]
      BY <1>2, <2>2, <3>1, HeadTailProperties, EmptySeq, LenProperties
    <3>. HIDE DEF n
    <3>3. /\ \A j, k \in 1 .. n : port[t][j] = port[t][k] => j = k
          /\ \A k \in 1 .. n : Is(port[t][k], "client")
      BY <1>2 DEF Once, n
    <3>4. \A k \in 1 .. n - 1 : k + 1 \in 1 .. n /\ k + 1 # 1
      BY <3>2
    <3>5. 1 \in 1 .. n /\ \A k \in 1 .. n : k # 1 => k - 1 \in 1 .. n - 1 /\ (k - 1) + 1 = k
      BY <3>2
    <3>6. \A c : InPort(t, c)' <=> \E k \in 1 .. n - 1 : port[t][k + 1] = c
      BY <3>2 DEF InPort
    <3>7. \A c : InPort(t, c) <=> \E k \in 1 .. n : port[t][k] = c
      BY DEF InPort, n
    <3>8. \A c : InPort(t, c)' \/ cur' = c <=> InPort(t, c)
      <4>. SUFFICES ASSUME NEW c
                    PROVE  InPort(t, c)' \/ cur' = c <=> InPort(t, c)
        OBVIOUS
      <4>1. ASSUME InPort(t, c)' \/ cur' = c PROVE InPort(t, c)
        BY <4>1, <3>1, <3>4, <3>5, <3>6, <3>7
      <4>2. ASSUME InPort(t, c) PROVE InPort(t, c)' \/ cur' = c
        <5>1. PICK k \in 1 .. n : port[t][k] = c
          BY <4>2, <3>7
        <5>2. CASE k = 1
          BY <5>1, <5>2, <3>1
        <5>3. CASE k # 1
          <6>1. k - 1 \in 1 .. n - 1 /\ port[t][(k - 1) + 1] = c
            BY <5>1, <5>3, <3>5
          <6>. QED
            BY <6>1, <3>6
        <5>. QED
          BY <5>2, <5>3
      <4>. QED
        BY <4>1, <4>2 DEF InPort
    <3>9. Is(cur', "client") /\ ~InPort(t, cur)'
      <4>1. \A k \in 1 .. n - 1 : port[t][k + 1] # port[t][1]
        BY <3>3, <3>4, <3>5
      <4>2. \A k \in 1 .. n - 1 : port'[t][k] # cur'
        BY <3>1, <3>2, <4>1
      <4>. QED
        BY <3>1, <3>2, <3>3, <3>5, <4>2 DEF InPort
    <3>10. \A j, k \in 1 .. n - 1 : port'[t][j] = port'[t][k] => j = k
      <4>. TAKE j, k \in 1 .. n - 1
      <4>1. port'[t][j] = port[t][j + 1] /\ port'[t][k] = port[t][k + 1]
        BY <3>2
      <4>2. port'[t][j] = port'[t][k] => j + 1 = k + 1
        BY <3>3, <3>4, <4>1
      <4>. QED
        BY <3>2, <4>2
    <3>11. \A k \in 1 .. n - 1 : Is(port'[t][k], "client")
      BY <3>2, <3>3, <3>4
    <3>12. Once(t)'
      BY <1>1, <3>2, <3>9, <3>10, <3>11 DEF Once, Is
    <3>. QED
      BY <3>8, <3>12
  <2>. QED
    BY <2>1, <2>2
<1>6. \A c \in Task : /\ Holds(t, c)' <=> Holds(t, c)
                      /\ Asked(t, c)' <=> Asked(t, c)
  <2>1. ~Busy(t) /\ Busy(t)'
    BY <1>1, <1>4 DEF Busy
  <2>. QED
    BY <1>1, <1>4, <1>5, <2>1 DEF Holds, Asked
<1>7. ASSUME NEW c \in Task, Is(c, "client") PROVE c # t /\ Trip(t, c)'
  <2>1. c # t
    BY <1>7 DEF Is
  <2>. QED
    BY <1>3, <1>6, <1>7, <2>1, TripKept DEF Trips
<1>8. ASSUME NEW c \in Task PROVE Phase(c)' = Phase(c)
  BY <1>1, <1>3, <1>6, <1>7, PhaseKept
<1>9. Trips'
  BY <1>1, <1>5, <1>7, TripsFrom
<1>. QED
  BY <1>1, <1>8, <1>9, NothingSeen DEF Follows

(* The fields of a request that has been performed. *)
LEMMA Performed ==
    ASSUME NEW r \in [cmd : {"none", "read", "write"}, val : Val, err : BOOLEAN],
           NEW v \in Val, NEW err \in BOOLEAN
    PROVE  /\ [r EXCEPT !.err = err] = [cmd |-> r.cmd, val |-> r.val, err |-> err]
           /\ [r EXCEPT !.val = v, !.err = err] = [cmd |-> r.cmd, val |-> v, err |-> err]
<1>1. r = [cmd |-> r.cmd, val |-> r.val, err |-> r.err]
  OBVIOUS
<1>2. \A a, b, e : /\ [[cmd |-> a, val |-> b, err |-> e] EXCEPT !.err = err]
                          = [cmd |-> a, val |-> b, err |-> err]
                   /\ [[cmd |-> a, val |-> b, err |-> e] EXCEPT !.val = v]
                          = [cmd |-> a, val |-> v, err |-> e]
  OBVIOUS
<1>3. [r EXCEPT !.err = err] = [cmd |-> r.cmd, val |-> r.val, err |-> err]
  BY <1>1, <1>2
<1>4. [r EXCEPT !.val = v] = [cmd |-> r.cmd, val |-> v, err |-> r.err]
  BY <1>1, <1>2
<1>5. [[r EXCEPT !.val = v] EXCEPT !.err = err] = [cmd |-> r.cmd, val |-> v, err |-> err]
  <2>1. [[cmd |-> r.cmd, val |-> v, err |-> r.err] EXCEPT !.err = err]
           = [cmd |-> r.cmd, val |-> v, err |-> err]
    BY <1>2
  <2>. QED
    BY ONLY <1>4, <2>1
<1>6. [r EXCEPT !.val = v, !.err = err] = [[r EXCEPT !.val = v] EXCEPT !.err = err]
  OBVIOUS
<1>. QED
  BY <1>3, <1>5, <1>6

(* The same, in its place among the others. *)
LEMMA PerformedAt ==
    ASSUME DeviceType, NEW c \in Task, NEW v \in Val, NEW err \in BOOLEAN
    PROVE  /\ [io EXCEPT ![c].err = err]
                = [io EXCEPT ![c] = [cmd |-> io[c].cmd, val |-> io[c].val, err |-> err]]
           /\ [io EXCEPT ![c].val = v, ![c].err = err]
                = [io EXCEPT ![c] = [cmd |-> io[c].cmd, val |-> v, err |-> err]]
<1>1. io[c] \in [cmd : {"none", "read", "write"}, val : Val, err : BOOLEAN]
      /\ c \in DOMAIN io
  BY DEF DeviceType
<1>2. [io EXCEPT ![c].err = err] = [io EXCEPT ![c] = [io[c] EXCEPT !.err = err]]
  OBVIOUS
<1>3. [io EXCEPT ![c].val = v, ![c].err = err]
        = [io EXCEPT ![c] = [io[c] EXCEPT !.val = v, !.err = err]]
  BY <1>1
<1>. QED
  BY <1>1, <1>2, <1>3, Performed

(* pread or pwrite: the message in the device's hand is performed. *)
LEMMA ServeFollows == ASSUME IInv, Trips, NEW t \in Task, Serve(t) PROVE Follows
<1>1. /\ KernelType /\ ProgramType /\ DeviceType /\ pos[t] = "serve"
      /\ pos' = [pos EXCEPT ![t] = "reply"]
      /\ UNCHANGED <<cast, at, port, cur>>
  BY Types DEF Serve, Goes
<1>2. Is(t, "device") /\ at[t] = "call"
  <2>1. "serve" \notin Exec
    BY DEF Exec, Posts, Waits
  <2>. QED
    BY <1>1, <2>1, WhoIsWhere DEF IInv, Placed, Belongs
<1>3. cur \in Task /\ None \notin Task
  BY <1>1, <1>2, NameAssumption DEF IInv, InHand
<1>4. Busy(t) /\ Once(t) /\ cur # None
  BY <1>1, <1>2, <1>3 DEF Busy, Trips
<1>5. Is(cur, "client") /\ ~InPort(t, cur) /\ cur # t
  BY <1>2, <1>4 DEF Once, Is
<1>6. Trip(t, cur) /\ Holds(t, cur)
  BY <1>2, <1>3, <1>4, <1>5 DEF Trips, Holds
<1>7. pos[cur] \notin {"fill", "check", "put"}
  BY <1>5, <1>6 DEF Trip, Free
<1>8. \A s \in Task : pos'[s] = IF s = t THEN "reply" ELSE pos[s]
  BY <1>1 DEF ProgramType
<1>9. Busy(t)'
  BY <1>1, <1>2, <1>8 DEF Busy
<1>10. \A c : /\ InPort(t, c)' <=> InPort(t, c)
              /\ Holds(t, c)' <=> Holds(t, c)
              /\ c # cur => (Asked(t, c)' <=> Asked(t, c))
  BY <1>1, <1>4, <1>8, <1>9 DEF InPort, Holds, Asked
<1>11. Asked(t, cur) /\ ~Asked(t, cur)'
  BY <1>1, <1>5, <1>8 DEF Asked, InPort
<1>12. Once(t)'
  BY <1>1, <1>4, OnceKept
<1>13. ASSUME NEW c \in Task, Is(c, "client") PROVE c # t /\ Trip(t, c)'
  <2>1. c # t
    BY <1>2, <1>13 DEF Is
  <2>. QED
    BY <1>1, <1>2, <1>8, <1>10, <1>13, <2>1, TripKept DEF Trips
<1>14. ASSUME NEW c \in Task, c # cur PROVE Phase(c)' = Phase(c)
  BY <1>1, <1>2, <1>8, <1>10, <1>13, <1>14, PhaseKept
<1>15. Phase(cur) = "asked" /\ Phase(cur)' = "done"
  <2>1. ASSUME NEW c \in Task, c = cur PROVE Phase(c) = "asked" /\ Phase(c)' = "done"
    <3>1. Asked(t, c) /\ ~Asked(t, c)'
      BY <1>1, <1>11, <2>1 DEF Asked, InPort
    <3>. QED
      BY <1>1, <1>2, <1>5, <1>7, <1>8, <2>1, <3>1, PhaseOf
  <2>. QED
    BY <1>3, <2>1, <1>1
<1>16. PICK v \in Val, err \in BOOLEAN :
         /\ io' = [io EXCEPT ![cur] = [cmd |-> io[cur].cmd, val |-> v, err |-> err]]
         /\ io[cur].cmd = "read" => file' = file /\ (~err => v = file)
         /\ io[cur].cmd # "read" => v = io[cur].val /\ file' \in Val /\ (~err => file' = v)
  <2>1. /\ io[cur] \in [cmd : {"none", "read", "write"}, val : Val, err : BOOLEAN]
        /\ file \in Val /\ io[cur].val \in Val
    BY <1>1, <1>3 DEF DeviceType
  <2>3. CASE io[cur].cmd = "write" /\ file' = io[cur].val /\ io' = [io EXCEPT ![cur].err = FALSE]
    BY <1>1, <1>3, <2>1, <2>3, PerformedAt
  <2>4. CASE /\ io[cur].cmd = "read" /\ UNCHANGED file
             /\ io' = [io EXCEPT ![cur].val = file, ![cur].err = FALSE]
    <3>1. io' = [io EXCEPT ![cur] = [cmd |-> io[cur].cmd, val |-> file, err |-> FALSE]]
      BY <1>1, <1>3, <2>1, <2>4, PerformedAt
    <3>. QED
      BY <2>1, <2>4, <3>1
  <2>5. CASE io[cur].cmd = "write" /\ file' \in Val /\ io' = [io EXCEPT ![cur].err = TRUE]
    BY <1>1, <1>3, <2>1, <2>5, PerformedAt
  <2>6. CASE /\ io[cur].cmd = "read" /\ UNCHANGED file
             /\ \E v \in Val : io' = [io EXCEPT ![cur].val = v, ![cur].err = TRUE]
    <3>1. PICK v \in Val : io' = [io EXCEPT ![cur].val = v, ![cur].err = TRUE]
      BY <2>6
    <3>2. io' = [io EXCEPT ![cur] = [cmd |-> io[cur].cmd, val |-> v, err |-> TRUE]]
      BY <1>1, <1>3, <3>1, PerformedAt
    <3>. QED
      BY <2>6, <3>2
  <2>. QED
    BY <2>3, <2>4, <2>5, <2>6 DEF Serve
<1>17. /\ io'[cur] = [cmd |-> io[cur].cmd, val |-> v, err |-> err]
       /\ \A c \in Task : c # cur => io'[c] = io[c]
  BY <1>1, <1>3, <1>16 DEF DeviceType
<1>18. \E c \in Task : Device!Perform(c)
  <2>1. ASSUME NEW c \in Task, c = cur PROVE Device!Perform(c)
    <3>1. Phase(c) = "asked" /\ Phase(c)' = "done"
      BY <1>1, <1>15, <2>1
    <3>2. /\ \A e \in Task : e # c => Phase(e)' = Phase(e) /\ io'[e] = io[e]
          /\ io'[c] = [cmd |-> io[c].cmd, val |-> v, err |-> err]
          /\ io[c].cmd = "read" => file' = file /\ (~err => v = file)
          /\ io[c].cmd # "read" => v = io[c].val /\ file' \in Val /\ (~err => file' = v)
      BY <1>14, <1>16, <1>17, <2>1
    <3>. QED
      BY <3>1, <3>2, PerformSeen
  <2>. QED
    BY <1>3, <2>1
<1>19. Trips'
  BY <1>1, <1>2, <1>12, <1>13, TripsFrom
<1>. QED
  BY <1>18, <1>19 DEF Follows, Device!Next

(* Every step keeps the messages where they may be, and is one of the abstract
   device's or a stutter. *)
LEMMA NextFollows == ASSUME IInv, Trips, [Next]_vars PROVE Follows
<1>0. KernelType
  BY Types
<1>1. CASE Tick \/ Shutdown \/ UNCHANGED vars
  <2>1. Quiet
    BY <1>1 DEF Tick, Shutdown, vars, where, device, Quiet
  <2>. QED
    BY <1>0, <2>1, QuietFollows
<1>2. ASSUME NEW t \in Task, Step(t) PROVE Follows
  <2>1. CASE Calls(t)
    <3>1. CASE Permit(t) /\ at[t] = "out"
      BY <3>1, PermitFollows
    <3>2. CASE ForbidLoad(t) \/ ForbidStore(t) \/ (Permit(t) /\ at[t] = "park")
      BY <1>0, <3>2, CallsQuiet, QuietFollows
    <3>3. Permit(t) => at[t] \in {"out", "park"}
      BY DEF Permit, Steps
    <3>. QED
      BY <2>1, <3>1, <3>2, <3>3 DEF Calls
  <2>2. CASE Signalling(t)
    BY <1>0, <2>2, SignallingQuiet, QuietFollows
  <2>3. CASE Messages(t)
    <3>1. CASE AddTail(t)
      BY <3>1, PutFollows, ReplyFollows DEF AddTail
    <3>2. CASE RemHead(t)
      <4>1. Is(t, "client") \/ Is(t, "device")
        BY <3>2, Types, WhoIsWhere DEF RemHead
      <4>. QED
        BY <3>2, <4>1, TakenFollows, FetchedFollows
    <3>. QED
      BY <2>3, <3>1, <3>2, LookFollows DEF Messages
  <2>4. CASE Requests(t)
    BY <2>4, FillFollows, ServeFollows, CheckFollows DEF Requests
  <2>5. CASE Memory(t)
    BY <1>0, <2>5, MemoryQuiet, QuietFollows
  <2>. QED
    BY <1>2, <2>1, <2>2, <2>3, <2>4, <2>5 DEF Step
<1>. QED
  BY <1>1, <1>2 DEF Next

(* At the start nothing is asked. *)
LEMMA InitFollows == ASSUME Init PROVE Trips /\ Device!Init
<1>1. \A t \in Task : port[t] = <<>> /\ at[t] = "call" /\ pos[t] = Starts(cast.role[t])
  BY DEF Init
<1>2. \A t \in Task : Is(t, "device") => pos[t] = "look"
  BY <1>1 DEF Is, Starts
<1>3. \A t \in Task : Is(t, "client") => pos[t] = "fill"
  BY <1>1 DEF Is, Starts
<1>4. ASSUME NEW d \in Task, Is(d, "device")
      PROVE  Once(d) /\ \A c \in Task : Is(c, "client") => Trip(d, c)
  <2>1. ~Busy(d) /\ \A c : ~InPort(d, c)
    BY <1>1, <1>2, <1>4 DEF Busy, InPort
  <2>2. \A k : k \notin 1 .. Len(port[d])
    BY <1>1
  <2>3. Once(d)
    BY <2>1, <2>2 DEF Once
  <2>. QED
    BY <1>1, <1>3, <2>1, <2>3 DEF Trip, Holds
<1>5. ASSUME NEW c \in Task PROVE Phase(c) = "idle" /\ io[c] = [cmd |-> "none", val |-> Zero, err |-> FALSE]
  BY <1>3, <1>5 DEF Phase, Init
<1>6. Device!Init
  BY <1>5 DEF Device!Init, Init
<1>. QED
  BY <1>4, <1>6 DEF Trips

(* DoIO is one I/O operation, whatever the alarm interrupts and however many
   clients share the device: each request is performed by the device once,
   between PutMsg and the return of GetMsg, and DoIO returns its result
   (device.c). *)
THEOREM RequestsServed == Spec => IoSpec
<1>1. Init => IInv /\ Trips /\ Device!Init
  BY InitIInv, InitFollows
<1>2. IInv /\ Trips /\ [Next]_vars => IInv' /\ Trips' /\ [Device!Next]_(Device!vars)
  BY NextIInv, NextFollows DEF Follows
<1>. QED
  BY <1>1, <1>2, PTL DEF Spec, IoSpec, Device!Spec

-----------------------------------------------------------------------------
(* The heap.  The free list is the set F of the addresses of its chunks: the  *)
(* chunk behind c is the next one above it.                                   *)

Cell == [next : Int, bytes : Int, mark : Task \cup {None}]
Region == [Unit \cup {MhFirst} -> Cell]

(* Chunks lie in the region, one above the other, and no two are adjacent. *)
Gaps(F, s) ==
    /\ F \subseteq Unit
    /\ \A c \in F : s[c] \in Nat \ {0} /\ c + s[c] <= Heap
    /\ \A c, d \in F : c < d => c + s[c] < d
(* d is the chunk behind c, or the end of the list. *)
Follower(F, c, d) ==
    d \in F \cup {Nil} /\ c < d /\ \A e \in F : c < e => d <= e
(* The units of the free chunks, and the sizes in their headers. *)
Loose(F, s) == {u \in Unit : \E c \in F : c <= u /\ u < c + s[c]}
Bytes == [c \in Unit |-> mem[c].bytes]
(* The headers link the list, but for that of x. *)
LinksBut(F, x) == \A c \in F \cup {MhFirst} : c # x => Follower(F, c, mem[c].next)

(* Blocks are apart from each other and from the free units L, and with them
   they are the region. *)
Apart(L, g) ==
    /\ \A t \in Task : g[t] \in Piece => Covers(g[t].addr, g[t].size) \subseteq Unit \ L
    /\ \A s, t \in Task : s # t /\ g[s] \in Piece /\ g[t] \in Piece =>
         Covers(g[s].addr, g[s].size) \cap Covers(g[t].addr, g[t].size) = {}
    /\ \A u \in Unit \ L : \E t \in Task : g[t] \in Piece /\ u \in Covers(g[t].addr, g[t].size)
(* The block that is cut off but not yet counted off is its task's already. *)
Cut(t) == [addr |-> loc[t].node, size |-> loc[t].end - loc[t].node]
Given == [t \in Task |-> IF at[t] = "account" THEN Cut(t) ELSE p[t]]

(* Before Carve: the chunk that fits, and the header in front of it. *)
Cuts(t, F) ==
    LET c == loc[t].node IN
    /\ c \in F /\ loc[t].link \in F \cup {MhFirst} /\ Follower(F, loc[t].link, c)
    /\ loc[t].end - c \in Sizes /\ loc[t].end <= c + mem[c].bytes
(* Between Insert and Close: q is in front of the block, and either the block
   continues it or q's header already points to the block. *)
Joins(t, q, F) ==
    LET b == p[t].addr IN
    /\ q \in F \cup {MhFirst} /\ Follower(F, q, loc[t].link) /\ q < b
    /\ loc[t].end = b + p[t].size /\ loc[t].end <= loc[t].link
    /\ \/ /\ q \in F /\ q + mem[q].bytes = b /\ loc[t].node = q /\ LinksBut(F, Nil)
       \/ /\ q \in F => q + mem[q].bytes < b
          /\ loc[t].node = b /\ LinksBut(F, q) /\ mem[q].next = b
(* Where the task is that is in the allocator. *)
Halfway(t, F) ==
    /\ at[t] \in {"carve", "rest"} => Cuts(t, F)
    /\ at[t] = "rest" => /\ loc[t].end < loc[t].node + mem[loc[t].node].bytes
                         /\ LinksBut(F, loc[t].link) /\ mem[loc[t].link].next = loc[t].end
    /\ at[t] = "account" => Cut(t) \in Piece /\ Cut(t).size \in Sizes
                            /\ free - Cut(t).size = Cardinality(Loose(F, Bytes))
    /\ at[t] = "close" => \E q \in F \cup {MhFirst} : Joins(t, q, F)
Whole(F) ==
    /\ Gaps(F, Bytes) /\ Apart(Loose(F, Bytes), Given)
    /\ \A t \in Task : Halfway(t, F)
    /\ (\A t \in Task : at[t] \notin {"rest", "close"}) => LinksBut(F, Nil)
    /\ (\A t \in Task : at[t] # "account") => free = Cardinality(Loose(F, Bytes))
(* What a worker's pointer is, place by place. *)
Pointers ==
    \A t \in Task :
      p[t] \in CASE pos[t] = "alloc" -> IF at[t] = "out" THEN Piece \cup {Null} ELSE {None}
                 [] pos[t] = "use"   -> Piece
                 [] pos[t] = "free"  -> IF at[t] = "out" THEN {None} ELSE Piece
                 [] pos[t] = "pause" -> {Null}
                 [] OTHER            -> {None}
Marked == \A t \in Task : pos[t] = "free" /\ p[t] \in Piece => \A u \in Extent(t) : mem[u].mark = t
Local == [node : Int, link : Int, end : Int]
Shape == mem \in Region /\ DOMAIN p = Task /\ loc \in [Task -> Local]
HeapInv == Shape /\ Pointers /\ Marked /\ \E F \in SUBSET Unit : Whole(F)

-----------------------------------------------------------------------------
(* Sets of chunks *)

USE SizeAssumption

(* Addresses are numbers below Nil, and Nil is not one of them. *)
LEMMA UnitFacts ==
    /\ Unit \subseteq Nat /\ Nil \in Nat /\ Nil \notin Unit /\ MhFirst \notin Unit
    /\ MhFirst \in Int /\ MhFirst < 0
    /\ \A u \in Unit : u < Nil /\ u >= 0
BY DEF Unit, Nil, MhFirst

(* One chunk is behind each. *)
LEMMA OneFollower ==
    ASSUME NEW F, F \subseteq Unit, NEW c, NEW d, NEW e, Follower(F, c, d), Follower(F, c, e)
    PROVE  d = e
BY UnitFacts DEF Follower

(* Different chunks are in front of different chunks. *)
LEMMA OneInFront ==
    ASSUME NEW F, F \subseteq Unit, NEW c \in F \cup {MhFirst}, NEW b \in F \cup {MhFirst},
           NEW d \in F, Follower(F, c, d), Follower(F, b, d)
    PROVE  c = b
BY UnitFacts DEF Follower

(* A chunk is taken out of the list. *)
LEMMA FollowersWithout ==
    ASSUME NEW F, F \subseteq Unit, NEW node \in F, NEW link \in F \cup {MhFirst},
           Follower(F, link, node)
    PROVE  /\ \A d : Follower(F, node, d) => Follower(F \ {node}, link, d)
           /\ \A c \in F \cup {MhFirst} : \A d : c # link /\ Follower(F, c, d)
                                          => Follower(F \ {node}, c, d)
<1>1. \A x \in F \cup {MhFirst} : x \in Int
  BY UnitFacts
<1>2. ASSUME NEW d, Follower(F, node, d) PROVE Follower(F \ {node}, link, d)
  BY <1>1, <1>2, UnitFacts DEF Follower
<1>3. ASSUME NEW c \in F \cup {MhFirst}, NEW d, c # link, Follower(F, c, d)
      PROVE  Follower(F \ {node}, c, d)
  <2>1. d # node
    BY <1>3, OneInFront
  <2>. QED
    BY <1>1, <1>3, <2>1 DEF Follower
<1>. QED
  BY <1>2, <1>3

(* A chunk is put into the list. *)
LEMMA FollowersWith ==
    ASSUME NEW F, F \subseteq Unit, NEW b \in Unit, NEW q \in F \cup {MhFirst}, NEW d \in F \cup {Nil},
           Follower(F, q, d), q < b, b < d
    PROVE  /\ b \notin F /\ Follower(F \cup {b}, q, b) /\ Follower(F \cup {b}, b, d)
           /\ \A c \in F \cup {MhFirst} : \A e : c # q /\ Follower(F, c, e) => Follower(F \cup {b}, c, e)
<1>1. /\ \A x \in F \cup {MhFirst, Nil} : x \in Int
      /\ b \in Int
  BY UnitFacts
<1>2. b \notin F /\ Follower(F \cup {b}, q, b)
  BY <1>1 DEF Follower
<1>3. Follower(F \cup {b}, b, d)
  BY <1>1 DEF Follower
<1>4. ASSUME NEW c \in F \cup {MhFirst}, NEW e, c # q, Follower(F, c, e)
      PROVE  Follower(F \cup {b}, c, e)
  <2>1. e \in F \cup {Nil}
    BY <1>4 DEF Follower
  <2>2. c < b => e <= b
    <3>1. CASE q < c
      BY <1>1, <1>4, <3>1, UnitFacts DEF Follower
    <3>2. CASE c < q
      <4>1. q \in F
        BY <1>4, <3>2, UnitFacts
      <4>. QED
        BY <1>1, <1>4, <2>1, <4>1, <3>2 DEF Follower
    <3>. QED
      BY <1>1, <1>4, <3>1, <3>2
  <2>. QED
    BY <1>1, <1>4, <2>1, <2>2 DEF Follower
<1>. QED
  BY <1>2, <1>3, <1>4

(* The free units are finitely many. *)
LEMMA LooseFacts ==
    ASSUME NEW F, NEW s
    PROVE  Loose(F, s) \subseteq Unit /\ IsFiniteSet(Loose(F, s)) /\ Cardinality(Loose(F, s)) \in Nat
<1>1. Loose(F, s) \subseteq Unit
  BY DEF Loose
<1>2. IsFiniteSet(Unit)
  BY FS_Interval DEF Unit
<1>. QED
  BY <1>1, <1>2, FS_Subset, FS_CardinalityType

(* Part of a set, counted. *)
LEMMA CardWithout ==
    ASSUME NEW S, IsFiniteSet(S), NEW T, T \subseteq S
    PROVE  Cardinality(S \ T) = Cardinality(S) - Cardinality(T)
<1>1. T = S \cap T
  OBVIOUS
<1>. QED
  BY <1>1, FS_Difference

(* The units of a block. *)
LEMMA CoversFacts ==
    ASSUME NEW a \in Int, NEW n \in Nat
    PROVE  /\ IsFiniteSet(Covers(a, n)) /\ Cardinality(Covers(a, n)) = n
           /\ \A u : u \in Covers(a, n) <=> u \in Int /\ a <= u /\ u < a + n
<1>1. \A u : u \in Covers(a, n) <=> u \in Int /\ a <= u /\ u < a + n
  BY DEF Covers
<1>2. a + n - 1 \in Int
  OBVIOUS
<1>3. /\ IsFiniteSet(a .. (a + n - 1))
      /\ Cardinality(a .. (a + n - 1)) = IF a > a + n - 1 THEN 0 ELSE (a + n - 1) - a + 1
  BY <1>2, FS_Interval
<1>4. Cardinality(a .. (a + n - 1)) = n
  BY <1>3
<1>. QED
  BY <1>1, <1>3, <1>4 DEF Covers

(* AllocMem: the first units of a chunk are cut off; e is their end. *)
LEMMA CutChunk ==
    ASSUME NEW F, NEW s, Gaps(F, s), NEW c \in F, NEW e \in Int, c < e, e <= c + s[c],
           NEW G, NEW r,
           IF e = c + s[c] THEN G = F \ {c} ELSE G = (F \ {c}) \cup {e} /\ r[e] = c + s[c] - e,
           \A d \in F \ {c} : r[d] = s[d]
    PROVE  /\ Gaps(G, r) /\ Covers(c, e - c) \subseteq Loose(F, s)
           /\ Loose(G, r) = Loose(F, s) \ Covers(c, e - c)
<1>1. /\ \A d \in F : d \in Nat /\ s[d] \in Nat /\ s[d] >= 1 /\ d < Heap /\ d + s[d] <= Heap
      /\ \A a, d \in F : a < d => a + s[a] < d
      /\ Heap \in Nat /\ F \subseteq Unit
  BY UnitFacts DEF Gaps, Nil, Unit
<1>2. \A u : u \in Covers(c, e - c) <=> u \in Int /\ c <= u /\ u < e
  BY <1>1, CoversFacts
<1>3. \A u \in Unit : u \in Int /\ u >= 0 /\ u < Heap
  BY UnitFacts DEF Nil
<1>4. Covers(c, e - c) \subseteq Loose(F, s)
  <2>. SUFFICES ASSUME NEW u \in Int, c <= u, u < e PROVE u \in Loose(F, s)
    BY <1>2
  <2>1. u \in Unit
    BY <1>1 DEF Unit
  <2>2. u < c + s[c]
    BY <1>1
  <2>. QED
    BY <2>1, <2>2 DEF Loose
<1>5. CASE e = c + s[c]
  <2>1. G = F \ {c} /\ \A d \in G : r[d] = s[d]
    BY <1>5
  <2>2. Gaps(G, r)
    BY <1>1, <2>1 DEF Gaps
  <2>3. ASSUME NEW u \in Unit
        PROVE  u \in Loose(G, r) <=> u \in Loose(F, s) /\ u \notin Covers(c, e - c)
    <3>1. ASSUME u \in Loose(G, r) PROVE u \in Loose(F, s) /\ ~(c <= u /\ u < e)
      <4>1. PICK d \in G : d <= u /\ u < d + r[d]
        BY <3>1 DEF Loose
      <4>2. d \in F /\ d # c /\ r[d] = s[d] /\ (d < c \/ c < d)
        BY <1>1, <2>1
      <4>. QED
        BY <1>1, <1>3, <1>5, <4>1, <4>2 DEF Loose
    <3>2. ASSUME u \in Loose(F, s), ~(c <= u /\ u < e) PROVE u \in Loose(G, r)
      <4>1. PICK d \in F : d <= u /\ u < d + s[d]
        BY <3>2 DEF Loose
      <4>2. d # c
        BY <1>5, <3>2, <4>1
      <4>. QED
        BY <2>1, <4>1, <4>2 DEF Loose
    <3>. QED
      BY <1>2, <1>3, <3>1, <3>2
  <2>4. Loose(G, r) = Loose(F, s) \ Covers(c, e - c)
    BY <2>3 DEF Loose
  <2>. QED
    BY <1>4, <2>2, <2>4
<1>6. CASE e # c + s[c]
  <2>1. /\ G = (F \ {c}) \cup {e} /\ r[e] = c + s[c] - e /\ e < c + s[c]
        /\ \A d \in F : d # c => r[d] = s[d]
    BY <1>1, <1>6
  <2>2. /\ e \in Unit /\ r[e] \in Nat \ {0} /\ e + r[e] = c + s[c]
    BY <1>1, <2>1 DEF Unit
  <2>3. \A d \in F : (d < c => d + s[d] < c) /\ (c < d => c + s[c] < d) /\ (d # c => d < c \/ c < d)
    BY <1>1
  <2>4. Gaps(G, r)
    <3>1. G \subseteq Unit /\ \A d \in G : r[d] \in Nat \ {0} /\ d + r[d] <= Heap
      <4>. SUFFICES ASSUME NEW d \in G PROVE d \in Unit /\ r[d] \in Nat \ {0} /\ d + r[d] <= Heap
        OBVIOUS
      <4>1. CASE d = e
        BY <1>1, <2>2, <4>1
      <4>2. CASE d # e
        BY <1>1, <2>1, <4>2
      <4>. QED
        BY <4>1, <4>2
    <3>2. ASSUME NEW a \in G, NEW d \in G, a < d PROVE a + r[a] < d
      <4>1. CASE a = e /\ d # e
        <5>1. d \in F /\ d # c
          BY <2>1, <4>1
        <5>2. c < d
          BY <1>1, <2>1, <2>2, <2>3, <3>2, <4>1, <5>1
        <5>. QED
          BY <1>1, <2>2, <2>3, <4>1, <5>1, <5>2
      <4>2. CASE a # e /\ d = e
        <5>1. a \in F /\ a # c /\ r[a] = s[a]
          BY <2>1, <4>2
        <5>2. a < c
          BY <1>1, <2>1, <2>2, <2>3, <3>2, <4>2, <5>1
        <5>. QED
          BY <1>1, <2>3, <4>2, <5>1, <5>2
      <4>3. CASE a # e /\ d # e
        BY <1>1, <2>1, <3>2, <4>3
      <4>. QED
        BY <1>1, <2>2, <3>2, <4>1, <4>2, <4>3
    <3>. QED
      BY <3>1, <3>2 DEF Gaps
  <2>5. ASSUME NEW u \in Unit
        PROVE  u \in Loose(G, r) <=> u \in Loose(F, s) /\ u \notin Covers(c, e - c)
    <3>1. ASSUME u \in Loose(G, r) PROVE u \in Loose(F, s) /\ ~(c <= u /\ u < e)
      <4>1. PICK d \in G : d <= u /\ u < d + r[d]
        BY <3>1 DEF Loose
      <4>2. CASE d = e
        <5>1. c <= u /\ u < c + s[c] /\ ~(u < e)
          BY <1>1, <1>3, <2>2, <4>1, <4>2
        <5>. QED
          BY <5>1 DEF Loose
      <4>3. CASE d # e
        <5>1. d \in F /\ d # c /\ r[d] = s[d]
          BY <2>1, <4>3
        <5>2. ~(c <= u /\ u < e)
          BY <1>1, <1>3, <2>1, <2>3, <4>1, <5>1
        <5>. QED
          BY <4>1, <5>1, <5>2 DEF Loose
      <4>. QED
        BY <4>2, <4>3
    <3>2. ASSUME u \in Loose(F, s), ~(c <= u /\ u < e) PROVE u \in Loose(G, r)
      <4>1. PICK d \in F : d <= u /\ u < d + s[d]
        BY <3>2 DEF Loose
      <4>2. CASE d = c
        <5>1. e <= u /\ u < e + r[e] /\ e \in G
          BY <1>1, <1>3, <2>1, <2>2, <3>2, <4>1, <4>2
        <5>. QED
          BY <5>1 DEF Loose
      <4>3. CASE d # c
        BY <2>1, <4>1, <4>3 DEF Loose
      <4>. QED
        BY <4>2, <4>3
    <3>. QED
      BY <1>2, <1>3, <3>1, <3>2
  <2>6. Loose(G, r) = Loose(F, s) \ Covers(c, e - c)
    BY <2>5 DEF Loose
  <2>. QED
    BY <1>4, <2>4, <2>6
<1>. QED
  BY <1>5, <1>6

(* The block from b to e lies between q and the chunk p2 behind it, and goes
   into the chunk at node. *)
Meets(F, q, p2, b, e, node) ==
    /\ q \in F \cup {MhFirst} /\ Follower(F, q, p2) /\ b \in Unit /\ e \in Int
    /\ q < b /\ b < e /\ e <= p2 /\ ((node = q /\ q \in F) \/ node = b)

(* The chunks then, and the one behind the new one: the chunk above the block
   is taken in when it is adjacent. *)
Joined(F, p2, e, node) == (IF e = p2 /\ p2 # Nil THEN F \ {p2} ELSE F) \cup {node}
Behind(p2, e) == IF e = p2 /\ p2 # Nil THEN mem[p2].next ELSE p2

(* FreeMem: the units from b to e become free behind q; node is where the
   chunk they come to be part of begins, and end where it ends; s and r are
   the sizes of the chunks before and after. *)
Joining(F, s, q, p2, b, e, node, end, r) ==
    /\ Gaps(F, s) /\ Meets(F, q, p2, b, e, node) /\ (q \in F => q + s[q] <= b)
    /\ node = IF q \in F /\ q + s[q] = b THEN q ELSE b
    /\ end = IF e = p2 /\ p2 # Nil THEN p2 + s[p2] ELSE e
    /\ r[node] = end - node /\ \A d \in Joined(F, p2, e, node) \ {node} : r[d] = s[d]

(* The chunks then lie apart again, and what is free is what was, with the
   units from b to e. *)
LEMMA JoinChunk ==
    ASSUME NEW F, NEW s, NEW q, NEW p2, NEW b, NEW e, NEW node, NEW end, NEW r,
           Joining(F, s, q, p2, b, e, node, end, r)
    PROVE  /\ Gaps(Joined(F, p2, e, node), r) /\ node < end /\ end <= Heap
           /\ Loose(Joined(F, p2, e, node), r) = Loose(F, s) \cup Covers(b, e - b)
<1>. /\ Gaps(F, s) /\ Meets(F, q, p2, b, e, node) /\ (q \in F => q + s[q] <= b)
     /\ node = IF q \in F /\ q + s[q] = b THEN q ELSE b
     /\ end = IF e = p2 /\ p2 # Nil THEN p2 + s[p2] ELSE e
     /\ r[node] = end - node /\ \A d \in Joined(F, p2, e, node) \ {node} : r[d] = s[d]
  BY DEF Joining
<1>a. PICK G : G = Joined(F, p2, e, node) /\ G = (IF e = p2 /\ p2 # Nil THEN F \ {p2} ELSE F) \cup {node}
  BY DEF Joined
<1>. SUFFICES /\ Gaps(G, r) /\ node < end /\ end <= Heap
              /\ Loose(G, r) = Loose(F, s) \cup Covers(b, e - b)
  BY <1>a
<1>0. /\ q \in F \cup {MhFirst} /\ Follower(F, q, p2) /\ b \in Unit /\ e \in Int
      /\ q < b /\ b < e /\ e <= p2
  BY DEF Meets
<1>1. /\ \A d \in F : d \in Nat /\ s[d] \in Nat /\ s[d] >= 1 /\ d < Heap /\ d + s[d] <= Heap
      /\ \A a, d \in F : a < d => a + s[a] < d
      /\ Heap \in Nat /\ F \subseteq Unit /\ b \in Nat /\ b < Heap
  BY <1>0, UnitFacts DEF Gaps, Nil, Unit
<1>2. /\ p2 \in F \cup {Heap} /\ q < p2 /\ \A d \in F : q < d => p2 <= d
      /\ q \in Int /\ p2 \in Nat /\ p2 <= Heap /\ (p2 # Heap <=> p2 \in F)
  BY <1>0, <1>1, UnitFacts DEF Follower, Nil
<1>3. /\ node \in Nat /\ node <= b /\ q <= node
      /\ \/ q \in F /\ q + s[q] = b /\ node = q
         \/ node = b /\ (q \in F => q + s[q] < b)
  BY <1>0, <1>1, <1>2
<1>4. /\ end \in Nat /\ e <= end /\ end <= Heap
      /\ \/ e = p2 /\ p2 \in F /\ end = p2 + s[p2]
         \/ end = e /\ (p2 \in F => e < p2)
  <2>1. CASE e = p2 /\ p2 # Nil
    BY <1>0, <1>1, <1>2, <2>1 DEF Nil
  <2>2. CASE ~(e = p2 /\ p2 # Nil)
    BY <1>0, <1>1, <1>2, <2>2 DEF Nil
  <2>. QED
    BY <2>1, <2>2
<1>5. node < end
  BY <1>0, <1>1, <1>3, <1>4
<1>6. ASSUME NEW d \in F, d # node, ~(e = p2 /\ d = p2)
      PROVE  (d < node /\ d + s[d] < node) \/ end < d
  <2>1. CASE d < q
    BY <1>0, <1>1, <1>2, <1>3, <2>1, UnitFacts
  <2>2. CASE d = q
    BY <1>0, <1>1, <1>3, <1>6, <2>2
  <2>3. CASE q < d
    <3>1. p2 <= d
      BY <1>0, <1>2, <2>3
    <3>2. p2 \in F
      BY <1>0, <1>1, <1>2, <3>1
    <3>. QED
      BY <1>0, <1>1, <1>2, <1>4, <1>6, <3>1, <3>2
  <2>. QED
    BY <1>0, <1>1, <1>2, <2>1, <2>2, <2>3
<1>7. ASSUME NEW d \in G, d # node
      PROVE  d \in F /\ r[d] = s[d] /\ ((d < node /\ d + s[d] < node) \/ end < d)
  <2>1. d \in F /\ r[d] = s[d] /\ ~(e = p2 /\ d = p2)
    BY <1>0, <1>a, <1>1, <1>2, <1>7 DEF Nil
  <2>. QED
    BY <1>0, <1>a, <1>6, <1>7, <2>1
<1>8. node \in G /\ r[node] \in Nat \ {0} /\ node + r[node] = end /\ node \in Unit
  BY <1>0, <1>a, <1>1, <1>3, <1>4, <1>5 DEF Unit
<1>9. Gaps(G, r)
  <2>1. ASSUME NEW d \in G PROVE d \in Unit /\ r[d] \in Nat \ {0} /\ d + r[d] <= Heap
    <3>1. CASE d = node
      BY <1>0, <1>a, <1>4, <1>8, <3>1
    <3>2. CASE d # node
      BY <1>0, <1>a, <1>1, <1>7, <3>2
    <3>. QED
      BY <3>1, <3>2
  <2>2. ASSUME NEW a \in G, NEW d \in G, a < d PROVE a + r[a] < d
    <3>1. CASE a = node /\ d # node
      BY <1>0, <1>a, <1>1, <1>3, <1>4, <1>7, <1>8, <2>2, <3>1
    <3>2. CASE a # node /\ d = node
      BY <1>0, <1>a, <1>1, <1>3, <1>4, <1>5, <1>7, <2>2, <3>2
    <3>3. CASE a # node /\ d # node
      <4>1. a \in F /\ d \in F /\ r[a] = s[a]
        BY <1>0, <1>a, <1>7, <3>3
      <4>. QED
        BY <1>0, <1>a, <1>1, <2>2, <4>1
    <3>. QED
      BY <1>0, <1>a, <1>1, <1>3, <2>2, <3>1, <3>2, <3>3
  <2>. QED
    BY <2>1, <2>2 DEF Gaps
<1>10. ASSUME NEW u \in Unit
       PROVE  u \in Loose(G, r) <=> u \in Loose(F, s) \/ u \in Covers(b, e - b)
  <2>0. u \in Nat /\ u < Heap
    BY UnitFacts DEF Nil
  <2>1. u \in Covers(b, e - b) <=> b <= u /\ u < e
    BY <1>0, <1>a, <1>1, <2>0, CoversFacts
  <2>2. ASSUME u \in Loose(G, r) PROVE u \in Loose(F, s) \/ (b <= u /\ u < e)
    <3>1. PICK d \in G : d <= u /\ u < d + r[d]
      BY <2>2 DEF Loose
    <3>2. CASE d # node
      BY <1>0, <1>a, <1>7, <3>1, <3>2 DEF Loose
    <3>3. CASE d = node
      <4>1. node <= u /\ u < end
        BY <1>0, <1>a, <1>8, <3>1, <3>3
      <4>2. CASE u < b
        <5>1. q \in F /\ q <= u /\ u < q + s[q]
          BY <1>0, <1>a, <1>1, <1>3, <2>0, <4>1, <4>2
        <5>. QED
          BY <5>1 DEF Loose
      <4>3. CASE e <= u
        <5>1. p2 \in F /\ p2 <= u /\ u < p2 + s[p2]
          BY <1>0, <1>a, <1>1, <1>4, <2>0, <4>1, <4>3
        <5>. QED
          BY <5>1 DEF Loose
      <4>. QED
        BY <1>0, <1>a, <1>1, <2>0, <4>2, <4>3
    <3>. QED
      BY <3>2, <3>3
  <2>3. ASSUME b <= u, u < e PROVE u \in Loose(G, r)
    BY <1>0, <1>a, <1>3, <1>4, <1>8, <2>0, <2>3, <1>1 DEF Loose
  <2>4. ASSUME u \in Loose(F, s) PROVE u \in Loose(G, r)
    <3>1. PICK d \in F : d <= u /\ u < d + s[d]
      BY <2>4 DEF Loose
    <3>2. CASE d \in G /\ d # node
      BY <1>0, <1>a, <1>7, <3>1, <3>2 DEF Loose
    <3>3. CASE d = node
      <4>1. node = q /\ q \in F /\ q + s[q] = b
        BY <1>0, <1>a, <1>1, <1>2, <1>3, <3>1, <3>3, UnitFacts
      <4>2. node <= u /\ u < node + r[node]
        BY <1>0, <1>a, <1>1, <1>4, <1>8, <2>0, <3>1, <3>3, <4>1
      <4>. QED
        BY <1>0, <1>a, <1>8, <4>2 DEF Loose
    <3>4. CASE d \notin G
      <4>1. d = p2 /\ e = p2 /\ p2 # Nil
        BY <1>0, <1>a, <1>1, <3>1, <3>4
      <4>2. end = p2 + s[p2]
        BY <1>0, <1>a, <4>1
      <4>3. node <= u /\ u < node + r[node]
        BY <1>0, <1>a, <1>1, <1>2, <1>3, <1>8, <2>0, <3>1, <4>1, <4>2
      <4>. QED
        BY <1>0, <1>a, <1>8, <4>3 DEF Loose
    <3>. QED
      BY <3>2, <3>3, <3>4
  <2>. QED
    BY <2>1, <2>2, <2>3, <2>4
<1>11. Covers(b, e - b) \subseteq Unit
  <2>1. \A u : u \in Covers(b, e - b) <=> u \in Int /\ b <= u /\ u < b + (e - b)
    BY <1>0, <1>a, <1>1, CoversFacts
  <2>. QED
    BY <1>0, <1>a, <1>1, <1>4, <2>1 DEF Unit
<1>12. Loose(G, r) = Loose(F, s) \cup Covers(b, e - b)
  BY <1>0, <1>a, <1>10, <1>11 DEF Loose
<1>. QED
  BY <1>0, <1>a, <1>4, <1>5, <1>9, <1>12

-----------------------------------------------------------------------------
(* The walk along the list *)

(* The first of some places is one of them. *)
LEMMA PlaceFirst ==
    ASSUME NEW n \in Nat, NEW S \in SUBSET (0 .. n), S # {}
    PROVE  Place(S) \in S /\ \A m \in S : Place(S) <= m
<1>. DEFINE T == {k + 1 : k \in S}
<1>1. T \in SUBSET (1 .. n + 1) /\ T # {} /\ n + 1 \in Nat
  <2>1. \A k \in S : k + 1 \in 1 .. n + 1
    OBVIOUS
  <2>2. T \subseteq 1 .. n + 1
    BY <2>1
  <2>3. T # {}
    OBVIOUS
  <2>. QED
    BY <2>2, <2>3
<1>2. PICK i \in T : \A k \in T : i <= k
  <2>. HIDE DEF T
  <2>. QED
    BY <1>1, Least
<1>3. PICK j \in S : i = j + 1
  BY <1>2
<1>4. \A m \in S : j <= m
  <2>. TAKE m \in S
  <2>1. i <= m + 1
    BY <1>2
  <2>. QED
    BY <1>3, <2>1
<1>. QED
  BY <1>3, <1>4 DEF Place

(* f is the walk from mh_First over k links. *)
Walk(k, f) == f = [n \in 0 .. k |->
                     IF n = 0 THEN MhFirst ELSE IF f[n - 1] = Nil THEN Nil ELSE mem[f[n - 1]].next]

(* A walk can always go on. *)
LEMMA WalkExists == \E f : Walk(Heap + 1, f)
<1>. DEFINE S == {k \in 1 .. Heap + 1 : ~ \E f : Walk(k, f)}
<1>1. Walk(0, [n \in 0 .. 0 |-> MhFirst])
  BY DEF Walk
<1>2. ASSUME NEW k \in 0 .. Heap, \E f : Walk(k, f) PROVE \E f : Walk(k + 1, f)
  <2>1. PICK f : Walk(k, f)
    BY <1>2
  <2>. DEFINE next(c) == IF c = Nil THEN Nil ELSE mem[c].next
              g == [n \in 0 .. k + 1 |-> IF n <= k THEN f[n] ELSE next(f[k])]
  <2>2. f = [n \in 0 .. k |-> IF n = 0 THEN MhFirst ELSE next(f[n - 1])]
    BY <2>1 DEF Walk
  <2>. HIDE DEF next
  <2>3. ASSUME NEW n \in 0 .. k + 1 PROVE g[n] = IF n = 0 THEN MhFirst ELSE next(g[n - 1])
    <3>1. CASE n = 0
      BY <2>2, <3>1
    <3>2. CASE n # 0 /\ n <= k
      <4>1. n \in 0 .. k /\ n - 1 \in 0 .. k + 1 /\ n - 1 <= k /\ n - 1 \in 0 .. k
        BY <3>2
      <4>2. g[n] = f[n] /\ g[n - 1] = f[n - 1]
        BY <4>1, <3>2
      <4>3. f[n] = next(f[n - 1])
        BY <2>2, <3>2, <4>1
      <4>. QED
        BY <3>2, <4>2, <4>3
    <3>3. CASE n = k + 1
      <4>1. n - 1 = k /\ k \in 0 .. k + 1 /\ k <= k /\ ~(n <= k) /\ n # 0
        BY <3>3
      <4>2. g[n] = next(f[k]) /\ g[n - 1] = f[k]
        BY <4>1
      <4>. QED
        BY <4>1, <4>2
    <3>. QED
      BY <3>1, <3>2, <3>3
  <2>4. g = [n \in 0 .. k + 1 |-> g[n]]
    OBVIOUS
  <2>. HIDE DEF g
  <2>5. g = [n \in 0 .. k + 1 |-> IF n = 0 THEN MhFirst ELSE next(g[n - 1])]
    BY <2>3, <2>4
  <2>6. Walk(k + 1, g)
    BY <2>5 DEF Walk, next
  <2>. QED
    BY <2>6
<1>3. S = {}
  <2>. SUFFICES ASSUME S # {} PROVE FALSE
    OBVIOUS
  <2>1. S \in SUBSET (1 .. Heap + 1) /\ Heap + 1 \in Nat
    OBVIOUS
  <2>2. PICK m \in S : \A k \in S : m <= k
    <3>. HIDE DEF S
    <3>. QED
      BY <2>1, Least
  <2>3. m - 1 \in 0 .. Heap /\ m - 1 + 1 = m /\ m - 1 \notin S
    BY <2>1, <2>2
  <2>4. \E f : Walk(m - 1, f)
    <3>1. CASE m = 1
      BY <1>1, <3>1
    <3>2. CASE m # 1
      BY <2>3, <3>2
    <3>. QED
      BY <3>1, <3>2
  <2>5. \E f : Walk(m, f)
    <3>. HIDE DEF S
    <3>. QED
      BY <1>2, <2>3, <2>4
  <2>. QED
    BY <2>2, <2>5
<1>4. Heap + 1 \in 1 .. Heap + 1
  OBVIOUS
<1>. QED
  BY <1>3, <1>4

(* Chain is the walk along mc_Next. *)
LEMMA ChainWalks == Walk(Heap + 1, Chain)
BY WalkExists DEF Chain, Walk

(* One step along the list. *)
LEMMA ChainStep ==
    /\ Chain[0] = MhFirst
    /\ \A n \in 0 .. Heap : Chain[n + 1] = IF Chain[n] = Nil THEN Nil ELSE mem[Chain[n]].next
<1>1. Chain = [n \in 0 .. Heap + 1 |-> IF n = 0 THEN MhFirst
                 ELSE IF Chain[n - 1] = Nil THEN Nil ELSE mem[Chain[n - 1]].next]
  BY ChainWalks DEF Walk
<1>2. Chain[0] = MhFirst
  BY <1>1
<1>3. ASSUME NEW n \in 0 .. Heap
      PROVE  Chain[n + 1] = IF Chain[n] = Nil THEN Nil ELSE mem[Chain[n]].next
  <2>1. n + 1 \in 0 .. Heap + 1 /\ n + 1 # 0 /\ n + 1 - 1 = n
    OBVIOUS
  <2>. QED
    BY <1>1, <2>1
<1>. QED
  BY <1>2, <1>3

(* The walk is over chunks, upwards, and ends. *)
LEMMA ChainClimbs ==
    ASSUME NEW F, F \subseteq Unit, LinksBut(F, Nil)
    PROVE  /\ \A n \in 0 .. Heap + 1 : /\ Chain[n] \in F \cup {MhFirst, Nil} /\ n - 1 <= Chain[n]
                                       /\ n # 0 => Chain[n] \in F \cup {Nil}
           /\ \A n \in 0 .. Heap : Chain[n] # Nil => Follower(F, Chain[n], Chain[n + 1])
           /\ Chain[Heap + 1] = Nil
<1>. DEFINE S == {k \in 1 .. Heap + 1 : ~(Chain[k] \in F \cup {Nil} /\ k - 1 <= Chain[k])}
<1>1. \A c \in F \cup {MhFirst} : Follower(F, c, mem[c].next) /\ c \in Int
  BY UnitFacts DEF LinksBut
<1>2. ASSUME NEW n \in 0 .. Heap, Chain[n] \in F \cup {MhFirst, Nil}, n - 1 <= Chain[n]
      PROVE  /\ Chain[n + 1] \in F \cup {Nil} /\ n <= Chain[n + 1]
             /\ Chain[n] # Nil => Follower(F, Chain[n], Chain[n + 1])
  <2>1. CASE Chain[n] = Nil
    BY <2>1, ChainStep DEF Nil
  <2>2. CASE Chain[n] # Nil
    <3>1. Chain[n] \in F \cup {MhFirst} /\ Follower(F, Chain[n], Chain[n + 1])
      BY <1>1, <1>2, <2>2, ChainStep
    <3>2. Chain[n + 1] \in F \cup {Nil} /\ Chain[n] < Chain[n + 1]
      BY <3>1 DEF Follower
    <3>3. Chain[n] \in Int /\ Chain[n + 1] \in Int
      <4>1. \A x \in F \cup {MhFirst, Nil} : x \in Int
        BY UnitFacts
      <4>. QED
        BY <3>1, <3>2, <4>1
    <3>. QED
      BY <1>2, <3>1, <3>2, <3>3
  <2>. QED
    BY <2>1, <2>2
<1>3. Chain[0] \in F \cup {MhFirst, Nil} /\ 0 - 1 <= Chain[0]
  BY ChainStep DEF MhFirst
<1>4. S = {}
  <2>. SUFFICES ASSUME S # {} PROVE FALSE
    OBVIOUS
  <2>1. S \in SUBSET (1 .. Heap + 1) /\ Heap + 1 \in Nat
    OBVIOUS
  <2>2. PICK m \in S : \A k \in S : m <= k
    <3>. HIDE DEF S
    <3>. QED
      BY <2>1, Least
  <2>3. m - 1 \in 0 .. Heap /\ m - 1 + 1 = m /\ m - 1 \notin S
    BY <2>1, <2>2
  <2>4. Chain[m - 1] \in F \cup {MhFirst, Nil} /\ (m - 1) - 1 <= Chain[m - 1]
    <3>1. CASE m = 1
      BY <1>3, <3>1
    <3>2. CASE m # 1
      <4>1. m - 1 \in 1 .. Heap + 1
        BY <2>1, <2>3, <3>2
      <4>. QED
        BY <2>3, <4>1
    <3>. QED
      BY <3>1, <3>2
  <2>5. Chain[m] \in F \cup {Nil} /\ m - 1 <= Chain[m]
    <3>. HIDE DEF S
    <3>1. Chain[m - 1 + 1] \in F \cup {Nil} /\ m - 1 <= Chain[m - 1 + 1]
      BY <1>2, <2>3, <2>4
    <3>. QED
      BY <2>3, <3>1
  <2>. QED
    BY <2>2, <2>5
<1>5. \A n \in 1 .. Heap + 1 : Chain[n] \in F \cup {Nil} /\ n - 1 <= Chain[n]
  BY <1>4
<1>6. \A n \in 0 .. Heap + 1 : n = 0 \/ n \in 1 .. Heap + 1
  OBVIOUS
<1>. HIDE DEF S
<1>7. \A n \in 0 .. Heap + 1 : /\ Chain[n] \in F \cup {MhFirst, Nil} /\ n - 1 <= Chain[n]
                               /\ n # 0 => Chain[n] \in F \cup {Nil}
  BY <1>3, <1>5, <1>6
<1>8. \A n \in 0 .. Heap : n \in 0 .. Heap + 1
  OBVIOUS
<1>9. \A n \in 0 .. Heap : Chain[n] # Nil => Follower(F, Chain[n], Chain[n + 1])
  BY <1>2, <1>7, <1>8
<1>10. Chain[Heap + 1] = Nil
  <2>1. Heap + 1 \in 0 .. Heap + 1 /\ Heap + 1 # 0 /\ Heap + 1 - 1 = Heap
    OBVIOUS
  <2>2. Chain[Heap + 1] \in F \cup {Nil} /\ Heap <= Chain[Heap + 1]
    BY <1>7, <2>1
  <2>3. \A c \in F : c \in Nat /\ c < Heap
    BY UnitFacts DEF Nil
  <2>. QED
    BY <2>2, <2>3
<1>. QED
  BY <1>7, <1>9, <1>10

(* FreeMem's search stops between the chunks below a block and those above. *)
LEMMA StopsAt ==
    ASSUME NEW F, F \subseteq Unit, LinksBut(F, Nil), NEW b \in Unit,
           NEW n, n = Place({m \in 0 .. Heap : Chain[m + 1] >= b})
    PROVE  /\ n \in 0 .. Heap
           /\ Chain[n] \in F \cup {MhFirst} /\ Chain[n] < b /\ b <= Chain[n + 1]
           /\ Follower(F, Chain[n], Chain[n + 1])
<1>. DEFINE S == {m \in 0 .. Heap : Chain[m + 1] >= b}
<1>1. /\ \A k \in 0 .. Heap + 1 : /\ Chain[k] \in F \cup {MhFirst, Nil} /\ k - 1 <= Chain[k]
                                  /\ k # 0 => Chain[k] \in F \cup {Nil}
      /\ \A k \in 0 .. Heap : Chain[k] # Nil => Follower(F, Chain[k], Chain[k + 1])
      /\ Chain[Heap + 1] = Nil
  BY ChainClimbs
<1>2. b \in Nat /\ b < Heap /\ b < Nil /\ Heap \in 0 .. Heap
  BY UnitFacts DEF Nil
<1>3. Heap \in S
  BY <1>1, <1>2, UnitFacts
<1>4. n \in S /\ \A m \in S : n <= m
  <2>1. S \in SUBSET (0 .. Heap) /\ S # {} /\ Heap \in Nat
    BY <1>3
  <2>. HIDE DEF S
  <2>2. Place(S) \in S /\ \A m \in S : Place(S) <= m
    BY <2>1, PlaceFirst
  <2>3. n = Place(S)
    BY DEF S
  <2>. QED
    BY <2>2, <2>3
<1>5. \A c \in F \cup {MhFirst, Nil} : c \in Int
  BY UnitFacts
<1>6. n \in 0 .. Heap /\ Chain[n + 1] >= b
  BY <1>4
<1>7. Chain[n] < b
  <2>1. CASE n = 0
    BY <1>2, <2>1, ChainStep, UnitFacts
  <2>2. CASE n # 0
    <3>1. n - 1 \in 0 .. Heap /\ n - 1 + 1 = n /\ n - 1 \notin S /\ n \in 0 .. Heap + 1
      BY <1>4, <1>6, <2>2
    <3>2. ~(Chain[n] >= b) /\ Chain[n] \in Int
      BY <1>1, <1>5, <3>1
    <3>. QED
      BY <1>2, <3>2
  <2>. QED
    BY <2>1, <2>2
<1>8. Chain[n] \in F \cup {MhFirst}
  <2>1. n \in 0 .. Heap + 1
    BY <1>6
  <2>2. Chain[n] # Nil
    BY <1>2, <1>7, UnitFacts
  <2>. QED
    BY <1>1, <2>1, <2>2
<1>9. b <= Chain[n + 1]
  <2>1. n + 1 \in 0 .. Heap + 1
    BY <1>6
  <2>2. Chain[n + 1] \in Int
    BY <1>1, <1>5, <2>1
  <2>. QED
    BY <1>2, <1>6, <2>2
<1>10. Follower(F, Chain[n], Chain[n + 1])
  BY <1>1, <1>6, <1>8, UnitFacts
<1>. QED
  BY <1>6, <1>7, <1>8, <1>9, <1>10

(* The walk comes to every chunk. *)
LEMMA ChunksAre ==
    ASSUME NEW F, F \subseteq Unit, LinksBut(F, Nil)
    PROVE  Chunks = F /\ \A c \in F : \E n \in 0 .. Heap : Chain[n + 1] = c
<1>1. ASSUME NEW c \in F PROVE \E n \in 0 .. Heap : Chain[n + 1] = c
  <2>. DEFINE n == Place({m \in 0 .. Heap : Chain[m + 1] >= c})
  <2>1. /\ n \in 0 .. Heap
        /\ Chain[n] \in F \cup {MhFirst} /\ Chain[n] < c /\ c <= Chain[n + 1]
        /\ Follower(F, Chain[n], Chain[n + 1])
    BY StopsAt
  <2>. HIDE DEF n
  <2>2. Chain[n + 1] <= c /\ Chain[n + 1] \in Int /\ c \in Int
    <3>1. \A x \in F \cup {MhFirst, Nil} : x \in Int
      BY UnitFacts
    <3>2. /\ Chain[n + 1] \in F \cup {Nil}
          /\ \A e \in F : Chain[n] < e => Chain[n + 1] <= e
      BY <2>1 DEF Follower
    <3>. QED
      BY <2>1, <3>1, <3>2
  <2>3. Chain[n + 1] = c
    BY <2>1, <2>2
  <2>. QED
    BY <2>1, <2>3
<1>2. \A n \in 1 .. Heap + 1 : Chain[n] \in F \cup {Nil}
  <2>1. \A n \in 1 .. Heap + 1 : n \in 0 .. Heap + 1 /\ n # 0
    OBVIOUS
  <2>. QED
    BY <2>1, ChainClimbs
<1>3. \A n \in 0 .. Heap : n + 1 \in 1 .. Heap + 1
  OBVIOUS
<1>4. Nil \notin F
  BY UnitFacts
<1>5. Chunks = {Chain[n] : n \in 1 .. Heap + 1} \ {Nil}
  BY DEF Chunks
<1>6. Chunks \subseteq F
  BY <1>2, <1>5
<1>7. F \subseteq Chunks
  BY <1>1, <1>3, <1>4, <1>5
<1>. QED
  BY <1>1, <1>6, <1>7

(* AllocMem's search finds a chunk and the header in front of it, or no chunk
   is large enough. *)
LEMMA FitsAt ==
    ASSUME NEW F, F \subseteq Unit, LinksBut(F, Nil), NEW size,
           NEW fits, fits = {n \in 0 .. Heap : Chain[n + 1] # Nil /\ mem[Chain[n + 1]].bytes >= size}
    PROVE  /\ fits = {} => \A c \in F : ~(mem[c].bytes >= size)
           /\ fits # {} => LET n == Place(fits) IN
                /\ Chain[n + 1] \in F /\ mem[Chain[n + 1]].bytes >= size
                /\ Chain[n] \in F \cup {MhFirst} /\ Follower(F, Chain[n], Chain[n + 1])
<1>1. ASSUME fits = {}, NEW c \in F PROVE ~(mem[c].bytes >= size)
  <2>1. PICK n \in 0 .. Heap : Chain[n + 1] = c
    BY ChunksAre
  <2>2. c # Nil
    BY UnitFacts
  <2>. QED
    BY <1>1, <2>1, <2>2
<1>2. ASSUME fits # {}, NEW n, n = Place(fits)
      PROVE  /\ Chain[n + 1] \in F /\ mem[Chain[n + 1]].bytes >= size
             /\ Chain[n] \in F \cup {MhFirst} /\ Follower(F, Chain[n], Chain[n + 1])
  <2>1. fits \in SUBSET (0 .. Heap) /\ Heap \in Nat
    OBVIOUS
  <2>2. n \in fits
    BY <1>2, <2>1, PlaceFirst
  <2>3. n \in 0 .. Heap /\ Chain[n + 1] # Nil /\ mem[Chain[n + 1]].bytes >= size
    BY <2>2
  <2>4. n + 1 \in 0 .. Heap + 1 /\ n + 1 # 0 /\ n \in 0 .. Heap + 1
    BY <2>3
  <2>5. Chain[n + 1] \in F /\ Chain[n] \in F \cup {MhFirst, Nil}
    BY <2>3, <2>4, ChainClimbs
  <2>6. Chain[n] # Nil
    BY <2>3, ChainStep
  <2>. QED
    BY <2>3, <2>5, <2>6, ChainClimbs
<1>. QED
  BY <1>1, <1>2

-----------------------------------------------------------------------------
(* Blocks *)

HeapStage == {"carve", "rest", "account", "close"}

(* A block is no failed answer, and has at least one unit. *)
LEMMA PieceFacts ==
    /\ None \notin Piece /\ Null \notin Piece
    /\ \A x \in Piece : /\ x.addr \in Unit /\ x.size \in 1 .. Heap /\ x.addr \in Nat /\ x.size \in Nat
                        /\ x.addr \in Covers(x.addr, x.size)
                        /\ \A u : u \in Covers(x.addr, x.size)
                                    <=> u \in Int /\ x.addr <= u /\ u < x.addr + x.size
<1>1. Piece \subseteq [addr : Nat, size : Nat]
  <2>1. Unit \subseteq Nat /\ 1 .. Heap \subseteq Nat
    BY UnitFacts
  <2>. QED
    BY <2>1 DEF Piece
<1>2. ASSUME NEW x \in Piece
      PROVE  /\ x.addr \in Unit /\ x.size \in 1 .. Heap /\ x.addr \in Nat /\ x.size \in Nat
             /\ x.addr \in Covers(x.addr, x.size)
             /\ \A u : u \in Covers(x.addr, x.size)
                         <=> u \in Int /\ x.addr <= u /\ u < x.addr + x.size
  <2>1. x.addr \in Unit /\ x.size \in 1 .. Heap /\ x.addr \in Nat
    BY UnitFacts DEF Piece
  <2>2. x.size \in Nat /\ x.size >= 1
    BY <2>1
  <2>3. \A u : u \in Covers(x.addr, x.size) <=> u \in Int /\ x.addr <= u /\ u < x.addr + x.size
    BY <2>1, <2>2, CoversFacts
  <2>4. x.addr \in Int /\ x.addr <= x.addr /\ x.addr < x.addr + x.size
    BY <2>1, <2>2
  <2>. QED
    BY <2>1, <2>2, <2>3, <2>4
<1>3. None \notin Piece /\ Null \notin Piece
  BY <1>1, BlockAssumption
<1>. QED
  BY <1>2, <1>3

(* Only the blocks matter. *)
LEMMA ApartSame ==
    ASSUME NEW L, NEW g, NEW h, Apart(L, g),
           \A t \in Task : (h[t] \in Piece <=> g[t] \in Piece) /\ (g[t] \in Piece => h[t] = g[t])
    PROVE  Apart(L, h)
BY DEF Apart

(* A block is taken out of the free units. *)
LEMMA ApartTake ==
    ASSUME NEW L, L \subseteq Unit, NEW g, NEW h, Apart(L, g), NEW t \in Task, g[t] \notin Piece,
           h[t] \in Piece, Covers(h[t].addr, h[t].size) \subseteq L,
           \A s \in Task \ {t} : h[s] = g[s]
    PROVE  Apart(L \ Covers(h[t].addr, h[t].size), h)
<1>. DEFINE C == Covers(h[t].addr, h[t].size)
            D(s) == Covers(h[s].addr, h[s].size)
<1>1. \A s \in Task \ {t} : g[s] = h[s] /\ (h[s] \in Piece => D(s) \subseteq Unit \ L)
  BY DEF Apart
<1>2. \A s \in Task : h[s] \in Piece => D(s) \subseteq Unit \ (L \ C)
  BY <1>1
<1>3. \A s, r \in Task : s # r /\ h[s] \in Piece /\ h[r] \in Piece => D(s) \cap D(r) = {}
  <2>. SUFFICES ASSUME NEW s \in Task, NEW r \in Task, s # r, h[s] \in Piece, h[r] \in Piece
                PROVE  D(s) \cap D(r) = {}
    OBVIOUS
  <2>1. CASE s = t \/ r = t
    BY <1>1, <2>1
  <2>2. CASE s # t /\ r # t
    BY <1>1, <2>2 DEF Apart
  <2>. QED
    BY <2>1, <2>2
<1>4. ASSUME NEW u \in Unit \ (L \ C) PROVE \E s \in Task : h[s] \in Piece /\ u \in D(s)
  <2>1. CASE u \in C
    BY <2>1
  <2>2. CASE u \notin C
    <3>1. PICK s \in Task : g[s] \in Piece /\ u \in Covers(g[s].addr, g[s].size)
      BY <1>4, <2>2 DEF Apart
    <3>. QED
      BY <1>1, <3>1
  <2>. QED
    BY <2>1, <2>2
<1>. QED
  BY <1>2, <1>3, <1>4 DEF Apart

(* A block is given back to the free units. *)
LEMMA ApartGive ==
    ASSUME NEW L, NEW g, NEW h, Apart(L, g), NEW t \in Task, g[t] \in Piece,
           h[t] \notin Piece, \A s \in Task \ {t} : h[s] = g[s]
    PROVE  Apart(L \cup Covers(g[t].addr, g[t].size), h)
<1>. DEFINE C == Covers(g[t].addr, g[t].size)
            D(s) == Covers(h[s].addr, h[s].size)
<1>1. \A s \in Task : h[s] \in Piece => s # t /\ g[s] = h[s] /\ D(s) \subseteq Unit \ (L \cup C)
  <2>. SUFFICES ASSUME NEW s \in Task, h[s] \in Piece
                PROVE  s # t /\ g[s] = h[s] /\ D(s) \subseteq Unit \ (L \cup C)
    OBVIOUS
  <2>1. s # t /\ g[s] = h[s]
    OBVIOUS
  <2>2. D(s) \subseteq Unit \ L /\ D(s) \cap C = {}
    BY <2>1 DEF Apart
  <2>. QED
    BY <2>1, <2>2
<1>2. \A s, r \in Task : s # r /\ h[s] \in Piece /\ h[r] \in Piece => D(s) \cap D(r) = {}
  BY <1>1 DEF Apart
<1>3. ASSUME NEW u \in Unit \ (L \cup C) PROVE \E s \in Task : h[s] \in Piece /\ u \in D(s)
  <2>1. PICK s \in Task : g[s] \in Piece /\ u \in Covers(g[s].addr, g[s].size)
    BY <1>3 DEF Apart
  <2>2. s # t
    BY <1>3, <2>1
  <2>. QED
    BY <2>1, <2>2
<1>. QED
  BY <1>1, <1>2, <1>3 DEF Apart

(* Only the headers of the chunks matter. *)
LEMMA GapsSame ==
    ASSUME NEW F, NEW s, NEW r, Gaps(F, s), \A c \in F : r[c] = s[c]
    PROVE  Gaps(F, r) /\ Loose(F, r) = Loose(F, s)
<1>1. Gaps(F, r)
  BY DEF Gaps
<1>2. Loose(F, r) = Loose(F, s)
  BY DEF Loose
<1>. QED
  BY <1>1, <1>2

(* The sizes in the headers, before and after. *)
LEMMA BytesAre == ASSUME NEW c \in Unit PROVE Bytes[c] = mem[c].bytes /\ Bytes'[c] = mem'[c].bytes
BY DEF Bytes

(* What holds of the list while the task t is in the allocator, or nobody. *)
LEMMA WholeParts ==
    ASSUME NEW F, Whole(F)
    PROVE  /\ F \subseteq Unit /\ Gaps(F, Bytes) /\ Apart(Loose(F, Bytes), Given)
           /\ \A c \in F : c \in Unit /\ mem[c].bytes \in Nat \ {0} /\ c + mem[c].bytes <= Heap
                           /\ Bytes[c] = mem[c].bytes
           /\ \A c, d \in F : c < d => c + mem[c].bytes < d
           /\ \A c \in F : c \in Loose(F, Bytes)
<1>1. Gaps(F, Bytes) /\ Apart(Loose(F, Bytes), Given) /\ F \subseteq Unit
  BY DEF Whole, Gaps
<1>2. \A c \in F : c \in Unit /\ Bytes[c] = mem[c].bytes /\ Bytes[c] \in Nat \ {0} /\ c + Bytes[c] <= Heap
  BY <1>1, BytesAre DEF Gaps
<1>3. \A c, d \in F : c < d => c + mem[c].bytes < d
  BY <1>1, <1>2 DEF Gaps
<1>4. \A c \in F : c \in Loose(F, Bytes)
  <2>. SUFFICES ASSUME NEW c \in F PROVE c \in Loose(F, Bytes)
    OBVIOUS
  <2>1. c <= c /\ c < c + Bytes[c] /\ c \in Unit
    BY <1>2, UnitFacts
  <2>. QED
    BY <2>1 DEF Loose
<1>. QED
  BY <1>1, <1>2, <1>3, <1>4

(* A step of the only task that may be in the allocator. *)
LEMMA WholeNext ==
    ASSUME NEW F, NEW t \in Task,
           \A s \in Task : s # t => at'[s] \notin HeapStage,
           Gaps(F, Bytes'), Apart(Loose(F, Bytes'), Given'), Halfway(t, F)',
           at'[t] \notin {"rest", "close"} => LinksBut(F, Nil)',
           at'[t] # "account" => free' = Cardinality(Loose(F, Bytes'))
    PROVE  Whole(F)'
<1>1. \A s \in Task : Halfway(s, F)'
  <2>1. \A s \in Task : s # t => Halfway(s, F)'
    BY DEF Halfway, HeapStage
  <2>. QED
    BY <2>1
<1>. QED
  BY <1>1 DEF Whole, HeapStage

(* The other tasks stay where they are, and outside of exec. *)
LEMMA OthersAt ==
    ASSUME IInv, NEW t \in Task, NEW from, NEW to, Steps(t, from, to)
    PROVE  /\ this = t /\ at[t] = from /\ at'[t] = to
           /\ \A s \in Task : s # t => at'[s] = at[s] /\ at[s] \notin Inside /\ at'[s] \notin HeapStage
                                       /\ at[s] \notin HeapStage
<1>1. at \in [Task -> Stage] /\ ForbidExact
  BY DEF IInv, TypeOK, ProgramType
<1>2. this = t /\ at[t] = from /\ at' = [at EXCEPT ![t] = to]
  BY DEF Steps, Running
<1>3. \A s \in Task : s # t => at[s] \notin Inside
  BY <1>1, <1>2, OthersOutside
<1>4. HeapStage \subseteq Inside
  BY DEF HeapStage, Inside
<1>. QED
  BY <1>1, <1>2, <1>3, <1>4

-----------------------------------------------------------------------------
(* The steps of the allocator *)

(* One task's pointer or place changes. *)
LEMMA PointersNext ==
    ASSUME Pointers, NEW t \in Task,
           \A s \in Task : s # t => p'[s] = p[s] /\ pos'[s] = pos[s] /\ at'[s] = at[s],
           p'[t] \in CASE pos'[t] = "alloc" -> IF at'[t] = "out" THEN Piece \cup {Null} ELSE {None}
                       [] pos'[t] = "use"   -> Piece
                       [] pos'[t] = "free"  -> IF at'[t] = "out" THEN {None} ELSE Piece
                       [] pos'[t] = "pause" -> {Null}
                       [] OTHER             -> {None}
    PROVE  Pointers'
BY DEF Pointers

(* A pointer by the place of its task. *)
LEMMA PointerAt ==
    ASSUME Pointers, NEW t \in Task
    PROVE  /\ pos[t] = "alloc" /\ at[t] # "out" => p[t] = None
           /\ pos[t] = "alloc" /\ at[t] = "out" => p[t] \in Piece \cup {Null}
           /\ pos[t] = "use" => p[t] \in Piece
           /\ pos[t] = "free" /\ at[t] # "out" => p[t] \in Piece
           /\ pos[t] = "free" /\ at[t] = "out" => p[t] = None
           /\ pos[t] = "pause" => p[t] = Null
           /\ pos[t] \notin {"alloc", "use", "free", "pause"} => p[t] = None
BY DEF Pointers

(* What can be behind a chunk. *)
LEMMA FollowerType ==
    ASSUME NEW F, F \subseteq Unit, NEW c \in F \cup {MhFirst}, NEW d, Follower(F, c, d)
    PROVE  c \in Int /\ d \in Nat /\ d <= Heap /\ c < d /\ (d # Nil <=> d \in F)
BY UnitFacts DEF Follower, Nil

(* A header is its three fields. *)
LEMMA CellFacts ==
    ASSUME mem \in Region, NEW c \in Unit \cup {MhFirst}
    PROVE  /\ mem[c] \in Cell /\ mem[c].next \in Int /\ mem[c].bytes \in Int
           /\ mem[c] = [next |-> mem[c].next, bytes |-> mem[c].bytes, mark |-> mem[c].mark]
BY DEF Region, Cell

(* A header's link is written. *)
LEMMA LinkWritten ==
    ASSUME mem \in Region, NEW c \in Unit \cup {MhFirst}, NEW d \in Int,
           mem' = [mem EXCEPT ![c].next = d]
    PROVE  /\ mem' \in Region /\ Bytes' = Bytes
           /\ mem'[c].next = d /\ \A x \in Unit \cup {MhFirst} : x # c => mem'[x] = mem[x]
           /\ \A x \in Unit \cup {MhFirst} : mem'[x].mark = mem[x].mark /\ mem'[x].bytes = mem[x].bytes
<1>1. mem' = [mem EXCEPT ![c] = [mem[c] EXCEPT !.next = d]]
  OBVIOUS
<1>2. [mem[c] EXCEPT !.next = d] = [next |-> d, bytes |-> mem[c].bytes, mark |-> mem[c].mark]
  <2>1. \A r \in Cell : [r EXCEPT !.next = d] = [next |-> d, bytes |-> r.bytes, mark |-> r.mark]
    BY DEF Cell
  <2>. QED
    BY <2>1, CellFacts
<1>3. [next |-> d, bytes |-> mem[c].bytes, mark |-> mem[c].mark] \in Cell
  BY CellFacts DEF Cell
<1>4. DOMAIN mem = Unit \cup {MhFirst}
  BY DEF Region
<1>5. /\ mem'[c] = [next |-> d, bytes |-> mem[c].bytes, mark |-> mem[c].mark]
      /\ \A x \in Unit \cup {MhFirst} : x # c => mem'[x] = mem[x]
  BY <1>1, <1>2, <1>4
<1>6. mem' \in Region
  BY <1>1, <1>2, <1>3 DEF Region
<1>7. \A x \in Unit \cup {MhFirst} : mem'[x].mark = mem[x].mark /\ mem'[x].bytes = mem[x].bytes
  BY <1>5
<1>8. Bytes' = Bytes
  BY <1>7 DEF Bytes
<1>. QED
  BY <1>5, <1>6, <1>7, <1>8

(* A mark stays where the contents stay. *)
LEMMA MarkedNext ==
    ASSUME Marked, Pointers,
           \A s \in Task : pos'[s] = "free" /\ p'[s] \in Piece =>
              /\ pos[s] = "free" /\ p'[s] = p[s]
              /\ \A u \in Covers(p[s].addr, p[s].size) : mem'[u].mark = mem[u].mark
    PROVE  Marked'
<1>. SUFFICES ASSUME NEW s \in Task, pos'[s] = "free", p'[s] \in Piece, NEW u \in Extent(s)'
              PROVE  mem'[u].mark = s
  BY DEF Marked
<1>1. pos[s] = "free" /\ p'[s] = p[s]
  OBVIOUS
<1>2. u \in Covers(p[s].addr, p[s].size) /\ u \in Extent(s)
  BY <1>1 DEF Extent
<1>4. mem[u].mark = s
  BY <1>1, <1>2 DEF Marked
<1>. QED
  BY <1>1, <1>2, <1>4

(* Nothing of the heap changes, and nobody is on the way in or out. *)
LEMMA HeapKept ==
    ASSUME HeapInv, UNCHANGED heap, Pointers',
           \A s \in Task : at'[s] = at[s] \/ (at[s] \notin HeapStage /\ at'[s] \notin HeapStage),
           \A s \in Task : pos'[s] = "free" => pos[s] = "free"
    PROVE  HeapInv'
<1>1. PICK F \in SUBSET Unit : Whole(F)
  BY DEF HeapInv
<1>2. mem' = mem /\ free' = free /\ p' = p /\ loc' = loc
  BY DEF heap
<1>3. \A s \in Task, a \in HeapStage : at'[s] = a <=> at[s] = a
  OBVIOUS
<1>4. Given' = Given /\ Bytes' = Bytes
  BY <1>2, <1>3 DEF Given, Cut, Bytes, HeapStage
<1>5. \A s \in Task : Halfway(s, F)'
  <2>. SUFFICES ASSUME NEW s \in Task PROVE Halfway(s, F)'
    OBVIOUS
  <2>1. Halfway(s, F)
    BY <1>1 DEF Whole
  <2>2. Cuts(s, F)' = Cuts(s, F) /\ Cut(s)' = Cut(s) /\ \A q : Joins(s, q, F)' = Joins(s, q, F)
    BY <1>2 DEF Cuts, Cut, Joins, LinksBut
  <2>3. \A x : LinksBut(F, x)' = LinksBut(F, x)
    BY <1>2 DEF LinksBut
  <2>. QED
    BY <1>2, <1>3, <1>4, <2>1, <2>2, <2>3 DEF Halfway, HeapStage
<1>6. (\A s \in Task : at'[s] \notin {"rest", "close"}) => LinksBut(F, Nil)'
  BY <1>1, <1>2, <1>3 DEF Whole, LinksBut, HeapStage
<1>7. (\A s \in Task : at'[s] # "account") => free' = Cardinality(Loose(F, Bytes'))
  BY <1>1, <1>2, <1>3, <1>4 DEF Whole, HeapStage
<1>8. Whole(F)'
  BY <1>1, <1>4, <1>5, <1>6, <1>7 DEF Whole
<1>9. Shape'
  BY <1>2 DEF Shape, HeapInv, Region
<1>10. Marked'
  BY <1>2 DEF Marked, HeapInv, Extent
<1>. QED
  BY <1>8, <1>9, <1>10 DEF HeapInv

(* Where the pointer of a worker tells something. *)
HeapPlace == {"alloc", "use", "free", "pause"}

(* A task goes on that was not in the allocator. *)
LEMMA HeapBeside ==
    ASSUME HeapInv, NEW t \in Task, UNCHANGED heap,
           \A s \in Task : s # t => at'[s] = at[s] /\ pos'[s] = pos[s],
           at[t] \notin HeapStage, at'[t] \notin HeapStage,
           \/ pos'[t] = pos[t] /\ (pos[t] \in HeapPlace => (at'[t] = "out" <=> at[t] = "out"))
           \/ pos'[t] \notin HeapPlace /\ pos[t] \notin HeapPlace
    PROVE  HeapInv'
<1>1. \A s \in Task : p'[s] = p[s]
  BY DEF heap
<1>2. Pointers
  BY DEF HeapInv
<1>3. Pointers'
  BY <1>1, <1>2, PointersNext, PointerAt DEF HeapPlace
<1>. QED
  BY <1>3, HeapKept DEF HeapPlace

(* A step inside another call of exec. *)
LEMMA HeapSteps ==
    ASSUME IInv, HeapInv, NEW t \in Task, NEW from, NEW to, Steps(t, from, to),
           UNCHANGED <<pos, heap>>, from \notin HeapStage, to \notin HeapStage,
           pos[t] \in HeapPlace => (to = "out" <=> from = "out")
    PROVE  HeapInv'
BY OthersAt, HeapBeside

(* A step of a program that is not a worker's. *)
LEMMA HeapGoes ==
    ASSUME IInv, HeapInv, NEW t \in Task, NEW from, NEW to, Goes(t, from, to),
           UNCHANGED heap, from \notin HeapPlace, to \notin HeapPlace
    PROVE  HeapInv'
<1>1. at' = at /\ pos[t] = from /\ pos' = [pos EXCEPT ![t] = to] /\ pos \in [Task -> UNION {Program(r) : r \in Role}]
  BY DEF IInv, TypeOK, ProgramType, Goes
<1>2. pos'[t] = to /\ \A s \in Task : s # t => pos'[s] = pos[s]
  BY <1>1
<1>3. Belongs(at[t], pos[t])
  BY DEF IInv, Placed
<1>4. at[t] \notin HeapStage
  BY <1>1, <1>3 DEF Belongs, HeapStage, HeapPlace
<1>. QED
  BY <1>1, <1>2, <1>4, HeapBeside

(* A call of exec returns; a worker goes on with what AllocMem answered. *)
LEMMA PermitHeap == ASSUME IInv, HeapInv, NEW t \in Task, Permit(t) PROVE HeapInv'
<1>0. UNCHANGED heap /\ pos \in [Task -> UNION {Program(r) : r \in Role}]
  BY DEF Permit, IInv, TypeOK, ProgramType
<1>1. CASE Steps(t, "park", "spin") /\ UNCHANGED pos
  BY <1>0, <1>1, HeapSteps DEF HeapStage
<1>2. CASE Steps(t, "out", "call") /\ pos' = [pos EXCEPT ![t] = After(t)]
  <2>1. Belongs("out", pos[t]) /\ at[t] = "out" /\ at'[t] = "call"
        /\ \A s \in Task : s # t => at'[s] = at[s]
    BY <1>2, OthersAt DEF IInv, Placed
  <2>2. pos'[t] = After(t) /\ \A s \in Task : s # t => pos'[s] = pos[s]
    BY <1>0, <1>2
  <2>3. CASE pos[t] \in {"alloc", "free"}
    <3>1. Pointers /\ \A s \in Task : p'[s] = p[s]
      BY <1>0 DEF HeapInv, heap
    <3>2. pos[t] = "alloc" => pos'[t] = IF p[t] = Null THEN "pause" ELSE "use"
      BY <2>2 DEF After
    <3>3. pos[t] = "free" => pos'[t] = "alloc"
      BY <2>2 DEF After
    <3>4. p[t] \in CASE pos'[t] = "alloc" -> {None} [] pos'[t] = "use" -> Piece
                     [] pos'[t] = "pause" -> {Null} [] OTHER -> {}
      BY <2>1, <2>3, <3>1, <3>2, <3>3, PointerAt
    <3>5. pos'[t] \in {"alloc", "use", "pause"}
      BY <2>3, <3>2, <3>3
    <3>6. Pointers'
      BY <2>1, <2>2, <3>1, <3>4, <3>5, PointersNext
    <3>7. \A s \in Task : pos'[s] = "free" => pos[s] = "free"
      BY <2>2, <3>5
    <3>8. \A s \in Task : at'[s] = at[s] \/ (at[s] \notin HeapStage /\ at'[s] \notin HeapStage)
      BY <2>1 DEF HeapStage
    <3>. QED
      BY <1>0, <3>6, <3>7, <3>8, HeapKept
  <2>4. CASE pos[t] \notin {"alloc", "free"}
    <3>1. pos[t] \in Exec \ {"alloc", "free"}
      BY <2>1, <2>4 DEF Belongs
    <3>2. pos[t] \in {"sendData", "sendAck", "ring", "waitData", "waitAck", "wait", "put", "reply", "fetch"}
      BY <3>1 DEF Exec, Posts, Waits
    <3>3. pos[t] \notin HeapPlace /\ After(t) \notin HeapPlace
      BY <3>2 DEF After, HeapPlace
    <3>. QED
      BY <1>0, <2>1, <2>2, <3>3, HeapBeside DEF HeapStage
  <2>. QED
    BY <2>3, <2>4
<1>. QED
  BY <1>1, <1>2 DEF Permit

(* Forbid and Permit. *)
LEMMA CallsHeap == ASSUME IInv, HeapInv, NEW t \in Task, Calls(t) PROVE HeapInv'
<1>1. CASE ForbidLoad(t)
  <2>1. Steps(t, "call", "store") \/ Steps(t, "spin", "restore")
    BY <1>1 DEF ForbidLoad
  <2>2. UNCHANGED <<pos, heap>>
    BY <1>1 DEF ForbidLoad
  <2>. QED
    BY <2>1, <2>2, HeapSteps DEF HeapStage
<1>2. CASE ForbidStore(t)
  <2>1. Steps(t, "store", "in") \/ Steps(t, "restore", "take")
    BY <1>2 DEF ForbidStore
  <2>2. UNCHANGED <<pos, heap>>
    BY <1>2 DEF ForbidStore
  <2>. QED
    BY <2>1, <2>2, HeapSteps DEF HeapStage
<1>. QED
  BY <1>1, <1>2, PermitHeap DEF Calls

(* Wait and Signal have no part in the heap. *)
LEMMA SignallingHeap == ASSUME IInv, HeapInv, NEW t \in Task, Signalling(t) PROVE HeapInv'
<1>0. Belongs(at[t], pos[t])
  BY DEF IInv, Placed
<1>1. CASE Test(t)
  <2>1. PICK to \in {"block", "take"} : Steps(t, "in", to)
    BY <1>1 DEF Test
  <2>2. UNCHANGED <<pos, heap>>
    BY <1>1 DEF Test
  <2>. QED
    BY <2>1, <2>2, HeapSteps DEF HeapStage
<1>2. CASE Block(t)
  <2>1. Steps(t, "block", "park") /\ UNCHANGED <<pos, heap>>
    BY <1>2 DEF Block
  <2>. QED
    BY <2>1, HeapSteps DEF HeapStage
<1>3. CASE Take(t)
  <2>1. Steps(t, "take", "out") /\ UNCHANGED <<pos, heap>>
    BY <1>3 DEF Take
  <2>2. pos[t] \notin HeapPlace
    BY <1>0, <2>1 DEF Steps, Belongs, Waits, HeapPlace
  <2>. QED
    BY <2>1, <2>2, HeapSteps DEF HeapStage
<1>4. CASE Post(t)
  <2>1. Steps(t, "in", "wake") /\ UNCHANGED <<pos, heap>>
    BY <1>4 DEF Post
  <2>. QED
    BY <2>1, HeapSteps DEF HeapStage
<1>5. CASE Wake(t)
  <2>1. Steps(t, "wake", "out") /\ UNCHANGED <<pos, heap>>
    BY <1>5 DEF Wake
  <2>2. pos[t] \notin HeapPlace
    BY <1>0, <2>1 DEF Steps, Belongs, Posts, HeapPlace
  <2>. QED
    BY <2>1, <2>2, HeapSteps DEF HeapStage
<1>. QED
  BY <1>1, <1>2, <1>3, <1>4, <1>5 DEF Signalling

(* Nor have the ports and the device. *)
LEMMA MessagesHeap == ASSUME IInv, HeapInv, NEW t \in Task, Messages(t) \/ Requests(t) PROVE HeapInv'
<1>1. CASE AddTail(t)
  <2>1. Steps(t, "in", "out") /\ UNCHANGED <<pos, heap>> /\ pos[t] \notin HeapPlace
    BY <1>1 DEF AddTail, HeapPlace
  <2>. QED
    BY <2>1, HeapSteps DEF HeapStage
<1>2. CASE RemHead(t)
  <2>1. Steps(t, "in", "out") /\ UNCHANGED <<pos, heap>> /\ pos[t] \notin HeapPlace
    BY <1>2 DEF RemHead, HeapPlace
  <2>. QED
    BY <2>1, HeapSteps DEF HeapStage
<1>3. CASE Look(t)
  <2>1. PICK to \in {"wait", "fetch"} : Goes(t, "look", to)
    BY <1>3 DEF Look
  <2>2. UNCHANGED heap
    BY <1>3 DEF Look
  <2>. QED
    BY <2>1, <2>2, HeapGoes DEF HeapPlace
<1>4. CASE Fill(t)
  BY <1>4, HeapGoes DEF Fill, HeapPlace
<1>5. CASE Serve(t)
  <2>1. Goes(t, "serve", "reply") /\ UNCHANGED heap
    BY <1>5 DEF Serve
  <2>. QED
    BY <2>1, HeapGoes DEF HeapPlace
<1>6. CASE Check(t)
  BY <1>6, HeapGoes DEF Check, HeapPlace
<1>. QED
  BY <1>1, <1>2, <1>3, <1>4, <1>5, <1>6 DEF Messages, Requests

(* One step of the task t in the allocator. *)
LEMMA AloneInside ==
    ASSUME IInv, NEW t \in Task, NEW from, NEW to, Steps(t, from, to), InHeap(t)
    PROVE  /\ at[t] = from /\ at'[t] = to /\ pos' = pos /\ Belongs(from, pos[t])
           /\ \A s \in Task : s # t => at'[s] = at[s] /\ at'[s] \notin HeapStage /\ at[s] \notin HeapStage
           /\ \A s \in Task : s # t => Given[s] = p[s] /\ Given'[s] = p'[s]
           /\ Given[t] = IF from = "account" THEN Cut(t) ELSE p[t]
           /\ Given'[t] = IF to = "account" THEN Cut(t)' ELSE p'[t]
<1>1. /\ at[t] = from /\ at'[t] = to /\ pos' = pos
      /\ \A s \in Task : s # t => at'[s] = at[s] /\ at'[s] \notin HeapStage /\ at[s] \notin HeapStage
  BY OthersAt DEF InHeap
<1>2. Belongs(from, pos[t])
  BY <1>1 DEF IInv, Placed
<1>3. /\ \A s \in Task : s # t => Given[s] = p[s] /\ Given'[s] = p'[s]
      /\ Given[t] = IF from = "account" THEN Cut(t) ELSE p[t]
      /\ Given'[t] = IF to = "account" THEN Cut(t)' ELSE p'[t]
  BY <1>1 DEF Given, HeapStage
<1>. QED
  BY <1>1, <1>2, <1>3

(* Before such a step the list is whole but for what t is doing. *)
LEMMA WholeAlone ==
    ASSUME NEW F, Whole(F), NEW t \in Task, \A s \in Task : s # t => at[s] \notin HeapStage
    PROVE  /\ Halfway(t, F)
           /\ at[t] \notin {"rest", "close"} => LinksBut(F, Nil)
           /\ at[t] # "account" => free = Cardinality(Loose(F, Bytes))
BY DEF Whole, HeapStage

(* And after it, with the chunks F. *)
LEMMA HeapNext ==
    ASSUME IInv, HeapInv, NEW t \in Task, NEW from, NEW to, Steps(t, from, to), InHeap(t),
           \A s \in Task : s # t => p'[s] = p[s],
           p'[t] \in CASE pos[t] = "alloc" -> IF to = "out" THEN Piece \cup {Null} ELSE {None}
                       [] pos[t] = "use"   -> Piece
                       [] pos[t] = "free"  -> IF to = "out" THEN {None} ELSE Piece
                       [] pos[t] = "pause" -> {Null}
                       [] OTHER            -> {None},
           Shape', Marked', NEW F,
           Gaps(F, Bytes'), Apart(Loose(F, Bytes'), Given'), Halfway(t, F)',
           to \notin {"rest", "close"} => LinksBut(F, Nil)',
           to # "account" => free' = Cardinality(Loose(F, Bytes'))
    PROVE  HeapInv'
<1>1. /\ at'[t] = to /\ pos' = pos
      /\ \A s \in Task : s # t => at'[s] = at[s] /\ at'[s] \notin HeapStage
  BY AloneInside
<1>2. Whole(F)'
  BY <1>1, WholeNext
<1>3. F \in SUBSET Unit
  BY DEF Gaps
<1>4. Pointers'
  BY <1>1, PointersNext DEF HeapInv
<1>. QED
  BY <1>2, <1>3, <1>4 DEF HeapInv

(* A block in use is in the region, and not free. *)
LEMMA InUse ==
    ASSUME IInv, NEW F, Whole(F), NEW s \in Task, pos[s] # "alloc" \/ at[s] # "account", p[s] \in Piece
    PROVE  Given[s] = p[s] /\ Covers(p[s].addr, p[s].size) \subseteq Unit \ Loose(F, Bytes)
<1>1. Belongs(at[s], pos[s])
  BY DEF IInv, Placed
<1>2. Given[s] = p[s]
  BY <1>1 DEF Given, Belongs
<1>. QED
  BY <1>2 DEF Whole, Apart

(* The blocks of two tasks are apart. *)
LEMMA TwoApart ==
    ASSUME NEW F, Whole(F), NEW s \in Task, NEW t \in Task, s # t, Given[s] \in Piece, Given[t] \in Piece
    PROVE  Covers(Given[s].addr, Given[s].size) \cap Covers(Given[t].addr, Given[t].size) = {}
BY DEF Whole, Apart

(* Links are written and no more. *)
LEMMA MarksSame ==
    ASSUME IInv, HeapInv, pos' = pos, \A s \in Task : pos[s] = "free" => p'[s] = p[s],
           \A x \in Unit : mem'[x].mark = mem[x].mark
    PROVE  Marked'
<1>1. PICK F \in SUBSET Unit : Whole(F)
  BY DEF HeapInv
<1>2. \A s \in Task : pos[s] = "free" /\ p[s] \in Piece => Covers(p[s].addr, p[s].size) \subseteq Unit
  BY <1>1, InUse
<1>. QED
  BY <1>2, MarkedNext DEF HeapInv

(* First fit finds a chunk and the one in front of it, or answers NULL. *)
LEMMA SearchHeap == ASSUME IInv, HeapInv, NEW t \in Task, Search(t) PROVE HeapInv'
<1>1. PICK F \in SUBSET Unit : Whole(F)
  BY DEF HeapInv
<1>2. InHeap(t) /\ UNCHANGED <<mem, free>> /\ pos[t] = "alloc"
  BY DEF Search
<1>3. PICK size \in Sizes :
         LET fits == {n \in 0 .. Heap : /\ Chain[n + 1] # Nil
                                        /\ mem[Chain[n + 1]].bytes >= size}
             c == Chain[Place(fits) + 1]
         IN IF free < size \/ fits = {}
            THEN /\ Steps(t, "in", "out") /\ UNCHANGED loc
                 /\ p' = [p EXCEPT ![t] = Null]
            ELSE /\ Steps(t, "in", "carve") /\ UNCHANGED p
                 /\ loc' = [loc EXCEPT ![t] = [node |-> c, link |-> Chain[Place(fits)],
                                               end |-> c + size]]
  BY DEF Search
<1>. DEFINE fits == {n \in 0 .. Heap : /\ Chain[n + 1] # Nil
                                       /\ mem[Chain[n + 1]].bytes >= size}
            c == Chain[Place(fits) + 1]
            link == Chain[Place(fits)]
<1>4. Shape /\ Pointers /\ Marked
  BY DEF HeapInv
<1>5. PICK to \in {"out", "carve"} : Steps(t, "in", to)
  BY <1>3
<1>. HIDE DEF fits, c, link
<1>16. /\ Steps(t, "in", "out") => at'[t] = "out"
       /\ Steps(t, "in", "carve") => at'[t] = "carve"
  BY OthersAt
<1>17. IF free < size \/ fits = {}
       THEN /\ Steps(t, "in", "out") /\ UNCHANGED loc
            /\ p' = [p EXCEPT ![t] = Null]
       ELSE /\ Steps(t, "in", "carve") /\ UNCHANGED p
            /\ loc' = [loc EXCEPT ![t] = [node |-> c, link |-> link, end |-> c + size]]
  BY <1>3 DEF fits, c, link
<1>6. /\ at[t] = "in" /\ at'[t] = to /\ pos' = pos
      /\ \A s \in Task : s # t => at[s] \notin HeapStage
      /\ \A s \in Task : s # t => Given[s] = p[s] /\ Given'[s] = p'[s]
      /\ Given[t] = p[t] /\ Given'[t] = p'[t]
  BY <1>2, <1>5, AloneInside
<1>7. LinksBut(F, Nil) /\ free = Cardinality(Loose(F, Bytes))
  BY <1>1, <1>6, WholeAlone
<1>8. Bytes' = Bytes /\ LinksBut(F, Nil)'
  BY <1>2, <1>7 DEF Bytes, LinksBut
<1>9. p[t] = None /\ p[t] \notin Piece
  BY <1>2, <1>4, <1>6, PointerAt, PieceFacts
<1>10. \A s \in Task : s # t => p'[s] = p[s]
  <2>1. p' = p \/ p' = [p EXCEPT ![t] = Null]
    BY <1>3
  <2>. QED
    BY <2>1, <1>4 DEF Shape
<1>11. p'[t] = (IF to = "out" THEN Null ELSE None)
  BY <1>4, <1>6, <1>9, <1>16, <1>17 DEF Shape
<1>12. Marked'
  BY <1>2, <1>6, <1>10, MarksSame
<1>13. Apart(Loose(F, Bytes'), Given')
  <2>1. Apart(Loose(F, Bytes), Given)
    BY <1>1 DEF Whole
  <2>2. p'[t] \notin Piece
    BY <1>11, PieceFacts
  <2>3. \A s \in Task : (Given'[s] \in Piece <=> Given[s] \in Piece) /\ (Given[s] \in Piece => Given'[s] = Given[s])
    BY <1>6, <1>9, <1>10, <2>2
  <2>. QED
    BY <1>8, <2>1, <2>3, ApartSame
<1>14. CASE to = "out"
  <2>1. Halfway(t, F)'
    BY <1>6, <1>14 DEF Halfway
  <2>2. Shape'
    <3>1. loc' = loc
      BY <1>6, <1>14, <1>16, <1>17
    <3>2. DOMAIN p' = Task
      BY <1>4, <1>17 DEF Shape
    <3>. QED
      BY <1>2, <1>4, <3>1, <3>2 DEF Shape, Region
  <2>. QED
    <3>1. Gaps(F, Bytes')
      BY <1>1, <1>8 DEF Whole
    <3>2. free' = Cardinality(Loose(F, Bytes'))
      BY <1>2, <1>7, <1>8
    <3>3. p'[t] \in Piece \cup {Null}
      BY <1>11, <1>14
    <3>. QED
      BY <1>2, <1>5, <1>8, <1>10, <1>12, <1>13, <1>14, <2>1, <2>2, <3>1, <3>2, <3>3, HeapNext
<1>15. CASE to = "carve"
  <2>1. /\ ~(fits = {}) /\ p' = p
        /\ loc' = [loc EXCEPT ![t] = [node |-> c, link |-> link, end |-> c + size]]
    BY <1>6, <1>15, <1>16, <1>17
  <2>2. c \in F /\ mem[c].bytes >= size /\ link \in F \cup {MhFirst} /\ Follower(F, link, c)
    <3>1. fits = {n \in 0 .. Heap : Chain[n + 1] # Nil /\ mem[Chain[n + 1]].bytes >= size}
      BY DEF fits
    <3>. QED
      BY <1>1, <1>7, <2>1, <3>1, FitsAt DEF c, link
  <2>3. c \in Nat /\ link \in Int /\ size \in Nat /\ mem[c].bytes \in Nat
    BY <1>1, <2>2, UnitFacts, WholeParts
  <2>4. loc'[t] = [node |-> c, link |-> link, end |-> c + size]
    BY <1>4, <2>1 DEF Shape
  <2>5. Cuts(t, F)'
    BY <1>2, <2>2, <2>3, <2>4 DEF Cuts
  <2>6. Halfway(t, F)'
    BY <1>6, <1>15, <2>5 DEF Halfway
  <2>7. Shape'
    <3>1. [node |-> c, link |-> link, end |-> c + size] \in Local
      BY <2>3 DEF Local
    <3>2. loc' \in [Task -> Local]
      BY <1>4, <2>1, <3>1 DEF Shape
    <3>. QED
      BY <1>2, <1>4, <2>1, <3>2 DEF Shape, Region
  <2>8. Gaps(F, Bytes')
    BY <1>1, <1>8 DEF Whole
  <2>9. free' = Cardinality(Loose(F, Bytes'))
    BY <1>2, <1>7, <1>8
  <2>10. p'[t] \in {None}
    BY <1>11, <1>15
  <2>. QED
    BY <1>2, <1>5, <1>8, <1>10, <1>12, <1>13, <1>15, <2>6, <2>7, <2>8, <2>9, <2>10, HeapNext
<1>. QED
  BY <1>5, <1>14, <1>15

(* The chunk in hand, and the part of it that is cut off. *)
LEMMA CutFacts ==
    ASSUME HeapInv, NEW F, Whole(F), NEW t \in Task, Cuts(t, F)
    PROVE  LET c == loc[t].node  e == loc[t].end IN
           /\ c \in F /\ c \in Unit /\ c \in Nat /\ e \in Int /\ loc[t].link \in Int
           /\ loc[t].link \in F \cup {MhFirst} /\ Follower(F, loc[t].link, c)
           /\ c < e /\ e <= c + mem[c].bytes /\ c + mem[c].bytes <= Heap /\ mem[c].bytes \in Nat
           /\ e - c \in Sizes /\ e - c \in Nat
           /\ Cut(t).addr = c /\ Cut(t).size = e - c /\ Cut(t) \in Piece
<1>. DEFINE c == loc[t].node  e == loc[t].end
<1>1. c \in Int /\ e \in Int /\ loc[t].link \in Int
  BY DEF HeapInv, Shape, Local
<1>2. /\ c \in F /\ loc[t].link \in F \cup {MhFirst} /\ Follower(F, loc[t].link, c)
      /\ e - c \in Sizes /\ e <= c + mem[c].bytes
  BY DEF Cuts
<1>. HIDE DEF c, e
<1>3. c \in Unit /\ mem[c].bytes \in Nat /\ c + mem[c].bytes <= Heap
  BY <1>2, WholeParts
<1>4. c \in Nat /\ e - c \in Nat \ {0}
  BY <1>2, <1>3, UnitFacts
<1>5. c < e /\ e - c \in 1 .. Heap
  BY <1>1, <1>2, <1>3, <1>4
<1>6. Cut(t).addr = c /\ Cut(t).size = e - c /\ Cut(t) \in Piece
  BY <1>3, <1>5 DEF Cut, Piece, c, e
<1>. QED
  BY <1>1, <1>2, <1>3, <1>4, <1>5, <1>6 DEF c, e

(* The cut is a block as soon as the list is without it. *)
LEMMA CutOff ==
    ASSUME IInv, HeapInv, NEW F, Whole(F), NEW t \in Task, NEW from \in {"carve", "rest"},
           Steps(t, from, "account"), InHeap(t), UNCHANGED <<free, p, loc>>, Cuts(t, F), Shape', Marked',
           NEW G, Gaps(G, Bytes'), LinksBut(G, Nil)',
           Covers(loc[t].node, loc[t].end - loc[t].node) \subseteq Loose(F, Bytes),
           Loose(G, Bytes') = Loose(F, Bytes) \ Covers(loc[t].node, loc[t].end - loc[t].node)
    PROVE  HeapInv'
<1>. DEFINE c == loc[t].node  e == loc[t].end  C == Covers(c, e - c)
<1>1. /\ at[t] = from /\ at'[t] = "account" /\ pos' = pos /\ pos[t] = "alloc"
      /\ \A s \in Task : s # t => at[s] \notin HeapStage
      /\ \A s \in Task : s # t => Given[s] = p[s] /\ Given'[s] = p'[s]
      /\ Given[t] = p[t] /\ Given'[t] = Cut(t)'
  BY AloneInside DEF Belongs
<1>2. free = Cardinality(Loose(F, Bytes))
  BY <1>1, WholeAlone
<1>3. Cut(t)' = Cut(t)
  BY DEF Cut
<1>4. c \in Nat /\ e - c \in Nat /\ Cut(t) \in Piece /\ Cut(t).addr = c /\ Cut(t).size = e - c /\ e - c \in Sizes
  BY CutFacts
<1>. HIDE DEF c, e
<1>5. p[t] = None /\ p[t] \notin Piece
  BY <1>1, PointerAt, PieceFacts DEF HeapInv
<1>6. Apart(Loose(G, Bytes'), Given')
  <2>1. Apart(Loose(F, Bytes), Given)
    BY DEF Whole
  <2>2. Given[t] \notin Piece /\ Given'[t] \in Piece
    BY <1>1, <1>3, <1>4, <1>5
  <2>3. \A s \in Task \ {t} : Given'[s] = Given[s]
    BY <1>1
  <2>4. Covers(Given'[t].addr, Given'[t].size) = C
    BY <1>1, <1>3, <1>4
  <2>5. Loose(F, Bytes) \subseteq Unit
    BY LooseFacts
  <2>6. C \subseteq Loose(F, Bytes) /\ Loose(G, Bytes') = Loose(F, Bytes) \ C
    BY DEF c, e
  <2>. HIDE DEF C
  <2>. QED
    BY <2>1, <2>2, <2>3, <2>4, <2>5, <2>6, ApartTake
<1>7. free - (e - c) = Cardinality(Loose(G, Bytes'))
  <2>1. C \subseteq Loose(F, Bytes) /\ Loose(G, Bytes') = Loose(F, Bytes) \ C
    BY DEF c, e
  <2>2. IsFiniteSet(C) /\ Cardinality(C) = e - c
    BY <1>4, CoversFacts
  <2>. HIDE DEF C
  <2>3. Cardinality(Loose(F, Bytes) \ C) = Cardinality(Loose(F, Bytes)) - Cardinality(C)
    BY <2>1, LooseFacts, CardWithout
  <2>. QED
    BY <1>2, <2>1, <2>2, <2>3
<1>8. Halfway(t, G)'
  <2>1. free' - Cut(t)'.size = Cardinality(Loose(G, Bytes'))
    BY <1>3, <1>4, <1>7
  <2>. QED
    BY <1>1, <1>3, <1>4, <2>1 DEF Halfway
<1>. QED
  BY <1>1, <1>5, <1>6, <1>8, HeapNext

(* The chunk leaves the list, or the link in front of it goes to its rest. *)
LEMMA CarveHeap == ASSUME IInv, HeapInv, NEW t \in Task, Carve(t) PROVE HeapInv'
<1>1. PICK F \in SUBSET Unit : Whole(F)
  BY DEF HeapInv
<1>. DEFINE c == loc[t].node  e == loc[t].end  link == loc[t].link
            to == IF Exact(t) THEN "account" ELSE "rest"
            d == IF Exact(t) THEN mem[c].next ELSE e
<1>2. InHeap(t) /\ UNCHANGED <<free, p, loc>> /\ Steps(t, "carve", to) /\ mem' = [mem EXCEPT ![link].next = d]
  BY DEF Carve
<1>. HIDE DEF to
<1>3. /\ at[t] = "carve" /\ at'[t] = to /\ pos' = pos /\ pos[t] = "alloc"
      /\ \A s \in Task : s # t => at[s] \notin HeapStage
      /\ \A s \in Task : s # t => Given[s] = p[s] /\ Given'[s] = p'[s]
      /\ Given[t] = p[t] /\ Given'[t] = IF to = "account" THEN Cut(t)' ELSE p'[t]
  BY <1>2, AloneInside DEF Belongs
<1>4. Halfway(t, F) /\ LinksBut(F, Nil) /\ free = Cardinality(Loose(F, Bytes))
  BY <1>1, <1>3, WholeAlone
<1>5. Cuts(t, F)
  BY <1>3, <1>4 DEF Halfway
<1>6. /\ c \in F /\ c \in Unit /\ c \in Nat /\ e \in Int /\ link \in Int
      /\ link \in F \cup {MhFirst} /\ Follower(F, link, c)
      /\ c < e /\ e <= c + mem[c].bytes /\ c + mem[c].bytes <= Heap /\ mem[c].bytes \in Nat
  BY <1>1, <1>5, CutFacts
<1>7. Exact(t) <=> c + mem[c].bytes = e
  BY DEF Exact
<1>8. Shape /\ Pointers /\ Marked /\ mem \in Region
  BY DEF HeapInv, Shape
<1>9. mem[c].next \in Int
  BY <1>6, <1>8, CellFacts
<1>10. d \in Int /\ link \in Unit \cup {MhFirst}
  BY <1>1, <1>6, <1>9
<1>. HIDE DEF c, e, link, d
<1>11. /\ mem' \in Region /\ Bytes' = Bytes
       /\ mem'[link].next = d /\ \A x \in Unit \cup {MhFirst} : x # link => mem'[x] = mem[x]
       /\ \A x \in Unit \cup {MhFirst} : mem'[x].mark = mem[x].mark /\ mem'[x].bytes = mem[x].bytes
  BY <1>2, <1>8, <1>10, LinkWritten
<1>12. Shape' /\ Marked'
  <2>1. Shape'
    BY <1>2, <1>8, <1>11 DEF Shape
  <2>2. Marked'
    BY <1>2, <1>3, <1>11, MarksSame
  <2>. QED
    BY <2>1, <2>2
<1>13. Gaps(F, Bytes) /\ F \subseteq Unit /\ Bytes[c] = mem[c].bytes
  BY <1>1, <1>6, WholeParts
<1>14. link # c /\ MhFirst \notin F /\ c # MhFirst
  BY <1>1, <1>6, <1>13, UnitFacts DEF Follower
<1>15. CASE Exact(t)
  <2>0. PICK G : G = F \ {c}
    OBVIOUS
  <2>1. to = "account" /\ d = mem[c].next /\ e = c + Bytes[c]
    BY <1>7, <1>13, <1>15 DEF to, d
  <2>2. Follower(F, c, d) /\ \A x \in F \cup {MhFirst} : Follower(F, x, mem[x].next)
    BY <1>4, <1>6, <1>13, UnitFacts, <2>1 DEF LinksBut
  <2>3. /\ Follower(G, link, d)
        /\ \A x \in F \cup {MhFirst} : \A y : x # link /\ Follower(F, x, y) => Follower(G, x, y)
    BY <1>6, <1>13, <2>0, <2>2, FollowersWithout
  <2>4. LinksBut(G, Nil)'
    <3>1. \A x \in G \cup {MhFirst} : x # Nil => Follower(G, x, mem'[x].next)
      <4>. SUFFICES ASSUME NEW x \in G \cup {MhFirst} PROVE Follower(G, x, mem'[x].next)
        OBVIOUS
      <4>1. CASE x = link
        BY <1>11, <2>3, <4>1
      <4>2. CASE x # link
        <5>1. mem'[x] = mem[x] /\ x \in F \cup {MhFirst}
          BY <1>11, <1>13, <4>2, <2>0
        <5>. QED
          BY <2>2, <2>3, <4>2, <5>1
      <4>. QED
        BY <4>1, <4>2
    <3>. QED
      BY <3>1 DEF LinksBut
  <2>5. /\ Gaps(G, Bytes') /\ Covers(c, e - c) \subseteq Loose(F, Bytes)
        /\ Loose(G, Bytes') = Loose(F, Bytes) \ Covers(c, e - c)
    <3>1. e <= c + Bytes[c] /\ c < e /\ e \in Int
      BY <1>6, <1>13
    <3>2. IF e = c + Bytes[c] THEN G = F \ {c} ELSE G = (F \ {c}) \cup {e} /\ Bytes[e] = c + Bytes[c] - e
      BY <2>0, <2>1
    <3>3. \A x \in F \ {c} : Bytes[x] = Bytes[x]
      OBVIOUS
    <3>4. /\ Gaps(G, Bytes) /\ Covers(c, e - c) \subseteq Loose(F, Bytes)
          /\ Loose(G, Bytes) = Loose(F, Bytes) \ Covers(c, e - c)
      BY <1>6, <1>13, <3>1, <3>2, <3>3, CutChunk
    <3>. QED
      BY <1>11, <3>4
  <2>. QED
    BY <1>1, <1>2, <1>5, <1>12, <2>1, <2>4, <2>5, CutOff DEF c, e
<1>16. CASE ~Exact(t)
  <2>1. to = "rest" /\ d = e /\ e < c + mem[c].bytes
    BY <1>6, <1>7, <1>16 DEF to, d
  <2>2. p[t] = None /\ p'[t] = None
    BY <1>2, <1>3, <1>8, PointerAt
  <2>3. Apart(Loose(F, Bytes'), Given')
    <3>1. Apart(Loose(F, Bytes), Given)
      BY <1>1 DEF Whole
    <3>2. \A s \in Task : Given'[s] = Given[s]
      BY <1>2, <1>3, <2>1
    <3>. QED
      BY <1>11, <3>1, <3>2, ApartSame
  <2>4. Cuts(t, F)'
    <3>1. mem'[c].bytes = mem[c].bytes
      BY <1>6, <1>11
    <3>. QED
      BY <1>2, <1>5, <3>1 DEF Cuts, c
  <2>5. LinksBut(F, link)'
    <3>1. \A x \in F \cup {MhFirst} : x # link => Follower(F, x, mem'[x].next)
      BY <1>4, <1>11, <1>13, UnitFacts DEF LinksBut
    <3>. QED
      BY <1>2, <3>1 DEF LinksBut, link
  <2>6. Halfway(t, F)'
    <3>1. loc'[t].end < loc'[t].node + mem'[loc'[t].node].bytes
      BY <1>2, <1>6, <1>11, <2>1 DEF c, e
    <3>2. LinksBut(F, loc[t].link)' /\ mem'[loc'[t].link].next = loc'[t].end
      BY <1>2, <1>11, <2>1, <2>5 DEF link, e
    <3>. QED
      BY <1>3, <2>1, <2>4, <3>1, <3>2 DEF Halfway
  <2>7. Gaps(F, Bytes') /\ free' = Cardinality(Loose(F, Bytes'))
    BY <1>2, <1>4, <1>11, <1>13
  <2>. QED
    BY <1>2, <1>3, <1>12, <2>1, <2>2, <2>3, <2>6, <2>7, HeapNext
<1>. QED
  BY <1>15, <1>16

(* The rest gets its header. *)
LEMMA RestHeap == ASSUME IInv, HeapInv, NEW t \in Task, Rest(t) PROVE HeapInv'
<1>1. PICK F \in SUBSET Unit : Whole(F)
  BY DEF HeapInv
<1>. DEFINE c == loc[t].node  e == loc[t].end  link == loc[t].link
<1>2. /\ InHeap(t) /\ UNCHANGED <<free, p, loc>> /\ Steps(t, "rest", "account")
      /\ mem' = [mem EXCEPT ![e] = [mem[c] EXCEPT !.bytes = @ - (e - c)]]
  BY DEF Rest
<1>3. /\ at[t] = "rest" /\ pos' = pos /\ pos[t] = "alloc"
      /\ \A s \in Task : s # t => at[s] \notin HeapStage
  BY <1>2, AloneInside DEF Belongs
<1>4. Halfway(t, F) /\ Cuts(t, F)
  BY <1>1, <1>3, WholeAlone DEF Halfway
<1>5. e < c + mem[c].bytes /\ LinksBut(F, link) /\ mem[link].next = e
  BY <1>3, <1>4 DEF Halfway
<1>6. /\ c \in F /\ c \in Unit /\ c \in Nat /\ e \in Int /\ link \in Int
      /\ link \in F \cup {MhFirst} /\ Follower(F, link, c)
      /\ c < e /\ e <= c + mem[c].bytes /\ c + mem[c].bytes <= Heap /\ mem[c].bytes \in Nat
  BY <1>1, <1>4, CutFacts
<1>7. Shape /\ Pointers /\ Marked /\ mem \in Region
  BY DEF HeapInv, Shape
<1>. HIDE DEF c, e, link
<1>8. /\ Gaps(F, Bytes) /\ F \subseteq Unit /\ Bytes[c] = mem[c].bytes
      /\ \A x \in F : c < x => c + mem[c].bytes < x
  BY <1>1, <1>6, WholeParts
<1>9. e \in Unit /\ e \notin F /\ e # MhFirst
  BY <1>5, <1>6, <1>8, UnitFacts DEF Unit
<1>10. /\ mem'[e] = [next |-> mem[c].next, bytes |-> mem[c].bytes - (e - c), mark |-> mem[c].mark]
       /\ \A x \in Unit \cup {MhFirst} : x # e => mem'[x] = mem[x]
       /\ mem' \in Region
  <2>1. \A r \in Cell : [r EXCEPT !.bytes = @ - (e - c)] = [next |-> r.next, bytes |-> r.bytes - (e - c), mark |-> r.mark]
    BY DEF Cell
  <2>2. mem[c] \in Cell /\ mem[c].next \in Int /\ mem[c].mark \in Task \cup {None}
    BY <1>6, <1>7 DEF Region, Cell
  <2>3. mem' = [mem EXCEPT ![e] = [next |-> mem[c].next, bytes |-> mem[c].bytes - (e - c), mark |-> mem[c].mark]]
    BY <1>2, <2>1, <2>2
  <2>4. [next |-> mem[c].next, bytes |-> mem[c].bytes - (e - c), mark |-> mem[c].mark] \in Cell
    BY <1>6, <2>2 DEF Cell
  <2>5. DOMAIN mem = Unit \cup {MhFirst}
    BY <1>7 DEF Region
  <2>. QED
    BY <1>7, <1>9, <2>3, <2>4, <2>5 DEF Region
<1>11. /\ Bytes'[e] = c + Bytes[c] - e
       /\ \A x \in F \ {c} : Bytes'[x] = Bytes[x]
  <2>1. mem'[e].bytes = mem[c].bytes - (e - c)
    BY <1>10
  <2>2. \A x \in F \ {c} : mem'[x].bytes = mem[x].bytes
    BY <1>8, <1>9, <1>10
  <2>. QED
    BY <1>6, <1>8, <1>9, <2>1, <2>2, BytesAre
<1>12. PICK G : G = (F \ {c}) \cup {e}
  OBVIOUS
<1>13. /\ Gaps(G, Bytes') /\ Covers(c, e - c) \subseteq Loose(F, Bytes)
       /\ Loose(G, Bytes') = Loose(F, Bytes) \ Covers(c, e - c)
  <2>1. e <= c + Bytes[c] /\ e # c + Bytes[c] /\ c < e
    BY <1>5, <1>6, <1>8
  <2>2. PICK s : s = Bytes
    OBVIOUS
  <2>3. PICK r : r = Bytes'
    OBVIOUS
  <2>4. IF e = c + s[c] THEN G = F \ {c} ELSE G = (F \ {c}) \cup {e} /\ r[e] = c + s[c] - e
    BY <1>11, <1>12, <2>1, <2>2, <2>3
  <2>5. Gaps(F, s) /\ e <= c + s[c] /\ \A x \in F \ {c} : r[x] = s[x]
    BY <1>8, <1>11, <2>1, <2>2, <2>3
  <2>6. /\ Gaps(G, r) /\ Covers(c, e - c) \subseteq Loose(F, s)
        /\ Loose(G, r) = Loose(F, s) \ Covers(c, e - c)
    <3>1. c \in F /\ e \in Int /\ c < e
      BY <1>6
    <3>. QED
      BY <2>4, <2>5, <3>1, CutChunk
  <2>. QED
    BY <2>2, <2>3, <2>6
<1>14. LinksBut(G, Nil)'
  <2>1. link # c /\ link < c /\ MhFirst \notin F /\ c # MhFirst
    BY <1>6, <1>8, UnitFacts DEF Follower
  <2>2. PICK d : d = mem[c].next
    OBVIOUS
  <2>3. Follower(F, c, d)
    BY <1>5, <1>6, <2>1, <2>2 DEF LinksBut
  <2>4. PICK G0 : G0 = F \ {c}
    OBVIOUS
  <2>5. /\ Follower(G0, link, d)
        /\ \A x \in F \cup {MhFirst} : \A y : x # link /\ Follower(F, x, y) => Follower(G0, x, y)
    BY <1>6, <1>8, <2>3, <2>4, FollowersWithout
  <2>6. d \in G0 \cup {Nil} /\ e < d /\ link < e /\ link \in G0 \cup {MhFirst} /\ G0 \subseteq Unit
    <3>1. d \in F \cup {Nil} /\ c < d
      BY <2>3 DEF Follower
    <3>2. d \in F => c + mem[c].bytes < d /\ d \in Nat
      BY <1>8, <3>1, UnitFacts
    <3>3. e < d
      BY <1>5, <1>6, <3>1, <3>2 DEF Nil
    <3>. QED
      BY <1>6, <1>8, <2>1, <2>4, <3>1, <3>3
  <2>7. /\ Follower(G0 \cup {e}, link, e) /\ Follower(G0 \cup {e}, e, d)
        /\ \A x \in G0 \cup {MhFirst} : \A y : x # link /\ Follower(G0, x, y) => Follower(G0 \cup {e}, x, y)
    BY <1>9, <2>5, <2>6, FollowersWith
  <2>8. G0 \cup {e} = G
    BY <1>12, <2>4
  <2>9. \A x \in G \cup {MhFirst} : Follower(G, x, mem'[x].next)
    <3>. SUFFICES ASSUME NEW x \in G \cup {MhFirst} PROVE Follower(G, x, mem'[x].next)
      OBVIOUS
    <3>1. CASE x = e
      BY <1>10, <2>2, <2>7, <2>8, <3>1
    <3>2. CASE x = link
      <4>1. mem'[x] = mem[x]
        BY <1>6, <1>8, <1>9, <1>10, <3>2
      <4>. QED
        BY <1>5, <2>7, <2>8, <3>2, <4>1
    <3>3. CASE x # e /\ x # link
      <4>1. x \in G0 \cup {MhFirst} /\ x \in F \cup {MhFirst} /\ x \in Unit \cup {MhFirst} /\ x # c
        BY <1>8, <1>12, <2>1, <2>4, <3>3
      <4>2. mem'[x] = mem[x]
        BY <1>10, <3>3, <4>1
      <4>3. Follower(F, x, mem[x].next)
        BY <1>5, <3>3, <4>1 DEF LinksBut
      <4>. QED
        BY <2>5, <2>7, <2>8, <3>3, <4>1, <4>2, <4>3
    <3>. QED
      BY <3>1, <3>2, <3>3
  <2>. QED
    BY <2>9 DEF LinksBut
<1>15. Shape'
  BY <1>2, <1>7, <1>10 DEF Shape
<1>16. Marked'
  <2>1. e \in Loose(F, Bytes)
    BY <1>5, <1>6, <1>8, <1>9 DEF Loose
  <2>2. ASSUME NEW s \in Task, pos[s] = "free", p[s] \in Piece
        PROVE  \A u \in Covers(p[s].addr, p[s].size) : mem'[u].mark = mem[u].mark
    <3>1. Covers(p[s].addr, p[s].size) \subseteq Unit \ Loose(F, Bytes)
      BY <1>1, <2>2, InUse
    <3>. QED
      BY <1>10, <2>1, <3>1
  <2>. QED
    BY <1>2, <1>3, <1>7, <2>2, MarkedNext
<1>. QED
  BY <1>1, <1>2, <1>4, <1>13, <1>14, <1>15, <1>16, CutOff DEF c, e

(* Contents are written, and no header. *)
LEMMA WriteFacts ==
    ASSUME mem \in Region, NEW x \in Task \cup {None}, NEW S, mem' = Write(x, S)
    PROVE  /\ mem' \in Region
           /\ \A u \in Unit \cup {MhFirst} : u \in S => mem'[u].mark = x
           /\ \A u \in Unit \cup {MhFirst} : u \notin S => mem'[u] = mem[u]
<1>1. Nil \in Int /\ Data(x) = [next |-> Nil, bytes |-> 0, mark |-> x]
  BY UnitFacts DEF Data
<1>2. Data(x) \in Cell /\ Data(x).mark = x
  BY <1>1 DEF Cell
<1>. HIDE DEF Data
<1>3. DOMAIN mem = Unit \cup {MhFirst} /\ \A u \in Unit \cup {MhFirst} : mem[u] \in Cell
  BY DEF Region
<1>4. mem' = [m \in Unit \cup {MhFirst} |-> IF m \in S THEN Data(x) ELSE mem[m]]
  BY <1>3 DEF Write
<1>. QED
  BY <1>2, <1>3, <1>4 DEF Region

(* Such a write into one block leaves the list as it is. *)
LEMMA BlockWritten ==
    ASSUME mem \in Region, NEW F, Whole(F), NEW t \in Task, Given[t] \in Piece, NEW x \in Task \cup {None},
           mem' = Write(x, Covers(Given[t].addr, Given[t].size))
    PROVE  /\ Gaps(F, Bytes') /\ Loose(F, Bytes') = Loose(F, Bytes)
           /\ LinksBut(F, Nil) => LinksBut(F, Nil)'
<1>. DEFINE C == Covers(Given[t].addr, Given[t].size)
<1>1. C \subseteq Unit \ Loose(F, Bytes)
  BY DEF Whole, Apart
<1>2. /\ F \subseteq Unit /\ Gaps(F, Bytes) /\ \A c \in F : c \in Loose(F, Bytes)
  BY WholeParts
<1>3. \A c \in F \cup {MhFirst} : c \in Unit \cup {MhFirst} /\ c \notin C
  BY <1>1, <1>2, UnitFacts
<1>4. mem' = Write(x, C)
  OBVIOUS
<1>. HIDE DEF C
<1>5. \A c \in F \cup {MhFirst} : mem'[c] = mem[c]
  BY <1>3, <1>4, WriteFacts
<1>6. \A c \in F : Bytes'[c] = Bytes[c]
  BY <1>2, <1>5, BytesAre
<1>7. Gaps(F, Bytes') /\ Loose(F, Bytes') = Loose(F, Bytes)
  BY <1>2, <1>6, GapsSame
<1>8. LinksBut(F, Nil) => LinksBut(F, Nil)'
  BY <1>5 DEF LinksBut
<1>. QED
  BY <1>7, <1>8

(* And so do the marks in the other blocks. *)
LEMMA OthersMarked ==
    ASSUME mem \in Region, IInv, NEW F, Whole(F), NEW t \in Task, Given[t] \in Piece, NEW x \in Task \cup {None},
           mem' = Write(x, Covers(Given[t].addr, Given[t].size)),
           NEW s \in Task, s # t, pos[s] = "free", p[s] \in Piece
    PROVE  \A u \in Covers(p[s].addr, p[s].size) : mem'[u].mark = mem[u].mark
<1>1. Given[s] = p[s] /\ Covers(p[s].addr, p[s].size) \subseteq Unit
  BY InUse
<1>2. Covers(Given[s].addr, Given[s].size) \cap Covers(Given[t].addr, Given[t].size) = {}
  BY <1>1, TwoApart
<1>3. \A u \in Covers(p[s].addr, p[s].size) : u \in Unit /\ u \notin Covers(Given[t].addr, Given[t].size)
  BY <1>1, <1>2
<1>4. \A u \in Covers(p[s].addr, p[s].size) : mem'[u] = mem[u]
  BY <1>3, WriteFacts
<1>. QED
  BY <1>4

(* The block is counted off and cleared. *)
LEMMA AccountHeap == ASSUME IInv, HeapInv, NEW t \in Task, Account(t) PROVE HeapInv'
<1>1. PICK F \in SUBSET Unit : Whole(F)
  BY DEF HeapInv
<1>2. /\ InHeap(t) /\ Steps(t, "account", "out") /\ free' = free - (loc[t].end - loc[t].node)
      /\ mem' = Write(None, Covers(loc[t].node, loc[t].end - loc[t].node))
      /\ p' = [p EXCEPT ![t] = Cut(t)] /\ loc' = [loc EXCEPT ![t] = Idle]
  BY DEF Account, Cut
<1>3. /\ at[t] = "account" /\ at'[t] = "out" /\ pos' = pos /\ pos[t] = "alloc"
      /\ \A s \in Task : s # t => at[s] \notin HeapStage
      /\ \A s \in Task : s # t => Given[s] = p[s] /\ Given'[s] = p'[s]
      /\ Given[t] = Cut(t) /\ Given'[t] = p'[t]
  BY <1>2, AloneInside DEF Belongs
<1>4. Halfway(t, F) /\ LinksBut(F, Nil)
  BY <1>1, <1>3, WholeAlone
<1>5. Cut(t) \in Piece /\ free - Cut(t).size = Cardinality(Loose(F, Bytes))
  BY <1>3, <1>4 DEF Halfway
<1>6. Cut(t).addr = loc[t].node /\ Cut(t).size = loc[t].end - loc[t].node
  BY DEF Cut
<1>7. Shape /\ Pointers /\ Marked /\ mem \in Region
  BY DEF HeapInv, Shape
<1>8. p'[t] = Cut(t) /\ \A s \in Task : s # t => p'[s] = p[s]
  BY <1>2, <1>7 DEF Shape
<1>9. mem' = Write(None, Covers(Given[t].addr, Given[t].size)) /\ Given[t] \in Piece
  BY <1>2, <1>3, <1>5, <1>6
<1>10. /\ Gaps(F, Bytes') /\ Loose(F, Bytes') = Loose(F, Bytes) /\ LinksBut(F, Nil)'
  BY <1>1, <1>4, <1>7, <1>9, BlockWritten
<1>11. Apart(Loose(F, Bytes'), Given')
  <2>1. \A s \in Task : Given'[s] = Given[s]
    BY <1>3, <1>8
  <2>2. Apart(Loose(F, Bytes), Given)
    BY <1>1 DEF Whole
  <2>. QED
    BY <1>10, <2>1, <2>2, ApartSame
<1>12. Shape'
  <2>1. mem' \in Region
    BY <1>7, <1>9, WriteFacts
  <2>2. Idle \in Local
    BY UnitFacts DEF Idle, Local
  <2>3. loc' \in [Task -> Local] /\ DOMAIN p' = Task
    BY <1>2, <1>7, <2>2 DEF Shape
  <2>. QED
    BY <2>1, <2>3 DEF Shape
<1>13. Marked'
  <2>1. ASSUME NEW s \in Task, pos[s] = "free", p[s] \in Piece
        PROVE  s # t /\ \A u \in Covers(p[s].addr, p[s].size) : mem'[u].mark = mem[u].mark
    <3>1. s # t
      BY <1>3, <2>1
    <3>. QED
      BY <1>1, <1>7, <1>9, <2>1, <3>1, OthersMarked
  <2>. QED
    BY <1>3, <1>7, <1>8, <2>1, MarkedNext
<1>14. free' = Cardinality(Loose(F, Bytes'))
  BY <1>2, <1>5, <1>6, <1>10
<1>15. Halfway(t, F)'
  BY <1>3 DEF Halfway
<1>. QED
  BY <1>2, <1>3, <1>5, <1>8, <1>10, <1>11, <1>12, <1>13, <1>14, <1>15, HeapNext

(* A worker outside of exec calls nobody, and nobody is in the allocator. *)
LEMMA WorkerGoes ==
    ASSUME IInv, NEW t \in Task, NEW from \in {"use", "pause"}, NEW to, Goes(t, from, to)
    PROVE  /\ at' = at /\ at[t] = "call" /\ pos[t] = from /\ pos'[t] = to
           /\ \A s \in Task : at[s] \notin HeapStage
           /\ \A s \in Task : s # t => pos'[s] = pos[s]
           /\ \A s \in Task : Given[s] = p[s] /\ Given'[s] = p'[s]
<1>1. at' = at /\ pos[t] = from /\ pos' = [pos EXCEPT ![t] = to] /\ this = t
      /\ pos \in [Task -> UNION {Program(r) : r \in Role}]
  BY DEF IInv, TypeOK, ProgramType, Goes, Running
<1>2. pos'[t] = to /\ \A s \in Task : s # t => pos'[s] = pos[s]
  BY <1>1
<1>3. at[t] = "call"
  BY <1>1 DEF IInv, Placed, Belongs, Exec, Posts, Waits
<1>4. \A s \in Task : at[s] \notin HeapStage
  <2>1. \A s \in Task : s # t => at[s] \notin Inside
    BY <1>1, OthersOutside DEF IInv
  <2>. QED
    BY <1>3, <2>1 DEF Inside, HeapStage
<1>5. \A s \in Task : Given[s] = p[s] /\ Given'[s] = p'[s]
  BY <1>1, <1>4 DEF Given, HeapStage
<1>. QED
  BY <1>1, <1>2, <1>3, <1>4, <1>5

(* A worker that got NULL forgets it. *)
LEMMA PauseHeap == ASSUME IInv, HeapInv, NEW t \in Task, Pause(t) PROVE HeapInv'
<1>1. PICK F \in SUBSET Unit : Whole(F)
  BY DEF HeapInv
<1>2. Goes(t, "pause", "alloc") /\ p' = [p EXCEPT ![t] = None] /\ UNCHANGED <<mem, free, loc>>
  BY DEF Pause
<1>3. /\ at' = at /\ at[t] = "call" /\ pos[t] = "pause" /\ pos'[t] = "alloc"
      /\ \A s \in Task : at[s] \notin HeapStage
      /\ \A s \in Task : s # t => pos'[s] = pos[s]
      /\ \A s \in Task : Given[s] = p[s] /\ Given'[s] = p'[s]
  BY <1>2, WorkerGoes
<1>4. Shape /\ Pointers /\ Marked
  BY DEF HeapInv
<1>5. p'[t] = None /\ p[t] = Null /\ \A s \in Task : s # t => p'[s] = p[s]
  BY <1>2, <1>3, <1>4, PointerAt DEF Shape
<1>6. LinksBut(F, Nil) /\ free = Cardinality(Loose(F, Bytes))
  BY <1>1, <1>3, WholeAlone DEF HeapStage
<1>7. Bytes' = Bytes /\ LinksBut(F, Nil)'
  BY <1>2, <1>6 DEF Bytes, LinksBut
<1>8. Apart(Loose(F, Bytes'), Given')
  <2>1. \A s \in Task : (Given'[s] \in Piece <=> Given[s] \in Piece) /\ (Given[s] \in Piece => Given'[s] = Given[s])
    BY <1>3, <1>5, PieceFacts
  <2>2. Apart(Loose(F, Bytes), Given)
    BY <1>1 DEF Whole
  <2>. QED
    BY <1>7, <2>1, <2>2, ApartSame
<1>9. Halfway(t, F)'
  BY <1>3 DEF Halfway
<1>10. Whole(F)'
  <2>1. Gaps(F, Bytes') /\ free' = Cardinality(Loose(F, Bytes'))
    BY <1>1, <1>2, <1>6, <1>7 DEF Whole
  <2>2. \A s \in Task : s # t => at'[s] \notin HeapStage
    BY <1>3
  <2>. QED
    BY <1>7, <1>8, <1>9, <2>1, <2>2, WholeNext
<1>11. Pointers'
  BY <1>3, <1>4, <1>5, PointersNext
<1>12. Marked'
  BY <1>2, <1>3, <1>4, <1>5 DEF Marked, Extent
<1>13. Shape'
  BY <1>2, <1>4 DEF Shape, Region
<1>. QED
  BY <1>10, <1>11, <1>12, <1>13 DEF HeapInv

(* A worker writes into its own block only. *)
LEMMA UseHeap == ASSUME IInv, HeapInv, NEW t \in Task, Use(t) PROVE HeapInv'
<1>1. PICK F \in SUBSET Unit : Whole(F)
  BY DEF HeapInv
<1>2. Goes(t, "use", "free") /\ mem' = Write(t, Covers(p[t].addr, p[t].size)) /\ UNCHANGED <<free, p, loc>>
  BY DEF Use
<1>3. /\ at' = at /\ at[t] = "call" /\ pos[t] = "use" /\ pos'[t] = "free"
      /\ \A s \in Task : at[s] \notin HeapStage
      /\ \A s \in Task : s # t => pos'[s] = pos[s]
      /\ \A s \in Task : Given[s] = p[s] /\ Given'[s] = p'[s]
  BY <1>2, WorkerGoes
<1>4. Shape /\ Pointers /\ Marked /\ mem \in Region
  BY DEF HeapInv, Shape
<1>5. p[t] \in Piece /\ p' = p
  BY <1>2, <1>3, <1>4, PointerAt
<1>6. LinksBut(F, Nil) /\ free = Cardinality(Loose(F, Bytes))
  BY <1>1, <1>3, WholeAlone DEF HeapStage
<1>7. mem' = Write(t, Covers(Given[t].addr, Given[t].size)) /\ Given[t] \in Piece
  BY <1>2, <1>3, <1>5
<1>8. /\ Gaps(F, Bytes') /\ Loose(F, Bytes') = Loose(F, Bytes) /\ LinksBut(F, Nil)'
  BY <1>1, <1>4, <1>6, <1>7, BlockWritten
<1>9. Apart(Loose(F, Bytes'), Given')
  <2>1. \A s \in Task : Given'[s] = Given[s]
    BY <1>3, <1>5
  <2>2. Apart(Loose(F, Bytes), Given)
    BY <1>1 DEF Whole
  <2>. QED
    BY <1>8, <2>1, <2>2, ApartSame
<1>10. Whole(F)'
  <2>1. free' = Cardinality(Loose(F, Bytes'))
    BY <1>2, <1>6, <1>8
  <2>2. (\A s \in Task : s # t => at'[s] \notin HeapStage) /\ Halfway(t, F)'
    BY <1>3 DEF Halfway
  <2>. QED
    BY <1>8, <1>9, <2>1, <2>2, WholeNext
<1>11. Pointers'
  BY <1>3, <1>4, <1>5, PointersNext
<1>12. Marked'
  <2>. SUFFICES ASSUME NEW s \in Task, pos'[s] = "free", p'[s] \in Piece, NEW u \in Extent(s)'
                PROVE  mem'[u].mark = s
    BY DEF Marked
  <2>1. u \in Covers(p[s].addr, p[s].size) /\ u \in Extent(s) /\ p[s] \in Piece
    BY <1>5 DEF Extent
  <2>2. CASE s = t
    <3>1. u \in Covers(Given[t].addr, Given[t].size) /\ u \in Unit
      BY <1>1, <1>3, <2>1, <2>2, InUse
    <3>. QED
      BY <1>4, <1>7, <2>2, <3>1, WriteFacts
  <2>3. CASE s # t
    <3>1. pos[s] = "free"
      BY <1>3, <2>3
    <3>2. mem'[u].mark = mem[u].mark
      BY <1>1, <1>4, <1>7, <2>1, <2>3, <3>1, OthersMarked
    <3>. QED
      BY <1>4, <2>1, <3>1, <3>2 DEF Marked
  <2>. QED
    BY <2>2, <2>3
<1>13. Shape'
  <2>1. mem' \in Region
    BY <1>4, <1>7, WriteFacts
  <2>. QED
    BY <1>2, <1>4, <2>1 DEF Shape
<1>. QED
  BY <1>10, <1>11, <1>12, <1>13 DEF HeapInv

(* The block's place in the list is found; it is never free already. *)
LEMMA InsertHeap == ASSUME IInv, HeapInv, NEW t \in Task, Insert(t) PROVE HeapInv'
<1>1. PICK F \in SUBSET Unit : Whole(F)
  BY DEF HeapInv
<1>. DEFINE b == p[t].addr
            e == p[t].addr + p[t].size
            n == Place({m \in 0 .. Heap : Chain[m + 1] >= b})
            p1 == Chain[n]
            p2 == Chain[n + 1]
            twice == e > p2 \/ (p1 # MhFirst /\ p1 + mem[p1].bytes > b)
            backward == p1 # MhFirst /\ p1 + mem[p1].bytes = b
            to == IF twice THEN "out" ELSE "close"
<1>2. /\ pos[t] = "free" /\ Steps(t, "in", to) /\ InHeap(t) /\ UNCHANGED free
      /\ ~twice => /\ UNCHANGED p
                   /\ loc' = [loc EXCEPT ![t] = [node |-> IF backward THEN p1 ELSE b,
                                                 link |-> p2, end |-> e]]
                   /\ mem' = IF backward THEN mem ELSE [mem EXCEPT ![p1].next = b]
  BY DEF Insert
<1>. HIDE DEF to
<1>3. /\ at[t] = "in" /\ at'[t] = to /\ pos' = pos
      /\ \A s \in Task : s # t => at[s] \notin HeapStage
      /\ \A s \in Task : s # t => Given[s] = p[s] /\ Given'[s] = p'[s]
      /\ Given'[t] = IF to = "account" THEN Cut(t)' ELSE p'[t]
  BY <1>2, AloneInside
<1>4. Shape /\ Pointers /\ Marked /\ mem \in Region
  BY DEF HeapInv, Shape
<1>5. p[t] \in Piece
  BY <1>2, <1>3, <1>4, PointerAt
<1>6. Given[t] = p[t] /\ Covers(p[t].addr, p[t].size) \subseteq Unit \ Loose(F, Bytes)
  BY <1>1, <1>2, <1>5, InUse
<1>7. LinksBut(F, Nil) /\ free = Cardinality(Loose(F, Bytes))
  BY <1>1, <1>3, WholeAlone
<1>8. /\ b \in Unit /\ b \in Nat /\ e \in Nat /\ b < e
      /\ \A u : u \in Covers(p[t].addr, p[t].size) <=> u \in Int /\ b <= u /\ u < e
  <2>1. p[t].addr \in Unit /\ p[t].addr \in Nat /\ p[t].size \in Nat /\ p[t].size \in 1 .. Heap
    BY <1>5, PieceFacts
  <2>2. \A u : u \in Covers(p[t].addr, p[t].size) <=> u \in Int /\ b <= u /\ u < e
    BY <1>5, PieceFacts
  <2>. QED
    BY <2>1, <2>2
<1>9. /\ F \subseteq Unit
      /\ \A c \in F : c \in Unit /\ mem[c].bytes \in Nat \ {0} /\ c + mem[c].bytes <= Heap
                      /\ Bytes[c] = mem[c].bytes
      /\ \A c \in F : c \in Loose(F, Bytes)
  BY <1>1, WholeParts
<1>10. /\ p1 \in F \cup {MhFirst} /\ p1 < b /\ b <= p2 /\ Follower(F, p1, p2)
  <2>. HIDE DEF b
  <2>. QED
    BY <1>7, <1>8, <1>9, StopsAt
<1>. HIDE DEF b, e, p1, p2
<1>11. p2 \in F \cup {Nil} /\ p1 \in Int /\ p2 \in Nat /\ p1 \in Unit \cup {MhFirst}
  BY <1>9, <1>10, UnitFacts DEF Follower
<1>12. b # p2 /\ b < p2
  <2>1. b \in Covers(p[t].addr, p[t].size)
    BY <1>8
  <2>2. b \notin F /\ b # Nil
    BY <1>6, <1>8, <1>9, <2>1, UnitFacts
  <2>. QED
    BY <1>8, <1>10, <1>11, <2>2
<1>13. e <= p2
  <2>. SUFFICES ASSUME ~(e <= p2) PROVE FALSE
    OBVIOUS
  <2>1. p2 \in Covers(p[t].addr, p[t].size)
    BY <1>8, <1>11, <1>12
  <2>2. p2 \in Unit /\ p2 \notin Loose(F, Bytes)
    BY <1>6, <2>1
  <2>. QED
    BY <1>9, <1>11, <2>2, UnitFacts
<1>14. p1 # MhFirst => p1 \in F /\ p1 + mem[p1].bytes <= b
  <2>. SUFFICES ASSUME p1 # MhFirst, ~(p1 + mem[p1].bytes <= b) PROVE FALSE
    BY <1>10
  <2>1. p1 \in F /\ p1 <= b /\ b < p1 + Bytes[p1]
    BY <1>8, <1>9, <1>10, <1>11
  <2>2. b \in Loose(F, Bytes)
    BY <1>8, <2>1 DEF Loose
  <2>. QED
    BY <1>6, <1>8, <2>2
<1>15. ~twice
  BY <1>8, <1>11, <1>13, <1>14, <1>9
<1>16. /\ to = "close" /\ UNCHANGED p
       /\ loc' = [loc EXCEPT ![t] = [node |-> IF backward THEN p1 ELSE b, link |-> p2, end |-> e]]
       /\ mem' = IF backward THEN mem ELSE [mem EXCEPT ![p1].next = b]
  BY <1>2, <1>15 DEF to
<1>. HIDE DEF twice
<1>17. loc'[t] = [node |-> IF backward THEN p1 ELSE b, link |-> p2, end |-> e] /\ loc' \in [Task -> Local]
  <2>1. [node |-> IF backward THEN p1 ELSE b, link |-> p2, end |-> e] \in Local
    BY <1>8, <1>11 DEF Local
  <2>. QED
    BY <1>4, <1>16, <2>1 DEF Shape
<1>18. /\ mem' \in Region /\ Bytes' = Bytes
       /\ ~backward => mem'[p1].next = b
       /\ \A x \in Unit \cup {MhFirst} : x # p1 \/ backward => mem'[x] = mem[x]
       /\ \A x \in Unit \cup {MhFirst} : mem'[x].mark = mem[x].mark /\ mem'[x].bytes = mem[x].bytes
  <2>1. CASE backward
    <3>1. mem' = mem
      BY <1>16, <2>1
    <3>. QED
      BY <1>4, <2>1, <3>1 DEF Bytes
  <2>2. CASE ~backward
    <3>1. mem' = [mem EXCEPT ![p1].next = b] /\ b \in Int
      BY <1>8, <1>16, <2>2
    <3>. QED
      BY <1>4, <1>11, <2>2, <3>1, LinkWritten
  <2>. QED
    BY <2>1, <2>2
<1>19. \A x \in F \cup {MhFirst} : x # p1 \/ backward => Follower(F, x, mem'[x].next)
  BY <1>7, <1>9, <1>18, UnitFacts DEF LinksBut
<1>19a. PICK q : q = p1
  OBVIOUS
<1>20. Joins(t, q, F)'
  <2>1. q \in F \cup {MhFirst} /\ Follower(F, q, p2) /\ q < b /\ e <= p2
    BY <1>10, <1>13, <1>19a
  <2>4. loc'[t].link = p2 /\ loc'[t].end = e /\ p'[t] = p[t]
    BY <1>16, <1>17
  <2>2. CASE backward
    <3>1. q \in F /\ q + mem'[q].bytes = b
      BY <1>11, <1>14, <1>18, <1>19a, <2>2 DEF backward
    <3>2. loc'[t].node = q
      BY <1>17, <1>19a, <2>2
    <3>3. \A x \in F \cup {MhFirst} : x # Nil => Follower(F, x, mem'[x].next)
      BY <1>19, <2>2
    <3>. QED
      BY <2>1, <2>4, <3>1, <3>2, <3>3 DEF Joins, LinksBut, b, e
  <2>3. CASE ~backward
    <3>1. q \in F => q + mem'[q].bytes < b
      <4>. HAVE q \in F
      <4>1. p1 # MhFirst /\ p1 + mem[p1].bytes \in Int /\ p1 + mem[p1].bytes <= b
        BY <1>9, <1>11, <1>14, <1>19a, UnitFacts
      <4>2. p1 + mem[p1].bytes # b
        BY <2>3, <4>1 DEF backward
      <4>. QED
        BY <1>8, <1>11, <1>18, <1>19a, <4>1, <4>2
    <3>2. loc'[t].node = b /\ mem'[q].next = b
      BY <1>17, <1>18, <1>19a, <2>3
    <3>3. \A x \in F \cup {MhFirst} : x # q => Follower(F, x, mem'[x].next)
      BY <1>19, <1>19a
    <3>. QED
      BY <2>1, <2>4, <3>1, <3>2, <3>3 DEF Joins, LinksBut, b, e
  <2>. QED
    BY <2>2, <2>3
<1>. HIDE DEF backward
<1>21. Halfway(t, F)'
  BY <1>3, <1>10, <1>16, <1>20, <1>19a DEF Halfway
<1>22. Apart(Loose(F, Bytes'), Given')
  <2>1. \A s \in Task : Given'[s] = Given[s]
    BY <1>3, <1>6, <1>16
  <2>2. Apart(Loose(F, Bytes), Given)
    BY <1>1 DEF Whole
  <2>. QED
    BY <1>18, <2>1, <2>2, ApartSame
<1>23. Shape' /\ Marked'
  <2>1. Shape'
    BY <1>4, <1>16, <1>17, <1>18 DEF Shape
  <2>2. Marked'
    BY <1>3, <1>16, <1>18, MarksSame
  <2>. QED
    BY <2>1, <2>2
<1>24. Gaps(F, Bytes') /\ free' = Cardinality(Loose(F, Bytes'))
  BY <1>1, <1>2, <1>7, <1>18 DEF Whole
<1>. QED
  BY <1>2, <1>5, <1>16, <1>21, <1>22, <1>23, <1>24, HeapNext

(* A chunk is made: its header, and nothing else outside of it. *)
LEMMA ChunkFacts ==
    ASSUME mem \in Region, NEW node \in Unit, NEW next \in Int, NEW end \in Int, node < end,
           mem' = Chunk(node, next, end)
    PROVE  /\ mem' \in Region /\ mem'[node].next = next /\ mem'[node].bytes = end - node
           /\ \A u \in Unit \cup {MhFirst} : u \notin Covers(node, end - node) => mem'[u] = mem[u]
<1>. DEFINE C == Covers(node, end - node)
            h == [next |-> next, bytes |-> end - node, mark |-> None]
            W == Write(None, C)
<1>1. Data(None) \in Cell
  BY UnitFacts DEF Data, Cell
<1>2. node \in Int /\ end - node \in Nat
  BY UnitFacts
<1>3. h \in Cell /\ h.next = next /\ h.bytes = end - node
  BY <1>2 DEF Cell
<1>4. node \in C
  BY <1>2, CoversFacts
<1>5. DOMAIN mem = Unit \cup {MhFirst} /\ \A u \in Unit \cup {MhFirst} : mem[u] \in Cell
  BY DEF Region
<1>. HIDE DEF C, h
<1>6. W = [m \in Unit \cup {MhFirst} |-> IF m \in C THEN Data(None) ELSE mem[m]]
  BY <1>5 DEF Write
<1>7. mem' = [W EXCEPT ![node] = h]
  BY DEF Chunk, C, h
<1>. HIDE DEF W
<1>8. /\ mem'[node] = h /\ mem' \in Region
      /\ \A u \in Unit \cup {MhFirst} : u \notin C => mem'[u] = mem[u]
  BY <1>1, <1>3, <1>4, <1>5, <1>6, <1>7 DEF Region
<1>. QED
  BY <1>3, <1>8 DEF C

(* The list with the block linked into it. *)
LEMMA LinkedIn ==
    ASSUME NEW F, F \subseteq Unit, NEW q, NEW p2, NEW b, NEW e, NEW node, Meets(F, q, p2, b, e, node),
           LinksBut(F, q), node = b => mem[q].next = b
    PROVE  /\ Follower(Joined(F, p2, e, node), node, Behind(p2, e))
           /\ \A x \in Joined(F, p2, e, node) \cup {MhFirst} :
                x # node => Follower(Joined(F, p2, e, node), x, mem[x].next)
<1>0. PICK adjacent \in BOOLEAN : adjacent <=> e = p2 /\ p2 # Nil
  OBVIOUS
<1>a. PICK next : next = Behind(p2, e) /\ next = IF adjacent THEN mem[p2].next ELSE p2
  BY <1>0 DEF Behind
<1>b. PICK G : G = Joined(F, p2, e, node) /\ G = (IF adjacent THEN F \ {p2} ELSE F) \cup {node}
  BY <1>0 DEF Joined
<1>. SUFFICES /\ Follower(G, node, next)
              /\ \A x \in G \cup {MhFirst} : x # node => Follower(G, x, mem[x].next)
  BY <1>a, <1>b
<1>d. \A x \in F \cup {MhFirst} : x # q => Follower(F, x, mem[x].next)
  BY DEF LinksBut
<1>c. /\ q \in F \cup {MhFirst} /\ Follower(F, q, p2) /\ b \in Unit /\ q < b /\ b < e /\ e <= p2 /\ e \in Int
      /\ (node = q /\ q \in F) \/ (node = b /\ mem[q].next = b)
  BY DEF Meets
<1>1. PICK H : H = IF adjacent THEN F \ {p2} ELSE F
  OBVIOUS
<1>2. p2 \in F \cup {Nil} /\ q < p2 /\ q # p2 /\ p2 # MhFirst /\ q \in Int /\ p2 \in Int /\ b < p2
  BY <1>c, UnitFacts DEF Follower
<1>3. /\ Follower(H, q, next) /\ next \in H \cup {Nil} /\ b < next
      /\ \A x \in H \cup {MhFirst} : x # q => Follower(H, x, mem[x].next)
  <2>1. CASE adjacent
    <3>1. p2 \in F /\ next = mem[p2].next /\ Follower(F, p2, next) /\ H = F \ {p2}
      BY <1>0, <1>1, <1>2, <1>a, <1>c, <1>d, <2>1
    <3>2. /\ Follower(H, q, next)
          /\ \A x \in F \cup {MhFirst} : \A d : x # q /\ Follower(F, x, d) => Follower(H, x, d)
      BY <1>c, <1>d, <3>1, FollowersWithout
    <3>3. \A x \in H \cup {MhFirst} : x # q => Follower(H, x, mem[x].next)
      BY <1>d, <3>1, <3>2
    <3>4. next \in H \cup {Nil} /\ p2 < next
      BY <3>1, <3>2 DEF Follower
    <3>5. next \in Int /\ b \in Int
      BY <1>c, <3>1, <3>4, UnitFacts
    <3>. QED
      BY <1>2, <3>2, <3>3, <3>4, <3>5
  <2>2. CASE ~adjacent
    BY <1>1, <1>2, <1>a, <1>c, <1>d, <2>2
  <2>. QED
    BY <2>1, <2>2
<1>4. H \subseteq Unit /\ q \in H \cup {MhFirst} /\ G = H \cup {node}
  BY <1>1, <1>2, <1>b, <1>c
<1>5. CASE node = q /\ q \in F
  <2>1. G = H
    BY <1>1, <1>2, <1>4, <1>5
  <2>. QED
    BY <1>3, <1>5, <2>1
<1>6. CASE node = b /\ mem[q].next = b
  <2>1. /\ b \notin H /\ Follower(G, q, b) /\ Follower(G, b, next)
        /\ \A x \in H \cup {MhFirst} : \A d : x # q /\ Follower(H, x, d) => Follower(G, x, d)
    <3>1. H \subseteq Unit /\ b \in Unit /\ q \in H \cup {MhFirst} /\ next \in H \cup {Nil}
          /\ Follower(H, q, next) /\ q < b /\ b < next
      BY <1>3, <1>4, <1>c
    <3>2. /\ b \notin H /\ Follower(H \cup {b}, q, b) /\ Follower(H \cup {b}, b, next)
          /\ \A x \in H \cup {MhFirst} : \A d : x # q /\ Follower(H, x, d) => Follower(H \cup {b}, x, d)
      BY <3>1, FollowersWith
    <3>3. G = H \cup {b}
      BY <1>4, <1>6
    <3>. QED
      BY <3>2, <3>3
  <2>2. ASSUME NEW x \in G \cup {MhFirst}, x # node PROVE Follower(G, x, mem[x].next)
    <3>1. x \in H \cup {MhFirst}
      BY <1>4, <2>2
    <3>2. CASE x = q
      BY <1>6, <2>1, <3>2
    <3>3. CASE x # q
      BY <1>3, <2>1, <3>1, <3>3
    <3>. QED
      BY <3>2, <3>3
  <2>. QED
    BY <1>6, <2>1, <2>2
<1>. QED
  BY <1>5, <1>6, <1>c

(* What the block joins: the other chunks are outside of the new one. *)
LEMMA JoinFacts ==
    ASSUME NEW F, Whole(F), NEW q, NEW p2, NEW b, NEW e, NEW node, Meets(F, q, p2, b, e, node),
           NEW end, end = IF e = p2 /\ p2 # Nil THEN p2 + mem[p2].bytes ELSE e
    PROVE  \A x \in F \cup {MhFirst} : x # node /\ (e = p2 => x # p2) =>
             x \in Unit \cup {MhFirst} /\ x \notin Covers(node, end - node)
<1>. SUFFICES ASSUME NEW x \in F \cup {MhFirst}, x # node, e = p2 => x # p2
              PROVE  x \in Unit \cup {MhFirst} /\ x \notin Covers(node, end - node)
  OBVIOUS
<1>0. /\ q \in F \cup {MhFirst} /\ Follower(F, q, p2) /\ b \in Unit /\ e \in Int
      /\ q < b /\ b < e /\ e <= p2 /\ (node = q \/ node = b) /\ (q \in F \/ node = b)
  BY DEF Meets
<1>1. /\ F \subseteq Unit
      /\ \A c \in F : c \in Unit /\ c \in Nat /\ mem[c].bytes \in Nat
      /\ \A c, d \in F : c < d => c + mem[c].bytes < d
  <2>1. /\ F \subseteq Unit
        /\ \A c \in F : c \in Unit /\ mem[c].bytes \in Nat \ {0}
        /\ \A c, d \in F : c < d => c + mem[c].bytes < d
    BY WholeParts
  <2>. QED
    BY <2>1, UnitFacts
<1>2. p2 \in F \cup {Nil} /\ q < p2 /\ q \in Int /\ p2 \in Nat /\ b \in Nat /\ x \in Int /\ node \in Int
  BY <1>0, <1>1, UnitFacts DEF Follower
<1>3. x \in F /\ q < x => p2 <= x
  BY <1>0 DEF Follower
<1>4. node \in Nat
  BY <1>0, <1>1, <1>2, UnitFacts
<1>5. end \in Int
  BY <1>0, <1>1, <1>2
<1>6. x < node \/ end <= x
  <2>1. CASE x = MhFirst
    BY <1>0, <1>4, <2>1, UnitFacts
  <2>2. CASE x \in F /\ x < q
    BY <1>0, <1>2, <2>2
  <2>3. CASE x \in F /\ x = q
    BY <1>0, <1>2, <2>3
  <2>4. CASE x \in F /\ q < x
    <3>1. p2 <= x
      BY <1>0, <1>3, <2>4
    <3>2. CASE x = p2
      BY <1>0, <1>2, <3>2
    <3>3. CASE p2 < x
      <4>1. p2 \in F => p2 + mem[p2].bytes < x
        BY <1>0, <1>1, <2>4, <3>3
      <4>2. p2 \in F
        BY <1>0, <1>1, <1>2, <2>4, <3>3, UnitFacts
      <4>. QED
        BY <1>0, <1>1, <1>2, <3>3, <4>1, <4>2
    <3>. QED
      BY <1>0, <1>2, <3>1, <3>2, <3>3
  <2>. QED
    BY <1>0, <1>2, <2>1, <2>2, <2>3, <2>4
<1>7. \A u : u \in Covers(node, end - node) => u \in Int /\ node <= u /\ u < end
  BY <1>0, <1>2, <1>5 DEF Covers
<1>. QED
  BY <1>0, <1>1, <1>2, <1>5, <1>6, <1>7

(* The block becomes free, with the chunks it touches. *)
LEMMA CloseHeap == ASSUME IInv, HeapInv, NEW t \in Task, Close(t) PROVE HeapInv'
<1>1. PICK F \in SUBSET Unit : Whole(F)
  BY DEF HeapInv
<1>2. PICK node, p2, e, size, b : /\ node = loc[t].node /\ p2 = loc[t].link /\ e = loc[t].end
                                  /\ size = p[t].size /\ b = p[t].addr
  OBVIOUS
<1>3. PICK adjacent \in BOOLEAN : adjacent <=> e = p2 /\ p2 # Nil
  OBVIOUS
<1>4. PICK end : end = IF e = p2 /\ p2 # Nil THEN p2 + mem[p2].bytes ELSE e
  OBVIOUS
<1>5. PICK next : next = IF adjacent THEN mem[p2].next ELSE p2
  OBVIOUS
<1>6. /\ Steps(t, "close", "out") /\ mem' = Chunk(node, next, end)
      /\ free' = free + size /\ p' = [p EXCEPT ![t] = None]
      /\ loc' = [loc EXCEPT ![t] = Idle] /\ InHeap(t)
  BY <1>2, <1>3, <1>4, <1>5 DEF Close
<1>7. /\ at[t] = "close" /\ at'[t] = "out" /\ pos' = pos /\ pos[t] = "free"
      /\ \A s \in Task : s # t => at[s] \notin HeapStage
      /\ \A s \in Task : s # t => Given[s] = p[s] /\ Given'[s] = p'[s]
      /\ Given[t] = p[t] /\ Given'[t] = p'[t]
  BY <1>6, AloneInside DEF Belongs
<1>8. Shape /\ Pointers /\ Marked /\ mem \in Region
  BY DEF HeapInv, Shape
<1>9. p[t] \in Piece
  BY <1>7, <1>8, PointerAt
<1>10. free = Cardinality(Loose(F, Bytes)) /\ Halfway(t, F)
  BY <1>1, <1>7, WholeAlone
<1>11. PICK q \in F \cup {MhFirst} : Joins(t, q, F)
  BY <1>7, <1>10 DEF Halfway
<1>12. /\ Follower(F, q, p2) /\ q < b /\ e = b + size /\ e <= p2
       /\ \/ /\ q \in F /\ q + mem[q].bytes = b /\ node = q /\ LinksBut(F, Nil)
          \/ /\ q \in F => q + mem[q].bytes < b
             /\ node = b /\ LinksBut(F, q) /\ mem[q].next = b
  BY <1>2, <1>11 DEF Joins
<1>13. /\ b \in Unit /\ b \in Nat /\ size \in Nat /\ size > 0
       /\ p[t].addr = b /\ p[t].size = size
  BY <1>2, <1>9, PieceFacts
<1>14. /\ F \subseteq Unit /\ Gaps(F, Bytes)
       /\ \A x \in F : x \in Unit /\ x \in Nat /\ mem[x].bytes \in Nat /\ Bytes[x] = mem[x].bytes
  BY <1>1, WholeParts, UnitFacts
<1>15. /\ p2 \in F \cup {Nil} /\ q < p2 /\ q \in Int /\ p2 \in Int /\ e \in Int /\ b < e /\ b < p2
       /\ MhFirst \notin F /\ Nil \notin F
  BY <1>12, <1>13, <1>14, UnitFacts DEF Follower
<1>16. node \in Unit /\ ((node = q /\ q \in F) \/ node = b)
  BY <1>12, <1>13, <1>14
<1>16a. Meets(F, q, p2, b, e, node)
  BY <1>11, <1>12, <1>13, <1>15 DEF Meets
<1>17. \A x \in F \cup {MhFirst} : x # q => Follower(F, x, mem[x].next)
  <2>1. \A x \in F \cup {MhFirst} : x # Nil
    BY <1>15, UnitFacts
  <2>. QED
    BY <1>12, <2>1 DEF LinksBut
<1>18. PICK G : G = (IF adjacent THEN F \ {p2} ELSE F) \cup {node}
  OBVIOUS
<1>19. /\ Follower(G, node, next)
       /\ \A x \in G \cup {MhFirst} : x # node => Follower(G, x, mem[x].next)
  <2>1. node = b => mem[q].next = b
    BY <1>12, <1>13, <1>15
  <2>2. F \subseteq Unit /\ LinksBut(F, q)
    BY <1>14, <1>17 DEF LinksBut
  <2>3. G = Joined(F, p2, e, node) /\ next = Behind(p2, e)
    BY <1>3, <1>5, <1>18 DEF Joined, Behind
  <2>. QED
    BY <1>16a, <2>1, <2>2, <2>3, LinkedIn
<1>20. next \in Int /\ end \in Int
  <2>1. next \in G \cup {Nil} /\ G \subseteq Unit
    BY <1>14, <1>16, <1>18, <1>19 DEF Follower
  <2>2. end \in Int
    BY <1>4, <1>14, <1>15
  <2>. QED
    BY <2>1, <2>2, UnitFacts
<1>21. node = IF q \in F /\ q + Bytes[q] = b THEN q ELSE b
  <2>1. q \in F => Bytes[q] = mem[q].bytes /\ mem[q].bytes \in Nat
    BY <1>14
  <2>. QED
    BY <1>12, <1>13, <1>15, <2>1
<1>22. node < end
  <2>1. node <= b
    BY <1>12, <1>13, <1>15, <1>16
  <2>2. p2 \in F => mem[p2].bytes \in Nat
    BY <1>14
  <2>3. e <= end
    BY <1>4, <1>15, <2>2
  <2>4. node \in Int
    BY <1>16, UnitFacts
  <2>. QED
    BY <1>13, <1>15, <1>20, <2>1, <2>3, <2>4
<1>23. /\ mem' \in Region /\ mem'[node].next = next /\ mem'[node].bytes = end - node
       /\ \A u \in Unit \cup {MhFirst} : u \notin Covers(node, end - node) => mem'[u] = mem[u]
  BY <1>6, <1>8, <1>16, <1>20, <1>22, ChunkFacts
<1>24. \A x \in G \cup {MhFirst} : x # node => mem'[x] = mem[x]
  <2>. SUFFICES ASSUME NEW x \in G \cup {MhFirst}, x # node PROVE mem'[x] = mem[x]
    OBVIOUS
  <2>1. x \in F \cup {MhFirst} /\ (adjacent => x # p2)
    BY <1>3, <1>18, <1>15, UnitFacts
  <2>2. e = p2 => x # p2
    BY <1>3, <1>15, <2>1, UnitFacts
  <2>4. x \in Unit \cup {MhFirst} /\ x \notin Covers(node, end - node)
    BY <1>1, <1>4, <1>16a, <2>1, <2>2, JoinFacts
  <2>. QED
    BY <1>23, <2>4
<1>25. LinksBut(G, Nil)'
  <2>1. \A x \in G \cup {MhFirst} : Follower(G, x, mem'[x].next)
    BY <1>19, <1>23, <1>24
  <2>. QED
    BY <2>1 DEF LinksBut
<1>26. /\ Gaps(G, Bytes') /\ Loose(G, Bytes') = Loose(F, Bytes) \cup Covers(b, size)
  <2>1. PICK s, r : s = Bytes /\ r = Bytes'
    OBVIOUS
  <2>2. G \subseteq Unit
    BY <1>14, <1>16, <1>18
  <2>3. r[node] = end - node
    BY <1>16, <1>23, <2>1, BytesAre
  <2>4. \A d \in G \ {node} : r[d] = s[d]
    <3>. SUFFICES ASSUME NEW d \in G \ {node} PROVE r[d] = s[d]
      OBVIOUS
    <3>1. mem'[d] = mem[d] /\ d \in Unit
      BY <1>24, <2>2
    <3>. QED
      BY <2>1, <3>1, BytesAre
  <2>5. Gaps(F, s) /\ (q \in F => q + s[q] <= b)
    <3>1. q \in F => mem[q].bytes \in Nat /\ s[q] = mem[q].bytes
      BY <1>14, <2>1
    <3>. QED
      BY <1>12, <1>13, <1>14, <1>15, <2>1, <3>1
  <2>6. node = IF q \in F /\ q + s[q] = b THEN q ELSE b
    BY <1>21, <2>1
  <2>7. end = IF e = p2 /\ p2 # Nil THEN p2 + s[p2] ELSE e
    BY <1>4, <1>14, <1>15, <2>1
  <2>8. G = Joined(F, p2, e, node)
    BY <1>3, <1>18 DEF Joined
  <2>9. Gaps(F, s)
    BY <2>5
  <2>10. Gaps(G, r) /\ Loose(G, r) = Loose(F, s) \cup Covers(b, e - b)
    <3>1. \A d \in Joined(F, p2, e, node) \ {node} : r[d] = s[d]
      BY <2>4, <2>8
    <3>2. Joining(F, s, q, p2, b, e, node, end, r)
      BY <1>16a, <2>3, <2>5, <2>6, <2>7, <3>1 DEF Joining
    <3>3. /\ Gaps(Joined(F, p2, e, node), r)
          /\ Loose(Joined(F, p2, e, node), r) = Loose(F, s) \cup Covers(b, e - b)
      BY <3>2, JoinChunk
    <3>. QED
      BY <2>8, <3>3
  <2>11. e - b = size
    BY <1>12, <1>13
  <2>. QED
    BY <2>1, <2>10, <2>11
<1>27. p'[t] = None /\ p'[t] \notin Piece /\ \A s \in Task : s # t => p'[s] = p[s]
  BY <1>6, <1>8, PieceFacts DEF Shape
<1>28. Apart(Loose(F, Bytes), Given)
  BY <1>1 DEF Whole
<1>29. Apart(Loose(G, Bytes'), Given')
  <2>1. Given[t] \in Piece /\ Given[t].addr = b /\ Given[t].size = size /\ Given'[t] \notin Piece
    BY <1>7, <1>9, <1>13, <1>27
  <2>2. \A s \in Task \ {t} : Given'[s] = Given[s]
    BY <1>7, <1>27
  <2>3. Apart(Loose(F, Bytes) \cup Covers(Given[t].addr, Given[t].size), Given')
    BY <1>28, <2>1, <2>2, ApartGive
  <2>. QED
    BY <1>26, <2>1, <2>3
<1>30. free' = Cardinality(Loose(G, Bytes'))
  <2>1. Covers(b, size) \subseteq Unit \ Loose(F, Bytes)
    BY <1>1, <1>7, <1>9, <1>13, InUse
  <2>2. IsFiniteSet(Covers(b, size)) /\ Cardinality(Covers(b, size)) = size
    BY <1>13, CoversFacts
  <2>3. IsFiniteSet(Loose(F, Bytes)) /\ Cardinality(Loose(F, Bytes)) \in Nat
    BY LooseFacts
  <2>4. Loose(F, Bytes) \cap Covers(b, size) = {}
    BY <2>1
  <2>5. Cardinality(Loose(F, Bytes) \cup Covers(b, size))
          = Cardinality(Loose(F, Bytes)) + Cardinality(Covers(b, size)) - Cardinality({})
    BY <2>2, <2>3, <2>4, FS_Union
  <2>6. Cardinality({}) = 0
    BY FS_EmptySet
  <2>. QED
    BY <1>6, <1>10, <1>13, <1>26, <2>2, <2>3, <2>5, <2>6
<1>31. Marked'
  <2>1. ASSUME NEW s \in Task, pos[s] = "free", p[s] \in Piece, s # t,
               NEW u \in Covers(p[s].addr, p[s].size)
        PROVE  mem'[u].mark = mem[u].mark
    <3>1. Given[s] = p[s] /\ Covers(p[s].addr, p[s].size) \subseteq Unit \ Loose(F, Bytes)
      BY <1>1, <2>1, InUse
    <3>2. Covers(p[s].addr, p[s].size) \cap Covers(b, size) = {}
      BY <1>1, <1>7, <1>9, <1>13, <2>1, <3>1, TwoApart
    <3>3. u \in Unit /\ u \notin Loose(G, Bytes')
      BY <1>26, <2>1, <3>1, <3>2
    <3>4. u \notin Covers(node, end - node)
      <4>. SUFFICES ASSUME u \in Covers(node, end - node) PROVE FALSE
        OBVIOUS
      <4>1. node \in Int /\ end - node \in Nat /\ node \in G
        BY <1>16, <1>18, <1>20, <1>22, UnitFacts
      <4>2. u \in Int /\ node <= u /\ u < node + (end - node)
        BY <4>1, CoversFacts
      <4>3. Bytes'[node] = end - node
        BY <1>16, <1>23, BytesAre
      <4>. QED
        BY <3>3, <4>1, <4>2, <4>3 DEF Loose
    <3>. QED
      BY <1>23, <3>3, <3>4
  <2>. QED
    BY <1>7, <1>8, <1>27, <2>1, MarkedNext
<1>32. Shape'
  <2>1. Idle \in Local
    BY UnitFacts DEF Idle, Local
  <2>2. loc' \in [Task -> Local] /\ DOMAIN p' = Task
    BY <1>6, <1>8, <2>1 DEF Shape
  <2>. QED
    BY <1>23, <2>2 DEF Shape
<1>33. Halfway(t, G)'
  BY <1>7 DEF Halfway
<1>34. /\ Steps(t, "close", "out") /\ InHeap(t) /\ pos[t] = "free" /\ p'[t] \in {None}
       /\ \A s \in Task : s # t => p'[s] = p[s]
  BY <1>6, <1>7, <1>27
<1>. QED
  BY <1>25, <1>26, <1>29, <1>30, <1>31, <1>32, <1>33, <1>34, HeapNext

-----------------------------------------------------------------------------

(* main() gives the allocator one chunk, the region. *)
LEMMA InitHeap == ASSUME Init PROVE HeapInv
<1>1. /\ at = [t \in Task |-> "call"] /\ p = [t \in Task |-> None] /\ loc = [t \in Task |-> Idle]
      /\ free = Heap /\ pos = [t \in Task |-> Starts(cast.role[t])]
      /\ mem = [u \in Unit \cup {MhFirst} |->
                  [next |-> IF u = MhFirst THEN 0 ELSE Nil,
                   bytes |-> IF u = 0 THEN Heap ELSE 0, mark |-> None]]
      /\ cast \in Casts
  BY DEF Init
<1>2. 0 \in Unit /\ MhFirst # 0 /\ Nil \in Int
  BY UnitFacts DEF Unit, MhFirst
<1>3. mem \in Region
  BY <1>1, <1>2 DEF Region, Cell
<1>4. Shape
  BY <1>1, <1>2, <1>3 DEF Shape, Idle, Local
<1>5. \A t \in Task : pos[t] \in {"sendData", "waitData", "look", "fill", "alloc", "busy"}
                      /\ at[t] = "call" /\ p[t] = None
  BY <1>1 DEF Starts
<1>6. Pointers /\ Marked
  <2>1. Pointers
    BY <1>5 DEF Pointers
  <2>2. Marked
    BY <1>5 DEF Marked
  <2>. QED
    BY <2>1, <2>2
<1>7. Bytes[0] = Heap /\ mem[MhFirst].next = 0 /\ mem[0].next = Nil
  <2>1. mem[MhFirst].next = 0 /\ mem[0].next = Nil /\ mem[0].bytes = Heap
    BY <1>1, <1>2
  <2>. QED
    BY <1>2, <2>1, BytesAre
<1>8. Gaps({0}, Bytes)
  BY <1>2, <1>7 DEF Gaps
<1>9. Loose({0}, Bytes) = Unit
  <2>1. \A u \in Unit : 0 <= u /\ u < 0 + Bytes[0]
    BY <1>7, UnitFacts DEF Nil
  <2>. QED
    BY <2>1 DEF Loose
<1>10. Apart(Unit, Given)
  <2>1. \A t \in Task : Given[t] \notin Piece
    BY <1>5, PieceFacts DEF Given
  <2>. QED
    BY <2>1 DEF Apart
<1>11. LinksBut({0}, Nil)
  <2>1. Follower({0}, MhFirst, 0) /\ Follower({0}, 0, Nil)
    BY <1>2 DEF Follower, Nil, MhFirst
  <2>. QED
    BY <1>7, <2>1 DEF LinksBut
<1>12. free = Cardinality(Loose({0}, Bytes))
  <2>1. Unit = Covers(0, Heap)
    BY DEF Unit, Covers
  <2>2. Cardinality(Covers(0, Heap)) = Heap
    BY CoversFacts
  <2>. QED
    BY <1>1, <1>9, <2>1, <2>2
<1>13. \A t \in Task : Halfway(t, {0})
  BY <1>5 DEF Halfway
<1>14. Whole({0})
  BY <1>5, <1>8, <1>9, <1>10, <1>11, <1>12, <1>13 DEF Whole
<1>15. {0} \in SUBSET Unit
  BY <1>2
<1>. QED
  BY <1>4, <1>6, <1>14, <1>15 DEF HeapInv

(* Each step of a worker. *)
LEMMA MemoryHeap == ASSUME IInv, HeapInv, NEW t \in Task, Memory(t) PROVE HeapInv'
BY SearchHeap, CarveHeap, RestHeap, AccountHeap, InsertHeap, CloseHeap, UseHeap, PauseHeap DEF Memory

(* Every step keeps the heap's invariant. *)
LEMMA NextHeap == ASSUME IInv, HeapInv, [Next]_vars PROVE HeapInv'
<1>1. CASE Tick \/ Shutdown \/ UNCHANGED vars
  <2>1. UNCHANGED <<where, heap>>
    BY <1>1 DEF Tick, Shutdown, vars
  <2>2. UNCHANGED <<pos, at, p>>
    BY <2>1 DEF where, heap
  <2>3. Pointers'
    BY <2>2 DEF HeapInv, Pointers
  <2>. QED
    BY <2>1, <2>2, <2>3, HeapKept
<1>2. ASSUME NEW t \in Task, Step(t) PROVE HeapInv'
  BY <1>2, CallsHeap, SignallingHeap, MessagesHeap, MemoryHeap DEF Step
<1>. QED
  BY <1>1, <1>2 DEF Next

(* The heap's invariant holds in every state the worker tasks reach, whatever
   the size of the region and of the blocks. *)
THEOREM HeapInductive == Spec => [](IInv /\ HeapInv)
<1>1. Init => IInv /\ HeapInv
  BY InitIInv, InitHeap
<1>2. IInv /\ HeapInv /\ [Next]_vars => (IInv /\ HeapInv)'
  BY NextIInv, NextHeap
<1>. QED
  BY <1>1, <1>2, PTL DEF Spec

(* Outside Forbid nobody is half-way, and the heap is whole. *)
LEMMA WholeOutside == ASSUME IInv, HeapInv PROVE HeapWhole
<1>. SUFFICES ASSUME forbid = 0
     PROVE  /\ \A c \in Chunks : LET end == c + mem[c].bytes
                                 IN c < end /\ (end < mem[c].next \/ (end = Heap /\ mem[c].next = Nil))
            /\ \A u \in Unit :
                 LET in == {c \in Chunks : u \in Covers(c, mem[c].bytes)}
                     of == {t \in Blocks : u \in Extent(t)}
                 IN Cardinality(in) + Cardinality(of) = 1
            /\ free = Cardinality(UNION {Covers(c, mem[c].bytes) : c \in Chunks})
            /\ \A t \in Blocks : pos[t] = "free" => \A u \in Extent(t) : mem[u].mark = t
  BY DEF HeapWhole
<1>1. PICK F \in SUBSET Unit : Whole(F)
  BY DEF HeapInv
<1>2. \A t \in Task : at[t] \notin HeapStage
  <2>1. \A t \in Task : at[t] \notin Inside
    BY DEF IInv, ForbidExact
  <2>. QED
    BY <2>1 DEF Inside, HeapStage
<1>3. /\ LinksBut(F, Nil) /\ free = Cardinality(Loose(F, Bytes))
      /\ Apart(Loose(F, Bytes), Given) /\ Given = [t \in Task |-> p[t]]
  BY <1>1, <1>2 DEF Whole, Given, HeapStage
<1>4. /\ F \subseteq Unit
      /\ \A c \in F : c \in Nat /\ mem[c].bytes \in Nat /\ mem[c].bytes > 0 /\ c + mem[c].bytes <= Heap
                      /\ Bytes[c] = mem[c].bytes
      /\ \A c, d \in F : c < d => c + mem[c].bytes < d
  <2>1. /\ F \subseteq Unit
        /\ \A c \in F : c \in Unit /\ mem[c].bytes \in Nat \ {0} /\ c + mem[c].bytes <= Heap
                        /\ Bytes[c] = mem[c].bytes
        /\ \A c, d \in F : c < d => c + mem[c].bytes < d
    BY <1>1, WholeParts
  <2>. QED
    BY <2>1, UnitFacts
<1>5. Chunks = F
  BY <1>3, <1>4, ChunksAre
<1>6. \A c \in F : \A u : u \in Covers(c, mem[c].bytes) <=> u \in Int /\ c <= u /\ u < c + mem[c].bytes
  BY <1>4, CoversFacts
<1>7. \A c \in F : Covers(c, mem[c].bytes) \subseteq Loose(F, Bytes)
  BY <1>4, <1>6 DEF Loose, Unit
<1>8. \A u \in Loose(F, Bytes) : u \in Unit /\ \E c \in F : u \in Covers(c, mem[c].bytes)
  <2>1. \A u \in Loose(F, Bytes) : u \in Unit /\ \E c \in F : c <= u /\ u < c + Bytes[c]
    BY DEF Loose
  <2>2. \A u \in Unit : u \in Int
    BY UnitFacts
  <2>. QED
    BY <1>4, <1>6, <2>1, <2>2
<1>9. \A c \in Chunks : LET end == c + mem[c].bytes
                        IN c < end /\ (end < mem[c].next \/ (end = Heap /\ mem[c].next = Nil))
  <2>. SUFFICES ASSUME NEW c \in F
       PROVE  /\ c < c + mem[c].bytes
              /\ c + mem[c].bytes < mem[c].next \/ (c + mem[c].bytes = Heap /\ mem[c].next = Nil)
    BY <1>5
  <2>1. Follower(F, c, mem[c].next)
    BY <1>3, <1>4, UnitFacts DEF LinksBut
  <2>2. mem[c].next \in F \cup {Nil} /\ c < mem[c].next
    BY <2>1 DEF Follower
  <2>. QED
    BY <1>4, <2>2 DEF Nil
<1>10. ASSUME NEW u \in Unit
       PROVE  Cardinality({c \in Chunks : u \in Covers(c, mem[c].bytes)})
                + Cardinality({t \in Blocks : u \in Extent(t)}) = 1
  <2>. DEFINE in == {c \in Chunks : u \in Covers(c, mem[c].bytes)}
              of == {t \in Blocks : u \in Extent(t)}
  <2>1. Cardinality({}) = 0
    BY FS_EmptySet
  <2>2. CASE u \in Loose(F, Bytes)
    <3>1. PICK c \in F : u \in Covers(c, mem[c].bytes)
      BY <1>8, <2>2
    <3>2. \A d \in F : u \in Covers(d, mem[d].bytes) => d = c
      <4>. SUFFICES ASSUME NEW d \in F, u \in Covers(d, mem[d].bytes) PROVE d = c
        OBVIOUS
      <4>1. u \in Int /\ c <= u /\ u < c + mem[c].bytes /\ d <= u /\ u < d + mem[d].bytes
        BY <1>6, <3>1
      <4>2. c \in Nat /\ d \in Nat /\ mem[c].bytes \in Nat /\ mem[d].bytes \in Nat
            /\ (c < d => c + mem[c].bytes < d) /\ (d < c => d + mem[d].bytes < c)
        BY <1>4, <3>1
      <4>. QED
        BY <4>1, <4>2
    <3>3. in = {c}
      BY <1>5, <3>1, <3>2
    <3>4. of = {}
      BY <1>3, <2>2 DEF Apart, Blocks, Extent
    <3>. HIDE DEF in, of
    <3>5. Cardinality({c}) = 1
      BY FS_Singleton
    <3>6. Cardinality(in) + Cardinality(of) = 1
      BY <2>1, <3>3, <3>4, <3>5
    <3>. QED
      BY <3>6 DEF in, of
  <2>3. CASE u \notin Loose(F, Bytes)
    <3>1. in = {}
      BY <1>5, <1>7, <2>3
    <3>2. PICK t \in Task : p[t] \in Piece /\ u \in Covers(p[t].addr, p[t].size)
      BY <1>3, <2>3 DEF Apart
    <3>3. \A s \in Task : p[s] \in Piece /\ u \in Covers(p[s].addr, p[s].size) => s = t
      BY <1>3, <3>2 DEF Apart
    <3>4. of = {t}
      BY <3>2, <3>3 DEF Blocks, Extent
    <3>. HIDE DEF in, of
    <3>5. Cardinality({t}) = 1
      BY FS_Singleton
    <3>6. Cardinality(in) + Cardinality(of) = 1
      BY <2>1, <3>1, <3>4, <3>5
    <3>. QED
      BY <3>6 DEF in, of
  <2>. QED
    BY <2>2, <2>3
<1>11. free = Cardinality(UNION {Covers(c, mem[c].bytes) : c \in Chunks})
  <2>1. UNION {Covers(c, mem[c].bytes) : c \in F} = Loose(F, Bytes)
    BY <1>7, <1>8
  <2>. QED
    BY <1>3, <1>5, <2>1
<1>12. \A t \in Blocks : pos[t] = "free" => \A u \in Extent(t) : mem[u].mark = t
  BY DEF HeapInv, Marked, Blocks
<1>. QED
  BY <1>9, <1>10, <1>11, <1>12

(* The allocator of mem.c keeps the region whole whatever interrupts its
   callers: outside Forbid the free list is in address order with no two
   adjacent chunks, every unit is in one chunk or one block, mh_Free is the
   sum, and a block holds what its owner wrote. *)
THEOREM HeapStaysWhole == Spec => []HeapWhole
<1>1. IInv /\ HeapInv => HeapWhole
  BY WholeOutside
<1>. QED
  BY <1>1, HeapInductive, PTL

(* Who has a block, as the pool sees it. *)
LEMMA HoldsIs ==
    ASSUME Pointers, NEW t \in Task
    PROVE  Pool!Holds(t) <=> p[t] \in Piece
<1>1. p[t] \in Piece \cup {None, Null}
  BY DEF Pointers
<1>. QED
  BY <1>1, PieceFacts DEF Pool!Holds

(* Two blocks that share no unit lie one above the other. *)
LEMMA ApartIs ==
    ASSUME NEW a \in Int, NEW n \in Nat, n > 0, NEW b \in Int, NEW m \in Nat, m > 0
    PROVE  Pool!Apart(a, n, b, m) <=> Covers(a, n) \cap Covers(b, m) = {}
<1>1. \A u : (u \in Covers(a, n) <=> u \in Int /\ a <= u /\ u < a + n)
             /\ (u \in Covers(b, m) <=> u \in Int /\ b <= u /\ u < b + m)
  BY CoversFacts
<1>2. ASSUME Pool!Apart(a, n, b, m) PROVE Covers(a, n) \cap Covers(b, m) = {}
  BY <1>1, <1>2 DEF Pool!Apart
<1>3. ASSUME ~Pool!Apart(a, n, b, m) PROVE \E u : u \in Covers(a, n) \cap Covers(b, m)
  <2>1. ~(a + n <= b) /\ ~(b + m <= a)
    BY <1>3 DEF Pool!Apart
  <2>2. PICK u : u = IF a <= b THEN b ELSE a
    OBVIOUS
  <2>3. u \in Int /\ a <= u /\ u < a + n /\ b <= u /\ u < b + m
    BY <2>1, <2>2
  <2>. QED
    BY <1>1, <2>3
<1>. QED
  BY <1>2, <1>3

(* AllocMem counts off what no other task has. *)
LEMMA AccountMoves == ASSUME IInv, HeapInv, NEW t \in Task, Account(t) PROVE Pool!Take(t)
<1>1. PICK F \in SUBSET Unit : Whole(F)
  BY DEF HeapInv
<1>2. /\ InHeap(t) /\ Steps(t, "account", "out") /\ p' = [p EXCEPT ![t] = Cut(t)]
  BY DEF Account, Cut
<1>3. /\ at[t] = "account" /\ pos[t] = "alloc"
      /\ \A s \in Task : s # t => at[s] \notin HeapStage /\ Given[s] = p[s]
      /\ Given[t] = Cut(t)
  BY <1>2, AloneInside DEF Belongs
<1>4. Cut(t) \in Piece /\ Cut(t).size \in Sizes
  BY <1>1, <1>3, WholeAlone DEF Halfway
<1>5. PICK a, n : Cut(t) = [addr |-> a, size |-> n] /\ a = Cut(t).addr /\ n = Cut(t).size
  BY DEF Cut
<1>6. /\ a \in Unit /\ a \in Nat /\ n \in Nat /\ n > 0 /\ n \in Sizes
      /\ \A u : u \in Covers(a, n) <=> u \in Int /\ a <= u /\ u < a + n
  <2>1. a \in Unit /\ a \in Nat /\ n \in Nat /\ n \in 1 .. Heap
    BY <1>4, <1>5, PieceFacts
  <2>2. \A u : u \in Covers(a, n) <=> u \in Int /\ a <= u /\ u < a + n
    BY <1>4, <1>5, PieceFacts
  <2>. QED
    BY <1>4, <1>5, <2>1, <2>2
<1>7. Covers(a, n) \subseteq Unit
  BY <1>1, <1>3, <1>4, <1>5 DEF Whole, Apart
<1>8. a + n <= Heap
  <2>1. a + n - 1 \in Covers(a, n)
    BY <1>6
  <2>. QED
    BY <1>6, <1>7, <2>1, UnitFacts DEF Nil
<1>9. p[t] = None /\ ~Pool!Holds(t)
  BY <1>3, PointerAt DEF HeapInv, Pool!Holds
<1>10. ASSUME NEW s \in Task, Pool!Holds(s) PROVE Pool!Apart(a, n, p[s].addr, p[s].size)
  <2>1. s # t /\ p[s] \in Piece
    BY <1>9, <1>10, HoldsIs DEF HeapInv
  <2>2. Covers(p[s].addr, p[s].size) \cap Covers(a, n) = {}
    BY <1>1, <1>3, <1>4, <1>5, <2>1, TwoApart
  <2>3. p[s].addr \in Int /\ p[s].size \in Nat /\ p[s].size > 0
    <3>1. p[s].addr \in Nat /\ p[s].size \in 1 .. Heap
      BY <2>1, PieceFacts
    <3>. QED
      BY <3>1
  <2>4. a \in Int /\ Covers(a, n) \cap Covers(p[s].addr, p[s].size) = {}
    BY <1>6, <2>2
  <2>. QED
    BY <1>6, <2>3, <2>4, ApartIs
<1>11. Pool!Room(a, n)
  BY <1>8, <1>10 DEF Pool!Room
<1>12. a \in 0 .. Heap - 1 /\ p' = [p EXCEPT ![t] = [addr |-> a, size |-> n]]
  BY <1>2, <1>5, <1>6 DEF Unit
<1>. QED
  BY <1>6, <1>9, <1>11, <1>12 DEF Pool!Take

(* And answers NULL only when there is no room. *)
LEMMA SearchMoves == ASSUME IInv, HeapInv, NEW t \in Task, Search(t) PROVE Pool!Refuse(t) \/ p' = p
<1>1. PICK F \in SUBSET Unit : Whole(F)
  BY DEF HeapInv
<1>2. InHeap(t) /\ UNCHANGED <<mem, free>> /\ pos[t] = "alloc"
  BY DEF Search
<1>3. PICK size \in Sizes :
         LET fits == {n \in 0 .. Heap : /\ Chain[n + 1] # Nil
                                        /\ mem[Chain[n + 1]].bytes >= size}
             c == Chain[Place(fits) + 1]
         IN IF free < size \/ fits = {}
            THEN /\ Steps(t, "in", "out") /\ UNCHANGED loc
                 /\ p' = [p EXCEPT ![t] = Null]
            ELSE /\ Steps(t, "in", "carve") /\ UNCHANGED p
                 /\ loc' = [loc EXCEPT ![t] = [node |-> c, link |-> Chain[Place(fits)],
                                               end |-> c + size]]
  BY DEF Search
<1>4. PICK fits : fits = {n \in 0 .. Heap : Chain[n + 1] # Nil /\ mem[Chain[n + 1]].bytes >= size}
  OBVIOUS
<1>5. \/ (free < size \/ fits = {}) /\ p' = [p EXCEPT ![t] = Null]
      \/ p' = p
  BY <1>3, <1>4
<1>6. PICK to \in {"out", "carve"} : Steps(t, "in", to)
  BY <1>3
<1>7. /\ at[t] = "in"
      /\ \A s \in Task : s # t => at[s] \notin HeapStage /\ Given[s] = p[s]
      /\ Given[t] = p[t]
  BY <1>2, <1>6, AloneInside
<1>8. LinksBut(F, Nil) /\ free = Cardinality(Loose(F, Bytes)) /\ Apart(Loose(F, Bytes), Given)
  BY <1>1, <1>7, WholeAlone DEF Whole
<1>9. p[t] = None /\ ~Pool!Holds(t)
  BY <1>2, <1>7, PointerAt DEF HeapInv, Pool!Holds
<1>10. /\ F \subseteq Unit
       /\ \A c \in F : c \in Nat /\ mem[c].bytes \in Nat /\ Bytes[c] = mem[c].bytes
       /\ \A c, d \in F : c < d => c + mem[c].bytes < d
  <2>1. /\ F \subseteq Unit
        /\ \A c \in F : c \in Unit /\ mem[c].bytes \in Nat \ {0} /\ Bytes[c] = mem[c].bytes
        /\ \A c, d \in F : c < d => c + mem[c].bytes < d
    BY <1>1, WholeParts
  <2>. QED
    BY <2>1, UnitFacts
<1>11. size \in Nat /\ size > 0
  OBVIOUS
<1>12. ASSUME NEW a \in 0 .. Heap - 1, Pool!Room(a, size), free < size \/ fits = {} PROVE FALSE
  <2>1. a \in Nat /\ a + size <= Heap
    BY <1>12 DEF Pool!Room
  <2>2. /\ \A u : u \in Covers(a, size) <=> u \in Int /\ a <= u /\ u < a + size
        /\ Cardinality(Covers(a, size)) = size
    BY <1>11, <2>1, CoversFacts
  <2>3. Covers(a, size) \subseteq Unit
    BY <1>11, <2>1, <2>2 DEF Unit
  <2>4. ASSUME NEW s \in Task, Given[s] \in Piece
        PROVE  Covers(a, size) \cap Covers(Given[s].addr, Given[s].size) = {}
    <3>1. Given[s] = p[s]
      BY <1>7
    <3>2. Pool!Holds(s)
      BY <2>4, <3>1, HoldsIs DEF HeapInv
    <3>3. Pool!Apart(a, size, p[s].addr, p[s].size)
      BY <1>12, <3>2 DEF Pool!Room
    <3>4. p[s].addr \in Int /\ p[s].size \in Nat /\ p[s].size > 0
      <4>1. p[s].addr \in Nat /\ p[s].size \in 1 .. Heap
        BY <2>4, <3>1, PieceFacts
      <4>. QED
        BY <4>1
    <3>5. a \in Int
      BY <2>1
    <3>6. Covers(a, size) \cap Covers(p[s].addr, p[s].size) = {}
      BY <1>11, <3>3, <3>4, <3>5, ApartIs
    <3>. QED
      BY <3>1, <3>6
  <2>5. Covers(a, size) \subseteq Loose(F, Bytes)
    <3>. SUFFICES ASSUME NEW u \in Covers(a, size), u \notin Loose(F, Bytes) PROVE FALSE
      OBVIOUS
    <3>1. PICK s \in Task : Given[s] \in Piece /\ u \in Covers(Given[s].addr, Given[s].size)
      BY <1>8, <2>3 DEF Apart
    <3>. QED
      BY <2>4, <3>1
  <2>6. ~(free < size)
    <3>1. Cardinality(Covers(a, size)) <= Cardinality(Loose(F, Bytes))
      <4>1. IsFiniteSet(Loose(F, Bytes))
        BY LooseFacts
      <4>. QED
        BY <2>5, <4>1, FS_Subset
    <3>2. Cardinality(Loose(F, Bytes)) \in Nat
      BY LooseFacts
    <3>. QED
      BY <1>8, <1>11, <2>2, <3>1, <3>2
  <2>7. \A c \in F : ~(mem[c].bytes >= size)
    <3>1. fits = {}
      BY <1>12, <2>6
    <3>2. F \subseteq Unit /\ LinksBut(F, Nil)
      BY <1>8, <1>10
    <3>. QED
      BY <1>4, <3>1, <3>2, FitsAt
  <2>8. PICK c \in F : c <= a /\ a < c + mem[c].bytes
    <3>1. a \in Loose(F, Bytes)
      BY <1>11, <2>1, <2>2, <2>5
    <3>2. \E c \in F : c <= a /\ a < c + Bytes[c]
      BY <3>1 DEF Loose
    <3>. QED
      BY <1>10, <3>2
  <2>9. PICK u : u = c + mem[c].bytes
    OBVIOUS
  <2>10. c \in Nat /\ mem[c].bytes \in Nat /\ mem[c].bytes < size
    BY <1>10, <1>11, <2>7
  <2>11. u \in Int /\ a <= u /\ u < a + size
    BY <1>11, <2>1, <2>8, <2>9, <2>10
  <2>12. PICK d \in F : d <= u /\ u < d + mem[d].bytes
    <3>1. u \in Loose(F, Bytes)
      BY <2>2, <2>5, <2>11
    <3>2. \E d \in F : d <= u /\ u < d + Bytes[d]
      BY <3>1 DEF Loose
    <3>. QED
      BY <1>10, <3>2
  <2>13. d \in Nat /\ mem[d].bytes \in Nat
         /\ (c < d => c + mem[c].bytes < d) /\ (d < c => d + mem[d].bytes < c)
    BY <1>10
  <2>. QED
    BY <2>9, <2>10, <2>12, <2>13
<1>13. CASE (free < size \/ fits = {}) /\ p' = [p EXCEPT ![t] = Null]
  BY <1>9, <1>12, <1>13 DEF Pool!Refuse
<1>. QED
  BY <1>5, <1>13

(* Every step is one of the pool's, or none. *)
LEMMA HeapMoves == ASSUME IInv, HeapInv, [Next]_vars PROVE [Pool!Next]_p
<1>1. ASSUME NEW t \in Task, Memory(t) PROVE Pool!Take(t) \/ Pool!Refuse(t) \/ Pool!Give(t) \/ p' = p
  <2>1. CASE Search(t)
    BY <2>1, SearchMoves
  <2>2. CASE Account(t)
    BY <2>2, AccountMoves
  <2>3. CASE Carve(t) \/ Rest(t) \/ Use(t)
    BY <2>3 DEF Carve, Rest, Use
  <2>4. CASE Insert(t)
    BY <2>4 DEF Insert, Pool!Give
  <2>5. CASE Close(t) \/ Pause(t)
    BY <2>5 DEF Close, Pause, Pool!Give
  <2>. QED
    BY <1>1, <2>1, <2>2, <2>3, <2>4, <2>5 DEF Memory
<1>2. ASSUME NEW t \in Task, Calls(t) PROVE p' = p
  BY <1>2 DEF Calls, ForbidLoad, ForbidStore, Permit, heap
<1>3. ASSUME NEW t \in Task, Signalling(t) PROVE p' = p
  BY <1>3 DEF Signalling, Test, Block, Take, Post, Wake, heap
<1>4. ASSUME NEW t \in Task, Messages(t) PROVE p' = p
  BY <1>4 DEF Messages, AddTail, RemHead, Look, heap
<1>5. ASSUME NEW t \in Task, Requests(t) PROVE p' = p
  BY <1>5 DEF Requests, Fill, Serve, Check, heap
<1>6. CASE Tick \/ Shutdown \/ UNCHANGED vars
  BY <1>6 DEF Tick, Shutdown, vars, heap
<1>7. CASE \E t \in Task : Step(t)
  BY <1>1, <1>2, <1>3, <1>4, <1>5, <1>7 DEF Step, Pool!Next
<1>. QED
  BY <1>6, <1>7 DEF Next

(* AllocMem and FreeMem are those of one pool, whatever the alarm interrupts
   and however many tasks call them: no unit is given to two tasks at a time,
   and NULL comes only when no run of free units is as long as the request
   (mem.c). *)
THEOREM HeapIsPool == Spec => HeapSpec
<1>1. Init => Pool!Init
  BY DEF Init, Pool!Init
<1>2. IInv /\ HeapInv /\ [Next]_vars => [Pool!Next]_p
  BY HeapMoves
<1>. QED
  BY <1>1, <1>2, HeapInductive, PTL DEF Spec, HeapSpec, Pool!Spec
=============================================================================
