------------------------------ MODULE HeapPool ------------------------------
(***************************************************************************)
(* What AllocMem and FreeMem promise the tasks that share a region: blocks *)
(* that do not overlap, and NULL only for want of room.                    *)
(***************************************************************************)
EXTENDS Integers
CONSTANTS Task, None, Null, Heap, Sizes
VARIABLE held    (* what each task's pointer is: a block, Null or None     *)

Holds(t) == held[t] \notin {None, Null}
Apart(a, n, b, m) == a + n <= b \/ b + m <= a
Room(a, n) == a + n <= Heap /\ \A t \in Task :
                 Holds(t) => Apart(a, n, held[t].addr, held[t].size)

Take(t) == \E a \in 0 .. Heap - 1, n \in Sizes :
              /\ ~Holds(t) /\ Room(a, n)
              /\ held' = [held EXCEPT ![t] = [addr |-> a, size |-> n]]
Refuse(t) == \E n \in Sizes :
              /\ ~Holds(t) /\ \A a \in 0 .. Heap - 1 : ~Room(a, n)
              /\ held' = [held EXCEPT ![t] = Null]
Give(t) == held' = [held EXCEPT ![t] = None]

Init == held = [t \in Task |-> None]
Next == \E t \in Task : Take(t) \/ Refuse(t) \/ Give(t)
Spec == Init /\ [][Next]_held
=============================================================================
