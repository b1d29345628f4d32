------------------------------ MODULE PortFifo ------------------------------
(***************************************************************************)
(* What Exec's message ports promise the programs that share them: every   *)
(* port has a first-in first-out queue of messages, a message passes from  *)
(* the context that puts it into one queue, and from there to the context  *)
(* that gets it.                                                           *)
(***************************************************************************)
EXTENDS Sequences

CONSTANTS Task, Port, Message, Nobody

VARIABLES
    queue,      \* [Port -> Seq(Message)]
    held        \* [Message -> Task \cup {Nobody}]

fifo == <<queue, held>>

Init == queue = [p \in Port |-> <<>>] /\ held \in [Message -> Task]

Put(p, m) ==
    /\ held[m] # Nobody
    /\ queue' = [queue EXCEPT ![p] = Append(@, m)]
    /\ held' = [held EXCEPT ![m] = Nobody]

Take(p, t) ==
    /\ queue[p] # <<>>
    /\ queue' = [queue EXCEPT ![p] = Tail(@)]
    /\ held' = [held EXCEPT ![Head(queue[p])] = t]

(* AddPort makes a new, empty list of the port's old one. *)
Renew(p) ==
    /\ queue' = [queue EXCEPT ![p] = <<>>]
    /\ UNCHANGED held

Next == \E p \in Port : \/ Renew(p)
                        \/ \E m \in Message : Put(p, m)
                        \/ \E t \in Task : Take(p, t)

Spec == Init /\ [][Next]_fifo
=============================================================================
