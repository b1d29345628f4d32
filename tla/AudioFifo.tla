----------------------------- MODULE AudioFifo -----------------------------
(***************************************************************************)
(* What the CoreAudio ring promises its two sides: a bounded first-in      *)
(* first-out queue of frames.  A push is granted the room there is when it *)
(* is called and moves that many frames into the queue in one step; a      *)
(* block is granted the frames there are when it is asked for, takes them  *)
(* in one step and is padded with silence.                                 *)
(***************************************************************************)
EXTENDS Integers, Sequences

CONSTANTS
  Limit,    (* the most frames the queue holds                             *)
  Frame,
  Silence,
  MaxBlock  (* the longest block rendered                                  *)

VARIABLES
  queue,    (* frames published and not yet consumed, oldest first         *)
  pushing,  (* the frames of the push in progress                          *)
  granted,  (* how many of them it will publish                            *)
  asked,    (* length of the block in progress, 0 between blocks           *)
  supply,   (* how many frames it will take from the queue                 *)
  block     (* the last finished block, <<>> while one is in progress      *)

fifoVars == <<queue, pushing, granted, asked, supply, block>>

Shorter(a, b) == IF a <= b THEN a ELSE b

Init ==
  /\ queue = <<>> /\ pushing = <<>> /\ granted = 0
  /\ asked = 0 /\ supply = 0 /\ block = <<>>

Call ==
  /\ pushing = <<>>
  /\ pushing' \in Seq(Frame) \ {<<>>}
  /\ granted' = Shorter(Len(pushing'), Limit - Len(queue))
  /\ UNCHANGED <<queue, asked, supply, block>>

Publish ==
  /\ pushing # <<>>
  /\ queue' = queue \o SubSeq(pushing, 1, granted)
  /\ pushing' = <<>> /\ granted' = 0
  /\ UNCHANGED <<asked, supply, block>>

Ask ==
  /\ asked = 0
  /\ asked' \in 1 .. MaxBlock
  /\ supply' = Shorter(asked', Len(queue))
  /\ block' = <<>>
  /\ UNCHANGED <<queue, pushing, granted>>

Deliver ==
  /\ asked # 0
  /\ block' = SubSeq(queue, 1, supply) \o [i \in 1 .. asked - supply |-> Silence]
  /\ queue' = SubSeq(queue, supply + 1, Len(queue))
  /\ asked' = 0 /\ supply' = 0
  /\ UNCHANGED <<pushing, granted>>

Next == Call \/ Publish \/ Ask \/ Deliver

Spec == Init /\ [][Next]_fifoVars
=============================================================================
