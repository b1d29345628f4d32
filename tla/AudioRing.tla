----------------------------- MODULE AudioRing -----------------------------
(***************************************************************************)
(* The single-producer single-consumer frame ring of the CoreAudio shim    *)
(* (src/hosted/coreaudio/coreaudio_shim.c).  The producer is the AROS side *)
(* calling ca_ring_space and ca_ring_push; the consumer is the render      *)
(* callback ca_render_cb, which runs on a real-time host thread.  The two  *)
(* share `slots' and the free-running counters `head' and `tail' and       *)
(* nothing else.  Every load and store of a counter, and every frame       *)
(* copied, is a step of its own, so the two sides interleave frame by      *)
(* frame.                                                                  *)
(***************************************************************************)
EXTENDS Integers, Sequences, FiniteSets

CONSTANTS
  Cap,      (* c->cap: slots of the ring, one of which is never used        *)
  Laps,     (* the counters wrap after Laps * Cap frames (2^32 in the code) *)
  Frame,    (* the stereo frames a caller can push                          *)
  Silence,  (* the zero frame the callback writes when the ring is short    *)
  MaxPush,  (* longest push modelled                                        *)
  MaxWant   (* longest block the callback is asked for                      *)

ASSUME CapAssumption  == Cap \in Nat /\ Cap >= 2
ASSUME LapsAssumption == Laps \in Nat /\ Laps >= 1
ASSUME SizeAssumption == MaxPush \in Nat \ {0} /\ MaxWant \in Nat \ {0}
ASSUME FrameAssumption == Silence \notin Frame

VARIABLES
  slots,    (* c->slots                                                    *)
  head,     (* c->head, written by the consumer only                       *)
  tail,     (* c->tail, written by the producer only                       *)
  ppc,      (* where the producer is in ca_ring_push                       *)
  src,      (* the frames the caller of ca_ring_push passed                *)
  accepted, (* n: how many of them this push takes                         *)
  copied,   (* i: how many of them are in their slots                      *)
  promise,  (* the last ca_ring_space answer not used up by a push, or -1  *)
  cpc,      (* where the consumer is in ca_render_cb                       *)
  want,     (* inNumberFrames                                              *)
  take,     (* frames this block takes from the ring                       *)
  out       (* the output buffer, as far as it is filled                   *)

shared   == <<slots, head, tail>>
producer == <<ppc, src, accepted, copied, promise>>
consumer == <<cpc, want, take, out>>
vars     == <<shared, producer, consumer>>

-----------------------------------------------------------------------------
(* Counter arithmetic: uint32_t addition and subtraction, reduced without  *)
(* a division because the operands never differ by more than one lap set.  *)

Modulus == Laps * Cap
Counter == 0 .. Modulus - 1

Advance(c, n) == IF c + n >= Modulus THEN c + n - Modulus ELSE c + n
Distance(from, to) == IF to >= from THEN to - from ELSE to - from + Modulus

SlotOf(c) == c % Cap            (* idx = counter & c->mask                  *)
Usable    == Cap - 1            (* ca_ring_capacity: one slot is reserved   *)

(* Mutant: signed subtraction, which a counter that wrapped breaks.        *)
UsedSigned == tail - head
Used == Distance(head, tail)
Space == Usable - Used          (* free_frames                              *)

Least(a, b) == IF a <= b THEN a ELSE b
PushSources == UNION {[1 .. n -> Frame] : n \in 1 .. MaxPush}

-----------------------------------------------------------------------------
Init ==
  /\ slots \in [0 .. Cap - 1 -> {Silence}]
  /\ head = 0
  /\ tail = 0
  /\ ppc = "idle" /\ src = <<>> /\ accepted = 0 /\ copied = 0 /\ promise = -1
  /\ cpc = "idle" /\ want = 0 /\ take = 0 /\ out = <<>>

(* Mutant: forgets the reserved slot.                                      *)
QuerySpaceWhole ==
  /\ ppc = "idle"
  /\ promise' = Cap - Used
  /\ UNCHANGED <<shared, ppc, src, accepted, copied, consumer>>

(* ca_ring_space: the answer is a promise the caller may rely on later.    *)
QuerySpace ==
  /\ ppc = "idle"
  /\ promise' = Space
  /\ UNCHANGED <<shared, ppc, src, accepted, copied, consumer>>

(* ca_ring_push up to the loop: load head, clamp the request to the room.  *)
PushBegin(s) ==
  /\ ppc = "idle"
  /\ ppc' = "copy"
  /\ src' = s
  /\ accepted' = Least(Len(s), Space)
  /\ copied' = 0
  /\ UNCHANGED <<shared, promise, consumer>>

(* One turn of the copy loop.                                              *)
PushFrame ==
  /\ ppc = "copy"
  /\ copied < accepted
  /\ slots' = [slots EXCEPT ![SlotOf(Advance(tail, copied))] = src[copied + 1]]
  /\ copied' = copied + 1
  /\ UNCHANGED <<head, tail, ppc, src, accepted, promise, consumer>>

(* Mutant: stores tail before the frames are in place.                     *)
PushPublishEarly ==
  /\ ppc = "copy"
  /\ tail' = Advance(tail, accepted)
  /\ ppc' = "idle"
  /\ promise' = -1
  /\ src' = <<>> /\ accepted' = 0 /\ copied' = 0
  /\ UNCHANGED <<slots, head, consumer>>

(* The release store of tail, after the loop.                              *)
PushPublish ==
  /\ ppc = "copy"
  /\ copied = accepted
  /\ tail' = Advance(tail, accepted)
  /\ ppc' = "idle"
  /\ promise' = -1
  /\ src' = <<>> /\ accepted' = 0 /\ copied' = 0
  /\ UNCHANGED <<slots, head, consumer>>

(* Mutant: takes what it is asked for, without looking at what there is.   *)
TakeBlind(w) == w
Take(w) == Least(Used, w)

(* ca_render_cb up to the loop: load both counters, decide what to take.   *)
RenderBegin(w) ==
  /\ cpc = "idle"
  /\ cpc' = "drain"
  /\ want' = w
  /\ take' = Take(w)
  /\ out' = <<>>
  /\ UNCHANGED <<shared, producer>>

(* One turn of the drain loop.                                             *)
RenderFrame ==
  /\ cpc = "drain"
  /\ Len(out) < take
  /\ out' = Append(out, slots[SlotOf(Advance(head, Len(out)))])
  /\ UNCHANGED <<shared, producer, cpc, want, take>>

(* Mutant: a callback that does not store head.                            *)
RenderPublishNot ==
  /\ cpc = "drain"
  /\ Len(out) = take
  /\ out' = out \o [i \in 1 .. want - take |-> Silence]
  /\ cpc' = "idle"
  /\ want' = 0 /\ take' = 0
  /\ UNCHANGED <<slots, head, tail, producer>>

(* Silence for the missing frames, then the release store of head.         *)
RenderPublish ==
  /\ cpc = "drain"
  /\ Len(out) = take
  /\ out' = out \o [i \in 1 .. want - take |-> Silence]
  /\ head' = Advance(head, take)
  /\ cpc' = "idle"
  /\ want' = 0 /\ take' = 0
  /\ UNCHANGED <<slots, tail, producer>>

Producer ==
  \/ QuerySpace
  \/ \E s \in PushSources : PushBegin(s)
  \/ PushFrame
  \/ PushPublish

Consumer ==
  \/ \E w \in 1 .. MaxWant : RenderBegin(w)
  \/ RenderFrame
  \/ RenderPublish

Next == Producer \/ Consumer

Spec == Init /\ [][Next]_vars

(* The callback runs to its end once it started, and so does a push: both  *)
(* are straight-line code on threads nothing suspends for ever.            *)
FairSpec ==
  /\ Spec
  /\ WF_vars(PushFrame) /\ WF_vars(PushPublish)
  /\ WF_vars(Consumer)

-----------------------------------------------------------------------------
(* The counters stay in their width, and each side's loop in its bounds.   *)
TypeOK ==
  /\ slots \in [0 .. Cap - 1 -> Frame \union {Silence}]
  /\ head \in Counter
  /\ tail \in Counter
  /\ ppc \in {"idle", "copy"}
  /\ src \in Seq(Frame)
  /\ accepted \in 0 .. Len(src)
  /\ copied \in 0 .. accepted
  /\ promise \in -1 .. Usable
  /\ cpc \in {"idle", "drain"}
  /\ want \in Nat
  /\ take \in 0 .. want
  /\ out \in Seq(Frame \union {Silence})

(* The slots a running callback has still to read.                         *)
Unread == {SlotOf(Advance(head, i)) : i \in Len(out) .. take - 1}

(* The slots a running push has still to write or has written unpublished. *)
Unpublished == {SlotOf(Advance(tail, i)) : i \in 0 .. accepted - 1}

(* No tearing: while a push is copying and a callback is draining, no slot *)
(* is in reach of both, whatever the lag between the counters the two      *)
(* sides loaded (the plain loads and stores of c->slots never race).       *)
NoSlotShared ==
  (ppc = "copy" /\ cpc = "drain") => Unread \intersect Unpublished = {}

(* ca_ring_space is a promise: a push of no more than it answered is       *)
(* accepted whole, however the callback ran in between.                    *)
SpaceIsAPromise ==
  (ppc = "copy" /\ Len(src) <= promise) => accepted = Len(src)

(* The strengthening both follow from: the ring is never fuller than       *)
(* ca_ring_capacity, a push fits beside what is unconsumed, a block takes  *)
(* no more than there is, and a promise never exceeds the room.            *)
RingInv ==
  /\ TypeOK
  /\ Used <= Usable
  /\ ppc = "copy" => Used + accepted <= Usable
  /\ ppc = "idle" => accepted = 0 /\ promise <= Space
  /\ cpc = "drain" => take <= Used /\ Len(out) <= take
  /\ SpaceIsAPromise

(* A ring found full does not stay full: the callback makes room.          *)
FullRingDrains == (Space = 0) ~> (Space > 0)

(* The frames between the counters, oldest first.                          *)
Contents == [i \in 1 .. Used |-> slots[SlotOf(Advance(head, i - 1))]]

(* The ring implements a first-in first-out queue of Cap - 1 frames: the   *)
(* frames a push accepted come out once each, in order and untorn, and     *)
(* silence only follows the last frame the queue had.                      *)
Fifo == INSTANCE AudioFifo WITH
          Limit    <- Usable,
          MaxBlock <- MaxWant,
          queue    <- Contents,
          pushing  <- src,
          granted  <- accepted,
          asked    <- want,
          supply   <- take,
          block    <- IF cpc = "idle" THEN out ELSE <<>>

FifoSpec == Fifo!Spec
=============================================================================
