------------------------------ MODULE Guest68k ------------------------------
(***************************************************************************)
(* What the translator promises: a 68k program run one straight-line block *)
(* and one terminator at a time, by a machine with one register file and   *)
(* no translated code.  JitEngine implements it.  The instruction bodies   *)
(* are data: calc says what a block does to the registers.  The kinds of   *)
(* terminator are those the dispatcher of                                  *)
(* src/hosted/jit68k/j5d_engine.c tells apart.                             *)
(***************************************************************************)
EXTENDS Integers, Sequences

CONSTANTS
  Pc,        (* addresses of blocks                                        *)
  Wild,      (* any address outside the guest's memory, or odd             *)
  Reg, Val,  (* the data and address registers and their values            *)
  Programs,  (* what the code may be at the start                          *)
  Handler,   (* the program's exception handler                            *)
  Return,    (* OSCODE_RETURN, a permanent rts                             *)
  StackMax,  (* longwords that fit on the guest stack                      *)
  NestMax    (* runs active at a time                                      *)

RegFile == [Reg -> Val]
Flag    == {"N", "Z", "V", "C"}
Target  == Pc \cup {Wild}
Kind    == {"jmp", "bcc", "jsr", "rts", "trap", "rte", "own", "lib"}
Term    == [kind : Kind, to : Target, after : Target, cc : 2 .. 15]
Code    == [calc : [RegFile -> RegFile], flags : SUBSET SUBSET Flag, fp : BOOLEAN, term : Term]
Frame   == [pc : Target, kind : {"call", "exception"}, ccr : SUBSET Flag]

VARIABLES code, pc, phase, regs, ccr, stack, runs
vars == <<code, pc, phase, regs, ccr, stack, runs>>

(* bcc_taken: the condition table of the 68000 *)
BccTaken(cc, f) ==
    LET n == "N" \in f
        z == "Z" \in f
        v == "V" \in f
        c == "C" \in f
    IN \/ cc = 2  /\ ~c /\ ~z
       \/ cc = 3  /\ (c \/ z)
       \/ cc = 4  /\ ~c
       \/ cc = 5  /\ c
       \/ cc = 6  /\ ~z
       \/ cc = 7  /\ z
       \/ cc = 8  /\ ~v
       \/ cc = 9  /\ v
       \/ cc = 10 /\ ~n
       \/ cc = 11 /\ n
       \/ cc = 12 /\ (n <=> v)
       \/ cc = 13 /\ ~(n <=> v)
       \/ cc = 14 /\ ~z /\ (n <=> v)
       \/ cc = 15 /\ (z \/ ~(n <=> v))

Top(s)  == s[Len(s)]
Pop(s)  == SubSeq(s, 1, Len(s) - 1)
Base    == Top(runs).base
Running == runs # <<>>
T       == code[pc].term
At(k)   == Running /\ phase = "term" /\ pc \in Pc /\ T.kind = k

Continue(x) == pc' = x /\ phase' = "body"
Push(x, k)  == /\ Len(stack) < StackMax
               /\ stack' = Append(stack, [pc |-> x, kind |-> k, ccr |-> ccr])

Init ==
    /\ code \in Programs /\ pc = Wild /\ phase = "body" /\ regs \in RegFile
    /\ ccr = {} /\ stack = <<>> /\ runs = <<>>

Begin(e) ==
    /\ ~Running
    /\ runs' = <<[base |-> 0, back |-> Wild]>> /\ stack' = <<>>
    /\ Continue(e) /\ UNCHANGED <<code, regs, ccr>>

Test == IF code[pc].flags = {} THEN UNCHANGED ccr ELSE ccr' \in code[pc].flags

(* The straight-line part of a block. *)
Body ==
    /\ Running /\ phase = "body" /\ pc \in Pc
    /\ regs' = code[pc].calc[regs] /\ phase' = "term"
    /\ Test /\ UNCHANGED <<code, pc, stack, runs>>

(* Fetching an instruction where there is none. *)
BusError ==
    /\ Running /\ phase = "body" /\ pc = Wild
    /\ Push(Wild, "exception") /\ Continue(Handler)
    /\ UNCHANGED <<code, regs, ccr, runs>>

Jump   == At("jmp") /\ Continue(T.to) /\ UNCHANGED <<code, regs, ccr, stack, runs>>
Branch == /\ At("bcc") /\ Continue(IF BccTaken(T.cc, ccr) THEN T.to ELSE T.after)
          /\ UNCHANGED <<code, regs, ccr, stack, runs>>
Own    == /\ At("own") /\ regs' \in RegFile /\ Continue(T.to)
          /\ Test /\ UNCHANGED <<code, stack, runs>>
Call   == /\ At("jsr") /\ Push(T.after, "call") /\ Continue(T.to)
          /\ UNCHANGED <<code, regs, ccr, runs>>
Trap   == /\ At("trap") /\ Push(T.after, "exception") /\ Continue(Handler)
          /\ UNCHANGED <<code, regs, ccr, runs>>

(* A return takes its own kind of frame off the stack; the bytes of the
   other kind are no address.  An rte restores the condition codes. *)
Unstack(k) ==
    /\ stack # <<>>
    /\ Continue(IF Top(stack).kind = k THEN Top(stack).pc ELSE Wild)
    /\ stack' = Pop(stack)
Rts == At("rts") /\ Len(stack) > Base /\ Unstack("call") /\ UNCHANGED <<code, regs, ccr, runs>>
Rte == /\ At("rte") /\ Unstack("exception") /\ ccr' = Top(stack).ccr
       /\ UNCHANGED <<code, regs, runs>>

(* A library call: the library serves it and returns, runs guest code in its
   place, or replaces code. *)
Library ==
    /\ At("lib") /\ regs' \in RegFile /\ (code' = code \/ code' \in Programs)
    /\ \/ Continue(T.after) /\ UNCHANGED stack
       \/ Push(T.after, "call") /\ \E x \in Pc : Continue(x)
    /\ UNCHANGED <<ccr, runs>>

(* The library calls a guest routine and waits for it. *)
Hook(e) ==
    /\ At("lib") /\ Len(runs) < NestMax
    /\ runs' = Append(runs, [base |-> Len(stack), back |-> T.after])
    /\ Continue(e) /\ UNCHANGED <<code, regs, ccr, stack>>

(* The innermost run ends; what called it goes on. *)
Leave ==
    /\ runs' = Pop(runs) /\ phase' = "body"
    /\ pc' = IF Len(runs) = 1 THEN Wild ELSE Top(runs).back

(* An rts at the stack level a run began with ends the run ... *)
Exit == /\ At("rts") /\ Len(stack) <= Base /\ Leave
        /\ IF Len(runs) = 1 THEN UNCHANGED regs ELSE regs' \in RegFile
        /\ UNCHANGED <<code, ccr, stack>>

(* ... and so does an error or a kill, at any time. *)
Abort == /\ Running /\ Leave /\ regs' \in RegFile
         /\ stack' = SubSeq(stack, 1, IF Base < Len(stack) THEN Base ELSE Len(stack))
         /\ UNCHANGED <<code, ccr>>

Next ==
    \/ \E e \in Pc : Begin(e) \/ Hook(e)
    \/ Body \/ BusError \/ Jump \/ Branch \/ Own \/ Call \/ Trap \/ Rts \/ Rte
    \/ Library \/ Exit \/ Abort

Spec == Init /\ [][Next]_vars
=============================================================================
