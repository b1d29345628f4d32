---------------------------- MODULE MCJitEngine ----------------------------
EXTENDS JitEngine, TLC

CONSTANTS la, lb, lc, lr   \* four blocks; lr holds the permanent rts

MCPc  == {la, lb, lc, lr}
MCReg == {"d"}
MCVal == {0, 1}
Files == [MCReg -> MCVal]
Flip(q) == [f \in Files |-> [f EXCEPT ![q] = 1 - @]]
Same == [f \in Files |-> f]

BlkSet(calc, flags, fp, kind, to, after, cc) ==
    [calc |-> calc, flags |-> flags, fp |-> fp,
     term |-> [kind |-> kind, to |-> to, after |-> after, cc |-> cc]]
Blk(calc, fp, kind, to, after, cc) == BlkSet(calc, {}, fp, kind, to, after, cc)
Rts0 == Blk(Same, FALSE, "rts", lr, lr, 2)

(* A loop of two blocks with a condition, left by a library call. *)
Loop(cc, flags) == la :> BlkSet(Flip("d"), flags, FALSE, "bcc", lb, lc, cc)
            @@ lb :> Blk(Same, FALSE, "jmp", la, la, 2)
            @@ lc :> Blk(Same, FALSE, "lib", la, lr, 2) @@ lr :> Rts0
(* A subroutine that returns as the handler does, to nowhere; an integer block
   that goes on with the floating point one of the handler. *)
Calls == la :> Blk(Flip("d"), FALSE, "jsr", lc, Wild, 2)
         @@ lb :> Blk(Same, FALSE, "jmp", lc, lc, 2)
         @@ lc :> Blk(Same, TRUE, "rte", la, la, 2) @@ lr :> Rts0
(* A trap, and an instruction the dispatcher executes. *)
Traps == la :> Blk(Flip("d"), FALSE, "own", lb, lb, 2)
         @@ lb :> Blk(Same, FALSE, "trap", la, la, 2)
         @@ lc :> Blk(Same, FALSE, "rte", la, la, 2) @@ lr :> Rts0

MCPrograms == {Loop(14, {{}, {"Z"}}), Calls, Traps}
=============================================================================
