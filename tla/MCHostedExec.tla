---------------------------- MODULE MCHostedExec ----------------------------
(***************************************************************************)
(* The prototypes with three tasks each: the priorities of exec.c, the     *)
(* ping-pong of signal.c, the device of device.c (msgport.c's server), and *)
(* kern.c's workers on a heap small enough to run out.                     *)
(***************************************************************************)
EXTENDS HostedExec, TLC
CONSTANTS ta, tb, tc

Of(a, b, c, low) == [role  |-> (ta :> a) @@ (tb :> b) @@ (tc :> c),
                     pri   |-> (ta :> 1) @@ (tb :> 1) @@ (tc :> low),
                     queue |-> <<ta, tb, tc>>]
Prototypes == {Of("busy", "busy", "busy", 0),
               Of("producer", "consumer", "busy", 1),
               Of("device", "client", "busy", 1),
               Of("worker", "worker", "worker", 1)}
=============================================================================
