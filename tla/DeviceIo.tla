------------------------------ MODULE DeviceIo ------------------------------
(***************************************************************************)
(* What DoIO promises: a request is performed on the file once, between    *)
(* the call and its return.                                                *)
(***************************************************************************)
CONSTANTS Client, Val, Zero
VARIABLES req, file
vars == <<req, file>>

Io == [cmd : {"read", "write"}, val : Val, err : {FALSE}]

Ask(c) == /\ req[c].phase = "idle"
          /\ \E i \in Io : req' = [req EXCEPT ![c] = [phase |-> "asked", io |-> i]]
          /\ UNCHANGED file
(* A transfer that falls short leaves anything, and is an error. *)
Perform(c) ==
    /\ req[c].phase = "asked"
    /\ \E v \in Val, err \in BOOLEAN :
         /\ req' = [req EXCEPT ![c] = [phase |-> "done",
                                       io |-> [cmd |-> @.io.cmd, val |-> v, err |-> err]]]
         /\ IF req[c].io.cmd = "read"
            THEN UNCHANGED file /\ (~err => v = file)
            ELSE v = req[c].io.val /\ file' \in Val /\ (~err => file' = v)
Return(c) == /\ req[c].phase = "done"
             /\ req' = [req EXCEPT ![c].phase = "idle"] /\ UNCHANGED file

Init == /\ req = [c \in Client |->
                    [phase |-> "idle", io |-> [cmd |-> "none", val |-> Zero, err |-> FALSE]]]
        /\ file = Zero
Next == \E c \in Client : Ask(c) \/ Perform(c) \/ Return(c)
Spec == Init /\ [][Next]_vars
=============================================================================
