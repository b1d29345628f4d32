----------------------------- MODULE MetaTable -----------------------------
(***************************************************************************)
(* What hv_meta promises the processes that share a directory: a call      *)
(* changes its own entry in one step or not at all, whatever else runs and *)
(* whoever dies, and drops no entry but of a file that it found gone.  A   *)
(* move is two such steps, the copy before the removal.                    *)
(***************************************************************************)
EXTENDS MetaOps
VARIABLES table, host, req, gone
vars == <<table, host, req, gone>>

Start(c, o) == req[c] = NoOp /\ req' = [req EXCEPT ![c] = o]
Ask(c) ==
    /\ \/ \E q \in host, v \in Value :
            /\ Start(c, [do |-> "set", from |-> q, to |-> q, val |-> v])
            /\ UNCHANGED host
       \/ \E q \in host : \E r \in Path \ {q} :
            /\ Start(c, [do |-> IF q[1] = r[1] THEN "rename" ELSE "look",
                         from |-> q, to |-> r, val |-> Default])
            /\ host' = (host \ {q}) \cup {r}
       \/ \E q \in host :
            /\ Start(c, [do |-> "delete", from |-> q, to |-> q, val |-> Default])
            /\ host' = host \ {q}
    /\ UNCHANGED <<table, gone>>

Look(c) ==
    /\ req[c].do = "look" /\ table[req[c].from[1]] # Alien
    /\ req' = [req EXCEPT ![c].do = "put",
                             ![c].val = table[req[c].from[1]][req[c].from[2]]]
    /\ UNCHANGED <<table, host, gone>>
Notice(c) ==
    /\ \E n \in Name : /\ <<DirOf(req[c]), n>> \notin host
                       /\ gone' = [gone EXCEPT ![c] = @ \cup {n}]
    /\ UNCHANGED <<table, host, req>>
Edit(c) ==
    LET d == DirOf(req[c])
    IN /\ req[c].do \notin {"none", "look"} /\ table[d] # Alien
       /\ table' = [table EXCEPT ![d] =
                      [n \in Name |-> IF n \in gone[c] THEN Default
                                      ELSE Edited(req[c], table[d])[n]]]
       /\ req' = [req EXCEPT ![c] = Then(@)] /\ gone' = [gone EXCEPT ![c] = {}]
       /\ UNCHANGED host
(* The call fails, or its process dies; or it starts again. *)
Fail(c)  == /\ req' = [req EXCEPT ![c] = NoOp] /\ gone' = [gone EXCEPT ![c] = {}]
            /\ UNCHANGED <<table, host>>
Retry(c) == gone' = [gone EXCEPT ![c] = {}] /\ UNCHANGED <<table, host, req>>

(* The power fails. *)
Loss == /\ req' = [c \in Client |-> NoOp] /\ gone' = [c \in Client |-> {}]
        /\ UNCHANGED <<table, host>>
Outside == \E h \in SUBSET Path : host' = h /\ UNCHANGED <<table, req, gone>>

Init == /\ table \in [Dir -> Table \cup {Alien}] /\ host \in SUBSET Path
        /\ req = [c \in Client |-> NoOp] /\ gone = [c \in Client |-> {}]
Next == \/ \E c \in Client : Ask(c) \/ Look(c) \/ Notice(c) \/ Edit(c) \/ Fail(c) \/ Retry(c)
        \/ Loss \/ Outside
Spec == Init /\ [][Next]_vars
=============================================================================
