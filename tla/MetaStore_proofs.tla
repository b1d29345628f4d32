-------------------------- MODULE MetaStore_proofs --------------------------
(***************************************************************************)
(* Proofs about MetaStore, for any number of processes, directories, names *)
(* and values, when every process can lock: a call of hv_meta is one edit  *)
(* of the directory's table, or none.                                      *)
(***************************************************************************)
EXTENDS MetaStore, TLAPS

-----------------------------------------------------------------------------
(* Tables and operations                                                   *)

LEMMA Plainness == NoOp \in Op /\ NoOp.do = "none" /\ Plain \in Table /\ Alien # Plain
<1>1. (CHOOSE p \in Path : TRUE) \in Path
  BY PathAssumption
<1>2. Plain \in Table
  BY ValueAssumption DEF Plain, Table
<1>. QED
  BY <1>1, <1>2, ValueAssumption, AlienAssumption DEF NoOp, Op

LEMMA Paths == ASSUME NEW o \in Op PROVE /\ o.from[1] \in Dir /\ o.from[2] \in Name
                                         /\ o.to[1] \in Dir /\ o.to[2] \in Name
                                         /\ o.val \in Value /\ DirOf(o) \in Dir
  BY PathAssumption DEF Op, DirOf

LEMMA ThenType == ASSUME NEW o \in Op PROVE Then(o) \in Op /\ Then(o).do \in {"none", "take"}
                                            /\ (Then(o).do = "none" => Then(o) = NoOp)
  BY Plainness DEF Then, Op

LEMMA EditedType == ASSUME NEW o \in Op, NEW t \in Table PROVE Edited(o, t) \in Table
<1>1. t \in [Name -> Value] /\ t[o.from[2]] \in Value
  BY Paths DEF Table
<1>. QED
  BY <1>1, Paths, ValueAssumption DEF Edited, Table

LEMMA EntriesType == ASSUME NEW d \in Dir PROVE Entries(d) \in Table
  BY Plainness DEF Entries

-----------------------------------------------------------------------------
(* The invariant                                                           *)

(* A process between reading and replacing holds the directory's lock and a
   table that is still the directory's with its change made, and without the
   names it found gone; what it will put in place is on the disk. *)
Busy   == {"load", "prune", "check", "replace"}
Copied == {"prune", "check", "replace"}
Trimmed(x) == [n \in Name |-> IF n \in gone[x] THEN Default
                              ELSE Edited(op[x], Entries(Target(x)))[n]]
Own(x) ==
    /\ pos[x] = "idle" => op[x] = NoOp
    /\ pos[x] # "idle" => op[x].do # "none"
    /\ pos[x] = "look" <=> op[x].do = "look"
    /\ pos[x] \in Busy => holder[Target(x)] = x
    /\ temp[x] # "cached"
    /\ pos[x] \in Copied => meta[Target(x)] # Alien /\ copy[x] = Trimmed(x)
    /\ pos[x] \notin Copied => gone[x] = {}
IInv == TypeOK /\ unsynced = {} /\ \A x \in Client : Own(x)

LEMMA InitIInv == ASSUME Init PROVE IInv
<1>1. TypeOK
  BY Plainness DEF Init, TypeOK, Where
<1>2. \A x \in Client : Own(x)
  BY Plainness DEF Init, Own, Busy, Copied
<1>. QED
  BY <1>1, <1>2 DEF IInv, Init

(* What a step of one process leaves alone, and another's share of the
   invariant. *)
Apart(x) ==
    /\ op'[x] = op[x] /\ pos'[x] = pos[x] /\ copy'[x] = copy[x] /\ gone'[x] = gone[x]
    /\ temp'[x] = temp[x] /\ (pos[x] \in Copied => meta'[Target(x)] = meta[Target(x)])
    /\ (holder[Target(x)] = x => holder'[Target(x)] = x)
LEMMA ApartOwn == ASSUME NEW x \in Client, Own(x), Apart(x) PROVE Own(x)'
<1>1. Target(x)' = Target(x)
  BY DEF Apart, Target
<1>2. pos[x] \in Copied => Trimmed(x)' = Trimmed(x)
  BY <1>1 DEF Apart, Trimmed, Entries
<1>. QED
  BY <1>1, <1>2 DEF Own, Apart

LEMMA Leaves ==
    ASSUME Locking = Client, IInv, NEW c \in Client, NEW o \in Op, Unlock(c, o)
    PROVE  /\ op' \in [Client -> Op] /\ pos' \in [Client -> Where]
           /\ holder' \in [Dir -> Client \cup {None}]
           /\ op'[c] = o /\ pos'[c] = (IF o.do = "take" THEN "lock" ELSE "idle")
           /\ \A x \in Client \ {c} : /\ op'[x] = op[x] /\ pos'[x] = pos[x]
                                      /\ holder[Target(x)] = x => holder'[Target(x)] = x
<1>1. \A x \in Client : Target(x) \in Dir
  BY Paths DEF IInv, TypeOK, Target
<1>. QED
  BY <1>1 DEF Unlock, Release, IInv, TypeOK, Where

LEMMA QuitIInv == ASSUME Locking = Client, IInv, NEW c \in Client, Quit(c) PROVE IInv'
<1>1. /\ op' \in [Client -> Op] /\ pos' \in [Client -> Where]
      /\ holder' \in [Dir -> Client \cup {None}]
      /\ op'[c] = NoOp /\ pos'[c] = "idle"
      /\ \A x \in Client \ {c} : /\ op'[x] = op[x] /\ pos'[x] = pos[x]
                                 /\ holder[Target(x)] = x => holder'[Target(x)] = x
  BY Plainness, Leaves DEF Quit
<1>2. TypeOK'
  BY <1>1, Plainness DEF Quit, Drop, IInv, TypeOK, files
<1>3. Own(c)'
  BY <1>1, Plainness DEF Quit, Drop, IInv, TypeOK, Own, Busy, Copied
<1>4. \A x \in Client \ {c} : Apart(x)
  BY <1>1 DEF Quit, Drop, IInv, TypeOK, Apart, files
<1>. QED
  BY <1>2, <1>3, <1>4, ApartOwn DEF IInv, Quit, files

LEMMA AskIInv == ASSUME IInv, NEW c \in Client, Call(c) PROVE IInv'
<1>1. PICK o \in Op, w \in {"lock", "look"} :
         /\ Begin(c, o, w) /\ o.do # "none" /\ (w = "look" <=> o.do = "look")
         /\ host' \subseteq Path
  <2>1. CASE Set(c)
    <3>1. PICK q \in host, v \in Value :
             Begin(c, [do |-> "set", from |-> q, to |-> q, val |-> v], "lock") /\ host' = host
      BY <2>1 DEF Set
    <3>. QED
      BY <3>1 DEF IInv, TypeOK, Op
  <2>2. CASE Delete(c)
    <3>1. PICK q \in host :
             /\ Begin(c, [do |-> "delete", from |-> q, to |-> q, val |-> Default], "lock")
             /\ host' = host \ {q}
      BY <2>2 DEF Delete
    <3>. QED
      BY <3>1, ValueAssumption DEF IInv, TypeOK, Op
  <2>3. CASE Rename(c)
    <3>1. PICK q \in host, r \in Path :
             /\ IF q[1] = r[1]
                THEN Begin(c, [do |-> "rename", from |-> q, to |-> r, val |-> Default], "lock")
                ELSE Begin(c, [do |-> "look", from |-> q, to |-> r, val |-> Default], "look")
             /\ host' = (host \ {q}) \cup {r}
      BY <2>3 DEF Rename
    <3>2. CASE q[1] = r[1]
      BY <3>1, <3>2, ValueAssumption DEF IInv, TypeOK, Op
    <3>3. CASE q[1] # r[1]
      BY <3>1, <3>3, ValueAssumption DEF IInv, TypeOK, Op
    <3>. QED
      BY <3>2, <3>3
  <2>. QED
    BY <2>1, <2>2, <2>3 DEF Call
<1>2. TypeOK'
  BY <1>1 DEF IInv, TypeOK, Begin, files, loaded, Where
<1>3. Own(c)'
  BY <1>1 DEF IInv, TypeOK, Begin, files, loaded, Own, Busy, Copied
<1>4. \A x \in Client \ {c} : Apart(x)
  BY <1>1 DEF IInv, TypeOK, Begin, files, loaded, Apart
<1>. QED
  BY <1>1, <1>2, <1>3, <1>4, ApartOwn DEF IInv, Begin, files

LEMMA LookIInv == ASSUME IInv, NEW c \in Client, Look(c) PROVE IInv'
<1>1. op[c] \in Op /\ op[c].do = "look" /\ pos[c] = "look" /\ gone[c] = {} /\ temp[c] # "cached"
  BY DEF Look, IInv, TypeOK, Own, Copied
<1>2. Entries(op[c].from[1])[op[c].from[2]] \in Value
  BY <1>1, Paths, EntriesType DEF Table
<1>3. PICK o \in Op, w \in {"idle", "lock"} :
         /\ op' = [op EXCEPT ![c] = o] /\ pos' = [pos EXCEPT ![c] = w]
         /\ o.do # "look" /\ (w = "idle" => o = NoOp) /\ (w # "idle" => o.do # "none")
  <2>1. CASE op' = [op EXCEPT ![c] = NoOp] /\ pos' = [pos EXCEPT ![c] = "idle"]
    BY <2>1, Plainness
  <2>2. CASE ~ (op' = [op EXCEPT ![c] = NoOp] /\ pos' = [pos EXCEPT ![c] = "idle"])
    <3>. DEFINE v == Entries(op[c].from[1])[op[c].from[2]]
                 o == [op[c] EXCEPT !.do = "put", !.val = v]
    <3>1. op' = [op EXCEPT ![c].do = "put", ![c].val = v] /\ pos' = [pos EXCEPT ![c] = "lock"]
      BY <2>2 DEF Look
    <3>2. op' = [op EXCEPT ![c] = o]
      BY <1>1, <3>1 DEF IInv, TypeOK
    <3>3. o \in Op /\ o.do = "put"
      BY <1>1, <1>2 DEF Op
    <3>. QED
      BY <3>1, <3>2, <3>3
  <2>. QED
    BY <2>1, <2>2
<1>4. TypeOK'
  BY <1>3 DEF Look, IInv, TypeOK, files, loaded, Where
<1>5. Own(c)'
  BY <1>1, <1>3 DEF Look, IInv, TypeOK, files, loaded, Own, Busy, Copied
<1>6. \A x \in Client \ {c} : Apart(x)
  BY <1>3 DEF Look, IInv, TypeOK, files, loaded, Apart
<1>. QED
  BY <1>4, <1>5, <1>6, ApartOwn DEF Look, IInv, files

LEMMA LockIInv ==
    ASSUME Locking = Client, IInv, NEW c \in Client, Lock(c) PROVE IInv'
<1>1. Target(c) \in Dir /\ holder[Target(c)] = None /\ None \notin Client
  BY Paths, FileAssumption DEF Lock, IInv, TypeOK, Target
<1>2. TypeOK'
  BY <1>1 DEF Lock, Moves, IInv, TypeOK, files, loaded, Where
<1>3. Own(c)'
  BY <1>1 DEF Lock, Moves, IInv, TypeOK, files, loaded, Own, Busy, Copied, Target
<1>4. \A x \in Client \ {c} : Apart(x)
  <2>. TAKE x \in Client \ {c}
  <2>1. Target(x) \in Dir
    BY Paths DEF IInv, TypeOK, Target
  <2>2. holder[Target(x)] = x => holder'[Target(x)] = x
    BY <1>1, <2>1 DEF Lock, IInv, TypeOK
  <2>. QED
    BY <2>2 DEF Lock, Moves, IInv, TypeOK, files, loaded, Apart
<1>. QED
  BY <1>2, <1>3, <1>4, ApartOwn DEF Lock, IInv, files

LEMMA LoadIInv ==
    ASSUME Locking = Client, IInv, NEW c \in Client, Load(c) PROVE IInv'
<1>1. CASE Quit(c)
  BY <1>1, QuitIInv
<1>2. CASE ~ Quit(c)
  <2>. DEFINE t == Edited(op[c], Entries(Target(c)))
  <2>1. /\ meta[Target(c)] # Alien /\ Moves(c, "load", "prune")
        /\ copy' = [copy EXCEPT ![c] = t]
        /\ base' = [base EXCEPT ![c] = IF meta[Target(c)] = NoFile THEN "none" ELSE "there"]
        /\ left' = [left EXCEPT ![c] = {n \in Name : t[n] # Default}]
        /\ UNCHANGED <<host, files, holder, op, gone, temp, tries>>
    BY <1>2 DEF Load
  <2>2. t \in Table /\ gone[c] = {}
    BY <2>1, Paths, EntriesType, EditedType DEF Moves, IInv, TypeOK, Own, Copied, Target
  <2>. HIDE DEF t
  <2>3. TypeOK'
    BY <2>1, <2>2 DEF Moves, IInv, TypeOK, files, Where
  <2>4. t = [n \in Name |-> t[n]]
    BY <2>2 DEF Table
  <2>5. Trimmed(c)' = t
    BY <2>1, <2>2, <2>4 DEF Trimmed, Target, Entries, files, t
  <2>6. Own(c)'
    BY <2>1, <2>2, <2>5 DEF Moves, IInv, TypeOK, files, Own, Busy, Copied, Target
  <2>7. \A x \in Client \ {c} : Apart(x)
    BY <2>1 DEF Moves, IInv, TypeOK, files, Apart
  <2>. QED
    BY <2>1, <2>3, <2>6, <2>7, ApartOwn DEF IInv, files
<1>. QED
  BY <1>1, <1>2

LEMMA PruneIInv == ASSUME IInv, NEW c \in Client, Prune(c) PROVE IInv'
<1>1. PICK n \in left[c] :
         /\ left' = [left EXCEPT ![c] = @ \ {n}]
         /\ IF <<Target(c), n>> \in host THEN UNCHANGED <<copy, gone>>
            ELSE /\ copy' = [copy EXCEPT ![c][n] = Default]
                 /\ gone' = [gone EXCEPT ![c] = @ \cup {n}]
  BY DEF Prune
<1>2. /\ n \in Name /\ pos[c] = "prune" /\ copy[c] = Trimmed(c) /\ copy[c] \in [Name -> Value]
      /\ UNCHANGED <<host, files, holder, op, pos, base, temp, tries>>
  BY <1>1 DEF Prune, IInv, TypeOK, Own, Copied, Table
<1>3. CASE <<Target(c), n>> \in host
  <2>1. TypeOK'
    BY <1>1, <1>2, <1>3 DEF IInv, TypeOK, files
  <2>2. \A x \in Client : Apart(x)
    BY <1>1, <1>2, <1>3 DEF IInv, TypeOK, files, Apart
  <2>. QED
    BY <1>2, <2>1, <2>2, ApartOwn DEF IInv, files
<1>4. CASE <<Target(c), n>> \notin host
  <2>1. /\ copy' = [copy EXCEPT ![c] = [copy[c] EXCEPT ![n] = Default]]
        /\ gone' = [gone EXCEPT ![c] = @ \cup {n}]
    BY <1>1, <1>4 DEF IInv, TypeOK
  <2>2. [copy[c] EXCEPT ![n] = Default] \in Table
    BY <1>2, ValueAssumption DEF Table
  <2>3. TypeOK'
    BY <1>1, <1>2, <2>1, <2>2 DEF IInv, TypeOK, files
  <2>4. Target(c)' = Target(c) /\ Entries(Target(c))' = Entries(Target(c)) /\ op'[c] = op[c]
    BY <1>2 DEF Target, Entries, files
  <2>5. gone'[c] = gone[c] \cup {n} /\ copy'[c] = [copy[c] EXCEPT ![n] = Default]
    BY <2>1 DEF IInv, TypeOK
  <2>6. copy'[c] = Trimmed(c)'
    BY <1>2, <2>4, <2>5 DEF Trimmed
  <2>7. Own(c)'
    BY <1>2, <2>4, <2>6 DEF IInv, TypeOK, Own, Busy, Copied, files
  <2>8. \A x \in Client \ {c} : Apart(x)
    BY <1>2, <2>1 DEF IInv, TypeOK, files, Apart
  <2>. QED
    BY <1>2, <2>3, <2>7, <2>8, ApartOwn DEF IInv, files
<1>. QED
  BY <1>3, <1>4

(* Steps that keep the table a process has in hand. *)
LEMMA OnIInv ==
    ASSUME IInv, NEW c \in Client, NEW from \in Copied, NEW to \in Copied, Moves(c, from, to),
           UNCHANGED <<host, files, holder, op, loaded, tries>>,
           temp' \in [Client -> {"none", "cached", "synced"}],
           \A x \in Client : temp'[x] # "cached"
    PROVE  IInv'
<1>1. TypeOK'
  BY DEF Moves, IInv, TypeOK, files, loaded, Where, Copied
<1>2. Target(c)' = Target(c) /\ Trimmed(c)' = Trimmed(c)
  BY DEF Target, Trimmed, Entries, files, loaded
<1>3. Own(c)'
  BY <1>2 DEF Moves, IInv, TypeOK, Own, Busy, Copied, files, loaded
<1>4. \A x \in Client \ {c} : Own(x)'
  <2>. TAKE x \in Client \ {c}
  <2>1. Target(x)' = Target(x) /\ Trimmed(x)' = Trimmed(x)
    BY DEF Target, Trimmed, Entries, files, loaded
  <2>. QED
    BY <2>1 DEF Moves, IInv, TypeOK, Own, Busy, Copied, files, loaded
<1>. QED
  BY <1>1, <1>3, <1>4 DEF IInv, files

LEMMA WriteIInv ==
    ASSUME Locking = Client, IInv, NEW c \in Client, Write(c) PROVE IInv'
<1>1. CASE Quit(c)
  BY <1>1, QuitIInv
<1>2. CASE Moves(c, "prune", "check") /\ Written(c)
           /\ UNCHANGED <<host, files, holder, op, loaded, tries>>
  <2>1. temp' \in [Client -> {"none", "cached", "synced"}] /\ \A x \in Client : temp'[x] # "cached"
    BY <1>2 DEF Written, IInv, TypeOK, Own
  <2>2. "prune" \in Copied /\ "check" \in Copied
    BY DEF Copied
  <2>. QED
    BY <1>2, <2>1, <2>2, OnIInv
<1>. QED
  BY <1>1, <1>2 DEF Write

LEMMA CheckIInv == ASSUME IInv, NEW c \in Client, Check(c) PROVE IInv'
<1>1. Moves(c, "check", "replace") /\ UNCHANGED <<host, files, holder, op, loaded, temp, tries>>
  BY DEF Check
<1>2. temp' \in [Client -> {"none", "cached", "synced"}] /\ \A x \in Client : temp'[x] # "cached"
  BY <1>1 DEF IInv, TypeOK, Own
<1>3. "check" \in Copied /\ "replace" \in Copied
  BY DEF Copied
<1>. QED
  BY <1>1, <1>2, <1>3, OnIInv

LEMMA AgainIInv ==
    ASSUME Locking = Client, IInv, NEW c \in Client, Again(c) PROVE IInv'
<1>1. CASE Quit(c)
  BY <1>1, QuitIInv
<1>2. CASE ~ Quit(c)
  <2>1. /\ Moves(c, "check", "load") /\ Drop(c, tries[c] + 1)
        /\ UNCHANGED <<host, files, holder, op>>
    BY <1>2 DEF Again
  <2>2. TypeOK'
    BY <2>1, Plainness DEF Moves, Drop, IInv, TypeOK, files, Where
  <2>3. Own(c)'
    BY <2>1 DEF Moves, Drop, IInv, TypeOK, Own, Busy, Copied, Target, files
  <2>4. \A x \in Client \ {c} : Apart(x)
    BY <2>1 DEF Moves, Drop, IInv, TypeOK, Apart, files
  <2>. QED
    BY <2>1, <2>2, <2>3, <2>4, ApartOwn DEF IInv, files
<1>. QED
  BY <1>1, <1>2

LEMMA ReplaceIInv ==
    ASSUME Locking = Client, IInv, NEW c \in Client, Replace(c) PROVE IInv'
<1>1. CASE Quit(c)
  BY <1>1, QuitIInv
<1>2. CASE ~ Quit(c)
  <2>1. /\ pos[c] = "replace" /\ Unlock(c, Then(op[c]))
        /\ meta' = [meta EXCEPT ![Target(c)] = IF copy[c] = Plain THEN NoFile ELSE copy[c]]
        /\ unsynced' = IF temp[c] = "cached" THEN unsynced \cup {Target(c)}
                       ELSE unsynced \ {Target(c)}
        /\ base' = [x \in Client |-> IF x = c THEN "none"
                                     ELSE IF base[x] = "there" /\ Target(x) = Target(c)
                                          THEN "replaced" ELSE base[x]]
        /\ copy' = [copy EXCEPT ![c] = Plain] /\ temp' = [temp EXCEPT ![c] = "none"]
        /\ gone' = [gone EXCEPT ![c] = {}] /\ tries' = [tries EXCEPT ![c] = 0]
        /\ UNCHANGED <<host, left>>
    BY <1>2 DEF Replace
  <2>2. Then(op[c]) \in Op /\ Then(op[c]).do \in {"none", "take"}
        /\ (Then(op[c]).do = "none" => Then(op[c]) = NoOp)
    BY ThenType DEF IInv, TypeOK
  <2>3. /\ op' \in [Client -> Op] /\ pos' \in [Client -> Where]
        /\ holder' \in [Dir -> Client \cup {None}]
        /\ op'[c] = Then(op[c])
        /\ pos'[c] = (IF Then(op[c]).do = "take" THEN "lock" ELSE "idle")
        /\ \A x \in Client \ {c} : /\ op'[x] = op[x] /\ pos'[x] = pos[x]
                                   /\ holder[Target(x)] = x => holder'[Target(x)] = x
    BY <2>1, <2>2, Leaves
  <2>4. unsynced' = {}
    BY <2>1 DEF IInv, Own
  <2>5. TypeOK'
    BY <2>1, <2>3, <2>4, Plainness DEF IInv, TypeOK
  <2>6. Own(c)'
    BY <2>1, <2>2, <2>3 DEF IInv, TypeOK, Own, Busy, Copied
  <2>7. \A x \in Client \ {c} : Apart(x)
    <3>. TAKE x \in Client \ {c}
    <3>1. ASSUME pos[x] \in Copied PROVE meta'[Target(x)] = meta[Target(x)]
      <4>1. holder[Target(x)] = x /\ holder[Target(c)] = c
        BY <2>1, <3>1 DEF IInv, Own, Busy, Copied
      <4>. QED
        BY <2>1, <4>1 DEF IInv, TypeOK
    <3>. QED
      BY <2>1, <2>3, <3>1 DEF IInv, TypeOK, Apart
  <2>. QED
    BY <2>4, <2>5, <2>6, <2>7, ApartOwn DEF IInv
<1>. QED
  BY <1>1, <1>2

LEMMA PowerLossIInv == ASSUME IInv, PowerLoss PROVE IInv' /\ meta' = meta
<1>1. meta' = meta
  BY DEF PowerLoss, Survives, IInv, TypeOK
<1>2. TypeOK'
  BY <1>1, Plainness DEF PowerLoss, IInv, TypeOK, Where
<1>3. \A x \in Client : Own(x)'
  BY Plainness DEF PowerLoss, Own, Busy, Copied
<1>. QED
  BY <1>1, <1>2, <1>3 DEF IInv, PowerLoss

LEMMA OutsideIInv == ASSUME IInv, Outside PROVE IInv'
<1>1. TypeOK'
  BY DEF Outside, IInv, TypeOK, files, loaded
<1>2. \A x \in Client : Apart(x)
  BY DEF Outside, Apart, files, loaded
<1>. QED
  BY <1>1, <1>2, ApartOwn DEF IInv, Outside, files

LEMMA StutterIInv == ASSUME IInv, UNCHANGED vars PROVE IInv'
<1>1. TypeOK'
  BY DEF vars, files, loaded, IInv, TypeOK
<1>2. \A x \in Client : Apart(x)
  BY DEF vars, files, loaded, Apart
<1>. QED
  BY <1>1, <1>2, ApartOwn DEF IInv, vars, files

LEMMA Inductive == ASSUME Locking = Client, IInv, [Next]_vars PROVE IInv'
<1>1. ASSUME NEW c \in Client, Call(c) \/ Lock(c) \/ Rewrite(c) \/ Crash(c) PROVE IInv'
  <2>1. CASE Call(c) \/ Lock(c) \/ Look(c) \/ Load(c)
    BY <2>1, AskIInv, LockIInv, LookIInv, LoadIInv
  <2>2. CASE Prune(c) \/ Write(c) \/ Check(c) \/ Again(c) \/ Replace(c)
    BY <2>2, PruneIInv, WriteIInv, CheckIInv, AgainIInv, ReplaceIInv
  <2>3. CASE Crash(c)
    BY <2>3, QuitIInv DEF Crash
  <2>. QED
    BY <1>1, <2>1, <2>2, <2>3 DEF Rewrite
<1>. QED
  BY <1>1, PowerLossIInv, OutsideIInv, StutterIInv DEF Next

(* Where every process can lock, the state has its type (hv_meta.c, rewrite). *)
THEOREM MetaTypeCorrect == ASSUME Locking = Client PROVE Spec => []TypeOK
<1>1. IInv => TypeOK
  BY DEF IInv
<1>2. Init => IInv
  BY InitIInv
<1>3. IInv /\ [Next]_vars => IInv'
  BY Inductive
<1>. QED
  BY <1>1, <1>2, <1>3, PTL DEF Spec

-----------------------------------------------------------------------------
(* Every step is a step of the table, or none                              *)

(* The abstract module's own copies of MetaOps. *)
LEMMA SameOps == /\ Ideal!NoOp = NoOp /\ Ideal!Table = Table
                 /\ \A o : Ideal!DirOf(o) = DirOf(o) /\ Ideal!Then(o) = Then(o)
                 /\ \A o, t : Ideal!Edited(o, t) = Edited(o, t)
<1>1. Ideal!NoOp = NoOp
  BY DEF Ideal!NoOp, NoOp
<1>2. \A o : Ideal!DirOf(o) = DirOf(o) /\ Ideal!Then(o) = Then(o)
  BY <1>1 DEF Ideal!DirOf, DirOf, Ideal!Then, Then
<1>3. \A o, t : Ideal!Edited(o, t) = Edited(o, t)
  BY DEF Ideal!Edited, Edited
<1>. QED
  BY <1>1, <1>2, <1>3 DEF Ideal!Table, Table

LEMMA SameTables == ASSUME UNCHANGED files PROVE Tables' = Tables
  BY DEF files, Tables

LEMMA QuitSeen == ASSUME NEW c \in Client, Quit(c) PROVE Ideal!Fail(c)
  BY SameTables, SameOps DEF Quit, Unlock, Drop, Ideal!Fail

LEMMA AskSeen == ASSUME IInv, NEW c \in Client, Call(c) PROVE Ideal!Ask(c)
<1>1. ASSUME NEW o, NEW w, Begin(c, o, w) PROVE Ideal!Start(c, o) /\ UNCHANGED <<Tables, gone>>
  BY <1>1, SameTables, SameOps DEF Begin, Ideal!Start, IInv, Own, loaded
<1>2. CASE Set(c)
  <2>1. PICK q \in host, v \in Value :
           /\ Begin(c, [do |-> "set", from |-> q, to |-> q, val |-> v], "lock")
           /\ UNCHANGED host
    BY <1>2 DEF Set
  <2>. QED
    BY <2>1, <1>1 DEF Ideal!Ask
<1>3. CASE Delete(c)
  <2>1. PICK q \in host :
           /\ Begin(c, [do |-> "delete", from |-> q, to |-> q, val |-> Default], "lock")
           /\ host' = host \ {q}
    BY <1>3 DEF Delete
  <2>. QED
    BY <2>1, <1>1 DEF Ideal!Ask
<1>4. CASE Rename(c)
  <2>1. PICK q \in host : \E r \in Path \ {q} :
           /\ IF q[1] = r[1]
              THEN Begin(c, [do |-> "rename", from |-> q, to |-> r, val |-> Default], "lock")
              ELSE Begin(c, [do |-> "look", from |-> q, to |-> r, val |-> Default], "look")
           /\ host' = (host \ {q}) \cup {r}
    BY <1>4 DEF Rename
  <2>2. PICK r \in Path \ {q} :
           /\ IF q[1] = r[1]
              THEN Begin(c, [do |-> "rename", from |-> q, to |-> r, val |-> Default], "lock")
              ELSE Begin(c, [do |-> "look", from |-> q, to |-> r, val |-> Default], "look")
           /\ host' = (host \ {q}) \cup {r}
    BY <2>1
  <2>3. /\ Ideal!Start(c, [do |-> IF q[1] = r[1] THEN "rename" ELSE "look",
                          from |-> q, to |-> r, val |-> Default])
        /\ UNCHANGED <<Tables, gone>>
    <3>1. CASE q[1] = r[1]
      BY <2>2, <3>1, <1>1
    <3>2. CASE q[1] # r[1]
      BY <2>2, <3>2, <1>1
    <3>. QED
      BY <3>1, <3>2
  <2>. QED
    BY <2>2, <2>3 DEF Ideal!Ask
<1>. QED
  BY <1>2, <1>3, <1>4 DEF Call

LEMMA LookSeen == ASSUME IInv, NEW c \in Client, Look(c) PROVE Ideal!Look(c) \/ Ideal!Fail(c)
<1>. DEFINE d == op[c].from[1]
            n == op[c].from[2]
<1>1. op[c] \in Op /\ op[c].do = "look" /\ pos[c] = "look" /\ gone[c] = {} /\ d \in Dir /\ n \in Name
  BY Paths DEF Look, IInv, TypeOK, Own, Copied
<1>2. UNCHANGED <<Tables, host, gone>> /\ gone' = [gone EXCEPT ![c] = {}]
  BY <1>1, SameTables DEF Look, loaded, IInv, TypeOK
<1>3. CASE op' = [op EXCEPT ![c] = NoOp]
  BY <1>2, <1>3, SameOps DEF Ideal!Fail
<1>4. CASE /\ Entries(d)[n] # Default
           /\ op' = [op EXCEPT ![c].do = "put", ![c].val = Entries(d)[n]]
  <2>1. meta[d] \in Table /\ Entries(d) = meta[d] /\ Tables[d] = meta[d]
    BY <1>1, <1>4, FileAssumption DEF Entries, Plain, Tables
  <2>. QED
    BY <1>1, <1>2, <1>4, <2>1, AlienAssumption DEF Ideal!Look
<1>. QED
  BY <1>3, <1>4 DEF Look

LEMMA PruneSeen ==
    ASSUME IInv, NEW c \in Client, Prune(c) PROVE Ideal!Notice(c) \/ UNCHANGED Ideal!vars
<1>1. PICK n \in left[c] :
         IF <<Target(c), n>> \in host THEN UNCHANGED <<copy, gone>>
         ELSE gone' = [gone EXCEPT ![c] = @ \cup {n}]
  BY DEF Prune
<1>2. n \in Name /\ UNCHANGED <<Tables, host, op>>
  BY <1>1, SameTables DEF Prune, IInv, TypeOK
<1>. QED
  BY <1>1, <1>2, SameOps DEF Ideal!Notice, Ideal!vars, Target

LEMMA ReplaceSeen ==
    ASSUME IInv, NEW c \in Client, Replace(c) PROVE Ideal!Edit(c) \/ Ideal!Fail(c)
<1>1. CASE Quit(c)
  BY <1>1, QuitSeen
<1>2. CASE ~ Quit(c)
  <2>. DEFINE d == DirOf(op[c])
  <2>1. /\ pos[c] = "replace" /\ op' = [op EXCEPT ![c] = Then(op[c])]
        /\ meta' = [meta EXCEPT ![d] = IF copy[c] = Plain THEN NoFile ELSE copy[c]]
        /\ gone' = [gone EXCEPT ![c] = {}] /\ UNCHANGED host
    BY <1>2 DEF Replace, Unlock, Target
  <2>2. /\ d \in Dir /\ meta[d] # Alien /\ copy[c] = Trimmed(c) /\ op[c].do \notin {"none", "look"}
        /\ copy[c] # NoFile
    BY <2>1, Paths, FileAssumption DEF IInv, TypeOK, Own, Copied, Target
  <2>3. Tables[d] # Alien /\ Entries(d) = Tables[d]
    BY <2>2, Plainness, FileAssumption DEF Tables, Entries, IInv, TypeOK
  <2>4. Tables' = [Tables EXCEPT ![d] = copy[c]]
    BY <2>1, <2>2 DEF Tables, IInv, TypeOK
  <2>5. copy[c] = [n \in Name |-> IF n \in gone[c] THEN Default ELSE Edited(op[c], Tables[d])[n]]
    BY <2>2, <2>3 DEF Trimmed, Target
  <2>. HIDE DEF d
  <2>6. Tables' = [Tables EXCEPT ![d] = [n \in Name |-> IF n \in gone[c] THEN Default
                                                     ELSE Edited(op[c], Tables[d])[n]]]
    BY <2>4, <2>5
  <2>. QED
    BY <2>1, <2>2, <2>3, <2>6, SameOps DEF Ideal!Edit, d
<1>. QED
  BY <1>1, <1>2

LEMMA OthersSeen ==
    ASSUME IInv, NEW c \in Client,
           Lock(c) \/ Load(c) \/ Write(c) \/ Check(c) \/ Again(c) \/ Crash(c)
    PROVE  Ideal!Fail(c) \/ Ideal!Retry(c) \/ UNCHANGED Ideal!vars
<1>1. CASE Quit(c)
  BY <1>1, QuitSeen
<1>2. CASE Lock(c) \/ Check(c)
  BY <1>2, SameTables DEF Lock, Check, loaded, Ideal!vars
<1>3. CASE Load(c) /\ ~ Quit(c)
  BY <1>3, SameTables DEF Load, Ideal!vars
<1>4. CASE Write(c) /\ ~ Quit(c)
  BY <1>4, SameTables DEF Write, loaded, Ideal!vars
<1>5. CASE Again(c) /\ ~ Quit(c)
  BY <1>5, SameTables DEF Again, Drop, Ideal!Retry
<1>. QED
  BY <1>1, <1>2, <1>3, <1>4, <1>5 DEF Crash

LEMMA InitSeen == ASSUME Init PROVE Ideal!Init
  BY Plainness, SameOps DEF Init, Tables, Ideal!Init

(* Where every process can lock, a call of hv_meta_write, hv_meta_rename or
   hv_meta_delete is one edit of the table or none, and a move two, whatever
   the others do, whoever dies, and wherever the power fails (hv_meta.c,
   rewrite_locked). *)
THEOREM EditsAreAtomic == ASSUME Locking = Client PROVE Spec => EditSpec
<1>1. ASSUME IInv, [Next]_vars PROVE [Ideal!Next]_(Ideal!vars)
  <2>1. ASSUME NEW c \in Client, Call(c) \/ Look(c) \/ Prune(c) \/ Replace(c)
        PROVE  [Ideal!Next]_(Ideal!vars)
    BY <1>1, <2>1, AskSeen, LookSeen, PruneSeen, ReplaceSeen DEF Ideal!Next
  <2>2. ASSUME NEW c \in Client,
               Lock(c) \/ Load(c) \/ Write(c) \/ Check(c) \/ Again(c) \/ Crash(c)
        PROVE  [Ideal!Next]_(Ideal!vars)
    BY <1>1, <2>2, OthersSeen DEF Ideal!Next
  <2>3. CASE PowerLoss
    <3>1. Tables' = Tables
      BY <1>1, <2>3, PowerLossIInv DEF Tables
    <3>2. Ideal!Loss
      BY <2>3, <3>1, SameOps DEF PowerLoss, Ideal!Loss
    <3>. QED
      BY <3>2 DEF Ideal!Next
  <2>4. CASE Outside
    <3>1. host' \in SUBSET Path /\ UNCHANGED <<Tables, op, gone>>
      BY <1>1, <2>4, SameTables DEF Outside, loaded, IInv, TypeOK
    <3>2. Ideal!Outside
      BY <3>1 DEF Ideal!Outside
    <3>. QED
      BY <3>2 DEF Ideal!Next
  <2>5. CASE UNCHANGED vars
    BY <2>5, SameTables DEF vars, loaded, Ideal!vars
  <2>. QED
    BY <1>1, <2>1, <2>2, <2>3, <2>4, <2>5 DEF Next, Rewrite
<1>2. IInv /\ [Next]_vars => IInv'
  BY Inductive
<1>3. Init => IInv /\ Ideal!Init
  BY InitIInv, InitSeen
<1>. QED
  BY <1>1, <1>2, <1>3, PTL DEF Spec, EditSpec, Ideal!Spec

=============================================================================
