----------------------------- MODULE MetaStore -----------------------------
(***************************************************************************)
(* The .ameta files of a host volume (hv_meta.c, ameta.c): processes that  *)
(* read, change and replace one directory's file under a lock on the       *)
(* directory, while other programs create and remove files, a process dies *)
(* between any two steps, or the power fails.                              *)
(***************************************************************************)
EXTENDS MetaOps, Naturals

CONSTANTS
  Does,          (* the calls each process makes                           *)
  Locking,       (* the processes that can open the directory to lock it   *)
  Attempts,      (* WRITE_ATTEMPTS                                         *)
  NoFile, None   (* no .ameta; nobody                                      *)

ASSUME DoesAssumption == Does \in [Client -> SUBSET {"set", "rename", "delete"}]
ASSUME LockingAssumption == Locking \subseteq Client /\ Attempts \in Nat \ {0}
ASSUME FileAssumption == NoFile \notin Table \cup {Alien} /\ None \notin Client

VARIABLES
  host,                   (* the files there are                           *)
  meta, unsynced,         (* each .ameta, and where its data is not on the
                             disk                                          *)
  holder,                 (* who has locked the directory                  *)
  op, pos,                (* the call of each process, and where it is     *)
  copy, base,             (* its table, and the file it was read from:
                             none, one there still, one replaced since     *)
  left, gone,             (* names to be examined, and found gone          *)
  temp, tries             (* its temporary file; attempts before this      *)

files  == <<meta, unsynced>>
loaded == <<copy, base, left, gone>>
vars   == <<host, files, holder, op, pos, loaded, temp, tries>>

Entries(d) == IF meta[d] \in Table THEN meta[d] ELSE Plain

-----------------------------------------------------------------------------
(* The host operation, and the call after it                               *)

Begin(c, o, at) ==
    /\ pos[c] = "idle" /\ op' = [op EXCEPT ![c] = o] /\ pos' = [pos EXCEPT ![c] = at]
    /\ UNCHANGED <<files, holder, loaded, temp, tries>>
Set(c) == \E q \in host, v \in Value :
    /\ "set" \in Does[c]
    /\ Begin(c, [do |-> "set", from |-> q, to |-> q, val |-> v], "lock")
    /\ UNCHANGED host
Delete(c) == \E q \in host :
    /\ "delete" \in Does[c]
    /\ Begin(c, [do |-> "delete", from |-> q, to |-> q, val |-> Default], "lock")
    /\ host' = host \ {q}
Rename(c) == \E q \in host : \E r \in Path \ {q} :
    /\ "rename" \in Does[c]
    /\ IF q[1] = r[1]
       THEN Begin(c, [do |-> "rename", from |-> q, to |-> r, val |-> Default], "lock")
       ELSE Begin(c, [do |-> "look", from |-> q, to |-> r, val |-> Default], "look")
    /\ host' = (host \ {q}) \cup {r}

(* What a call has read is forgotten; its lock is given up, and it goes on to
   the old directory of a move or returns. *)
Drop(c, attempts) ==
    /\ copy' = [copy EXCEPT ![c] = Plain] /\ base' = [base EXCEPT ![c] = "none"]
    /\ left' = [left EXCEPT ![c] = {}] /\ gone' = [gone EXCEPT ![c] = {}]
    /\ temp' = [temp EXCEPT ![c] = "none"] /\ tries' = [tries EXCEPT ![c] = attempts]
Release(c) == [d \in Dir |-> IF holder[d] = c THEN None ELSE holder[d]]
(* Mutant: a move keeps the lock of the new directory for the old one. *)
UnlockLast(c, o) ==
    /\ op' = [op EXCEPT ![c] = o]
    /\ pos' = [pos EXCEPT ![c] = IF o.do = "take" THEN "lock" ELSE "idle"]
    /\ holder' = IF o.do = "take" THEN holder ELSE Release(c)
Unlock(c, o) ==
    /\ op' = [op EXCEPT ![c] = o]
    /\ pos' = [pos EXCEPT ![c] = IF o.do = "take" THEN "lock" ELSE "idle"]
    /\ holder' = Release(c)
Quit(c) == Unlock(c, NoOp) /\ Drop(c, 0) /\ UNCHANGED <<host, files>>

(* Across directories: the entry is read from the old .ameta without a lock. *)
Look(c) ==
    /\ pos[c] = "look"
    /\ LET v == Entries(op[c].from[1])[op[c].from[2]]
       IN \/ /\ v # Default
             /\ op' = [op EXCEPT ![c].do = "put", ![c].val = v]
             /\ pos' = [pos EXCEPT ![c] = "lock"]
          \/ op' = [op EXCEPT ![c] = NoOp] /\ pos' = [pos EXCEPT ![c] = "idle"]
    /\ UNCHANGED <<host, files, holder, loaded, temp, tries>>

-----------------------------------------------------------------------------
(* rewrite(): read, change, prune and replace                              *)

Target(c) == DirOf(op[c])
Moves(c, from, to) == pos[c] = from /\ pos' = [pos EXCEPT ![c] = to]

(* A directory that cannot be opened is not locked. *)
Lock(c) ==
    /\ Moves(c, "lock", "load")
    /\ IF c \in Locking
       THEN holder[Target(c)] = None /\ holder' = [holder EXCEPT ![Target(c)] = c]
       ELSE UNCHANGED holder
    /\ UNCHANGED <<host, files, op, loaded, temp, tries>>

(* The change comes before the pruning.  An unreadable file, or one of
   another version, is not touched. *)
Load(c) ==
    LET t == Edited(op[c], Entries(Target(c)))
    IN \/ /\ meta[Target(c)] # Alien
          /\ Moves(c, "load", "prune")
          /\ copy' = [copy EXCEPT ![c] = t]
          /\ base' = [base EXCEPT ![c] = IF meta[Target(c)] = NoFile THEN "none" ELSE "there"]
          /\ left' = [left EXCEPT ![c] = {n \in Name : t[n] # Default}]
          /\ UNCHANGED <<host, files, holder, op, gone, temp, tries>>
       \/ pos[c] = "load" /\ Quit(c)

Prune(c) ==
    /\ \E n \in left[c] :
         /\ left' = [left EXCEPT ![c] = @ \ {n}]
         /\ IF <<Target(c), n>> \in host THEN UNCHANGED <<copy, gone>>
            ELSE /\ copy' = [copy EXCEPT ![c][n] = Default]
                 /\ gone' = [gone EXCEPT ![c] = @ \cup {n}]
    /\ pos[c] = "prune"
    /\ UNCHANGED <<host, files, holder, op, pos, base, temp, tries>>
(* The temporary file is written and synced before it can be seen; with no
   entry left there is none.  (Mutant: it is not synced.) *)
WrittenOnly(c) == temp' = [temp EXCEPT ![c] = IF copy[c] = Plain THEN "none" ELSE "cached"]
Written(c) == temp' = [temp EXCEPT ![c] = IF copy[c] = Plain THEN "none" ELSE "synced"]
Write(c) ==
    /\ pos[c] = "prune" /\ left[c] = {}
    /\ \/ /\ Moves(c, "prune", "check") /\ Written(c)
          /\ UNCHANGED <<host, files, holder, op, loaded, tries>>
       \/ copy[c] # Plain /\ Quit(c)

SameIdentity(c) == base[c] = IF meta[Target(c)] = NoFile THEN "none" ELSE "there"
Check(c) ==
    /\ Moves(c, "check", "replace") /\ SameIdentity(c)
    /\ UNCHANGED <<host, files, holder, op, loaded, temp, tries>>
(* Not the same, or stat fails: start again, up to WRITE_ATTEMPTS times. *)
Again(c) ==
    /\ pos[c] = "check"
    /\ IF tries[c] + 1 = Attempts THEN Quit(c)
       ELSE /\ Moves(c, "check", "load") /\ Drop(c, tries[c] + 1)
            /\ UNCHANGED <<host, files, holder, op>>

Replace(c) ==
    \/ /\ pos[c] = "replace" /\ Unlock(c, Then(op[c]))
       /\ meta' = [meta EXCEPT ![Target(c)] = IF copy[c] = Plain THEN NoFile ELSE copy[c]]
       /\ unsynced' = IF temp[c] = "cached" THEN unsynced \cup {Target(c)}
                      ELSE unsynced \ {Target(c)}
       /\ base' = [x \in Client |-> IF x = c THEN "none"
                                    ELSE IF base[x] = "there" /\ Target(x) = Target(c)
                                         THEN "replaced" ELSE base[x]]
       /\ copy' = [copy EXCEPT ![c] = Plain] /\ temp' = [temp EXCEPT ![c] = "none"]
       /\ gone' = [gone EXCEPT ![c] = {}] /\ tries' = [tries EXCEPT ![c] = 0]
       /\ UNCHANGED <<host, left>>
    \/ pos[c] = "replace" /\ Quit(c)

-----------------------------------------------------------------------------
(* What else happens                                                       *)

(* A process dies; its lock goes with it, a temporary file may stay. *)
Crash(c) ==
    /\ pos[c] # "idle"
    /\ Quit(c)
(* Of data that was not synced, any part may be lost. *)
Survives(d) == IF d \in unsynced
               THEN {t \in Table : \A n \in Name : t[n] \in {Entries(d)[n], Default}}
               ELSE {meta[d]}
PowerLoss ==
    /\ meta' \in {m \in [Dir -> Table \cup {NoFile, Alien}] : \A d \in Dir : m[d] \in Survives(d)}
    /\ unsynced' = {} /\ holder' = [d \in Dir |-> None]
    /\ op' = [c \in Client |-> NoOp] /\ pos' = [c \in Client |-> "idle"]
    /\ copy' = [c \in Client |-> Plain] /\ base' = [c \in Client |-> "none"]
    /\ left' = [c \in Client |-> {}] /\ gone' = [c \in Client |-> {}]
    /\ temp' = [c \in Client |-> "none"] /\ tries' = [c \in Client |-> 0]
    /\ UNCHANGED host
(* Other programs create and remove files. *)
Outside ==
    /\ \E q \in Path : host' = IF q \in host THEN host \ {q} ELSE host \cup {q}
    /\ UNCHANGED <<files, holder, op, pos, loaded, temp, tries>>

-----------------------------------------------------------------------------
Init ==
    /\ host \in SUBSET Path /\ meta \in [Dir -> {NoFile, Alien}]
    /\ unsynced = {} /\ holder = [d \in Dir |-> None]
    /\ op = [c \in Client |-> NoOp] /\ pos = [c \in Client |-> "idle"]
    /\ copy = [c \in Client |-> Plain] /\ base = [c \in Client |-> "none"]
    /\ left = [c \in Client |-> {}] /\ gone = [c \in Client |-> {}]
    /\ temp = [c \in Client |-> "none"] /\ tries = [c \in Client |-> 0]

Call(c)    == Set(c) \/ Delete(c) \/ Rename(c)
Rewrite(c) == Look(c) \/ Load(c) \/ Prune(c) \/ Write(c) \/ Check(c) \/ Again(c) \/ Replace(c)
Next == \/ \E c \in Client : Call(c) \/ Lock(c) \/ Rewrite(c) \/ Crash(c)
        \/ PowerLoss \/ Outside
Spec == Init /\ [][Next]_vars
(* A process in a call gets on, and flock gives the lock to all in turn. *)
FairSpec == Spec /\ \A c \in Client : SF_vars(Lock(c) \/ Rewrite(c))

-----------------------------------------------------------------------------
(* Properties                                                              *)

Where == {"idle", "look", "lock", "load", "prune", "check", "replace"}
TypeOK ==
    /\ host \subseteq Path
    /\ meta \in [Dir -> Table \cup {NoFile, Alien}]
    /\ unsynced \subseteq Dir
    /\ holder \in [Dir -> Client \cup {None}]
    /\ op \in [Client -> Op] /\ pos \in [Client -> Where]
    /\ copy \in [Client -> Table] /\ base \in [Client -> {"none", "there", "replaced"}]
    /\ left \in [Client -> SUBSET Name] /\ gone \in [Client -> SUBSET Name]
    /\ temp \in [Client -> {"none", "cached", "synced"}] /\ tries \in [Client -> Nat]

(* Processes that lock lose none of each other's changes, and no change is
   ever half made, at whatever step one of them dies or the power fails: a
   call is one edit of the directory's table, or none. *)
Tables == [d \in Dir |-> IF meta[d] = NoFile THEN Plain ELSE meta[d]]
Ideal == INSTANCE MetaTable WITH table <- Tables, req <- op
EditSpec == Ideal!Spec

(* Every call returns: no two moves wait for each other's directory, and no
   attempt is repeated for ever. *)
CallsReturn == \A c \in Client : []<>(pos[c] = "idle")

(* A file keeps its metadata when it is renamed: the table that replaces the
   directory's says of the new name what the old one said of the old. *)
RenameCarries ==
    \A c \in Client : pos[c] = "replace" /\ op[c].do = "rename" /\ op[c].to \in host
        => copy[c][op[c].to[2]] = Entries(Target(c))[op[c].from[2]]

(* While a rename has not moved its entry yet, a call about another file does
   not drop or change it. *)
RenamePending ==
    [][\A c \in Client :
         /\ op[c].do = "rename" /\ op'[c] = op[c]
         /\ \A x \in Client \ {c} : op[x].from # op[c].from
         => Entries(Target(c))'[op[c].from[2]] = Entries(Target(c))[op[c].from[2]]]_vars
=============================================================================
