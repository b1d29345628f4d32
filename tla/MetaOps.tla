------------------------------ MODULE MetaOps ------------------------------
(***************************************************************************)
(* The entries of one directory's .ameta, and what each call of hv_meta    *)
(* does to them.  A file's metadata (protection word and comment) is a     *)
(* value; an entry with Default says nothing and is not kept.              *)
(***************************************************************************)
CONSTANTS
  Client,          (* the processes that keep metadata in step             *)
  Dir, Name, Path, (* directories, names, and the files there can be       *)
  Value, Default,  (* metadata; that of a file without an entry            *)
  Alien            (* a .ameta of another version                          *)

ASSUME PathAssumption == Path \subseteq Dir \X Name /\ Path # {}
ASSUME ValueAssumption == Default \in Value

Table == [Name -> Value]
ASSUME AlienAssumption == Alien \notin Table
Plain == [n \in Name |-> Default]

(* What a call is about: the change it makes next, to which file, the file's
   new name, and the metadata it has in hand. *)
Op == [do : {"none", "set", "rename", "delete", "look", "put", "take"},
       from : Path, to : Path, val : Value]
NoOp == LET q == CHOOSE p \in Path : TRUE
        IN [do |-> "none", from |-> q, to |-> q, val |-> Default]
DirOf(o) == IF o.do = "put" THEN o.to[1] ELSE o.from[1]

(* A file that is renamed takes its entry with it; with no entry nothing is
   changed. *)
Edited(o, t) ==
    CASE o.do = "set" -> [t EXCEPT ![o.from[2]] = o.val]
      [] o.do = "rename" -> IF t[o.from[2]] = Default THEN t
                            ELSE [t EXCEPT ![o.from[2]] = Default, ![o.to[2]] = t[o.from[2]]]
      [] o.do = "put" -> [t EXCEPT ![o.to[2]] = o.val]
      [] OTHER -> [t EXCEPT ![o.from[2]] = Default]
(* A move across directories takes its entry from the old one last. *)
Then(o) == IF o.do = "put" THEN [o EXCEPT !.do = "take"] ELSE NoOp
=============================================================================
