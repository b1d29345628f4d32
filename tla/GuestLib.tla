------------------------------ MODULE GuestLib ------------------------------
(***************************************************************************)
(* The life cycle of 68k libraries loaded from disk: OpenLibrary and       *)
(* CloseLibrary of emu68k_exec.c and the guestlib part of emu68k_host.c.   *)
(* A call does not do its work in C.  It saves the caller's registers in   *)
(* the library's slot and sends the caller through a trampoline in guest   *)
(* memory: the library's own Init, Open or Close runs there and comes back *)
(* through INIT_DONE, OPEN_DONE, CLOSE_DONE and RECLAIM.  While it runs it *)
(* may open and close other libraries, and its context may lose its turn.  *)
(*                                                                         *)
(* The libraries keep Exec's rules: Init opens what the library needs,     *)
(* closes it again when it fails, Open and Close count, and a library that *)
(* expunges itself has no opener and first closes what it opened.          *)
(***************************************************************************)
EXTENDS Integers, Sequences, FiniteSets

CONSTANTS
    Context, Root,  \* the contexts of the run, and its first
    Lib,            \* names of libraries
    Graphs,         \* what each library's Init opens: a set of [Lib -> Seq(Lib)]
    Cloning,        \* libraries that make a base for each opener
    SlotMax,        \* GUESTLIB_MAX
    OpensMax,       \* GUESTLIB_OPENS_MAX
    HeapMax,        \* guest memory, in allocations
    HoldMax,        \* bases a program holds at a time (a bound)
    Mortal,         \* contexts whose program may fault
    Preempt,        \* whether a turn may end inside library code
    None

ASSUME ContextAssumption == Root \in Context /\ None \notin Context
ASSUME LimitAssumption == {SlotMax, OpensMax, HeapMax, HoldMax} \subseteq Nat \ {0}
ASSUME GraphAssumption == Graphs \subseteq [Lib -> Seq(Lib)] /\ Cloning \subseteq Lib
ASSUME PreemptAssumption == Preempt \in BOOLEAN /\ Mortal \subseteq Context

Slot == 1 .. SlotMax
Address == 0 .. HeapMax - 1
ASSUME NoneAssumption == None \notin Address /\ None \notin Lib

VARIABLES
    needs,    \* the graph of this run
    slot,     \* run->guestlib[]
    mem,      \* guest memory: what each allocation is
    heap,     \* run->exec_heap, the end of the bump allocator
    stack,    \* per context: the library calls it is in, innermost last
    regs,     \* per context: whose values d2-d7 and a2-a6 hold, <<context, level>>
    held,     \* per context: the bases its program got and has not closed
    known,    \* per engine: the guest bases registered in it
    run,      \* the context that executes
    dead,     \* contexts that faulted
    failed    \* a call failed; the run stops with its message

vars == <<needs, slot, mem, heap, stack, regs, held, known, run, dead, failed>>

----------------------------------------------------------------------------
(* Guest memory and the slots *)

Free == [what |-> "free", lib |-> None, of |-> None, count |-> 0, uses |-> <<>>]
Image(n) == [Free EXCEPT !.what = "image", !.lib = n]
CloneOf(a) == [Free EXCEPT !.what = "clone", !.of = a]
Trampoline(i) == [Free EXCEPT !.what = "trampoline", !.of = i]

Unused == [state |-> "empty", name |-> None, base |-> None, opens |-> <<>>,
           closing |-> None, start |-> None, close |-> None,
           reclaim |-> FALSE, saved |-> None]

Reusable(i) == slot[i].state \in {"empty", "unloaded"}
Named(n) == {i \in Slot : ~Reusable(i) /\ slot[i].name = n}
Lowest(S) == CHOOSE i \in S : \A j \in S : i <= j

Open(i) == {slot[i].opens[k] : k \in DOMAIN slot[i].opens}
OwnersOf(b) == {i \in Slot : slot[i].state = "ready" /\ b \in Open(i) \cup {slot[i].base}}

(* j5d_register_guest_libbase and j5d_unregister_libbase, in c's engine *)
Registers(c, B) == [known EXCEPT ![c] = @ \cup B]
Unregisters(c, B) == [known EXCEPT ![c] = @ \ B]

(* One reference goes, not every one to that base.  (Mutant: all go.) *)
DropEvery(s, b) == SelectSeq(s, LAMBDA x : x # b)
DropOne(s, b) ==
    IF \A k \in DOMAIN s : s[k] # b THEN s
    ELSE LET k == Lowest({j \in DOMAIN s : s[j] = b})
         IN  SubSeq(s, 1, k - 1) \o SubSeq(s, k + 1, Len(s))

----------------------------------------------------------------------------
(* Calls of one context *)

Runs(c) == run = c /\ ~failed /\ c \notin dead
InProgram(c) == Runs(c) /\ stack[c] = <<>>
Level(c) == Len(stack[c])
Top(c) == stack[c][Level(c)]
At(c, place) == Runs(c) /\ stack[c] # <<>> /\ Top(c).at = place
Goes(c, call) == stack' = [stack EXCEPT ![c][Level(c)] = call]

(* Entering library code from a routine at the end of stk: from now on the
   registers are the library's. *)
Enter(c, stk, call) ==
    /\ stack' = [stack EXCEPT ![c] = Append(stk, call)]
    /\ regs' = [regs EXCEPT ![c] = <<c, Len(stk) + 1>>]

(* OpenLibrary answers the routine at the end of stk: the program, or the Init
   of a library, which goes on or gives up. *)
Answered(c, stk, b) ==
    /\ stack' = [stack EXCEPT ![c] =
                   IF stk = <<>> THEN stk
                   ELSE IF b = None THEN [stk EXCEPT ![Len(stk)].at = "undo"]
                   ELSE [stk EXCEPT ![Len(stk)].got = Append(@, b)]]
    /\ held' = IF stk = <<>> /\ b # None
               THEN [held EXCEPT ![c] = Append(@, b)] ELSE held

Below(c) == SubSeq(stack[c], 1, Level(c) - 1)
Restored(c) == [regs EXCEPT ![c] = slot[Top(c).slot].saved]

----------------------------------------------------------------------------
(* OpenLibrary *)

Wanted(c) == needs[Top(c).lib][Len(Top(c).got) + 1]
InitComplete(c) == Len(Top(c).got) = Len(needs[Top(c).lib])
Asks(c, n) ==
    \/ InProgram(c) /\ Len(held[c]) < HoldMax
    \/ At(c, "init") /\ ~InitComplete(c) /\ n = Wanted(c)

(* No such file, no slot, no memory; or the library is being initialised, or
   failed to be.  (Mutant: waits for the one that is being initialised.) *)
RefusesAbsent(n) == Named(n) = {}
Refuses(n) == Named(n) = {} \/ \E i \in Named(n) : slot[i].state # "ready"

OpenRefused(c, n) ==
    /\ Asks(c, n) /\ Refuses(n)
    /\ Answered(c, stack[c], None)
    /\ UNCHANGED <<needs, slot, mem, heap, regs, known, run, dead, failed>>

OpenAgain(c, n) ==
    /\ Asks(c, n)
    /\ \E i \in Named(n) :
         /\ slot[i].state = "ready"
         /\ slot' = [slot EXCEPT ![i].saved = regs[c]]
         /\ Enter(c, stack[c], [slot |-> i, lib |-> n, image |-> slot[i].start, base |-> None,
                                got |-> <<>>, result |-> None, at |-> "initDone"])
    /\ UNCHANGED <<needs, mem, heap, held, known, run, dead, failed>>

(* emu68k_load_guestlib, and into the trampoline that begins with Init. *)
Load(c, n) ==
    LET free == {i \in Slot : Reusable(i)}
        i == Lowest(free)
    IN  /\ Asks(c, n) /\ Named(n) = {} /\ free # {} /\ heap < HeapMax
        /\ slot' = [slot EXCEPT ![i] =
                      [Unused EXCEPT !.state = "loading", !.name = n,
                                     !.start = heap, !.saved = regs[c]]]
        /\ mem' = [mem EXCEPT ![heap] = Image(n)]
        /\ heap' = heap + 1
        /\ Enter(c, stack[c], [slot |-> i, lib |-> n, image |-> heap, base |-> None,
                               got |-> <<>>, result |-> None, at |-> "init"])
        /\ UNCHANGED <<needs, held, known, run, dead, failed>>

(* The library's Init, in guest code: it returns its base, or 0 after it has
   closed what it had opened. *)
InitReturns(c) ==
    /\ At(c, "init") /\ InitComplete(c)
    /\ mem' = [mem EXCEPT ![Top(c).image].uses = Top(c).got]
    /\ Goes(c, [Top(c) EXCEPT !.at = "initDone", !.result = Top(c).image, !.got = <<>>])
    /\ UNCHANGED <<needs, slot, heap, regs, held, known, run, dead, failed>>

InitGivesUp(c) ==
    /\ At(c, "init") /\ InitComplete(c)
    /\ Goes(c, [Top(c) EXCEPT !.at = "undo"])
    /\ UNCHANGED <<needs, slot, mem, heap, regs, held, known, run, dead, failed>>

InitFails(c) ==
    /\ At(c, "undo") /\ Top(c).got = <<>>
    /\ Goes(c, [Top(c) EXCEPT !.at = "initDone", !.result = None])
    /\ UNCHANGED <<needs, slot, mem, heap, regs, held, known, run, dead, failed>>

(* emu68k_guestlib_init_done *)
InitDone(c) ==
    LET i == Top(c).slot IN
    /\ At(c, "initDone")
    /\ \/ /\ slot[i].state = "loading" /\ Top(c).result = None
          /\ slot' = [slot EXCEPT ![i].state = "failed"]
          /\ Goes(c, [Top(c) EXCEPT !.at = "openDone"])
          /\ UNCHANGED known
       \/ /\ slot[i].state = "loading" /\ Top(c).result # None
          /\ slot' = [slot EXCEPT ![i].state = "opening", ![i].base = Top(c).result]
          /\ known' = Registers(c, {Top(c).result})
          /\ Goes(c, [Top(c) EXCEPT !.at = "open", !.result = None])
       \/ /\ slot[i].state = "ready"
          /\ Goes(c, [Top(c) EXCEPT !.at = "open", !.image = slot[i].base])
          /\ UNCHANGED <<slot, known>>
       \/ /\ slot[i].state \notin {"loading", "ready"}
          /\ Goes(c, [Top(c) EXCEPT !.at = "openDone", !.result = None])
          /\ UNCHANGED <<slot, known>>
    /\ UNCHANGED <<needs, mem, heap, regs, held, run, dead, failed>>

(* The library's Open: 0, its base, or a base made for this opener. *)
OpenCode(c) ==
    LET a == Top(c).image
        counted == [mem EXCEPT ![a].count = @ + 1]
    IN  /\ At(c, "open")
        /\ \/ /\ Goes(c, [Top(c) EXCEPT !.at = "openDone"])
              /\ UNCHANGED <<mem, heap>>
           \/ /\ Top(c).lib \notin Cloning
              /\ mem' = counted
              /\ Goes(c, [Top(c) EXCEPT !.at = "openDone", !.result = a])
              /\ UNCHANGED heap
           \/ /\ Top(c).lib \in Cloning /\ heap < HeapMax
              /\ mem' = [counted EXCEPT ![heap] = CloneOf(a)]
              /\ heap' = heap + 1
              /\ Goes(c, [Top(c) EXCEPT !.at = "openDone", !.result = heap])
        /\ UNCHANGED <<needs, slot, regs, held, known, run, dead, failed>>

(* emu68k_guestlib_open_done *)
OpenUndone(i) == [slot[i] EXCEPT !.base = None, !.state = "failed"]
OpenFailed(c) ==
    LET i == Top(c).slot IN
    /\ At(c, "openDone") /\ Top(c).result = None
    /\ IF slot[i].state = "opening"
       THEN /\ known' = Unregisters(c, {slot[i].base})
            /\ slot' = [slot EXCEPT ![i] = OpenUndone(i)]
       ELSE UNCHANGED <<known, slot>>
    /\ regs' = Restored(c)
    /\ Answered(c, Below(c), None)
    /\ UNCHANGED <<needs, mem, heap, run, dead, failed>>

OpenDone(c) ==
    LET i == Top(c).slot
        b == Top(c).result
        opened == [slot[i] EXCEPT !.opens = Append(@, b)]
    IN  /\ At(c, "openDone") /\ b # None /\ Len(slot[i].opens) < OpensMax
        /\ slot[i].state = "opening" => heap < HeapMax
        /\ IF slot[i].state = "opening"
           THEN /\ slot' = [slot EXCEPT ![i] = [opened EXCEPT !.state = "ready",
                                                              !.close = heap]]
                /\ mem' = [mem EXCEPT ![heap] = Trampoline(i)]
                /\ heap' = heap + 1
           ELSE slot' = [slot EXCEPT ![i] = opened] /\ UNCHANGED <<mem, heap>>
        /\ known' = Registers(c, {b} \ {slot[i].base})
        /\ regs' = Restored(c)
        /\ Answered(c, Below(c), b)
        /\ UNCHANGED <<needs, run, dead, failed>>

(* No room for another open, or for the trampoline of Close: the run ends. *)
OpenOverflows(c) ==
    LET i == Top(c).slot IN
    /\ At(c, "openDone") /\ Top(c).result # None
    /\ Len(slot[i].opens) = OpensMax \/ (slot[i].state = "opening" /\ heap = HeapMax)
    /\ failed' = TRUE
    /\ UNCHANGED <<needs, slot, mem, heap, stack, regs, held, known, run, dead>>

----------------------------------------------------------------------------
(* CloseLibrary *)

(* A program closes a base it holds; a library what its Init had opened, when
   the Init fails and when the library is expunged. *)
Drops(c, b, stk) ==
    \/ /\ InProgram(c) /\ b \in {held[c][k] : k \in DOMAIN held[c]}
       /\ held' = [held EXCEPT ![c] = DropOne(@, b)]
       /\ stk = <<>>
    \/ /\ At(c, "undo") \/ At(c, "expunge")
       /\ Top(c).got # <<>> /\ b = Top(c).got[Len(Top(c).got)]
       /\ stk = [stack[c] EXCEPT ![Level(c)].got = SubSeq(@, 1, Len(@) - 1)]
       /\ UNCHANGED held

Closer(c) ==
    IF stack[c] = <<>> THEN <<>>
    ELSE [stack[c] EXCEPT ![Level(c)].got = SubSeq(@, 1, Len(@) - 1)]

(* (Mutant: leaves the registers of the last call in the slot.) *)
UnsavedClose(i, b, r) == [slot[i] EXCEPT !.closing = b]
BeginClose(i, b, r) == [slot[i] EXCEPT !.closing = b, !.saved = r]
CloseLibrary(c, b) ==
    /\ Drops(c, b, Closer(c))
    /\ IF OwnersOf(b) = {}
       THEN stack' = [stack EXCEPT ![c] = Closer(c)] /\ UNCHANGED <<slot, regs>>
       ELSE LET i == Lowest(OwnersOf(b)) IN
            /\ slot' = [slot EXCEPT ![i] = BeginClose(i, b, regs[c])]
            /\ Enter(c, Closer(c), [slot |-> i, lib |-> slot[i].name, image |-> slot[i].start,
                                    base |-> b, got |-> <<>>, result |-> None, at |-> "close"])
    /\ UNCHANGED <<needs, mem, heap, known, run, dead, failed>>

(* The library's Close: it stays, or without an opener expunges itself and
   returns its seglist. *)
CloseCode(c) ==
    LET a == Top(c).image
        left == mem[a].count - 1
        freed == IF Top(c).base = a THEN mem ELSE [mem EXCEPT ![Top(c).base] = Free]
    IN  /\ At(c, "close")
        /\ \/ /\ mem' = [freed EXCEPT ![a].count = left]
              /\ Goes(c, [Top(c) EXCEPT !.at = "closeDone"])
           \/ /\ left = 0
              /\ mem' = [freed EXCEPT ![a].count = 0, ![a].uses = <<>>]
              /\ Goes(c, [Top(c) EXCEPT !.at = "expunge", !.got = mem[a].uses])
        /\ UNCHANGED <<needs, slot, heap, regs, held, known, run, dead, failed>>

Expunged(c) ==
    /\ At(c, "expunge") /\ Top(c).got = <<>>
    /\ Goes(c, [Top(c) EXCEPT !.at = "closeDone", !.result = Top(c).image])
    /\ UNCHANGED <<needs, slot, mem, heap, regs, held, known, run, dead, failed>>

(* emu68k_guestlib_close_done *)
CloseDone(c) ==
    LET i == Top(c).slot
        closed == slot[i].closing
        opens == DropOne(slot[i].opens, closed)
        left == {opens[k] : k \in DOMAIN opens}
        forgotten == {closed} \ (left \cup {slot[i].base})
    IN  /\ At(c, "closeDone")
        /\ IF Top(c).result = None
           THEN /\ slot' = [slot EXCEPT ![i].closing = None, ![i].opens = opens]
                /\ known' = Unregisters(c, forgotten)
           ELSE /\ slot' = [slot EXCEPT ![i] =
                     [@ EXCEPT !.closing = None, !.opens = <<>>, !.base = None,
                               !.state = "unloaded", !.reclaim = TRUE]]
                /\ known' = Unregisters(c, forgotten \cup left \cup {slot[i].base})
        /\ Goes(c, [Top(c) EXCEPT !.at = "reclaim"])
        /\ UNCHANGED <<needs, mem, heap, regs, held, run, dead, failed>>

(* emu68k_guestlib_reclaim: the image and the trampoline are cleared; if they
   are the last allocations, their addresses are used again.  (Mutant: they
   always are.) *)
Cleared(i) == [a \in Address |-> IF a \in {slot[i].start, slot[i].close} THEN Free ELSE mem[a]]
LoweredAlways(i) == slot[i].start
Lowered(i) ==
    IF slot[i].close = slot[i].start + 1 /\ heap = slot[i].close + 1
    THEN slot[i].start ELSE heap
Reclaim(c) ==
    LET i == Top(c).slot IN
    /\ At(c, "reclaim")
    /\ IF slot[i].reclaim
       THEN /\ mem' = Cleared(i) /\ heap' = Lowered(i)
            /\ slot' = [slot EXCEPT ![i].reclaim = FALSE]
       ELSE UNCHANGED <<mem, heap, slot>>
    /\ regs' = Restored(c)
    /\ stack' = [stack EXCEPT ![c] = Below(c)]
    /\ UNCHANGED <<needs, held, known, run, dead, failed>>

----------------------------------------------------------------------------
(* Turns *)

(* A context other than the root has the bases of the ready libraries put into
   its engine when its turn begins. *)
Ready == {i \in Slot : slot[i].state = "ready"}
Replayed == UNION {Open(i) \cup {slot[i].base} : i \in Ready}
Turn(c) ==
    /\ ~failed /\ c # run /\ c \notin dead
    /\ Preempt \/ stack[run] = <<>>
    /\ run' = c
    /\ known' = IF c = Root THEN known ELSE Registers(c, Replayed)
    /\ UNCHANGED <<needs, slot, mem, heap, stack, regs, held, dead, failed>>

Fault(c) ==
    /\ Runs(c) /\ c \in Mortal
    /\ dead' = dead \cup {c}
    /\ stack' = [stack EXCEPT ![c] = <<>>]
    /\ UNCHANGED <<needs, slot, mem, heap, regs, held, known, run, failed>>

Init ==
    /\ needs \in Graphs
    /\ slot = [i \in Slot |-> Unused]
    /\ mem = [a \in Address |-> Free] /\ heap = 0
    /\ stack = [c \in Context |-> <<>>]
    /\ regs = [c \in Context |-> <<c, 0>>]
    /\ held = [c \in Context |-> <<>>]
    /\ known = [c \in Context |-> {}]
    /\ run = Root /\ dead = {} /\ failed = FALSE

Inside(c) ==
    \/ InitReturns(c) \/ InitGivesUp(c) \/ InitFails(c) \/ InitDone(c)
    \/ OpenCode(c) \/ OpenFailed(c) \/ OpenDone(c) \/ OpenOverflows(c)
    \/ CloseCode(c) \/ Expunged(c) \/ CloseDone(c) \/ Reclaim(c)
Calling(c) ==
    \/ \E n \in Lib : OpenRefused(c, n) \/ OpenAgain(c, n) \/ Load(c, n)
    \/ \E b \in Address : CloseLibrary(c, b)
Within(c) == stack[c] # <<>> /\ (Inside(c) \/ Calling(c))

Next == \E c \in Context : Inside(c) \/ Calling(c) \/ Turn(c) \/ Fault(c)
Spec == Init /\ [][Next]_vars

(* Library code that has its turn goes on. *)
FairSpec == Spec /\ \A c \in Context : WF_vars(Within(c))

----------------------------------------------------------------------------
(* Properties *)

(* Exec's promise about d2-d7 and a2-a6: whatever libraries were initialised,
   opened, closed and expunged inside a call, also when it fails, the routine
   that made it goes on with its own registers, although there is one place
   to save them for each library (emu68k_guestlib_save_preserved). *)
RegistersKept == \A c \in Context \ dead : regs[c] = <<c, Level(c)>>

(* Who holds references: programs, the Init or expunge of each call, libraries
   in memory, what their Init opened, and closes in flight. *)
Held(h) ==
    CASE h[1] = "program" -> held[h[2]]
      [] h[1] = "call"    -> stack[h[2]][h[3]].got
      [] h[1] = "library" -> mem[h[2]].uses
      [] h[1] = "flight"  -> IF stack[h[2]][h[3]].at \in {"close", "expunge", "closeDone"}
                             THEN <<stack[h[2]][h[3]].base>> ELSE <<>>
Holders ==
    ({"program"} \X Context \X {0}) \cup ({"library"} \X Address \X {0})
      \cup UNION {{"call", "flight"} \X {c} \X DOMAIN stack[c] : c \in Context}
Occurrences(s, b) == Cardinality({k \in DOMAIN s : s[k] = b})
References(b) ==
    Cardinality({r \in UNION {{h} \X DOMAIN Held(h) : h \in Holders} : Held(r[1])[r[2]] = b})

(* A base somebody holds belongs to a ready library that lists it as often as it
   is held: opens that were handed the same base are separate references, and
   neither a failed Init, a clone, a fault in the middle of a call nor the
   expunge of another library takes one away (guestlib_add_open,
   guestlib_drop_open). *)
HoldsCounted ==
    \A b \in Address : References(b) > 0 =>
        \E i \in Ready : Occurrences(slot[i].opens, b) >= References(b)

(* "Open/Close/Expunge leave no live base pointing into released memory": a
   library that answers to OpenLibrary, each base it handed out, and the code
   each call is in are where they were put, although expunged libraries give
   their addresses back (emu68k_guestlib_reclaim). *)
CodeInPlace(call) ==
    /\ mem[call.image].what = "image" /\ mem[call.image].lib = call.lib
    /\ call.at \in {"close", "expunge", "closeDone", "reclaim"} =>
         mem[slot[call.slot].close] = Trampoline(call.slot)
InPlace ==
    /\ \A i \in Ready :
         /\ mem[slot[i].base].what = "image" /\ mem[slot[i].base].lib = slot[i].name
         /\ mem[slot[i].close] = Trampoline(i)
    /\ \A c \in Context : \A b \in {held[c][k] : k \in DOMAIN held[c]} :
         mem[b].what \in {"image", "clone"}
    /\ \A c \in Context : \A k \in DOMAIN stack[c] : CodeInPlace(stack[c][k])

(* "A clone the library has just freed must stop being an address the engine
   knows" (emu68k_host.c:1604): an engine knows bases of libraries that are open.
   (Each context has its engine, and only the active one is told.) *)
KnownLive ==
    \A c \in Context : \A b \in known[c] :
        \E i \in Slot : slot[i].state \in {"opening", "ready"} /\ b \in Open(i) \cup {slot[i].base}

(* Every library call comes back, whatever its Init needs: a library that needs
   itself through others is refused instead of awaited. *)
CallsReturn == \A c \in Context : stack[c] # <<>> ~> stack[c] = <<>> \/ failed
=============================================================================
