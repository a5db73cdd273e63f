----------------------------- MODULE BoundArray -----------------------------
(***************************************************************************)
(* The sorted array of hypercube-neighbour-manager.c, the other            *)
(* implementation of bound lists.  The rounds of the binary search are     *)
(* steps.  Array positions count from 1; the growth of the allocation is   *)
(* left out.                                                               *)
(***************************************************************************)
EXTENDS Integers, Sequences, SequencesExt

CONSTANTS Bounds,      \* the baked bounds
          MaxEntries   \* how many entries are added

VARIABLES list,       \* entries[0 .. count - 1]
          pc,         \* "idle", "lookup" or "next"
          low, high,  \* the interval of the binary search
          pos,        \* the iterator
          entry,      \* the entry that is added; when searching, its bound
          found       \* the entries returned by the running iteration

vars == <<list, pc, low, high, pos, entry, found>>

NoEntry == [bound |-> 0, cube |-> 0]

IsSearch == entry.cube = 0

Init ==
  /\ list = <<>> /\ pc = "idle" /\ low = 0 /\ high = 0 /\ pos = 0
  /\ entry = NoEntry /\ found = <<>>

Done ==
  /\ pc' = "idle" /\ low' = 0 /\ high' = 0 /\ pos' = 0
  /\ entry' = NoEntry /\ found' = <<>>

StartLookup == pc' = "lookup" /\ low' = 1 /\ high' = Len(list) + 1

Add ==
  /\ pc = "idle" /\ Len(list) < MaxEntries
  /\ \E b \in Bounds : entry' = [bound |-> b, cube |-> Len(list) + 1]
  /\ StartLookup
  /\ UNCHANGED <<list, pos, found>>

Find ==
  /\ pc = "idle"
  /\ \E b \in Bounds : entry' = [NoEntry EXCEPT !.bound = b]
  /\ StartLookup
  /\ UNCHANGED <<list, pos, found>>

Middle == (low + high) \div 2

(* Mutant: the lower half does not exclude its middle. *)
LookupStuck ==
  /\ pc = "lookup" /\ low < high
  /\ IF list[Middle].bound < entry.bound THEN low' = Middle /\ high' = high
                                         ELSE high' = Middle /\ low' = low
  /\ UNCHANGED <<list, pc, pos, entry, found>>

Lookup ==
  /\ pc = "lookup" /\ low < high
  /\ IF list[Middle].bound < entry.bound THEN low' = Middle + 1 /\ high' = high
                                         ELSE high' = Middle /\ low' = low
  /\ UNCHANGED <<list, pc, pos, entry, found>>

Insert ==
  /\ pc = "lookup" /\ low = high /\ ~IsSearch
  /\ list' = InsertAt(list, high, entry)
  /\ Done

(* The first entry, or the next one, if it has the bound. *)
ReturnAt(p) ==
  IF p <= Len(list) /\ list[p].bound = entry.bound
  THEN /\ found' = Append(found, list[p])
       /\ pos' = p /\ pc' = "next"
       /\ UNCHANGED <<list, low, high, entry>>
  ELSE list' = list /\ Done

FindFirst == pc = "lookup" /\ low = high /\ IsSearch /\ ReturnAt(high)

NextEntry == pc = "next" /\ ReturnAt(pos + 1)

Next == Add \/ Find \/ Lookup \/ Insert \/ FindFirst \/ NextEntry
=============================================================================
