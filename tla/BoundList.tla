------------------------------ MODULE BoundList ------------------------------
(***************************************************************************)
(* What the neighbour manager expects of an esdmI_boundList_t: entries are *)
(* added, and findFirst() followed by nextEntry() calls returns every      *)
(* entry with the wanted bound, once, in no particular order.  The B-tree  *)
(* (BoundTree) and the sorted array (BoundArray) implement it.             *)
(***************************************************************************)
EXTENDS Integers, Sequences, Functions

CONSTANTS Bounds,     \* the baked bounds
          MaxEntries, \* how many entries are ever added
          Nothing     \* no bound is wanted

VARIABLES entries,    \* the entries of the list
          wanted,     \* the bound that is being iterated, or Nothing
          found       \* the entries the iteration has returned

vars == <<entries, wanted, found>>

Entries == [bound : Bounds, cube : 1 .. MaxEntries]

Matching == {e \in entries : e.bound = wanted}

Init == entries = {} /\ wanted = Nothing /\ found = <<>>

Add ==
  /\ wanted = Nothing
  /\ \E e \in Entries \ entries : entries' = entries \cup {e}
  /\ UNCHANGED <<wanted, found>>

Find ==
  /\ wanted = Nothing
  /\ wanted' \in Bounds
  /\ UNCHANGED <<entries, found>>

Return ==
  /\ wanted # Nothing
  /\ \E e \in Matching \ Range(found) : found' = Append(found, e)
  /\ UNCHANGED <<entries, wanted>>

(* NULL is returned only when there is nothing left to return. *)
ReturnNull ==
  /\ wanted # Nothing /\ Range(found) = Matching
  /\ wanted' = Nothing /\ found' = <<>>
  /\ UNCHANGED entries

Next == Add \/ Find \/ Return \/ ReturnNull

Spec == Init /\ [][Next]_vars
=============================================================================
