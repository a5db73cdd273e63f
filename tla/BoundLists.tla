----------------------------- MODULE BoundLists -----------------------------
(***************************************************************************)
(* A bound list as boundList_create() makes it: the configuration says     *)
(* whether it is a B-tree (BoundTree) or a sorted array (BoundArray).      *)
(***************************************************************************)
EXTENDS Integers, Sequences, Functions

CONSTANTS Bounds, MaxEntries, Width, Null

VARIABLES implementation,   \* boundListImplementation
          pc, entry, pos, found,                    \* the running call
          node, me, insertChild, splittedChild,     \* the tree
          list, low, high                           \* the array

vars == <<implementation, pc, entry, pos, found, node, me, insertChild, splittedChild,
          list, low, high>>

Tree == INSTANCE BoundTree

Array == INSTANCE BoundArray

Init == implementation \in {"btree", "array"} /\ Tree!Init /\ Array!Init

TreeStep ==
  /\ implementation = "btree" /\ Tree!Next
  /\ UNCHANGED <<implementation, list, low, high>>

ArrayStep ==
  /\ implementation = "array" /\ Array!Next
  /\ UNCHANGED <<implementation, node, me, insertChild, splittedChild>>

Next == TreeStep \/ ArrayStep

(* A call that has begun goes on; nothing makes the caller call.           *)
Fairness == WF_vars(Next /\ pc # "idle")

Spec == Init /\ [][Next]_vars /\ Fairness

-----------------------------------------------------------------------------
Abstract ==
  INSTANCE BoundList WITH
    Nothing <- Null,
    entries <- IF implementation = "btree" THEN Tree!InNodes \cup Tree!InTransit ELSE Range(list),
    wanted  <- IF pc # "idle" /\ entry.cube = 0 THEN entry.bound ELSE Null

(* Both lists are a plain collection of entries for their user: whatever   *)
(* nodes are split, an insertion adds one entry and loses none, and        *)
(* findFirst() and nextEntry() return all entries with the bound, each     *)
(* once, before they return NULL, also when equal bounds are spread over   *)
(* several nodes or the list is empty.                                     *)
ImplementsBoundList == Abstract!Spec

(* The parent pointers of the B-tree, see BoundTree.                       *)
RelationsConsistent == Tree!RelationsConsistent

(* The B-tree stays balanced, see BoundTree.                               *)
Balanced == Tree!Balanced

(* The walks in the tree and the binary search end: every call returns.    *)
CallsReturn == []<>(pc = "idle")
=============================================================================
