------------------------------ MODULE BoundTree ------------------------------
(***************************************************************************)
(* The B-tree of hypercube-neighbour-manager.c.  Nodes live on a heap and  *)
(* know their parents; the root never moves.  The steps of the machine are *)
(* the rounds of the loops and the calls of the recursion: an insertion    *)
(* walks down to a leaf and then up again as long as nodes split.          *)
(*                                                                         *)
(* Entry and child positions count from 1.  Pointers behind the last child *)
(* of a node are never read and are left out.                              *)
(***************************************************************************)
EXTENDS Integers, Sequences, SequencesExt

CONSTANTS Bounds,      \* the baked bounds
          MaxEntries,  \* how many entries are added
          Width,       \* BOUND_TREE_MAX_ENTRY_COUNT
          Null

VARIABLES node,     \* the heap: node number -> bounds, children and parent
          pc,       \* "idle", "descend", "insert", "seek", "leftmost", "ascend"
          me, pos,  \* the node and the position of the running operation
          entry,    \* the entry that is inserted; when searching, its bound
          insertChild, splittedChild,   \* arguments of boundTree_insert()
          found     \* the entries returned by the running iteration

vars == <<node, pc, me, pos, entry, insertChild, splittedChild, found>>

Root == 1

NewNode == Cardinality(DOMAIN node) + 1

NoEntry == [bound |-> 0, cube |-> 0]

InNodes == UNION {Range(node[n].bounds) : n \in DOMAIN node}

(* boundTree_insert() has been called for a child that was split: its      *)
(* middle entry is on the way to the parent.                               *)
InTransit == IF pc = "insert" /\ insertChild # Null THEN {entry} ELSE {}

-----------------------------------------------------------------------------
(* The first position with a greater bound. *)
FindBoundPosition(n, bound) ==
  Min({i \in DOMAIN node[n].bounds : node[n].bounds[i].bound > bound}
        \cup {Len(node[n].bounds) + 1})

FindChildPosition(parent, child) ==
  CHOOSE i \in DOMAIN node[parent].children : node[parent].children[i] = child

(* Mutant: the children of the new node keep their old parent. *)
KeepRelations(heap, n) == heap

FixRelations(heap, n) ==
  [k \in DOMAIN heap |->
     IF k \in Range(heap[n].children) THEN [heap[k] EXCEPT !.parent = n] ELSE heap[k]]

Init ==
  /\ node = [n \in {Root} |-> [bounds |-> <<>>, children |-> <<Null>>, parent |-> Null]]
  /\ pc = "idle" /\ me = Root /\ pos = 0 /\ entry = NoEntry
  /\ insertChild = Null /\ splittedChild = Null
  /\ found = <<>>

(* Back in the caller. *)
Done ==
  /\ pc' = "idle" /\ me' = Root /\ pos' = 0 /\ entry' = NoEntry
  /\ insertChild' = Null /\ splittedChild' = Null
  /\ found' = <<>>

Add ==
  /\ pc = "idle" /\ Cardinality(InNodes) < MaxEntries
  /\ \E b \in Bounds : entry' = [bound |-> b, cube |-> Cardinality(InNodes) + 1]
  /\ pc' = "descend"
  /\ UNCHANGED <<node, me, pos, insertChild, splittedChild, found>>

(* Walk down to the leaf that is to contain the entry. *)
Descend ==
  /\ pc = "descend"
  /\ LET child == node[me].children[FindBoundPosition(me, entry.bound)]
     IN  IF child # Null THEN me' = child /\ pc' = pc ELSE pc' = "insert" /\ me' = me
  /\ UNCHANGED <<node, pos, entry, insertChild, splittedChild, found>>

-----------------------------------------------------------------------------
(* Where boundTree_insert() puts the entry and the new child. *)
InsertPosition ==
  IF insertChild # Null THEN FindChildPosition(me, splittedChild)
                        ELSE FindBoundPosition(me, entry.bound)

BoundsWithEntry == InsertAt(node[me].bounds, InsertPosition, entry)

ChildrenWithChild == InsertAt(node[me].children, InsertPosition, insertChild)

Insert ==
  /\ pc = "insert" /\ Len(node[me].bounds) < Width
  /\ node' = [node EXCEPT ![me].bounds = BoundsWithEntry, ![me].children = ChildrenWithChild]
  /\ Done

(* Mutant: all entries stay in the lower half. *)
SplitLate == Width

SplitIndex == Width \div 2

(* The heap after the lower half of node me has moved to a node of its own *)
(* and the entry between the halves has been taken out.                    *)
Halved(left) ==
  LET lower == [bounds   |-> SubSeq(BoundsWithEntry, 1, SplitIndex),
                children |-> SubSeq(ChildrenWithChild, 1, SplitIndex + 1),
                parent   |-> node[me].parent]
      upper == [bounds   |-> SubSeq(BoundsWithEntry, SplitIndex + 2, Width + 1),
                children |-> SubSeq(ChildrenWithChild, SplitIndex + 2, Width + 2),
                parent   |-> node[me].parent]
  IN  FixRelations([n \in DOMAIN node \cup {left} |->
                      CASE n = left -> lower
                        [] n = me -> upper
                        [] OTHER -> node[n]],
                   left)

MiddleEntry == BoundsWithEntry[SplitIndex + 1]

(* A full node that is not the root: insert the middle entry one level up. *)
Split ==
  /\ pc = "insert" /\ Len(node[me].bounds) = Width /\ node[me].parent # Null
  /\ node' = Halved(NewNode)
  /\ entry' = MiddleEntry /\ insertChild' = NewNode /\ splittedChild' = me
  /\ me' = node[me].parent
  /\ UNCHANGED <<pc, pos, found>>

(* The root: its upper half moves as well, and it becomes the parent of    *)
(* the halves.                                                             *)
SplitRoot ==
  /\ pc = "insert" /\ Len(node[me].bounds) = Width /\ node[me].parent = Null
  /\ LET left == NewNode
         right == NewNode + 1
         heap == [n \in DOMAIN node \cup {left, right} |->
                    CASE n = right -> Halved(left)[me]
                      [] n = me -> [bounds |-> <<MiddleEntry>>, children |-> <<left, right>>, parent |-> Null]
                      [] OTHER -> Halved(left)[n]]
     IN  node' = FixRelations(FixRelations(heap, right), me)
  /\ Done

-----------------------------------------------------------------------------
Find ==
  /\ pc = "idle"
  /\ \E b \in Bounds : entry' = [NoEntry EXCEPT !.bound = b]
  /\ pc' = "seek"
  /\ UNCHANGED <<node, me, pos, insertChild, splittedChild, found>>

(* Mutant: the walk goes to the last entry with the bound. *)
SeekLast ==
  /\ pc = "seek"
  /\ LET p == FindBoundPosition(me, entry.bound)
         child == node[me].children[p]
     IN  IF child # Null THEN me' = child /\ UNCHANGED <<pc, pos>>
                         ELSE pos' = p /\ pc' = "ascend" /\ me' = me
  /\ UNCHANGED <<node, entry, insertChild, splittedChild, found>>

(* Walk down to the place before the first entry with the bound. *)
Seek ==
  /\ pc = "seek"
  /\ LET p == FindBoundPosition(me, entry.bound - 1)
         child == node[me].children[p]
     IN  IF child # Null THEN me' = child /\ UNCHANGED <<pc, pos>>
                         ELSE pos' = p /\ pc' = "ascend" /\ me' = me
  /\ UNCHANGED <<node, entry, insertChild, splittedChild, found>>

(* Behind the last entry of a node: the next one is in the parent. *)
Ascend ==
  /\ pc = "ascend" /\ pos = Len(node[me].bounds) + 1 /\ node[me].parent # Null
  /\ me' = node[me].parent
  /\ pos' = FindChildPosition(node[me].parent, me)
  /\ UNCHANGED <<node, pc, entry, insertChild, splittedChild, found>>

(* An entry with the bound is returned, and nextEntry() goes on behind it. *)
Return ==
  /\ pc = "ascend" /\ pos <= Len(node[me].bounds)
  /\ node[me].bounds[pos].bound = entry.bound
  /\ found' = Append(found, node[me].bounds[pos])
  /\ pos' = pos + 1 /\ pc' = "leftmost"
  /\ UNCHANGED <<node, me, entry, insertChild, splittedChild>>

Leftmost ==
  /\ pc = "leftmost"
  /\ LET child == node[me].children[pos]
     IN  IF child # Null THEN me' = child /\ pos' = 1 /\ pc' = pc
                         ELSE pc' = "ascend" /\ UNCHANGED <<me, pos>>
  /\ UNCHANGED <<node, entry, insertChild, splittedChild, found>>

ReturnNull ==
  /\ pc = "ascend"
  /\ IF pos <= Len(node[me].bounds) THEN node[me].bounds[pos].bound # entry.bound
                                    ELSE node[me].parent = Null
  /\ node' = node
  /\ Done

Next ==
  \/ Add \/ Descend \/ Insert \/ Split \/ SplitRoot
  \/ Find \/ Seek \/ Ascend \/ Return \/ Leftmost \/ ReturnNull

-----------------------------------------------------------------------------
(* The assertions at the head of boundTree_insert() and the check of       *)
(* boundTree_checkTree(): children know their parents, and a parent that   *)
(* is told of a split knows the child that was split.                      *)
RelationsConsistent ==
  /\ pc = "insert" /\ insertChild # Null =>
       /\ node[insertChild].parent = me /\ node[splittedChild].parent = me
       /\ splittedChild \in Range(node[me].children)
  /\ \A n \in DOMAIN node : \A c \in Range(node[n].children) \ {Null} : node[c].parent = n

IsLeaf(n) == Null \in Range(node[n].children)

(* The path from a node to the root; longer than the heap on a cycle.      *)
Depth(n) ==
  LET up[k \in Nat] == IF k = 0 THEN n
                       ELSE IF up[k - 1] = Null THEN Null ELSE node[up[k - 1]].parent
  IN  CHOOSE k \in 0 .. Cardinality(DOMAIN node) : up[k] = Root

(* The tree stays balanced, whatever the order of the bounds: between      *)
(* operations all leaves have the same depth and all nodes but the root    *)
(* are at least half full, so lookups take logarithmic time ("We simply    *)
(* cannot tolerate quadratic complexities").                               *)
Balanced ==
  pc = "idle" =>
    /\ \A m, n \in {k \in DOMAIN node : IsLeaf(k)} : Depth(m) = Depth(n)
    /\ \A n \in DOMAIN node \ {Root} : Len(node[n].bounds) >= Width \div 2
    /\ \A n \in DOMAIN node : IsLeaf(n) => Range(node[n].children) = {Null}
=============================================================================
