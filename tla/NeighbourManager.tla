-------------------------- MODULE NeighbourManager --------------------------
(***************************************************************************)
(* esdmI_hypercubeNeighbourManager_pushBack(): for every hypercube the     *)
(* manager keeps the list of the hypercubes next to it.  A new cube is     *)
(* looked up in one list of bounds for each dimension; the lists are those *)
(* of BoundList, so the order of the found entries is of no importance     *)
(* and a list of neighbours is a bag.  One step of the machine is one of   *)
(* the two lookups in one dimension, with the entry that is added after    *)
(* it.                                                                     *)
(***************************************************************************)
EXTENDS Hypercube, Bags, BagsExt

CONSTANTS Cubes,     \* the hypercubes that may be added
          Dims,      \* the number of dimensions
          MaxCubes   \* how many are added

VARIABLES cubes,       \* list.cubes
          neighbours,  \* neighbourLists: index -> bag of indices
          bounds,      \* boundLists: dimension -> set of entries
          dim,         \* the dimension being looked at, 0 between calls
          half         \* which bound of the new cube: "start" or "end"

vars == <<cubes, neighbours, bounds, dim, half>>

(* The lowest bit says what the bound is. *)
BakeBound(bound, isStart) == 2 * bound + (IF isStart THEN 1 ELSE 0)

New == Len(cubes)

Entry(baked, i) == [bakedBound |-> baked, cubeIndex |-> i]

(* The cubes that the iteration over a bound list finds next to the new    *)
(* one.                                                                    *)
Hits(d, baked) ==
  {i \in 1 .. New : Entry(baked, i) \in bounds[d] /\ Touches(cubes[New], cubes[i])}

Init ==
  /\ cubes = <<>> /\ neighbours = <<>>
  /\ bounds = [d \in 1 .. Dims |-> {}]
  /\ dim = 0 /\ half = "start"

PushBack ==
  /\ dim = 0 /\ Len(cubes) < MaxCubes
  /\ \E c \in Cubes : cubes' = Append(cubes, c)
  /\ neighbours' = Append(neighbours, EmptyBag)
  /\ dim' = 1 /\ half' = "start"
  /\ UNCHANGED bounds

(* Both cubes learn of each other. *)
Record(hits) ==
  neighbours' = [i \in DOMAIN neighbours |->
                   CASE i = New -> neighbours[i] (+) SetToBag(hits)
                     [] i \in hits -> BagAdd(neighbours[i], New)
                     [] OTHER -> neighbours[i]]

(* Mutant: the start is compared with other starts. *)
LookupStartWrong ==
  /\ dim > 0 /\ half = "start"
  /\ Record(Hits(dim, BakeBound(cubes[New][dim].start, TRUE)))
  /\ bounds' = [bounds EXCEPT ![dim] = @ \cup {Entry(BakeBound(cubes[New][dim].start, TRUE), New)}]
  /\ half' = "end"
  /\ UNCHANGED <<cubes, dim>>

LookupStart ==
  /\ dim > 0 /\ half = "start"
  /\ Record(Hits(dim, BakeBound(cubes[New][dim].start, FALSE)))
  /\ bounds' = [bounds EXCEPT ![dim] = @ \cup {Entry(BakeBound(cubes[New][dim].start, TRUE), New)}]
  /\ half' = "end"
  /\ UNCHANGED <<cubes, dim>>

LookupEnd ==
  /\ dim > 0 /\ half = "end"
  /\ Record(Hits(dim, BakeBound(cubes[New][dim].end, TRUE)))
  /\ bounds' = [bounds EXCEPT ![dim] = @ \cup {Entry(BakeBound(cubes[New][dim].end, FALSE), New)}]
  /\ half' = "start"
  /\ dim' = IF dim = Dims THEN 0 ELSE dim + 1
  /\ UNCHANGED cubes

Next == PushBack \/ LookupStart \/ LookupEnd

Spec == Init /\ [][Next]_vars

-----------------------------------------------------------------------------
(* Two hypercubes are neighbours when they have no element in common and   *)
(* an element of one is one step away from an element of the other.        *)
OneStep(x, y) ==
  \E i \in DOMAIN x : Abs(x[i] - y[i]) = 1 /\ \A j \in DOMAIN x \ {i} : x[j] = y[j]

Adjacent(a, b) ==
  /\ Elements(a) \cap Elements(b) = {}
  /\ \E x \in Elements(a), y \in Elements(b) : OneStep(x, y)

(* Between calls the lists hold exactly the neighbours, each once, in      *)
(* whatever order the cubes were added and however many bounds they share: *)
(* the lookup of equal bounds and the test for one shared bound find all   *)
(* adjacent cubes and no cube that only meets at an edge or overlaps.      *)
NeighboursExact ==
  dim = 0 =>
    \A i \in DOMAIN cubes :
      neighbours[i] = SetToBag({j \in DOMAIN cubes : Adjacent(cubes[i], cubes[j])})
=============================================================================
