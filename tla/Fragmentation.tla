---------------------------- MODULE Fragmentation ----------------------------
(***************************************************************************)
(* How a write is cut into fragments (esdm-scheduler.c):                   *)
(* esdm_scheduler_enqueue_write() first gives every backend a slab of the  *)
(* dataspace in proportion to its estimated throughput (splitToBackends()),*)
(* then cuts each slab with the method the backend is configured for       *)
(* (esdm_scheduler_makeSplitRecommendation()).                             *)
(*                                                                         *)
(* Backends are numbered from 0.  Throughputs are natural numbers: for the *)
(* small numbers here the float arithmetic of the code is exact up to the  *)
(* final rounding, which Round() models.                                   *)
(***************************************************************************)
EXTENDS Hypercube

CONSTANTS Spaces,       \* the dataspaces that may be written
          BackendCount,
          Throughputs,  \* what estimate_throughput() may return
          FragmentSizes,\* the values of max_fragment_size
          ElementSize,  \* esdm_sizeof() of the type of the dataspace
          Null,         \* an entry of the array of hypercubes that is NULL
          Unset         \* an entry of the malloc()ed array that nobody wrote

Methods == {"equalized", "contiguous"}

Backends == 0 .. BackendCount - 1

VARIABLES space,     \* the dataspace of the write
          weights,   \* estimate_throughput() of each backend
          method,    \* config->fragmentation_method of each backend
          maxSize,   \* config->max_fragment_size of each backend
          pc,        \* "split", "assign", "cut", "done" or "crashed"
          index,     \* the loop counter over the backends
          outValid,  \* out_backendExtends still points to the array
          extends,   \* the array backendExtends[]
          fragments  \* the fragments created: <<backend, hypercube>>

vars == <<space, weights, method, maxSize, pc, index, outValid, extends, fragments>>

inputs == <<space, weights, method, maxSize>>

SpaceDims == DOMAIN space.size

Bytes(cube) == CubeSize(cube) * ElementSize

-----------------------------------------------------------------------------
(* Mutant: the remainder of the division is lost. *)
SliceStartEven(i, n, size) == i * (size \div n)

(* The start of the i-th of n slices of [0, size). *)
SliceStart(i, n, size) == (i * size) \div n

Slice(offset, size, i, n) ==
  [start |-> offset + SliceStart(i, n, size), end |-> offset + SliceStart(i + 1, n, size)]

CeilDiv(a, b) == (a + b - 1) \div b

Power(n, k) == Product([i \in 1 .. k |-> n])

(* floor(pow(maxFragmentSize / elementSize, 1.0 / splitDims)).  The        *)
(* exponent is inexact for more than two dimensions, so that the root of a *)
(* perfect power may come out just below the integer.                      *)
EdgeLengths(size, max) ==
  LET splitDims == Cardinality({i \in DOMAIN size : size[i] > 1})
      edge      == Max({e \in 1 .. max : Power(e, splitDims) * ElementSize <= max})
      inexact   == splitDims > 2 /\ edge > 1 /\ Power(edge, splitDims) * ElementSize = max
  IN  IF inexact THEN {edge - 1, edge} ELSE {edge}

(* Mutant: the number of slices is rounded down. *)
FewerFactors(size, edge) ==
  [i \in DOMAIN size |-> IF size[i] < edge THEN 1 ELSE size[i] \div edge]

SplitFactors(size, edge) == [i \in DOMAIN size |-> CeilDiv(size[i], edge)]

(* makeSplitRecommendation_balancedDims(): slices of about the same length *)
(* in every dimension.                                                     *)
BalancedDims(sp, factors) ==
  LET coords == {c \in [DOMAIN factors -> 0 .. Max({factors[i] : i \in DOMAIN factors}) - 1] :
                   \A i \in DOMAIN factors : c[i] < factors[i]}
  IN  {[i \in DOMAIN sp.size |-> Slice(sp.offset[i], sp.size[i], c[i], factors[i])] : c \in coords}

(* Mutant: the dimensions are taken in C order, whatever their strides. *)
SortedByIndex(sp) == {Reverse([i \in DOMAIN sp.size |-> i])}

(* The orders qsort() may leave the dimensions in: by |stride|, ties in    *)
(* any order.                                                              *)
SortedDims(sp) ==
  LET stride == EffectiveStride(sp)
  IN  {order \in SetToSeqs(DOMAIN sp.size) :
         \A i, j \in DOMAIN order :
           i < j => Abs(stride[order[i]]) <= Abs(stride[order[j]])}

(* The bytes of a slice over the first n of the sorted dimensions. *)
InnerBytes(sp, order, n) == ElementSize * Product([i \in 1 .. n |-> sp.size[order[i]]])

(* The first dimension that cannot be kept whole; 0 when there is none and *)
(* the assertion of the code fails.                                        *)
SplitDim(sp, order, max) ==
  SelectInSeq([i \in DOMAIN order |-> InnerBytes(sp, order, i)], LAMBDA b : b >= max)

(* makeSplitRecommendation_contiguousFragments(): the dimensions before    *)
(* the split dimension stay whole, the ones behind it are cut to single    *)
(* indices.                                                                *)
Contiguous(sp, max, order) ==
  LET k         == SplitDim(sp, order, max)
      d         == order[k]
      thickness == max \div InnerBytes(sp, order, k - 1)
      slices    == CeilDiv(sp.size[d], thickness)
      outer     == {order[i] : i \in k + 1 .. Len(order)}
      cut(i)    == IF i = d THEN {Slice(sp.offset[i], sp.size[i], s, slices) : s \in 0 .. slices - 1}
                   ELSE IF i \in outer
                   THEN {[start |-> x, end |-> x + 1] : x \in sp.offset[i] .. sp.offset[i] + sp.size[i] - 1}
                   ELSE {Extends(sp)[i]}
  IN  IF CubeSize(Extends(sp)) * ElementSize < max
      THEN {Extends(sp)}
      ELSE {c \in [DOMAIN sp.size -> UNION {cut(i) : i \in DOMAIN sp.size}] :
              \A i \in DOMAIN sp.size : c[i] \in cut(i)}

(* esdm_scheduler_makeSplitRecommendation(): the results it may return. *)
SplitRecommendations(sp, b) ==
  IF method[b] = "contiguous"
  THEN {Contiguous(sp, maxSize[b], order) : order \in SortedDims(sp)}
  ELSE IF \A i \in DOMAIN sp.size : sp.size[i] <= 1
  THEN {{Extends(sp)}}
  ELSE {BalancedDims(sp, SplitFactors(sp.size, e)) : e \in EdgeLengths(sp.size, maxSize[b])}

-----------------------------------------------------------------------------
(* splitToBackends().                                                      *)

(* The last of the dimensions with the largest stride that can be split;   *)
(* 0 when there is only one element.                                       *)
BestDim ==
  LET stride     == EffectiveStride(space)
      splittable == {i \in SpaceDims : space.size[i] > 1}
      best       == {i \in splittable : \A j \in splittable : Abs(stride[j]) <= Abs(stride[i])}
  IN  IF best = {} THEN 0 ELSE Max(best)

Cumulative(b) == FoldLeft(LAMBDA x, y : x + y, 0, [i \in 1 .. b + 1 |-> weights[i - 1]])

(* roundf(a / b): halves are rounded up. *)
Round(a, b) == (2 * a + b) \div (2 * b)

(* bounds[b]: where the slab of backend b starts. *)
Bound(b) ==
  LET r == Extends(space)[BestDim]
  IN  IF b = 0 THEN r.start
      ELSE IF b = BackendCount THEN r.end
      ELSE Round(Cumulative(b - 1) * RangeSize(r), Cumulative(BackendCount - 1)) + r.start

(* The last one of the fastest backends. *)
BestBackend == Max({b \in Backends : \A c \in Backends : weights[c] <= weights[b]})

Init ==
  /\ space \in Spaces
  /\ weights \in [Backends -> Throughputs]
  /\ method \in [Backends -> Methods]
  /\ maxSize \in [Backends -> FragmentSizes]
  /\ pc = "split" /\ index = 0 /\ outValid = TRUE
  /\ extends = [b \in Backends |-> Unset]
  /\ fragments = {}

(* A single element goes to the fastest backend. *)
AssignToFastest ==
  /\ pc = "split" /\ BestDim = 0
  /\ extends' = [b \in Backends |-> IF b = BestBackend THEN Extends(space) ELSE Null]
  /\ pc' = "cut"
  /\ UNCHANGED <<inputs, index, outValid, fragments>>

AssignSlabs ==
  /\ pc = "split" /\ BestDim # 0
  /\ pc' = "assign"
  /\ UNCHANGED <<inputs, index, outValid, extends, fragments>>

(* The loop goes on with the next backend, or the next loop begins. *)
NextBackend ==
  IF index + 1 \in Backends THEN index' = index + 1 /\ UNCHANGED pc
  ELSE index' = 0 /\ pc' = IF pc = "assign" THEN "cut" ELSE "done"

(* An empty slab: the pointer to the array is set to NULL, not its entry. *)
SkipBackend ==
  /\ pc = "assign" /\ Bound(index) = Bound(index + 1)
  /\ outValid' = FALSE
  /\ NextBackend
  /\ UNCHANGED <<inputs, extends, fragments>>

AssignSlab ==
  /\ pc = "assign" /\ Bound(index) # Bound(index + 1) /\ outValid
  /\ extends' = [extends EXCEPT ![index] =
       [Extends(space) EXCEPT ![BestDim] = [start |-> Bound(index), end |-> Bound(index + 1)]]]
  /\ NextBackend
  /\ UNCHANGED <<inputs, outValid, fragments>>

(* A store through the NULL pointer. *)
AssignThroughNull ==
  /\ pc = "assign" /\ Bound(index) # Bound(index + 1) /\ ~outValid
  /\ pc' = "crashed"
  /\ UNCHANGED <<inputs, index, outValid, extends, fragments>>

-----------------------------------------------------------------------------
(* The loop of esdm_scheduler_enqueue_write() over the backends.           *)

(* Also an entry that was never written may happen to be zero. *)
CutNothing ==
  /\ pc = "cut" /\ extends[index] \in {Null, Unset}
  /\ NextBackend
  /\ UNCHANGED <<inputs, outValid, extends, fragments>>

(* An entry that was never written is used as a pointer. *)
CutGarbage ==
  /\ pc = "cut" /\ extends[index] = Unset
  /\ pc' = "crashed"
  /\ UNCHANGED <<inputs, index, outValid, extends, fragments>>

CutSlab ==
  /\ pc = "cut" /\ extends[index] \notin {Null, Unset}
  /\ LET backendSpace == CopyDatalayout(CreateFromHypercube(extends[index]), space)
     IN  \E cubes \in SplitRecommendations(backendSpace, index) :
           fragments' = fragments \cup ({index} \X cubes)
  /\ NextBackend
  /\ UNCHANGED <<inputs, outValid, extends>>

Next ==
  \/ AssignToFastest \/ AssignSlabs \/ SkipBackend \/ AssignSlab \/ AssignThroughNull
  \/ CutNothing \/ CutGarbage \/ CutSlab

Spec == Init /\ [][Next]_vars

-----------------------------------------------------------------------------
(* The slabs that have not been cut yet. *)
Uncut == {b \in Backends : pc = "cut" /\ b >= index /\ extends[b] \notin {Null, Unset}}

AllCubes == {f[2] : f \in fragments} \cup {extends[b] : b \in Uncut}

(* What is written is the dataspace, every element once: at any point of   *)
(* the loop of enqueue_write() the fragments and the slabs still to be cut *)
(* are a partition of it.                                                  *)
FragmentsPartition ==
  pc \in {"cut", "done"} =>
    /\ \A c, d \in AllCubes : c # d => ~DoesIntersect(c, d)
    /\ UNION {Elements(c) : c \in AllCubes} = Elements(Extends(space))

(* No fragment is larger than the max_fragment_size of its backend, with   *)
(* either method, and none is empty (esdmI_fragment_create() asserts it).  *)
FragmentsFit ==
  \A f \in fragments : ~CubeIsEmpty(f[2]) /\ Bytes(f[2]) <= maxSize[f[1]]

(* The places of a hypercube in the caller's buffer form one block. *)
OneBlock(cube) ==
  LET places == {ElementOffset(space, x) : x \in Elements(cube)}
  IN  Max(places) - Min(places) + 1 = Cardinality(places)

(* The contiguous method does what its name says: if the data of the write *)
(* is one block of memory, in any order of the dimensions and directions,  *)
(* then so is the data of every fragment.                                  *)
FragmentsContiguous ==
  OneBlock(Extends(space)) =>
    \A f \in fragments : method[f[1]] = "contiguous" => OneBlock(f[2])

(* The comment on splitToBackends() (esdm-scheduler.c:681): "this function *)
(* will either create a hypercube for each entry or set it to NULL".       *)
ExtendsDecided ==
  /\ pc = "cut" => \A b \in Backends : extends[b] # Unset
  /\ pc # "crashed"
=============================================================================
