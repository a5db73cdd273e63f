------------------------------ MODULE Hypercube ------------------------------
(***************************************************************************)
(* Ranges, hypercubes and dataspaces: the operators of hypercube.c and of  *)
(* the dataspace part of esdm-datatypes.c that the other modules build on. *)
(*                                                                         *)
(* A range [start, end) is a record; a hypercube is a sequence of ranges,  *)
(* one for each dimension; a dataspace has an offset, a size and a stride, *)
(* counted in elements.  Its stride is NullStride when the C pointer is    *)
(* NULL, that is when the data is contiguous in C order.                   *)
(***************************************************************************)
EXTENDS Integers, Sequences, FiniteSets, SequencesExt

Product(s) ==
  LET upTo[i \in 0 .. Len(s)] == IF i = 0 THEN 1 ELSE upTo[i - 1] * s[i]
  IN  upTo[Len(s)]

Sum(s) ==
  LET upTo[i \in 0 .. Len(s)] == IF i = 0 THEN 0 ELSE upTo[i - 1] + s[i]
  IN  upTo[Len(s)]

Abs(n) == IF n > 0 THEN n ELSE -n

MinInt(a, b) == IF a < b THEN a ELSE b

-----------------------------------------------------------------------------
(* Ranges.                                                                 *)

RangeIntersection(a, b) ==
  [start |-> IF a.start > b.start THEN a.start ELSE b.start,
   end   |-> MinInt(a.end, b.end)]

RangeIsEmpty(r) == r.start >= r.end

RangeSize(r) == IF RangeIsEmpty(r) THEN 0 ELSE r.end - r.start

-----------------------------------------------------------------------------
(* Hypercubes.  An empty intersection is a NULL pointer in the C code;     *)
(* callers here test DoesIntersect first.                                  *)

MakeCube(offset, size) ==
  [i \in DOMAIN offset |-> [start |-> offset[i], end |-> offset[i] + size[i]]]

Offsets(cube) == [i \in DOMAIN cube |-> cube[i].start]

Sizes(cube) == [i \in DOMAIN cube |-> RangeSize(cube[i])]

CubeSize(cube) == Product(Sizes(cube))

CubeIsEmpty(cube) == \E i \in DOMAIN cube : RangeIsEmpty(cube[i])

MakeIntersection(a, b) == [i \in DOMAIN a |-> RangeIntersection(a[i], b[i])]

DoesIntersect(a, b) == ~CubeIsEmpty(MakeIntersection(a, b))

Overlap(a, b) == CubeSize(MakeIntersection(a, b))

SharedBounds(a, b) ==
  {i \in DOMAIN a : a[i].start = b[i].end \/ a[i].end = b[i].start}

Touches(a, b) ==
  \E i \in DOMAIN a :
    /\ SharedBounds(a, b) = {i}
    /\ \A j \in DOMAIN a \ {i} : ~RangeIsEmpty(RangeIntersection(a[j], b[j]))

-----------------------------------------------------------------------------
(* The elements of a hypercube: the reference the algorithms are held to.  *)

Elements(cube) ==
  LET upTo[d \in 0 .. Len(cube)] ==
        IF d = 0 THEN {<<>>}
        ELSE {Append(x, k) : x \in upTo[d - 1], k \in cube[d].start .. cube[d].end - 1}
  IN  upTo[Len(cube)]

-----------------------------------------------------------------------------
(* Subtracting a hypercube from a list of hypercubes.                      *)

(* Mutant: the minuend is not reduced to the intersecting part. *)
NotNarrowed(minuend, subtrahend, d) == minuend

(* What is left of the minuend after the dimensions before d.              *)
Narrowed(minuend, subtrahend, d) ==
  [i \in DOMAIN minuend |->
     IF i < d THEN RangeIntersection(minuend[i], subtrahend[i]) ELSE minuend[i]]

(* The parts before and behind the subtrahend in dimension d that are      *)
(* added to the set again.                                                 *)
Parts(minuend, subtrahend, d) ==
  LET m      == Narrowed(minuend, subtrahend, d)
      before == [m EXCEPT ![d].end = subtrahend[d].start]
      behind == [m EXCEPT ![d].start = subtrahend[d].end]
  IN  (IF m[d].start < subtrahend[d].start THEN <<before>> ELSE <<>>)
        \o (IF m[d].end > subtrahend[d].end THEN <<behind>> ELSE <<>>)

(* The loop body for index i: the cube is replaced by the last one of the  *)
(* list, and its parts are appended.                                       *)
SubtractAt(cubes, i, subtrahend) ==
  LET minuend == cubes[i]
      without == Front([cubes EXCEPT ![i] = Last(cubes)])
  IN  IF DoesIntersect(minuend, subtrahend)
      THEN without \o FlattenSeq([d \in DOMAIN minuend |-> Parts(minuend, subtrahend, d)])
      ELSE cubes

(* Mutant: the list is walked forwards, so the cube that moves to the      *)
(* place of a removed one is not looked at.                                *)
SubtractForwards(cubes, subtrahend) ==
  FoldLeft(LAMBDA list, i : IF i \in DOMAIN list THEN SubtractAt(list, i, subtrahend) ELSE list,
           cubes, [i \in DOMAIN cubes |-> i])

Subtract(cubes, subtrahend) ==
  FoldLeft(LAMBDA list, i : SubtractAt(list, i, subtrahend),
           cubes, Reverse([i \in DOMAIN cubes |-> i]))

IsFullyCovered(cube, covering) == FoldLeft(Subtract, <<cube>>, covering) = <<>>

-----------------------------------------------------------------------------
(* Dataspaces.                                                             *)

NullStride == <<>>

Extends(space) == MakeCube(space.offset, space.size)

CreateFromHypercube(cube) ==
  [offset |-> Offsets(cube), size |-> Sizes(cube), stride |-> NullStride]

(* The size of a slice of the dimensions behind i. *)
ContiguousStride(size) ==
  [i \in DOMAIN size |-> Product(SubSeq(size, i + 1, Len(size)))]

EffectiveStride(space) ==
  IF space.stride = NullStride THEN ContiguousStride(space.size) ELSE space.stride

(* Give the space the memory layout of source; the stride stays NULL when  *)
(* the implied one is right, for which the first size does not matter.     *)
CopyDatalayout(space, source) ==
  LET implied == /\ source.stride = NullStride
                 /\ \A i \in DOMAIN space.size \ {1} : space.size[i] = source.size[i]
  IN  [space EXCEPT !.stride = IF implied THEN NullStride ELSE EffectiveStride(source)]

(* The place of the element at coords, relative to the data pointer. *)
ElementOffset(space, coords) ==
  LET stride == EffectiveStride(space)
  IN  Sum([i \in DOMAIN coords |-> (coords[i] - space.offset[i]) * stride[i]])
=============================================================================
