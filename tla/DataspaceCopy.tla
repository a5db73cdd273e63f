---------------------------- MODULE DataspaceCopy ----------------------------
(***************************************************************************)
(* esdm_dataspace_copy_data() (esdm-scheduler.c): copy the overlap of two  *)
(* dataspaces from one buffer to another with few memcpy() calls.          *)
(*                                                                         *)
(* esdmI_dataspace_copy_instructions() fuses dimensions that lie in the    *)
(* same way in both buffers into one chunk, orders the others by their     *)
(* strides and makes the strides relative, so that the loop only adds to   *)
(* two pointers.  The steps of the machine are the rounds of the two       *)
(* loops: one fused dimension, and one copied chunk.                       *)
(*                                                                         *)
(* Memory is counted in elements of one type.  The source holds, at every  *)
(* place, the number of the place; untouched places of the destination are *)
(* Untouched.                                                              *)
(***************************************************************************)
EXTENDS Hypercube

CONSTANTS Pairs,      \* the pairs of a source and a destination space considered
          Untouched   \* what a place holds before the copy

VARIABLES src, dst,   \* sourceSpace, destSpace
          pc,         \* "start", "fuse", "plan", "copy", "done" or "undefined"
          fused,      \* memcpyDims[], chunkSize and dataPointerOffset
          plan,       \* the sizes and relative strides that are iterated over
          source,     \* the pointer into the source buffer
          dest,       \* the pointer into the destination buffer
          counters,   \* the loop counters of the dimensions that are iterated
          memory      \* the places of the destination buffer that were written

vars == <<src, dst, pc, fused, plan, source, dest, counters, memory>>

Common == MakeIntersection(Extends(src), Extends(dst))

NoPlan == [size |-> <<>>, relSource |-> <<>>, relDest |-> <<>>]

-----------------------------------------------------------------------------
SourceStride == EffectiveStride(src)

DestStride == EffectiveStride(dst)

(* The dimensions that continue the chunk in both buffers. *)
FusableDims ==
  {i \in DOMAIN src.size \ fused.dims :
     SourceStride[i] = DestStride[i] /\ Abs(SourceStride[i]) = fused.chunk}

Init ==
  /\ \E p \in Pairs : src = p[1] /\ dst = p[2]
  /\ pc = "start"
  /\ fused = [dims |-> {}, chunk |-> 1, back |-> 0]
  /\ plan = NoPlan
  /\ source = 0 /\ dest = 0 /\ counters = <<>>
  /\ memory = [a \in {} |-> Untouched]

Start ==
  /\ pc = "start" /\ DoesIntersect(Extends(src), Extends(dst))
  /\ pc' = "fuse"
  /\ UNCHANGED <<src, dst, fused, plan, source, dest, counters, memory>>

(* Without an overlap copy_instructions() returns before it sets           *)
(* *out_instructionDims; the caller goes on with whatever its local        *)
(* variable holds: a negative value, which ends the copy, or any other.    *)
StartNothing ==
  /\ pc = "start" /\ ~DoesIntersect(Extends(src), Extends(dst))
  /\ pc' \in {"done", "undefined"}
  /\ UNCHANGED <<src, dst, fused, plan, source, dest, counters, memory>>

(* Dimension i becomes part of the chunk.  With a negative stride the      *)
(* chunk begins at the last slice.                                         *)
AddToChunk(i) ==
  LET n == RangeSize(Common[i])
  IN  [dims  |-> fused.dims \cup {i},
       chunk |-> fused.chunk * n,
       back  |-> IF SourceStride[i] < 0 THEN fused.back + fused.chunk * (n - 1) ELSE fused.back]

(* Mutant: the direction of the stride is ignored. *)
FuseForwards ==
  /\ pc = "fuse" /\ FusableDims # {}
  /\ LET i == Max(FusableDims)
     IN  /\ fused' = [AddToChunk(i) EXCEPT !.back = 0]
         /\ pc' = IF src.size[i] = RangeSize(Common[i]) /\ dst.size[i] = RangeSize(Common[i])
                  THEN "fuse" ELSE "plan"
  /\ UNCHANGED <<src, dst, plan, source, dest, counters, memory>>

(* A round of the first loop; a dimension that is not copied whole must be *)
(* the last one of the chunk.                                              *)
Fuse ==
  /\ pc = "fuse" /\ FusableDims # {}
  /\ LET i == Max(FusableDims)
     IN  /\ fused' = AddToChunk(i)
         /\ pc' = IF src.size[i] = RangeSize(Common[i]) /\ dst.size[i] = RangeSize(Common[i])
                  THEN "fuse" ELSE "plan"
  /\ UNCHANGED <<src, dst, plan, source, dest, counters, memory>>

(* Mutant: the loop is not left when no dimension fits. *)
EndFuseLoops ==
  /\ pc = "fuse" /\ FusableDims = {} /\ fused.dims # {}
  /\ pc' = "plan"
  /\ UNCHANGED <<src, dst, fused, plan, source, dest, counters, memory>>

EndFuse ==
  /\ pc = "fuse" /\ FusableDims = {}
  /\ pc' = "plan"
  /\ UNCHANGED <<src, dst, fused, plan, source, dest, counters, memory>>

-----------------------------------------------------------------------------
(* Mutant: selectedDims[] starts empty, so fused dimensions are iterated. *)
AllDims ==
  LET jump(i) == MinInt(Abs(SourceStride[i]), Abs(DestStride[i]))
  IN  SetToSortSeq(DOMAIN src.size,
                   LAMBDA i, j : jump(i) > jump(j) \/ (jump(i) = jump(j) /\ i < j))

(* The order of the remaining dimensions: largest jump first, ties in      *)
(* index order.                                                            *)
InstructionDims ==
  LET jump(i) == MinInt(Abs(SourceStride[i]), Abs(DestStride[i]))
  IN  SetToSortSeq(DOMAIN src.size \ fused.dims,
                   LAMBDA i, j : jump(i) > jump(j) \/ (jump(i) = jump(j) /\ i < j))

(* Mutant: the stride of the next dimension is subtracted only once. *)
RelativeToElement(stride, order) ==
  [k \in DOMAIN order |->
     stride[order[k]] - (IF k = Len(order) THEN 0 ELSE stride[order[k + 1]])]

(* The step from the end of a slice of the next dimension to the next      *)
(* slice of this one.                                                      *)
RelativeStride(stride, order) ==
  [k \in DOMAIN order |->
     stride[order[k]] - (IF k = Len(order) THEN 0
                         ELSE RangeSize(Common[order[k + 1]]) * stride[order[k + 1]])]

Plan ==
  /\ pc = "plan"
  /\ \E order \in {InstructionDims} :
       /\ plan' = [size      |-> [k \in DOMAIN order |-> RangeSize(Common[order[k]])],
                   relSource |-> RelativeStride(SourceStride, order),
                   relDest   |-> RelativeStride(DestStride, order)]
       /\ counters' = [k \in DOMAIN order |-> 0]
  /\ source' = ElementOffset(src, Offsets(Common)) - fused.back
  /\ dest' = ElementOffset(dst, Offsets(Common)) - fused.back
  /\ pc' = "copy"
  /\ UNCHANGED <<src, dst, fused, memory>>

-----------------------------------------------------------------------------
(* The dimensions from the last one to k whose counter has just run over. *)
RunOver(k) == \A j \in k + 1 .. Len(counters) : counters[j] + 1 = plan.size[j]

(* One chunk is copied; then the pointers and the counters move on.        *)
CopyChunk ==
  /\ pc = "copy"
  /\ memory' = [a \in DOMAIN memory \cup (dest .. dest + fused.chunk - 1) |->
                  IF a \in dest .. dest + fused.chunk - 1 THEN source + (a - dest) ELSE memory[a]]
  /\ source' = source + Sum([k \in DOMAIN counters |-> IF RunOver(k) THEN plan.relSource[k] ELSE 0])
  /\ dest' = dest + Sum([k \in DOMAIN counters |-> IF RunOver(k) THEN plan.relDest[k] ELSE 0])
  /\ counters' = [k \in DOMAIN counters |->
                    IF RunOver(k) THEN (counters[k] + 1) % plan.size[k] ELSE counters[k]]
  /\ pc' = IF RunOver(0) THEN "done" ELSE "copy"
  /\ UNCHANGED <<src, dst, fused, plan>>

Next == Start \/ StartNothing \/ Fuse \/ EndFuse \/ Plan \/ CopyChunk

Fairness == WF_vars(Next)

Spec == Init /\ [][Next]_vars /\ Fairness

-----------------------------------------------------------------------------
SourceAt(x) == ElementOffset(src, x)

DestAt(x) == ElementOffset(dst, x)

(* Every place that is written is the place of a common element and gets   *)
(* the value of that element: no order of chunks and strides ever copies   *)
(* to a place outside the overlap.                                         *)
CopiesOnlyOverlap ==
  \A a \in DOMAIN memory :
    \E x \in Elements(Common) : DestAt(x) = a /\ SourceAt(x) = memory[a]

(* At the end all common elements have been copied: the result is that of  *)
(* copying element by element.                                             *)
CopiesAllOverlap ==
  pc = "done" /\ DoesIntersect(Extends(src), Extends(dst)) =>
    \A x \in Elements(Common) : DestAt(x) \in DOMAIN memory /\ memory[DestAt(x)] = SourceAt(x)

(* No place is written twice. *)
CopiesOnce ==
  [][pc = "copy" => (dest .. dest + fused.chunk - 1) \cap DOMAIN memory = {}]_vars

(* The loop ends. *)
CopyEnds == <>(pc \in {"done", "undefined"})
=============================================================================
