---------------------------- MODULE HypercubeList ----------------------------
(***************************************************************************)
(* Lists and sets of hypercubes (hypercube.c), as a read uses them for its *)
(* fragments.                                                              *)
(*                                                                         *)
(* fragmentsCoverRegion() subtracts one fragment after the other from the  *)
(* requested region; what is left is filled, or the read fails.            *)
(* esdmI_hypercubeList_nonredundantSubsets() drops cubes from a list, in   *)
(* random order, as long as the others cover them: those that nothing can  *)
(* replace are found first (requiredCubes), then findMinimalSubset() looks *)
(* at the others one at a time.  The intersection matrix is represented by *)
(* the cubes that have not been taken out of it.                           *)
(***************************************************************************)
EXTENDS Hypercube

CONSTANTS Regions,  \* the hypercubes that may be requested
          Lists     \* the lists of hypercubes considered

VARIABLES region,   \* the requested region
          list,     \* the cubes of the fragments
          taken,    \* how many of them have been subtracted
          rest,     \* what is left: list.cubes[] of the set
          pc,       \* "cover" or "select"
          required, \* requiredCubes
          checked,  \* checkedCubes
          selected  \* out_selectedCubes

vars == <<region, list, taken, rest, pc, required, checked, selected>>

coverVars == <<region, list, taken, rest>>

Init ==
  /\ region \in Regions /\ list \in Lists
  /\ taken = 0 /\ rest = <<region>>
  /\ pc = "cover"
  /\ required = {} /\ checked = {} /\ selected = {}

(* A round of the loop of fragmentsCoverRegion(). *)
SubtractFragment ==
  /\ pc = "cover" /\ taken < Len(list)
  /\ taken' = taken + 1
  /\ rest' = Subtract(rest, list[taken + 1])
  /\ UNCHANGED <<region, list, pc, required, checked, selected>>

-----------------------------------------------------------------------------
(* Row i of the intersection matrix, without the NULL entries: the         *)
(* intersections of cube i with the other cubes in present.                *)
Row(cubes, i, present) ==
  LET hit(j) == j \in present \ {i} /\ DoesIntersect(cubes[i], cubes[j])
      idx    == SelectSeq([j \in DOMAIN cubes |-> j], hit)
  IN  [k \in DOMAIN idx |-> MakeIntersection(cubes[i], cubes[idx[k]])]

(* The sum over a row of intersectionSizes: the diagonal is the cube itself. *)
Coverage(cubes, i) ==
  FoldLeft(LAMBDA a, b : a + b, 0, [j \in DOMAIN cubes |-> Overlap(cubes[i], cubes[j])])

(* Mutant: the size of the cube itself is not allowed for. *)
RequiredByTripleSize(cubes) ==
  {i \in DOMAIN cubes :
     \/ Coverage(cubes, i) < 3 * CubeSize(cubes[i])
     \/ ~IsFullyCovered(cubes[i], Row(cubes, i, DOMAIN cubes))}

(* The sizes are compared first; only if they suffice, cubes are subtracted. *)
RequiredCubes(cubes) ==
  {i \in DOMAIN cubes :
     \/ Coverage(cubes, i) < 2 * CubeSize(cubes[i])
     \/ ~IsFullyCovered(cubes[i], Row(cubes, i, DOMAIN cubes))}

(* findMinimalSubset() begins. *)
Select ==
  /\ pc = "cover" /\ taken = Len(list)
  /\ pc' = "select"
  /\ required' = RequiredCubes(list) /\ checked' = required'
  /\ selected' = DOMAIN list
  /\ UNCHANGED coverVars

(* Mutant: dropped cubes stay in the intersection matrix. *)
KeepMatrix(i) ==
  /\ pc = "select" /\ i \in DOMAIN list \ checked
  /\ checked' = checked \cup {i}
  /\ selected' = IF IsFullyCovered(list[i], Row(list, i, DOMAIN list))
                 THEN selected \ {i} ELSE selected
  /\ UNCHANGED <<coverVars, pc, required>>

(* Mutant: a cube is taken out of the matrix when it has been looked at. *)
OnlyUnchecked(i) ==
  /\ pc = "select" /\ i \in DOMAIN list \ checked
  /\ checked' = checked \cup {i}
  /\ selected' = IF IsFullyCovered(list[i], Row(list, i, DOMAIN list \ checked))
                 THEN selected \ {i} ELSE selected
  /\ UNCHANGED <<coverVars, pc, required>>

(* Look at cube i: it is dropped if the cubes still in the matrix cover it. *)
CheckCube(i) ==
  /\ pc = "select" /\ i \in DOMAIN list \ checked
  /\ checked' = checked \cup {i}
  /\ selected' = IF IsFullyCovered(list[i], Row(list, i, selected))
                 THEN selected \ {i} ELSE selected
  /\ UNCHANGED <<coverVars, pc, required>>

Next == SubtractFragment \/ Select \/ \E i \in DOMAIN list : CheckCube(i)

Spec == Init /\ [][Next]_vars

-----------------------------------------------------------------------------
Union(I) == UNION {Elements(list[i]) : i \in I}

Done == pc = "select" /\ checked = DOMAIN list

(* esdmI_hypercubeSet_subtract() computes the set difference: the set      *)
(* holds exactly the elements of the region that are in no fragment, so a  *)
(* read fills, or reports as missing, what is not stored and nothing else. *)
RestIsDifference ==
  UNION {Elements(rest[i]) : i \in DOMAIN rest}
    = Elements(region) \ Union(1 .. taken)

(* The parts that subtract() adds again do not overlap, so every element   *)
(* is filled once; and none is empty, because hypercubeIsFullyCovered()    *)
(* takes a count of zero for covered and anything else for not covered.    *)
RestDisjoint ==
  /\ \A i, j \in DOMAIN rest : i # j => ~DoesIntersect(rest[i], rest[j])
  /\ \A i \in DOMAIN rest : ~CubeIsEmpty(rest[i])

(* Whatever the random order, the selected cubes cover what the list       *)
(* covers: findMinimalSubset() drops no element.                           *)
CoverageKept == pc = "select" => Union(selected) = Union(DOMAIN list)

(* The result is minimal: every selected cube has an element of its own.   *)
NoneRedundant == Done => \A i \in selected : Union(selected \ {i}) # Union(selected)

(* requiredCubes, computed from sizes and by subtraction, are exactly the  *)
(* cubes with an element that is in no other cube of the list.             *)
RequiredExact ==
  pc = "select" =>
    required = {i \in DOMAIN list : Elements(list[i]) \ Union(DOMAIN list \ {i}) # {}}
=============================================================================
