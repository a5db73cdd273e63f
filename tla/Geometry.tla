------------------------------ MODULE Geometry ------------------------------
(***************************************************************************)
(* The parts of the library that compute with hypercubes and dataspaces:   *)
(* HypercubeList, Fragmentation, DataspaceCopy, BoundLists with its two    *)
(* implementations, NeighbourManager and FragmentLayouts.  Each of them    *)
(* runs inside one call, on data of its own, so a behaviour is one of one  *)
(* part; the others rest.                                                  *)
(***************************************************************************)
EXTENDS Hypercube

CONSTANTS
    Regions, Lists,                                                    \* HypercubeList
    Spaces, BackendCount, Throughputs, FragmentSizes, ElementSize,     \* Fragmentation
    Null, Unset,
    Pairs, Untouched,                                                  \* DataspaceCopy
    Bounds, MaxEntries, Width,                                         \* BoundLists
    Cubes, Dims, MaxCubes,                                             \* NeighbourManager
    Datasets, Boxes, Layouts(_), MaxFragments,                         \* FragmentLayouts
    Fill, Cleared, Junk, None

VARIABLES
    which, pc,
    region, list, taken, rest, required, checked, selected,
    space, weights, method, maxSize, index, outValid, extends, fragments,
    src, dst, fused, plan, source, dest, counters, memory,
    implementation, call, entry, pos, found, node, me, insertChild, splittedChild,
    entries, low, high,
    cubes, neighbours, bounds, dim, half,
    actual, frags, status, disk, json, mem, written, alive

(* pc is shared by the first three parts, space by Fragmentation and       *)
(* FragmentLayouts.                                                        *)
shared == <<pc, space>>
listVars == <<region, list, taken, rest, required, checked, selected>>
fragmentationVars == <<weights, method, maxSize, index, outValid, extends, fragments>>
copyVars == <<src, dst, fused, plan, source, dest, counters, memory>>
boundVars == <<implementation, call, entry, pos, found, node, me, insertChild, splittedChild,
               entries, low, high>>
neighbourVars == <<cubes, neighbours, bounds, dim, half>>
layoutVars == <<actual, frags, status, disk, json, mem, written, alive>>
vars == <<which, shared, listVars, fragmentationVars, copyVars, boundVars, neighbourVars, layoutVars>>

List == INSTANCE HypercubeList
Cut == INSTANCE Fragmentation
Copy == INSTANCE DataspaceCopy
Bound == INSTANCE BoundLists WITH pc <- call, list <- entries
Neighbour == INSTANCE NeighbourManager
Layout == INSTANCE FragmentLayouts

(* A max_fragment_size below the size of an element is a division by zero  *)
(* (integer in the contiguous method, floating point in the equalized one).*)
ASSUME FragmentationAssumption ==
    /\ BackendCount \in Nat \ {0}
    /\ ElementSize \in Nat \ {0}
    /\ Throughputs \subseteq Nat \ {0}
    /\ \A n \in FragmentSizes : n \in Nat /\ n >= ElementSize

ASSUME BoundListsAssumption == Width \in Nat \ {0} /\ Bounds \subseteq Int

ASSUME NeighbourAssumption ==
    Dims \in Nat \ {0} /\ \A c \in Cubes : DOMAIN c = 1 .. Dims /\ ~CubeIsEmpty(c)

-----------------------------------------------------------------------------
ListRests ==
    /\ region = None /\ list = None /\ taken = None /\ rest = None
    /\ required = None /\ checked = None /\ selected = None
FragmentationRests ==
    /\ weights = None /\ method = None /\ maxSize = None /\ index = None
    /\ outValid = None /\ extends = None /\ fragments = None
CopyRests ==
    /\ src = None /\ dst = None /\ fused = None /\ plan = None
    /\ source = None /\ dest = None /\ counters = None /\ memory = None
NeighbourRests == cubes = None /\ neighbours = None /\ bounds = None /\ dim = None /\ half = None
LayoutRests ==
    /\ actual = None /\ frags = None /\ status = None /\ disk = None
    /\ json = None /\ mem = None /\ written = None /\ alive = None

Init ==
    /\ which \in {"list", "fragmentation", "copy", "bounds", "neighbours", "layouts"}
    /\ IF which = "list" THEN List!Init ELSE ListRests
    /\ IF which = "fragmentation" THEN Cut!Init ELSE FragmentationRests
    /\ IF which = "copy" THEN Copy!Init ELSE CopyRests
    /\ IF which = "neighbours" THEN Neighbour!Init ELSE NeighbourRests
    /\ IF which = "layouts" THEN Layout!Init ELSE LayoutRests
    /\ Bound!Init /\ (which # "bounds" => implementation = "btree")
    /\ which \notin {"list", "fragmentation", "copy"} => pc = "idle"
    /\ which \notin {"fragmentation", "layouts"} => space = None

ListStep ==
    /\ which = "list" /\ List!Next
    /\ UNCHANGED <<which, space, fragmentationVars, copyVars, boundVars, neighbourVars, layoutVars>>
FragmentationStep ==
    /\ which = "fragmentation" /\ Cut!Next
    /\ UNCHANGED <<which, listVars, copyVars, boundVars, neighbourVars, layoutVars>>
CopyStep ==
    /\ which = "copy" /\ Copy!Next
    /\ UNCHANGED <<which, space, listVars, fragmentationVars, boundVars, neighbourVars, layoutVars>>
BoundStep ==
    /\ which = "bounds" /\ Bound!Next
    /\ UNCHANGED <<which, shared, listVars, fragmentationVars, copyVars, neighbourVars, layoutVars>>
NeighbourStep ==
    /\ which = "neighbours" /\ Neighbour!Next
    /\ UNCHANGED <<which, shared, listVars, fragmentationVars, copyVars, boundVars, layoutVars>>
LayoutStep ==
    /\ which = "layouts" /\ Layout!Next
    /\ UNCHANGED <<which, pc, listVars, fragmentationVars, copyVars, boundVars, neighbourVars>>

Next == ListStep \/ FragmentationStep \/ CopyStep \/ BoundStep \/ NeighbourStep \/ LayoutStep

(* A call that has begun goes on; nothing makes the caller call.           *)
Fairness == WF_vars(CopyStep) /\ WF_vars(BoundStep /\ call # "idle")

Spec == Init /\ [][Next]_vars /\ Fairness

-----------------------------------------------------------------------------
(* Which fragments a read needs: subtract() computes the set difference in *)
(* disjoint parts, and the selected cubes are a minimal subset that covers *)
(* what the list covers, see HypercubeList.                                *)
CoveringExact ==
    which = "list" =>
      /\ List!RestIsDifference /\ List!RestDisjoint
      /\ List!CoverageKept /\ List!NoneRedundant /\ List!RequiredExact

(* A write is cut into fragments that hold every element once; none is     *)
(* empty or larger than its backend allows, and those of the contiguous    *)
(* method are contiguous, see Fragmentation.                               *)
FragmentsExact ==
    which = "fragmentation" =>
      Cut!FragmentsPartition /\ Cut!FragmentsFit /\ Cut!FragmentsContiguous

(* esdm_dataspace_copy_data() copies the common elements, each once, and   *)
(* nothing is written outside of them, see DataspaceCopy.                  *)
CopyExact ==
    /\ [](which = "copy" => Copy!CopiesOnlyOverlap /\ Copy!CopiesAllOverlap)
    /\ Copy!CopiesOnce

(* The pointers of the B-tree agree and its leaves are on one level, see   *)
(* BoundTree.                                                              *)
BoundsBalanced == Bound!RelationsConsistent /\ Bound!Balanced

(* Both bound lists implement the collection of BoundList.                 *)
ImplementsBoundList == Bound!ImplementsBoundList

(* The loops of the copy end, and so do the walks in the tree and the      *)
(* binary search of the array.                                             *)
CallsReturn == <>(which = "copy" => pc \in {"done", "undefined"}) /\ Bound!CallsReturn

(* The manager's lists hold exactly the adjacent cubes, see                *)
(* NeighbourManager.                                                       *)
NeighboursExact == which = "neighbours" => Neighbour!NeighboursExact

(* A read puts every element into its place in the reader's layout, see    *)
(* FragmentLayouts.                                                        *)
ReadsInPlace == which = "layouts" => Layout!ReadsInPlace

(* The actual size of an unlimited dimension is the end of what was        *)
(* written, see FragmentLayouts.                                           *)
ActualSizeExact == which = "layouts" => Layout!ActualSizeExact

(* The comment on splitToBackends() (esdm-scheduler.c:681): "this function *)
(* will either create a hypercube for each entry or set it to NULL", see   *)
(* Fragmentation.                                                          *)
ExtendsDecided == which = "fragmentation" => Cut!ExtendsDecided
=============================================================================
