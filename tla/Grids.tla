------------------------------- MODULE Grids --------------------------------
(* Grids of a dataset (esdm-grid.c) in the processes of an MPI program: the *)
(* definition of axes and subgrids, writing and reading of cells, the count *)
(* of empty cells that makes a grid "complete", the lists of complete and   *)
(* incomplete grids, iterators, the choice of fragments for a region, and   *)
(* the exchange of grids as JSON (esdm_mpi_grid_bcast, esdm_mpi_grid_commit,*)
(* dataset metadata).                                                       *)
(*                                                                          *)
(* A grid is named by a key: <<name>> for a top-level grid, and the key of  *)
(* its parent followed by the linear index of its cell for a subgrid.       *)
(* Copies of a grid in several processes, which share its id, share its key.*)
(* A box is a sequence of pairs <<start, end>>, one per dimension, without  *)
(* the end.  The fragment of a cell has the box of the cell, so that a cell *)
(* only holds whether it was stored (has an id) or its write failed.        *)
EXTENDS Integers, Sequences, FiniteSets, SequencesExt

CONSTANTS Procs,          \* ranks of MPI, 0 is the root
          Names,          \* names of top-level grids
          DomainOf,       \* [Names -> box]
          Space,          \* box of the dataset
          Boxes,          \* boxes that are written and read in a grid
          Plain,          \* boxes that are written without a grid
          Refined,        \* boxes of cells that get a subgrid
          MaxDepth,       \* longest key
          MaxFailures,    \* failing writes
          None

VARIABLES
  gs,        \* [Procs -> [some keys -> [axes, cells, empty, fixed]]]
  list,      \* [Procs -> sequence of names]: dset->grids
  count,     \* [Procs -> Nat]: dset->gridCount, the complete ones come first
  table,     \* [Procs -> [some boxes -> status]]: dset->fragments
  alive,     \* no assertion has failed: an abort ends all processes
  failures,  \* number of failed writes
  partial    \* [proc, name] received with a subgrid that has empty cells

vars == <<gs, list, count, table, alive, failures, partial>>

Status == {"stored", "failed"}
Dims == Len(Space)

-----------------------------------------------------------------------------
(* Axes and cells                                                          *)

Intervals(axis) == Len(axis) - 1
(* The product of f(d) for the dimensions after d0                         *)
ProductAfter(d0, f(_)) ==
  LET prod[d \in d0..Dims] == IF d = d0 THEN 1 ELSE prod[d - 1] * f(d) IN prod[Dims]
CellCount(g) == ProductAfter(0, LAMBDA d : Intervals(g.axes[d]))

LinearIndex(g, idx) ==
  LET index[d \in 0..Dims] == IF d = 0 THEN 0 ELSE index[d - 1] * Intervals(g.axes[d]) + idx[d]
  IN index[Dims]

IndexCoordinates(g, i) ==
  [d \in 1..Dims |-> (i \div ProductAfter(d, LAMBDA e : Intervals(g.axes[e])))
                     % Intervals(g.axes[d])]

CellBox(g, i) ==
  LET idx == IndexCoordinates(g, i)
  IN [d \in 1..Dims |-> <<g.axes[d][idx[d] + 1], g.axes[d][idx[d] + 2]>>]

Extent(pair) == IF pair[1] < pair[2] THEN pair[2] - pair[1] ELSE 0
Volume(box) == ProductAfter(0, LAMBDA d : Extent(box[d]))
Points(box) ==
  LET points[d \in 0..Dims] ==
        IF d = 0 THEN {<<>>}
        ELSE {Append(x, c) : x \in points[d - 1], c \in box[d][1]..box[d][2] - 1}
  IN points[Dims]

NewGrid(box) == [axes |-> box, cells |-> None, empty |-> 0, fixed |-> FALSE]

(* esdm_grid_ensureGrid()                                                  *)
Ensured(g) ==
  IF g.cells # None THEN g
  ELSE [g EXCEPT !.cells = [i \in 0..CellCount(g) - 1 |-> None], !.empty = CellCount(g)]

RECURSIVE Search(_, _, _, _)
(* The interpolation search of esdmI_axis_findInterval() between two bounds *)
Search(axis, location, s, e) ==
  LET guess == s + ((e - s) * (location - axis[s + 1])) \div (axis[e + 1] - axis[s + 1])
      mid == IF guess = s THEN s + 1 ELSE IF guess = e THEN e - 1 ELSE guess
  IN IF s + 1 >= e THEN s
     ELSE IF axis[mid + 1] > location THEN Search(axis, location, s, mid)
                                      ELSE Search(axis, location, mid, e)

FindInterval(axis, location) ==
  IF location < axis[1] \/ location >= axis[Len(axis)] THEN -1
  ELSE Search(axis, location, 0, Intervals(axis))

(* esdmI_axis_matchInterval(): the interval around a pair, -1 if it spans  *)
(* several.                                                                *)
MatchInterval(axis, pair) ==
  IF pair[1] < axis[1] \/ pair[2] > axis[Len(axis)] THEN -1
  ELSE LET i == FindInterval(axis, pair[1]) IN IF pair[2] > axis[i + 2] THEN -1 ELSE i

(* esdmI_grid_findCell()                                                   *)
FindCell(g, box) == [d \in 1..Dims |-> MatchInterval(g.axes[d], box[d])]

RECURSIVE FindCellInHierarchy(_, _, _)
(* esdm_grid_findCellInHierarchy(): the key of the (sub)grid, the cell that *)
(* fits the box, and the grids with the cells that were allocated.          *)
FindCellInHierarchy(grids, k, box) ==
  LET g == grids[k]
      idx == FindCell(g, box)
      i == LinearIndex(g, idx)
      error == [found |-> FALSE, grids |-> grids]
  IN IF \E d \in 1..Dims : idx[d] < 0 THEN error
     ELSE LET short == CellBox(g, i) # box
          IN IF g.cells = None
             THEN IF short THEN error
                  ELSE [found |-> TRUE, key |-> k, cell |-> i,
                        grids |-> [grids EXCEPT ![k] = Ensured(g)]]
             ELSE IF g.cells[i] = "subgrid"
                  THEN FindCellInHierarchy(grids, Append(k, i), box)
                  ELSE IF short THEN error
                       ELSE [found |-> TRUE, key |-> k, cell |-> i, grids |-> grids]

-----------------------------------------------------------------------------
(* Completion                                                              *)

Levels(k) == {SubSeq(k, 1, n) : n \in 1..Len(k)}

(* Mutant: the last cell of a subgrid does not complete a cell of its      *)
(* parent.                                                                 *)
AffectedOnly(grids, k) == {k}

(* A grid at or above k gets one completed cell when everything between k  *)
(* and it is complete with the cell.                                       *)
Affected(grids, k) ==
  {x \in Levels(k) : \A y \in Levels(k) : Len(y) > Len(x) => grids[y].empty = 1}

(* esdmI_grid_registerCompletedCell() of the grid k, in all its levels     *)
RegisterCompletedCell(grids, k) ==
  [x \in DOMAIN grids |->
     IF x \in Affected(grids, k) THEN [grids[x] EXCEPT !.empty = @ - 1] ELSE grids[x]]

AssertionFails(grids, k) == \E x \in Affected(grids, k) : grids[x].empty = 0
CompletesTop(grids, k) == \A x \in Levels(k) : grids[x].empty = 1

SwapTo(s, i, j) == [s EXCEPT ![i] = s[j], ![j] = s[i]]

(* esdmI_dataset_registerGridCompletion()                                  *)
RegisterGridCompletion(p, name) ==
  /\ \E i \in count[p] + 1..Len(list[p]) :
       /\ list[p][i] = name
       /\ list' = [list EXCEPT ![p] = SwapTo(@, i, count[p] + 1)]
  /\ count' = [count EXCEPT ![p] = @ + 1]

Abort == alive' = FALSE /\ UNCHANGED <<gs, list, count, table, failures, partial>>

(* The cell of the grid k gets a fragment.                                 *)
FillCell(p, grids, k, i, status) ==
  LET filled == [grids EXCEPT ![k].cells[i] = status]
  IN IF AssertionFails(grids, k)
     THEN /\ alive' = FALSE /\ UNCHANGED <<gs, list, count>>
     ELSE /\ gs' = [gs EXCEPT ![p] = RegisterCompletedCell(filled, k)]
          /\ IF CompletesTop(grids, k) THEN RegisterGridCompletion(p, k[1])
                                       ELSE UNCHANGED <<list, count>>
          /\ UNCHANGED alive

-----------------------------------------------------------------------------
(* Definition of grids                                                     *)

Init ==
  /\ gs = [p \in Procs |-> <<>>] /\ list = [p \in Procs |-> <<>>]
  /\ count = [p \in Procs |-> 0] /\ table = [p \in Procs |-> <<>>]
  /\ alive = TRUE /\ failures = 0 /\ partial = {}

With(f, x, y) == [z \in DOMAIN f \cup {x} |-> IF z = x THEN y ELSE f[z]]

(* esdm_grid_create() and esdmI_dataset_registerGrid(), in the process that *)
(* may broadcast the grid                                                   *)
GridCreate(p, name) ==
  /\ alive /\ p = 0 /\ \A q \in Procs : <<name>> \notin DOMAIN gs[q]
  /\ gs' = [gs EXCEPT ![p] = With(@, <<name>>, NewGrid(DomainOf[name]))]
  /\ list' = [list EXCEPT ![p] = Append(@, name)]
  /\ UNCHANGED <<count, table, alive, failures, partial>>

Outer(axis) == <<axis[1], axis[Len(axis)]>>
Least(a, b) == IF a < b THEN a ELSE b

(* esdm_grid_subdivideFixed(): slices of one size, the last may be smaller.*)
FixedAxes(axis) ==
  LET total == Outer(axis)[2] - Outer(axis)[1]
  IN {[i \in 1..(total + size - 1) \div size + 1 |-> axis[1] + Least(size * (i - 1), total)] :
        size \in 1..total}

(* esdm_grid_subdivideFlexible(): a number of slices                       *)
FlexibleAxes(axis) ==
  LET total == Outer(axis)[2] - Outer(axis)[1]
  IN {[i \in 1..n + 1 |-> axis[1] + (total * (i - 1)) \div n] : n \in 1..total}

(* esdm_grid_subdivide(): bounds given by the caller, which are checked    *)
GivenAxes(axis) ==
  {b \in UNION {[1..n -> axis[1]..axis[Len(axis)]] : n \in 2..axis[Len(axis)] - axis[1] + 1} :
     /\ Outer(b) = Outer(axis)
     /\ \A i \in 1..Len(b) - 1 : b[i] < b[i + 1]}

Subdivide(p, k) ==
  /\ alive /\ gs[p][k].cells = None
  /\ \E d \in 1..Dims :
     LET axis == gs[p][k].axes[d] IN
       \E b \in FixedAxes(axis) \cup FlexibleAxes(axis) \cup GivenAxes(axis) :
         gs' = [gs EXCEPT ![p][k].axes[d] = b]
  /\ UNCHANGED <<list, count, table, alive, failures, partial>>

(* Mutant: a subgrid may be added after the grid was communicated.         *)
CreateSubgridAlways(p, k, i) ==
  LET g == Ensured(gs[p][k]) IN
  /\ alive /\ Len(k) < MaxDepth /\ CellBox(g, i) \in Refined /\ g.cells[i] = None
  /\ gs' = [gs EXCEPT ![p] = With([@ EXCEPT ![k] = [g EXCEPT !.cells[i] = "subgrid"]],
                                  Append(k, i), NewGrid(CellBox(g, i)))]
  /\ UNCHANGED <<list, count, table, alive, failures, partial>>

(* esdm_grid_createSubgrid(): not in fixed structure state                 *)
CreateSubgrid(p, k, i) ==
  LET g == Ensured(gs[p][k]) IN
  /\ alive /\ ~g.fixed
  /\ Len(k) < MaxDepth /\ CellBox(g, i) \in Refined /\ g.cells[i] = None
  /\ gs' = [gs EXCEPT ![p] = With([@ EXCEPT ![k] = [g EXCEPT !.cells[i] = "subgrid"]],
                                  Append(k, i), NewGrid(CellBox(g, i)))]
  /\ UNCHANGED <<list, count, table, alive, failures, partial>>

-----------------------------------------------------------------------------
(* Which fragments serve a region                                          *)

Meet(box, other) == [d \in 1..Dims |-> <<IF box[d][1] > other[d][1] THEN box[d][1] ELSE other[d][1],
                                         Least(box[d][2], other[d][2])>>]
Domain(g) == [d \in 1..Dims |-> Outer(g.axes[d])]

(* esdmI_grid_coverRegionSize()                                            *)
CoverRegionSize(g, region) == Volume(Meet(region, Domain(g)))

(* esdmI_grid_coverRegionOverhead(), of a region inside of the grid        *)
CoverRegionOverhead(g, region) ==
  ProductAfter(0, LAMBDA d : g.axes[d][FindInterval(g.axes[d], region[d][2] - 1) + 2]
                             - g.axes[d][FindInterval(g.axes[d], region[d][1]) + 1])
  - CoverRegionSize(g, region)

(* esdmI_dataset_gridCoveringRegion(): the last of the complete grids with *)
(* the least overhead                                                      *)
GridCoveringRegion(p, region) ==
  LET top(i) == gs[p][<<list[p][i]>>]
      covering == {i \in 1..count[p] : CoverRegionSize(top(i), region) = Volume(region)}
      best == {i \in covering : \A j \in covering :
                 CoverRegionOverhead(top(i), region) <= CoverRegionOverhead(top(j), region)}
  IN IF best = {} THEN None ELSE <<list[p][CHOOSE i \in best : \A j \in best : j <= i]>>

(* Mutant: the end of the region is taken for its last element.            *)
IndexRangeBeyond(g, region) ==
  LET clipped == Meet(region, Domain(g))
  IN {i \in 0..CellCount(g) - 1 :
        \A d \in 1..Dims :
          /\ FindInterval(g.axes[d], clipped[d][1]) <= IndexCoordinates(g, i)[d]
          /\ IndexCoordinates(g, i)[d] <= FindInterval(g.axes[d], clipped[d][2])}

(* esdmI_grid_indexRange(): the cells that overlap with a region           *)
IndexRange(g, region) ==
  LET clipped == Meet(region, Domain(g))
      first == [d \in 1..Dims |-> FindInterval(g.axes[d], clipped[d][1])]
      last == [d \in 1..Dims |-> FindInterval(g.axes[d], clipped[d][2] - 1)]
  IN {i \in 0..CellCount(g) - 1 :
        LET idx == IndexCoordinates(g, i)
        IN \A d \in 1..Dims : first[d] <= idx[d] /\ idx[d] <= last[d]}

RECURSIVE FragmentsInRegion(_, _, _)
(* esdmI_grid_fragmentsInRegion(): boxes of fragments, and None for a cell *)
(* without data, which ends the search with an error                       *)
FragmentsInRegion(grids, k, region) ==
  LET g == grids[k]
  IN UNION {IF g.cells[i] = "subgrid" THEN FragmentsInRegion(grids, Append(k, i), region)
            ELSE IF g.cells[i] = None THEN {None} ELSE {CellBox(g, i)} :
              i \in IndexRange(g, region)}

(* esdm_scheduler_read_blocking() can find the data of a region.           *)
Readable(p, region) ==
  \/ GridCoveringRegion(p, region) # None
  \/ \A x \in Points(region) :
       \E b \in DOMAIN table[p] : table[p][b] = "stored" /\ x \in Points(b)

-----------------------------------------------------------------------------
(* Writing and reading                                                     *)

(* A new fragment is written, or the write fails and its fragment remains. *)
NewFragment(p, box, status) ==
  /\ status = "failed" => failures < MaxFailures
  /\ failures' = IF status = "failed" THEN failures + 1 ELSE failures
  /\ table' = [table EXCEPT ![p] = With(@, box, status)]

(* Mutant: a cell that already has data is completed once more.            *)
WriteGridAgain(p, box, r) ==
  /\ alive /\ r.found
  /\ IF box \in DOMAIN table[p]
     THEN FillCell(p, r.grids, r.key, r.cell, table[p][box]) /\ UNCHANGED <<table, failures>>
     ELSE \E s \in Status : NewFragment(p, box, s) /\ FillCell(p, r.grids, r.key, r.cell, s)
  /\ UNCHANGED partial

(* r is what esdm_grid_findCellInHierarchy() finds for the box.            *)
(* esdm_write_grid(): only the first write of a cell does something.       *)
WriteGrid(p, box, r) ==
  /\ alive /\ r.found /\ r.grids[r.key].cells[r.cell] = None
  /\ IF box \in DOMAIN table[p]
     THEN FillCell(p, r.grids, r.key, r.cell, table[p][box]) /\ UNCHANGED <<table, failures>>
     ELSE \E s \in Status : NewFragment(p, box, s) /\ FillCell(p, r.grids, r.key, r.cell, s)
  /\ UNCHANGED partial

(* esdm_read_grid(): data that comes from elsewhere is written back.       *)
ReadGrid(p, box, r) ==
  /\ alive /\ r.found /\ r.grids[r.key].cells[r.cell] = None
  /\ \/ /\ box \in DOMAIN table[p]
        /\ FillCell(p, r.grids, r.key, r.cell, table[p][box]) /\ UNCHANGED <<table, failures>>
     \/ /\ box \notin DOMAIN table[p] /\ Readable(p, box)
        /\ \E s \in Status : NewFragment(p, box, s) /\ FillCell(p, r.grids, r.key, r.cell, s)
     \/ /\ box \notin DOMAIN table[p]   \* the read fails
        /\ gs' = [gs EXCEPT ![p] = r.grids]
        /\ UNCHANGED <<list, count, table, failures, alive>>
  /\ UNCHANGED partial

(* esdm_write() of one fragment                                            *)
Write(p, box) ==
  /\ alive /\ box \notin DOMAIN table[p]
  /\ \E s \in Status : NewFragment(p, box, s)
  /\ UNCHANGED <<gs, list, count, alive, partial>>

-----------------------------------------------------------------------------
(* Iterators: a stack of <<grid, last index>>                              *)

(* esdm_gridIterator_create() does not ask whether the grid was ever used: *)
(* it would follow a NULL pointer in one that was not.                     *)
MayIterate(g) == g.empty = 0 /\ g.cells # None
NewIterator(k) == <<<<k, -1>>>>

RECURSIVE AdvanceFlat(_, _, _)
(* Mutant: cells after a subgrid are not visited.                          *)
AdvanceFlat(grids, stack, increment) ==
  LET k == Last(stack)[1]
      n == Last(stack)[2] + 1
      here == [stack EXCEPT ![Len(stack)] = <<k, n>>]
  IN IF increment = 0 THEN stack
     ELSE IF n >= CellCount(grids[k]) THEN <<>>
     ELSE IF grids[k].cells[n] = "subgrid"
     THEN AdvanceFlat(grids, Append(here, <<Append(k, n), -1>>), increment)
     ELSE AdvanceFlat(grids, here, increment - 1)

RECURSIVE Advance(_, _, _)
(* esdm_gridIterator_advance()                                             *)
Advance(grids, stack, increment) ==
  LET k == Last(stack)[1]
      n == Last(stack)[2] + 1
      here == [stack EXCEPT ![Len(stack)] = <<k, n>>]
  IN IF increment = 0 THEN stack
     ELSE IF n >= CellCount(grids[k])
     THEN IF Len(stack) = 1 THEN <<>> ELSE Advance(grids, Front(stack), increment)
     ELSE IF grids[k].cells[n] = "subgrid"
     THEN Advance(grids, Append(here, <<Append(k, n), -1>>), increment)
     ELSE Advance(grids, here, increment - 1)

RECURSIVE Walk(_, _, _)
(* The boxes that calls of esdm_gridIterator_next() return until the end   *)
Walk(grids, stack, increment) ==
  LET next == Advance(grids, stack, increment)
  IN IF next = <<>> THEN <<>>
     ELSE <<CellBox(grids[Last(next)[1]], Last(next)[2])>> \o Walk(grids, next, increment)

-----------------------------------------------------------------------------
(* Exchange                                                                *)

Under(grids, k) == {x \in DOMAIN grids : IsPrefix(k, x)}

(* esdmI_grid_serialize() asserts that every fragment has an id, and puts  *)
(* the grid and its subgrids into fixed structure state.                   *)
CannotSerialize(grids, k) ==
  \E x \in Under(grids, k) : grids[x].cells # None /\ "failed" \in Range(grids[x].cells)
Serialized(grids, k) ==
  [x \in DOMAIN grids |-> IF IsPrefix(k, x) THEN [Ensured(grids[x]) EXCEPT !.fixed = TRUE]
                                            ELSE grids[x]]

EmptyCells(g) == Cardinality({i \in DOMAIN g.cells : g.cells[i] = None})

(* A fragment of the process with the same box is used in the place of the *)
(* one that was received.                                                  *)
FragmentFromMetadata(p, box) ==
  IF box \in DOMAIN table[p] THEN table[p][box] ELSE "stored"

(* esdmI_grid_createFromJson(): a cell with a subgrid does not count as    *)
(* empty, whether the subgrid has data or not.                             *)
CreateFromJson(p, g) ==
  [g EXCEPT !.cells = [i \in DOMAIN g.cells |->
                         IF g.cells[i] = "stored" THEN FragmentFromMetadata(p, CellBox(g, i))
                                                  ELSE g.cells[i]],
            !.empty = EmptyCells(g)]

(* esdm_mpi_grid_bcast()                                                   *)
GridBcast(name) ==
  LET sent == Serialized(gs[0], <<name>>)
      keys == Under(sent, <<name>>)
      complete == EmptyCells(sent[<<name>>]) = 0
  IN
  /\ alive /\ <<name>> \in DOMAIN gs[0] /\ \A q \in Procs \ {0} : <<name>> \notin DOMAIN gs[q]
  /\ IF CannotSerialize(gs[0], <<name>>) THEN Abort
     ELSE /\ gs' = [q \in Procs |->
                      IF q = 0 THEN sent
                      ELSE [x \in DOMAIN gs[q] \cup keys |->
                              IF x \in keys THEN CreateFromJson(q, sent[x]) ELSE gs[q][x]]]
          /\ list' = [q \in Procs |->
                        IF q = 0 THEN list[q]
                        ELSE IF complete
                        THEN SwapTo(Append(list[q], name), count[q] + 1, Len(list[q]) + 1)
                        ELSE Append(list[q], name)]
          /\ count' = [q \in Procs |-> IF q # 0 /\ complete THEN count[q] + 1 ELSE count[q]]
          /\ partial' = IF \E x \in keys \ {<<name>>} : sent[x].empty > 0
                        THEN partial \cup {<<q, name>> : q \in Procs \ {0}} ELSE partial
          /\ UNCHANGED <<table, alive, failures>>

(* esdmI_grid_mergeWithJson(): cells of the top-level grid that have data  *)
(* elsewhere.  It looks for subgrids under a key that is never written.    *)
Merged(k) ==
  LET g == gs[0][k]
  IN {i \in DOMAIN g.cells : g.cells[i] = None
                             /\ \E q \in Procs \ {0} : gs[q][k].cells[i] = "stored"}

(* esdm_mpi_grid_commit()                                                  *)
GridCommit(name) ==
  LET k == <<name>>
      g == gs[0][k]
  IN
  /\ alive /\ \A q \in Procs : k \in DOMAIN gs[q] /\ gs[q][k].fixed
  /\ IF \E q \in Procs \ {0} : CannotSerialize(gs[q], k) THEN Abort
     ELSE /\ gs' = [gs EXCEPT ![0][k] =
                      [g EXCEPT !.cells = [i \in DOMAIN g.cells |->
                                             IF i \in Merged(k)
                                             THEN FragmentFromMetadata(0, CellBox(g, i))
                                             ELSE g.cells[i]],
                                !.empty = @ - Cardinality(Merged(k))]]
          /\ IF Merged(k) # {} /\ g.empty = Cardinality(Merged(k))
             THEN RegisterGridCompletion(0, name) ELSE UNCHANGED <<list, count>>
          /\ UNCHANGED <<table, alive, failures, partial>>

(* esdm_dataset_commit() serialises the complete grids and the fragments.  *)
DatasetCommit ==
  /\ alive
  /\ IF \/ "failed" \in Range(table[0])
        \/ \E i \in 1..count[0] : CannotSerialize(gs[0], <<list[0][i]>>)
     THEN Abort
     ELSE /\ gs' = [gs EXCEPT ![0] =
                      [x \in DOMAIN @ |->
                         IF \E i \in 1..count[0] : list[0][i] = x[1]
                         THEN [Ensured(@[x]) EXCEPT !.fixed = TRUE] ELSE @[x]]]
          /\ UNCHANGED <<list, count, table, alive, failures, partial>>

-----------------------------------------------------------------------------
Next ==
  \/ \E p \in Procs, name \in Names : GridCreate(p, name)
  \/ \E p \in Procs : \E k \in DOMAIN gs[p] : Subdivide(p, k)
  \/ \E p \in Procs : \E k \in DOMAIN gs[p] :
       \E i \in 0..CellCount(gs[p][k]) - 1 : CreateSubgrid(p, k, i)
  \/ \E p \in Procs : \E k \in DOMAIN gs[p], box \in Boxes :
       LET r == FindCellInHierarchy(gs[p], k, box)
       IN WriteGrid(p, box, r) \/ ReadGrid(p, box, r)
  \/ \E p \in Procs, box \in Plain : Write(p, box)
  \/ \E name \in Names : GridBcast(name)
  \/ \E name \in Names : GridCommit(name)
  \/ DatasetCommit

Spec == Init /\ [][Next]_vars

-----------------------------------------------------------------------------
RECURSIVE Leaves(_, _)
(* The cells of a grid and its subgrids, in order, as <<box, has data>>    *)
Leaves(grids, k) ==
  LET g == grids[k]
      Cell(i) == IF g.cells[i] = "subgrid" THEN Leaves(grids, Append(k, i))
                 ELSE <<<<CellBox(g, i), g.cells[i] # None>>>>
  IN IF g.cells = None THEN <<<<Domain(g), FALSE>>>>
     ELSE FlattenSeq([i \in 1..CellCount(g) |-> Cell(i - 1)])

Full(p, name) ==
  LET leaves == Leaves(gs[p], <<name>>) IN \A i \in DOMAIN leaves : leaves[i][2]

(* esdm_grid.h, of esdm_dataset_grids(): "All the returned grids will      *)
(* contain data for their entire domain".                                  *)
OnlyCompletedGrids == \A p \in Procs : \A i \in 1..count[p] : Full(p, list[p][i])

(* A grid is among the complete ones of its dataset exactly when every cell*)
(* at every depth has data, in whatever order cells were written, read,    *)
(* received and merged, and whichever (sub)grid was used for it; except    *)
(* for a grid that was received together with a subgrid with empty cells.  *)
CompletionExact ==
  alive => \A p \in Procs : \A i \in 1..Len(list[p]) :
             <<p, list[p][i]>> \notin partial => (i <= count[p] <=> Full(p, list[p][i]))

Overlap(b, c) == \A d \in 1..Dims : b[d][1] < c[d][2] /\ c[d][1] < b[d][2]

(* Every region inside of a complete grid is served: the fragments that    *)
(* esdmI_dataset_fragmentsCoveringRegion() takes from the grid of its      *)
(* choice are those that overlap with the region, and cover it.            *)
RegionServed ==
  alive => \A p \in Procs : \A region \in Boxes :
    LET k == GridCoveringRegion(p, region)
    IN k # None /\ <<p, k[1]>> \notin partial =>
         LET found == FragmentsInRegion(gs[p], k, region)
             leaves == Leaves(gs[p], k)
         IN /\ found = {b \in {leaves[i][1] : i \in DOMAIN leaves} : Overlap(b, region)}
            /\ \A x \in Points(region) : \E b \in found : x \in Points(b)

(* Copies of a grid that were exchanged have the same axes and the same    *)
(* subgrids in every process, so that linear indices of cells mean the same*)
(* boxes when grids are merged (esdm_mpi_grid_commit).                     *)
CopiesAgree ==
  \A q \in Procs \ {0} : \A k \in DOMAIN gs[q] :
    /\ gs[0][k].axes = gs[q][k].axes
    /\ Under(gs[0], k) = Under(gs[q], k)

(* An iterator over a grid that may be iterated returns its cells in       *)
(* depth-first order, which are a partition of the grid, or every second   *)
(* one if it is advanced by two, and ends behind the last.                 *)
IteratorExact ==
  \A p \in Procs : \A k \in DOMAIN gs[p] :
    MayIterate(gs[p][k]) =>
      LET leaves == Leaves(gs[p], k)
          all == Walk(gs[p], NewIterator(k), 1)
      IN /\ all = [i \in DOMAIN leaves |-> leaves[i][1]]
         /\ Walk(gs[p], NewIterator(k), 2) = [i \in 1..Len(all) \div 2 |-> all[2 * i]]
         /\ LET points == [i \in DOMAIN all |-> Points(all[i])]
            IN \A x \in Points(Domain(gs[p][k])) :
                 Cardinality({i \in DOMAIN all : x \in points[i]}) = 1

(* No assertion of esdm-grid.c fails and ends the program, unless a write  *)
(* failed or a grid was received together with a subgrid with empty cells. *)
NoAbort == alive \/ failures > 0 \/ partial # {}
=============================================================================
