----------------------------- MODULE MCGeometry -----------------------------
(***************************************************************************)
(* Instances of the parts, small enough for all their states.              *)
(***************************************************************************)
EXTENDS Geometry

Spread(sizes, offsets, layouts(_)) ==
  UNION {{[offset |-> o, size |-> z, stride |-> s] : o \in offsets, s \in layouts(z)} : z \in sizes}

-----------------------------------------------------------------------------
(* HypercubeList and NeighbourManager: all rectangles of a small grid, in  *)
(* all lists of three; overlapping, equal and nested ones are among them.  *)

MCRanges(n) == {r \in [start : 0 .. n, end : 0 .. n] : ~RangeIsEmpty(r)}
MCCubes == {<<x, y>> : x \in MCRanges(3), y \in MCRanges(2)}
MCLists == SeqOf(MCCubes, 3)
MCRegions == {MakeCube(<<1, 0>>, <<2, 2>>)}

-----------------------------------------------------------------------------
(* Fragmentation: C order, Fortran order, both directions, and a part of a *)
(* larger array; a few spaces with three dimensions.                       *)

MCCutLayouts(size) ==
  {NullStride, <<1, size[1]>>, <<-size[2], 1>>, <<1, -size[1]>>, <<2 * size[2], 1>>}
MCCutLayouts3(size) == {NullStride, <<1, 2, 6>>, <<3, 1, -6>>}
MCSpaces ==
  Spread((1 .. 4) \X {1, 3}, {<<1, 0>>}, MCCutLayouts)
    \cup Spread({<<2, 3, 2>>}, {<<0, 2, 0>>}, MCCutLayouts3)

-----------------------------------------------------------------------------
(* DataspaceCopy: also reversed spaces, and the single element that        *)
(* esdm_dataspace_fill() copies from.                                      *)

MCCopyLayouts(size) ==
  {NullStride, <<1, size[1]>>, <<-size[2], 1>>, <<-size[2], -1>>, <<2 * size[2], 1>>}
MCCopyLayouts3(size) ==
  {NullStride, <<-size[2] * size[3], -size[3], -1>>, <<size[3], size[1] * size[3], 1>>,
   <<1, size[1], size[1] * size[2]>>}
MCFill == [offset |-> <<0, 0>>, size |-> <<3, 3>>, stride |-> <<0, 0>>]
MCPairs ==
  ({MCFill} \cup Spread({<<1, 3>>, <<2, 2>>, <<3, 1>>, <<3, 3>>}, {<<0, 0>>, <<1, 0>>}, MCCopyLayouts))
    \X Spread({<<1, 1>>, <<2, 3>>, <<3, 2>>, <<3, 3>>}, {<<0, 0>>, <<0, 1>>, <<2, 1>>}, MCCopyLayouts)
  \cup
  Spread({<<2, 2, 2>>, <<1, 2, 3>>, <<2, 3, 2>>}, {<<0, 0, 0>>, <<0, 0, 1>>}, MCCopyLayouts3)
    \X Spread({<<2, 2, 2>>, <<2, 3, 2>>, <<2, 1, 2>>},
              {<<0, 0, 0>>, <<0, 1, 0>>, <<1, 0, 0>>}, MCCopyLayouts3)

-----------------------------------------------------------------------------
(* BoundLists: nodes of two entries; with seven entries of three bounds    *)
(* the tree gets three levels and equal bounds fill several nodes.         *)

MCBounds == {1, 2, 4}

-----------------------------------------------------------------------------
(* FragmentLayouts: datasets with two dimensions, one of them with an      *)
(* unlimited number of rows; requests for all of it, for the first rows    *)
(* and for a part of a column.                                             *)

MCDatasets == {<<3, 2>>, <<0, 2>>}
MCBoxes ==
  {[offset |-> <<0, 0>>, size |-> <<3, 2>>], [offset |-> <<0, 0>>, size |-> <<2, 2>>],
   [offset |-> <<1, 1>>, size |-> <<2, 1>>]}
MCLayouts(size) == {NullStride, <<1, size[1]>>, <<-size[2], 1>>, <<size[2] + 1, 1>>}
=============================================================================
