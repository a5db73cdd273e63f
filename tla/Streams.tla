------------------------------- MODULE Streams --------------------------------
(* Write streams (esdm-stream.c and the macros of esdm-stream.h): a region is *)
(* cut into fragments and chunks; the caller pushes one value after the other *)
(* into a buffer, and full buffers go to the backend.  A value is the element *)
(* (its coordinates) it is meant for; sizes of objects are in bytes.          *)
EXTENDS Integers, Sequences, FiniteSets, SequencesExt

CONSTANTS Regions,        \* [offset, size] of streams
          ElementSizes,   \* bytes of an element
          FragmentSizes,  \* values of max-fragment-size
          ChunkSize,      \* kMaxChunkSize
          MaxStreams,     \* streams one after the other
          None

VARIABLES
  stream,    \* None, or the stream that is open
  stored,    \* [some boxes -> values]: fragments of the dataset
  streams,   \* number of streams that were started
  lost       \* the program ended: None or the reason

vars == <<stream, stored, streams, lost>>

-----------------------------------------------------------------------------
(* initCounts()                                                             *)

Product(s, from, to) == FoldLeft(LAMBDA a, b : a * b, 1, SubSeq(s, from, to))

(* The loop multiplies by the size of the dimension it goes to.             *)
SliceSize(size, element, dim) == element * Product(size, dim, Len(size) - 1)
MaxSlices(size, element, max, dim) == max \div SliceSize(size, element, dim)
(* The last dimension that is cut, 0 if none is                             *)
SplittingDim(size, element, max) ==
  Max({0} \cup {d \in DOMAIN size : MaxSlices(size, element, max, d) < size[d]})
DividesByZero(size, element, max) ==
  LET d == SplittingDim(size, element, max) IN d # 0 /\ MaxSlices(size, element, max, d) = 0

Counts(size, element, max) ==
  LET split == SplittingDim(size, element, max)
      n == MaxSlices(size, element, max, split)
  IN [d \in DOMAIN size |-> IF d > split THEN 1
                            ELSE IF d = split THEN (size[d] + n - 1) \div n ELSE size[d]]

Total(counts) == Product(counts, 1, Len(counts))

(* Mutant: every object gets the same share, the last ones lose the rest.   *)
GetBoundsEqual(region, counts, dim, object) ==
  LET index == (object \div Product(counts, dim + 1, Len(counts))) % counts[dim]
      share == region.size[dim] \div counts[dim]
  IN <<region.offset[dim] + index * share, region.offset[dim] + (index + 1) * share>>

(* getBounds(): an object in one dimension                                  *)
GetBounds(region, counts, dim, object) ==
  LET index == (object \div Product(counts, dim + 1, Len(counts))) % counts[dim]
  IN <<region.offset[dim] + (index * region.size[dim]) \div counts[dim],
       region.offset[dim] + ((index + 1) * region.size[dim]) \div counts[dim]>>

(* The boxes of all objects                                                 *)
Boxes(region, counts) ==
  [i \in 1..Total(counts) |-> [d \in DOMAIN region.size |-> GetBounds(region, counts, d, i - 1)]]
Extent(box) == [d \in DOMAIN box |-> box[d][2] - box[d][1]]
Volume(box) == Total(Extent(box))

(* The k-th element of a box, in the order of the stream                    *)
Element(box, k) ==
  LET size == Extent(box)
  IN [d \in DOMAIN box |->
        box[d][1] + (((k - 1) \div Product(size, d + 1, Len(size))) % size[d])]

-----------------------------------------------------------------------------
Init == stream = None /\ stored = <<>> /\ streams = 0 /\ lost = None

Ends(why) == lost' = why /\ UNCHANGED <<stream, stored, streams>>

CurrentBox(s) == s.fragments[s.current + 1]
Finished(s) == s.remaining = 0 /\ s.current + 1 = Len(s.fragments)

Whole(region) == [d \in DOMAIN region.size |->
                    <<region.offset[d], region.offset[d] + region.size[d]>>]

(* esdm_wstream_metadata_next_chunk_size()                                  *)
NextChunkSize(s) ==
  IF Finished(s) THEN 0
  ELSE LET size == Volume(s.chunks[(s.next % Len(s.chunks)) + 1])
           left == s.remaining \div s.element
       IN IF size > left THEN left ELSE size

(* Mutant: the slice of the chunking dimension does not count.              *)
MaxChunkSizeOfSlice(s) ==
  Product(s.region.size, SplittingDim(s.region.size, s.element, ChunkSize) + 1, Len(s.region.size))

(* esdm_wstream_metadata_max_chunk_size()                                   *)
MaxChunkSize(s) ==
  LET size == s.region.size
      split == SplittingDim(size, s.element, ChunkSize)
      width == IF split # 0 THEN MaxSlices(size, s.element, ChunkSize, split)
               ELSE IF size = <<>> THEN 1 ELSE size[1]
  IN width * Product(size, IF split = 0 THEN 1 ELSE split, Len(size))

(* wstream_create_newFragment(), the next one of stream s                   *)
NewFragment(s) ==
  LET next == [s EXCEPT !.current = @ + 1]
  IN [next EXCEPT !.remaining = next.element * Volume(CurrentBox(next)), !.offset = 0]

Announced(box) == [b \in DOMAIN stored \cup {box} |-> IF b = box THEN <<>> ELSE stored[b]]

(* esdm_wstream_start() and esdm_wstream_metadata_create()                  *)
Start(region, element, fragment) ==
  LET s == NewFragment([region |-> region, element |-> element,
                        chunks |-> Boxes(region, Counts(region.size, element, ChunkSize)),
                        fragments |-> Boxes(region, Counts(region.size, element, fragment)),
                        current |-> -1, remaining |-> 0, next |-> 0, offset |-> 0, pushed |-> 0, buffer |-> <<>>])
  IN
  /\ lost = None /\ stream = None /\ streams < MaxStreams
  /\ IF \E max \in {ChunkSize, fragment} : DividesByZero(region.size, element, max)
     THEN Ends("division by zero")
     ELSE IF CurrentBox(s) \in DOMAIN stored THEN Ends("fragment exists")
     ELSE /\ stream' = s
          /\ stored' = Announced(CurrentBox(s))
          /\ streams' = streams + 1 /\ UNCHANGED lost

(* esdm_wstream_flush(): a chunk goes to the backend, and if the fragment is*)
(* full the next one begins.                                                *)
Flush(s) ==
  LET bytes == Len(s.buffer) * s.element
      written == [stored EXCEPT ![CurrentBox(s)] = @ \o s.buffer]
      t == [s EXCEPT !.offset = @ + bytes, !.next = @ + 1, !.remaining = @ - bytes, !.buffer = <<>>]
      u == NewFragment(t)
  IN IF t.remaining > 0 \/ Finished(t)
     THEN stream' = t /\ stored' = written /\ UNCHANGED lost
     ELSE IF CurrentBox(u) \in DOMAIN stored THEN lost' = "fragment exists" /\ UNCHANGED <<stream, stored>>
     ELSE /\ stream' = u /\ UNCHANGED lost
          /\ stored' = [b \in DOMAIN written \cup {CurrentBox(u)} |->
                          IF b = CurrentBox(u) THEN <<>> ELSE written[b]]

(* esdm_wstream_pack(): the caller pushes the elements in their order.      *)
Pack ==
  /\ lost = None /\ stream # None /\ stream.pushed < Volume(Whole(stream.region))
  /\ LET s == [stream EXCEPT !.pushed = @ + 1,
                             !.buffer = Append(@, Element(Whole(stream.region), stream.pushed + 1))]
         full == Len(stream.buffer) >= NextChunkSize(stream)
     IN IF ~full /\ Len(s.buffer) = NextChunkSize(stream) THEN Flush(s)
        ELSE /\ stream' = (IF full THEN stream ELSE s)
             /\ lost' = (IF full THEN "too much data" ELSE None)
             /\ UNCHANGED stored
  /\ UNCHANGED streams

(* The backend fails to write a chunk.                                      *)
BackendFails ==
  /\ lost = None /\ stream # None /\ stream.pushed < Volume(Whole(stream.region))
  /\ Len(stream.buffer) + 1 = NextChunkSize(stream)
  /\ Ends("backend error")

(* esdm_wstream_commit(), after all elements                                *)
Commit ==
  /\ lost = None /\ stream # None /\ stream.pushed = Volume(Whole(stream.region))
  /\ LET complete == stream.buffer = <<>> /\ Finished(stream)
     IN /\ stream' = (IF complete THEN None ELSE stream)
        /\ lost' = (IF complete THEN None ELSE "too little data")
  /\ UNCHANGED <<stored, streams>>

Next ==
  \/ \E region \in Regions, element \in ElementSizes, fragment \in FragmentSizes :
       Start(region, element, fragment)
  \/ Pack \/ BackendFails \/ Commit

Spec == Init /\ [][Next]_vars

-----------------------------------------------------------------------------
(* Every value is stored at the place of its element, whatever the sizes of *)
(* fragments and chunks: a fragment holds its elements in their order, all  *)
(* of them unless it is the current fragment of a stream, and no stream     *)
(* fills a fragment while an earlier one of it is incomplete.               *)
ValuesInPlace ==
  lost = None =>
    \A b \in DOMAIN stored :
      /\ \A k \in DOMAIN stored[b] : stored[b][k] = Element(b, k)
      /\ \/ Len(stored[b]) = Volume(b)
         \/ Len(stored[b]) < Volume(b) /\ stream # None /\ b = CurrentBox(stream)

(* A stream of as many values as its region has elements never writes past  *)
(* its buffer and ends in order, unless a size is too small for one slice,  *)
(* a fragment of the same shape exists, or the backend fails.               *)
StreamEnds ==
  /\ lost \in {None, "division by zero", "fragment exists", "backend error"}
  /\ stream # None => NextChunkSize(stream) <= MaxChunkSize(stream)
=============================================================================
