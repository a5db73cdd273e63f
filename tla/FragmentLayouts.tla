--------------------------- MODULE FragmentLayouts ---------------------------
(***************************************************************************)
(* Where the elements of a dataset lie: in the memory of an application,   *)
(* in the buffers of the fragments, in the files of a backend and in the   *)
(* metadata from which the fragments are made again (esdm-datatypes.c,     *)
(* fragments.c, estream.c and the direct I/O of esdm-scheduler.c).         *)
(*                                                                         *)
(* A piece of memory is a set of pairs of a place, counted in elements     *)
(* from its pointer, and a value.  The value of an element is its          *)
(* coordinates, so a value in the wrong place is seen.  Calls are blocking *)
(* and the backends do not fail; threads, failures and stale buffers are   *)
(* modelled in Scheduler, copying chunk by chunk in DataspaceCopy.         *)
(***************************************************************************)
EXTENDS Hypercube

CONSTANTS
    Datasets,      \* the sizes the dataset may have; 0 is an unlimited dimension
    Boxes,         \* the offsets and sizes of requests
    Layouts(_),    \* the strides the application uses for a size
    MaxFragments,  \* bound on the fragments of the dataset
    Fill,          \* the fill value
    Cleared,       \* what the application puts into a buffer before it reads
    Junk,          \* memory nobody has written to
    None           \* the NULL pointer

VARIABLES
    space,    \* the dataspace of the dataset
    actual,   \* actual_size
    frags,    \* the fragment table: hypercube -> esdm_fragment_t
    status,   \* the status of the dataset: "dirty", "persistent", "not_loaded"
    disk,     \* the backend: hypercube of a fragment -> its bytes
    json,     \* the metadata of the dataset
    mem,      \* the buffer of a read that returns, and the space it was read with
    written,  \* the elements the application has written
    alive     \* no assertion has failed

vars == <<space, actual, frags, status, disk, json, mem, written, alive>>

Places(memory) == {p[1] : p \in memory}

At(memory, place) ==
    IF place \in Places(memory) THEN (CHOOSE p \in memory : p[1] = place)[2] ELSE Junk

(* A pointer further into the same memory. *)
Advance(memory, n) == {<<p[1] - n, p[2]>> : p \in memory}

Overwrite(memory, new) == {p \in memory : p[1] \notin Places(new)} \cup new

(* A table with more entries. *)
Extended(table, new) ==
    [c \in DOMAIN table \cup DOMAIN new |-> IF c \in DOMAIN new THEN new[c] ELSE table[c]]

ElementCount(sp) == Product(sp.size)

-----------------------------------------------------------------------------
(* Dataspaces.                                                             *)

CreateFull(size, offset) == [offset |-> offset, size |-> size, stride |-> NullStride]

Create(size) == CreateFull(size, [i \in DOMAIN size |-> 0])

SetStride(sp, stride) == [sp EXCEPT !.stride = stride]

SetExtends(sp, cube) == [sp EXCEPT !.offset = Offsets(cube), !.size = Sizes(cube)]

(* esdm_dataspace_subspace() refuses everything else.  A dimension of size *)
(* 0 has no end.                                                           *)
IsSubspace(sp, size, offset) ==
    /\ Len(size) = Len(sp.size)
    /\ \A i \in DOMAIN size :
         /\ size[i] > 0 /\ offset[i] >= 0 /\ offset[i] >= sp.offset[i]
         /\ sp.size[i] # 0 => offset[i] + size[i] <= sp.offset[i] + sp.size[i]

Subspace(sp, size, offset) == CreateFull(size, offset)

MakeContiguous(sp) == Subspace(sp, sp.size, sp.offset)

(* A JSON object is a function of its keys; no stride, no key. *)
Serialize(sp) ==
    [key \in {"size", "offset"} \cup (IF sp.stride = NullStride THEN {} ELSE {"stride"})
       |-> sp[key]]

CreateFromJson(object, dims) ==
    IF {"size", "offset"} \subseteq DOMAIN object
         /\ \A key \in DOMAIN object : Len(object[key]) = dims
    THEN [offset |-> object["offset"], size |-> object["size"],
          stride |-> IF "stride" \in DOMAIN object THEN object["stride"] ELSE NullStride]
    ELSE None

(* esdm_dataspace_copy_data(): every common element moves from its place   *)
(* in one memory to its place in the other.                                *)
CopyData(source, from, dest, to) ==
    Overwrite(to, {<<ElementOffset(dest, x), At(from, ElementOffset(source, x))>> :
                     x \in Elements(MakeIntersection(Extends(source), Extends(dest)))})

(* The single element that all elements of a region are copied from. *)
ZeroStride(sp) == SetStride(sp, [i \in DOMAIN sp.size |-> 0])

FillSpace(sp, data, value) ==
    CopyData(ZeroStride(CreateFull(sp.size, sp.offset)), {<<0, value>>}, sp, data)

(* The fill operation of a read, for all hypercubes no fragment covers. *)
EnqueueFill(sp, data, cubes) ==
    FoldLeft(LAMBDA buf, cube : CopyData(SetExtends(ZeroStride(sp), cube), {<<0, Fill>>}, sp, buf),
             data, cubes)

-----------------------------------------------------------------------------
(* Fragments and backends.                                                 *)

(* The bytes that are written for a fragment, and what reading them does   *)
(* to its buffer.                                                          *)
Pack(sp, buf) ==
    IF sp.stride = NullStride
    THEN {<<a, At(buf, a)>> : a \in 0 .. ElementCount(sp) - 1}
    ELSE CopyData(sp, buf, MakeContiguous(sp), {})

Unpack(sp, bytes, buf) ==
    IF sp.stride = NullStride THEN Overwrite(buf, bytes)
    ELSE CopyData(MakeContiguous(sp), bytes, sp, buf)

Unloaded(sp) == [space |-> sp, buf |-> None, status |-> "not_loaded"]

(* Mutant: the end of the fragment is taken for its size. *)
UpdateActualToSize(size, sp) ==
    IF size = None THEN None
    ELSE [i \in DOMAIN size |->
            IF space.size[i] = 0 /\ sp.size[i] > size[i] THEN sp.size[i] ELSE size[i]]

UpdateActualSize(size, sp) ==
    IF size = None THEN None
    ELSE [i \in DOMAIN size |->
            IF space.size[i] = 0 /\ sp.size[i] + sp.offset[i] > size[i]
            THEN sp.size[i] + sp.offset[i] ELSE size[i]]

(* The actual size before there are fragments. *)
InitialActualSize(sp) ==
    IF \E i \in DOMAIN sp.size : sp.size[i] = 0 THEN sp.size ELSE None

GetActualSize == IF actual = None THEN space.size ELSE actual

(* fragmentsCoverRegion(): the part of the region that is not covered. *)
Uncovered(region, covering) ==
    FoldLeft(LAMBDA cubes, cube : Subtract(cubes, cube), <<region>>, SetToSeq(covering))

MakeSetCoveringRegion(region) ==
    IF region \in DOMAIN frags THEN {region}
    ELSE {c \in DOMAIN frags : DoesIntersect(c, region)}

(* The application makes its next call. *)
Idle == alive /\ mem = None

-----------------------------------------------------------------------------
(* Writing.                                                                *)

(* The hypercubes a request is split into: all of it, or two slabs.        *)
Splits(cube) ==
    {{cube}} \cup
    UNION {{ {[cube EXCEPT ![i].end = cut], [cube EXCEPT ![i].start = cut]} :
               cut \in cube[i].start + 1 .. cube[i].end - 1} : i \in DOMAIN cube}

(* The application's memory for a space. *)
UserMemory(sp) == {<<ElementOffset(sp, x), x>> : x \in Elements(Extends(sp))}

FragmentBuffer(sp, cube, buf) == Advance(buf, ElementOffset(sp, Offsets(cube)))

(* esdm_write(): the new fragments get the layout of the application's     *)
(* memory, are written and unloaded.  A fragment that exists is left as it *)
(* is.                                                                     *)
Write(sp, cubes) ==
    LET new     == cubes \ DOMAIN frags
        buf     == UserMemory(sp)
        fspace  == [c \in new |-> CopyDatalayout(CreateFromHypercube(c), sp)]
    IN  /\ Idle /\ status # "not_loaded"
        /\ Cardinality(DOMAIN frags \cup cubes) <= MaxFragments
        /\ disk' = Extended(disk, [c \in new |-> Pack(fspace[c], FragmentBuffer(sp, c, buf))])
        /\ frags' = Extended(frags, [c \in new |-> Unloaded(fspace[c])])
        /\ actual' = FoldLeft(LAMBDA size, c : UpdateActualSize(size, fspace[c]), actual, SetToSeq(new))
        /\ status' = IF new = {} THEN status ELSE "dirty"
        /\ written' = written \cup Elements(Extends(sp))
        /\ UNCHANGED <<space, json, mem, alive>>

-----------------------------------------------------------------------------
(* Reading.                                                                *)

(* A round of the loop of esdmI_dataspace_copy_instructions() that joins   *)
(* dimensions to one chunk of memory.                                      *)
FuseRound(source, dest, overlap, fused) ==
    LET s    == EffectiveStride(source)
        d    == EffectiveStride(dest)
        fits == {i \in DOMAIN s \ fused.dims : s[i] = d[i] /\ Abs(s[i]) = fused.chunk}
        i    == CHOOSE k \in fits : \A l \in fits : l <= k
        n    == RangeSize(overlap[i])
    IN  IF ~fused.go \/ fits = {} THEN fused
        ELSE [dims  |-> fused.dims \cup {i},
              chunk |-> fused.chunk * n,
              back  |-> IF s[i] < 0 THEN fused.back + fused.chunk * (n - 1) ELSE fused.back,
              go    |-> n = source.size[i] /\ n = dest.size[i]]

CopyInstructions(source, dest) ==
    LET overlap == MakeIntersection(Extends(source), Extends(dest))
        fused   == FoldLeft(LAMBDA f, i : FuseRound(source, dest, overlap, f),
                            [dims |-> {}, chunk |-> 1, back |-> 0, go |-> TRUE],
                            [i \in DOMAIN source.size |-> i])
    IN  [dims   |-> Cardinality(DOMAIN source.size \ fused.dims),
         chunk  |-> fused.chunk,
         source |-> ElementOffset(source, Offsets(overlap)) - fused.back,
         dest   |-> ElementOffset(dest, Offsets(overlap)) - fused.back]

(* Mutant: a part of the fragment is enough. *)
DirectWhenOnePiece(f, sp) ==
    CopyInstructions(f.space, sp).dims = 0 /\ f.buf = None

(* The backend can read the fragment into the application's memory. *)
TryDirectIo(f, sp) ==
    /\ CopyInstructions(f.space, sp).dims = 0
    /\ CopyInstructions(f.space, sp).chunk = ElementCount(f.space)
    /\ f.buf = None

(* The assertion that the chunk begins where the fragment begins. *)
AssertsHold(f, sp) == TryDirectIo(f, sp) => CopyInstructions(f.space, sp).source = 0

(* esdm_fragment_retrieve() into a buffer of the fragment's own, for which *)
(* its space becomes contiguous.  A fragment that is loaded stays so.      *)
Load(f, bytes) ==
    IF f.status = "persistent" THEN f
    ELSE [space  |-> MakeContiguous(f.space),
          buf    |-> Unpack(MakeContiguous(f.space), bytes, {}),
          status |-> "persistent"]

(* The bytes of a fragment land in the application's memory through the    *)
(* pointer that direct I/O has set.                                        *)
DirectRead(f, bytes, sp, data) ==
    LET base == CopyInstructions(f.space, sp).dest
    IN  Advance(Unpack(f.space, bytes, Advance(data, base)), -base)

(* The application's memory after the task of fragment c. *)
AfterTask(c, sp, data) ==
    LET loaded == Load(frags[c], disk[c])
    IN  IF TryDirectIo(frags[c], sp) THEN DirectRead(frags[c], disk[c], sp, data)
        ELSE CopyData(loaded.space, loaded.buf, sp, data)

(* esdm_read(), into memory that was cleared with esdm_dataspace_fill().   *)
(* A fragment that was read directly is unloaded again.                    *)
Read(sp) ==
    LET region  == Extends(sp)
        reads   == MakeSetCoveringRegion(region)
        cleared == FillSpace(sp, {}, Cleared)
        filled  == EnqueueFill(sp, cleared, Uncovered(region, reads))
    IN  /\ Idle /\ status # "not_loaded"
        /\ alive' = \A c \in reads : AssertsHold(frags[c], sp)
        /\ mem' = [space |-> sp,
                   data  |-> FoldLeft(LAMBDA data, c : AfterTask(c, sp, data), filled, SetToSeq(reads))]
        /\ frags' = [c \in DOMAIN frags |->
                       IF c \in reads /\ ~TryDirectIo(frags[c], sp)
                       THEN Load(frags[c], disk[c]) ELSE frags[c]]
        /\ UNCHANGED <<space, actual, status, disk, json, written>>

Return ==
    /\ mem # None /\ alive
    /\ mem' = None
    /\ UNCHANGED <<space, actual, frags, status, disk, json, written, alive>>

-----------------------------------------------------------------------------
(* Metadata.                                                               *)

(* esdm_dataset_commit(), which does nothing when nothing has changed. *)
Commit ==
    /\ Idle /\ status = "dirty"
    /\ status' = "persistent"
    /\ json' = [size |-> space.size, fragments |-> {Serialize(frags[c].space) : c \in DOMAIN frags}]
    /\ UNCHANGED <<space, actual, frags, disk, mem, written, alive>>

(* esdm_dataset_close() by the last user: nothing is freed while there are *)
(* changes.                                                                *)
Close ==
    /\ Idle /\ status = "persistent"
    /\ status' = "not_loaded"
    /\ frags' = <<>>
    /\ UNCHANGED <<space, actual, disk, json, mem, written, alive>>

(* esdm_dataset_open(), by this process or, with a new dataset in memory,  *)
(* by another one.  Of several fragments with one shape the first counts.  *)
Open ==
    LET spaces == {CreateFromJson(object, Len(json.size)) : object \in json.fragments} \ {None}
        shapes == {Extends(sp) : sp \in spaces}
    IN  /\ Idle /\ status = "not_loaded"
        /\ space' = Create(json.size)
        /\ frags' = [c \in shapes |-> Unloaded(CHOOSE sp \in spaces : Extends(sp) = c)]
        /\ actual' = FoldLeft(UpdateActualSize, InitialActualSize(space'), SetToSeq(spaces))
        /\ status' = "persistent"
        /\ UNCHANGED <<disk, json, mem, written, alive>>

-----------------------------------------------------------------------------
(* The memory spaces of requests: subspaces of the dataset with a stride.  *)
Requests ==
    UNION {{SetStride(Subspace(space, b.size, b.offset), stride) : stride \in Layouts(b.size)} :
             b \in {box \in Boxes : IsSubspace(space, box.size, box.offset)}}

Init ==
    /\ \E size \in Datasets : space = Create(size)
    /\ actual = InitialActualSize(space)
    /\ frags = <<>> /\ disk = <<>>
    /\ status = "dirty" /\ json = None /\ mem = None
    /\ written = {} /\ alive = TRUE

Next ==
    \/ \E sp \in Requests : \E cubes \in Splits(Extends(sp)) : Write(sp, cubes)
    \/ \E sp \in Requests : Read(sp)
    \/ Return
    \/ Commit
    \/ Close
    \/ Open

Spec == Init /\ [][Next]_vars

-----------------------------------------------------------------------------
(* Whatever layouts the writers used, however their requests were split    *)
(* and however often the dataset was closed and opened: a read puts every  *)
(* element that was written to its place in the layout of the reader, the  *)
(* fill value to the places of all others, and touches no other memory.    *)
ReadsInPlace ==
    mem # None /\ alive =>
      LET all == Elements(Extends(mem.space))
      IN  /\ Places(mem.data) = {ElementOffset(mem.space, x) : x \in all}
          /\ \A x \in all : At(mem.data, ElementOffset(mem.space, x)) = IF x \in written THEN x ELSE Fill

(* The actual size of an unlimited dimension is the end of the last        *)
(* element that was written, also after the dataset was opened again, for  *)
(* which it is computed from the fragments.                                *)
ActualSizeExact ==
    status # "not_loaded" =>
      \A i \in DOMAIN space.size :
        space.size[i] = 0 =>
          /\ \A x \in written : x[i] < GetActualSize[i]
          /\ GetActualSize[i] > 0 => \E x \in written : x[i] + 1 = GetActualSize[i]

(* esdmI_scheduler_try_direct_io(): "we have determined that we need the   *)
(* entire fragments data, so there should be no cut-off at the beginning". *)
DirectFromStart == alive
=============================================================================
