------------------------------ MODULE Scheduler ------------------------------
(***************************************************************************)
(* What the scheduler (esdm-scheduler.c) does to the data of one dataset:  *)
(* blocking reads and writes are cut into fragments, backend threads load  *)
(* or commit the fragments in any order, and the buffers of the fragments  *)
(* are borrowed from the caller or owned by the fragment                   *)
(* (esdm-datatypes.c, fragments.c).                                        *)
(*                                                                         *)
(* A hypercube is the set of its elements and the content of a buffer or   *)
(* file is a function on elements.  Waiting and pool sizes are modelled in *)
(* RequestStatus; here a request goes on when its last task has reported.  *)
(***************************************************************************)
EXTENDS Naturals, FiniteSets

CONSTANTS
    Cells,           \* the elements of the dataset
    Cubes,           \* the hypercubes that requests and fragments may have
    Values,          \* what applications write
    Fill,            \* the fill value
    Junk,            \* unspecified memory content
    HasFill,         \* esdm_dataset_set_fill_value() was called
    MayFail,         \* backend operations that may fail
    WritebackRatio,  \* ioBytes/requestBytes that triggers a write-back (8)
    ReadCalls        \* the reading functions the application uses

ASSUME SchedulerAssumption ==
    /\ IsFiniteSet(Cells)
    /\ Cubes \subseteq (SUBSET Cells) \ {{}}
    /\ Fill \notin Values /\ Junk \notin Values /\ Fill # Junk
    /\ HasFill \in BOOLEAN
    /\ MayFail \subseteq {"load", "commit"}
    /\ WritebackRatio \in Nat
    /\ ReadCalls \subseteq {"read", "read_grid"}

VARIABLES
    frag,   \* the fragment table: the esdm_fragment_t of every shape
    disk,   \* what the backends hold for every shape
    pc,     \* the user thread: idle, in the enqueue loop / waiting, returning
    req,    \* the request it executes
    todo,   \* fragments the enqueue loop has still to visit
    task,   \* the io_work_t of every fragment, where there is one
    rc,     \* return_code of the request
    mem     \* the caller's buffer

vars == <<frag, disk, pc, req, todo, task, rc, mem>>

Contents == [Cells -> Values \cup {Fill, Junk}]
Blank == [x \in Cells |-> Junk]
NoTask == [callback |-> "none", at |-> "none", ret |-> "none"]
Absent == [status |-> "absent", buf |-> "null", packed |-> TRUE, data |-> Blank]

\* The part of a buffer that belongs to a hypercube, and a buffer after that
\* part was overwritten.
Cut(data, cube) == [x \in Cells |-> IF x \in cube THEN data[x] ELSE Junk]
Overlay(data, cube, new) == [x \in Cells |-> IF x \in cube THEN new[x] ELSE data[x]]

Present == {c \in Cubes : frag[c].status # "absent"}
Disjoint(S) == \A a, b \in S : a # b => a \cap b = {}

\* Fragmentation: any way to cut a region into disjoint hypercubes.  How the
\* pieces are chosen and given to backends is modelled in Fragmentation.
Tilings(region) == {T \in SUBSET Cubes : Disjoint(T) /\ UNION T = region}

\* Mutant: only the fragments within the region.
FragmentsWithinRegion(region) ==
    IF region \in Present THEN {region} ELSE {c \in Present : c \subseteq region}

\* esdmI_fragments_makeSetCoveringRegion(): the fragment with exactly this shape
\* if there is one, else all fragments that overlap the region.
MakeSetCoveringRegion(region) ==
    IF region \in Present THEN {region} ELSE {c \in Present : c \cap region # {}}

\* esdmI_grid_fragmentsInRegion() of a complete grid: disjoint fragments that
\* cover the region.
GridSets(region) ==
    {S \in SUBSET {c \in Present : c \cap region # {}} :
        Disjoint(S) /\ region \subseteq UNION S}

\* esdmI_dataset_fragmentsCoveringRegion(); esdm_read_grid() does not come here if
\* the fragment of the cell exists.
FragmentsCoveringRegion(op, region) ==
    {MakeSetCoveringRegion(region)} \cup
    (IF op = "read_grid" /\ region \in Present THEN {} ELSE GridSets(region))

Init ==
    /\ frag = [c \in Cubes |-> Absent]
    /\ disk = [c \in Cubes |-> Blank]
    /\ pc = "idle"
    /\ req = [op |-> "read", region |-> {}, packed |-> TRUE, reads |-> {}, complete |-> TRUE]
    /\ todo = {}
    /\ task = [c \in Cubes |-> NoTask]
    /\ rc = "success"
    /\ mem = Blank

-----------------------------------------------------------------------------
(* The user thread.                                                        *)

\* esdm_write() and, with a single tile, esdm_write_grid(): enter the enqueue
\* loop over the tiles of the region.
BeginWrite(region, tiles, v, packed) ==
    /\ pc = "idle"
    /\ pc' = "enqueue"
    /\ req' = [op |-> "write", region |-> region, packed |-> packed, reads |-> {}, complete |-> TRUE]
    /\ todo' = tiles
    /\ rc' = "success"
    /\ mem' = [x \in Cells |-> IF x \in region THEN v ELSE Junk]
    /\ UNCHANGED <<frag, disk, task>>

\* Whether the part c of the caller's buffer is one piece of memory: all of a
\* packed buffer is, and in several dimensions a part of it may or may not be.
OnePiece(c) ==
    IF ~req.packed THEN {FALSE} ELSE IF c = req.region THEN {TRUE} ELSE BOOLEAN

\* Mutant: the fragment that has the shape already is not looked up.
EnqueueWriteAgain(c) ==
    /\ pc = "enqueue" /\ req.op \in {"write", "writeback"}
    /\ c \in todo
    /\ todo' = todo \ {c}
    /\ \E packed \in OnePiece(c) :
         frag' = [frag EXCEPT ![c] = [status |-> "dirty", buf |-> "caller",
                                      packed |-> packed, data |-> Blank]]
    /\ task' = [task EXCEPT ![c] = [callback |-> "cleanup", at |-> "commit", ret |-> "none"]]
    /\ UNCHANGED <<disk, pc, req, rc, mem>>

\* One round of the enqueue loop of a write: esdmI_dataset_createFragment() and
\* esdmI_scheduler_writeFragmentNonblocking().  A fragment that exists already is
\* left alone.
EnqueueWrite(c) ==
    /\ pc = "enqueue" /\ req.op \in {"write", "writeback"}
    /\ c \in todo
    /\ todo' = todo \ {c}
    /\ IF c \in Present
       THEN UNCHANGED <<frag, task>>
       ELSE /\ \E packed \in OnePiece(c) :
                 frag' = [frag EXCEPT ![c] = [status |-> "dirty", buf |-> "caller",
                                              packed |-> packed, data |-> Blank]]
            /\ task' = [task EXCEPT ![c] = [callback |-> "cleanup", at |-> "commit", ret |-> "none"]]
    /\ UNCHANGED <<disk, pc, req, rc, mem>>

\* esdm_read() and esdm_read_grid(), up to the enqueue loop: find the fragments,
\* paint what they do not cover with the fill value, or give up.
BeginRead(op, region, packed) ==
    /\ pc = "idle"
    /\ \E reads \in FragmentsCoveringRegion(op, region) :
         LET uncovered == region \ UNION reads IN
         /\ req' = [op |-> op, region |-> region, packed |-> packed, reads |-> reads,
                    complete |-> uncovered = {}]
         /\ IF uncovered # {} /\ ~HasFill
            THEN pc' = "return" /\ rc' = "incomplete" /\ todo' = {}
            ELSE pc' = "enqueue" /\ rc' = "success" /\ todo' = reads
         /\ mem' = [x \in Cells |-> IF x \in uncovered /\ HasFill THEN Fill ELSE Junk]
    /\ UNCHANGED <<frag, disk, task>>

\* Mutant: fragments that have their data in memory are read directly, too.
DirectIOLoaded(c, onePiece) == onePiece /\ frag[c].packed /\ c \subseteq req.region

\* esdmI_scheduler_try_direct_io(): one memcpy() moves the whole fragment, and the
\* fragment has no buffer yet.
DirectIO(c, onePiece) ==
    /\ onePiece /\ frag[c].packed
    /\ c \subseteq req.region
    /\ frag[c].buf = "null"

\* One round of the loop of esdm_scheduler_enqueue_read().
EnqueueRead(c) ==
    /\ pc = "enqueue" /\ req.op \in {"read", "read_grid"}
    /\ c \in todo
    /\ todo' = todo \ {c}
    /\ \E onePiece \in OnePiece(c) :
         IF DirectIO(c, onePiece)
         THEN /\ frag' = [frag EXCEPT ![c].buf = "caller"]
              /\ task' = [task EXCEPT ![c] = [callback |-> "cleanup", at |-> "load", ret |-> "none"]]
         ELSE /\ task' = [task EXCEPT ![c] = [callback |-> "copy", at |-> "load", ret |-> "none"]]
              /\ UNCHANGED frag
    /\ UNCHANGED <<disk, pc, req, rc, mem>>

\* esdm_scheduler_wait() returns: every task that was enqueued has reported.
Waited == pc = "enqueue" /\ todo = {} /\ \A c \in Cubes : task[c] = NoTask

\* The end of esdm_scheduler_read_blocking(): what was read is written again as
\* fragments of its own if far more data was read than asked for, and is complete.
WritebackDue ==
    /\ req.op = "read" /\ rc = "success" /\ req.complete
    /\ LET Size(c) == Cardinality(c)
           ioBytes == Cardinality({p \in req.reads \X Cells : p[2] \in p[1]})
       IN  ioBytes >= WritebackRatio * Size(req.region)

\* The end of esdm_read_grid(): what was read becomes the fragment of the cell.
GridCellDue == req.op = "read_grid" /\ rc = "success" /\ req.region \notin Present

\* The internal write of a write-back; its return code is ignored.
BeginWriteback(tiles) ==
    /\ Waited
    /\ \/ WritebackDue
       \/ GridCellDue /\ tiles = {req.region}
    /\ req' = [req EXCEPT !.op = "writeback"]
    /\ todo' = tiles
    /\ UNCHANGED <<frag, disk, pc, task, rc, mem>>

Complete ==
    /\ Waited
    /\ ~WritebackDue /\ ~GridCellDue
    /\ pc' = "return"
    /\ rc' = IF req.op = "writeback" THEN "success" ELSE rc
    /\ UNCHANGED <<frag, disk, req, todo, task, mem>>

\* The call returns and the buffer is the application's again: whoever still
\* refers to it has a stale reference.
Return ==
    /\ pc = "return"
    /\ pc' = "idle"
    /\ frag' = [c \in Cubes |->
                  IF frag[c].buf = "caller" THEN [frag[c] EXCEPT !.buf = "stale"] ELSE frag[c]]
    /\ req' = [op |-> "read", region |-> {}, packed |-> TRUE, reads |-> {}, complete |-> TRUE]
    /\ rc' = "success"
    /\ mem' = Blank
    /\ UNCHANGED <<disk, todo, task>>

-----------------------------------------------------------------------------
(* backend_thread(), for the task of one fragment.                         *)

\* What a fragment's buffer holds.
Buffer(c) ==
    CASE frag[c].buf = "own" -> frag[c].data
      [] frag[c].buf = "caller" -> Cut(mem, c)
      [] OTHER -> Blank

Outcomes(operation) ==
    IF operation \in MayFail THEN {"success", "error"} ELSE {"success"}

\* Mutant: a failed transfer counts, too.
TransferIgnoresError(c, buf, data) ==
    /\ frag' = [frag EXCEPT ![c].buf = buf, ![c].packed = TRUE, ![c].status = "persistent",
                            ![c].data = IF buf = "own" THEN data ELSE @]
    /\ mem' = IF buf = "caller" THEN Overlay(mem, c, data) ELSE mem

\* The transfer of a retrieve into the fragment's buffer.  A failed transfer
\* leaves unspecified data there.
Transfer(c, buf, data) ==
    /\ frag' = [frag EXCEPT ![c].buf = buf,
                            ![c].packed = IF frag[c].buf = "null" THEN TRUE ELSE @,
                            ![c].data = IF buf = "own" THEN data ELSE @,
                            ![c].status = IF task'[c].ret = "success" THEN "persistent" ELSE @]
    /\ mem' = IF buf = "caller" THEN Overlay(mem, c, data) ELSE mem

\* esdm_fragment_load(): nothing to do if the data is in memory, else
\* esdm_fragment_retrieve() into the buffer at hand or a new one.
Load(c) ==
    /\ task[c].at = "load"
    /\ IF frag[c].status = "not_loaded"
       THEN \E ret \in Outcomes("load") :
              /\ task' = [task EXCEPT ![c].at = "callback", ![c].ret = ret]
              /\ Transfer(c, IF frag[c].buf = "null" THEN "own" ELSE frag[c].buf,
                          IF ret = "success" THEN disk[c] ELSE Blank)
       ELSE /\ task' = [task EXCEPT ![c].at = "callback", ![c].ret = "success"]
            /\ UNCHANGED <<frag, mem>>
    /\ UNCHANGED <<disk, pc, req, todo, rc>>

\* esdm_fragment_commit().
Commit(c) ==
    /\ task[c].at = "commit"
    /\ \E ret \in Outcomes("commit") :
         /\ task' = [task EXCEPT ![c].at = "callback", ![c].ret = ret]
         /\ IF ret = "success"
            THEN /\ frag' = [frag EXCEPT ![c].status = "persistent"]
                 /\ disk' = [disk EXCEPT ![c] = Buffer(c)]
            ELSE UNCHANGED <<frag, disk>>
    /\ UNCHANGED <<pc, req, todo, rc, mem>>

\* Mutant: the reference to the buffer survives.
UnloadKeepsBuffer(c) == frag' = [frag EXCEPT ![c].status = "not_loaded"]

\* esdm_fragment_unload() of a persistent fragment, the only kind a successful
\* task leaves behind.
Unload(c) ==
    frag' = [frag EXCEPT ![c].status = "not_loaded", ![c].buf = "null", ![c].data = Blank]

\* Mutant: the copy is not clipped to the region.
CallbackUnclipped(c) ==
    /\ task[c].at = "callback"
    /\ CASE task[c].ret # "success" -> UNCHANGED <<frag, mem>>
         [] task[c].ret = "success" /\ task[c].callback = "copy" ->
              mem' = Overlay(mem, c, Buffer(c)) /\ UNCHANGED frag
         [] task[c].ret = "success" /\ task[c].callback = "cleanup" ->
              Unload(c) /\ UNCHANGED mem
    /\ rc' = IF task[c].ret # "success" THEN "error" ELSE rc
    /\ task' = [task EXCEPT ![c] = NoTask]
    /\ UNCHANGED <<disk, pc, req, todo>>

\* The callback, and the report to the request's status.  Both callbacks do
\* nothing if the operation failed.
Callback(c) ==
    /\ task[c].at = "callback"
    /\ CASE task[c].ret # "success" -> UNCHANGED <<frag, mem>>
         [] task[c].ret = "success" /\ task[c].callback = "copy" ->
              mem' = Overlay(mem, c \cap req.region, Buffer(c)) /\ UNCHANGED frag
         [] task[c].ret = "success" /\ task[c].callback = "cleanup" ->
              Unload(c) /\ UNCHANGED mem
    /\ rc' = IF task[c].ret # "success" THEN "error" ELSE rc
    /\ task' = [task EXCEPT ![c] = NoTask]
    /\ UNCHANGED <<disk, pc, req, todo>>

-----------------------------------------------------------------------------

Next ==
    \/ \E region \in Cubes, v \in Values, packed \in BOOLEAN :
         \E tiles \in Tilings(region) : BeginWrite(region, tiles, v, packed)
    \/ \E op \in ReadCalls, region \in Cubes, packed \in BOOLEAN :
         BeginRead(op, region, packed)
    \/ \E c \in Cubes : EnqueueWrite(c)
    \/ \E c \in Cubes : EnqueueRead(c)
    \/ \E tiles \in Tilings(req.region) : BeginWriteback(tiles)
    \/ Complete
    \/ Return
    \/ \E c \in Cubes : Load(c)
    \/ \E c \in Cubes : Commit(c)
    \/ \E c \in Cubes : Callback(c)

Spec == Init /\ [][Next]_vars

-----------------------------------------------------------------------------
(* Properties.                                                             *)

\* Between two calls no fragment refers to a buffer of the application: direct
\* reads and writes have given the borrowed buffer back (buffer_cleanup_callback).
NoStaleBuffer == \A c \in Cubes : frag[c].buf # "stale"

\* A fragment whose data is cached in memory of its own caches what the backend
\* holds, also after failed operations: a later read may be served from it.
CacheCoherent ==
    \A c \in Cubes : frag[c].status = "persistent" /\ frag[c].buf = "own" => frag[c].data = disk[c]

\* A read that returns success has filled every element of the region with data
\* stored by a fragment it used, or with the fill value where there is no
\* fragment, in whatever order the loads and copies of its tasks happened.
ReadCorrect ==
    pc = "return" /\ rc = "success" /\ req.op # "write" =>
        \A x \in req.region :
            mem[x] \in IF \E c \in req.reads : x \in c
                       THEN {disk[c][x] : c \in {d \in req.reads : x \in d}}
                       ELSE {Fill}

\* No read touches memory outside the region it was asked for, although whole
\* fragments are read directly into the caller's buffer (try_direct_io).
ReadStaysInRegion == \A x \in Cells \ req.region : mem[x] = Junk

\* What a backend holds for a fragment never changes: a shape is written once.
WriteOnce == [][\A c \in Cubes : disk[c] # Blank => disk'[c] = disk[c]]_vars

\* A write that returns success leaves stored data for all of its region.
SuccessfulWriteStored ==
    pc = "return" /\ req.op = "write" /\ rc = "success" =>
        \A x \in req.region : \E c \in Cubes : x \in c /\ disk[c][x] # Junk

\* The write-once store that the dataset is for its users.  A fragment that waits
\* for its commit counts: its data is in the caller's buffer.
StoreTable == [c \in Cubes |-> IF frag[c].status = "dirty" THEN Buffer(c) ELSE disk[c]]
StoreAnswer ==
    IF pc = "return" /\ rc = "success" /\ req.op # "write"
    THEN [region |-> req.region, data |-> mem]
    ELSE [region |-> {}, data |-> Blank]

Store == INSTANCE WriteOnceStore WITH table <- StoreTable, answer <- StoreAnswer

\* Scheduler, caches, direct I/O, overlapping fragments and write-back included,
\* implements the write-once store.
ImplementsStore == Store!Spec
=============================================================================
