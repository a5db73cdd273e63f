# Verification of the Earth System Data Middleware

ESDM stores hypercubes of scientific data. An application opens *containers* and
*datasets*, and reads or writes *dataspaces* (hypercubes with a memory layout). A
*scheduler* cuts requests into *fragments*, and *backends* store the fragments on
file systems, object stores or network attached memory. A *metadata backend* keeps the
descriptions of containers, datasets and fragments.

This directory holds TLA+ models of that code, configurations that check them with
TLC, and proofs that TLAPS checks. `PROJECT.json` lists the parts of the system, the
runs, the definitions with the source lines they model, the hazards the properties are
aimed at, and the theorems.

## The parts of the system

| part | source (under `src/src/`) | modules |
|---|---|---|
| request status, backend threads | `esdm-scheduler.c` | `RequestStatus`, `RequestStatus_proofs` |
| data path: reads, writes, direct I/O, write-back | `esdm-scheduler.c`, `esdm.c`, `fragments.c` | `Scheduler`, `WriteOnceStore`, `Scheduler_proofs` |
| fragmentation, distribution to backends | `esdm-scheduler.c` | `Fragmentation` |
| copy between dataspaces | `esdm-scheduler.c` | `DataspaceCopy` |
| dataspaces, layout of fragments and their metadata | `esdm-datatypes.c`, `fragments.c`, `estream.c` | `FragmentLayouts`, `Hypercube` |
| hypercube sets, minimal subsets | `hypercube.c` | `HypercubeList`, `Hypercube` |
| bound lists, neighbour manager | `hypercube-neighbour-manager.c` | `BoundList`, `BoundTree`, `BoundArray`, `BoundLists`, `NeighbourManager` |
| containers, datasets, POSIX metadata | `esdm-datatypes.c`, `esdm.c`, `backends-metadata/posix/md-posix.c` | `Containers`, `Containers_proofs` |
| grids | `esdm-grid.c`, `interfaces/mpi/esdm-mpi.c` | `Grids`; their effect on fragments also in `Scheduler` |
| POSIX, IME, PMEM, S3 and dummy data backends | `backends-data/` | `FileBackends`, `FileBackends_proofs`, `Fragments` |
| Motr data backend | `backends-data/Motr/client.c` | `MotrObjects`, `MotrObjects_proofs`, `Fragments` |
| WOS data backend | `backends-data/WOS/wos.c` | `WosObjects`, `WosObjects_proofs`, `Fragments` |
| KDSA data backend: block allocation | `backends-data/kdsa/esdm-kdsa.c` | `KdsaBlocks`, `KdsaBlocks_proofs` |
| collective calls | `interfaces/mpi/esdm-mpi.c` | `Collectives` |
| write streams | `esdm-stream.c`, `include/esdm-stream.h` | `Streams` |
| configuration, start and end | `esdm.c`, `esdm-config.c`, `esdm-modules.c`, the init and finalize functions | `Startup`, `Services_proofs` |
| `mkfs.esdm` | `esdm.c`, `tools/mkfs.esdm.c`, the mkfs functions | `Format`, `Services_proofs` |

The scheduler sits between all other parts. `esdm_read()` and `esdm_write()` run in the
thread of the application; every data backend has a pool of threads (or none, and then
its work is done by the caller). The two sides meet in an `io_request_status_t` on the
stack of the caller and in the table of fragments of the dataset. Containers, datasets and
grids are only used by the thread of the application; other processes are met in the
collective calls, and in the storage of the backends.

Parts that are run through one configuration are put together by four modules: `Geometry`
(everything that computes with hypercubes and dataspaces), `Datasets` (`Containers` and
`Grids`), `DataBackends` (`FileBackends`, `MotrObjects` and `WosObjects`, which share the
constants in `Fragments`) and `Services` (`Collectives`, `Streams`, `Startup` and `Format`).
Each part is modelled on its own, with what it needs of the others as choices of its own. A
behaviour of such a module is a behaviour of one of its parts, chosen by `Init`, and the others
rest; it adds no interleaving of parts, and none is claimed. `Datasets` extends `Containers`,
`DataBackends` its three parts and `Services` `Format` and `Startup`, so that their properties in the runs
are the definitions the theorems are about; the others are instances, whose properties are
named again in the module.

Each `MC` module gives the constants their values.

## RequestStatus: counting, waiting and finalising

One request: the user thread initialises a status, hands one task per fragment to the
backends, waits, finalises the status and goes on to the next request.

* `pc` is where the user thread is; `task[t]` is where `backend_thread()` is for task
  `t`; `announced` are the tasks counted in `pending_ops`; `mutex` is the owner of
  `status->mutex`; `alive` says that the status is initialised and not finalised.
* A read counts all fragments before the first push (`AnnounceRead`), a write counts each
  just before its push (`AnnounceWrite`).
* A task of a backend without threads runs inside `Push`: while it runs (`Inline`), the
  user thread does nothing else.
* Every lock, unlock, wait, signal and atomic update is a step of its own. `g_cond_wait()`
  may return without a signal (`SpuriousWakeup`).

`MCRequestStatus` has three tasks on a backend with two threads, so that one has to
queue, and a fourth on a backend that runs in the caller. That is the smallest request in
which tasks run in parallel, queue, and run inline. The status is reused by the next
request, so that leftovers of the previous one would show.

Fairness (`Fairness`): the user thread and each task that can go on go on, which is what
the operating system guarantees for threads that do not block. The mutex is strongly fair
for each task: without it the user thread could wake up spuriously and take the mutex
for ever, which a real mutex and a real condition variable do not allow.

## Scheduler: what happens to the data

The data path of one dataset. A hypercube is the set of its elements, the content of a
buffer is a function on elements. `frag[c]` is the `esdm_fragment_t` of shape `c`
(its status, whose memory its buffer is, and what is in it), `disk[c]` is what the
backends hold, `mem` is the buffer of the caller, `task[c]` the `io_work_t`.

* `BeginWrite`, `EnqueueWrite`: a region is cut into any set of disjoint hypercubes; a
  shape that exists already is skipped, as `esdmI_dataset_createFragment()` makes the
  scheduler do.
* `BeginRead`: the fragments that cover the region (`MakeSetCoveringRegion`, or the
  fragments of a complete grid), the fill value where nothing covers it.
* `EnqueueRead`: direct I/O into the caller's buffer where one `memcpy()` would do
  (`DirectIO`), a copy callback otherwise.
* `Load`, `Commit`, `Callback`: the steps of `backend_thread()`, in any order between
  fragments, each of which may fail.
* `BeginWriteback`: what was read with too much effort, or through a grid, is stored again.
* `Return` gives the buffer back to the application; a fragment that still refers to
  it then has a stale reference.

`WriteOnceStore` is the abstract specification: hypercubes are put once, and a read
answers each element from a hypercube that contains it, or with the fill value. As long as
the backends do not fail, `Scheduler` implements it (`ImplementsStore`); the refinement
mapping counts a fragment that waits for its commit as stored, because its data is in the
caller's buffer.

The runs use three elements and hypercubes that nest and overlap ({1}, {2}, {1,2},
{2,3}): exact hits, fragments inside the region, fragments that stick out, and reads that
several fragments answer. The number of operations is not bounded: the state space is
finite. Two values are enough to tell stored data from other data, and they are
symmetric. `WritebackRatio` is 8 in the code and 1 here, so that write-backs happen among
fragments of one and two elements.

## KdsaBlocks: allocation on shared network memory

Processes share a volume whose block map has one bit per block. Each searches its own copy
of the map, which may be stale, and claims or releases a block with a compare-and-swap of
one word. `map` is the map on the volume, `cache[p]` and `estimate[p]` the copy and the
estimate of free blocks of process `p`; `held` are the blocks of fragments. A word is the
set of its one bits. A process may die at any point (`Crash`), and a block that it has
claimed and not yet given to a fragment is then lost (`leaked`).

The word size (64 in the code) and the size of an `int` (32) are constants, because the
code mixes them. The runs use words of three bits and ints of two, two words and two
processes; one random word is tried before the sequential search (30 in the code).

## Geometry: cutting, copying, covering

`Fragmentation` is a write: `esdm_scheduler_enqueue_write()` gives each backend a slab of
the dataspace, in proportion to its throughput, and cuts the slab into fragments that the
backend accepts. `Init` chooses the dataspace with its memory layout, the throughputs and the
methods. `AssignToFastest` is the write of a single element, `AssignSlabs` starts the loop
over the backends (`AssignSlab`, `SkipBackend`), and `CutSlab` makes the fragments of one
backend with `BalancedDims` or `Contiguous`. The balanced method rounds a k-th root down,
computed in floating point; for k > 2 the root of a perfect power may come out one too small,
and `EdgeLengths` has both results. `qsort()` may order equal strides in any way
(`SortedDims`). When a slab is empty the code overwrites its array pointer (`SkipBackend`);
what follows from that (`AssignThroughNull`, `CutGarbage`) is undefined and ends in the
state `crashed`. `FragmentationAssumption` says what the code takes for granted: positive
throughputs, and fragments of at least one element.

`DataspaceCopy` is `esdm_dataspace_copy_data()`: `Fuse` and `EndFuse` are the rounds of the
loop that collects dimensions into a chunk, `Plan` orders the other dimensions and makes
strides relative, `CopyChunk` is one `memcpy()` with the advance of the pointers. The source
holds the number of each place, so `memory` tells which element went where. The reference is
the copy of each element of the overlap from its place in one buffer to its place in the
other.

`FragmentLayouts` follows the elements of a dataset from the memory of a writer through
fragments, packing, files and metadata into the memory of a reader, with a layout of its own
for each of them. A piece of memory is a set of places with values, and a value is the
coordinates of the element. `Write`, `Read`, `Commit`, `Close` and `Open` are the calls;
splitting is any split of the request, and the choice between direct I/O and copies is that
of the scheduler. It also has `actual_size`, the number of rows in an unlimited dimension.

`Hypercube` has the operators on ranges, hypercubes and dataspaces; `Elements` is the
reference they are held to. `HypercubeList` is the loop of `fragmentsCoverRegion()`, which
subtracts fragments from the list of uncovered cubes, followed by the random search for a
subset of the cubes without redundant ones (`CheckCube(i)` for any order of `i`).

`BoundList` is the abstract collection behind the neighbour manager. `BoundTree` (a B-tree
with parent pointers, whose nodes split upwards one call at a time) and `BoundArray`
(binary search) are its two implementations, `BoundLists` chooses one as the configuration
does, and `ImplementsBoundList` is the refinement for both. `NeighbourManager` is written on
top of `BoundList` and checked against the geometric definition of adjacency.

Bounds (`MCGeometry`): two backends and dataspaces of 1 to 4 by 1 or 3 elements, in C order,
Fortran order, reversed in one dimension and as part of a larger array, and some of three
dimensions; sizes that do and do not divide evenly, and throughputs that round to an empty
slab, are among them. Copies between spaces of two and three dimensions in four or five
layouts, overlapping in part, wholly or not at all, and from the stride-0 space that fills
use. All lists of up to three rectangles of a 3 x 2 grid. Nodes of two entries (20 in the
code), so that seven entries make three levels and equal bounds are spread over several
nodes. Datasets of 3 x 2 elements, or of two columns and no limit for the rows, three requests,
four layouts and up to two fragments.

Fairness (`Geometry!Fairness`): a copy, and a call of a bound list that has begun, go on, since
they are loops of one thread that never block. Nothing is assumed of the caller.

## Datasets: metadata and grids

`Containers` has the calls on containers and datasets with the files of the POSIX metadata
backend. `cont` and `dsets` are the `esdm_container_t` and its `esdm_dataset_t`s with status
and reference count, `cfile` and `dfile` the files; a file is absent, torn or complete. A call
that writes several files is a `job`: its first step is the call, and every file is then
opened (which truncates it) and written in steps of their own (`OpenEntry`, `WriteEntry`), so
that `Crash` happens in between, and opening may fail. Deleting is a job as well
(`DeleteNext`, `RemoveContainer`). Of a dataset's contents the model keeps an attribute, the
fill value, the names of dimensions and the shapes of fragments. Where an assertion of the
code ends the process, so does the model (`Aborts`). The history variables say which changes
the code does not mark as dirty (`unmarked`), which files could not be opened (`failed`) and
whether a commit was ever interrupted (`hurt`).

`Grids` has the grids of one dataset in the processes of an MPI program: `gs[p]` are the grids
and subgrids with their axes, cells and the count of empty cells, `list[p]` and `count[p]`
are `dset->grids` with the complete ones first, `table[p]` the fragments. Completion
(`esdmI_grid_registerCompletedCell()`), iterators and the search for the fragments of a region
are translated as operators; writing, reading, receiving (`GridBcast`) and merging
(`GridCommit`, `DatasetCommit`) are actions. An assertion that fails makes `alive` false.

Bounds (`MCDatasets`): two datasets in one container and one shape of fragments, with two
changes or failures, so that one dataset can be in any state while the other one is changed,
committed or closed. Grids of 2 x 2 elements with one level of subgrids, two of them in one
process, or one of them in two processes with one failing write (`Scenarios`).

## DataBackends: what storage keeps

`FileBackends` has the backends that keep a fragment in a file or an object of its own. `op[f]`
is the list of system calls that remain of the call for fragment `f`: each is a step, may fail
where the code looks at its result, and interleaves with the calls for other fragments. The
backends differ in these lists (`PosixUpdate`, `ImeUpdate`, `PmemUpdate`, `S3Update`). Ids are
claimed with `O_EXCL`, where one that is taken is drawn again (`NewFile`, `NewStream`), and two
ids share a directory, which a delete tries to remove.

`MotrObjects` has two persistent indices, objects in blocks, and sessions that cache the tail
of an object and save it when they end. `WosObjects` has the lists of ids and sizes that all
threads share. In both, concurrent use can lose data; the history variables `tainted` and
`disturbed` say when that may have happened, and the properties are about all other fragments.
The libraries of IME, PMEM, S3, Motr and WOS are external, and do what their callers rely on.

Bounds (`MCDataBackends`): two fragments of different sizes in one dataset, two ids, objects
and processes (which are symmetric), two versions of the data. Two of each are enough for
every pair of actors to meet; there are no interactions of three in the code.

## Services: collectives, streams, start and end, formatting

`Collectives` lets all processes run the same program, chosen as they go. The results of
calls (`results`), the memory of a process (`mem`) and the messages (`down`, `up`) are the
state. MPI is external: messages between two processes keep their order, and the root of a
broadcast does not wait. An operation of the metadata backend may fail. A message taken by a
call it was not sent for is a `mismatch`.

`Streams` has `esdm_wstream_t` from start to commit. A value is the element it is meant for.
`Startup` has the configurations as records of their tags, the checks that accept or refuse
them, and what is allocated (`heap`) and freed, with jobs in thread pools while the library is
finalised. `Format` is `esdm_mkfs()`, one system call a step, which may fail or be the last
one; afterwards the storage may be used (`Use`) and formatted again.

Bounds (`MCServices`): two processes, programs of up to 8 calls that repeat few of them
(`Programs`) and one failure: enough to create, fill, close, open and fill a dataset again.
Regions of up to three dimensions, two element sizes and all fragment sizes from 1 to 13 bytes,
with chunks of 3. Six good configurations with backends of all kinds and 22 bad ones, one for
each check; two configurations in a run, two jobs. Three targets of all kinds, two runs of
`mkfs`.

## What the runs show

Passing runs:

* `request_status`: the counter is exact, no worker uses a finalised status, no wakeup and
  no error is lost, and every request returns.
* `scheduler`: without failures the data path implements the write-once store; reads are
  correct in every order of loads and copies; borrowed buffers are given back.
* `scheduler_failing`: with failing loads and commits, cached data still equals stored
  data, reads stay in their region and stored data never changes.
* `kdsa_blocks`: no block is handed out twice, used blocks are marked, marked blocks are
  used or lost in a crash, claims stay within the volume.
* `geometry`: the fragments of a write are a partition of its dataspace (until the array is
  lost), fit the backends, and are contiguous where the method promises it; a copy copies
  exactly the overlap, each element once, and ends; remaining cubes are the set difference,
  and selected subsets cover what all cubes covered with none to spare; tree and array are
  plain collections, the tree stays balanced, and all calls return; neighbour lists are
  exact; elements are read in their places whatever the layouts; the actual size is exact.
* `datasets`: what is marked as saved is saved (apart from the changes that the code does not
  mark, and files that it could not open); a fragment that was written is not forgotten;
  references to datasets stay good, in memory and on disk. A grid counts as complete exactly
  when all cells have data; a region is served by the fragments that overlap with it;
  iterators return every cell once; copies of a grid agree; no assertion fails.
* `data_backends`: what was stored stays stored and is read back, and no file is left behind;
  Motr's indices agree, whatever crashes.
* `services`: collective calls return the same result everywhere, and nobody waits for a
  message that is not sent; the values of streams end up in their elements; nothing is used
  after it was freed, and little is left when the library ends; formatting leaves what was
  asked for, and the files of others alone.

Deadlock is checked in `request_status`, `scheduler`, `scheduler_failing` and `kdsa_blocks`. In
the others a behaviour may end: calls return, programs come to their end, and bounds run out.

Runs that show where the code differs from what its comments and documents say
(`findings` in `PROJECT.json` quotes both sides):

* `retry_write`: repeating a write that failed returns success with nothing stored.
* `kdsa_delete`: the mask of `fragment_delete()` is truncated to an `int`, so deleting
  block 31 of a word frees the upper half of that word.
* `empty_slab`: a backend that is much slower than another gets an empty slab, and its
  hypercube is neither made nor set to `NULL`.
* `collectives_commit`: `esdm_mpi_dataset_commit()` succeeds everywhere, and the fragments of
  other processes are not in the metadata when the root's dataset is not dirty.

Other disagreements are part of the models and have no run of their own. They are why some
properties have an exception.

Data path and layouts:

* After a failed direct read the fragment keeps a pointer into the caller's buffer
  (`esdm-scheduler.c:366`), so `NoStaleBuffer` is only checked without failing loads.
* Writing a hypercube again returns success and keeps the old data
  (`esdm-datatypes.c:1170`), although the README of the repository says that fragments can
  be modified; hence the abstract store is write-once.
* Reading a grid cell with holes stores the fill values as data (`esdm-grid.c:415`), which
  the scheduler's own write-back refuses to do; `ImplementsStore` is checked without
  `read_grid`.
* Copying between dataspaces without an overlap uses uninitialised instructions
  (`esdm-scheduler.c:221`, against the comment at line 172); this is the state `undefined`
  of `DataspaceCopy`.
* Direct I/O into a layout with negative strides fails an assertion (`esdm-scheduler.c:390`);
  `DirectFromStart` in `FragmentLayouts` states it and is in no run.
* The result of making a fragment contiguous is ignored (`estream.c:102`, `150`).

Metadata and grids:

* The status `PERSISTENT` is documented as "on-disk data is equal to data in memory"
  (`esdm-datatypes-internal.h:29`). It is set before the file is written
  (`esdm-datatypes.c:1098`), and the fill value, deleted attributes and `change_name()` do not
  take it back (`esdm-datatypes.c:1259`, `esdm.c:212`). `PersistentMeansEqual` in
  `Containers` states the comment and is in no run; `CleanMeansSaved` has these exceptions.
* A commit writes the container before its datasets, so that a crash leaves references to
  datasets without metadata (`esdm-datatypes.c:265`).
* A grid received with a subgrid whose cells are empty counts as complete too early
  (`esdm-grid.c:793`, against `include/esdm-grid.h:247`: "All the returned grids will contain
  data for their entire domain"). `OnlyCompletedGrids` in `Grids` states this and is in no run;
  `partial` is the exception.
* A cell whose write failed stays filled, and serialising it fails an assertion.

Backends:

* `mkfs()` of the KDSA backend marks the last word of the map as used when the block count
  is a multiple of the word size (`esdm-kdsa.c:246`); the run `kdsa_blocks` has a last word
  that is partly used.
* A KDSA process whose copy of the map is stale, and whose estimate stays above the
  threshold, keeps failing although there are free blocks (`esdm-kdsa.c:361`); no liveness
  of allocation is claimed.
* Motr saves tails only at the end of a session (`client.c:818`), so that a crash, or a second
  session on the same dataset, makes fragments overlap; a lookup that fails is taken for an
  object that is missing (`1079`); a fragment that is written again goes to position 0
  (`1019`). These taint a dataset.
* Threads of the WOS backend use each other's lists (`wos.c:281`, `302`, `461`), and a fragment
  that is written again appends its id behind the one that is read (`780`).

Services:

* The root of the MPI interface returns without a broadcast when it has no configuration
  (`esdm-mpi.c:45`), and reports success when it cannot load a dataset (`260`): `Unreported`.
  A dataset that is opened again while its container stays open is taken from memory by some
  processes only (`236`): `Conforming`.
* `initCounts()` multiplies by the size of the next dimension (`esdm-stream.c:39`): fragments
  can exceed their maximal size, and the number of slices can be 0, which is then a divisor.
  Streaming into a fragment that exists fails an assertion, although the comment at line 184
  speaks of it.
* The documented backend type `MOTR` (`README.md:850` of the repository) never starts.
  Numbers of threads are rounded up, against the comment at `esdm-scheduler.c:56`.
  Without backends a write dies. KDSA, PMEM, WOS leave memory behind (`NothingLeft`).
* An interrupted removal may have removed ESDM's mark first, so that the directory can then
  be neither removed nor created; `CREATE` with `IGNORE` marks the directory of somebody else.

Definitions introduced by a comment that starts with *Mutant* are altered forms of the
definition that follows them, each with a plausible mistake. `PROJECT.json` says which
property each of them violates; no specification uses them.

## What is proved

Everything here holds for every value of the constants that satisfies the named assumptions.

`RequestStatus_proofs`, for every finite set of tasks, every set of backends and every
number of threads: the safety invariants of the run, and that pools keep their size
(`ThreadBound`). They follow from the inductive invariant `IndInv`. The stated properties
are not inductive: that the status outlives the workers needs to know that a worker between
its decrement and its unlock owns the mutex, that the caller owns it when it looks at the
counter, and that the counter is the number of tasks that have not reported; so a caller that
sees zero sees all tasks behind their unlock. That the counter is exact needs the finiteness
of the set of tasks.

`KdsaBlocks_proofs`, for every number of processes, every block count, every word size and
every int size: no double allocation, used blocks are marked, claims stay within the
volume, under the assumption that deleted blocks are at bits below the sign bit of an int
(`Deletable \subseteq 0 .. IntBits - 2`; the run `kdsa_delete` shows that it is needed).
The inductive invariant adds that the blocks processes work on are different, that a block
being deleted still belongs to a fragment, and that the padding of the last word stays
marked. The lemmas `ClaimMarks` and `ReleaseClears` say that a successful compare-and-swap
changes one bit; `PaddingMarked` is the arithmetic of `mkfs()`. The converse, that a marked
block is used, being worked on or lost in a crash (`MarkedIsUsed`), also assumes that the block
count is not a multiple of the word size: where it is, `mkfs()` marks a whole word too many.

`Scheduler_proofs`, for every dataset, every set of hypercubes and every write-back ratio.
Whatever operations fail (`MayFail` is arbitrary): `CacheCoherent`, `ReadStaysInRegion` and
`WriteOnce`, from `AnyInv`. It adds that a fragment about to be committed was never stored
and has the caller's buffer (`CommitInv`), that only fragments within the region borrow this
buffer, for the time of the call (`BorrowInv`), and that tasks belong to the request that is
under way (`TaskInv`). If nothing fails (`MayFail = {}`): `NoStaleBuffer` and `ReadCorrect`,
from `GoodInv`. It adds where the data of a fragment is at every stage of its task
(`StateInv`), what the fragments of the request are (`RequestInv`), and that every element of
the region is filled already or has a fragment still to be enqueued, loaded or copied
(`ProgressInv`).

The same module proves `Spec => ImplementsStore`, the refinement of `WriteOnceStore`, if
nothing fails and grids are not read (`MayFail = {}`, `ReadCalls \subseteq {"read"}`). The
invariant `StoreInv` adds what the buffers hold (`DataInv`): stored fragments and a writer's
buffer have values, and elements without a fragment are those nobody has written. Then each
kind of step is shown to be a step of the store or to change nothing in it: enqueuing a
fragment puts it, the end of a read answers it, and everything else is a stutter.

`Services_proofs`, for every number of targets that differ (`DistinctTargets`), every flag,
failure and interruption: `FormatSafe`. `FormatInv` says what the directory holds at each call
(`CallInv`), that a directory is only emptied after its mark was found (`StepInv`), and that
the targets before the current one are done unless an error is recorded (`ProgressInv`).
The same module proves `LifetimesKept` for any set of configurations, any number of processes,
configurations and jobs, and every interleaving of requests, threads and `esdm_finalize()`
(`StartupAssumption` types the constants). `LibraryInv` says what exists at each step of the
caller, and that there are jobs only while there are pools (`PhaseInv`), and bounds the heap from
both sides: what the running library, the threads and the configuration use is allocated
(`HasAll`), and whatever is allocated belongs to the current configuration or is something the
backends never free (`HasOnly`). The first bound is what no thread may find missing, the second
what is left at the end.

`MotrObjects_proofs`, for any number of processes, datasets, fragments, objects and blocks, through
crashes and formatting (`MotrAssumption` types the constants). `NameHasTail`: the invariant
adds the order it rests on (`OrderInv`): the tail of a new object is stored before its name, and
names are deleted before tails; and that a tool which formats runs alone (`SessionInv`).
`MotrDataKept`: `DataInv` adds who may own an object (`PlaceInv`, `OwnersInv`: an object belongs
to one dataset, and is only reached through its name), and, for a dataset that is not tainted
(`Clean`), that one session at most uses it, that the extents of its fragments are apart, and
that all of them end below the tail that this session or the index has. A write then starts
behind everything that was stored; what the code does to make two sessions meet, or to lose a
tail, is what taints a dataset.

`WosObjects_proofs`, for any number of fragments and objects, and whatever calls fail:
`WosDataKept`. `WosInv` says that an id known anywhere was given out by WOS (`KnownGiven`), that
the lists, which are shared, are used by one thread at a time or their users are disturbed
(`UsersDisturbed`), that an undisturbed update writes the object that it reserved
(`WritesOwn`), that nothing counts as kept during an update (`NotKeptYet`), and that nobody else
can get at what an undisturbed update stored (`StoredAlone`).

`FileBackends_proofs`, for any number of fragments, ids and directories: `FilesKept` and
`RetrieveCorrect`, for POSIX, IME, PMEM and S3, with the system calls of all fragments
interleaved and a crash between any two of them. What remains of a call is put into phases
(`NoId`, `NoFile`, `OpenFile`, ...), and one lemma per system call says from which phase to
which it goes. The invariant `FileInv` is about ids that are drawn twice: of the fragments with
the same id, those that have not passed `open()` with `O_EXCL` have stored nothing
(`IdInv`), and once one has passed it there is a file, which stops the others (`SameIdInv`); so
a file is only truncated, written or unlinked by the fragment it belongs to. `DiskInv` says that
a file is in a directory that exists and, as long as the process lives, that its fragment knows
it; `DataInv` says what the file of a stored fragment holds, whether it was torn or not.
`OthersKept` shows once, for every step, that it keeps what is known of the other fragments.
`S3Inv` is the same for objects, whose ids are never drawn twice. `FileAssumption` says that
markers for "no id" and "no file" are neither ids nor contents.

`Containers_proofs`, for any names, ids and shapes of fragments, any number of references and
changes, and every interruption: `CleanMeansSaved`, `WrittenKept` and `ReferencesValid`, from
`ContainersInv`. No two datasets have the same id (`IdsDiffer`); the rest of a call writes what
is in memory (`JobInv`); what is clean and not about to be written is saved (`SavedInv`); a
written fragment is in memory as long as the dataset is loaded, and on disk unless the dataset is
dirty or about to be written (`KeptInv`); and unless something went wrong, each reference on disk
leads to a file that is there, or that the rest of the call will write (`ResolveInv`).

TLC evaluates the named assumptions about constants in the runs, whose modules extend the ones
that make them.

Only model-checked: liveness (`RequestReturns`, `CallsReturn`), for which the prover has no
rules; the algorithms on hypercubes, dataspaces, bound lists, grids and streams, which are
recursive or loops over data, so that what they compute needs an induction over data, which is
out of the prover's reach (`CoveringExact`, `FragmentsExact`, `CopyExact`, `BoundsBalanced`,
`ImplementsBoundList`, `NeighboursExact`, `ReadsInPlace`, `ActualSizeExact`, `GridsExact`,
`CopiesAgree`, `NoAbort`, `StreamExact`); and, so far, collectives (`CollectivesAgree`, `NoHang`).

## What is not modelled

* The MongoDB metadata backend: not part of the default build, and behind the current
  interface of backends.
* The interfaces of other libraries (HDF5, NetCDF) and the directory of prototypes, which
  translate calls of another library, and make up a large share of the lines without a model.
* The dynamic performance model (floating point statistics). Of the generic one, the checks of
  its parameters and the throughput are in `Startup`.
* Conversion between element types, compression, statistics and timers.
* KDSA: the layout of the volume and the transfer of data. Motr: the waiting for operations
  of its client and its resource file. WOS: the parsing of its configuration string.
* `fsck`, which the backends do not implement; tools, tests, benchmarks, logging and printing.
* Queries that change nothing.
* A collision of random ids (`md-posix.c:316`): the models draw an id that is not in use.
