------------------------------ MODULE Services ------------------------------
(***************************************************************************)
(* Four parts of the library that hold state of their own: starting and    *)
(* finalising it (Startup), the collective calls of the MPI interface      *)
(* (Collectives), streams (Streams) and the formatting of backends by      *)
(* mkfs.esdm (Format).  They do not use each other while they run, so a    *)
(* behaviour is one of one part; the others rest in an initial state.      *)
(***************************************************************************)
EXTENDS Format, Startup

CONSTANTS Procs, Sizes, MaxCalls, MaxFaults, IntWidth,                   \* Collectives
          Regions, ElementSizes, FragmentSizes, ChunkSize, MaxStreams    \* Streams

VARIABLES part,
          script, results, pc, given, mem, down, up, pending, cfile, dfile, written, faults, over,
          stream, stored, streams, lost

collectiveVars ==
  <<script, results, pc, given, mem, down, up, pending, cfile, dfile, written, faults, over>>
streamVars == <<stream, stored, streams, lost>>
serviceVars == <<part, collectiveVars, streamVars, startupVars, fvars>>

Mpi == INSTANCE Collectives
Stream == INSTANCE Streams

ASSUME TargetsAssumption == DistinctTargets

ServicesInit ==
  /\ part \in {"mpi", "streams", "library", "mkfs"}
  /\ Mpi!Init /\ Stream!Init
  /\ StartupInit /\ (part # "library" => file = None)
  /\ IF part = "mkfs" THEN Init
     ELSE /\ kind = <<>> /\ dir = <<>> /\ flags = {} /\ target = 1 /\ step = "idle"
          /\ failed = FALSE /\ seen = {} /\ runs = 0

MpiStep == part = "mpi" /\ Mpi!Next /\ UNCHANGED <<part, streamVars, startupVars, fvars>>
StreamStep ==
  part = "streams" /\ Stream!Next /\ UNCHANGED <<part, collectiveVars, startupVars, fvars>>
LibraryStep ==
  part = "library" /\ StartupNext /\ UNCHANGED <<part, collectiveVars, streamVars, fvars>>
MkfsStep ==
  part = "mkfs" /\ Next /\ UNCHANGED <<part, collectiveVars, streamVars, startupVars>>

ServicesNext == MpiStep \/ StreamStep \/ LibraryStep \/ MkfsStep

ServicesSpec == ServicesInit /\ [][ServicesNext]_serviceVars

-----------------------------------------------------------------------------
(* A collective call returns the same result in every process, and only    *)
(* when all of them passed the same arguments, see Collectives.            *)
CollectivesAgree == Mpi!ReturnsAgree /\ Mpi!ArgumentsAgree

(* No process waits for a message that nobody will send, see Collectives.  *)
NoHang == Mpi!NoHang

(* The values of a stream end up in the elements they are meant for, and   *)
(* the stream ends when it has got them all, see Streams.                  *)
StreamExact == Stream!ValuesInPlace /\ Stream!StreamEnds

(* esdm_mpi_dataset_commit() "retrieve[s] for all fragments the metadata   *)
(* and attach[es] it to the metadata" (esdm-mpi.c:305), see Collectives.   *)
CommitStoresFragments == part = "mpi" => Mpi!CommitStoresFragments
=============================================================================
