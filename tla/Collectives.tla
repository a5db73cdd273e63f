----------------------------- MODULE Collectives ------------------------------
(* The collective calls of interfaces/mpi/esdm-mpi.c on one container and one *)
(* dataset.  All processes run the same program, a sequence of calls that is  *)
(* chosen as they go; a process that gets an error ends.  MPI (external): a   *)
(* broadcast is a message in the queue of every other process, which the root *)
(* does not wait for; a reduction and a send to the root are messages in the  *)
(* queue of the sender.                                                       *)
EXTENDS Integers, Sequences, FiniteSets, SequencesExt

CONSTANTS Procs,        \* ranks, 0 is the root
          Sizes,        \* [dimension -> size] that dataset_create may be given
          MaxCalls,     \* length of the program
          MaxFaults,    \* operations of the metadata backend that fail
          IntWidth,     \* bits of an int
          None

VARIABLES
  script,    \* the calls of the program
  results,   \* [Procs -> sequence of the results of the calls that returned]
  pc,        \* [Procs -> "ready" or where in a call it waits]
  given,     \* [Procs -> size passed to dataset_create, or None]
  mem,       \* [Procs -> [cont, dset]]: the objects of a process
  down,      \* [Procs -> messages of the root]
  up,        \* [Procs -> messages to the root]
  pending,   \* processes whose fragments the root waits for
  cfile,     \* container in the metadata backend: None, or if it lists the dataset
  dfile,     \* dataset in the metadata backend: None, or its fragments
  written,   \* fragments that were written, a fragment is its writer
  faults,    \* operations that failed
  over       \* "no", or "abort", or "mismatch": a message of another call

vars == <<script, results, pc, given, mem, down, up, pending, cfile, dfile, written, faults, over>>
channels == <<down, up, pending>>
files == <<cfile, dfile>>

Others == Procs \ {0}
Outcomes == {"SUCCESS", "ERROR"}

-----------------------------------------------------------------------------
(* The program                                                              *)

Here(p) == Len(results[p]) + 1
Stopped(p) == "ERROR" \in Range(results[p])

(* What a program that keeps its handles may call next in a state of memory *)
Sensible(m) ==
  (IF script = <<>> THEN {"init"} ELSE {})
  \cup (IF m.cont = None THEN {"container_create", "container_open"} ELSE {"container_commit", "dataset_open"})
  \cup (IF m.cont # None /\ (m.dset = None \/ m.dset.refcount = 0) THEN {"container_close"} ELSE {})
  \cup (IF m.cont # None /\ m.dset = None THEN {"dataset_create"} ELSE {})
  \cup (IF m.dset # None /\ m.dset.refcount > 0
        THEN {"write", "dataset_commit", "dataset_close"} ELSE {})

(* Process p begins a call: the next of the script, or a new one.           *)
Calls(p, call) ==
  /\ over = "no" /\ pc[p] = "ready" /\ ~Stopped(p)
  /\ IF Here(p) <= Len(script) THEN script[Here(p)] = call /\ UNCHANGED script
     ELSE /\ Len(script) < MaxCalls
          /\ call \in Sensible(mem[p])
          /\ script' = Append(script, call)

Return(p, result) ==
  /\ given' = [given EXCEPT ![p] = None]
  /\ results' = [results EXCEPT ![p] = Append(@, result)]
  /\ pc' = [pc EXCEPT ![p] = "ready"]

Wait(p, where) == pc' = [pc EXCEPT ![p] = where] /\ UNCHANGED <<results, given>>
WaitWith(p, where, size) ==
  /\ pc' = [pc EXCEPT ![p] = where] /\ given' = [given EXCEPT ![p] = size]
  /\ UNCHANGED results

Ok(result) == result = "SUCCESS"
(* An operation of the metadata backend                                     *)
MayFail(result) ==
  /\ ~Ok(result) => faults < MaxFaults
  /\ faults' = IF Ok(result) THEN faults ELSE faults + 1

Bcast(ms) == down' = [q \in Procs |-> IF q = 0 THEN <<>> ELSE down[q] \o ms]

(* Process q receives ms at where, or finds the message of another call.    *)
Receives(q, where, ms) == pc[q] = where /\ IsPrefix(ms, down[q]) /\ over = "no"
Taken(q, n) == down' = [down EXCEPT ![q] = SubSeq(@, n + 1, Len(@))]

NewDataset(size) == [size |-> size, status |-> "DIRTY", refcount |-> 1, frags |-> {}]
Unloaded == [size |-> None, status |-> "NOT_LOADED", refcount |-> 0, frags |-> {}]
(* esdm_dataset_open_md_parse() and the new reference                       *)
Opened(d, content) ==
  [d EXCEPT !.status = "PERSISTENT", !.refcount = @ + 1, !.frags = content]
(* esdm_container_open_md_parse()                                           *)
OpenedContainer(lists) == [cont |-> "PERSISTENT", dset |-> IF lists THEN Unloaded ELSE None]

Init ==
  /\ script = <<>> /\ results = [p \in Procs |-> <<>>] /\ pc = [p \in Procs |-> "ready"]
  /\ given = [p \in Procs |-> None]
  /\ mem = [p \in Procs |-> [cont |-> None, dset |-> None]]
  /\ down = [p \in Procs |-> <<>>] /\ up = [p \in Procs |-> <<>>] /\ pending = {}
  /\ cfile = None /\ dfile = None /\ written = {} /\ faults = 0 /\ over = "no"

-----------------------------------------------------------------------------
(* esdm_mpi_init(): the root reads and sends the configuration.  If it      *)
(* cannot, it returns without a broadcast.                                  *)
RootInit ==
  /\ Calls(0, "init")
  /\ \E r \in Outcomes :
       /\ MayFail(r) /\ Return(0, r)
       /\ IF Ok(r) THEN Bcast(<<"config">>) ELSE UNCHANGED down
  /\ UNCHANGED <<mem, up, pending, files, written, over>>

(* Mutant: the root returns without a broadcast if it fails.                *)
RootContainerCreateSilent ==
  /\ Calls(0, "container_create")
  /\ \E r \in Outcomes :
       /\ MayFail(r) /\ Return(0, r)
       /\ IF Ok(r) THEN /\ cfile' = FALSE /\ mem' = [mem EXCEPT ![0].cont = "DIRTY"]
                        /\ Bcast(<<"created", r>>)
                   ELSE UNCHANGED <<cfile, mem, down>>
  /\ UNCHANGED <<up, pending, dfile, written, over>>

(* esdm_mpi_container_create(), which replaces the file of a container      *)
RootContainerCreate ==
  /\ Calls(0, "container_create")
  /\ \E r \in Outcomes :
       /\ MayFail(r) /\ Return(0, r) /\ Bcast(<<"created", r>>)
       /\ IF Ok(r) THEN cfile' = FALSE /\ mem' = [mem EXCEPT ![0].cont = "DIRTY"]
                   ELSE UNCHANGED <<cfile, mem>>
  /\ UNCHANGED <<up, pending, dfile, written, over>>

(* esdm_mpi_container_open()                                                *)
RootContainerOpen ==
  /\ Calls(0, "container_open")
  /\ \E r \in Outcomes :
       /\ IF cfile = None THEN ~Ok(r) /\ UNCHANGED faults ELSE MayFail(r)
       /\ Return(0, r)
       /\ IF Ok(r) THEN Bcast(<<"container", "metadata", cfile>>) /\ mem' = [mem EXCEPT ![0] = OpenedContainer(cfile)]
                   ELSE Bcast(<<"container", "none">>) /\ UNCHANGED mem
  /\ UNCHANGED <<up, pending, files, written, over>>

(* esdm_dataset_commit() at the root: does nothing unless it is dirty       *)
CommittedDataset(r) ==
  /\ mem' = [mem EXCEPT ![0].dset.status = "PERSISTENT"]
  /\ dfile' = IF mem[0].dset.status = "DIRTY" /\ Ok(r) THEN mem'[0].dset.frags ELSE dfile

(* esdm_mpi_container_commit(): the root commits the container and then its *)
(* datasets, whose result is ignored.                                       *)
RootContainerCommit ==
  LET d == mem[0].dset IN
  /\ Calls(0, "container_commit")
  /\ IF mem[0].cont # "DIRTY"
     THEN Return(0, "SUCCESS") /\ Bcast(<<"committed", "SUCCESS">>) /\ UNCHANGED <<mem, files, faults>>
     ELSE \E r \in Outcomes :
            /\ MayFail(r) /\ Return(0, r) /\ Bcast(<<"committed", r>>)
            /\ cfile' = IF Ok(r) THEN d # None ELSE cfile
            /\ IF d # None /\ d.status = "DIRTY"
               THEN /\ mem' = [mem EXCEPT ![0].cont = "PERSISTENT", ![0].dset.status = "PERSISTENT"]
                    /\ dfile' \in {d.frags} \cup (IF faults' < MaxFaults THEN {dfile} ELSE {})
               ELSE mem' = [mem EXCEPT ![0].cont = "PERSISTENT"] /\ UNCHANGED dfile
  /\ UNCHANGED <<up, pending, written, over>>

-----------------------------------------------------------------------------
(* esdm_mpi_dataset_create(): check_hash_abort() reduces a hash of the      *)
(* arguments to the root.                                                   *)

(* Dimension 1 is the last to be added.                                *)
Hash(size) ==
  LET hash[d \in 1..Len(size) + 1] ==
        IF d > Len(size) THEN Len(size) ELSE (2 * hash[d + 1] + size[d]) % 2^IntWidth
  IN hash[1]

RootDatasetCreate(size) ==
  /\ Calls(0, "dataset_create") /\ WaitWith(0, "reduce", size)
  /\ UNCHANGED <<mem, channels, files, written, faults, over>>

(* Mutant: only the least hash is compared.                                 *)
HashesAgreeMin(hash) == \A q \in Others : Head(up[q])[2] >= hash
HashesAgree(hash) == \A q \in Others : Head(up[q])[2] = hash

(* The root has all hashes and creates the dataset, or aborts.              *)
RootReduced ==
  /\ over = "no" /\ pc[0] = "reduce"
  /\ \A q \in Others : up[q] # <<>> /\ Head(up[q])[1] = "hash"
  /\ up' = [q \in Procs |-> IF q = 0 THEN <<>> ELSE Tail(up[q])]
  /\ IF ~HashesAgree(Hash(given[0]))
     THEN over' = "abort" /\ UNCHANGED <<results, pc, given, mem, down, faults>>
     ELSE \E r \in Outcomes :
            /\ MayFail(r) /\ Return(0, r) /\ UNCHANGED over
            /\ Bcast(<<"id", r>>)
            /\ mem' = IF Ok(r) THEN [mem EXCEPT ![0] = [cont |-> "DIRTY", dset |-> NewDataset(given[0])]]
                               ELSE mem
  /\ UNCHANGED <<script, pending, files, written>>

DatasetCreate(q, size) ==
  /\ Calls(q, "dataset_create") /\ WaitWith(q, "id", size)
  /\ up' = [up EXCEPT ![q] = Append(@, <<"hash", Hash(size)>>)]
  /\ UNCHANGED <<mem, down, pending, files, written, faults, over>>

(* Mutant: an empty id is taken for the id of a dataset.                    *)
GetIdAlways(q) ==
  /\ over = "no" /\ pc[q] = "id"
  /\ Len(down[q]) > 1 /\ Head(down[q]) = "id"
  /\ Return(q, "SUCCESS")
  /\ mem' = [mem EXCEPT ![q].dset = NewDataset(given[q])]
  /\ Taken(q, 2)
  /\ UNCHANGED <<script, up, pending, files, written, faults, over>>

(* The id of the dataset, which is empty if the root failed                 *)
GetId(q) ==
  /\ over = "no" /\ pc[q] = "id"
  /\ Len(down[q]) > 1 /\ Head(down[q]) = "id"
  /\ Return(q, down[q][2])
  /\ mem' = IF Ok(down[q][2]) THEN [mem EXCEPT ![q].dset = NewDataset(given[q])] ELSE mem
  /\ Taken(q, 2)
  /\ UNCHANGED <<script, up, pending, files, written, faults, over>>

-----------------------------------------------------------------------------
(* esdm_mpi_dataset_open() and esdm_mpi_dataset_ref()                       *)

(* A dataset that is loaded is opened without communication.                *)
DatasetReference(p) ==
  /\ Calls(p, "dataset_open") /\ mem[p].dset # None
  /\ mem[p].dset.status # "NOT_LOADED"
  /\ mem' = [mem EXCEPT ![p].dset.refcount = @ + 1]
  /\ Return(p, "SUCCESS")
  /\ UNCHANGED <<channels, files, written, faults, over>>

(* The container has no such dataset.                                       *)
DatasetMissing(p) ==
  /\ Calls(p, "dataset_open") /\ mem[p].dset = None
  /\ Return(p, "ERROR")
  /\ UNCHANGED <<mem, channels, files, written, faults, over>>

(* When the root cannot load the metadata it returns the result of its last *)
(* broadcast, which is a success.                                           *)
RootDatasetOpen ==
  /\ Calls(0, "dataset_open") /\ mem[0].dset # None
  /\ mem[0].dset.status = "NOT_LOADED"
  /\ Return(0, "SUCCESS")
  /\ \E r \in Outcomes :
       /\ IF dfile = None THEN ~Ok(r) /\ UNCHANGED faults ELSE MayFail(r)
       /\ IF Ok(r)
          THEN Bcast(<<"dataset", "metadata", dfile>>) /\ mem' = [mem EXCEPT ![0].dset = Opened(@, dfile)]
          ELSE Bcast(<<"dataset", "none">>) /\ UNCHANGED mem
  /\ UNCHANGED <<up, pending, files, written, over>>

-----------------------------------------------------------------------------
(* esdm_mpi_dataset_commit()                                                *)

RootDatasetCommit ==
  /\ Calls(0, "dataset_commit") /\ Wait(0, "fragments") /\ pending' = Others
  /\ UNCHANGED <<mem, down, up, files, written, faults, over>>

(* The fragments of one process, in any order; they do not make the dataset *)
(* dirty.                                                                   *)
RootRecv(q) ==
  /\ over = "no" /\ pc[0] = "fragments" /\ q \in pending
  /\ up[q] # <<>> /\ Head(up[q])[1] = "fragments"
  /\ mem' = [mem EXCEPT ![0].dset.frags = @ \cup Head(up[q])[2]]
  /\ up' = [up EXCEPT ![q] = Tail(@)] /\ pending' = pending \ {q}
  /\ UNCHANGED <<script, results, pc, given, down, files, written, faults, over>>

RootCommitted ==
  /\ over = "no" /\ pc[0] = "fragments" /\ pending = {}
  /\ \E r \in Outcomes :
       /\ IF mem[0].dset.status = "DIRTY" THEN MayFail(r) ELSE Ok(r) /\ UNCHANGED faults
       /\ CommittedDataset(r) /\ Return(0, r) /\ Bcast(<<"stored", r>>)
  /\ UNCHANGED <<script, up, pending, cfile, written, over>>

DatasetCommit(q) ==
  /\ Calls(q, "dataset_commit") /\ Wait(q, "stored")
  /\ up' = [up EXCEPT ![q] = Append(@, <<"fragments", mem[q].dset.frags>>)]
  /\ UNCHANGED <<mem, down, pending, files, written, faults, over>>

-----------------------------------------------------------------------------
(* The other processes                                                      *)

Awaited == [init |-> "config", container_create |-> "created", container_open |-> "container",
            container_commit |-> "committed", dataset_open |-> "dataset"]

(* A call that begins with a broadcast                                      *)
Enter(q) ==
  /\ \E call \in DOMAIN Awaited :
       /\ Calls(q, call) /\ Wait(q, Awaited[call])
       /\ call = "dataset_open" => mem[q].dset # None /\ mem[q].dset.status = "NOT_LOADED"
  /\ UNCHANGED <<mem, channels, files, written, faults, over>>

GetConfig(q) ==
  /\ Receives(q, "config", <<"config">>) /\ Taken(q, 1) /\ Return(q, "SUCCESS")
  /\ UNCHANGED <<script, mem, up, pending, files, written, faults, over>>

GetCreated(q) ==
  /\ Receives(q, "created", <<"created">>) /\ Taken(q, 2) /\ Return(q, down[q][2])
  /\ mem' = IF Ok(down[q][2]) THEN [mem EXCEPT ![q].cont = "DIRTY"] ELSE mem
  /\ UNCHANGED <<script, up, pending, files, written, faults, over>>

(* The size is 0 if the root has no metadata.                               *)
GetNone(q) ==
  /\ \E what \in {"container", "dataset"} : Receives(q, what, <<what, "none">>)
  /\ Taken(q, 2) /\ Return(q, "ERROR")
  /\ UNCHANGED <<script, mem, up, pending, files, written, faults, over>>

GetContainer(q) ==
  /\ Receives(q, "container", <<"container", "metadata">>) /\ Taken(q, 3) /\ Return(q, "SUCCESS")
  /\ mem' = [mem EXCEPT ![q] = OpenedContainer(down[q][3])]
  /\ UNCHANGED <<script, up, pending, files, written, faults, over>>

GetDataset(q) ==
  /\ Receives(q, "dataset", <<"dataset", "metadata">>) /\ Taken(q, 3) /\ Return(q, "SUCCESS")
  /\ mem' = [mem EXCEPT ![q].dset = Opened(@, down[q][3])]
  /\ UNCHANGED <<script, up, pending, files, written, faults, over>>

(* The status is set before the result is known.                            *)
GetCommitted(q) ==
  /\ Receives(q, "committed", <<"committed">>) /\ Taken(q, 2) /\ Return(q, down[q][2])
  /\ mem' = [mem EXCEPT ![q].cont = "PERSISTENT"]
  /\ UNCHANGED <<script, up, pending, files, written, faults, over>>

(* The dataset stays dirty.                                                 *)
GetStored(q) ==
  /\ Receives(q, "stored", <<"stored">>) /\ Taken(q, 2) /\ Return(q, down[q][2])
  /\ UNCHANGED <<script, mem, up, pending, files, written, faults, over>>

(* A broadcast meets one of another call, or the root waits for a message   *)
(* and gets one of another call: what happens is undefined.                 *)
Mismatch ==
  /\ over = "no"
  /\ \E q \in Others :
       \/ /\ down[q] # <<>> /\ pc[q] # "ready"
          /\ Head(down[q]) # pc[q]
       \/ /\ up[q] # <<>> /\ pc[0] # "ready"
          /\ Head(up[q])[1] # IF pc[0] = "reduce" THEN "hash" ELSE "fragments"
  /\ over' = "mismatch"
  /\ UNCHANGED <<script, results, pc, given, mem, channels, files, written, faults>>

-----------------------------------------------------------------------------
(* Calls without communication                                              *)

(* esdm_write(), in the processes that have data                            *)
Write(p, some) ==
  /\ Calls(p, "write") /\ Return(p, "SUCCESS")
  /\ IF some THEN /\ mem' = [mem EXCEPT ![p].cont = "DIRTY", ![p].dset.status = "DIRTY",
                                        ![p].dset.frags = @ \cup {p}]
                  /\ written' = written \cup {p}
             ELSE UNCHANGED <<mem, written>>
  /\ UNCHANGED <<channels, files, faults, over>>

(* esdm_dataset_close()                                                     *)
Closed(d) ==
  IF d.refcount > 1 \/ d.status = "DIRTY" THEN [d EXCEPT !.refcount = @ - 1]
  ELSE [d EXCEPT !.refcount = 0, !.status = "NOT_LOADED", !.frags = {}]

DatasetClose(p) ==
  /\ Calls(p, "dataset_close") /\ Return(p, "SUCCESS")
  /\ mem' = [mem EXCEPT ![p].dset = Closed(@)]
  /\ UNCHANGED <<channels, files, written, faults, over>>

(* esdm_container_close()                                                   *)
ContainerClose(p) ==
  /\ Calls(p, "container_close") /\ Return(p, "SUCCESS")
  /\ mem' = [mem EXCEPT ![p] = [cont |-> None, dset |-> None]]
  /\ UNCHANGED <<channels, files, written, faults, over>>

-----------------------------------------------------------------------------
Next ==
  \/ RootInit \/ RootContainerCreate \/ RootContainerOpen \/ RootContainerCommit
  \/ \E size \in Sizes : RootDatasetCreate(size)
  \/ RootReduced \/ RootDatasetOpen \/ RootDatasetCommit
  \/ \E q \in Others : RootRecv(q)
  \/ RootCommitted \/ Mismatch
  \/ \E q \in Others, size \in Sizes : DatasetCreate(q, size)
  \/ \E q \in Others : GetId(q) \/ DatasetCommit(q) \/ Enter(q) \/ GetConfig(q)
  \/ \E q \in Others : GetCreated(q) \/ GetNone(q) \/ GetContainer(q) \/ GetDataset(q)
  \/ \E q \in Others : GetCommitted(q) \/ GetStored(q)
  \/ \E p \in Procs, some \in BOOLEAN : Write(p, some)
  \/ \E p \in Procs : DatasetReference(p) \/ DatasetMissing(p) \/ DatasetClose(p) \/ ContainerClose(p)

Spec == Init /\ [][Next]_vars

-----------------------------------------------------------------------------
(* A dataset that was closed is not opened again before its container is.   *)
Conforming ==
  \A i, j \in DOMAIN script :
    i < j /\ script[i] = "dataset_close" /\ script[j] = "dataset_open" =>
      \E k \in i..j : script[k] = "container_open"

(* The root failed in esdm_mpi_init(), or in a dataset_open that it reported*)
(* as a success.                                                            *)
Unreported ==
  \/ \E i \in DOMAIN results[0] : script[i] = "init" /\ results[0][i] = "ERROR"
  \/ \E q \in Others : \E i \in DOMAIN results[q] : script[i] = "dataset_open" /\ results[q][i] = "ERROR"
  \/ \E q \in Others : IsPrefix(<<"dataset", "none">>, down[q])

(* All processes get the same result from every collective call, and take   *)
(* the messages of the same call, in a program that opens a dataset again   *)
(* only after its container; except when the root cannot read the           *)
(* configuration or the metadata of a dataset.                              *)
ReturnsAgree ==
  Conforming /\ ~Unreported =>
    /\ over # "mismatch"
    /\ \A p, q \in Procs : \A i \in DOMAIN results[p] \cap DOMAIN results[q] :
         results[p][i] = results[q][i]

Waiting(p) == pc[p] # "ready"

(* A process has a call to make, or the messages that it waits for.         *)
CanGoOn(p) ==
  \/ ~Waiting(p) /\ ~Stopped(p) /\ Here(p) <= Len(script)
  \/ p # 0 /\ Waiting(p) /\ down[p] # <<>>
  \/ p = 0 /\ pc[0] = "reduce" /\ \A q \in Others : up[q] # <<>>
  \/ p = 0 /\ pc[0] = "fragments" /\ (pending = {} \/ \E q \in pending : up[q] # <<>>)

(* Under the same conditions the processes never wait for each other: when  *)
(* one waits in a call, one of them can go on.                              *)
NoHang ==
  Conforming /\ ~Unreported /\ over = "no" =>
    ((\E p \in Procs : Waiting(p)) => \E p \in Procs : CanGoOn(p))

(* Datasets that were created by one call of all processes do not differ in *)
(* the size of a single dimension: check_hash_abort() ends the program.     *)
ArgumentsAgree ==
  over = "no" =>
    \A p, q \in Procs :
      LET Size(r) == IF mem[r].dset = None THEN None ELSE mem[r].dset.size
          difference == {d \in DOMAIN Size(p) : Size(p)[d] # Size(q)[d]}
      IN Size(p) # None /\ Size(q) # None => Cardinality(difference) # 1

(* esdm_mpi_dataset_commit(): "retrieve for all fragments the metadata and  *)
(* attach it to the metadata".  When it has succeeded in all processes, the *)
(* metadata has all fragments that were written.                            *)
CommitStoresFragments ==
  LET n == Len(results[0]) IN
  n > 0 /\ script[n] = "dataset_commit" /\ (\A p \in Procs : Len(results[p]) = n /\ ~Stopped(p))
    => written \subseteq dfile
=============================================================================
