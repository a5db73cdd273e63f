----------------------------- MODULE Containers -----------------------------
(***************************************************************************)
(* A container, its datasets and their metadata files: the API of          *)
(* esdm-datatypes.c on the POSIX metadata backend (md-posix.c).  One       *)
(* process calls the API ("Only a single master thread must be used");     *)
(* it may die at any time, and a file may not be opened for writing.       *)
(*                                                                         *)
(* A metadata file is Absent, Torn (truncated, or written in part) or the  *)
(* record that was serialised.  Of the content of a dataset the model      *)
(* keeps an attribute, the fill value, the names of the dimensions and the *)
(* shapes of its fragments; each may be there or not.                      *)
(*                                                                         *)
(* Ids are drawn with at least 128 random bits (ea_generate_id): the model *)
(* takes an id that is not in use.                                         *)
(***************************************************************************)
EXTENDS Naturals, Sequences

CONSTANTS Names, Ids, Shapes, MaxRefs, MaxChanges, Absent, Torn, None

(* What can be in a metadata file of a container, of a dataset, and what   *)
(* the process holds of a container.                                       *)
ContainerContents == [attr : BOOLEAN, refs : Seq([name : Names, id : Ids])]
DatasetContents ==
  [attr : BOOLEAN, fill : BOOLEAN, dims : BOOLEAN, frags : SUBSET Shapes]
ContainerRecords ==
  [status : {"DIRTY", "PERSISTENT"}, refcount : {0, 1}, attr : BOOLEAN]

(* Dataset ids are not taken for "c", the container's file.  An empty file *)
(* is none, and neither is content.                                        *)
ASSUME ContainersAssumption ==
  /\ MaxRefs \in Nat \ {0} /\ MaxChanges \in Nat
  /\ "c" \notin Ids
  /\ Absent # Torn
  /\ {Absent, Torn} \cap (ContainerContents \cup DatasetContents) = {}
  /\ None \notin ContainerRecords

VARIABLES cfile,    \* containers/<name>.md
          dfile,    \* datasets/<id>.md
          cont,     \* esdm_container_t of the process, or None
          dsets,    \* c->dsets
          job,      \* what remains to be done of a commit or a deletion
          budget,   \* how many more changes and failures there are (a bound)
          unmarked, \* files whose object was changed without being marked dirty
          failed,   \* files that could not be opened to be written
          written,  \* fragments written with success, not deleted and not in a failed commit
          hurt      \* a commit was interrupted, a write failed, something was deleted

vars == <<cfile, dfile, cont, dsets, job, budget, unmarked, failed, written, hurt>>

history == <<unmarked, failed, written, hurt>>
files == <<cfile, dfile>>
memory == <<cont, dsets>>

IsContent(f) == f \notin {Absent, Torn}

NewContainer == [status |-> "DIRTY", refcount |-> 1, attr |-> FALSE]

NewDataset(name, id) ==
  [name |-> name, id |-> id, status |-> "DIRTY", refcount |-> 0, attr |-> FALSE,
   fill |-> FALSE, dims |-> FALSE, frags |-> {}, unwritten |-> {}]

ContainerMetadata ==
  [attr |-> cont.attr,
   refs |-> [i \in DOMAIN dsets |-> [name |-> dsets[i].name, id |-> dsets[i].id]]]

(* What container_commit() and dataset_commit() of the backend are to do.  *)
ContainerEntry == [step |-> "open", file |-> "c", content |-> ContainerMetadata]

DatasetMetadata(d) == [attr |-> d.attr, fill |-> d.fill, dims |-> d.dims, frags |-> d.frags]

DatasetEntry(d) == [step |-> "open", file |-> d.id, content |-> DatasetMetadata(d)]

NameTaken(n) == \E i \in DOMAIN dsets : dsets[i].name = n

Init ==
  /\ cfile = Absent /\ dfile = [i \in Ids |-> Absent]
  /\ cont = None /\ dsets = <<>> /\ job = <<>> /\ budget = MaxChanges
  /\ unmarked = {} /\ failed = {} /\ written = [i \in Ids |-> {}] /\ hurt = FALSE

Idle == job = <<>> /\ cont # None /\ cont.refcount > 0

(* The application holds a reference to the dataset.                       *)
Open(i) == job = <<>> /\ i \in DOMAIN dsets /\ dsets[i].refcount > 0

(* A change by the application, or a failure of the system.                *)
Change == budget > 0 /\ budget' = budget - 1

(* The memory of the process is gone; what counts from now on is on disk.  *)
Forget ==
  /\ cont' = None /\ dsets' = <<>> /\ job' = <<>> /\ unmarked' = {} /\ failed' = {}
  /\ written' = [i \in Ids |-> {}]

-----------------------------------------------------------------------------
(* Containers                                                              *)

(* container_create() of the backend: an empty file.                       *)
CreateContainerFile(overwrite) == (cfile = Absent \/ overwrite) /\ cfile' = Torn

ContainerCreate(overwrite) ==
  /\ cont = None
  /\ CreateContainerFile(overwrite) /\ cont' = NewContainer
  /\ IF cfile = Absent THEN UNCHANGED budget ELSE Change
  /\ UNCHANGED <<dfile, dsets, job, history>>

CreateDatasetFromMetadata(reference) ==
  [NewDataset(reference.name, reference.id) EXCEPT !.status = "NOT_LOADED"]

ContainerOpenMdParse ==
  /\ cont' = [status |-> "PERSISTENT", refcount |-> 1, attr |-> cfile.attr]
  /\ dsets' = [i \in DOMAIN cfile.refs |-> CreateDatasetFromMetadata(cfile.refs[i])]

ContainerOpen ==
  /\ cont = None /\ IsContent(cfile)
  /\ ContainerOpenMdParse
  /\ UNCHANGED <<files, job, budget, history>>

(* Mutant: the last dataset is not committed.                              *)
ContainerCommitAllButLast ==
  /\ Idle /\ cont.status = "DIRTY"
  /\ cont' = [cont EXCEPT !.status = "PERSISTENT"]
  /\ job' = <<ContainerEntry>> \o [i \in 1..(Len(dsets) - 1) |-> [step |-> "dataset", at |-> i]]
  /\ UNCHANGED <<files, dsets, budget, history>>

ContainerCommit ==
  /\ Idle /\ cont.status = "DIRTY"
  /\ cont' = [cont EXCEPT !.status = "PERSISTENT"]
  /\ job' = <<ContainerEntry>> \o [i \in DOMAIN dsets |-> [step |-> "dataset", at |-> i]]
  /\ UNCHANGED <<files, dsets, budget, history>>

(* A dirty fragment is destroyed: esdmI_fragments_deallocateValue()        *)
(* asserts that it is not.                                                 *)
Aborts(ds) == \E i \in DOMAIN ds : ds[i].unwritten # {} /\ ds[i].refcount <= 1

Die == Forget /\ UNCHANGED <<files, budget>>

(* esdm_container_close() and esdmI_container_destroy().  With a dataset   *)
(* in use the container stays in memory, without a reference.              *)
ContainerClose ==
  /\ Idle
  /\ IF \E i \in DOMAIN dsets : dsets[i].refcount # 0
     THEN cont' = [cont EXCEPT !.refcount = 0] /\ UNCHANGED <<files, dsets, job, budget, history>>
     ELSE Die /\ hurt' = (hurt \/ Aborts(dsets))

ContainerLinkAttribute ==
  /\ Idle /\ cont' = [cont EXCEPT !.attr = TRUE, !.status = "DIRTY"]
  /\ Change /\ UNCHANGED <<files, dsets, job, history>>

ContainerDeleteAttribute ==
  /\ Idle /\ cont.attr
  /\ cont' = [cont EXCEPT !.attr = FALSE, !.status = "DIRTY"]
  /\ Change /\ UNCHANGED <<files, dsets, job, history>>

(* esdm_container_delete(): the datasets one by one, then the container.   *)
ContainerDelete ==
  /\ Idle
  /\ job' = [i \in DOMAIN dsets |-> [step |-> "delete", at |-> i]] \o <<[step |-> "remove"]>>
  /\ hurt' = TRUE /\ Change
  /\ UNCHANGED <<files, memory, unmarked, failed, written>>

-----------------------------------------------------------------------------
(* Datasets                                                                *)

(* dataset_create() of the backend draws an id without a file.             *)
FreshId(id) == dfile[id] = Absent /\ \A i \in DOMAIN dsets : dsets[i].id # id

DatasetCreate(name) ==
  /\ Idle /\ ~NameTaken(name)
  /\ \E id \in Ids :
        /\ FreshId(id)
        /\ dsets' = Append(dsets, [NewDataset(name, id) EXCEPT !.refcount = 1])
  /\ cont' = [cont EXCEPT !.status = "DIRTY"]
  /\ UNCHANGED <<files, job, budget, history>>

(* esdm_dataset_open_md_parse().  Fill value and names of the dimensions   *)
(* stay from an earlier time when the file has none; naming the dimensions *)
(* marks the container.                                                    *)
Loaded(d) ==
  LET content == dfile[d.id]
  IN  [d EXCEPT !.status = "PERSISTENT", !.refcount = @ + 1, !.attr = content.attr,
                !.fill = @ \/ content.fill, !.dims = @ \/ content.dims, !.frags = content.frags]

DatasetOpenMdParse(i) ==
  LET d == dsets[i]
      content == dfile[d.id]
  IN  /\ dsets' = [dsets EXCEPT ![i] = Loaded(d)]
      /\ cont' = IF content.dims THEN [cont EXCEPT !.status = "DIRTY"] ELSE cont
      /\ unmarked' = IF (d.fill /\ ~content.fill) \/ (d.dims /\ ~content.dims)
                     THEN unmarked \cup {d.id} ELSE unmarked

(* esdm_dataset_ref(), by esdm_dataset_open() or by its user.  (Without    *)
(* the backend of a fragment esdmI_get_backend() exits: see Crash.)        *)
DatasetRef(i) ==
  /\ Idle /\ i \in DOMAIN dsets /\ dsets[i].refcount < MaxRefs
  /\ \/ /\ dsets[i].status # "NOT_LOADED"
        /\ dsets' = [dsets EXCEPT ![i].refcount = @ + 1] /\ UNCHANGED <<cont, unmarked>>
     \/ /\ dsets[i].status = "NOT_LOADED" /\ IsContent(dfile[dsets[i].id])
        /\ DatasetOpenMdParse(i)
  /\ UNCHANGED <<files, job, budget, failed, written, hurt>>

DatasetCommit(i) ==
  /\ Open(i) /\ job' = <<[step |-> "dataset", at |-> i]>>
  /\ UNCHANGED <<files, memory, budget, history>>

(* Mutant: the status is not looked at.                                    *)
ClosedThoughDirty(d) ==
  IF d.refcount > 1
  THEN [d EXCEPT !.refcount = @ - 1]
  ELSE [d EXCEPT !.refcount = 0, !.status = "NOT_LOADED", !.attr = FALSE, !.frags = {}]

(* Mutant: the references are not looked at.                               *)
ClosedThoughUsed(d) ==
  IF d.status = "DIRTY"
  THEN [d EXCEPT !.refcount = @ - 1]
  ELSE [d EXCEPT !.refcount = @ - 1, !.status = "NOT_LOADED", !.attr = FALSE, !.frags = {}]

(* esdm_dataset_close(): a dirty dataset stays loaded.                     *)
Closed(d) ==
  IF d.refcount > 1 \/ d.status = "DIRTY"
  THEN [d EXCEPT !.refcount = @ - 1]
  ELSE [d EXCEPT !.refcount = 0, !.status = "NOT_LOADED", !.attr = FALSE, !.frags = {}]

DatasetClose(i) ==
  /\ Open(i)
  /\ dsets' = [dsets EXCEPT ![i] = Closed(@)]
  /\ UNCHANGED <<files, cont, job, budget, history>>

DatasetLinkAttribute(i) ==
  /\ Open(i) /\ dsets[i].status # "DELETED"
  /\ dsets' = [dsets EXCEPT ![i].attr = TRUE, ![i].status = "DIRTY"]
  /\ Change /\ UNCHANGED <<files, cont, job, history>>

(* A change of a dataset that does not mark it.                            *)
Unmarked(i) == unmarked' = unmarked \cup {dsets[i].id}

DatasetDeleteAttribute(i) ==
  /\ Open(i) /\ dsets[i].attr /\ dsets[i].status # "DELETED"
  /\ dsets' = [dsets EXCEPT ![i].attr = FALSE] /\ Unmarked(i)
  /\ Change /\ UNCHANGED <<files, cont, job, failed, written, hurt>>

SetFillValue(i) ==
  /\ Open(i) /\ ~dsets[i].fill /\ dsets[i].status # "DELETED"
  /\ dsets' = [dsets EXCEPT ![i].fill = TRUE] /\ Unmarked(i)
  /\ Change /\ UNCHANGED <<files, cont, job, failed, written, hurt>>

NameDims(i) ==
  /\ Open(i) /\ dsets[i].status # "DELETED"
  /\ dsets' = [dsets EXCEPT ![i].dims = TRUE, ![i].status = "DIRTY"]
  /\ cont' = [cont EXCEPT !.status = "DIRTY"]
  /\ Change /\ UNCHANGED <<files, job, history>>

(* The name is part of the container's metadata.                           *)
Rename(i, name) ==
  /\ Open(i) /\ ~NameTaken(name)
  /\ dsets' = [dsets EXCEPT ![i].name = name] /\ cont' = [cont EXCEPT !.status = "DIRTY"]
  /\ Change /\ UNCHANGED <<files, job, history>>

(* esdm_dataset_change_name() marks the dataset, not the container.        *)
ChangeName(i, name) ==
  /\ Open(i) /\ dsets[i].status # "DELETED" /\ dsets[i].name # name
  /\ dsets' = [dsets EXCEPT ![i].name = name, ![i].status = "DIRTY"]
  /\ unmarked' = unmarked \cup {"c"}
  /\ Change /\ UNCHANGED <<files, cont, job, failed, written, hurt>>

(* Mutant: esdmI_dataset_register_fragment() marks the container only.     *)
WriteFragmentUnmarked(i, shape) ==
  /\ Open(i) /\ dsets[i].status # "DELETED"
  /\ shape \notin dsets[i].frags \cup dsets[i].unwritten
  /\ cont' = [cont EXCEPT !.status = "DIRTY"]
  /\ dsets' = [dsets EXCEPT ![i].frags = @ \cup {shape}]
  /\ written' = [written EXCEPT ![dsets[i].id] = @ \cup {shape}]
  /\ Change /\ UNCHANGED <<files, job, unmarked, failed, hurt>>

(* esdmI_dataset_createFragment() and the write of its data.  A fragment   *)
(* of this shape is taken as it is; a new one is in the table and marks    *)
(* dataset and container before its data is written.                       *)
WriteFragment(i, shape) ==
  /\ Open(i) /\ dsets[i].status # "DELETED"
  /\ shape \notin dsets[i].frags \cup dsets[i].unwritten
  /\ cont' = [cont EXCEPT !.status = "DIRTY"]
  /\ \/ /\ dsets' = [dsets EXCEPT ![i].frags = @ \cup {shape}, ![i].status = "DIRTY"]
        /\ written' = [written EXCEPT ![dsets[i].id] = @ \cup {shape}]
     \/ /\ dsets' = [dsets EXCEPT ![i].unwritten = @ \cup {shape}, ![i].status = "DIRTY"]
        /\ UNCHANGED written
  /\ Change /\ UNCHANGED <<files, job, unmarked, failed, hurt>>

-----------------------------------------------------------------------------
(* The steps of a commit                                                   *)

Now == Head(job)

(* esdm_dataset_commit(): the status is set before anything is written; a  *)
(* fragment without an id fails an assertion of its serialisation.         *)
CommitDataset ==
  /\ job # <<>> /\ Now.step = "dataset"
  /\ LET d == dsets[Now.at]
     IN  \/ d.status # "DIRTY" /\ job' = Tail(job) /\ UNCHANGED <<files, memory, budget, history>>
         \/ d.status = "DIRTY" /\ d.unwritten # {} /\ Die /\ hurt' = TRUE
         \/ /\ d.status = "DIRTY" /\ d.unwritten = {}
            /\ dsets' = [dsets EXCEPT ![Now.at].status = "PERSISTENT"]
            /\ job' = <<DatasetEntry(d)>> \o Tail(job)
            /\ UNCHANGED <<files, cont, budget, history>>

SetFile(file, content) ==
  IF file = "c" THEN cfile' = content /\ UNCHANGED dfile
                ELSE dfile' = [dfile EXCEPT ![file] = content] /\ UNCHANGED cfile

(* esdm_container_commit() goes on with the datasets all the same.         *)
Failed ==
  /\ job' = Tail(job) /\ Change
  /\ failed' = failed \cup {Now.file} /\ hurt' = TRUE /\ UNCHANGED <<memory, unmarked>>
  /\ written' = [i \in Ids |-> IF i = Now.file THEN {} ELSE written[i]]

(* entry_create(): open with O_TRUNC ...                                   *)
OpenEntry ==
  /\ job # <<>> /\ Now.step = "open"
  /\ \/ /\ SetFile(Now.file, Torn)
        /\ job' = <<[Now EXCEPT !.step = "write"]>> \o Tail(job)
        /\ UNCHANGED <<memory, budget, history>>
     \/ Failed /\ UNCHANGED files

(* ... and write: ea_write_check() exits when write() fails.               *)
WriteEntry ==
  /\ job # <<>> /\ Now.step = "write"
  /\ \/ /\ SetFile(Now.file, Now.content) /\ job' = Tail(job)
        /\ unmarked' = unmarked \ {Now.file} /\ failed' = failed \ {Now.file}
        /\ UNCHANGED <<memory, budget, written, hurt>>
     \/ Die /\ hurt' = TRUE

-----------------------------------------------------------------------------
(* The steps of a deletion                                                 *)

RemoveDatasetFile(id) == dfile' = [dfile EXCEPT ![id] = Absent]
RemoveContainerFile == cfile' = Absent

LoadFails(d) == d.status = "NOT_LOADED" /\ ~IsContent(dfile[d.id])

(* esdm_dataset_delete().  The dataset is loaded first when it is not; its *)
(* fragments are deleted, as far as the backend can, then its file, and it *)
(* is closed.  Its table is destroyed, and is used again when the dataset  *)
(* is closed or destroyed: this has no effect, or the process dies.        *)
(* Without a file to remove the call fails at the end.                     *)
DeleteDataset(i) ==
  LET d == IF dsets[i].status = "NOT_LOADED" THEN Loaded(dsets[i]) ELSE dsets[i]
  IN  /\ dsets[i].status # "DELETED" /\ ~LoadFails(dsets[i])
      /\ unmarked' = unmarked \cup {d.id} /\ UNCHANGED <<cfile, failed>>
      /\ cont' = IF d.dims /\ dsets[i].status = "NOT_LOADED" THEN [cont EXCEPT !.status = "DIRTY"]
                 ELSE cont
      /\ \/ \E left \in SUBSET d.frags :                  \* the backend failed
              /\ left \cup d.unwritten # {}
              /\ dsets' = [dsets EXCEPT ![i] = [d EXCEPT !.frags = left]]
              /\ written' = [written EXCEPT ![d.id] = @ \cap left] /\ UNCHANGED dfile
         \/ /\ d.unwritten = {} /\ d.refcount > 0
            /\ RemoveDatasetFile(d.id)
            /\ dsets' = [dsets EXCEPT ![i] = Closed([d EXCEPT !.status = "DELETED", !.frags = {}])]
            /\ written' = [written EXCEPT ![d.id] = {}]

(* Assertions: a dataset is deleted once, a fragment that is destroyed is  *)
(* not dirty, and a dataset that is closed has a reference.                *)
DeleteDies(i) ==
  /\ Forget /\ hurt' = TRUE /\ UNCHANGED <<cfile, budget>>
  /\ \/ /\ dsets[i].status = "DELETED" \/ dsets[i].unwritten # {}
        /\ UNCHANGED dfile
     \/ /\ dsets[i].status \in {"DIRTY", "PERSISTENT"} /\ dsets[i].refcount = 0
        /\ dsets[i].unwritten = {} /\ RemoveDatasetFile(dsets[i].id)

DatasetDelete(i) ==
  /\ Idle
  /\ \/ DeleteDataset(i) /\ hurt' = TRUE /\ Change /\ UNCHANGED job
     \/ DeleteDies(i)

(* The loop of esdm_container_delete(): it gives up when the first dataset *)
(* cannot be deleted, and goes on after any other.                         *)
DeleteNext ==
  /\ job # <<>> /\ Now.step = "delete"
  /\ \/ DeleteDataset(Now.at) /\ UNCHANGED <<budget, hurt>>
        /\ job' = IF Now.at = 1 /\ dfile' = dfile THEN <<>> ELSE Tail(job)
     \/ /\ LoadFails(dsets[Now.at]) /\ UNCHANGED <<files, memory, budget, history>>
        /\ job' = IF Now.at = 1 THEN <<>> ELSE Tail(job)
     \/ DeleteDies(Now.at)

RemoveContainer ==
  /\ job # <<>> /\ Now.step = "remove"
  /\ RemoveContainerFile /\ Forget
  /\ UNCHANGED <<dfile, budget, hurt>>

-----------------------------------------------------------------------------
(* The process dies, in the middle of a call or not; it starts again with  *)
(* nothing but the files.                                                  *)
Crash ==
  /\ cont # None /\ Die /\ hurt' = (hurt \/ job # <<>>)

Next ==
  \/ \E overwrite \in BOOLEAN : ContainerCreate(overwrite)
  \/ ContainerOpen \/ ContainerCommit \/ ContainerClose
  \/ ContainerLinkAttribute \/ ContainerDeleteAttribute \/ ContainerDelete
  \/ \E name \in Names : DatasetCreate(name)
  \/ \E i \in DOMAIN dsets :
        \/ DatasetRef(i) \/ DatasetCommit(i) \/ DatasetClose(i) \/ DatasetDelete(i)
        \/ DatasetLinkAttribute(i) \/ DatasetDeleteAttribute(i) \/ SetFillValue(i) \/ NameDims(i)
        \/ \E name \in Names : Rename(i, name) \/ ChangeName(i, name)
        \/ \E shape \in Shapes : WriteFragment(i, shape)
  \/ CommitDataset \/ OpenEntry \/ WriteEntry \/ DeleteNext \/ RemoveContainer
  \/ Crash

Spec == Init /\ [][Next]_vars

-----------------------------------------------------------------------------
(* What is marked as saved is saved: between two calls, the file of a      *)
(* container or dataset with the status PERSISTENT holds exactly what is   *)
(* in memory.  Excepted are the changes that do not mark their object      *)
(* (deleting an attribute, setting the fill value, change_name()), and an  *)
(* object whose last commit failed, which is marked PERSISTENT before it   *)
(* is written.                                                             *)
CleanMeansSaved ==
  job = <<>> /\ cont # None =>
    /\ cont.status = "PERSISTENT" /\ "c" \notin unmarked \cup failed => cfile = ContainerMetadata
    /\ \A i \in DOMAIN dsets :
          LET d == dsets[i]
          IN  d.status = "PERSISTENT" /\ d.id \notin unmarked \cup failed =>
                dfile[d.id] = DatasetMetadata(d)

(* Nothing that was written is forgotten while the container is open: a    *)
(* fragment whose write succeeded is in memory or in the file of its       *)
(* dataset, however often the dataset is closed and opened, unless it was  *)
(* deleted or a commit of this dataset failed.  esdm_dataset_close() keeps *)
(* a dirty dataset in memory for this.                                     *)
WrittenKept ==
  \A i \in DOMAIN dsets :
     LET d == dsets[i]
     IN  written[d.id] \subseteq IF d.status # "NOT_LOADED" THEN d.frags
                                ELSE IF IsContent(dfile[d.id]) THEN dfile[d.id].frags ELSE {}

(* A reference to a dataset stays good.  In memory the dataset is loaded   *)
(* and its container is there until the last reference is returned.  On    *)
(* disk every dataset that the container refers to has its metadata,       *)
(* between two calls and after a crash between two calls.  (A commit       *)
(* writes the container first; one that is interrupted, or fails, leaves   *)
(* references to datasets that cannot be opened.)                          *)
ReferencesValid ==
  /\ \A i \in DOMAIN dsets :
        dsets[i].refcount > 0 => dsets[i].status # "NOT_LOADED" /\ cont # None
  /\ job = <<>> /\ ~hurt /\ IsContent(cfile) =>
        \A i \in DOMAIN cfile.refs : IsContent(dfile[cfile.refs[i].id])

(* "data is in memory, on-disk data is equal to data in memory"            *)
(* (esdm-datatypes-internal.h:29, of the status PERSISTENT): CleanMeansSaved *)
(* without its exceptions.                                                 *)
PersistentMeansEqual ==
  job = <<>> =>
    \A i \in DOMAIN dsets :
       dsets[i].status = "PERSISTENT" => dfile[dsets[i].id] = DatasetMetadata(dsets[i])
=============================================================================
