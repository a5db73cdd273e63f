-------------------------- MODULE Containers_proofs --------------------------
(***************************************************************************)
(* CleanMeansSaved, WrittenKept and ReferencesValid hold for any number of *)
(* datasets, names, ids, shapes of fragments, references and changes.      *)
(***************************************************************************)
EXTENDS Containers, TLAPS

DatasetRecords ==
  [name : Names, id : Ids, status : {"DIRTY", "PERSISTENT", "NOT_LOADED", "DELETED"},
   refcount : Nat, attr : BOOLEAN, fill : BOOLEAN, dims : BOOLEAN,
   frags : SUBSET Shapes, unwritten : SUBSET Shapes]

TypeInv ==
  /\ cfile \in ContainerContents \cup {Absent, Torn}
  /\ dfile \in [Ids -> DatasetContents \cup {Absent, Torn}]
  /\ cont \in ContainerRecords \cup {None}
  /\ dsets \in Seq(DatasetRecords)
  /\ cont = None => dsets = <<>> /\ job = <<>>
  /\ written \in [Ids -> SUBSET Shapes]
  /\ hurt \in BOOLEAN

(* No two datasets have the same id, in memory or in the container's file. *)
IdsDiffer ==
  /\ \A i, j \in DOMAIN dsets : dsets[i].id = dsets[j].id => i = j
  /\ IsContent(cfile) =>
       \A i, j \in DOMAIN cfile.refs : cfile.refs[i].id = cfile.refs[j].id => i = j

(* A file is opened or written only by the first entry of a job, with what *)
(* is in memory; other entries are about datasets that exist.  Where       *)
(* something is deleted, hurt is set.                                      *)
FileSteps == {"open", "write"}

Entries ==
  [step : FileSteps, file : Ids \cup {"c"}, content : ContainerContents \cup DatasetContents]
    \cup [step : {"dataset", "delete"}, at : Nat] \cup [step : {"remove"}]

JobInv ==
  /\ job \in Seq(Entries)
  /\ \A n \in DOMAIN job :
       /\ job[n].step \in FileSteps =>
            /\ n = 1
            /\ job[n].file = "c" => job[n].content = ContainerMetadata
            /\ job[n].file # "c" =>
                 \E i \in DOMAIN dsets : /\ dsets[i].id = job[n].file
                                         /\ dsets[i].status = "PERSISTENT"
                                         /\ job[n].content = DatasetMetadata(dsets[i])
       /\ job[n].step \in {"dataset", "delete"} => job[n].at \in DOMAIN dsets
       /\ job[n].step \in {"delete", "remove"} => hurt

(* The file that the first entry of the job is about to write.             *)
Pending(f) == job # <<>> /\ job[1].step \in FileSteps /\ job[1].file = f

(* CleanMeansSaved, in the middle of a commit too.                         *)
SavedInv ==
  cont # None =>
    /\ cont.status = "PERSISTENT" /\ "c" \notin unmarked \cup failed /\ ~Pending("c") =>
         cfile = ContainerMetadata
    /\ \A i \in DOMAIN dsets :
         /\ dsets[i].status = "PERSISTENT" /\ dsets[i].id \notin unmarked \cup failed
         /\ ~Pending(dsets[i].id)
         => dfile[dsets[i].id] = DatasetMetadata(dsets[i])

(* A written fragment is in memory as long as the dataset is loaded, and   *)
(* also on disk unless the dataset is dirty or about to be written.        *)
OnDisk(content) == IF IsContent(content) THEN content.frags ELSE {}

KeptInv ==
  /\ \A i \in DOMAIN dsets :
       /\ dsets[i].status # "NOT_LOADED" => written[dsets[i].id] \subseteq dsets[i].frags
       /\ dsets[i].status # "DIRTY" /\ ~Pending(dsets[i].id) =>
            written[dsets[i].id] \subseteq OnDisk(dfile[dsets[i].id])
  /\ \A id \in Ids : (\A i \in DOMAIN dsets : dsets[i].id # id) => written[id] = {}

LoadedInv == \A i \in DOMAIN dsets : dsets[i].refcount > 0 => dsets[i].status # "NOT_LOADED"

(* The rest of the job is going to write the file of dataset id.           *)
Promised(id) ==
  \/ Pending(id)
  \/ \E n \in DOMAIN job : /\ job[n].step = "dataset" /\ dsets[job[n].at].id = id
                           /\ dsets[job[n].at].status = "DIRTY"

Good(id) == IsContent(dfile[id]) \/ Promised(id)

(* Unless something went wrong, what a container refers to, on disk or in  *)
(* the entry to be written, is there or will be; and only a dirty dataset  *)
(* has no file.                                                            *)
ResolveInv ==
  ~hurt =>
    /\ IsContent(cfile) => \A i \in DOMAIN cfile.refs : Good(cfile.refs[i].id)
    /\ Pending("c") => \A i \in DOMAIN dsets : Good(dsets[i].id)
    /\ \A i \in DOMAIN dsets :
         dsets[i].status # "DIRTY" => IsContent(dfile[dsets[i].id]) \/ Pending(dsets[i].id)

ContainersInv ==
  TypeInv /\ IdsDiffer /\ JobInv /\ SavedInv /\ KeptInv /\ LoadedInv /\ ResolveInv

-----------------------------------------------------------------------------
(* What can be written to a file is content.                               *)
LEMMA ContentIsContent ==
  \A x \in ContainerContents \cup DatasetContents : IsContent(x)
BY Zenon, ContainersAssumption DEF IsContent

(* The metadata of a container and of a dataset, and the entries that      *)
(* write them, are of their types.                                         *)
LEMMA ContainerMetadataType ==
  ASSUME TypeInv, cont # None
  PROVE  ContainerMetadata \in ContainerContents
<1>1. cont.attr \in BOOLEAN
  BY Zenon DEF TypeInv, ContainerRecords
<1>2. [i \in DOMAIN dsets |-> [name |-> dsets[i].name, id |-> dsets[i].id]]
        \in Seq([name : Names, id : Ids])
  <2>1. /\ DOMAIN dsets = 1..Len(dsets) /\ Len(dsets) \in Nat
        /\ \A i \in DOMAIN dsets : dsets[i] \in DatasetRecords
    BY DEF TypeInv
  <2>2. \A i \in DOMAIN dsets :
          [name |-> dsets[i].name, id |-> dsets[i].id] \in [name : Names, id : Ids]
    BY Zenon, <2>1 DEF DatasetRecords
  <2> QED BY <2>1, <2>2
<1> QED BY Zenon, <1>1, <1>2 DEF ContainerMetadata, ContainerContents

LEMMA NewDatasetFacts ==
  ASSUME NEW name \in Names, NEW id \in Ids
  PROVE  LET d == NewDataset(name, id)
         IN  /\ d \in DatasetRecords /\ d.id = id /\ d.name = name
             /\ d.status = "DIRTY" /\ d.refcount = 0 /\ d.frags = {}
BY Zenon DEF NewDataset, DatasetRecords

LEMMA DatasetMetadataType ==
  \A d \in DatasetRecords : DatasetMetadata(d) \in DatasetContents
BY Zenon DEF DatasetRecords, DatasetMetadata, DatasetContents

(* An entry put before the rest of a job.                                  *)
LEMMA Prepended ==
  ASSUME NEW S, NEW x \in S, NEW s \in Seq(S), NEW t, t = <<x>> \o s
  PROVE  /\ t \in Seq(S) /\ 1 \in DOMAIN t /\ t[1] = x
         /\ \A n \in DOMAIN t : n # 1 => n - 1 \in DOMAIN s /\ t[n] = s[n - 1]
         /\ \A n \in DOMAIN s : n + 1 \in DOMAIN t /\ t[n + 1] = s[n]
OBVIOUS

LEMMA TailFacts ==
  ASSUME NEW S, NEW s \in Seq(S), s # <<>>
  PROVE  /\ Tail(s) \in Seq(S)
         /\ s[1] \in S /\ Head(s) = s[1] /\ 1 \in DOMAIN s
         /\ \A n \in DOMAIN Tail(s) : n + 1 \in DOMAIN s /\ n + 1 # 1 /\ Tail(s)[n] = s[n + 1]
         /\ \A n \in DOMAIN s : n # 1 => (n - 1) \in DOMAIN Tail(s) /\ Tail(s)[n - 1] = s[n]
OBVIOUS

LEMMA ElementFacts ==
  ASSUME NEW S, NEW s \in Seq(S), NEW n \in DOMAIN s
  PROVE  s[n] \in S /\ s # <<>>
OBVIOUS

(* The references in the file of a container.                              *)
LEMMA ReferenceType ==
  ASSUME TypeInv, IsContent(cfile)
  PROVE  /\ cfile \in ContainerContents /\ cfile.refs \in Seq([name : Names, id : Ids])
         /\ \A k \in DOMAIN cfile.refs : /\ cfile.refs[k] \in [name : Names, id : Ids]
                                         /\ cfile.refs[k].id \in Ids
                                         /\ cfile.refs[k].name \in Names
<1>1. cfile \in ContainerContents
  BY Zenon DEF TypeInv, IsContent
<1>2. cfile.refs \in Seq([name : Names, id : Ids])
  BY Zenon, <1>1 DEF ContainerContents
<1>3. \A k \in DOMAIN cfile.refs : cfile.refs[k] \in [name : Names, id : Ids]
  BY Zenon, <1>2, ElementFacts
<1> QED BY Zenon, <1>1, <1>2, <1>3

(* The memory is forgotten.                                                *)
LEMMA Forgotten ==
  ASSUME ContainersInv, Forget,
         cfile' \in {cfile, Absent},
         dfile' \in [Ids -> DatasetContents \cup {Absent, Torn}],
         hurt' \in BOOLEAN,
         hurt' \/ (~hurt /\ UNCHANGED files /\ job = <<>>)
  PROVE  ContainersInv'
<1>1. TypeInv'
  <2>1. dsets' \in Seq(DatasetRecords)
    BY DEF Forget
  <2> QED BY Zenon, <2>1 DEF ContainersInv, TypeInv, Forget
<1>2. IdsDiffer'
  BY DEF ContainersInv, IdsDiffer, Forget, IsContent
<1>3. JobInv'
  BY DEF JobInv, Forget
<1>4. SavedInv'
  BY Zenon DEF SavedInv, Forget
<1>5. KeptInv' /\ LoadedInv'
  BY DEF KeptInv, LoadedInv, Forget
<1>6. ResolveInv'
  <2> SUFFICES ASSUME ~hurt' PROVE ResolveInv'
    BY Zenon DEF ResolveInv
  <2>1. ~hurt /\ cfile' = cfile /\ dfile' = dfile /\ job = <<>>
    BY Zenon DEF files
  <2>2. \A id : ~Promised(id)
    BY <2>1 DEF Promised, Pending
  <2>3. IsContent(cfile) => \A i \in DOMAIN cfile.refs : IsContent(dfile[cfile.refs[i].id])
    BY Zenon, <2>1, <2>2 DEF ContainersInv, ResolveInv, Good
  <2>4. dsets' = <<>> /\ job' = <<>>
    BY Zenon DEF Forget
  <2> QED BY <2>1, <2>3, <2>4 DEF ResolveInv, Good, Pending, IsContent
<1> QED BY Zenon, <1>1, <1>2, <1>3, <1>4, <1>5, <1>6 DEF ContainersInv

(* One dataset changes in memory, and with it perhaps its file; a file     *)
(* changes only in a deletion, which sets hurt.                            *)
LEMMA OneDataset ==
  ASSUME ContainersInv, cont # None,
         NEW i \in DOMAIN dsets, NEW e \in DatasetRecords,
         NEW x \in DatasetContents \cup {Absent, Torn}, NEW w \in SUBSET Shapes,
         dsets' = [dsets EXCEPT ![i] = e], e.id = dsets[i].id,
         dfile' = [dfile EXCEPT ![e.id] = x], cfile' = cfile,
         cont' \in ContainerRecords, cont'.attr = cont.attr,
         cont'.status \in {cont.status, "DIRTY"},
         unmarked \subseteq unmarked', failed' = failed,
         e.name = dsets[i].name \/ cont'.status = "DIRTY" \/ "c" \in unmarked',
         e.status = "PERSISTENT" /\ e.id \notin unmarked' \cup failed => x = DatasetMetadata(e),
         e.refcount > 0 => e.status # "NOT_LOADED",
         written' = [written EXCEPT ![e.id] = w],
         e.status # "NOT_LOADED" => w \subseteq e.frags,
         e.status # "DIRTY" => w \subseteq OnDisk(x),
         \A n \in DOMAIN job : job[n].step \notin FileSteps,
         job' \in Seq(Entries),
         \A n \in DOMAIN job' : \E m \in DOMAIN job : job'[n] = job[m],
         hurt' \in BOOLEAN, hurt => hurt',
         hurt' \/ /\ job = <<>> /\ job' = <<>> /\ x = dfile[e.id]
                  /\ e.status # "DIRTY" => IsContent(x)
  PROVE  ContainersInv'
<1>0. /\ TypeInv /\ IdsDiffer /\ JobInv /\ SavedInv /\ KeptInv /\ LoadedInv /\ ResolveInv
      /\ \A j \in DOMAIN dsets : dsets[j] \in DatasetRecords /\ dsets[j].id \in Ids
      /\ e.id \in Ids
  <2>1. /\ TypeInv /\ IdsDiffer /\ JobInv /\ SavedInv /\ KeptInv /\ LoadedInv /\ ResolveInv
    BY Zenon DEF ContainersInv
  <2>2. \A d \in DatasetRecords : d.id \in Ids
    BY Zenon DEF DatasetRecords
  <2>3. \A j \in DOMAIN dsets : dsets[j] \in DatasetRecords
    BY <2>1 DEF TypeInv
  <2> QED BY Zenon, <2>1, <2>2, <2>3
<1>1. /\ dsets' \in Seq(DatasetRecords) /\ DOMAIN dsets' = DOMAIN dsets
      /\ dsets'[i] = e /\ \A j \in DOMAIN dsets : j # i => dsets'[j] = dsets[j]
      /\ \A j \in DOMAIN dsets : dsets'[j].id = dsets[j].id
  BY <1>0 DEF TypeInv
<1>2. /\ dfile'[e.id] = x /\ written'[e.id] = w
      /\ \A j \in DOMAIN dsets : j # i => /\ dfile'[dsets[j].id] = dfile[dsets[j].id]
                                         /\ written'[dsets[j].id] = written[dsets[j].id]
  BY Zenon, <1>0 DEF TypeInv, IdsDiffer
<1>3. /\ \A f : ~Pending(f)
      /\ \A n \in DOMAIN job' : job'[n].step \notin FileSteps
  BY <1>0 DEF Pending, JobInv
<1>4. \A f : ~Pending(f)'
  BY <1>3 DEF Pending
<1>5. cont' # None
  BY Zenon, ContainersAssumption
<1>6. TypeInv'
  BY Zenon, <1>0, <1>1, <1>5 DEF TypeInv
<1>7. IdsDiffer'
  BY <1>0, <1>1 DEF IdsDiffer, IsContent
<1>8. JobInv'
  BY <1>0, <1>1, <1>3 DEF JobInv
<1>9. SavedInv'
  <2>1. cont'.status = "PERSISTENT" /\ "c" \notin unmarked' \cup failed' =>
          cfile' = ContainerMetadata'
    <3> SUFFICES ASSUME cont'.status = "PERSISTENT", "c" \notin unmarked' \cup failed'
                 PROVE  cfile = ContainerMetadata'
      BY Zenon
    <3>1. cfile = ContainerMetadata
      BY Zenon, <1>0, <1>3 DEF SavedInv
    <3>2. \A j \in DOMAIN dsets : dsets'[j].name = dsets[j].name
      BY Zenon, <1>1
    <3> QED BY Zenon, <3>1, <3>2, <1>1 DEF ContainerMetadata
  <2>2. ASSUME NEW j \in DOMAIN dsets', dsets'[j].status = "PERSISTENT",
               dsets'[j].id \notin unmarked' \cup failed'
        PROVE  dfile'[dsets'[j].id] = DatasetMetadata(dsets'[j])
    <3>1. CASE j = i
      BY Zenon, <3>1, <2>2, <1>1, <1>2
    <3>2. CASE j # i
      BY <3>2, <2>2, <1>0, <1>1, <1>2, <1>3 DEF SavedInv
    <3> QED BY Zenon, <3>1, <3>2
  <2> QED BY Zenon, <2>1, <2>2 DEF SavedInv, DatasetMetadata
<1>10. KeptInv'
  <2>1. ASSUME NEW j \in DOMAIN dsets'
        PROVE  /\ dsets'[j].status # "NOT_LOADED" => written'[dsets'[j].id] \subseteq dsets'[j].frags
               /\ dsets'[j].status # "DIRTY" => written'[dsets'[j].id] \subseteq OnDisk(dfile'[dsets'[j].id])
    <3>1. CASE j = i
      BY Zenon, <3>1, <1>1, <1>2
    <3>2. CASE j # i
      <4>1. /\ dsets'[j] = dsets[j] /\ dfile'[dsets'[j].id] = dfile[dsets[j].id]
            /\ written'[dsets'[j].id] = written[dsets[j].id]
        BY <3>2, <1>1, <1>2
      <4>2. /\ dsets[j].status # "NOT_LOADED" => written[dsets[j].id] \subseteq dsets[j].frags
            /\ dsets[j].status # "DIRTY" =>
                 written[dsets[j].id] \subseteq OnDisk(dfile[dsets[j].id])
        BY Zenon, <1>0, <1>1, <1>3 DEF KeptInv
      <4> QED BY Zenon, <4>1, <4>2
    <3> QED BY Zenon, <3>1, <3>2
  <2>2. ASSUME NEW id \in Ids, \A j \in DOMAIN dsets' : dsets'[j].id # id
        PROVE  written'[id] = {}
    BY Zenon, <2>2, <1>0, <1>1 DEF KeptInv, TypeInv
  <2> QED BY Zenon, <2>1, <2>2 DEF KeptInv, OnDisk, IsContent
<1>11. LoadedInv'
  BY Zenon, <1>0, <1>1 DEF LoadedInv
<1>12. ResolveInv'
  <2> SUFFICES ASSUME ~hurt' PROVE ResolveInv'
    BY Zenon DEF ResolveInv
  <2>1. /\ ~hurt /\ job = <<>> /\ job' = <<>> /\ dfile' = dfile
        /\ e.status # "DIRTY" => IsContent(dfile[e.id])
    BY Zenon, <1>0 DEF TypeInv
  <2>2. \A id : ~Promised(id)
    BY <2>1 DEF Promised, Pending
  <2>3. IsContent(cfile) => \A k \in DOMAIN cfile.refs : IsContent(dfile[cfile.refs[k].id])
    BY Zenon, <1>0, <2>1, <2>2 DEF ResolveInv, Good
  <2>4. \A j \in DOMAIN dsets' :
          dsets'[j].status # "DIRTY" => IsContent(dfile[dsets'[j].id])
    BY Zenon, <1>0, <1>1, <1>3, <2>1 DEF ResolveInv
  <2> QED BY <2>1, <2>3, <2>4, <1>4 DEF ResolveInv, Good, IsContent
<1> QED BY Zenon, <1>6, <1>7, <1>8, <1>9, <1>10, <1>11, <1>12 DEF ContainersInv

(* The application changes a dataset between two calls.                    *)
LEMMA MemoryStep ==
  ASSUME ContainersInv, job = <<>>,
         NEW i \in DOMAIN dsets, NEW e \in DatasetRecords, NEW w \in SUBSET Shapes,
         dsets' = [dsets EXCEPT ![i] = e], e.id = dsets[i].id,
         UNCHANGED <<files, job, failed, hurt>>,
         cont' \in {cont, [cont EXCEPT !.status = "DIRTY"]},
         unmarked \subseteq unmarked',
         e.name = dsets[i].name \/ cont'.status = "DIRTY" \/ "c" \in unmarked',
         e.status = "PERSISTENT" /\ e.id \notin unmarked' \cup failed =>
           dfile[e.id] = DatasetMetadata(e),
         e.refcount > 0 => e.status # "NOT_LOADED",
         written' = [written EXCEPT ![e.id] = w],
         e.status # "NOT_LOADED" => w \subseteq e.frags,
         e.status # "DIRTY" => w \subseteq OnDisk(dfile[e.id]),
         e.status # "DIRTY" /\ ~hurt => IsContent(dfile[e.id])
  PROVE  ContainersInv'
<1>1. TypeInv /\ cont # None /\ e.id \in Ids
  BY DEF ContainersInv, TypeInv, DatasetRecords
<1>2. dfile[e.id] \in DatasetContents \cup {Absent, Torn}
      /\ dfile' = [dfile EXCEPT ![e.id] = dfile[e.id]] /\ cfile' = cfile
  BY Zenon, <1>1 DEF TypeInv, files
<1>3. /\ cont' \in ContainerRecords /\ cont'.attr = cont.attr
      /\ cont'.status \in {cont.status, "DIRTY"}
  BY Zenon, <1>1 DEF TypeInv, ContainerRecords
<1>4. /\ job' = <<>> /\ job' \in Seq(Entries) /\ failed' = failed
      /\ hurt' = hurt /\ hurt' \in BOOLEAN /\ (hurt => hurt')
  BY <1>1 DEF TypeInv
<1>5. /\ \A n \in DOMAIN job : job[n].step \notin FileSteps
      /\ \A n \in DOMAIN job' : \E m \in DOMAIN job : job'[n] = job[m]
  BY <1>4
<1> DEFINE x == dfile[e.id]
<1>6. hurt' \/ /\ job = <<>> /\ job' = <<>> /\ x = dfile[e.id]
               /\ e.status # "DIRTY" => IsContent(x)
  BY Zenon, <1>4
<1>7. x \in DatasetContents \cup {Absent, Torn} /\ dfile' = [dfile EXCEPT ![e.id] = x]
  BY Zenon, <1>2
<1> HIDE DEF x
<1> QED BY Zenon, <1>1, <1>2, <1>3, <1>4, <1>5, <1>6, <1>7, OneDataset

(* A dataset that is dirty afterwards has nothing else to show.            *)
LEMMA DirtyStep ==
  ASSUME ContainersInv, job = <<>>,
         NEW i \in DOMAIN dsets, NEW e \in DatasetRecords, NEW w \in SUBSET Shapes,
         dsets' = [dsets EXCEPT ![i] = e], e.id = dsets[i].id, e.status = "DIRTY",
         UNCHANGED <<files, job, failed, hurt>>,
         cont' \in {cont, [cont EXCEPT !.status = "DIRTY"]},
         unmarked \subseteq unmarked',
         e.name = dsets[i].name \/ cont'.status = "DIRTY" \/ "c" \in unmarked',
         written' = [written EXCEPT ![e.id] = w], w \subseteq e.frags
  PROVE  ContainersInv'
BY Zenon, MemoryStep

(* A dataset whose status, fragments and references stay, and its other    *)
(* contents too if it is not marked as changed.                            *)
LEMMA SameStatusStep ==
  ASSUME ContainersInv, job = <<>>,
         NEW i \in DOMAIN dsets, NEW e \in DatasetRecords,
         dsets' = [dsets EXCEPT ![i] = e], e.id = dsets[i].id, e.status = dsets[i].status,
         e.refcount > 0 => dsets[i].refcount > 0 \/ dsets[i].status # "NOT_LOADED",
         e.frags = dsets[i].frags,
         UNCHANGED <<files, job, failed, written, hurt>>,
         cont' \in {cont, [cont EXCEPT !.status = "DIRTY"]},
         unmarked \subseteq unmarked',
         e.name = dsets[i].name \/ cont'.status = "DIRTY" \/ "c" \in unmarked',
         e.id \in unmarked' \/ DatasetMetadata(e) = DatasetMetadata(dsets[i])
  PROVE  ContainersInv'
<1>1. TypeInv /\ SavedInv /\ KeptInv /\ LoadedInv /\ ResolveInv /\ cont # None /\ e.id \in Ids
  BY DEF ContainersInv, TypeInv, DatasetRecords
<1>2. \A f : ~Pending(f)
  BY Zenon DEF Pending
<1> DEFINE w == written[e.id]
<1>3. w \in SUBSET Shapes /\ written' = [written EXCEPT ![e.id] = w]
  BY Zenon, <1>1 DEF TypeInv
<1>4. e.status = "PERSISTENT" /\ e.id \notin unmarked' \cup failed =>
        dfile[e.id] = DatasetMetadata(e)
  BY Zenon, <1>1, <1>2 DEF SavedInv
<1>5. /\ e.status # "NOT_LOADED" => w \subseteq e.frags
      /\ e.status # "DIRTY" => w \subseteq OnDisk(dfile[e.id])
  BY Zenon, <1>1, <1>2 DEF KeptInv
<1>6. e.status # "DIRTY" /\ ~hurt => IsContent(dfile[e.id])
  BY Zenon, <1>1, <1>2 DEF ResolveInv
<1>7. e.refcount > 0 => e.status # "NOT_LOADED"
  BY Zenon, <1>1 DEF LoadedInv
<1> HIDE DEF w
<1> QED BY Zenon, <1>3, <1>4, <1>5, <1>6, <1>7, MemoryStep

-----------------------------------------------------------------------------
(* The calls on one dataset keep the invariant.                            *)

(* What is known of a dataset that the application holds.                  *)
LEMMA OpenDataset ==
  ASSUME ContainersInv, NEW i \in DOMAIN dsets
  PROVE  /\ dsets[i] \in DatasetRecords /\ dsets[i].id \in Ids /\ cont # None
         /\ cont \in ContainerRecords
         /\ dfile[dsets[i].id] \in DatasetContents \cup {Absent, Torn}
         /\ written[dsets[i].id] \in SUBSET Shapes
         /\ written = [written EXCEPT ![dsets[i].id] = @]
<1>1. TypeInv
  BY Zenon DEF ContainersInv
<1>2. dsets[i] \in DatasetRecords /\ cont # None /\ cont \in ContainerRecords
  BY <1>1 DEF TypeInv
<1>3. dsets[i].id \in Ids
  BY Zenon, <1>2 DEF DatasetRecords
<1> QED BY Zenon, <1>1, <1>2, <1>3 DEF TypeInv

LEMMA LinkAttributeKeeps ==
  ASSUME ContainersInv, NEW i \in DOMAIN dsets, DatasetLinkAttribute(i)
  PROVE  ContainersInv'
<1> DEFINE e == [dsets[i] EXCEPT !.attr = TRUE, !.status = "DIRTY"]
           w == written[dsets[i].id]
<1>1. /\ e \in DatasetRecords /\ e.id = dsets[i].id /\ e.status = "DIRTY"
      /\ e.name = dsets[i].name /\ e.frags = dsets[i].frags
  BY Zenon, OpenDataset DEF DatasetRecords
<1>2. dsets[i].status # "NOT_LOADED"
  BY Zenon DEF ContainersInv, LoadedInv, DatasetLinkAttribute, Open
<1>3. w \in SUBSET Shapes /\ w \subseteq e.frags
  BY Zenon, OpenDataset, <1>1, <1>2 DEF ContainersInv, KeptInv
<1>4. /\ job = <<>> /\ dsets' = [dsets EXCEPT ![i] = e] /\ written' = [written EXCEPT ![e.id] = w]
      /\ UNCHANGED <<files, job, failed, hurt>> /\ cont' = cont /\ unmarked' = unmarked
  BY Zenon, OpenDataset, <1>1 DEF DatasetLinkAttribute, Open, history
<1> HIDE DEF e, w
<1> QED BY Zenon, <1>1, <1>3, <1>4, DirtyStep

LEMMA NameDimsKeeps ==
  ASSUME ContainersInv, NEW i \in DOMAIN dsets, NameDims(i)
  PROVE  ContainersInv'
<1> DEFINE e == [dsets[i] EXCEPT !.dims = TRUE, !.status = "DIRTY"]
           w == written[dsets[i].id]
<1>1. /\ e \in DatasetRecords /\ e.id = dsets[i].id /\ e.status = "DIRTY"
      /\ e.name = dsets[i].name /\ e.frags = dsets[i].frags
  BY Zenon, OpenDataset DEF DatasetRecords
<1>2. dsets[i].status # "NOT_LOADED"
  BY Zenon DEF ContainersInv, LoadedInv, NameDims, Open
<1>3. w \in SUBSET Shapes /\ w \subseteq e.frags
  BY Zenon, OpenDataset, <1>1, <1>2 DEF ContainersInv, KeptInv
<1>4. /\ job = <<>> /\ dsets' = [dsets EXCEPT ![i] = e] /\ written' = [written EXCEPT ![e.id] = w]
      /\ UNCHANGED <<files, job, failed, hurt>> /\ unmarked' = unmarked
      /\ cont' = [cont EXCEPT !.status = "DIRTY"]
  BY Zenon, OpenDataset, <1>1 DEF NameDims, Open, history
<1> HIDE DEF e, w
<1> QED BY Zenon, <1>1, <1>3, <1>4, DirtyStep

LEMMA ChangeNameKeeps ==
  ASSUME ContainersInv, NEW i \in DOMAIN dsets, NEW name \in Names, ChangeName(i, name)
  PROVE  ContainersInv'
<1> DEFINE e == [dsets[i] EXCEPT !.name = name, !.status = "DIRTY"]
           w == written[dsets[i].id]
<1>1. /\ e \in DatasetRecords /\ e.id = dsets[i].id /\ e.status = "DIRTY"
      /\ e.frags = dsets[i].frags
  BY Zenon, OpenDataset DEF DatasetRecords
<1>2. dsets[i].status # "NOT_LOADED"
  BY Zenon DEF ContainersInv, LoadedInv, ChangeName, Open
<1>3. w \in SUBSET Shapes /\ w \subseteq e.frags
  BY Zenon, OpenDataset, <1>1, <1>2 DEF ContainersInv, KeptInv
<1>4. /\ job = <<>> /\ dsets' = [dsets EXCEPT ![i] = e] /\ written' = [written EXCEPT ![e.id] = w]
      /\ UNCHANGED <<files, job, failed, hurt>> /\ cont' = cont
      /\ unmarked \subseteq unmarked' /\ "c" \in unmarked'
  BY Zenon, OpenDataset, <1>1 DEF ChangeName, Open
<1> HIDE DEF e, w
<1> QED BY Zenon, <1>1, <1>3, <1>4, DirtyStep

LEMMA WriteFragmentKeeps ==
  ASSUME ContainersInv, NEW i \in DOMAIN dsets, NEW shape \in Shapes, WriteFragment(i, shape)
  PROVE  ContainersInv'
<1>1. dsets[i].status # "NOT_LOADED"
  BY Zenon DEF ContainersInv, LoadedInv, WriteFragment, Open
<1>2. written[dsets[i].id] \subseteq dsets[i].frags
  BY Zenon, <1>1 DEF ContainersInv, KeptInv
<1>3. /\ job = <<>> /\ UNCHANGED <<files, job, failed, hurt>> /\ unmarked' = unmarked
      /\ cont' = [cont EXCEPT !.status = "DIRTY"]
  BY Zenon DEF WriteFragment, Open
<1>4. CASE /\ dsets' = [dsets EXCEPT ![i].frags = @ \cup {shape}, ![i].status = "DIRTY"]
           /\ written' = [written EXCEPT ![dsets[i].id] = @ \cup {shape}]
  <2> DEFINE e == [dsets[i] EXCEPT !.frags = @ \cup {shape}, !.status = "DIRTY"]
             w == written[dsets[i].id] \cup {shape}
  <2>1. /\ e \in DatasetRecords /\ e.id = dsets[i].id /\ e.status = "DIRTY"
        /\ e.name = dsets[i].name /\ e.frags = dsets[i].frags \cup {shape}
    BY Zenon, OpenDataset DEF DatasetRecords
  <2>2. w \in SUBSET Shapes /\ w \subseteq e.frags
    BY Zenon, OpenDataset, <2>1, <1>2
  <2>3. dsets' = [dsets EXCEPT ![i] = e] /\ written' = [written EXCEPT ![e.id] = w]
    BY Zenon, <1>4, <2>1
  <2> HIDE DEF e, w
  <2> QED BY Zenon, <1>3, <2>1, <2>2, <2>3, DirtyStep
<1>5. CASE /\ dsets' = [dsets EXCEPT ![i].unwritten = @ \cup {shape}, ![i].status = "DIRTY"]
           /\ UNCHANGED written
  <2> DEFINE e == [dsets[i] EXCEPT !.unwritten = @ \cup {shape}, !.status = "DIRTY"]
             w == written[dsets[i].id]
  <2>1. /\ e \in DatasetRecords /\ e.id = dsets[i].id /\ e.status = "DIRTY"
        /\ e.name = dsets[i].name /\ e.frags = dsets[i].frags
    BY Zenon, OpenDataset DEF DatasetRecords
  <2>2. w \in SUBSET Shapes /\ w \subseteq e.frags
    BY Zenon, OpenDataset, <2>1, <1>2
  <2>3. dsets' = [dsets EXCEPT ![i] = e] /\ written' = [written EXCEPT ![e.id] = w]
    BY Zenon, <1>5, <2>1, OpenDataset
  <2> HIDE DEF e, w
  <2> QED BY Zenon, <1>3, <2>1, <2>2, <2>3, DirtyStep
<1> QED BY Zenon, <1>4, <1>5 DEF WriteFragment

LEMMA DeleteAttributeKeeps ==
  ASSUME ContainersInv, NEW i \in DOMAIN dsets, DatasetDeleteAttribute(i)
  PROVE  ContainersInv'
<1> DEFINE e == [dsets[i] EXCEPT !.attr = FALSE]
<1>1. /\ e \in DatasetRecords /\ e.id = dsets[i].id /\ e.status = dsets[i].status
      /\ e.name = dsets[i].name /\ e.frags = dsets[i].frags /\ e.refcount = dsets[i].refcount
  BY Zenon, OpenDataset DEF DatasetRecords
<1>2. /\ job = <<>> /\ dsets' = [dsets EXCEPT ![i] = e]
      /\ UNCHANGED <<files, job, failed, written, hurt>> /\ cont' = cont
      /\ unmarked \subseteq unmarked' /\ e.id \in unmarked'
  BY <1>1 DEF DatasetDeleteAttribute, Open, Unmarked
<1> HIDE DEF e
<1> QED BY Zenon, <1>1, <1>2, SameStatusStep

LEMMA SetFillValueKeeps ==
  ASSUME ContainersInv, NEW i \in DOMAIN dsets, SetFillValue(i)
  PROVE  ContainersInv'
<1> DEFINE e == [dsets[i] EXCEPT !.fill = TRUE]
<1>1. /\ e \in DatasetRecords /\ e.id = dsets[i].id /\ e.status = dsets[i].status
      /\ e.name = dsets[i].name /\ e.frags = dsets[i].frags /\ e.refcount = dsets[i].refcount
  BY Zenon, OpenDataset DEF DatasetRecords
<1>2. /\ job = <<>> /\ dsets' = [dsets EXCEPT ![i] = e]
      /\ UNCHANGED <<files, job, failed, written, hurt>> /\ cont' = cont
      /\ unmarked \subseteq unmarked' /\ e.id \in unmarked'
  BY <1>1 DEF SetFillValue, Open, Unmarked
<1> HIDE DEF e
<1> QED BY Zenon, <1>1, <1>2, SameStatusStep

LEMMA RenameKeeps ==
  ASSUME ContainersInv, NEW i \in DOMAIN dsets, NEW name \in Names, Rename(i, name)
  PROVE  ContainersInv'
<1> DEFINE e == [dsets[i] EXCEPT !.name = name]
<1>1. /\ e \in DatasetRecords /\ e.id = dsets[i].id /\ e.status = dsets[i].status
      /\ e.frags = dsets[i].frags /\ e.refcount = dsets[i].refcount
      /\ DatasetMetadata(e) = DatasetMetadata(dsets[i])
  BY Zenon, OpenDataset DEF DatasetRecords, DatasetMetadata
<1>2. /\ job = <<>> /\ dsets' = [dsets EXCEPT ![i] = e]
      /\ UNCHANGED <<files, job, failed, written, hurt>>
      /\ cont' = [cont EXCEPT !.status = "DIRTY"] /\ unmarked' = unmarked
  BY Zenon, <1>1 DEF Rename, Open, history
<1>3. cont'.status = "DIRTY"
  BY Zenon, <1>2, OpenDataset DEF ContainerRecords
<1> HIDE DEF e
<1> QED BY Zenon, <1>1, <1>2, <1>3, SameStatusStep

(* A dataset with another value in one of its fields.                      *)
LEMMA FieldUpdates ==
  ASSUME NEW d \in DatasetRecords
  PROVE  /\ \A v \in Nat : [d EXCEPT !.refcount = v] \in DatasetRecords
         /\ \A v \in {"DIRTY", "PERSISTENT", "NOT_LOADED", "DELETED"} :
              [d EXCEPT !.status = v] \in DatasetRecords
         /\ \A v \in BOOLEAN : /\ [d EXCEPT !.attr = v] \in DatasetRecords
                               /\ [d EXCEPT !.fill = v] \in DatasetRecords
                               /\ [d EXCEPT !.dims = v] \in DatasetRecords
         /\ \A v \in SUBSET Shapes : [d EXCEPT !.frags = v] \in DatasetRecords
BY Zenon DEF DatasetRecords

(* What esdm_dataset_close() makes of a dataset that is not dirty.         *)
LEMMA ClosedFacts ==
  ASSUME NEW d \in DatasetRecords, d.refcount > 0, d.status # "NOT_LOADED"
  PROVE  /\ Closed(d) \in DatasetRecords
         /\ Closed(d).id = d.id /\ Closed(d).name = d.name
         /\ Closed(d).refcount > 0 => Closed(d).status # "NOT_LOADED"
         /\ Closed(d).status # "NOT_LOADED" =>
              /\ Closed(d).status = d.status /\ Closed(d).frags = d.frags
              /\ DatasetMetadata(Closed(d)) = DatasetMetadata(d)
         /\ Closed(d).status = "NOT_LOADED" => d.status # "DIRTY"
<1>1. CASE d.refcount > 1 \/ d.status = "DIRTY"
  <2>1. Closed(d) = [d EXCEPT !.refcount = @ - 1]
    BY Zenon, <1>1 DEF Closed
  <2>2. d.refcount - 1 \in Nat
    BY DEF DatasetRecords
  <2>3. Closed(d) \in DatasetRecords
    BY Zenon, <2>1, <2>2 DEF DatasetRecords
  <2>4. /\ Closed(d).id = d.id /\ Closed(d).name = d.name /\ Closed(d).status = d.status
        /\ Closed(d).frags = d.frags
        /\ DatasetMetadata(Closed(d)) = DatasetMetadata(d)
    BY Zenon, <2>1 DEF DatasetRecords, DatasetMetadata
  <2> QED BY Zenon, <2>3, <2>4
<1>2. CASE ~(d.refcount > 1 \/ d.status = "DIRTY")
  <2>1. Closed(d) = [d EXCEPT !.refcount = 0, !.status = "NOT_LOADED", !.attr = FALSE, !.frags = {}]
    BY Zenon, <1>2 DEF Closed
  <2>2. Closed(d) \in DatasetRecords
    <3> DEFINE d1 == [d EXCEPT !.refcount = 0]
               d2 == [d1 EXCEPT !.status = "NOT_LOADED"]
               d3 == [d2 EXCEPT !.attr = FALSE]
               d4 == [d3 EXCEPT !.frags = {}]
    <3>1. d1 \in DatasetRecords
      BY Zenon, FieldUpdates
    <3> HIDE DEF d1
    <3>2. d2 \in DatasetRecords
      BY Zenon, <3>1, FieldUpdates
    <3> HIDE DEF d2
    <3>3. d3 \in DatasetRecords
      BY Zenon, <3>2, FieldUpdates
    <3> HIDE DEF d3
    <3>4. d4 \in DatasetRecords
      BY Zenon, <3>3, FieldUpdates
    <3> QED BY Zenon, <2>1, <3>4 DEF d1, d2, d3
  <2>3. /\ Closed(d).id = d.id /\ Closed(d).name = d.name
        /\ Closed(d).status = "NOT_LOADED" /\ Closed(d).refcount = 0
    BY Zenon, <2>1 DEF DatasetRecords
  <2> QED BY <1>2, <2>2, <2>3
<1> QED BY Zenon, <1>1, <1>2

LEMMA DatasetCloseKeeps ==
  ASSUME ContainersInv, NEW i \in DOMAIN dsets, DatasetClose(i)
  PROVE  ContainersInv'
<1> DEFINE e == Closed(dsets[i])
           w == written[dsets[i].id]
<1>1. /\ dsets[i] \in DatasetRecords /\ dsets[i].refcount > 0 /\ dsets[i].status # "NOT_LOADED"
      /\ SavedInv /\ KeptInv /\ ResolveInv /\ cont # None /\ job = <<>>
  BY Zenon, OpenDataset DEF DatasetClose, Open, ContainersInv, LoadedInv
<1>2. \A f : ~Pending(f)
  BY Zenon, <1>1 DEF Pending
<1>3. /\ dsets' = [dsets EXCEPT ![i] = e] /\ written' = [written EXCEPT ![e.id] = w]
      /\ UNCHANGED <<files, job, failed, hurt>> /\ cont' = cont /\ unmarked' = unmarked
  BY Zenon, OpenDataset, ClosedFacts, <1>1 DEF DatasetClose, history
<1>4. /\ e \in DatasetRecords /\ e.id = dsets[i].id /\ e.name = dsets[i].name
      /\ e.refcount > 0 => e.status # "NOT_LOADED"
  BY Zenon, ClosedFacts, <1>1
<1>5. e.status = "PERSISTENT" /\ e.id \notin unmarked' \cup failed =>
        dfile[e.id] = DatasetMetadata(e)
  BY ClosedFacts, <1>1, <1>2, <1>3 DEF SavedInv
<1>6. /\ w \in SUBSET Shapes
      /\ e.status # "NOT_LOADED" => w \subseteq e.frags
      /\ e.status # "DIRTY" => w \subseteq OnDisk(dfile[e.id])
  BY OpenDataset, ClosedFacts, <1>1, <1>2 DEF KeptInv
<1>7. e.status # "DIRTY" /\ ~hurt => IsContent(dfile[e.id])
  BY Zenon, ClosedFacts, <1>1, <1>2 DEF ResolveInv
<1> HIDE DEF e, w
<1> QED BY Zenon, <1>1, <1>3, <1>4, <1>5, <1>6, <1>7, MemoryStep

(* What loading a dataset makes of it.                                     *)
LEMMA LoadedFacts ==
  ASSUME NEW d \in DatasetRecords, dfile[d.id] \in DatasetContents
  PROVE  /\ Loaded(d) \in DatasetRecords
         /\ Loaded(d).id = d.id /\ Loaded(d).name = d.name /\ Loaded(d).status = "PERSISTENT"
         /\ Loaded(d).frags = dfile[d.id].frags /\ Loaded(d).unwritten = d.unwritten
         /\ Loaded(d).refcount = d.refcount + 1
         /\ ~((d.fill /\ ~dfile[d.id].fill) \/ (d.dims /\ ~dfile[d.id].dims)) =>
              dfile[d.id] = DatasetMetadata(Loaded(d))
<1> DEFINE c == dfile[d.id]
<1>1. Loaded(d) = [d EXCEPT !.status = "PERSISTENT", !.refcount = @ + 1, !.attr = c.attr,
                           !.fill = @ \/ c.fill, !.dims = @ \/ c.dims, !.frags = c.frags]
  BY Zenon DEF Loaded
<1>2. c \in DatasetContents
  BY Zenon
<1> HIDE DEF c
<1>3. /\ Loaded(d).id = d.id /\ Loaded(d).name = d.name /\ Loaded(d).status = "PERSISTENT"
      /\ Loaded(d).frags = c.frags /\ Loaded(d).unwritten = d.unwritten
      /\ Loaded(d).refcount = d.refcount + 1 /\ Loaded(d).attr = c.attr
  BY Zenon, <1>1 DEF DatasetRecords
<1>31. Loaded(d).fill = (d.fill \/ c.fill)
  BY Zenon, <1>1 DEF DatasetRecords
<1>32. Loaded(d).dims = (d.dims \/ c.dims)
  BY Zenon, <1>1 DEF DatasetRecords
<1>4. Loaded(d) \in DatasetRecords
  <2> DEFINE fill == d.fill \/ c.fill
             dims == d.dims \/ c.dims
  <2>1. fill \in BOOLEAN /\ dims \in BOOLEAN
    BY Zenon
  <2>2. Loaded(d) = [d EXCEPT !.status = "PERSISTENT", !.refcount = @ + 1, !.attr = c.attr,
                             !.fill = fill, !.dims = dims, !.frags = c.frags]
    BY Zenon, <1>1
  <2>3. c.attr \in BOOLEAN /\ c.frags \in SUBSET Shapes
    BY Zenon, <1>2 DEF DatasetContents
  <2> HIDE DEF fill, dims
  <2> DEFINE d1 == [d EXCEPT !.status = "PERSISTENT"]
             d2 == [d1 EXCEPT !.refcount = @ + 1]
             d3 == [d2 EXCEPT !.attr = c.attr]
             d4 == [d3 EXCEPT !.fill = fill]
             d5 == [d4 EXCEPT !.dims = dims]
             d6 == [d5 EXCEPT !.frags = c.frags]
  <2>4. d1 \in DatasetRecords
    BY Zenon, FieldUpdates
  <2> HIDE DEF d1
  <2>5. d2 \in DatasetRecords
    BY <2>4 DEF DatasetRecords
  <2> HIDE DEF d2
  <2>6. d3 \in DatasetRecords
    BY Zenon, <2>3, <2>5, FieldUpdates
  <2> HIDE DEF d3
  <2>7. d4 \in DatasetRecords
    BY Zenon, <2>1, <2>6, FieldUpdates
  <2> HIDE DEF d4
  <2>8. d5 \in DatasetRecords
    BY Zenon, <2>1, <2>7, FieldUpdates
  <2> HIDE DEF d5
  <2>9. d6 \in DatasetRecords
    BY Zenon, <2>3, <2>8, FieldUpdates
  <2> QED BY <2>2, <2>9 DEF d1, d2, d3, d4, d5
<1>5. ASSUME ~((d.fill /\ ~c.fill) \/ (d.dims /\ ~c.dims))
      PROVE  c = DatasetMetadata(Loaded(d))
  <2>1. Loaded(d).fill = c.fill /\ Loaded(d).dims = c.dims
    BY Zenon, <1>2, <1>31, <1>32, <1>5 DEF DatasetRecords, DatasetContents
  <2> QED BY Zenon, <1>2, <1>3, <2>1 DEF DatasetContents, DatasetMetadata
<1> QED BY Zenon, <1>3, <1>4, <1>5 DEF c

LEMMA DatasetRefKeeps ==
  ASSUME ContainersInv, NEW i \in DOMAIN dsets, DatasetRef(i)
  PROVE  ContainersInv'
<1> DEFINE d == dsets[i]
<1>1. /\ d \in DatasetRecords /\ SavedInv /\ KeptInv /\ ResolveInv /\ cont # None /\ job = <<>>
      /\ dfile[d.id] \in DatasetContents \cup {Absent, Torn} /\ d.id \in Ids
      /\ cont \in ContainerRecords
  BY Zenon, OpenDataset DEF DatasetRef, Idle, ContainersInv
<1>2. \A f : ~Pending(f)
  BY Zenon, <1>1 DEF Pending
<1>3. CASE /\ dsets[i].status # "NOT_LOADED"
           /\ dsets' = [dsets EXCEPT ![i].refcount = @ + 1] /\ UNCHANGED <<cont, unmarked>>
  <2> DEFINE e == [d EXCEPT !.refcount = @ + 1]
  <2>1. /\ e \in DatasetRecords /\ e.id = d.id /\ e.status = d.status /\ e.name = d.name
        /\ e.frags = d.frags /\ DatasetMetadata(e) = DatasetMetadata(d)
    BY <1>1 DEF DatasetRecords, DatasetMetadata
  <2>2. /\ dsets' = [dsets EXCEPT ![i] = e] /\ cont' = cont /\ unmarked' = unmarked
        /\ UNCHANGED <<files, job, failed, written, hurt>>
    BY Zenon, <1>3 DEF DatasetRef
  <2> HIDE DEF e
  <2> QED BY Zenon, <1>1, <1>3, <2>1, <2>2, SameStatusStep
<1>4. CASE /\ dsets[i].status = "NOT_LOADED" /\ IsContent(dfile[dsets[i].id])
           /\ DatasetOpenMdParse(i)
  <2> DEFINE e == Loaded(d)
             w == written[d.id]
  <2>1. dfile[d.id] \in DatasetContents
    BY Zenon, <1>1, <1>4 DEF IsContent
  <2>2. /\ e \in DatasetRecords /\ e.id = d.id /\ e.name = d.name /\ e.status = "PERSISTENT"
        /\ e.frags = dfile[d.id].frags
    BY Zenon, LoadedFacts, <1>1, <2>1
  <2>3. /\ dsets' = [dsets EXCEPT ![i] = e] /\ unmarked \subseteq unmarked'
        /\ cont' \in {cont, [cont EXCEPT !.status = "DIRTY"]}
        /\ UNCHANGED <<files, job, failed, hurt>>
    BY Zenon, <1>4 DEF DatasetOpenMdParse, DatasetRef
  <2>4. w \in SUBSET Shapes /\ written' = [written EXCEPT ![e.id] = w]
    BY Zenon, OpenDataset, <2>2 DEF DatasetRef
  <2>5. e.id \notin unmarked' => dfile[e.id] = DatasetMetadata(e)
    BY Zenon, LoadedFacts, <1>1, <1>4, <2>1, <2>2 DEF DatasetOpenMdParse
  <2>6. w \subseteq OnDisk(dfile[e.id]) /\ OnDisk(dfile[e.id]) = e.frags
    BY Zenon, <1>1, <1>2, <1>4, <2>2 DEF KeptInv, OnDisk
  <2>7. /\ e.refcount > 0 => e.status # "NOT_LOADED"
        /\ e.status = "PERSISTENT" /\ e.id \notin unmarked' \cup failed =>
             dfile[e.id] = DatasetMetadata(e)
        /\ e.status # "NOT_LOADED" => w \subseteq e.frags
        /\ e.status # "DIRTY" => w \subseteq OnDisk(dfile[e.id])
        /\ e.status # "DIRTY" /\ ~hurt => IsContent(dfile[e.id])
    BY Zenon, <1>4, <2>2, <2>5, <2>6
  <2> HIDE DEF e, w
  <2> QED BY Zenon, <1>1, <2>2, <2>3, <2>4, <2>7, MemoryStep
<1> QED BY Zenon, <1>3, <1>4 DEF DatasetRef

-----------------------------------------------------------------------------
(* Deletions keep the invariant.                                           *)

LEMMA DeleteDatasetKeeps ==
  ASSUME ContainersInv, NEW i \in DOMAIN dsets, DeleteDataset(i), hurt' = TRUE,
         \A n \in DOMAIN job : job[n].step \notin FileSteps,
         job' \in Seq(Entries),
         \A n \in DOMAIN job' : \E m \in DOMAIN job : job'[n] = job[m]
  PROVE  ContainersInv'
<1> DEFINE d == IF dsets[i].status = "NOT_LOADED" THEN Loaded(dsets[i]) ELSE dsets[i]
           id == dsets[i].id
<1>1. /\ dsets[i] \in DatasetRecords /\ KeptInv /\ cont # None /\ cont \in ContainerRecords
      /\ dfile[id] \in DatasetContents \cup {Absent, Torn} /\ id \in Ids
      /\ written[id] \in SUBSET Shapes /\ dfile \in [Ids -> DatasetContents \cup {Absent, Torn}]
  BY Zenon, OpenDataset DEF ContainersInv, TypeInv
<1>2. \A f : ~Pending(f)
  BY DEF ContainersInv, JobInv, Pending
<1>3. /\ dsets[i].status # "NOT_LOADED" => written[id] \subseteq dsets[i].frags
      /\ dsets[i].status # "DIRTY" => written[id] \subseteq OnDisk(dfile[id])
  BY Zenon, <1>1, <1>2 DEF KeptInv
<1>4. /\ d \in DatasetRecords /\ d.id = id /\ d.name = dsets[i].name /\ d.status # "NOT_LOADED"
      /\ written[id] \subseteq d.frags
      /\ d.status # "DIRTY" => written[id] \subseteq OnDisk(dfile[id])
  <2>1. CASE dsets[i].status = "NOT_LOADED"
    <3>1. dfile[id] \in DatasetContents /\ IsContent(dfile[id])
      BY Zenon, <1>1, <2>1 DEF DeleteDataset, LoadFails, IsContent
    <3>2. /\ d \in DatasetRecords /\ d.id = id /\ d.name = dsets[i].name
          /\ d.status = "PERSISTENT" /\ d.frags = dfile[id].frags
      BY Zenon, <1>1, <2>1, <3>1, LoadedFacts
    <3> QED BY Zenon, <1>3, <2>1, <3>1, <3>2 DEF OnDisk
  <2>2. CASE dsets[i].status # "NOT_LOADED"
    BY Zenon, <1>1, <1>3, <2>2
  <2> QED BY Zenon, <2>1, <2>2
<1>5. /\ unmarked' = unmarked \cup {d.id} /\ cfile' = cfile /\ failed' = failed
      /\ cont' \in {cont, [cont EXCEPT !.status = "DIRTY"]}
      /\ \/ \E left \in SUBSET d.frags :
              /\ dsets' = [dsets EXCEPT ![i] = [d EXCEPT !.frags = left]]
              /\ written' = [written EXCEPT ![d.id] = @ \cap left] /\ dfile' = dfile
         \/ /\ d.refcount > 0 /\ dfile' = [dfile EXCEPT ![d.id] = Absent]
            /\ dsets' = [dsets EXCEPT ![i] = Closed([d EXCEPT !.status = "DELETED", !.frags = {}])]
            /\ written' = [written EXCEPT ![d.id] = {}]
  BY Zenon DEF DeleteDataset, RemoveDatasetFile
<1>6. /\ cont' \in ContainerRecords /\ cont'.attr = cont.attr
      /\ cont'.status \in {cont.status, "DIRTY"}
  BY Zenon, <1>1, <1>5 DEF ContainerRecords
<1> HIDE DEF d
<1>7. ASSUME NEW left \in SUBSET d.frags,
             dsets' = [dsets EXCEPT ![i] = [d EXCEPT !.frags = left]],
             written' = [written EXCEPT ![d.id] = @ \cap left], dfile' = dfile
      PROVE  ContainersInv'
  <2> DEFINE e == [d EXCEPT !.frags = left]
             w == written[id] \cap left
             x == dfile[id]
  <2>1. /\ e \in DatasetRecords /\ e.id = id /\ e.name = dsets[i].name /\ e.status = d.status
        /\ e.frags = left
    BY Zenon, <1>4 DEF DatasetRecords
  <2>2. /\ x \in DatasetContents \cup {Absent, Torn} /\ dfile' = [dfile EXCEPT ![e.id] = x]
        /\ w \in SUBSET Shapes /\ written' = [written EXCEPT ![e.id] = w]
        /\ dsets' = [dsets EXCEPT ![i] = e]
    BY Zenon, <1>1, <1>4, <1>7, <2>1
  <2>3. /\ e.status = "PERSISTENT" /\ e.id \notin unmarked' \cup failed => x = DatasetMetadata(e)
        /\ e.refcount > 0 => e.status # "NOT_LOADED"
        /\ e.status # "NOT_LOADED" => w \subseteq e.frags
        /\ e.status # "DIRTY" => w \subseteq OnDisk(x)
        /\ unmarked \subseteq unmarked'
    BY <1>4, <1>5, <2>1
  <2> HIDE DEF e, w, x
  <2> QED BY Zenon, <1>1, <1>5, <1>6, <2>1, <2>2, <2>3, OneDataset
<1>8. ASSUME d.refcount > 0, dfile' = [dfile EXCEPT ![d.id] = Absent],
             dsets' = [dsets EXCEPT ![i] = Closed([d EXCEPT !.status = "DELETED", !.frags = {}])],
             written' = [written EXCEPT ![d.id] = {}]
      PROVE  ContainersInv'
  <2> DEFINE g == [d EXCEPT !.status = "DELETED", !.frags = {}]
             e == Closed(g)
  <2>1. /\ g \in DatasetRecords /\ g.id = id /\ g.name = dsets[i].name
        /\ g.status = "DELETED" /\ g.refcount = d.refcount
    BY Zenon, <1>4 DEF DatasetRecords
  <2> HIDE DEF g
  <2>2. /\ e \in DatasetRecords /\ e.id = id /\ e.name = dsets[i].name
        /\ e.refcount > 0 => e.status # "NOT_LOADED"
        /\ e.status # "PERSISTENT"
    BY Zenon, <1>8, <2>1, ClosedFacts
  <2>3. /\ dfile' = [dfile EXCEPT ![e.id] = Absent] /\ written' = [written EXCEPT ![e.id] = {}]
        /\ dsets' = [dsets EXCEPT ![i] = e] /\ unmarked \subseteq unmarked'
        /\ {} \subseteq e.frags /\ {} \subseteq OnDisk(Absent) /\ {} \in SUBSET Shapes
        /\ Absent \in DatasetContents \cup {Absent, Torn}
    BY Zenon, <1>4, <1>5, <1>8, <2>2 DEF g
  <2> HIDE DEF e
  <2> QED BY Zenon, <1>1, <1>5, <1>6, <2>2, <2>3, OneDataset
<1> QED BY Zenon, <1>5, <1>7, <1>8

LEMMA DeleteDiesKeeps ==
  ASSUME ContainersInv, NEW i \in DOMAIN dsets, DeleteDies(i)
  PROVE  ContainersInv'
<1>1. /\ dfile \in [Ids -> DatasetContents \cup {Absent, Torn}] /\ dsets[i].id \in Ids
  BY Zenon, OpenDataset DEF ContainersInv, TypeInv
<1>2. dfile' \in [Ids -> DatasetContents \cup {Absent, Torn}] /\ cfile' = cfile
  BY Zenon, <1>1 DEF DeleteDies, RemoveDatasetFile
<1> QED BY Zenon, <1>2, Forgotten DEF DeleteDies

LEMMA DatasetDeleteKeeps ==
  ASSUME ContainersInv, NEW i \in DOMAIN dsets, DatasetDelete(i)
  PROVE  ContainersInv'
<1>1. CASE DeleteDataset(i) /\ hurt' = TRUE /\ Change /\ UNCHANGED job
  <2>1. job = <<>> /\ job' = <<>> /\ job' \in Seq(Entries)
    BY <1>1 DEF DatasetDelete, Idle
  <2>2. /\ \A n \in DOMAIN job : job[n].step \notin FileSteps
        /\ \A n \in DOMAIN job' : \E m \in DOMAIN job : job'[n] = job[m]
    BY <2>1
  <2> QED BY Zenon, <1>1, <2>1, <2>2, DeleteDatasetKeeps
<1>2. CASE DeleteDies(i)
  BY Zenon, <1>2, DeleteDiesKeeps
<1> QED BY Zenon, <1>1, <1>2 DEF DatasetDelete

(* An entry of a job that has nothing to do is dropped, or the job ends.   *)
LEMMA DropEntry ==
  ASSUME ContainersInv, job # <<>>, job[1].step \notin FileSteps,
         job' = Tail(job) \/ (job' = <<>> /\ hurt),
         hurt \/ (job[1].step = "dataset" /\ dsets[job[1].at].status # "DIRTY"),
         UNCHANGED <<files, memory, history>>
  PROVE  ContainersInv'
<1>0. /\ TypeInv /\ IdsDiffer /\ JobInv /\ SavedInv /\ KeptInv /\ LoadedInv /\ ResolveInv
      /\ UNCHANGED <<cfile, dfile, cont, dsets, unmarked, failed, written, hurt>>
  BY Zenon DEF ContainersInv, files, memory, history
<1>1. /\ job' \in Seq(Entries)
      /\ \A n \in DOMAIN job' : \E m \in DOMAIN job : m # 1 /\ job'[n] = job[m]
      /\ 1 \in DOMAIN job
  <2>1. job \in Seq(Entries)
    BY Zenon, <1>0 DEF JobInv
  <2>2. CASE job' = <<>>
    BY <2>1, <2>2, TailFacts
  <2>3. CASE job' = Tail(job)
    BY ZenonT(60), <2>1, <2>3, TailFacts
  <2> QED BY Zenon, <2>2, <2>3
<1>2. \A f : ~Pending(f)
  BY Zenon DEF Pending
<1>3. \A n \in DOMAIN job' : job'[n].step \notin FileSteps
  BY Zenon, <1>0, <1>1 DEF JobInv
<1>4. \A f : ~Pending(f)'
  BY <1>1, <1>3 DEF Pending
<1>5. TypeInv' /\ IdsDiffer' /\ LoadedInv'
  <2>1. cont # None
    BY Zenon, <1>0 DEF TypeInv
  <2> QED BY Zenon, <1>0, <2>1 DEF TypeInv, IdsDiffer, LoadedInv, IsContent
<1>6. JobInv'
  BY Zenon, <1>0, <1>1, <1>3 DEF JobInv
<1>7. SavedInv'
  BY Zenon, <1>0, <1>2 DEF SavedInv, ContainerMetadata
<1>8. KeptInv'
  BY Zenon, <1>0, <1>2 DEF KeptInv
<1>9. ResolveInv'
  <2> SUFFICES ASSUME ~hurt PROVE ResolveInv'
    BY Zenon, <1>0 DEF ResolveInv
  <2>1. job' = Tail(job) /\ job[1].step = "dataset" /\ dsets[job[1].at].status # "DIRTY"
    BY Zenon
  <2>2. ASSUME NEW id, Promised(id) PROVE Promised(id)'
    <3>1. PICK n \in DOMAIN job : /\ job[n].step = "dataset" /\ dsets[job[n].at].id = id
                                  /\ dsets[job[n].at].status = "DIRTY"
      BY Zenon, <1>2, <2>2 DEF Promised
    <3>2. n # 1
      BY Zenon, <2>1, <3>1
    <3>3. n - 1 \in DOMAIN job' /\ job'[n - 1] = job[n]
      BY <1>0, <2>1, <3>2, TailFacts DEF JobInv
    <3> QED BY Zenon, <1>0, <3>1, <3>3 DEF Promised
  <2>3. \A id : Good(id) => Good(id)'
    BY Zenon, <1>0, <2>2 DEF Good, IsContent
  <2> QED BY Zenon, <1>0, <1>2, <1>4, <2>3 DEF ResolveInv, IsContent
<1> QED BY Zenon, <1>5, <1>6, <1>7, <1>8, <1>9 DEF ContainersInv

LEMMA DeleteNextKeeps ==
  ASSUME ContainersInv, DeleteNext
  PROVE  ContainersInv'
<1>1. /\ job # <<>> /\ job[1].step = "delete" /\ Now = job[1] /\ 1 \in DOMAIN job /\ JobInv
  BY Zenon, TailFacts DEF ContainersInv, JobInv, DeleteNext, Now
<1>2. hurt /\ job[1].at \in DOMAIN dsets
  BY Zenon, <1>1 DEF JobInv
<1>3. \A n \in DOMAIN job : job[n].step \notin FileSteps
  BY Zenon, <1>1 DEF JobInv, FileSteps
<1>4. CASE /\ DeleteDataset(Now.at) /\ UNCHANGED <<budget, hurt>>
           /\ job' = IF Now.at = 1 /\ dfile' = dfile THEN <<>> ELSE Tail(job)
  <2>1. /\ job' \in Seq(Entries)
        /\ \A n \in DOMAIN job' : \E m \in DOMAIN job : job'[n] = job[m]
    <3>1. CASE job' = <<>>
      BY <3>1
    <3>2. CASE job' = Tail(job)
      BY <3>2, <1>1, TailFacts DEF JobInv
    <3> QED BY Zenon, <1>4, <3>1, <3>2
  <2>2. hurt' = TRUE
    BY Zenon, <1>2, <1>4 DEF ContainersInv, TypeInv
  <2> QED BY Zenon, <1>1, <1>2, <1>3, <1>4, <2>1, <2>2, DeleteDatasetKeeps
<1>5. CASE /\ LoadFails(dsets[Now.at]) /\ UNCHANGED <<files, memory, budget, history>>
           /\ job' = IF Now.at = 1 THEN <<>> ELSE Tail(job)
  BY Zenon, <1>1, <1>2, <1>3, <1>5, DropEntry
<1>6. CASE DeleteDies(Now.at)
  BY Zenon, <1>1, <1>2, <1>6, DeleteDiesKeeps
<1> QED BY Zenon, <1>4, <1>5, <1>6 DEF DeleteNext

LEMMA RemoveContainerKeeps ==
  ASSUME ContainersInv, RemoveContainer
  PROVE  ContainersInv'
<1>1. /\ job # <<>> /\ job[1].step = "remove" /\ 1 \in DOMAIN job /\ JobInv
  BY Zenon, TailFacts DEF ContainersInv, JobInv, RemoveContainer, Now
<1>2. hurt'
  BY Zenon, <1>1 DEF JobInv, RemoveContainer
<1>3. /\ cfile' = Absent /\ hurt' \in BOOLEAN
      /\ dfile' \in [Ids -> DatasetContents \cup {Absent, Torn}]
  BY Zenon DEF RemoveContainer, RemoveContainerFile, ContainersInv, TypeInv
<1> QED BY Zenon, <1>2, <1>3, Forgotten DEF RemoveContainer

-----------------------------------------------------------------------------
(* The steps of a commit keep the invariant.                               *)

LEMMA CommitDatasetKeeps ==
  ASSUME ContainersInv, CommitDataset
  PROVE  ContainersInv'
<1>0. /\ TypeInv /\ IdsDiffer /\ JobInv /\ SavedInv /\ KeptInv /\ LoadedInv /\ ResolveInv
  BY Zenon DEF ContainersInv
<1>1. /\ job # <<>> /\ job[1].step = "dataset" /\ Now = job[1] /\ 1 \in DOMAIN job
  BY <1>0, TailFacts DEF JobInv, CommitDataset, Now
<1> DEFINE i == job[1].at
           d == dsets[i]
<1>2. i \in DOMAIN dsets /\ \A f : ~Pending(f)
  BY Zenon, <1>0, <1>1 DEF JobInv, Pending, FileSteps
<1>3. CASE d.status # "DIRTY" /\ job' = Tail(job) /\ UNCHANGED <<files, memory, budget, history>>
  BY Zenon, <1>1, <1>3, DropEntry DEF FileSteps
<1>4. CASE Die /\ hurt' = TRUE
  BY Zenon, <1>0, <1>4, Forgotten DEF Die, TypeInv, files
<1>5. CASE /\ d.status = "DIRTY" /\ d.unwritten = {}
           /\ dsets' = [dsets EXCEPT ![i].status = "PERSISTENT"]
           /\ job' = <<DatasetEntry(d)>> \o Tail(job)
           /\ UNCHANGED <<files, cont, budget, history>>
  <2> DEFINE e == [d EXCEPT !.status = "PERSISTENT"]
             entry == DatasetEntry(d)
  <2>0. UNCHANGED <<cfile, dfile, cont, unmarked, failed, written, hurt>> /\ cont # None
    BY Zenon, <1>0, <1>1, <1>5 DEF files, history, TypeInv
  <2>1. /\ d \in DatasetRecords /\ e \in DatasetRecords /\ e.id = d.id /\ e.name = d.name
        /\ e.status = "PERSISTENT" /\ e.frags = d.frags /\ e.refcount = d.refcount
        /\ DatasetMetadata(e) = DatasetMetadata(d) /\ d.id \in Ids
    <3>1. d \in DatasetRecords
      BY <1>0, <1>2 DEF TypeInv
    <3> HIDE DEF d
    <3> QED BY Zenon, <3>1 DEF DatasetRecords, DatasetMetadata
  <2>2. /\ dsets' \in Seq(DatasetRecords) /\ DOMAIN dsets' = DOMAIN dsets
        /\ dsets'[i] = e /\ \A j \in DOMAIN dsets : j # i => dsets'[j] = dsets[j]
        /\ \A j \in DOMAIN dsets : dsets'[j].id = dsets[j].id /\ dsets'[j].name = dsets[j].name
    BY <1>0, <1>2, <1>5, <2>1 DEF TypeInv
  <2>3. /\ entry \in Entries /\ entry.step = "open" /\ entry.file = d.id
        /\ entry.content = DatasetMetadata(d) /\ d.id # "c"
    BY Zenon, <2>1, DatasetMetadataType, ContainersAssumption DEF DatasetEntry, Entries, FileSteps
  <2>4. /\ job' \in Seq(Entries) /\ 1 \in DOMAIN job' /\ job'[1] = entry
        /\ \A n \in DOMAIN job' : n # 1 => n \in DOMAIN job /\ job'[n] = job[n]
        /\ \A n \in DOMAIN job : n # 1 => n \in DOMAIN job' /\ job'[n] = job[n]
    <3>1. job \in Seq(Entries) /\ Tail(job) \in Seq(Entries)
      BY Zenon, <1>0, <1>1, TailFacts DEF JobInv
    <3> HIDE DEF entry
    <3> QED BY <1>1, <1>5, <2>3, <3>1 DEF entry
  <2>5. \A f : Pending(f)' <=> f = d.id
    BY <2>3, <2>4 DEF Pending, FileSteps
  <2>6. TypeInv' /\ IdsDiffer' /\ LoadedInv'
    BY ZenonT(60), <1>0, <2>0, <2>1, <2>2 DEF TypeInv, IdsDiffer, LoadedInv, IsContent
  <2>7. ContainerMetadata' = ContainerMetadata
    BY Zenon, <2>0, <2>2 DEF ContainerMetadata
  <2>8. JobInv'
    <3> SUFFICES ASSUME NEW n \in DOMAIN job'
                 PROVE  /\ job'[n].step \in FileSteps =>
                             /\ n = 1
                             /\ job'[n].file = "c" => job'[n].content = ContainerMetadata'
                             /\ job'[n].file # "c" =>
                                  \E j \in DOMAIN dsets' :
                                     /\ dsets'[j].id = job'[n].file
                                     /\ dsets'[j].status = "PERSISTENT"
                                     /\ job'[n].content = DatasetMetadata(dsets'[j])
                        /\ job'[n].step \in {"dataset", "delete"} => job'[n].at \in DOMAIN dsets'
                        /\ job'[n].step \in {"delete", "remove"} => hurt'
      BY Zenon, <2>4 DEF JobInv, DatasetMetadata
    <3>1. CASE n = 1
      BY ZenonT(60), <1>2, <2>1, <2>2, <2>3, <2>4, <3>1
    <3>2. CASE n # 1
      BY Zenon, <1>0, <2>0, <2>2, <2>4, <3>2 DEF JobInv
    <3> QED BY Zenon, <3>1, <3>2
  <2>9. SavedInv'
    <3>1. \A j \in DOMAIN dsets' : dsets'[j].id # d.id => j # i /\ dsets'[j] = dsets[j]
      BY Zenon, <2>1, <2>2
    <3>2. ASSUME NEW j \in DOMAIN dsets', dsets'[j].status = "PERSISTENT",
                 dsets'[j].id \notin unmarked \cup failed, dsets'[j].id # d.id
          PROVE  dfile[dsets'[j].id] = DatasetMetadata(dsets'[j])
      BY Zenon, <1>0, <1>2, <2>0, <2>2, <3>1, <3>2 DEF SavedInv
    <3>3. cont.status = "PERSISTENT" /\ "c" \notin unmarked \cup failed => cfile = ContainerMetadata
      BY Zenon, <1>0, <1>2, <2>0 DEF SavedInv
    <3> QED BY Zenon, <2>0, <2>5, <2>7, <3>2, <3>3 DEF SavedInv, DatasetMetadata
  <2>10. KeptInv'
    <3>1. ASSUME NEW j \in DOMAIN dsets'
          PROVE  /\ dsets'[j].status # "NOT_LOADED" => written[dsets'[j].id] \subseteq dsets'[j].frags
                 /\ dsets'[j].status # "DIRTY" /\ dsets'[j].id # d.id =>
                      written[dsets'[j].id] \subseteq OnDisk(dfile[dsets'[j].id])
      <4>1. CASE j = i
        BY Zenon, <1>0, <1>2, <1>5, <2>1, <2>2, <4>1 DEF KeptInv
      <4>2. CASE j # i
        BY Zenon, <1>0, <1>2, <2>2, <4>2 DEF KeptInv
      <4> QED BY Zenon, <4>1, <4>2
    <3>2. \A id \in Ids : (\A j \in DOMAIN dsets' : dsets'[j].id # id) => written[id] = {}
      BY <1>0, <2>2 DEF KeptInv
    <3> QED BY Zenon, <2>0, <2>5, <3>1, <3>2 DEF KeptInv, OnDisk, IsContent
  <2>11. ResolveInv'
    <3> SUFFICES ASSUME ~hurt PROVE ResolveInv'
      BY Zenon, <2>0 DEF ResolveInv
    <3>1. ASSUME NEW id, Promised(id) PROVE Promised(id)'
      <4>1. PICK n \in DOMAIN job : /\ job[n].step = "dataset" /\ dsets[job[n].at].id = id
                                    /\ dsets[job[n].at].status = "DIRTY"
        BY Zenon, <1>2, <3>1 DEF Promised
      <4>2. CASE job[n].at = i
        BY Zenon, <2>5, <4>1, <4>2 DEF Promised
      <4>3. CASE job[n].at # i
        <5>1. job[n].at \in DOMAIN dsets /\ n # 1
          BY Zenon, <1>0, <4>1, <4>3 DEF JobInv
        <5>2. dsets'[job[n].at] = dsets[job[n].at] /\ n \in DOMAIN job' /\ job'[n] = job[n]
          BY Zenon, <2>2, <2>4, <4>3, <5>1
        <5> QED BY Zenon, <4>1, <5>2 DEF Promised
      <4> QED BY Zenon, <4>2, <4>3
    <3>2. \A id : Good(id) => Good(id)'
      BY Zenon, <2>0, <3>1 DEF Good, IsContent
    <3>3. IsContent(cfile)' => \A k \in DOMAIN cfile'.refs : Good(cfile.refs[k].id)'
      BY Zenon, <1>0, <2>0, <3>2 DEF ResolveInv, IsContent
    <3>4. ~Pending("c")'
      BY Zenon, <2>3, <2>5
    <3>5. \A j \in DOMAIN dsets' :
            dsets'[j].status # "DIRTY" => IsContent(dfile[dsets'[j].id]) \/ dsets'[j].id = d.id
      BY Zenon, <1>0, <1>2, <2>1, <2>2 DEF ResolveInv
    <3> QED BY Zenon, <2>0, <2>5, <3>3, <3>4, <3>5 DEF ResolveInv, IsContent
  <2> QED BY Zenon, <2>6, <2>8, <2>9, <2>10, <2>11 DEF ContainersInv
<1> QED BY Zenon, <1>1, <1>3, <1>4, <1>5 DEF CommitDataset

(* The file of the first entry, and the object it belongs to.              *)
LEMMA FileEntry ==
  ASSUME ContainersInv, job # <<>>, job[1].step \in FileSteps
  PROVE  /\ Now = job[1] /\ job[1] \in Entries /\ 1 \in DOMAIN job /\ cont # None
         /\ job[1].file \in Ids \cup {"c"}
         /\ \A f : Pending(f) <=> f = job[1].file
         /\ job[1].file = "c" => /\ job[1].content = ContainerMetadata
                                 /\ job[1].content \in ContainerContents
         /\ job[1].file # "c" =>
              /\ job[1].content \in DatasetContents
              /\ \E i \in DOMAIN dsets : /\ dsets[i].id = job[1].file
                                         /\ dsets[i].status = "PERSISTENT"
                                         /\ job[1].content = DatasetMetadata(dsets[i])
<1>1. JobInv /\ TypeInv
  BY Zenon DEF ContainersInv
<1>2. Now = job[1] /\ job[1] \in Entries /\ 1 \in DOMAIN job
  BY Zenon, <1>1, TailFacts DEF JobInv, Now
<1>3. job[1].file \in Ids \cup {"c"}
  BY Zenon, <1>2 DEF Entries, FileSteps
<1>4. cont # None
  BY Zenon, <1>1 DEF TypeInv
<1>5. job[1].file = "c" => /\ job[1].content = ContainerMetadata
                           /\ job[1].content \in ContainerContents
  BY Zenon, <1>1, <1>2, <1>4, ContainerMetadataType DEF JobInv
<1>6. ASSUME job[1].file # "c"
      PROVE  /\ job[1].content \in DatasetContents
             /\ \E i \in DOMAIN dsets : /\ dsets[i].id = job[1].file
                                        /\ dsets[i].status = "PERSISTENT"
                                        /\ job[1].content = DatasetMetadata(dsets[i])
  <2>1. PICK i \in DOMAIN dsets : /\ dsets[i].id = job[1].file
                                  /\ dsets[i].status = "PERSISTENT"
                                  /\ job[1].content = DatasetMetadata(dsets[i])
    BY Zenon, <1>1, <1>2, <1>6 DEF JobInv
  <2>2. dsets[i] \in DatasetRecords
    BY <1>1 DEF TypeInv
  <2> QED BY Zenon, <2>1, <2>2, DatasetMetadataType
<1>7. \A f : Pending(f) <=> f = job[1].file
  BY Zenon DEF Pending
<1> QED BY Zenon, <1>2, <1>3, <1>4, <1>5, <1>6, <1>7

(* The file of the first entry is truncated.                               *)
LEMMA TruncateKeeps ==
  ASSUME ContainersInv, job # <<>>, job[1].step = "open",
         SetFile(Now.file, Torn),
         job' = <<[Now EXCEPT !.step = "write"]>> \o Tail(job),
         UNCHANGED <<memory, budget, history>>
  PROVE  ContainersInv'
<1> DEFINE file == job[1].file
           entry == [job[1] EXCEPT !.step = "write"]
<1>0. /\ TypeInv /\ IdsDiffer /\ JobInv /\ SavedInv /\ KeptInv /\ LoadedInv /\ ResolveInv
      /\ UNCHANGED <<cont, dsets, unmarked, failed, written, hurt>>
  BY Zenon DEF ContainersInv, memory, history
<1>1. /\ Now = job[1] /\ job[1] \in Entries /\ 1 \in DOMAIN job /\ cont # None
      /\ file \in Ids \cup {"c"}
      /\ \A f : Pending(f) <=> f = file
  BY Zenon, FileEntry DEF FileSteps
<1>2. /\ entry \in Entries /\ entry.step = "write" /\ entry.file = file
      /\ entry.content = job[1].content
  BY Zenon, <1>1 DEF Entries, FileSteps
<1>3. /\ job' \in Seq(Entries) /\ 1 \in DOMAIN job' /\ job'[1] = entry
      /\ DOMAIN job' = DOMAIN job
      /\ \A n \in DOMAIN job : n # 1 => job'[n] = job[n]
  <2>1. job \in Seq(Entries) /\ Tail(job) \in Seq(Entries)
    BY Zenon, <1>0, TailFacts DEF JobInv
  <2> HIDE DEF entry
  <2> QED BY <1>1, <1>2, <2>1 DEF entry
<1> HIDE DEF entry
<1>4. \A f : Pending(f)' <=> f = file
  <2>1. job' # <<>>
    BY Zenon, <1>3, ElementFacts
  <2>2. job'[1].step \in FileSteps /\ job'[1].file = file
    BY Zenon, <1>2, <1>3 DEF FileSteps
  <2> QED BY Zenon, <2>1, <2>2 DEF Pending
<1>5. /\ file = "c" => cfile' = Torn /\ dfile' = dfile
      /\ file # "c" => /\ cfile' = cfile /\ file \in Ids
                       /\ dfile' = [dfile EXCEPT ![file] = Torn]
  BY Zenon, <1>1 DEF SetFile
<1>6. \A id \in Ids : id # file => dfile'[id] = dfile[id]
  BY Zenon, <1>0, <1>5 DEF TypeInv
<1>7. \A j \in DOMAIN dsets : dsets[j].id \in Ids
  BY Zenon, OpenDataset
<1>8. TypeInv'
  BY Zenon, <1>0, <1>1, <1>5 DEF TypeInv
<1>9. IdsDiffer' /\ LoadedInv'
  BY Zenon, <1>0, <1>5 DEF IdsDiffer, LoadedInv, IsContent
<1>10. ContainerMetadata' = ContainerMetadata
  BY Zenon, <1>0 DEF ContainerMetadata
<1>11. JobInv'
  <2> SUFFICES ASSUME NEW n \in DOMAIN job
               PROVE  /\ job'[n].step \in FileSteps =>
                           /\ n = 1
                           /\ job'[n].file = "c" => job'[n].content = ContainerMetadata
                           /\ job'[n].file # "c" =>
                                \E j \in DOMAIN dsets :
                                   /\ dsets[j].id = job'[n].file
                                   /\ dsets[j].status = "PERSISTENT"
                                   /\ job'[n].content = DatasetMetadata(dsets[j])
                      /\ job'[n].step \in {"dataset", "delete"} => job'[n].at \in DOMAIN dsets
                      /\ job'[n].step \in {"delete", "remove"} => hurt
    BY ZenonT(60), <1>0, <1>3, <1>10 DEF JobInv, DatasetMetadata
  <2>1. CASE n = 1
    BY Zenon, <1>2, <1>3, <2>1, FileEntry DEF FileSteps
  <2>2. CASE n # 1
    BY Zenon, <1>0, <1>3, <2>2 DEF JobInv
  <2> QED BY Zenon, <2>1, <2>2
<1>12. SavedInv'
  <2>1. cont.status = "PERSISTENT" /\ "c" \notin unmarked \cup failed /\ file # "c" =>
          cfile' = ContainerMetadata
    BY Zenon, <1>0, <1>1, <1>5 DEF SavedInv
  <2>2. ASSUME NEW j \in DOMAIN dsets, dsets[j].status = "PERSISTENT",
               dsets[j].id \notin unmarked \cup failed, dsets[j].id # file
        PROVE  dfile'[dsets[j].id] = DatasetMetadata(dsets[j])
    BY Zenon, <1>0, <1>1, <1>6, <1>7, <2>2 DEF SavedInv
  <2> QED BY Zenon, <1>0, <1>4, <1>10, <2>1, <2>2 DEF SavedInv, DatasetMetadata
<1>13. KeptInv'
  <2>1. ASSUME NEW j \in DOMAIN dsets, dsets[j].status # "DIRTY", dsets[j].id # file
        PROVE  written[dsets[j].id] \subseteq OnDisk(dfile'[dsets[j].id])
    BY Zenon, <1>0, <1>1, <1>6, <1>7, <2>1 DEF KeptInv
  <2> QED BY Zenon, <1>0, <1>4, <2>1 DEF KeptInv, OnDisk, IsContent
<1>14. ResolveInv'
  <2> SUFFICES ASSUME ~hurt PROVE ResolveInv'
    BY Zenon, <1>0 DEF ResolveInv
  <2>1. ASSUME NEW id, Promised(id) PROVE Promised(id)'
    <3>1. CASE id = file
      BY Zenon, <1>4, <3>1 DEF Promised
    <3>2. CASE id # file
      <4>1. PICK n \in DOMAIN job : /\ job[n].step = "dataset" /\ dsets[job[n].at].id = id
                                    /\ dsets[job[n].at].status = "DIRTY"
        BY Zenon, <1>1, <2>1, <3>2 DEF Promised
      <4>2. n # 1
        BY Zenon, <4>1
      <4> QED BY Zenon, <1>0, <1>3, <4>1, <4>2 DEF Promised
    <3> QED BY Zenon, <3>1, <3>2
  <2>2. ASSUME NEW id \in Ids, Good(id) PROVE Good(id)'
    <3>1. CASE id = file
      BY Zenon, <1>4, <3>1 DEF Good, Promised
    <3>2. CASE id # file
      BY Zenon, <1>6, <2>1, <2>2, <3>2 DEF Good, IsContent
    <3> QED BY Zenon, <3>1, <3>2
  <2>3. IsContent(cfile') => \A k \in DOMAIN cfile'.refs : Good(cfile.refs[k].id)'
    <3> SUFFICES ASSUME IsContent(cfile'), NEW k \in DOMAIN cfile'.refs
                 PROVE  Good(cfile.refs[k].id)'
      BY Zenon
    <3>1. cfile' = cfile /\ IsContent(cfile)
      BY Zenon, <1>1, <1>5 DEF IsContent
    <3>2. cfile.refs[k].id \in Ids /\ Good(cfile.refs[k].id)
      <4>1. k \in DOMAIN cfile.refs
        BY Zenon, <3>1
      <4> QED BY Zenon, <1>0, <3>1, <4>1, ReferenceType DEF ResolveInv
    <3> QED BY Zenon, <2>2, <3>1, <3>2
  <2>4. Pending("c")' => \A j \in DOMAIN dsets : Good(dsets[j].id)'
    <3> SUFFICES ASSUME Pending("c")', NEW j \in DOMAIN dsets PROVE Good(dsets[j].id)'
      BY Zenon
    <3>1. Good(dsets[j].id) /\ dsets[j].id \in Ids
      BY Zenon, <1>0, <1>1, <1>4, <1>7 DEF ResolveInv
    <3> QED BY Zenon, <1>0, <2>2, <3>1
  <2>5. \A j \in DOMAIN dsets :
          dsets[j].status # "DIRTY" => IsContent(dfile'[dsets[j].id]) \/ dsets[j].id = file
    BY Zenon, <1>0, <1>1, <1>6, <1>7 DEF ResolveInv
  <2> QED BY Zenon, <1>0, <1>4, <2>3, <2>4, <2>5 DEF ResolveInv, IsContent
<1> QED BY Zenon, <1>8, <1>9, <1>11, <1>12, <1>13, <1>14 DEF ContainersInv

(* The first entry is dealt with: what remains of the job writes no file.  *)
LEMMA AfterFileEntry ==
  ASSUME ContainersInv, job # <<>>, job[1].step \in FileSteps,
         job' = Tail(job), UNCHANGED memory, hurt => hurt'
  PROVE  /\ job' \in Seq(Entries) /\ dsets' = dsets /\ cont' = cont
         /\ \A n \in DOMAIN job' : /\ n + 1 \in DOMAIN job /\ job'[n] = job[n + 1]
                                   /\ job'[n].step \notin FileSteps
         /\ \A n \in DOMAIN job : n # 1 => n - 1 \in DOMAIN job' /\ job'[n - 1] = job[n]
         /\ \A f : ~Pending(f)'
         /\ ContainerMetadata' = ContainerMetadata
         /\ JobInv'
<1>1. JobInv /\ job \in Seq(Entries) /\ dsets' = dsets /\ cont' = cont
  BY Zenon DEF ContainersInv, JobInv, memory
<1>2. /\ job' \in Seq(Entries)
      /\ \A n \in DOMAIN job' : n + 1 \in DOMAIN job /\ n + 1 # 1 /\ job'[n] = job[n + 1]
      /\ \A n \in DOMAIN job : n # 1 => n - 1 \in DOMAIN job' /\ job'[n - 1] = job[n]
  BY Zenon, <1>1, TailFacts
<1>3. \A n \in DOMAIN job' : job'[n].step \notin FileSteps
  BY Zenon, <1>1, <1>2 DEF JobInv
<1>4. \A f : ~Pending(f)'
  <2>1. job' # <<>> => 1 \in DOMAIN job'
    BY Zenon, <1>2, TailFacts
  <2> QED BY Zenon, <1>3, <2>1 DEF Pending
<1>5. ContainerMetadata' = ContainerMetadata
  BY Zenon, <1>1 DEF ContainerMetadata
<1>6. JobInv'
  <2>1. \A n \in DOMAIN job' :
          /\ job'[n].step \in {"dataset", "delete"} => job'[n].at \in DOMAIN dsets'
          /\ job'[n].step \in {"delete", "remove"} => hurt'
    BY ZenonT(60), <1>1, <1>2 DEF JobInv
  <2> QED BY Zenon, <1>2, <1>3, <2>1 DEF JobInv
<1> QED BY Zenon, <1>1, <1>2, <1>3, <1>4, <1>5, <1>6

LEMMA WriteSucceeds ==
  ASSUME ContainersInv, job # <<>>, job[1].step = "write",
         SetFile(Now.file, Now.content), job' = Tail(job),
         unmarked' = unmarked \ {Now.file}, failed' = failed \ {Now.file},
         UNCHANGED <<memory, budget, written, hurt>>
  PROVE  ContainersInv'
<1> DEFINE file == job[1].file
           content == job[1].content
<1>0. /\ TypeInv /\ IdsDiffer /\ JobInv /\ SavedInv /\ KeptInv /\ LoadedInv /\ ResolveInv
      /\ written' = written /\ hurt' = hurt /\ memory' = memory /\ job[1].step \in FileSteps
  BY Zenon DEF ContainersInv, FileSteps
<1>1. /\ Now = job[1] /\ 1 \in DOMAIN job /\ cont # None /\ file \in Ids \cup {"c"}
      /\ \A f : Pending(f) <=> f = file
      /\ file = "c" => content = ContainerMetadata /\ content \in ContainerContents
      /\ file # "c" =>
           /\ content \in DatasetContents
           /\ \E i \in DOMAIN dsets : /\ dsets[i].id = file /\ dsets[i].status = "PERSISTENT"
                                      /\ content = DatasetMetadata(dsets[i])
  BY Zenon, <1>0, FileEntry
<1>2. /\ job' \in Seq(Entries) /\ dsets' = dsets /\ cont' = cont
      /\ \A n \in DOMAIN job : n # 1 => n - 1 \in DOMAIN job' /\ job'[n - 1] = job[n]
      /\ \A f : ~Pending(f)'
      /\ ContainerMetadata' = ContainerMetadata
      /\ JobInv'
  BY <1>0, AfterFileEntry
<1>3. /\ file = "c" => cfile' = content /\ dfile' = dfile
      /\ file # "c" => /\ cfile' = cfile /\ file \in Ids
                       /\ dfile' = [dfile EXCEPT ![file] = content]
      /\ unmarked' = unmarked \ {file} /\ failed' = failed \ {file}
  BY Zenon, <1>1 DEF SetFile
<1> HIDE DEF file, content
<1>4. /\ \A id \in Ids : id # file => dfile'[id] = dfile[id]
      /\ file # "c" => dfile'[file] = content
  BY Zenon, <1>0, <1>3 DEF TypeInv
<1>5. \A j \in DOMAIN dsets : dsets[j].id \in Ids /\ dsets[j].id # "c"
  BY Zenon, OpenDataset, ContainersAssumption
<1>6. \A j \in DOMAIN dsets : dsets[j].id = file =>
        dsets[j].status = "PERSISTENT" /\ content = DatasetMetadata(dsets[j]) /\ file # "c"
  BY Zenon, <1>0, <1>1, <1>5 DEF IdsDiffer
<1>7. TypeInv'
  BY SMTT(60), <1>0, <1>1, <1>2, <1>3 DEF TypeInv
<1>8. IdsDiffer'
  <2>1. CASE file = "c"
    <3>1. cfile' = ContainerMetadata
      BY Zenon, <1>1, <1>3, <2>1
    <3>2. cfile'.refs = [i \in DOMAIN dsets |-> [name |-> dsets[i].name, id |-> dsets[i].id]]
      BY Zenon, <3>1 DEF ContainerMetadata
    <3>3. \A i, j \in DOMAIN cfile'.refs : cfile'.refs[i].id = cfile'.refs[j].id => i = j
      BY <1>0, <3>2 DEF IdsDiffer
    <3> QED BY Zenon, <1>0, <1>2, <3>3 DEF IdsDiffer
  <2>2. CASE file # "c"
    BY Zenon, <1>0, <1>2, <1>3, <2>2 DEF IdsDiffer, IsContent
  <2> QED BY Zenon, <2>1, <2>2
<1>9. LoadedInv'
  BY Zenon, <1>0, <1>2 DEF LoadedInv
<1>10. SavedInv'
  <2>1. cont.status = "PERSISTENT" /\ "c" \notin unmarked' \cup failed' => cfile' = ContainerMetadata
    <3>1. CASE file = "c"
      BY Zenon, <1>1, <1>3, <3>1
    <3>2. CASE file # "c"
      BY Zenon, <1>0, <1>1, <1>3, <3>2 DEF SavedInv
    <3> QED BY Zenon, <3>1, <3>2
  <2>2. ASSUME NEW j \in DOMAIN dsets, dsets[j].status = "PERSISTENT",
               dsets[j].id \notin unmarked' \cup failed'
        PROVE  dfile'[dsets[j].id] = DatasetMetadata(dsets[j])
    <3>1. CASE dsets[j].id = file
      BY Zenon, <1>4, <1>6, <3>1
    <3>2. CASE dsets[j].id # file
      <4>1. dsets[j].id \notin unmarked \cup failed
        BY Zenon, <1>3, <2>2, <3>2
      <4> QED BY Zenon, <1>0, <1>1, <1>4, <1>5, <2>2, <3>2, <4>1 DEF SavedInv
    <3> QED BY Zenon, <3>1, <3>2
  <2> QED BY Zenon, <1>2, <2>1, <2>2 DEF SavedInv, DatasetMetadata
<1>11. KeptInv'
  <2>1. ASSUME NEW j \in DOMAIN dsets, dsets[j].status # "DIRTY"
        PROVE  written[dsets[j].id] \subseteq OnDisk(dfile'[dsets[j].id])
    <3>1. CASE dsets[j].id = file
      <4>1. dfile'[dsets[j].id] = content /\ IsContent(content) /\ content.frags = dsets[j].frags
        BY <1>1, <1>4, <1>6, <3>1, ContentIsContent DEF DatasetMetadata
      <4>2. written[dsets[j].id] \subseteq dsets[j].frags
        BY Zenon, <1>0, <1>6, <3>1 DEF KeptInv
      <4> QED BY Zenon, <4>1, <4>2 DEF OnDisk
    <3>2. CASE dsets[j].id # file
      BY Zenon, <1>0, <1>1, <1>4, <1>5, <2>1, <3>2 DEF KeptInv
    <3> QED BY Zenon, <3>1, <3>2
  <2> QED BY Zenon, <1>0, <1>2, <2>1 DEF KeptInv, OnDisk, IsContent
<1>12. ResolveInv'
  <2> SUFFICES ASSUME ~hurt PROVE ResolveInv'
    BY <1>0 DEF ResolveInv
  <2>1. file # "c" => IsContent(dfile'[file])
    BY Zenon, <1>1, <1>4, ContentIsContent
  <2>2. ASSUME NEW id \in Ids, Good(id) PROVE Good(id)'
    <3>1. CASE id = file
      BY Zenon, <2>1, <3>1, ContainersAssumption DEF Good, IsContent
    <3>2. CASE id # file /\ IsContent(dfile[id])
      BY Zenon, <1>4, <3>2 DEF Good, IsContent
    <3>3. CASE id # file /\ Promised(id)
      <4>1. PICK n \in DOMAIN job : /\ job[n].step = "dataset" /\ dsets[job[n].at].id = id
                                    /\ dsets[job[n].at].status = "DIRTY"
        BY Zenon, <1>1, <3>3 DEF Promised
      <4>2. n # 1
        BY Zenon, <1>0, <4>1 DEF FileSteps
      <4>3. n - 1 \in DOMAIN job' /\ job'[n - 1] = job[n]
        BY Zenon, <1>2, <4>2
      <4>4. Promised(id)'
        BY Zenon, <1>2, <4>1, <4>3 DEF Promised
      <4> QED BY Zenon, <4>4 DEF Good
    <3> QED BY Zenon, <2>2, <3>1, <3>2, <3>3 DEF Good
  <2>3. IsContent(cfile)' => \A k \in DOMAIN cfile'.refs : Good(cfile.refs[k].id)'
    <3>1. CASE file = "c"
      <4>1. cfile'.refs = [i \in DOMAIN dsets |-> [name |-> dsets[i].name, id |-> dsets[i].id]]
        BY <1>1, <1>3, <3>1 DEF ContainerMetadata
      <4>2. \A k \in DOMAIN cfile'.refs : k \in DOMAIN dsets /\ cfile'.refs[k].id = dsets[k].id
        BY <4>1
      <4>3. \A k \in DOMAIN dsets : Good(dsets[k].id)
        BY Zenon, <1>0, <1>1, <3>1 DEF ResolveInv
      <4>4. \A k \in DOMAIN dsets : Good(dsets[k].id)'
        BY Zenon, <1>2, <1>5, <2>2, <4>3
      <4> QED BY Zenon, <1>2, <4>2, <4>4
    <3>2. CASE file # "c" /\ IsContent(cfile)
      <4>1. cfile' = cfile
        BY Zenon, <1>3, <3>2
      <4>3. \A k \in DOMAIN cfile.refs : cfile.refs[k].id \in Ids
        BY Zenon, <1>0, <3>2, ReferenceType
      <4>4. \A k \in DOMAIN cfile.refs : Good(cfile.refs[k].id)
        BY Zenon, <1>0, <3>2 DEF ResolveInv
      <4> QED BY Zenon, <2>2, <4>1, <4>3, <4>4
    <3> QED BY Zenon, <1>3, <3>1, <3>2 DEF IsContent
  <2>4. \A j \in DOMAIN dsets : dsets[j].status # "DIRTY" => IsContent(dfile'[dsets[j].id])
    BY <1>0, <1>1, <1>4, <1>5, <2>1 DEF ResolveInv
  <2> QED BY Zenon, <1>2, <2>3, <2>4 DEF ResolveInv, IsContent
<1> QED BY Zenon, <1>2, <1>7, <1>8, <1>9, <1>10, <1>11, <1>12 DEF ContainersInv

LEMMA FailedKeeps ==
  ASSUME ContainersInv, job # <<>>, job[1].step \in FileSteps, Failed, UNCHANGED files
  PROVE  ContainersInv'
<1> DEFINE file == job[1].file
<1>0. /\ TypeInv /\ IdsDiffer /\ JobInv /\ SavedInv /\ KeptInv /\ LoadedInv
      /\ cfile' = cfile /\ dfile' = dfile /\ hurt' = TRUE /\ unmarked' = unmarked
  BY Zenon DEF ContainersInv, Failed, files
<1>1. Now = job[1] /\ cont # None /\ \A f : Pending(f) <=> f = file
  BY Zenon, FileEntry
<1>2. /\ job' \in Seq(Entries) /\ dsets' = dsets /\ cont' = cont
      /\ \A f : ~Pending(f)'
      /\ ContainerMetadata' = ContainerMetadata
      /\ JobInv'
  BY Zenon, AfterFileEntry, <1>0 DEF Failed
<1>3. /\ failed' = failed \cup {file}
      /\ written' = [i \in Ids |-> IF i = file THEN {} ELSE written[i]]
  BY Zenon, <1>1 DEF Failed
<1> HIDE DEF file
<1>4. TypeInv' /\ IdsDiffer' /\ LoadedInv'
  BY Zenon, <1>0, <1>1, <1>2, <1>3 DEF TypeInv, IdsDiffer, LoadedInv, IsContent
<1>5. SavedInv'
  <2>1. cont.status = "PERSISTENT" /\ "c" \notin unmarked' \cup failed' => cfile = ContainerMetadata
    BY Zenon, <1>0, <1>1, <1>3 DEF SavedInv
  <2>2. ASSUME NEW j \in DOMAIN dsets, dsets[j].status = "PERSISTENT",
               dsets[j].id \notin unmarked' \cup failed'
        PROVE  dfile[dsets[j].id] = DatasetMetadata(dsets[j])
    <3>1. dsets[j].id # file /\ dsets[j].id \notin unmarked \cup failed
      BY Zenon, <1>0, <1>3, <2>2
    <3> QED BY Zenon, <1>0, <1>1, <2>2, <3>1 DEF SavedInv
  <2> QED BY Zenon, <1>0, <1>2, <2>1, <2>2 DEF SavedInv, DatasetMetadata
<1>6. KeptInv'
  <2>1. \A id \in Ids : /\ written'[id] \subseteq written[id]
                        /\ id = file => written'[id] = {}
    BY Zenon, <1>3
  <2>2. \A j \in DOMAIN dsets : dsets[j].id \in Ids
    BY Zenon, OpenDataset
  <2>3. ASSUME NEW j \in DOMAIN dsets
        PROVE  /\ dsets[j].status # "NOT_LOADED" => written'[dsets[j].id] \subseteq dsets[j].frags
               /\ dsets[j].status # "DIRTY" => written'[dsets[j].id] \subseteq OnDisk(dfile[dsets[j].id])
    BY <1>0, <1>1, <2>1, <2>2 DEF KeptInv
  <2>4. \A id \in Ids : (\A i \in DOMAIN dsets : dsets[i].id # id) => written'[id] = {}
    BY Zenon, <1>0, <2>1 DEF KeptInv
  <2> QED BY Zenon, <1>0, <1>2, <2>3, <2>4 DEF KeptInv, OnDisk, IsContent
<1>7. ResolveInv'
  BY Zenon, <1>0 DEF ResolveInv
<1> QED BY Zenon, <1>2, <1>4, <1>5, <1>6, <1>7 DEF ContainersInv

LEMMA OpenEntryKeeps ==
  ASSUME ContainersInv, OpenEntry
  PROVE  ContainersInv'
<1>1. job # <<>> /\ job[1].step = "open" /\ job[1].step \in FileSteps
  BY Zenon, TailFacts DEF OpenEntry, Now, ContainersInv, JobInv, FileSteps
<1> QED BY Zenon, <1>1, TruncateKeeps, FailedKeeps DEF OpenEntry

LEMMA WriteEntryKeeps ==
  ASSUME ContainersInv, WriteEntry
  PROVE  ContainersInv'
<1>1. job # <<>> /\ job[1].step = "write"
  BY Zenon, TailFacts DEF WriteEntry, Now, ContainersInv, JobInv
<1>2. CASE Die /\ hurt' = TRUE
  BY Zenon, <1>2, Forgotten DEF Die, files, ContainersInv, TypeInv
<1> QED BY Zenon, <1>1, <1>2, WriteSucceeds DEF WriteEntry

-----------------------------------------------------------------------------
(* The calls on a container keep the invariant.                            *)

(* Between two calls only the container changes.                           *)
LEMMA ContainerStep ==
  ASSUME ContainersInv, job = <<>>, cont # None, cont' \in ContainerRecords,
         cont'.status = "DIRTY" \/ (cont'.status = cont.status /\ cont'.attr = cont.attr),
         UNCHANGED <<files, dsets, job, history>>
  PROVE  ContainersInv'
<1>0. /\ TypeInv /\ IdsDiffer /\ JobInv /\ SavedInv /\ KeptInv /\ LoadedInv /\ ResolveInv
      /\ UNCHANGED <<cfile, dfile, dsets, job, unmarked, failed, written, hurt>>
      /\ job' = <<>>
  BY Zenon DEF ContainersInv, files, history
<1>1. /\ \A f : ~Pending(f) /\ ~Pending(f)'
      /\ \A id : Good(id) <=> Good(id)'
  BY Zenon, <1>0 DEF Pending, Good, Promised, IsContent
<1>2. TypeInv' /\ IdsDiffer' /\ LoadedInv'
  BY Zenon, <1>0, ContainersAssumption DEF TypeInv, IdsDiffer, LoadedInv, IsContent
<1>3. JobInv'
  BY <1>0 DEF JobInv
<1>4. SavedInv'
  <2>1. cont'.status = "PERSISTENT" /\ "c" \notin unmarked \cup failed => cfile = ContainerMetadata'
    BY Zenon, <1>0, <1>1 DEF SavedInv, ContainerMetadata
  <2>2. \A j \in DOMAIN dsets :
          dsets[j].status = "PERSISTENT" /\ dsets[j].id \notin unmarked \cup failed =>
            dfile[dsets[j].id] = DatasetMetadata(dsets[j])
    BY Zenon, <1>0, <1>1 DEF SavedInv
  <2> QED BY Zenon, <1>0, <1>1, <2>1, <2>2 DEF SavedInv, DatasetMetadata
<1>5. KeptInv'
  BY Zenon, <1>0, <1>1 DEF KeptInv
<1>6. ResolveInv'
  BY Zenon, <1>0, <1>1 DEF ResolveInv, IsContent
<1> QED BY Zenon, <1>2, <1>3, <1>4, <1>5, <1>6 DEF ContainersInv

LEMMA ContainerAttributeKeeps ==
  ASSUME ContainersInv, ContainerLinkAttribute \/ ContainerDeleteAttribute
  PROVE  ContainersInv'
<1>1. job = <<>> /\ cont # None /\ cont \in ContainerRecords
  BY Zenon DEF ContainersInv, TypeInv, ContainerLinkAttribute, ContainerDeleteAttribute, Idle
<1>2. cont' \in ContainerRecords /\ cont'.status = "DIRTY"
  BY Zenon, <1>1 DEF ContainerLinkAttribute, ContainerDeleteAttribute, ContainerRecords
<1> QED BY Zenon, <1>1, <1>2, ContainerStep DEF ContainerLinkAttribute, ContainerDeleteAttribute

LEMMA ContainerCloseKeeps ==
  ASSUME ContainersInv, ContainerClose
  PROVE  ContainersInv'
<1>1. job = <<>> /\ cont # None /\ cont \in ContainerRecords /\ hurt \in BOOLEAN
  BY Zenon DEF ContainersInv, TypeInv, ContainerClose, Idle
<1>2. CASE cont' = [cont EXCEPT !.refcount = 0] /\ UNCHANGED <<files, dsets, job, budget, history>>
  <2>1. cont' \in ContainerRecords /\ cont'.status = cont.status /\ cont'.attr = cont.attr
    BY Zenon, <1>1, <1>2 DEF ContainerRecords
  <2> QED BY Zenon, <1>1, <1>2, <2>1, ContainerStep
<1>3. CASE Die /\ hurt' = (hurt \/ Aborts(dsets))
  <2>1. hurt' \in BOOLEAN /\ (hurt' \/ ~hurt)
    BY Zenon, <1>3
  <2>2. Forget /\ UNCHANGED files /\ cfile' = cfile /\ dfile' = dfile
    BY Zenon, <1>3 DEF Die, files
  <2> QED BY Zenon, <1>1, <2>1, <2>2, Forgotten DEF ContainersInv, TypeInv
<1> QED BY Zenon, <1>2, <1>3 DEF ContainerClose

LEMMA CrashKeeps ==
  ASSUME ContainersInv, Crash
  PROVE  ContainersInv'
<1>1. hurt' \in BOOLEAN /\ (hurt' \/ (~hurt /\ job = <<>>))
  BY Zenon DEF Crash
<1>2. Forget /\ UNCHANGED files /\ cfile' = cfile /\ dfile' = dfile
  BY Zenon DEF Crash, Die, files
<1> QED BY Zenon, <1>1, <1>2, Forgotten DEF ContainersInv, TypeInv

LEMMA ContainerCreateKeeps ==
  ASSUME ContainersInv, NEW overwrite \in BOOLEAN, ContainerCreate(overwrite)
  PROVE  ContainersInv'
<1>0. /\ TypeInv /\ dsets = <<>> /\ job = <<>> /\ KeptInv /\ ResolveInv
      /\ UNCHANGED <<dfile, dsets, job, unmarked, failed, written, hurt>>
      /\ cfile' = Torn /\ cont' = NewContainer
  BY Zenon DEF ContainersInv, TypeInv, ContainerCreate, CreateContainerFile, history
<1>1. cont' \in ContainerRecords /\ cont' # None /\ cont'.status = "DIRTY"
  <2>1. cont' \in ContainerRecords /\ cont'.status = "DIRTY"
    BY Zenon, <1>0 DEF NewContainer, ContainerRecords
  <2> QED BY Zenon, <2>1, ContainersAssumption
<1>2. dsets' = <<>> /\ job' = <<>> /\ ~IsContent(cfile')
  BY Zenon, <1>0 DEF IsContent
<1>3. TypeInv'
  BY Zenon, <1>0, <1>1 DEF TypeInv
<1>4. IdsDiffer' /\ LoadedInv' /\ SavedInv'
  BY <1>1, <1>2 DEF IdsDiffer, LoadedInv, SavedInv, IsContent
<1>5. JobInv'
  BY <1>2 DEF JobInv
<1>6. KeptInv'
  BY <1>0, <1>2 DEF KeptInv
<1>7. ResolveInv'
  BY <1>2 DEF ResolveInv, Pending, IsContent
<1> QED BY Zenon, <1>3, <1>4, <1>5, <1>6, <1>7 DEF ContainersInv

LEMMA ContainerOpenKeeps ==
  ASSUME ContainersInv, ContainerOpen
  PROVE  ContainersInv'
<1>0. /\ TypeInv /\ IdsDiffer /\ KeptInv /\ ResolveInv /\ IsContent(cfile)
      /\ dsets = <<>> /\ job = <<>> /\ job' = <<>>
      /\ UNCHANGED <<cfile, dfile, unmarked, failed, written, hurt>>
      /\ cont' = [status |-> "PERSISTENT", refcount |-> 1, attr |-> cfile.attr]
      /\ dsets' = [i \in DOMAIN cfile.refs |-> CreateDatasetFromMetadata(cfile.refs[i])]
  BY Zenon DEF ContainersInv, TypeInv, ContainerOpen, ContainerOpenMdParse, files, history
<1>1. /\ cfile \in ContainerContents /\ cfile.refs \in Seq([name : Names, id : Ids])
      /\ \A k \in DOMAIN cfile.refs : /\ cfile.refs[k] \in [name : Names, id : Ids]
                                      /\ cfile.refs[k].id \in Ids
                                      /\ cfile.refs[k].name \in Names
  BY Zenon, <1>0, ReferenceType
<1>2. ASSUME NEW k \in DOMAIN cfile.refs
      PROVE  /\ dsets'[k] \in DatasetRecords /\ dsets'[k].id = cfile.refs[k].id
             /\ dsets'[k].name = cfile.refs[k].name
             /\ dsets'[k].status = "NOT_LOADED" /\ dsets'[k].refcount = 0
  <2>1. dsets'[k] = [NewDataset(cfile.refs[k].name, cfile.refs[k].id) EXCEPT !.status = "NOT_LOADED"]
    BY Zenon, <1>0 DEF CreateDatasetFromMetadata
  <2>2. /\ NewDataset(cfile.refs[k].name, cfile.refs[k].id) \in DatasetRecords
        /\ NewDataset(cfile.refs[k].name, cfile.refs[k].id).id = cfile.refs[k].id
        /\ NewDataset(cfile.refs[k].name, cfile.refs[k].id).name = cfile.refs[k].name
        /\ NewDataset(cfile.refs[k].name, cfile.refs[k].id).refcount = 0
    BY <1>1, NewDatasetFacts
  <2> QED BY Zenon, <2>1, <2>2 DEF DatasetRecords
<1>3. DOMAIN dsets' = DOMAIN cfile.refs /\ dsets' \in Seq(DatasetRecords)
  <2>1. DOMAIN cfile.refs = 1..Len(cfile.refs) /\ Len(cfile.refs) \in Nat
    BY <1>1
  <2>2. DOMAIN dsets' = DOMAIN cfile.refs
    BY Zenon, <1>0
  <2>3. dsets' = [i \in 1..Len(cfile.refs) |-> dsets'[i]]
    BY Zenon, <1>0, <2>1
  <2> QED BY <1>2, <2>1, <2>2, <2>3
<1>4. cont' \in ContainerRecords /\ cont' # None /\ cont'.attr = cfile.attr
  BY <1>0, <1>1, ContainersAssumption DEF ContainerRecords, ContainerContents
<1>5. \A f : ~Pending(f) /\ ~Pending(f)' /\ ~Promised(f)
  BY <1>0 DEF Pending, Promised
<1>6. TypeInv'
  BY Zenon, <1>0, <1>3, <1>4 DEF TypeInv
<1>7. IdsDiffer' /\ LoadedInv'
  <2>1. \A i, j \in DOMAIN dsets' : dsets'[i].id = dsets'[j].id => i = j
    <3>1. \A i, j \in DOMAIN cfile.refs : cfile.refs[i].id = cfile.refs[j].id => i = j
      BY Zenon, <1>0 DEF IdsDiffer
    <3> QED BY Zenon, <1>2, <1>3, <3>1
  <2>2. LoadedInv'
    BY <1>2, <1>3 DEF LoadedInv
  <2> QED BY Zenon, <1>0, <2>1, <2>2 DEF IdsDiffer, IsContent
<1>8. JobInv'
  BY <1>0 DEF JobInv
<1>9. SavedInv'
  <2>1. cfile = ContainerMetadata'
    <3> DEFINE r == [i \in DOMAIN dsets' |-> [name |-> dsets'[i].name, id |-> dsets'[i].id]]
    <3>1. ContainerMetadata' = [attr |-> cfile.attr, refs |-> r]
      BY Zenon, <1>4 DEF ContainerMetadata
    <3>2. r = cfile.refs
      <4>1. cfile.refs = [i \in DOMAIN cfile.refs |-> cfile.refs[i]]
        BY <1>1
      <4>2. \A i \in DOMAIN cfile.refs :
              cfile.refs[i] = [name |-> dsets'[i].name, id |-> dsets'[i].id]
        BY Zenon, <1>1, <1>2
      <4> QED BY Zenon, <1>3, <4>1, <4>2
    <3>3. cfile = [attr |-> cfile.attr, refs |-> cfile.refs]
      BY Zenon, <1>1 DEF ContainerContents
    <3> QED BY Zenon, <3>1, <3>2, <3>3
  <2> QED BY Zenon, <1>0, <1>2, <1>3, <2>1 DEF SavedInv
<1>10. KeptInv'
  <2>1. \A id \in Ids : written[id] = {}
    BY <1>0 DEF KeptInv
  <2> QED BY ZenonT(60), <1>0, <1>1, <1>2, <1>3, <2>1 DEF KeptInv
<1>11. ResolveInv'
  <2> SUFFICES ASSUME ~hurt PROVE ResolveInv'
    BY Zenon, <1>0 DEF ResolveInv
  <2>1. \A k \in DOMAIN cfile.refs : IsContent(dfile[cfile.refs[k].id])
    BY Zenon, <1>0, <1>5 DEF ResolveInv, Good
  <2> QED BY Zenon, <1>0, <1>2, <1>3, <1>5, <2>1 DEF ResolveInv, Good, IsContent
<1> QED BY Zenon, <1>6, <1>7, <1>8, <1>9, <1>10, <1>11 DEF ContainersInv

LEMMA ContainerCommitKeeps ==
  ASSUME ContainersInv, ContainerCommit
  PROVE  ContainersInv'
<1> DEFINE commits == [i \in DOMAIN dsets |-> [step |-> "dataset", at |-> i]]
<1>0. /\ TypeInv /\ IdsDiffer /\ JobInv /\ SavedInv /\ KeptInv /\ LoadedInv /\ ResolveInv
      /\ UNCHANGED <<cfile, dfile, dsets, unmarked, failed, written, hurt>>
      /\ job = <<>> /\ cont # None /\ cont \in ContainerRecords
      /\ cont' = [cont EXCEPT !.status = "PERSISTENT"]
      /\ job' = <<ContainerEntry>> \o commits
  BY Zenon DEF ContainersInv, TypeInv, ContainerCommit, Idle, files, history
<1>1. cont' \in ContainerRecords /\ cont' # None /\ cont'.attr = cont.attr
  <2>1. cont' \in ContainerRecords /\ cont'.attr = cont.attr
    BY Zenon, <1>0 DEF ContainerRecords
  <2> QED BY Zenon, <2>1, ContainersAssumption
<1>2. ContainerMetadata' = ContainerMetadata /\ ContainerMetadata \in ContainerContents
  <2>1. ContainerMetadata \in ContainerContents
    BY Zenon, <1>0, ContainerMetadataType
  <2> QED BY Zenon, <1>0, <1>1, <2>1 DEF ContainerMetadata
<1>3. /\ ContainerEntry \in Entries /\ ContainerEntry.step = "open"
      /\ ContainerEntry.file = "c" /\ ContainerEntry.content = ContainerMetadata
  BY Zenon, <1>2 DEF ContainerEntry, Entries, FileSteps
<1>4. /\ commits \in Seq(Entries) /\ DOMAIN commits = DOMAIN dsets
      /\ \A n \in DOMAIN commits : commits[n].step = "dataset" /\ commits[n].at = n
  <2>1. DOMAIN dsets = 1..Len(dsets) /\ Len(dsets) \in Nat
    BY <1>0 DEF TypeInv
  <2>2. \A i \in DOMAIN dsets : [step |-> "dataset", at |-> i] \in Entries
    BY <2>1 DEF Entries
  <2> QED BY <2>1, <2>2
<1> HIDE DEF commits
<1>5. /\ job' \in Seq(Entries) /\ 1 \in DOMAIN job' /\ job'[1] = ContainerEntry
      /\ \A n \in DOMAIN job' : n # 1 => n - 1 \in DOMAIN dsets /\ job'[n] = commits[n - 1]
      /\ \A n \in DOMAIN dsets : n + 1 \in DOMAIN job' /\ job'[n + 1] = commits[n]
  <2>1. ContainerEntry \in Entries /\ commits \in Seq(Entries) /\ DOMAIN commits = DOMAIN dsets
    BY Zenon, <1>3, <1>4
  <2>2. job' = <<ContainerEntry>> \o commits
    BY Zenon, <1>0
  <2> QED BY <2>1, <2>2, Prepended
<1>6. \A f : ~Pending(f) /\ ~Promised(f)
  BY <1>0 DEF Pending, Promised
<1>7. \A f : Pending(f)' <=> f = "c"
  <2>1. job' # <<>>
    BY Zenon, <1>5, ElementFacts
  <2>2. job'[1].step \in FileSteps /\ job'[1].file = "c"
    BY Zenon, <1>3, <1>5 DEF FileSteps
  <2> QED BY Zenon, <2>1, <2>2 DEF Pending
<1>8. TypeInv' /\ IdsDiffer' /\ LoadedInv'
  BY Zenon, <1>0, <1>1 DEF TypeInv, IdsDiffer, LoadedInv, IsContent
<1>9. JobInv'
  <2> SUFFICES ASSUME NEW n \in DOMAIN job'
               PROVE  /\ job'[n].step \in FileSteps =>
                           n = 1 /\ job'[n].file = "c" /\ job'[n].content = ContainerMetadata'
                      /\ job'[n].step \in {"dataset", "delete"} => job'[n].at \in DOMAIN dsets'
                      /\ job'[n].step \notin {"delete", "remove"}
    BY Zenon, <1>5 DEF JobInv
  <2>1. CASE n = 1
    BY Zenon, <1>2, <1>3, <1>5, <2>1
  <2>2. CASE n # 1
    BY <1>0, <1>4, <1>5, <2>2 DEF FileSteps
  <2> QED BY Zenon, <2>1, <2>2
<1>10. SavedInv'
  <2>1. \A j \in DOMAIN dsets :
          dsets[j].status = "PERSISTENT" /\ dsets[j].id \notin unmarked \cup failed =>
            dfile[dsets[j].id] = DatasetMetadata(dsets[j])
    BY Zenon, <1>0, <1>6 DEF SavedInv
  <2> QED BY Zenon, <1>0, <1>7, <2>1 DEF SavedInv, DatasetMetadata
<1>11. KeptInv'
  BY Zenon, <1>0, <1>6 DEF KeptInv
<1>12. ResolveInv'
  <2> SUFFICES ASSUME ~hurt PROVE ResolveInv'
    BY Zenon, <1>0 DEF ResolveInv
  <2>1. IsContent(cfile) => \A k \in DOMAIN cfile.refs : IsContent(dfile[cfile.refs[k].id])
    BY Zenon, <1>0, <1>6 DEF ResolveInv, Good
  <2>2. \A j \in DOMAIN dsets : dsets[j].status # "DIRTY" => IsContent(dfile[dsets[j].id])
    BY Zenon, <1>0, <1>6 DEF ResolveInv
  <2>3. ASSUME NEW j \in DOMAIN dsets PROVE Good(dsets[j].id)'
    <3>1. CASE dsets[j].status # "DIRTY"
      BY Zenon, <1>0, <2>2, <3>1 DEF Good, IsContent
    <3>2. CASE dsets[j].status = "DIRTY"
      <4>1. j + 1 \in DOMAIN job' /\ job'[j + 1].step = "dataset" /\ job'[j + 1].at = j
        BY <1>4, <1>5
      <4> QED BY Zenon, <1>0, <3>2, <4>1 DEF Good, Promised
    <3> QED BY Zenon, <3>1, <3>2
  <2> QED BY Zenon, <1>0, <2>1, <2>2, <2>3 DEF ResolveInv, Good, IsContent
<1> QED BY Zenon, <1>8, <1>9, <1>10, <1>11, <1>12 DEF ContainersInv

(* A job without writes begins: nothing else changes.                      *)
LEMMA NewJob ==
  ASSUME ContainersInv, job = <<>>, cont # None, job' \in Seq(Entries),
         \A n \in DOMAIN job' :
            /\ job'[n].step \in {"dataset", "delete", "remove"}
            /\ job'[n].step \in {"dataset", "delete"} => job'[n].at \in DOMAIN dsets
            /\ job'[n].step \in {"delete", "remove"} => hurt',
         hurt' \in BOOLEAN, hurt => hurt',
         UNCHANGED <<files, memory, unmarked, failed, written>>
  PROVE  ContainersInv'
<1>0. /\ TypeInv /\ IdsDiffer /\ JobInv /\ SavedInv /\ KeptInv /\ LoadedInv /\ ResolveInv
      /\ UNCHANGED <<cfile, dfile, cont, dsets, unmarked, failed, written>>
  BY Zenon DEF ContainersInv, files, memory
<1>1. \A f : ~Pending(f) /\ ~Promised(f)
  BY DEF Pending, Promised
<1>2. \A f : ~Pending(f)'
  <2>1. job' # <<>> => 1 \in DOMAIN job'
    BY Zenon, TailFacts
  <2> QED BY Zenon, <2>1 DEF Pending, FileSteps
<1>3. TypeInv' /\ IdsDiffer' /\ LoadedInv'
  BY Zenon, <1>0 DEF TypeInv, IdsDiffer, LoadedInv, IsContent
<1>4. JobInv'
  BY Zenon, <1>0 DEF JobInv, FileSteps
<1>5. SavedInv'
  BY Zenon, <1>0, <1>1 DEF SavedInv, ContainerMetadata
<1>6. KeptInv'
  BY Zenon, <1>0, <1>1 DEF KeptInv
<1>7. ResolveInv'
  <2> SUFFICES ASSUME ~hurt' PROVE ResolveInv'
    BY Zenon DEF ResolveInv
  <2>1. IsContent(cfile) => \A k \in DOMAIN cfile.refs : IsContent(dfile[cfile.refs[k].id])
    BY Zenon, <1>0, <1>1 DEF ResolveInv, Good
  <2>2. \A j \in DOMAIN dsets : dsets[j].status # "DIRTY" => IsContent(dfile[dsets[j].id])
    BY Zenon, <1>0, <1>1 DEF ResolveInv
  <2> QED BY Zenon, <1>0, <1>2, <2>1, <2>2 DEF ResolveInv, Good, IsContent
<1> QED BY Zenon, <1>3, <1>4, <1>5, <1>6, <1>7 DEF ContainersInv

LEMMA DatasetCommitKeeps ==
  ASSUME ContainersInv, NEW i \in DOMAIN dsets, DatasetCommit(i)
  PROVE  ContainersInv'
<1> DEFINE entry == [step |-> "dataset", at |-> i]
<1>1. entry \in Entries /\ entry.step = "dataset" /\ entry.at = i
  BY DEF ContainersInv, TypeInv, Entries
<1>2. /\ job = <<>> /\ job' = <<entry>> /\ cont # None /\ hurt' = hurt /\ hurt \in BOOLEAN
      /\ UNCHANGED <<files, memory, unmarked, failed, written>>
  BY DEF DatasetCommit, Open, ContainersInv, TypeInv, history
<1> HIDE DEF entry
<1>3. job' \in Seq(Entries) /\ \A n \in DOMAIN job' : job'[n] = entry
  BY <1>1, <1>2
<1> QED BY Zenon, <1>1, <1>2, <1>3, NewJob

LEMMA ContainerDeleteKeeps ==
  ASSUME ContainersInv, ContainerDelete
  PROVE  ContainersInv'
<1> DEFINE deletes == [i \in DOMAIN dsets |-> [step |-> "delete", at |-> i]]
           remove == [step |-> "remove"]
<1>1. /\ job = <<>> /\ job' = deletes \o <<remove>> /\ cont # None /\ hurt' = TRUE
      /\ UNCHANGED <<files, memory, unmarked, failed, written>>
  BY Zenon DEF ContainerDelete, Idle
<1>2. /\ deletes \in Seq(Entries) /\ DOMAIN deletes = DOMAIN dsets
      /\ \A n \in DOMAIN deletes : deletes[n].step = "delete" /\ deletes[n].at = n
  <2>1. DOMAIN dsets = 1..Len(dsets) /\ Len(dsets) \in Nat
    BY DEF ContainersInv, TypeInv
  <2>2. \A i \in DOMAIN dsets : [step |-> "delete", at |-> i] \in Entries
    BY <2>1 DEF Entries
  <2> QED BY <2>1, <2>2
<1>3. remove \in Entries /\ remove.step = "remove"
  BY Zenon DEF Entries
<1> HIDE DEF deletes, remove
<1>4. /\ job' \in Seq(Entries)
      /\ \A n \in DOMAIN job' : (n \in DOMAIN deletes /\ job'[n] = deletes[n]) \/ job'[n] = remove
  BY <1>1, <1>2, <1>3
<1>5. \A n \in DOMAIN job' :
        /\ job'[n].step \in {"dataset", "delete", "remove"}
        /\ job'[n].step \in {"dataset", "delete"} => job'[n].at \in DOMAIN dsets
  BY <1>2, <1>3, <1>4
<1> QED BY Zenon, <1>1, <1>4, <1>5, NewJob

LEMMA DatasetCreateKeeps ==
  ASSUME ContainersInv, NEW name \in Names, DatasetCreate(name)
  PROVE  ContainersInv'
<1>0. /\ TypeInv /\ IdsDiffer /\ JobInv /\ SavedInv /\ KeptInv /\ LoadedInv /\ ResolveInv
      /\ UNCHANGED <<cfile, dfile, job, unmarked, failed, written, hurt>>
      /\ job = <<>> /\ job' = <<>> /\ cont # None /\ cont \in ContainerRecords
      /\ cont' = [cont EXCEPT !.status = "DIRTY"]
  BY Zenon DEF ContainersInv, TypeInv, DatasetCreate, Idle, files, history
<1>1. PICK id \in Ids : /\ FreshId(id)
                        /\ dsets' = Append(dsets, [NewDataset(name, id) EXCEPT !.refcount = 1])
  BY Zenon DEF DatasetCreate
<1> DEFINE e == [NewDataset(name, id) EXCEPT !.refcount = 1]
           k == Len(dsets) + 1
<1>2. /\ e \in DatasetRecords /\ e.id = id /\ e.status = "DIRTY"
  <2>1. /\ NewDataset(name, id) \in DatasetRecords /\ NewDataset(name, id).id = id
        /\ NewDataset(name, id).status = "DIRTY"
    BY NewDatasetFacts
  <2> QED BY Zenon, <2>1 DEF DatasetRecords
<1>3. /\ cont' \in ContainerRecords /\ cont'.status = "DIRTY" /\ cont' # None
  <2>1. cont' \in ContainerRecords /\ cont'.status = "DIRTY"
    BY Zenon, <1>0 DEF ContainerRecords
  <2> QED BY Zenon, <2>1, ContainersAssumption
<1> HIDE DEF e
<1>4. /\ dsets' \in Seq(DatasetRecords) /\ dsets'[k] = e /\ k \in DOMAIN dsets'
      /\ \A j \in DOMAIN dsets' : j # k => j \in DOMAIN dsets /\ dsets'[j] = dsets[j]
      /\ \A j \in DOMAIN dsets : j \in DOMAIN dsets' /\ dsets'[j] = dsets[j]
  <2>1. dsets' = Append(dsets, e) /\ dsets \in Seq(DatasetRecords)
    BY Zenon, <1>0, <1>1 DEF TypeInv, e
  <2> QED BY <1>2, <2>1
<1> HIDE DEF k
<1>5. /\ \A f : ~Pending(f) /\ ~Pending(f)' /\ ~Promised(f)
      /\ \A j \in DOMAIN dsets : dsets[j].id # id
  BY <1>0, <1>1 DEF Pending, Promised, FreshId
<1>6. TypeInv'
  BY Zenon, <1>0, <1>3, <1>4 DEF TypeInv
<1>7. IdsDiffer' /\ LoadedInv' /\ JobInv'
  <2>1. \A i, j \in DOMAIN dsets' : dsets'[i].id = dsets'[j].id => i = j
    <3>1. \A i, j \in DOMAIN dsets : dsets[i].id = dsets[j].id => i = j
      BY Zenon, <1>0 DEF IdsDiffer
    <3> QED BY Zenon, <1>2, <1>4, <1>5, <3>1
  <2>2. LoadedInv'
    BY Zenon, <1>0, <1>2, <1>4 DEF LoadedInv
  <2> QED BY <1>0, <2>1, <2>2 DEF IdsDiffer, IsContent, JobInv
<1>8. SavedInv'
  <2>1. ASSUME NEW j \in DOMAIN dsets', dsets'[j].status = "PERSISTENT",
               dsets'[j].id \notin unmarked \cup failed
        PROVE  dfile[dsets'[j].id] = DatasetMetadata(dsets'[j])
    <3>1. j \in DOMAIN dsets /\ dsets'[j] = dsets[j]
      BY Zenon, <1>2, <1>4, <2>1
    <3> QED BY Zenon, <1>0, <1>5, <2>1, <3>1 DEF SavedInv
  <2> QED BY Zenon, <1>0, <1>3, <2>1 DEF SavedInv, DatasetMetadata
<1>9. KeptInv'
  <2>1. written[id] = {}
    BY Zenon, <1>0, <1>5 DEF KeptInv
  <2>2. ASSUME NEW j \in DOMAIN dsets'
        PROVE  /\ dsets'[j].status # "NOT_LOADED" => written[dsets'[j].id] \subseteq dsets'[j].frags
               /\ dsets'[j].status # "DIRTY" =>
                    written[dsets'[j].id] \subseteq OnDisk(dfile[dsets'[j].id])
    <3>1. CASE j = k
      BY Zenon, <1>2, <1>4, <2>1, <3>1
    <3>2. CASE j # k
      BY Zenon, <1>0, <1>4, <1>5, <3>2 DEF KeptInv
    <3> QED BY Zenon, <3>1, <3>2
  <2>3. \A id1 \in Ids : (\A j \in DOMAIN dsets' : dsets'[j].id # id1) => written[id1] = {}
    BY Zenon, <1>0, <1>4 DEF KeptInv
  <2> QED BY Zenon, <1>0, <2>2, <2>3 DEF KeptInv, OnDisk, IsContent
<1>10. ResolveInv'
  <2> SUFFICES ASSUME ~hurt PROVE ResolveInv'
    BY Zenon, <1>0 DEF ResolveInv
  <2>1. IsContent(cfile) => \A n \in DOMAIN cfile.refs : IsContent(dfile[cfile.refs[n].id])
    BY Zenon, <1>0, <1>5 DEF ResolveInv, Good
  <2>2. \A j \in DOMAIN dsets' : dsets'[j].status # "DIRTY" => IsContent(dfile[dsets'[j].id])
    BY Zenon, <1>0, <1>2, <1>4, <1>5 DEF ResolveInv
  <2> QED BY Zenon, <1>0, <1>5, <2>1, <2>2 DEF ResolveInv, Good, IsContent
<1> QED BY Zenon, <1>6, <1>7, <1>8, <1>9, <1>10 DEF ContainersInv


-----------------------------------------------------------------------------
(* The invariant holds at the start, and every call keeps it.              *)
LEMMA InitHolds == Init => ContainersInv
<1> SUFFICES ASSUME Init PROVE ContainersInv
  BY Zenon
<1>1. TypeInv
  <2>1. dfile \in [Ids -> DatasetContents \cup {Absent, Torn}] /\ written \in [Ids -> SUBSET Shapes]
    BY Zenon DEF Init
  <2>2. dsets \in Seq(DatasetRecords)
    <3>1. <<>> \in Seq(DatasetRecords)
      OBVIOUS
    <3> QED BY Zenon, <3>1 DEF Init
  <2> QED BY Zenon, <2>1, <2>2 DEF Init, TypeInv
<1>2. JobInv
  BY DEF Init, JobInv
<1>3. IdsDiffer /\ SavedInv /\ KeptInv /\ LoadedInv /\ ResolveInv
  BY DEF Init, IdsDiffer, SavedInv, KeptInv, LoadedInv, ResolveInv, IsContent, OnDisk
<1> QED BY Zenon, <1>1, <1>2, <1>3 DEF ContainersInv

LEMMA StutterKeeps ==
  ASSUME ContainersInv, UNCHANGED vars
  PROVE  ContainersInv'
<1>0. UNCHANGED <<cfile, dfile, cont, dsets, job, budget, unmarked, failed, written, hurt>>
  BY Zenon DEF vars
<1>1. TypeInv' /\ JobInv' /\ IdsDiffer' /\ LoadedInv'
  <2>1. TypeInv'
    BY ZenonT(60), <1>0 DEF ContainersInv, TypeInv
  <2>2. JobInv'
    BY ZenonT(60), <1>0 DEF ContainersInv, JobInv, ContainerMetadata, DatasetMetadata
  <2>3. IdsDiffer' /\ LoadedInv'
    BY Zenon, <1>0 DEF ContainersInv, IdsDiffer, LoadedInv, IsContent
  <2> QED BY Zenon, <2>1, <2>2, <2>3
<1>2. \A f : (Pending(f)' <=> Pending(f)) /\ (Promised(f)' <=> Promised(f)) /\ (Good(f)' <=> Good(f))
  BY Zenon, <1>0 DEF Pending, Promised, Good, IsContent
<1>3. SavedInv' /\ KeptInv' /\ ResolveInv'
  BY Zenon, <1>0, <1>2 DEF ContainersInv, SavedInv, KeptInv, ResolveInv, IsContent, OnDisk,
                    ContainerMetadata, DatasetMetadata
<1> QED BY Zenon, <1>1, <1>3 DEF ContainersInv

LEMMA NextKeeps ==
  ASSUME ContainersInv, [Next]_vars
  PROVE  ContainersInv'
<1>1. CASE UNCHANGED vars
  BY Zenon, <1>1, StutterKeeps
<1>2. ASSUME NEW overwrite \in BOOLEAN, ContainerCreate(overwrite) PROVE ContainersInv'
  BY Zenon, <1>2, ContainerCreateKeeps
<1>3. CASE ContainerOpen
  BY Zenon, <1>3, ContainerOpenKeeps
<1>4. CASE ContainerCommit
  BY Zenon, <1>4, ContainerCommitKeeps
<1>5. CASE ContainerClose
  BY Zenon, <1>5, ContainerCloseKeeps
<1>6. CASE ContainerLinkAttribute \/ ContainerDeleteAttribute
  BY Zenon, <1>6, ContainerAttributeKeeps
<1>7. CASE ContainerDelete
  BY Zenon, <1>7, ContainerDeleteKeeps
<1>8. ASSUME NEW name \in Names, DatasetCreate(name) PROVE ContainersInv'
  BY Zenon, <1>8, DatasetCreateKeeps
<1>9. ASSUME NEW i \in DOMAIN dsets,
             DatasetRef(i) \/ DatasetCommit(i) \/ DatasetClose(i) \/ DatasetDelete(i)
      PROVE  ContainersInv'
  BY Zenon, <1>9, DatasetRefKeeps, DatasetCommitKeeps, DatasetCloseKeeps, DatasetDeleteKeeps
<1>10. ASSUME NEW i \in DOMAIN dsets,
              \/ DatasetLinkAttribute(i) \/ DatasetDeleteAttribute(i) \/ SetFillValue(i)
              \/ NameDims(i)
       PROVE  ContainersInv'
  BY Zenon, <1>10, LinkAttributeKeeps, DeleteAttributeKeeps, SetFillValueKeeps, NameDimsKeeps
<1>11. ASSUME NEW i \in DOMAIN dsets, NEW name \in Names, Rename(i, name) \/ ChangeName(i, name)
       PROVE  ContainersInv'
  BY Zenon, <1>11, RenameKeeps, ChangeNameKeeps
<1>12. ASSUME NEW i \in DOMAIN dsets, NEW shape \in Shapes, WriteFragment(i, shape)
       PROVE  ContainersInv'
  BY Zenon, <1>12, WriteFragmentKeeps
<1>13. CASE CommitDataset \/ OpenEntry \/ WriteEntry
  BY Zenon, <1>13, CommitDatasetKeeps, OpenEntryKeeps, WriteEntryKeeps
<1>14. CASE DeleteNext \/ RemoveContainer \/ Crash
  BY Zenon, <1>14, DeleteNextKeeps, RemoveContainerKeeps, CrashKeeps
<1> QED BY Zenon, <1>1, <1>2, <1>3, <1>4, <1>5, <1>6, <1>7, <1>8, <1>9, <1>10, <1>11, <1>12, <1>13,
           <1>14 DEF Next

(* The inductive invariant of the metadata holds in every state: with any  *)
(* number of names, ids, fragments and references, and a crash or a failed *)
(* write at any point of any call.                                         *)
THEOREM MetadataInvariant == Spec => []ContainersInv
<1> QED BY InitHolds, NextKeeps, PTL DEF Spec

(* What esdm_container_commit() and esdm_dataset_commit() leave marked     *)
(* PERSISTENT is in the file as it is in memory, between any two calls.    *)
THEOREM SavedIsClean == Spec => []CleanMeansSaved
<1>1. ContainersInv => CleanMeansSaved
  <2> SUFFICES ASSUME ContainersInv, job = <<>>, cont # None PROVE CleanMeansSaved
    BY Zenon DEF CleanMeansSaved
  <2>1. SavedInv /\ \A f : ~Pending(f)
    BY Zenon DEF ContainersInv, Pending
  <2> QED BY Zenon, <2>1 DEF SavedInv, CleanMeansSaved
<1> QED BY <1>1, MetadataInvariant, PTL

(* A fragment that was written with success is in memory or on disk until  *)
(* it is deleted, however often esdm_dataset_close() unloads its dataset.  *)
THEOREM NothingWrittenIsLost == Spec => []WrittenKept
<1>1. ContainersInv => WrittenKept
  <2> SUFFICES ASSUME ContainersInv, NEW i \in DOMAIN dsets
               PROVE  written[dsets[i].id] \subseteq
                        IF dsets[i].status # "NOT_LOADED" THEN dsets[i].frags
                        ELSE IF IsContent(dfile[dsets[i].id]) THEN dfile[dsets[i].id].frags ELSE {}
    BY Zenon DEF WrittenKept
  <2>1. dsets[i].id \in Ids /\ dsets[i].id # "c"
    <3>1. dsets \in Seq(DatasetRecords)
      BY Zenon DEF ContainersInv, TypeInv
    <3>2. dsets[i] \in DatasetRecords
      BY Zenon, <3>1, ElementFacts
    <3> QED BY Zenon, <3>2, ContainersAssumption DEF DatasetRecords
  <2>2. dsets[i].status = "NOT_LOADED" => ~Pending(dsets[i].id)
    <3> SUFFICES ASSUME Pending(dsets[i].id) PROVE dsets[i].status = "PERSISTENT"
      BY Zenon
    <3>1. 1 \in DOMAIN job /\ job[1].step \in FileSteps /\ job[1].file = dsets[i].id
      BY Zenon, TailFacts DEF ContainersInv, JobInv, Pending
    <3>2. \E j \in DOMAIN dsets : dsets[j].id = dsets[i].id /\ dsets[j].status = "PERSISTENT"
      BY Zenon, <2>1, <3>1 DEF ContainersInv, JobInv
    <3> QED BY Zenon, <3>2 DEF ContainersInv, IdsDiffer
  <2> QED BY Zenon, <2>2 DEF ContainersInv, KeptInv, OnDisk
<1> QED BY <1>1, MetadataInvariant, PTL

(* A reference that esdm_dataset_ref() returned is good, and so are the    *)
(* references in the container's file, unless a commit was interrupted.    *)
THEOREM ReferencesStayValid == Spec => []ReferencesValid
<1>1. ContainersInv => ReferencesValid
  <2> SUFFICES ASSUME ContainersInv PROVE ReferencesValid
    BY Zenon
  <2>1. \A i \in DOMAIN dsets :
          dsets[i].refcount > 0 => dsets[i].status # "NOT_LOADED" /\ cont # None
    BY DEF ContainersInv, TypeInv, LoadedInv
  <2>2. job = <<>> /\ ~hurt /\ IsContent(cfile) =>
          \A i \in DOMAIN cfile.refs : IsContent(dfile[cfile.refs[i].id])
    <3>1. ASSUME job = <<>> PROVE \A id : ~Promised(id)
      <4>1. DOMAIN job = {}
        BY ONLY <3>1
      <4> QED BY Zenon, <3>1, <4>1 DEF Promised, Pending
    <3> QED BY Zenon, <3>1 DEF ContainersInv, ResolveInv, Good
  <2> QED BY Zenon, <2>1, <2>2 DEF ReferencesValid
<1> QED BY <1>1, MetadataInvariant, PTL
=============================================================================
