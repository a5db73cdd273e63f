---------------------------- MODULE FileBackends ----------------------------
(***************************************************************************)
(* The data backends that store a fragment as a file or an object of its   *)
(* own: POSIX, IME, PMEM, S3, and DUMMY, which stores nothing.  Every      *)
(* fragment is handled by one thread at a time, but the threads (and other *)
(* processes on the same storage) run concurrently.  A call of a backend   *)
(* is the sequence of the system calls it makes; what happens between two  *)
(* of them is up to the others.                                            *)
(*                                                                         *)
(* write() and read() errors end the process (ESDM_ERROR exits), as        *)
(* anything else may: see Crash.  Fragments are told apart by their        *)
(* content <<fragment, version>>; version 0 is what a file holds that was  *)
(* created or truncated, and not written yet.                              *)
(***************************************************************************)
EXTENDS Naturals, Sequences, Fragments

CONSTANTS Ids, DirOf, Absent

ASSUME FileAssumption == None \notin Ids /\ Absent \notin Frags \X Nat

Kinds == {"POSIX", "IME", "PMEM", "S3", "DUMMY"}

VARIABLES kind,    \* the backend
          fid,     \* fragment->id
          file,    \* the file or object of an id
          dirs,    \* the directories that exist (S3: the bucket)
          op,      \* the system calls still to be made for a fragment
          done,    \* the call for a fragment that returned last, and its success
          version, \* what is in the buffer of the fragment
          stored,  \* the version stored last; 0: none
          torn,    \* history: fragments whose file was truncated, not written
          got,     \* the version the last retrieve brought
          crashed

fileVars == <<kind, fid, file, dirs, op, done, version, stored, torn, got, crashed>>

disk == <<file, dirs>>
history == <<version, stored, torn, got, crashed>>

FileInit ==
  /\ kind \in Kinds
  /\ fid = [f \in Frags |-> None] /\ file = [i \in Ids |-> Absent] /\ dirs = {}
  /\ op = [f \in Frags |-> <<>>] /\ done = [f \in Frags |-> <<"none", TRUE>>]
  /\ version = [f \in Frags |-> 1] /\ stored = [f \in Frags |-> 0]
  /\ got = [f \in Frags |-> 0] /\ torn = {} /\ crashed = FALSE

Files == kind \in {"POSIX", "IME", "PMEM"}
At(f, step) == op[f] # <<>> /\ Head(op[f]) = step
Go(f) == op' = [op EXCEPT ![f] = Tail(@)] /\ UNCHANGED done
Return(f, success) ==
  /\ op' = [op EXCEPT ![f] = <<>>]
  /\ done' = [done EXCEPT ![f] = <<@[1], success>>]

-----------------------------------------------------------------------------
(* fragment_update() and fragment_write_stream_blocksize()                 *)

(* A new file, written at once or (a stream) in two chunks.                *)
NewFile == <<"id", "mkdir", "create", "write", "success">>
NewStream == <<"id", "mkdir", "create", "chunk", "write", "success">>

PosixUpdate(f) ==
  IF fid[f] = None THEN <<"pack", "id", "mkdir", "create", "write", "success">>
                   ELSE <<"pack", "truncate", "write", "success">>

(* The chunks of a stream come in calls of their own.                      *)
PosixStream(f) ==
  IF fid[f] = None THEN NewStream ELSE <<"truncate", "chunk", "write", "success">>

ImeUpdate(f) ==
  IF fid[f] = None THEN NewFile ELSE <<"truncate", "write", "success">>

(* pmem_map_file() takes no length for a file that it does not create.     *)
PmemUpdate(f) ==
  IF fid[f] = None THEN NewFile ELSE <<"error">>

S3Update(f) ==
  IF fid[f] = None THEN <<"unusedid", "put", "bucket", "putagain", "success">>
                   ELSE <<"put", "bucket", "putagain", "success">>

DummyUpdate(f) == IF fid[f] = None THEN <<"unusedid", "success">> ELSE <<"success">>

(* Mutant: a fragment that has an id gets a new one.                       *)
StartUpdateAlwaysNew(f) ==
  /\ op[f] = <<>> /\ version[f] # stored[f]
  /\ op' = [op EXCEPT ![f] = NewFile]
  /\ done' = [done EXCEPT ![f] = <<"update", FALSE>>]
  /\ got' = [got EXCEPT ![f] = 0]
  /\ UNCHANGED <<kind, fid, disk, version, stored, torn, crashed>>

StartUpdate(f) ==
  /\ op[f] = <<>> /\ version[f] # stored[f]
  /\ \E program \in CASE kind = "POSIX" -> {PosixUpdate(f), PosixStream(f)}
                      [] kind = "IME" -> {ImeUpdate(f)}
                      [] kind = "PMEM" -> {PmemUpdate(f)}
                      [] kind = "S3" -> {S3Update(f)}
                      [] kind = "DUMMY" -> {DummyUpdate(f)} :
       op' = [op EXCEPT ![f] = program]
  /\ done' = [done EXCEPT ![f] = <<"update", FALSE>>]
  /\ got' = [got EXCEPT ![f] = 0]
  /\ UNCHANGED <<kind, fid, disk, version, stored, torn, crashed>>

(* estream_mem_pack_fragment(): the compression may fail.                  *)
Pack(f) ==
  /\ At(f, "pack") /\ (Go(f) \/ Return(f, FALSE))
  /\ UNCHANGED <<kind, fid, disk, history>>

(* Ids carry 128 random bits.  The model lets one be drawn twice, which    *)
(* create_posix_id() handles, but not together with a deletion, or a call  *)
(* that failed and left an id without a file.                              *)
Alone(f) == \A g \in Frags \ {f} : fid[g] # fid[f]

Creates(f) == \E n \in DOMAIN op[f] : op[f][n] = "create"

MakeId(f) ==
  /\ At(f, "id") /\ Go(f)
  /\ \E id \in Ids :
       /\ \A g \in Frags : fid[g] = id => /\ file[id] # Absent \/ Creates(g)
                                         /\ done[g][1] # "delete"
       /\ fid' = [fid EXCEPT ![f] = id]
  /\ UNCHANGED <<kind, disk, history>>

MakeUnusedId(f) ==
  /\ At(f, "unusedid") /\ Go(f)
  /\ \E id \in Ids : /\ \A g \in Frags : fid[g] # id
                     /\ fid' = [fid EXCEPT ![f] = id]
  /\ UNCHANGED <<kind, disk, history>>

(* stat() and mkdir_recursive(): "exists already" is no error.             *)
Mkdir(f) ==
  /\ At(f, "mkdir")
  /\ \/ Go(f) /\ dirs' = dirs \cup {DirOf[fid[f]]}
     \/ DirOf[fid[f]] \notin dirs /\ Alone(f) /\ Return(f, FALSE) /\ UNCHANGED dirs
  /\ UNCHANGED <<kind, fid, file, history>>

(* Mutant: open() without O_EXCL.                                          *)
CreateShared(f) ==
  /\ At(f, "create")
  /\ IF DirOf[fid[f]] \in dirs THEN Go(f) /\ file' = [file EXCEPT ![fid[f]] = <<f, 0>>]
                               ELSE Return(f, FALSE) /\ UNCHANGED file
  /\ UNCHANGED <<kind, fid, dirs, history>>

(* open() with O_CREAT | O_EXCL.  The directory may be gone by now; where  *)
(* the file exists, another id is tried.                                   *)
Create(f) ==
  /\ At(f, "create")
  /\ \/ /\ DirOf[fid[f]] \in dirs /\ file[fid[f]] = Absent
        /\ Go(f) /\ file' = [file EXCEPT ![fid[f]] = <<f, 0>>] /\ UNCHANGED fid
     \/ /\ DirOf[fid[f]] \in dirs /\ file[fid[f]] # Absent
        /\ op' = [op EXCEPT ![f] = IF @[2] = "chunk" THEN NewStream ELSE NewFile]
        /\ fid' = [fid EXCEPT ![f] = None] /\ UNCHANGED <<file, done>>
     \/ DirOf[fid[f]] \notin dirs /\ Alone(f) /\ Return(f, FALSE) /\ UNCHANGED <<file, fid>>
  /\ UNCHANGED <<kind, dirs, history>>

(* entry_update(): open() with O_TRUNC.                                    *)
Truncate(f) ==
  /\ At(f, "truncate")
  /\ IF file[fid[f]] = Absent
     THEN Return(f, FALSE) /\ UNCHANGED <<file, torn>>
     ELSE Go(f) /\ file' = [file EXCEPT ![fid[f]] = <<f, 0>>] /\ torn' = torn \cup {f}
  /\ UNCHANGED <<kind, fid, dirs, version, stored, got, crashed>>

(* All but the last chunk of a stream.                                     *)
Chunk(f) ==
  /\ At(f, "chunk") /\ Go(f) /\ UNCHANGED <<kind, fid, disk, history>>

Write(f) ==
  /\ At(f, "write") /\ Go(f)
  /\ file' = [file EXCEPT ![fid[f]] = IF @ = Absent THEN Absent ELSE <<f, version[f]>>]
  /\ stored' = [stored EXCEPT ![f] = version[f]] /\ torn' = torn \ {f}
  /\ UNCHANGED <<kind, fid, dirs, version, got, crashed>>

Succeed(f) ==
  /\ At(f, "success") /\ Return(f, TRUE)
  /\ stored' = IF done[f][1] = "update" THEN [stored EXCEPT ![f] = version[f]] ELSE stored
  /\ UNCHANGED <<kind, fid, disk, version, torn, got, crashed>>

Fail(f) ==
  /\ At(f, "error") /\ Return(f, FALSE) /\ UNCHANGED <<kind, fid, disk, history>>

(* S3_put_object(): done, or not; then the bucket is created, and the same *)
(* request made again.  Data that the first request took is not sent       *)
(* again: the second one, too short, fails.                                *)
Put(f) ==
  /\ At(f, "put")
  /\ \/ /\ "bucket" \in dirs /\ file' = [file EXCEPT ![fid[f]] = <<f, version[f]>>]
        /\ stored' = [stored EXCEPT ![f] = version[f]]
        /\ op' = [op EXCEPT ![f] = <<"success">>]
     \/ \E consumed \in BOOLEAN :
          /\ op' = [op EXCEPT ![f] = IF consumed THEN <<"bucket", "error">> ELSE Tail(@)]
          /\ UNCHANGED <<file, stored>>
  /\ UNCHANGED <<kind, fid, dirs, done, version, torn, got, crashed>>

CreateBucket(f) ==
  /\ At(f, "bucket")
  /\ \/ Go(f) /\ dirs' = dirs \cup {"bucket"}
     \/ Return(f, FALSE) /\ UNCHANGED dirs
  /\ UNCHANGED <<kind, fid, file, history>>

PutAgain(f) ==
  /\ At(f, "putagain")
  /\ \/ /\ Go(f) /\ file' = [file EXCEPT ![fid[f]] = <<f, version[f]>>]
        /\ stored' = [stored EXCEPT ![f] = version[f]]
     \/ Return(f, FALSE) /\ UNCHANGED <<file, stored>>
  /\ UNCHANGED <<kind, fid, dirs, version, torn, got, crashed>>

-----------------------------------------------------------------------------
(* fragment_retrieve()                                                     *)

PosixRetrieve == <<"read", "unpack", "success">>

(* The data is copied to the buffer whether it was read or not.            *)
ImeRetrieve == <<"readandcopy", "success">>
PmemRetrieve == <<"readandcopy", "success">>

S3Retrieve == <<"read", "success">>
DummyRetrieve == <<"success">>

(* Mutant: the result of entry_retrieve() is not looked at.                *)
ReadUnchecked(f) ==
  /\ At(f, "read") /\ Go(f)
  /\ got' = [got EXCEPT ![f] = IF file[fid[f]] = Absent THEN 0 ELSE file[fid[f]][2]]
  /\ UNCHANGED <<kind, fid, disk, version, stored, torn, crashed>>

StartRetrieve(f) ==
  /\ op[f] = <<>> /\ stored[f] # 0
  /\ op' = [op EXCEPT ![f] = CASE kind = "POSIX" -> PosixRetrieve
                               [] kind = "IME" -> ImeRetrieve
                               [] kind = "PMEM" -> PmemRetrieve
                               [] kind = "S3" -> S3Retrieve
                               [] kind = "DUMMY" -> DummyRetrieve]
  /\ done' = [done EXCEPT ![f] = <<"retrieve", FALSE>>]
  /\ UNCHANGED <<kind, fid, disk, history>>

(* A file that is missing or too short is an error.                        *)
Readable(f) == file[fid[f]] # Absent /\ file[fid[f]][2] # 0

Read(f) ==
  /\ At(f, "read")
  /\ IF Readable(f) THEN Go(f) /\ got' = [got EXCEPT ![f] = file[fid[f]][2]]
                    ELSE Return(f, FALSE) /\ UNCHANGED got
  /\ UNCHANGED <<kind, fid, disk, version, stored, torn, crashed>>

ReadAndCopy(f) ==
  /\ At(f, "readandcopy")
  /\ got' = [got EXCEPT ![f] = IF Readable(f) THEN file[fid[f]][2] ELSE 0]
  /\ IF Readable(f) THEN Go(f) ELSE Return(f, FALSE)
  /\ UNCHANGED <<kind, fid, disk, version, stored, torn, crashed>>

(* estream_mem_unpack_fragment(): the decompression may fail.              *)
Unpack(f) ==
  /\ At(f, "unpack") /\ (Go(f) \/ Return(f, FALSE))
  /\ UNCHANGED <<kind, fid, disk, history>>

-----------------------------------------------------------------------------
(* fragment_delete()                                                       *)

PosixDelete(f) == IF fid[f] = None THEN <<"error">> ELSE <<"unlink", "rmdir", "forget">>
ImeDelete(f) == IF fid[f] = None THEN <<"error">> ELSE <<"unlink", "rmdir", "forget">>
PmemDelete(f) == IF fid[f] = None THEN <<"error">> ELSE <<"unlink", "rmdir", "forget">>
S3Delete == <<"forget">>
DummyDelete == <<"forget">>

StartDelete(f) ==
  /\ op[f] = <<>> /\ (fid[f] = None \/ Alone(f))
  /\ op' = [op EXCEPT ![f] = CASE kind = "POSIX" -> PosixDelete(f)
                               [] kind = "IME" -> ImeDelete(f)
                               [] kind = "PMEM" -> PmemDelete(f)
                               [] kind = "S3" -> S3Delete
                               [] kind = "DUMMY" -> DummyDelete]
  /\ done' = [done EXCEPT ![f] = <<"delete", FALSE>>]
  /\ got' = [got EXCEPT ![f] = 0]
  /\ UNCHANGED <<kind, fid, disk, version, stored, torn, crashed>>

Unlink(f) ==
  /\ At(f, "unlink")
  /\ IF file[fid[f]] = Absent
     THEN Return(f, FALSE) /\ UNCHANGED <<file, stored, torn>>
     ELSE /\ Go(f) /\ file' = [file EXCEPT ![fid[f]] = Absent]
          /\ stored' = [stored EXCEPT ![f] = 0] /\ torn' = torn \ {f}
  /\ UNCHANGED <<kind, fid, dirs, version, got, crashed>>

(* A directory that is not empty stays, and the call fails.                *)
Rmdir(f) ==
  /\ At(f, "rmdir")
  /\ IF DirOf[fid[f]] \in dirs /\ \A i \in Ids : DirOf[i] = DirOf[fid[f]] => file[i] = Absent
     THEN Go(f) /\ dirs' = dirs \ {DirOf[fid[f]]}
     ELSE Return(f, FALSE) /\ UNCHANGED dirs
  /\ UNCHANGED <<kind, fid, file, history>>

(* The caller destroys the fragment.                                       *)
DestroyFragment(f) ==
  /\ At(f, "forget") /\ Return(f, TRUE)
  /\ fid' = [fid EXCEPT ![f] = None] /\ stored' = [stored EXCEPT ![f] = 0]
  /\ UNCHANGED <<kind, disk, version, torn, got, crashed>>

-----------------------------------------------------------------------------
(* The application changes the data of a fragment.                         *)
ChangeData(f) ==
  /\ op[f] = <<>> /\ version[f] < MaxVersion
  /\ version' = [version EXCEPT ![f] = @ + 1]
  /\ UNCHANGED <<kind, fid, disk, op, done, stored, torn, got, crashed>>

(* The process ends; of the fragments the metadata knows the stored ones.  *)
Crash ==
  /\ ~crashed /\ crashed' = TRUE
  /\ op' = [f \in Frags |-> <<>>] /\ done' = [f \in Frags |-> <<"none", TRUE>>]
  /\ fid' = [f \in Frags |-> IF stored[f] # 0 THEN fid[f] ELSE None]
  /\ UNCHANGED <<kind, disk, version, stored, torn, got>>

FileStep(f) ==
  \/ Pack(f) \/ MakeId(f) \/ MakeUnusedId(f) \/ Mkdir(f) \/ Create(f) \/ Truncate(f)
  \/ Chunk(f) \/ Write(f) \/ Put(f) \/ CreateBucket(f) \/ PutAgain(f)
  \/ Read(f) \/ ReadAndCopy(f) \/ Unpack(f)
  \/ Unlink(f) \/ Rmdir(f) \/ DestroyFragment(f) \/ Succeed(f) \/ Fail(f)

FileNext ==
  \/ \E f \in Frags :
       StartUpdate(f) \/ StartRetrieve(f) \/ StartDelete(f) \/ ChangeData(f) \/ FileStep(f)
  \/ Crash

FileSpec == FileInit /\ [][FileNext]_fileVars

-----------------------------------------------------------------------------
(* What was stored stays: the file of a fragment whose update succeeded    *)
(* holds this version of this fragment, whatever the threads of the other  *)
(* fragments do, until the fragment itself is updated or deleted.  Ids are *)
(* claimed with O_EXCL, and rmdir() leaves a directory in use.  And no     *)
(* file is left behind: as long as the process lives, a file belongs to a  *)
(* fragment that has its id, and can be deleted.  (S3 deletes no object.)  *)
FilesKept ==
  /\ kind # "DUMMY" =>
       \A f \in Frags :
          (stored[f] # 0 /\ f \notin torn) => fid[f] # None /\ file[fid[f]] = <<f, stored[f]>>
  /\ Files /\ ~crashed =>
       \A i \in Ids : file[i] # Absent => fid[file[i][1]] = i

(* A retrieve that succeeds brings the version stored last; a file that a  *)
(* crash left truncated makes it fail.                                     *)
RetrieveCorrect ==
  kind # "DUMMY" =>
    \A f \in Frags : done[f] = <<"retrieve", TRUE>> => got[f] = stored[f] /\ got[f] # 0
=============================================================================
