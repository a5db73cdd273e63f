------------------------ MODULE FileBackends_proofs ------------------------
(***************************************************************************)
(* The backends with a file or an object per fragment, for any number of   *)
(* fragments, ids and directories: what was stored stays, no file is left  *)
(* behind (FilesStayKept), and a retrieve that succeeds brings what was    *)
(* stored (RetrievesCorrect).                                              *)
(***************************************************************************)
EXTENDS FileBackends, TLAPS

(* What may remain of a call, by what it means for the fragment's id and   *)
(* file: an update that has no id yet, one that has an id and no file, one *)
(* that has its file open, one of a fragment that has an id, ...           *)
NoId == {<<"pack", "id", "mkdir", "create", "write", "success">>,
         <<"id", "mkdir", "create", "write", "success">>,
         <<"id", "mkdir", "create", "chunk", "write", "success">>}
NoFile == {<<"mkdir", "create", "write", "success">>,
           <<"mkdir", "create", "chunk", "write", "success">>,
           <<"create", "write", "success">>,
           <<"create", "chunk", "write", "success">>}
OpenFile == {<<"chunk", "write", "success">>, <<"write", "success">>}
Rewrite == {<<"pack", "truncate", "write", "success">>,
            <<"truncate", "write", "success">>,
            <<"truncate", "chunk", "write", "success">>}
(* ... a retrieve, before and after the file was read, a delete, before    *)
(* and after the file was unlinked, and the end of a call.                 *)
BeforeRead == {<<"read", "unpack", "success">>, <<"readandcopy", "success">>, <<"read", "success">>}
AfterRead == {<<"unpack", "success">>}
BeforeUnlink == {<<"unlink", "rmdir", "forget">>}
AfterUnlink == {<<"rmdir", "forget">>, <<"forget">>}
LastStep == {<<"success">>}
Over == {<<>>, <<"error">>}

FileOps == NoId \cup NoFile \cup OpenFile \cup Rewrite \cup BeforeRead \cup AfterRead
           \cup BeforeUnlink \cup AfterUnlink \cup LastStep \cup Over

Calls == {"none", "update", "retrieve", "delete"}
Contents == Frags \X Nat

TypeInv ==
  /\ kind \in {"POSIX", "IME", "PMEM"}
  /\ fid \in [Frags -> Ids \cup {None}]
  /\ file \in [Ids -> Contents \cup {Absent}]
  /\ op \in [Frags -> FileOps]
  /\ done \in [Frags -> Calls \X BOOLEAN]
  /\ version \in [Frags -> Nat \ {0}]
  /\ stored \in [Frags -> Nat]
  /\ got \in [Frags -> Nat]
  /\ torn \in SUBSET Frags

Creating(f) == op[f] \in NoId \cup NoFile
Deleting(f) == op[f] \in BeforeUnlink \cup AfterUnlink

(* What is known of the id and the file of a fragment.  Once the file is   *)
(* created the fragment has its id to itself: another one with this id is  *)
(* still on its way to open(), where O_EXCL stops it.                      *)
IdInv(f) ==
  /\ op[f] \in NoId => fid[f] = None
  /\ op[f] \in NoFile \cup OpenFile \cup Rewrite => fid[f] # None
  /\ Creating(f) => stored[f] = 0 /\ f \notin torn
  /\ op[f] \in OpenFile => file[fid[f]] # Absent
  /\ op[f] \in AfterUnlink => file[fid[f]] = Absent
  /\ Deleting(f) => fid[f] # None /\ done[f][1] = "delete" /\ Alone(f)
  /\ fid[f] # None /\ ~Creating(f) /\ file[fid[f]] # Absent =>
       file[fid[f]][1] = f /\ (op[f] \in OpenFile \/ stored[f] # 0)

(* What is known of the data that was stored, or read.                     *)
DataInv(f) ==
  /\ stored[f] # 0 => fid[f] # None
  /\ stored[f] # 0 /\ f \notin torn => file[fid[f]] = <<f, stored[f]>>
  /\ f \in torn => stored[f] # 0 /\ file[fid[f]] = <<f, 0>>
  /\ op[f] \in NoId \cup NoFile \cup OpenFile \cup Rewrite => done[f][1] = "update"
  /\ op[f] \in LastStep /\ done[f][1] = "update" => stored[f] = version[f]
  /\ op[f] \in BeforeRead => stored[f] # 0 /\ done[f][1] = "retrieve"
  /\ op[f] \in AfterRead => done[f][1] = "retrieve"
  /\ op[f] \in AfterRead \cup LastStep /\ done[f][1] = "retrieve" => got[f] = stored[f] /\ got[f] # 0
  /\ done[f] = <<"retrieve", TRUE>> => op[f] = <<>> /\ got[f] = stored[f] /\ got[f] # 0

SameIdInv ==
  \A f, g \in Frags : fid[f] # None /\ fid[g] = fid[f] /\ f # g /\ ~Creating(f) => file[fid[f]] # Absent

(* A directory with a file in it is there; as long as the process lives a  *)
(* file is that of a fragment that knows it.                               *)
DiskInv ==
  /\ \A i \in Ids : file[i] # Absent => DirOf[i] \in dirs
  /\ ~crashed => \A i \in Ids, f \in Frags :
                   file[i] # Absent /\ file[i][1] = f => fid[f] = i /\ ~Creating(f)

FileInv == TypeInv /\ SameIdInv /\ DiskInv /\ \A f \in Frags : IdInv(f) /\ DataInv(f)

-----------------------------------------------------------------------------
(* S3: the id of a fragment is its own; an object of a fragment that was   *)
(* forgotten stays behind.                                                 *)
NewObject == {<<"unusedid", "put", "bucket", "putagain", "success">>}
HasId == {<<"put", "bucket", "putagain", "success">>,
          <<"bucket", "putagain", "success">>, <<"putagain", "success">>}
ReadObject == {<<"read", "success">>}
Forget == {<<"forget">>}
S3Rest == {<<"bucket", "error">>, <<"error">>, <<>>}

S3Ops == NewObject \cup HasId \cup ReadObject \cup LastStep \cup Forget \cup S3Rest

S3Type ==
  /\ kind = "S3"
  /\ fid \in [Frags -> Ids \cup {None}]
  /\ file \in [Ids -> Contents \cup {Absent}]
  /\ op \in [Frags -> S3Ops]
  /\ done \in [Frags -> Calls \X BOOLEAN]
  /\ version \in [Frags -> Nat \ {0}]
  /\ stored \in [Frags -> Nat]
  /\ got \in [Frags -> Nat]
  /\ torn = {}

S3Data(f) ==
  /\ op[f] \in NewObject => stored[f] = 0
  /\ op[f] \in HasId => fid[f] # None
  /\ op[f] \in NewObject \cup HasId => done[f][1] = "update"
  /\ op[f] \in Forget => done[f][1] = "delete"
  /\ stored[f] # 0 => fid[f] # None /\ file[fid[f]] = <<f, stored[f]>>
  /\ op[f] \in ReadObject => stored[f] # 0 /\ done[f][1] = "retrieve"
  /\ op[f] \in LastStep /\ done[f][1] = "update" => stored[f] = version[f]
  /\ op[f] \in LastStep /\ done[f][1] = "retrieve" => got[f] = stored[f] /\ got[f] # 0
  /\ done[f] = <<"retrieve", TRUE>> => op[f] = <<>> /\ got[f] = stored[f] /\ got[f] # 0

OwnIds == \A f, g \in Frags : fid[f] # None /\ fid[g] = fid[f] => f = g

S3Inv == S3Type /\ OwnIds /\ \A f \in Frags : S3Data(f)

BackendInv == kind = "DUMMY" \/ FileInv \/ S3Inv

-----------------------------------------------------------------------------
(* The phases of a call: what a step leaves to be done.  Every lemma is    *)
(* about one system call.                                                  *)
(* A call is in one phase.                                                 *)
LEMMA Phases ==
  /\ \A o \in NoId : o \notin NoFile \cup OpenFile \cup Rewrite \cup BeforeRead \cup AfterRead \cup BeforeUnlink \cup AfterUnlink \cup LastStep \cup Over
  /\ \A o \in NoFile : o \notin OpenFile \cup Rewrite \cup BeforeRead \cup AfterRead \cup BeforeUnlink \cup AfterUnlink \cup LastStep \cup Over
  /\ \A o \in OpenFile : o \notin Rewrite \cup BeforeRead \cup AfterRead \cup BeforeUnlink \cup AfterUnlink \cup LastStep \cup Over
  /\ \A o \in Rewrite : o \notin BeforeRead \cup AfterRead \cup BeforeUnlink \cup AfterUnlink \cup LastStep \cup Over
  /\ \A o \in BeforeRead : o \notin AfterRead \cup BeforeUnlink \cup AfterUnlink \cup LastStep \cup Over
  /\ \A o \in AfterRead : o \notin BeforeUnlink \cup AfterUnlink \cup LastStep \cup Over
  /\ \A o \in BeforeUnlink : o \notin AfterUnlink \cup LastStep \cup Over
  /\ \A o \in AfterUnlink : o \notin LastStep \cup Over
  /\ \A o \in LastStep : o \notin Over
  <1> USE DEF NoId, NoFile, OpenFile, Rewrite, BeforeRead, AfterRead, BeforeUnlink, AfterUnlink, LastStep, Over
  <1>1. \A o \in NoId : o \notin NoFile \cup OpenFile \cup Rewrite \cup BeforeRead \cup AfterRead \cup BeforeUnlink \cup AfterUnlink \cup LastStep \cup Over
     OBVIOUS
  <1>2. \A o \in NoFile : o \notin OpenFile \cup Rewrite \cup BeforeRead \cup AfterRead \cup BeforeUnlink \cup AfterUnlink \cup LastStep \cup Over
     OBVIOUS
  <1>3. \A o \in OpenFile : o \notin Rewrite \cup BeforeRead \cup AfterRead \cup BeforeUnlink \cup AfterUnlink \cup LastStep \cup Over
     OBVIOUS
  <1>4. \A o \in Rewrite : o \notin BeforeRead \cup AfterRead \cup BeforeUnlink \cup AfterUnlink \cup LastStep \cup Over
     OBVIOUS
  <1>5. \A o \in BeforeRead : o \notin AfterRead \cup BeforeUnlink \cup AfterUnlink \cup LastStep \cup Over
     OBVIOUS
  <1>6. \A o \in AfterRead : o \notin BeforeUnlink \cup AfterUnlink \cup LastStep \cup Over
     OBVIOUS
  <1>7. \A o \in BeforeUnlink : o \notin AfterUnlink \cup LastStep \cup Over
     OBVIOUS
  <1>8. \A o \in AfterUnlink : o \notin LastStep \cup Over
     OBVIOUS
  <1>9. \A o \in LastStep : o \notin Over
     OBVIOUS
  <1> HIDE DEF NoId, NoFile, OpenFile, Rewrite, BeforeRead, AfterRead, BeforeUnlink, AfterUnlink, LastStep, Over
  <1> QED BY ONLY Zenon, <1>1, <1>2, <1>3, <1>4, <1>5, <1>6, <1>7, <1>8, <1>9

(* Estream_mem_pack_fragment() is the first step of an update.             *)
LEMMA Packs ==
  ASSUME NEW o \in FileOps, o # <<>>, Head(o) = "pack"
  PROVE  (o \in NoId /\ Tail(o) \in NoId) \/ (o \in Rewrite /\ Tail(o) \in Rewrite)
  <1> DEFINE p1 == <<"pack", "id", "mkdir", "create", "write", "success">>
  <1> DEFINE p2 == <<"pack", "truncate", "write", "success">>
  <1>1. o = p1 \/ o = p2
    BY DEF FileOps, NoId, NoFile, OpenFile, Rewrite, BeforeRead, AfterRead, BeforeUnlink,
           AfterUnlink, LastStep, Over
  <1>2. Tail(p1) = <<"id", "mkdir", "create", "write", "success">>
    OBVIOUS
  <1>3. p1 \in NoId /\ Tail(p1) \in NoId
    BY <1>2, Zenon DEF NoId
  <1>4. Tail(p2) = <<"truncate", "write", "success">>
    OBVIOUS
  <1>5. p2 \in Rewrite /\ Tail(p2) \in Rewrite
    BY <1>4, Zenon DEF Rewrite
  <1> HIDE DEF p1, p2
  <1> QED
    BY <1>1, <1>3, <1>5, Zenon

(* The id is drawn where there is none.                                    *)
LEMMA DrawsId ==
  ASSUME NEW o \in FileOps, o # <<>>, Head(o) = "id"
  PROVE  o \in NoId /\ Tail(o) \in NoFile
  <1> DEFINE p1 == <<"id", "mkdir", "create", "write", "success">>
  <1> DEFINE p2 == <<"id", "mkdir", "create", "chunk", "write", "success">>
  <1>1. o = p1 \/ o = p2
    BY DEF FileOps, NoId, NoFile, OpenFile, Rewrite, BeforeRead, AfterRead, BeforeUnlink,
           AfterUnlink, LastStep, Over
  <1>2. Tail(p1) = <<"mkdir", "create", "write", "success">>
    OBVIOUS
  <1>3. p1 \in NoId /\ Tail(p1) \in NoFile
    BY <1>2, Zenon DEF NoId, NoFile
  <1>4. Tail(p2) = <<"mkdir", "create", "chunk", "write", "success">>
    OBVIOUS
  <1>5. p2 \in NoId /\ Tail(p2) \in NoFile
    BY <1>4, Zenon DEF NoId, NoFile
  <1> HIDE DEF p1, p2
  <1> QED
    BY <1>1, <1>3, <1>5, Zenon

(* The directory is made for an id without a file.                         *)
LEMMA MakesDir ==
  ASSUME NEW o \in FileOps, o # <<>>, Head(o) = "mkdir"
  PROVE  o \in NoFile /\ Tail(o) \in NoFile
  <1> DEFINE p1 == <<"mkdir", "create", "write", "success">>
  <1> DEFINE p2 == <<"mkdir", "create", "chunk", "write", "success">>
  <1>1. o = p1 \/ o = p2
    BY DEF FileOps, NoId, NoFile, OpenFile, Rewrite, BeforeRead, AfterRead, BeforeUnlink,
           AfterUnlink, LastStep, Over
  <1>2. Tail(p1) = <<"create", "write", "success">>
    OBVIOUS
  <1>3. p1 \in NoFile /\ Tail(p1) \in NoFile
    BY <1>2, Zenon DEF NoFile
  <1>4. Tail(p2) = <<"create", "chunk", "write", "success">>
    OBVIOUS
  <1>5. p2 \in NoFile /\ Tail(p2) \in NoFile
    BY <1>4, Zenon DEF NoFile
  <1> HIDE DEF p1, p2
  <1> QED
    BY <1>1, <1>3, <1>5, Zenon

(* Open() with O_EXCL ends the search for an id, or starts it again.       *)
LEMMA Opens ==
  ASSUME NEW o \in FileOps, o # <<>>, Head(o) = "create"
  PROVE  /\ o \in NoFile /\ Tail(o) \in OpenFile
         /\ (IF o[2] = "chunk" THEN NewStream ELSE NewFile) \in NoId
  <1> DEFINE p1 == <<"create", "write", "success">>
  <1> DEFINE p2 == <<"create", "chunk", "write", "success">>
  <1>1. o = p1 \/ o = p2
    BY DEF FileOps, NoId, NoFile, OpenFile, Rewrite, BeforeRead, AfterRead, BeforeUnlink,
           AfterUnlink, LastStep, Over
  <1>2. Tail(p1) = <<"write", "success">>
    OBVIOUS
  <1>3. p1 \in NoFile /\ Tail(p1) \in OpenFile
    BY <1>2, Zenon DEF NoFile, OpenFile
  <1>4. Tail(p2) = <<"chunk", "write", "success">>
    OBVIOUS
  <1>5. p2 \in NoFile /\ Tail(p2) \in OpenFile
    BY <1>4, Zenon DEF NoFile, OpenFile
  <1>6. NewStream \in NoId /\ NewFile \in NoId
    BY Zenon DEF NewStream, NewFile, NoId
  <1> HIDE DEF p1, p2
  <1> QED
    BY <1>1, <1>3, <1>5, <1>6, Zenon

(* Open() with O_TRUNC is for a fragment with an id.                       *)
LEMMA Truncates ==
  ASSUME NEW o \in FileOps, o # <<>>, Head(o) = "truncate"
  PROVE  o \in Rewrite /\ Tail(o) \in OpenFile
  <1> DEFINE p1 == <<"truncate", "write", "success">>
  <1> DEFINE p2 == <<"truncate", "chunk", "write", "success">>
  <1>1. o = p1 \/ o = p2
    BY DEF FileOps, NoId, NoFile, OpenFile, Rewrite, BeforeRead, AfterRead, BeforeUnlink,
           AfterUnlink, LastStep, Over
  <1>2. Tail(p1) = <<"write", "success">>
    OBVIOUS
  <1>3. p1 \in Rewrite /\ Tail(p1) \in OpenFile
    BY <1>2, Zenon DEF Rewrite, OpenFile
  <1>4. Tail(p2) = <<"chunk", "write", "success">>
    OBVIOUS
  <1>5. p2 \in Rewrite /\ Tail(p2) \in OpenFile
    BY <1>4, Zenon DEF Rewrite, OpenFile
  <1> HIDE DEF p1, p2
  <1> QED
    BY <1>1, <1>3, <1>5, Zenon

(* A chunk that is not the last leaves the file open.                      *)
LEMMA WritesChunk ==
  ASSUME NEW o \in FileOps, o # <<>>, Head(o) = "chunk"
  PROVE  o \in OpenFile /\ Tail(o) \in OpenFile
  <1> DEFINE p1 == <<"chunk", "write", "success">>
  <1>1. o = p1
    BY DEF FileOps, NoId, NoFile, OpenFile, Rewrite, BeforeRead, AfterRead, BeforeUnlink,
           AfterUnlink, LastStep, Over
  <1>2. Tail(p1) = <<"write", "success">>
    OBVIOUS
  <1>3. p1 \in OpenFile /\ Tail(p1) \in OpenFile
    BY <1>2, Zenon DEF OpenFile
  <1> HIDE DEF p1
  <1> QED
    BY <1>1, <1>3, Zenon

(* The last write() ends an update.                                        *)
LEMMA Writes ==
  ASSUME NEW o \in FileOps, o # <<>>, Head(o) = "write"
  PROVE  o \in OpenFile /\ Tail(o) \in LastStep
  <1> DEFINE p1 == <<"write", "success">>
  <1>1. o = p1
    BY DEF FileOps, NoId, NoFile, OpenFile, Rewrite, BeforeRead, AfterRead, BeforeUnlink,
           AfterUnlink, LastStep, Over
  <1>2. Tail(p1) = <<"success">>
    OBVIOUS
  <1>3. p1 \in OpenFile /\ Tail(p1) \in LastStep
    BY <1>2, Zenon DEF OpenFile, LastStep
  <1> HIDE DEF p1
  <1> QED
    BY <1>1, <1>3, Zenon

(* Read() comes first in a retrieve.                                       *)
LEMMA Reads ==
  ASSUME NEW o \in FileOps, o # <<>>, Head(o) = "read"
  PROVE  (o \in BeforeRead /\ Tail(o) \in AfterRead) \/ (o \in BeforeRead /\ Tail(o) \in LastStep)
  <1> DEFINE p1 == <<"read", "unpack", "success">>
  <1> DEFINE p2 == <<"read", "success">>
  <1>1. o = p1 \/ o = p2
    BY DEF FileOps, NoId, NoFile, OpenFile, Rewrite, BeforeRead, AfterRead, BeforeUnlink,
           AfterUnlink, LastStep, Over
  <1>2. Tail(p1) = <<"unpack", "success">>
    OBVIOUS
  <1>3. p1 \in BeforeRead /\ Tail(p1) \in AfterRead
    BY <1>2, Zenon DEF BeforeRead, AfterRead
  <1>4. Tail(p2) = <<"success">>
    OBVIOUS
  <1>5. p2 \in BeforeRead /\ Tail(p2) \in LastStep
    BY <1>4, Zenon DEF BeforeRead, LastStep
  <1> HIDE DEF p1, p2
  <1> QED
    BY <1>1, <1>3, <1>5, Zenon

(* Reading and copying is all of a retrieve of IME or PMEM.                *)
LEMMA ReadsAndCopies ==
  ASSUME NEW o \in FileOps, o # <<>>, Head(o) = "readandcopy"
  PROVE  o \in BeforeRead /\ Tail(o) \in LastStep
  <1> DEFINE p1 == <<"readandcopy", "success">>
  <1>1. o = p1
    BY DEF FileOps, NoId, NoFile, OpenFile, Rewrite, BeforeRead, AfterRead, BeforeUnlink,
           AfterUnlink, LastStep, Over
  <1>2. Tail(p1) = <<"success">>
    OBVIOUS
  <1>3. p1 \in BeforeRead /\ Tail(p1) \in LastStep
    BY <1>2, Zenon DEF BeforeRead, LastStep
  <1> HIDE DEF p1
  <1> QED
    BY <1>1, <1>3, Zenon

(* Unpacking is the end of a retrieve.                                     *)
LEMMA Unpacks ==
  ASSUME NEW o \in FileOps, o # <<>>, Head(o) = "unpack"
  PROVE  o \in AfterRead /\ Tail(o) \in LastStep
  <1> DEFINE p1 == <<"unpack", "success">>
  <1>1. o = p1
    BY DEF FileOps, NoId, NoFile, OpenFile, Rewrite, BeforeRead, AfterRead, BeforeUnlink,
           AfterUnlink, LastStep, Over
  <1>2. Tail(p1) = <<"success">>
    OBVIOUS
  <1>3. p1 \in AfterRead /\ Tail(p1) \in LastStep
    BY <1>2, Zenon DEF AfterRead, LastStep
  <1> HIDE DEF p1
  <1> QED
    BY <1>1, <1>3, Zenon

(* Unlink() comes first in a delete.                                       *)
LEMMA Unlinks ==
  ASSUME NEW o \in FileOps, o # <<>>, Head(o) = "unlink"
  PROVE  o \in BeforeUnlink /\ Tail(o) \in AfterUnlink
  <1> DEFINE p1 == <<"unlink", "rmdir", "forget">>
  <1>1. o = p1
    BY DEF FileOps, NoId, NoFile, OpenFile, Rewrite, BeforeRead, AfterRead, BeforeUnlink,
           AfterUnlink, LastStep, Over
  <1>2. Tail(p1) = <<"rmdir", "forget">>
    OBVIOUS
  <1>3. p1 \in BeforeUnlink /\ Tail(p1) \in AfterUnlink
    BY <1>2, Zenon DEF BeforeUnlink, AfterUnlink
  <1> HIDE DEF p1
  <1> QED
    BY <1>1, <1>3, Zenon

(* Rmdir() follows unlink().                                               *)
LEMMA RemovesDir ==
  ASSUME NEW o \in FileOps, o # <<>>, Head(o) = "rmdir"
  PROVE  o \in AfterUnlink /\ Tail(o) \in AfterUnlink
  <1> DEFINE p1 == <<"rmdir", "forget">>
  <1>1. o = p1
    BY DEF FileOps, NoId, NoFile, OpenFile, Rewrite, BeforeRead, AfterRead, BeforeUnlink,
           AfterUnlink, LastStep, Over
  <1>2. Tail(p1) = <<"forget">>
    OBVIOUS
  <1>3. p1 \in AfterUnlink /\ Tail(p1) \in AfterUnlink
    BY <1>2, Zenon DEF AfterUnlink
  <1> HIDE DEF p1
  <1> QED
    BY <1>1, <1>3, Zenon

(* The last steps of a call, and those of S3, which are none of a file.    *)
LEMMA EndsAndOthers ==
  ASSUME NEW o \in FileOps, o # <<>>
  PROVE  /\ Head(o) = "success" => o \in LastStep
         /\ Head(o) = "error" => o \in Over
         /\ Head(o) = "forget" => o \in AfterUnlink
         /\ Head(o) \notin {"unusedid", "put", "bucket", "putagain"}
  BY DEF FileOps, NoId, NoFile, OpenFile, Rewrite, BeforeRead, AfterRead, BeforeUnlink,
           AfterUnlink, LastStep, Over

(* An update without a file has open() with O_EXCL ahead of it; no other   *)
(* call has.                                                               *)
LEMMA CreatesIsCreating ==
  ASSUME NEW f, op[f] \in FileOps
  PROVE  Creates(f) <=> Creating(f)
  <1> DEFINE Makes(o) == \E n \in DOMAIN o : o[n] = "create"
  <1>1. \A o \in NoId : (o[3] = "create" /\ 3 \in DOMAIN o) \/ (o[4] = "create" /\ 4 \in DOMAIN o)
    BY DEF NoId
  <1>2. \A o \in NoFile : (o[1] = "create" /\ 1 \in DOMAIN o) \/ (o[2] = "create" /\ 2 \in DOMAIN o)
    BY DEF NoFile
  <1>3. \A o \in FileOps \ (NoId \cup NoFile) : ~Makes(o)
    BY DEF FileOps, NoId, NoFile, OpenFile, Rewrite, BeforeRead, AfterRead, BeforeUnlink,
           AfterUnlink, LastStep, Over
  <1>4. \A o \in FileOps : Makes(o) <=> o \in NoId \cup NoFile
    BY <1>1, <1>2, <1>3
  <1> QED
    BY <1>4, Zenon DEF Creates, Creating

(* What a call starts with.                                                *)
LEMMA Programs ==
  ASSUME NEW f, Files
  PROVE  /\ fid[f] = None => {PosixUpdate(f), PosixStream(f), ImeUpdate(f), PmemUpdate(f)} \subseteq NoId
         /\ fid[f] # None => {PosixUpdate(f), PosixStream(f), ImeUpdate(f), PmemUpdate(f)} \subseteq Rewrite \cup Over
         /\ {PosixRetrieve, ImeRetrieve, PmemRetrieve} \subseteq BeforeRead
         /\ {PosixDelete(f), ImeDelete(f), PmemDelete(f)}
               \subseteq (IF fid[f] = None THEN Over ELSE BeforeUnlink)
         /\ <<>> \in Over
  <1>1. CASE fid[f] = None
    BY <1>1 DEF PosixUpdate, PosixStream, ImeUpdate, PmemUpdate, NewFile, NewStream, NoId, Rewrite,
                PosixRetrieve, ImeRetrieve, PmemRetrieve, BeforeRead,
                PosixDelete, ImeDelete, PmemDelete, Over, BeforeUnlink
  <1>2. CASE fid[f] # None
    BY <1>2 DEF PosixUpdate, PosixStream, ImeUpdate, PmemUpdate, NewFile, NewStream, NoId, Rewrite,
                PosixRetrieve, ImeRetrieve, PmemRetrieve, BeforeRead,
                PosixDelete, ImeDelete, PmemDelete, Over, BeforeUnlink
  <1> QED
    BY <1>1, <1>2


-----------------------------------------------------------------------------
(* A step of one fragment: what it leaves alone, which file it touches,    *)
(* and which id it may take.                                               *)
Others(f) ==
  \A g \in Frags \ {f} :
    /\ fid'[g] = fid[g] /\ op'[g] = op[g] /\ done'[g] = done[g] /\ version'[g] = version[g]
    /\ stored'[g] = stored[g] /\ got'[g] = got[g] /\ (g \in torn' <=> g \in torn)
Touches(f) ==
  \A i \in Ids : file'[i] # file[i] =>
    /\ i = fid[f] /\ (file'[i] # Absent => file'[i][1] = f)
    /\ \A g \in Frags \ {f} : fid[g] = i => Creating(g)
TakesId(f) ==
  fid'[f] \notin {fid[f], None} =>
    \A g \in Frags \ {f} : fid[g] = fid'[f] => ~Deleting(g) /\ (Creating(g) \/ file[fid[g]] # Absent)
(* Where another fragment has the same id, there is a file.                *)
Shares(f) ==
  (fid[f] # None /\ ~Creating(f)) =>
    \A g \in Frags \ {f} : fid[g] = fid[f] => file[fid[f]] # Absent
Owns(f) ==
  ~crashed => \A i \in Ids : file[i] # Absent /\ file[i][1] = f => fid[f] = i /\ ~Creating(f)

(* What a step does to the other fragments.                                *)
LEMMA OthersKept ==
  ASSUME TypeInv, NEW f \in Frags, NEW g \in Frags \ {f}, IdInv(g), DataInv(g),
         Others(f), Touches(f), TakesId(f)
  PROVE  (IdInv(g) /\ DataInv(g))'
  <1>1. /\ fid'[g] = fid[g] /\ op'[g] = op[g] /\ done'[g] = done[g] /\ version'[g] = version[g]
        /\ stored'[g] = stored[g] /\ got'[g] = got[g] /\ (g \in torn' <=> g \in torn)
    BY Zenon DEF Others
  <1>2. (Creating(g)' <=> Creating(g)) /\ (Deleting(g)' <=> Deleting(g))
    BY <1>1, Zenon DEF Creating, Deleting
  <1>3. fid[g] # None => fid[g] \in Ids
    BY Zenon DEF TypeInv
  <1>4. fid[g] # None /\ ~Creating(g) => file'[fid[g]] = file[fid[g]]
    BY <1>3, Zenon DEF Touches
  <1>5. op[g] \in FileOps
    BY Zenon DEF TypeInv
  <1>6. op[g] \in OpenFile \cup AfterUnlink \cup BeforeRead => ~Creating(g)
    BY Phases, Zenon DEF Creating
  <1>7. ASSUME Deleting(g)
        PROVE  Alone(g)'
    <2>1. SUFFICES ASSUME NEW h \in Frags \ {g}
                   PROVE  fid'[h] # fid'[g]
      BY Zenon DEF Alone
    <2>2. fid[g] # None /\ fid[h] # fid[g]
      BY <1>7, Zenon DEF IdInv, Alone
    <2>3. CASE h # f
      BY <2>2, <2>3, <1>1, Zenon DEF Others
    <2>4. CASE h = f
      BY <2>2, <2>4, <1>1, <1>7, Zenon DEF TakesId
    <2> QED
      BY <2>3, <2>4
  <1>8. IdInv(g)'
    BY <1>1, <1>2, <1>4, <1>6, <1>7, Zenon DEF IdInv, Deleting
  <1>9. DataInv(g)'
    <2>1. stored[g] # 0 => file'[fid[g]] = file[fid[g]]
      BY <1>4, Zenon DEF IdInv, DataInv
    <2> QED
      BY <1>1, <2>1, Zenon DEF DataInv
  <1> QED
    BY <1>8, <1>9

(* A step that keeps what is known of its own fragment keeps the invariant.*)
LEMMA StepKeeps ==
  ASSUME FileInv, NEW f \in Frags, TypeInv', Others(f), Touches(f), TakesId(f), crashed' = crashed,
         IdInv(f)', DataInv(f)', Shares(f)', Owns(f)',
         \A i \in Ids : file'[i] # Absent => DirOf[i] \in dirs'
  PROVE  FileInv'
  <1>0. TypeInv /\ SameIdInv /\ DiskInv /\ \A g \in Frags : IdInv(g) /\ DataInv(g)
    BY Zenon DEF FileInv
  <1>1. \A g \in Frags : (IdInv(g) /\ DataInv(g))'
    <2>1. TAKE g \in Frags
    <2>2. CASE g = f
      BY <2>2, Zenon
    <2>3. CASE g # f
      BY <2>3, <1>0, OthersKept, Zenon
    <2> QED
      BY <2>2, <2>3
  <1>2. \A g \in Frags \ {f} : /\ fid'[g] = fid[g] /\ (Creating(g)' <=> Creating(g))
                               /\ (fid[g] # None => fid[g] \in Ids)
    BY <1>0, Zenon DEF Others, Creating, TypeInv
  <1>3. ASSUME NEW g \in Frags, NEW h \in Frags, fid'[g] # None, fid'[h] = fid'[g], g # h, ~Creating(g)'
        PROVE  file'[fid'[g]] # Absent
    <2>1. CASE g = f
      BY <2>1, <1>3, <1>2, Zenon DEF Shares
    <2>2. CASE g # f /\ h # f
      BY <2>2, <1>3, <1>2, <1>0, Zenon DEF SameIdInv, Touches
    <2>3. CASE g # f /\ h = f /\ fid'[f] = fid[f]
      BY <2>3, <1>3, <1>2, <1>0, Zenon DEF SameIdInv, Touches
    <2>4. CASE g # f /\ h = f /\ fid'[f] # fid[f]
      BY <2>4, <1>3, <1>2, <1>0, Zenon DEF TakesId, Touches
    <2> QED
      BY <2>1, <2>2, <2>3, <2>4
  <1>4. ASSUME ~crashed', NEW i \in Ids, NEW g \in Frags, file'[i] # Absent, file'[i][1] = g
        PROVE  fid'[g] = i /\ ~Creating(g)'
    <2>1. CASE g = f
      BY <2>1, <1>4, Zenon DEF Owns
    <2>2. CASE g # f
      <3>1. file'[i] = file[i]
        BY <2>2, <1>4, Zenon DEF Touches
      <3>2. fid[g] = i /\ ~Creating(g)
        BY <1>0, <1>4, <3>1, Zenon DEF DiskInv
      <3> QED
        BY <2>2, <3>2, <1>2, Zenon
    <2> QED
      BY <2>1, <2>2
  <1>5. SameIdInv'
    BY <1>3, Zenon DEF SameIdInv
  <1>6. DiskInv'
    BY <1>4, Zenon DEF DiskInv
  <1> QED
    BY <1>1, <1>5, <1>6, Zenon DEF FileInv


(* A step that changes neither ids nor files.                              *)
LEMMA QuietKeeps ==
  ASSUME FileInv, NEW f \in Frags, TypeInv', Others(f), fid' = fid, file' = file, crashed' = crashed,
         \A i \in Ids : file[i] # Absent => DirOf[i] \in dirs',
         IdInv(f)', DataInv(f)',
         Creating(f)' => Creating(f) \/ fid[f] = None,
         ~Creating(f)' => ~Creating(f) \/ fid[f] = None \/ Alone(f)
  PROVE  FileInv'
  <1>0. TypeInv /\ SameIdInv /\ DiskInv
    BY Zenon DEF FileInv
  <1>1. Touches(f) /\ TakesId(f)
    BY Zenon DEF Touches, TakesId
  <1>2. Shares(f)'
    <2>1. SUFFICES ASSUME fid[f] # None, ~Creating(f)', NEW g \in Frags \ {f}, fid[g] = fid[f]
                   PROVE  file[fid[f]] # Absent
      BY Zenon DEF Shares
    <2>2. ~Alone(f)
      BY <2>1, Zenon DEF Alone
    <2> QED
      BY <2>1, <2>2, <1>0, Zenon DEF SameIdInv
  <1>3. Owns(f)'
    <2>1. SUFFICES ASSUME ~crashed, NEW i \in Ids, file[i] # Absent, file[i][1] = f
                   PROVE  fid[f] = i /\ ~Creating(f)'
      BY Zenon DEF Owns
    <2>2. fid[f] = i /\ ~Creating(f)
      BY <2>1, <1>0, Zenon DEF DiskInv
    <2>3. fid[f] # None
      BY <2>2, FileAssumption, Zenon
    <2> QED
      BY <2>2, <2>3, Zenon
  <1> QED
    BY <1>1, <1>2, <1>3, StepKeeps, Zenon

LEMMA GoEffect ==
  ASSUME TypeInv, NEW f \in Frags, Go(f), Tail(op[f]) \in FileOps
  PROVE  /\ op' \in [Frags -> FileOps] /\ op'[f] = Tail(op[f]) /\ done' = done
         /\ \A g \in Frags \ {f} : op'[g] = op[g]
  BY DEF TypeInv, Go

LEMMA ReturnEffect ==
  ASSUME TypeInv, NEW f \in Frags, NEW b \in BOOLEAN, Return(f, b)
  PROVE  /\ op' \in [Frags -> FileOps] /\ op'[f] = <<>> /\ op'[f] \in Over
         /\ done' \in [Frags -> Calls \X BOOLEAN]
         /\ done'[f] = <<done[f][1], b>> /\ done'[f][1] = done[f][1]
         /\ \A g \in Frags \ {f} : op'[g] = op[g] /\ done'[g] = done[g]
  <1>1. <<>> \in Over
    BY Zenon DEF Over
  <1>2. <<>> \in FileOps
    BY <1>1, Zenon DEF FileOps
  <1>3. op' = [op EXCEPT ![f] = <<>>] /\ done' = [done EXCEPT ![f] = <<done[f][1], b>>]
    BY DEF Return, TypeInv
  <1>4. op' \in [Frags -> FileOps] /\ op'[f] = <<>> /\ \A g \in Frags \ {f} : op'[g] = op[g]
    BY <1>2, <1>3 DEF TypeInv
  <1>5. done[f][1] \in Calls
    BY DEF TypeInv
  <1>6. PICK c \in Calls : c = done[f][1]
    BY <1>5, Zenon
  <1>7. <<c, b>> \in Calls \X BOOLEAN
    BY Zenon
  <1>8. done' = [done EXCEPT ![f] = <<c, b>>]
    BY <1>3, <1>6, Zenon
  <1>9. /\ done' \in [Frags -> Calls \X BOOLEAN] /\ done'[f] = <<c, b>>
        /\ \A g \in Frags \ {f} : done'[g] = done[g]
    BY <1>7, <1>8 DEF TypeInv
  <1>10. <<c, b>>[1] = c
    OBVIOUS
  <1> QED
    BY <1>1, <1>4, <1>6, <1>9, <1>10, Zenon

(* A call that fails.                                                      *)
LEMMA FailureKeeps ==
  ASSUME FileInv, NEW f \in Frags, Return(f, FALSE),
         UNCHANGED <<kind, fid, file, dirs, version, stored, torn, crashed>>,
         got' \in [Frags -> Nat], \A g \in Frags \ {f} : got'[g] = got[g],
         op[f] \notin OpenFile, Creating(f) => fid[f] = None \/ (Alone(f) /\ file[fid[f]] = Absent)
  PROVE  FileInv'
  <1>0. TypeInv /\ IdInv(f) /\ DataInv(f) /\ DiskInv
    BY Zenon DEF FileInv
  <1>1. /\ op' \in [Frags -> FileOps] /\ op'[f] = <<>> /\ op'[f] \in Over
        /\ done' \in [Frags -> Calls \X BOOLEAN]
        /\ done'[f] = <<done[f][1], FALSE>> /\ done'[f][1] = done[f][1]
        /\ \A g \in Frags \ {f} : op'[g] = op[g] /\ done'[g] = done[g]
    BY <1>0, ReturnEffect, Zenon
  <1>2. Others(f)
    BY <1>1, Zenon DEF Others
  <1>3. TypeInv'
    BY <1>0, <1>1, Zenon DEF TypeInv
  <1>4. op'[f] \notin NoId \cup NoFile \cup OpenFile \cup Rewrite \cup BeforeRead \cup AfterRead
                       \cup BeforeUnlink \cup AfterUnlink \cup LastStep
    BY <1>1, Phases, Zenon
  <1>5. ~Creating(f)' /\ ~Deleting(f)'
    BY <1>4, Zenon DEF Creating, Deleting
  <1>6. IdInv(f)'
    BY <1>0, <1>4, <1>5, Zenon DEF IdInv
  <1>7. done'[f] # <<"retrieve", TRUE>>
    BY <1>1
  <1>8. DataInv(f)'
    BY <1>0, <1>4, <1>7, Zenon DEF DataInv
  <1> QED
    BY <1>0, <1>2, <1>3, <1>5, <1>6, <1>8, QuietKeeps, Zenon DEF DiskInv

(* A step within a phase, or from the data read to the success.            *)
LEMMA ProgressKeeps ==
  ASSUME FileInv, NEW f \in Frags, op[f] # <<>>, Go(f),
         UNCHANGED <<kind, fid, file, version, stored, torn, got, crashed>>,
         \A i \in Ids : file[i] # Absent => DirOf[i] \in dirs',
         \/ op[f] \in NoId /\ Tail(op[f]) \in NoId
         \/ op[f] \in NoFile /\ Tail(op[f]) \in NoFile
         \/ op[f] \in OpenFile /\ Tail(op[f]) \in OpenFile
         \/ op[f] \in Rewrite /\ Tail(op[f]) \in Rewrite
         \/ op[f] \in AfterUnlink /\ Tail(op[f]) \in AfterUnlink
         \/ op[f] \in AfterRead /\ Tail(op[f]) \in LastStep
  PROVE  FileInv'
  <1>0. TypeInv /\ IdInv(f) /\ DataInv(f)
    BY Zenon DEF FileInv
  <1>1. Tail(op[f]) \in FileOps
    BY Zenon DEF FileOps
  <1>2. /\ op' \in [Frags -> FileOps] /\ op'[f] = Tail(op[f]) /\ done' = done
        /\ \A g \in Frags \ {f} : op'[g] = op[g]
    BY <1>0, <1>1, GoEffect, Zenon
  <1>3. Others(f)
    BY <1>2, Zenon DEF Others
  <1>4. TypeInv'
    BY <1>0, <1>2, Zenon DEF TypeInv
  <1>5. /\ op'[f] \in NoId <=> op[f] \in NoId
        /\ op'[f] \in NoFile <=> op[f] \in NoFile
        /\ op'[f] \in OpenFile <=> op[f] \in OpenFile
        /\ op'[f] \in Rewrite <=> op[f] \in Rewrite
        /\ op'[f] \in AfterUnlink <=> op[f] \in AfterUnlink
        /\ op'[f] \notin BeforeRead \cup AfterRead \cup BeforeUnlink /\ op[f] \notin BeforeUnlink
        /\ op'[f] \in LastStep => op[f] \in AfterRead
    BY <1>2, Phases
  <1>6. (Creating(f)' <=> Creating(f)) /\ (Deleting(f)' <=> Deleting(f)) /\ (Alone(f)' <=> Alone(f))
    BY <1>5, Zenon DEF Creating, Deleting, Alone
  <1>7. IdInv(f)'
    BY <1>0, <1>2, <1>5, <1>6, Zenon DEF IdInv
  <1>8. DataInv(f)'
    <2>1. done[f] # <<"retrieve", TRUE>>
      BY <1>0, Zenon DEF DataInv
    <2>2. op'[f] \in LastStep => done[f][1] # "update"
      BY <1>0, <1>5 DEF DataInv
    <2> QED
      BY <1>0, <1>2, <1>5, <2>1, <2>2, Zenon DEF DataInv
  <1> QED
    BY <1>3, <1>4, <1>6, <1>7, <1>8, QuietKeeps, Zenon

(* The steps between those on the file.                                    *)
LEMMA PackKeeps ==
  ASSUME FileInv, NEW f \in Frags, Pack(f)
  PROVE  FileInv'
  <1>0. TypeInv /\ IdInv(f) /\ DiskInv /\ op[f] \in FileOps
    BY Zenon DEF FileInv, TypeInv
  <1>1. UNCHANGED <<kind, fid, file, dirs, version, stored, torn, got, crashed>> /\ (Go(f) \/ Return(f, FALSE))
    BY Zenon DEF Pack, disk, history
  <1>2. op[f] # <<>> /\ Head(op[f]) = "pack"
    BY Zenon DEF Pack, At
  <1>3. (op[f] \in NoId /\ Tail(op[f]) \in NoId) \/ (op[f] \in Rewrite /\ Tail(op[f]) \in Rewrite)
    BY <1>0, <1>2, Packs, Zenon
  <1>4. CASE Go(f)
    BY <1>0, <1>1, <1>2, <1>3, <1>4, ProgressKeeps, Zenon DEF DiskInv
  <1>5. CASE Return(f, FALSE)
    <2>1. op[f] \notin OpenFile /\ (Creating(f) => fid[f] = None)
      BY <1>0, <1>3, Phases, Zenon DEF IdInv, Creating
    <2> QED
      BY <1>0, <1>1, <1>5, <2>1, FailureKeeps, Zenon DEF TypeInv
  <1> QED
    BY Zenon, <1>1, <1>4, <1>5

LEMMA UnpackKeeps ==
  ASSUME FileInv, NEW f \in Frags, Unpack(f)
  PROVE  FileInv'
  <1>0. TypeInv /\ DiskInv /\ op[f] \in FileOps
    BY Zenon DEF FileInv, TypeInv
  <1>1. UNCHANGED <<kind, fid, file, dirs, version, stored, torn, got, crashed>> /\ (Go(f) \/ Return(f, FALSE))
    BY Zenon DEF Unpack, disk, history
  <1>2. op[f] # <<>> /\ Head(op[f]) = "unpack"
    BY Zenon DEF Unpack, At
  <1>3. op[f] \in AfterRead /\ Tail(op[f]) \in LastStep
    BY <1>0, <1>2, Unpacks, Zenon
  <1>4. CASE Go(f)
    BY <1>0, <1>1, <1>2, <1>3, <1>4, ProgressKeeps, Zenon DEF DiskInv
  <1>5. CASE Return(f, FALSE)
    <2>1. ~Creating(f) /\ op[f] \notin OpenFile
      BY <1>3, Phases, Zenon DEF Creating
    <2> QED
      BY <1>0, <1>1, <1>5, <2>1, FailureKeeps, Zenon DEF TypeInv
  <1> QED
    BY Zenon, <1>1, <1>4, <1>5

LEMMA ChunkKeeps ==
  ASSUME FileInv, NEW f \in Frags, Chunk(f)
  PROVE  FileInv'
  <1>0. DiskInv /\ op[f] \in FileOps
    BY Zenon DEF FileInv, TypeInv
  <1>1. UNCHANGED <<kind, fid, file, dirs, version, stored, torn, got, crashed>> /\ Go(f)
    BY Zenon DEF Chunk, disk, history
  <1>2. op[f] # <<>> /\ Head(op[f]) = "chunk"
    BY Zenon DEF Chunk, At
  <1>3. op[f] \in OpenFile /\ Tail(op[f]) \in OpenFile
    BY <1>0, <1>2, WritesChunk, Zenon
  <1> QED
    BY <1>0, <1>1, <1>2, <1>3, ProgressKeeps, Zenon DEF DiskInv

(* mkdir_recursive() that fails leaves an id that no other fragment has,   *)
(* and no file.                                                            *)
LEMMA MkdirKeeps ==
  ASSUME FileInv, NEW f \in Frags, Mkdir(f)
  PROVE  FileInv'
  <1>0. TypeInv /\ IdInv(f) /\ DiskInv /\ op[f] \in FileOps
    BY Zenon DEF FileInv, TypeInv
  <1>1. UNCHANGED <<kind, fid, file, version, stored, torn, got, crashed>>
    BY Zenon DEF Mkdir, history
  <1>2. op[f] # <<>> /\ Head(op[f]) = "mkdir"
    BY Zenon DEF Mkdir, At
  <1>3. op[f] \in NoFile /\ Tail(op[f]) \in NoFile
    BY <1>0, <1>2, MakesDir, Zenon
  <1>4. CASE Go(f) /\ dirs' = dirs \cup {DirOf[fid[f]]}
    <2>1. \A i \in Ids : file[i] # Absent => DirOf[i] \in dirs'
      BY <1>0, <1>4, Zenon DEF DiskInv
    <2> QED
      BY <1>1, <1>2, <1>3, <1>4, <2>1, ProgressKeeps, Zenon
  <1>5. CASE DirOf[fid[f]] \notin dirs /\ Alone(f) /\ Return(f, FALSE) /\ UNCHANGED dirs
    <2>1. fid[f] \in Ids
      BY <1>0, <1>3, Zenon DEF IdInv, TypeInv
    <2>2. file[fid[f]] = Absent /\ op[f] \notin OpenFile
      BY <1>0, <1>3, <1>5, <2>1, Phases, Zenon DEF DiskInv
    <2> QED
      BY <1>0, <1>1, <1>5, <2>2, FailureKeeps, Zenon DEF TypeInv
  <1> QED
    BY <1>4, <1>5, Zenon DEF Mkdir

(* rmdir() removes an empty directory only.                                *)
LEMMA RmdirKeeps ==
  ASSUME FileInv, NEW f \in Frags, Rmdir(f)
  PROVE  FileInv'
  <1>0. TypeInv /\ IdInv(f) /\ DiskInv /\ op[f] \in FileOps
    BY Zenon DEF FileInv, TypeInv
  <1>1. UNCHANGED <<kind, fid, file, version, stored, torn, got, crashed>>
    BY Zenon DEF Rmdir, history
  <1>2. op[f] # <<>> /\ Head(op[f]) = "rmdir"
    BY Zenon DEF Rmdir, At
  <1>3. op[f] \in AfterUnlink /\ Tail(op[f]) \in AfterUnlink
    BY <1>0, <1>2, RemovesDir, Zenon
  <1>4. CASE /\ \A i \in Ids : DirOf[i] = DirOf[fid[f]] => file[i] = Absent
             /\ Go(f) /\ dirs' = dirs \ {DirOf[fid[f]]}
    <2>1. \A i \in Ids : file[i] # Absent => DirOf[i] \in dirs'
      BY <1>0, <1>4, Zenon DEF DiskInv
    <2> QED
      BY <1>1, <1>2, <1>3, <1>4, <2>1, ProgressKeeps, Zenon
  <1>5. CASE Return(f, FALSE) /\ UNCHANGED dirs
    <2>1. ~Creating(f) /\ op[f] \notin OpenFile
      BY <1>3, Phases, Zenon DEF Creating
    <2> QED
      BY <1>0, <1>1, <1>5, <2>1, FailureKeeps, Zenon DEF TypeInv
  <1> QED
    BY <1>4, <1>5, Zenon DEF Rmdir

(* The end of a call.                                                      *)
LEMMA FailKeeps ==
  ASSUME FileInv, NEW f \in Frags, Fail(f)
  PROVE  FileInv'
  <1>0. TypeInv /\ op[f] \in FileOps
    BY Zenon DEF FileInv, TypeInv
  <1>1. UNCHANGED <<kind, fid, file, dirs, version, stored, torn, got, crashed>> /\ Return(f, FALSE)
    BY Zenon DEF Fail, disk, history
  <1>2. op[f] \in Over
    BY <1>0, EndsAndOthers, Zenon DEF Fail, At
  <1>3. ~Creating(f) /\ op[f] \notin OpenFile
    BY <1>2, Phases, Zenon DEF Creating
  <1> QED
    BY <1>0, <1>1, <1>3, FailureKeeps, Zenon DEF TypeInv

LEMMA SucceedKeeps ==
  ASSUME FileInv, NEW f \in Frags, Succeed(f)
  PROVE  FileInv'
  <1>0. TypeInv /\ IdInv(f) /\ DataInv(f) /\ DiskInv /\ op[f] \in FileOps
    BY Zenon DEF FileInv, TypeInv
  <1>1. UNCHANGED <<kind, fid, file, dirs, version, torn, got, crashed>> /\ Return(f, TRUE)
    BY Zenon DEF Succeed, disk
  <1>2. op[f] \in LastStep
    BY <1>0, EndsAndOthers, Zenon DEF Succeed, At
  <1>3. stored' = stored
    <2>1. CASE done[f][1] = "update"
      <3>1. stored[f] = version[f] /\ stored' = [stored EXCEPT ![f] = version[f]]
        BY <1>0, <1>2, <2>1, Zenon DEF DataInv, Succeed
      <3> QED
        BY <3>1, <1>0 DEF TypeInv
    <2>2. CASE done[f][1] # "update"
      BY <2>2, Zenon DEF Succeed
    <2> QED
      BY <2>1, <2>2
  <1>4. /\ op' \in [Frags -> FileOps] /\ op'[f] = <<>> /\ op'[f] \in Over
        /\ done' \in [Frags -> Calls \X BOOLEAN]
        /\ done'[f] = <<done[f][1], TRUE>> /\ done'[f][1] = done[f][1]
        /\ \A g \in Frags \ {f} : op'[g] = op[g] /\ done'[g] = done[g]
    BY <1>0, <1>1, ReturnEffect, Zenon
  <1>5. Others(f)
    BY <1>1, <1>3, <1>4, Zenon DEF Others
  <1>6. TypeInv'
    BY <1>0, <1>1, <1>3, <1>4, Zenon DEF TypeInv
  <1>7. op'[f] \notin NoId \cup NoFile \cup OpenFile \cup Rewrite \cup BeforeRead \cup AfterRead
                       \cup BeforeUnlink \cup AfterUnlink \cup LastStep
    BY <1>4, Phases, Zenon
  <1>8. ~Creating(f)' /\ ~Deleting(f)' /\ ~Creating(f) /\ op[f] \notin OpenFile
    BY <1>2, <1>7, Phases, Zenon DEF Creating, Deleting
  <1>9. IdInv(f)'
    BY <1>0, <1>1, <1>3, <1>7, <1>8, Zenon DEF IdInv
  <1>10. DataInv(f)'
    <2>1. done'[f] = <<"retrieve", TRUE>> => done[f][1] = "retrieve"
      BY <1>4
    <2> QED
      BY <1>0, <1>1, <1>2, <1>3, <1>4, <1>7, <2>1, Zenon DEF DataInv
  <1> QED
    BY <1>0, <1>1, <1>5, <1>6, <1>8, <1>9, <1>10, QuietKeeps, Zenon DEF DiskInv

(* read() of a file that is long enough brings the version stored last.    *)
LEMMA ReadingKeeps ==
  ASSUME FileInv, NEW f \in Frags, op[f] \in BeforeRead, Tail(op[f]) \in AfterRead \cup LastStep,
         Readable(f), Go(f), got' = [got EXCEPT ![f] = file[fid[f]][2]],
         UNCHANGED <<kind, fid, file, dirs, version, stored, torn, crashed>>
  PROVE  FileInv'
  <1>0. TypeInv /\ IdInv(f) /\ DataInv(f) /\ DiskInv
    BY Zenon DEF FileInv
  <1>1. /\ op' \in [Frags -> FileOps] /\ op'[f] = Tail(op[f]) /\ done' = done
        /\ \A g \in Frags \ {f} : op'[g] = op[g]
    BY <1>0, GoEffect, Zenon DEF FileOps
  <1>2. file[fid[f]] = <<f, stored[f]>> /\ stored[f] # 0
    <2>1. f \notin torn
      BY <1>0 DEF DataInv, Readable
    <2> QED
      BY <1>0, <2>1, Zenon DEF DataInv
  <1>3. got'[f] = stored[f] /\ got' \in [Frags -> Nat] /\ \A g \in Frags \ {f} : got'[g] = got[g]
    BY <1>0, <1>2 DEF TypeInv
  <1>4. Others(f)
    BY <1>1, <1>3, Zenon DEF Others
  <1>5. TypeInv'
    BY <1>0, <1>1, <1>3, Zenon DEF TypeInv
  <1>6. op'[f] \notin NoId \cup NoFile \cup OpenFile \cup Rewrite \cup BeforeRead
                       \cup BeforeUnlink \cup AfterUnlink
    BY <1>1, Phases, Zenon
  <1>7. ~Creating(f)' /\ ~Deleting(f)' /\ ~Creating(f) /\ op[f] \notin OpenFile
    BY <1>6, Phases, Zenon DEF Creating, Deleting
  <1>8. IdInv(f)'
    BY <1>0, <1>6, <1>7, Zenon DEF IdInv
  <1>9. DataInv(f)'
    <2>1. op[f] # <<>>
      BY Phases, Zenon DEF Over
    <2>2. done[f][1] = "retrieve" /\ done[f] # <<"retrieve", TRUE>>
      BY <1>0, <2>1, Zenon DEF DataInv
    <2>3. done[f][1] # "update"
      BY <2>2
    <2> QED
      BY <1>0, <1>1, <1>2, <1>3, <1>6, <2>2, <2>3, Zenon DEF DataInv
  <1> QED
    BY <1>0, <1>4, <1>5, <1>7, <1>8, <1>9, QuietKeeps, Zenon DEF DiskInv

LEMMA ReadKeeps ==
  ASSUME FileInv, NEW f \in Frags, Read(f)
  PROVE  FileInv'
  <1>0. TypeInv /\ op[f] \in FileOps
    BY Zenon DEF FileInv, TypeInv
  <1>1. UNCHANGED <<kind, fid, file, dirs, version, stored, torn, crashed>>
    BY Zenon DEF Read, disk
  <1>2. op[f] \in BeforeRead /\ Tail(op[f]) \in AfterRead \cup LastStep
    BY <1>0, Reads, Zenon DEF Read, At
  <1>3. CASE Readable(f)
    BY <1>1, <1>2, <1>3, ReadingKeeps, Zenon DEF Read
  <1>4. CASE ~Readable(f)
    <2>1. ~Creating(f) /\ op[f] \notin OpenFile
      BY <1>2, Phases, Zenon DEF Creating
    <2>2. Return(f, FALSE) /\ got' = got
      BY <1>4, Zenon DEF Read
    <2> QED
      BY <1>0, <1>1, <2>1, <2>2, FailureKeeps, Zenon DEF TypeInv
  <1> QED
    BY <1>3, <1>4

LEMMA ReadAndCopyKeeps ==
  ASSUME FileInv, NEW f \in Frags, ReadAndCopy(f)
  PROVE  FileInv'
  <1>0. TypeInv /\ op[f] \in FileOps
    BY Zenon DEF FileInv, TypeInv
  <1>1. UNCHANGED <<kind, fid, file, dirs, version, stored, torn, crashed>>
    BY Zenon DEF ReadAndCopy, disk
  <1>2. op[f] \in BeforeRead /\ Tail(op[f]) \in LastStep
    BY <1>0, ReadsAndCopies, Zenon DEF ReadAndCopy, At
  <1>3. CASE Readable(f)
    <2>1. Go(f) /\ got' = [got EXCEPT ![f] = file[fid[f]][2]]
      BY <1>3 DEF ReadAndCopy
    <2> QED
      BY <1>1, <1>2, <1>3, <2>1, ReadingKeeps, Zenon
  <1>4. CASE ~Readable(f)
    <2>1. ~Creating(f) /\ op[f] \notin OpenFile
      BY <1>2, Phases, Zenon DEF Creating
    <2>2. Return(f, FALSE) /\ got' = [got EXCEPT ![f] = 0]
      BY Zenon, <1>4 DEF ReadAndCopy
    <2>3. got' \in [Frags -> Nat] /\ \A g \in Frags \ {f} : got'[g] = got[g]
      BY <1>0, <2>2 DEF TypeInv
    <2> QED
      BY <1>1, <2>1, <2>2, <2>3, FailureKeeps, Zenon
  <1> QED
    BY <1>3, <1>4


(* The start of a call.                                                    *)
LEMMA StartKeeps ==
  ASSUME FileInv, NEW f \in Frags, NEW program \in FileOps, NEW call \in Calls, op[f] = <<>>,
         op' = [op EXCEPT ![f] = program], done' = [done EXCEPT ![f] = <<call, FALSE>>],
         got' \in [Frags -> Nat], \A g \in Frags \ {f} : got'[g] = got[g],
         UNCHANGED <<kind, fid, file, dirs, version, stored, torn, crashed>>,
         \/ call = "update" /\ program \in NoId /\ fid[f] = None
         \/ call = "update" /\ program \in Rewrite \cup Over /\ fid[f] # None
         \/ call = "retrieve" /\ program \in BeforeRead /\ stored[f] # 0
         \/ call = "delete" /\ program \in Over
         \/ call = "delete" /\ program \in BeforeUnlink /\ fid[f] # None /\ Alone(f)
  PROVE  FileInv'
  <1>0. TypeInv /\ IdInv(f) /\ DataInv(f) /\ DiskInv
    BY Zenon DEF FileInv
  <1>1. op' \in [Frags -> FileOps] /\ op'[f] = program /\ \A g \in Frags \ {f} : op'[g] = op[g]
    BY <1>0 DEF TypeInv
  <1>2. <<call, FALSE>> \in Calls \X BOOLEAN /\ <<call, FALSE>>[1] = call /\ <<call, FALSE>> # <<"retrieve", TRUE>>
    BY Zenon
  <1>3. /\ done' \in [Frags -> Calls \X BOOLEAN] /\ done'[f][1] = call /\ done'[f] # <<"retrieve", TRUE>>
        /\ \A g \in Frags \ {f} : done'[g] = done[g]
    BY Zenon, <1>0, <1>2 DEF TypeInv
  <1>4. Others(f)
    BY <1>1, <1>3, Zenon DEF Others
  <1>5. TypeInv'
    BY <1>0, <1>1, <1>3, Zenon DEF TypeInv
  <1>6. ~Creating(f) /\ op[f] \notin OpenFile /\ Alone(f)' = Alone(f)
    <2>1. op[f] \in Over
      BY Zenon DEF Over
    <2> QED
      BY <2>1, Phases, Zenon DEF Creating, Alone
  <1>7. /\ op'[f] \notin NoFile \cup OpenFile \cup AfterRead \cup AfterUnlink \cup LastStep
        /\ op'[f] \in NoId => fid[f] = None /\ call = "update"
        /\ op'[f] \in Rewrite => fid[f] # None /\ call = "update"
        /\ op'[f] \in BeforeRead => stored[f] # 0 /\ call = "retrieve"
        /\ op'[f] \in BeforeUnlink => fid[f] # None /\ Alone(f) /\ call = "delete"
    BY <1>1, Phases, ZenonT(60)
  <1>8. /\ Creating(f)' => fid[f] = None
        /\ Deleting(f)' => op'[f] \in BeforeUnlink
    BY <1>7, Zenon DEF Creating, Deleting
  <1>9. IdInv(f)'
    BY <1>0, <1>3, <1>6, <1>7, <1>8, Zenon DEF IdInv, DataInv
  <1>10. DataInv(f)'
    BY <1>0, <1>3, <1>7, Zenon DEF DataInv
  <1> QED
    BY <1>0, <1>4, <1>5, <1>6, <1>8, <1>9, <1>10, QuietKeeps, Zenon DEF DiskInv

LEMMA StartUpdateKeeps ==
  ASSUME FileInv, NEW f \in Frags, StartUpdate(f)
  PROVE  FileInv'
  <1>0. TypeInv /\ kind \in {"POSIX", "IME", "PMEM"}
    BY Zenon DEF FileInv, TypeInv
  <1>1. /\ op[f] = <<>> /\ done' = [done EXCEPT ![f] = <<"update", FALSE>>] /\ got' = [got EXCEPT ![f] = 0]
        /\ UNCHANGED <<kind, fid, file, dirs, version, stored, torn, crashed>>
    BY Zenon DEF StartUpdate, disk
  <1>2. PICK program \in {PosixUpdate(f), PosixStream(f), ImeUpdate(f), PmemUpdate(f)} :
          op' = [op EXCEPT ![f] = program]
    <2>1. CASE kind = "POSIX"
      BY Zenon, <2>1 DEF StartUpdate
    <2>2. CASE kind = "IME"
      BY <2>2 DEF StartUpdate
    <2>3. CASE kind = "PMEM"
      BY <2>3 DEF StartUpdate
    <2> QED
      BY <1>0, <2>1, <2>2, <2>3
  <1>3. Files
    BY <1>0, Zenon DEF Files
  <1>4. (program \in NoId /\ fid[f] = None) \/ (program \in Rewrite \cup Over /\ fid[f] # None)
    BY <1>3, Programs, Zenon
  <1>5. program \in FileOps /\ "update" \in Calls
    BY <1>4, Zenon DEF FileOps, Calls
  <1>6. got' \in [Frags -> Nat] /\ \A g \in Frags \ {f} : got'[g] = got[g]
    BY <1>0, <1>1 DEF TypeInv
  <1> QED
    BY <1>1, <1>2, <1>4, <1>5, <1>6, StartKeeps, Zenon

LEMMA StartRetrieveKeeps ==
  ASSUME FileInv, NEW f \in Frags, StartRetrieve(f)
  PROVE  FileInv'
  <1>0. TypeInv /\ kind \in {"POSIX", "IME", "PMEM"}
    BY Zenon DEF FileInv, TypeInv
  <1>1. /\ op[f] = <<>> /\ stored[f] # 0 /\ done' = [done EXCEPT ![f] = <<"retrieve", FALSE>>]
        /\ UNCHANGED <<kind, fid, file, dirs, version, stored, torn, got, crashed>>
    BY Zenon DEF StartRetrieve, disk, history
  <1>2. PICK program \in {PosixRetrieve, ImeRetrieve, PmemRetrieve} : op' = [op EXCEPT ![f] = program]
    <2>1. CASE kind = "POSIX"
      BY <2>1 DEF StartRetrieve
    <2>2. CASE kind = "IME"
      BY <2>2 DEF StartRetrieve
    <2>3. CASE kind = "PMEM"
      BY <2>3 DEF StartRetrieve
    <2> QED
      BY <1>0, <2>1, <2>2, <2>3
  <1>3. Files
    BY <1>0, Zenon DEF Files
  <1>4. program \in BeforeRead
    BY <1>3, Programs, Zenon
  <1>5. program \in FileOps /\ "retrieve" \in Calls
    BY <1>4, Zenon DEF FileOps, Calls
  <1>6. got' \in [Frags -> Nat] /\ \A g \in Frags \ {f} : got'[g] = got[g]
    BY <1>0, <1>1, Zenon DEF TypeInv
  <1> QED
    BY <1>1, <1>2, <1>4, <1>5, <1>6, StartKeeps, Zenon

LEMMA StartDeleteKeeps ==
  ASSUME FileInv, NEW f \in Frags, StartDelete(f)
  PROVE  FileInv'
  <1>0. TypeInv /\ kind \in {"POSIX", "IME", "PMEM"}
    BY Zenon DEF FileInv, TypeInv
  <1>1. /\ op[f] = <<>> /\ done' = [done EXCEPT ![f] = <<"delete", FALSE>>] /\ got' = [got EXCEPT ![f] = 0]
        /\ fid[f] = None \/ Alone(f)
        /\ UNCHANGED <<kind, fid, file, dirs, version, stored, torn, crashed>>
    BY Zenon DEF StartDelete, disk
  <1>2. PICK program \in {PosixDelete(f), ImeDelete(f), PmemDelete(f)} : op' = [op EXCEPT ![f] = program]
    <2>1. CASE kind = "POSIX"
      BY <2>1 DEF StartDelete
    <2>2. CASE kind = "IME"
      BY <2>2 DEF StartDelete
    <2>3. CASE kind = "PMEM"
      BY <2>3 DEF StartDelete
    <2> QED
      BY <1>0, <2>1, <2>2, <2>3
  <1>3. Files
    BY <1>0, Zenon DEF Files
  <1>4. program \in (IF fid[f] = None THEN Over ELSE BeforeUnlink)
    BY <1>3, Programs, Zenon
  <1>5. program \in Over \/ (program \in BeforeUnlink /\ fid[f] # None /\ Alone(f))
    BY <1>1, <1>4, Zenon
  <1>6. program \in FileOps /\ "delete" \in Calls
    BY <1>5, Zenon DEF FileOps, Calls
  <1>7. got' \in [Frags -> Nat] /\ \A g \in Frags \ {f} : got'[g] = got[g]
    BY <1>0, <1>1 DEF TypeInv
  <1> QED
    BY <1>1, <1>2, <1>5, <1>6, <1>7, StartKeeps, Zenon

LEMMA ChangeDataKeeps ==
  ASSUME FileInv, NEW f \in Frags, ChangeData(f)
  PROVE  FileInv'
  <1>0. TypeInv /\ IdInv(f) /\ DataInv(f) /\ DiskInv
    BY Zenon DEF FileInv
  <1>1. /\ op[f] = <<>> /\ version' = [version EXCEPT ![f] = @ + 1]
        /\ UNCHANGED <<kind, fid, file, dirs, op, done, stored, torn, got, crashed>>
    BY Zenon DEF ChangeData, disk
  <1>2. version' \in [Frags -> Nat \ {0}] /\ \A g \in Frags \ {f} : version'[g] = version[g]
    BY <1>0, <1>1 DEF TypeInv
  <1>3. Others(f)
    BY <1>1, <1>2, Zenon DEF Others
  <1>4. TypeInv'
    BY <1>0, <1>1, <1>2, Zenon DEF TypeInv
  <1>5. op[f] \notin LastStep
    BY <1>1, Phases, Zenon DEF Over
  <1>6. IdInv(f)' /\ (Creating(f)' <=> Creating(f))
    BY <1>0, <1>1, Zenon DEF IdInv, Creating, Deleting, Alone
  <1>7. DataInv(f)'
    BY <1>0, <1>1, <1>5, Zenon DEF DataInv
  <1> QED
    BY <1>0, <1>1, <1>3, <1>4, <1>6, <1>7, QuietKeeps, Zenon DEF DiskInv


-----------------------------------------------------------------------------
(* The steps on ids and files.                                             *)

(* A fragment creates, truncates or writes its file: no other fragment     *)
(* that is past open() has this id.                                        *)
LEMMA FilledFile ==
  ASSUME file \in [Ids -> Contents \cup {Absent}],
         NEW f \in Frags, fid[f] \in Ids, NEW v \in Nat, file' = [file EXCEPT ![fid[f]] = <<f, v>>]
  PROVE  /\ file' \in [Ids -> Contents \cup {Absent}] /\ file'[fid[f]] = <<f, v>>
         /\ file'[fid[f]] # Absent /\ file'[fid[f]][1] = f
         /\ \A i \in Ids \ {fid[f]} : file'[i] = file[i]
  <1>1. <<f, v>> \in Contents
    BY DEF Contents
  <1>2. <<f, v>> # Absent
    BY <1>1, FileAssumption, Zenon DEF Contents
  <1>3. <<f, v>>[1] = f
    OBVIOUS
  <1>4. PICK c \in Contents : c = <<f, v>>
    BY <1>1, Zenon
  <1>5. PICK j \in Ids : j = fid[f]
    BY Zenon
  <1>6. file' = [file EXCEPT ![j] = c]
    BY <1>4, <1>5, Zenon
  <1>7. /\ file' \in [Ids -> Contents \cup {Absent}] /\ file'[j] = c
        /\ \A i \in Ids \ {j} : file'[i] = file[i]
    BY <1>6
  <1> QED
    BY <1>2, <1>3, <1>4, <1>5, <1>7, Zenon

LEMMA Filled ==
  ASSUME TypeInv, NEW f \in Frags, fid[f] \in Ids, NEW v \in Nat, file' = [file EXCEPT ![fid[f]] = <<f, v>>]
  PROVE  /\ file' \in [Ids -> Contents \cup {Absent}] /\ file'[fid[f]] = <<f, v>>
         /\ file'[fid[f]] # Absent /\ file'[fid[f]][1] = f
         /\ \A i \in Ids \ {fid[f]} : file'[i] = file[i]
  BY FilledFile, Zenon DEF TypeInv

LEMMA FillingKeeps ==
  ASSUME FileInv, NEW f \in Frags, fid[f] \in Ids, NEW v \in Nat, file' = [file EXCEPT ![fid[f]] = <<f, v>>],
         fid' = fid, dirs' = dirs, crashed' = crashed, DirOf[fid[f]] \in dirs,
         Others(f), TypeInv', IdInv(f)', DataInv(f)', ~Creating(f)', Creating(f) => file[fid[f]] = Absent
  PROVE  FileInv'
  <1>0. TypeInv /\ SameIdInv /\ DiskInv /\ \A g \in Frags : IdInv(g)
    BY Zenon DEF FileInv
  <1>1. /\ file'[fid[f]] # Absent /\ file'[fid[f]][1] = f
        /\ \A i \in Ids \ {fid[f]} : file'[i] = file[i]
    BY <1>0, Filled, Zenon
  <1>2. \A g \in Frags \ {f} : fid[g] = fid[f] => Creating(g)
    <2>1. SUFFICES ASSUME NEW g \in Frags \ {f}, fid[g] = fid[f], ~Creating(g)
                   PROVE  FALSE
      BY Zenon
    <2>2. fid[f] # None
      BY FileAssumption, Zenon
    <2>3. file[fid[f]] # Absent
      BY <1>0, <2>1, <2>2, Zenon DEF SameIdInv
    <2> QED
      BY <1>0, <2>1, <2>2, <2>3, Zenon DEF IdInv
  <1>3. Touches(f) /\ TakesId(f)
    BY <1>1, <1>2, Zenon DEF Touches, TakesId
  <1>4. Shares(f)'
    BY <1>1, Zenon DEF Shares
  <1>5. Owns(f)'
    BY <1>0, <1>1, ZenonT(60) DEF Owns, DiskInv
  <1>6. \A i \in Ids : file'[i] # Absent => DirOf[i] \in dirs'
    BY <1>0, <1>1, Zenon DEF DiskInv
  <1> QED
    BY <1>3, <1>4, <1>5, <1>6, StepKeeps, Zenon

(* create_posix_id(): an id that another fragment has is one with a file,  *)
(* or both are still on their way to open().                               *)
LEMMA MakeIdKeeps ==
  ASSUME FileInv, NEW f \in Frags, MakeId(f)
  PROVE  FileInv'
  <1>0. TypeInv /\ IdInv(f) /\ DataInv(f) /\ DiskInv /\ (\A g \in Frags : IdInv(g) /\ op[g] \in FileOps)
    BY Zenon DEF FileInv, TypeInv
  <1>1. UNCHANGED <<kind, file, dirs, version, stored, torn, got, crashed>> /\ Go(f)
    BY Zenon DEF MakeId, disk, history
  <1>2. PICK id \in Ids : /\ \A g \in Frags : fid[g] = id => /\ file[id] # Absent \/ Creates(g)
                                                            /\ done[g][1] # "delete"
                          /\ fid' = [fid EXCEPT ![f] = id]
    BY Zenon DEF MakeId
  <1>3. op[f] # <<>> /\ op[f] \in NoId /\ Tail(op[f]) \in NoFile
    BY <1>0, DrawsId, Zenon DEF MakeId, At
  <1>4. /\ op' \in [Frags -> FileOps] /\ op'[f] = Tail(op[f]) /\ done' = done
        /\ \A g \in Frags \ {f} : op'[g] = op[g]
    BY <1>0, <1>1, <1>3, GoEffect, Zenon DEF FileOps
  <1>5. fid' \in [Frags -> Ids \cup {None}] /\ fid'[f] = id /\ \A g \in Frags \ {f} : fid'[g] = fid[g]
    BY <1>0, <1>2 DEF TypeInv
  <1>6. Others(f)
    BY <1>1, <1>4, <1>5, Zenon DEF Others
  <1>7. TypeInv'
    BY <1>0, <1>1, <1>4, <1>5, Zenon DEF TypeInv
  <1>8. Touches(f)
    BY <1>1, Zenon DEF Touches
  <1>9. TakesId(f)
    <2>1. \A g \in Frags : Creates(g) => Creating(g)
      BY <1>0, CreatesIsCreating, Zenon
    <2>2. \A g \in Frags : fid[g] = id => ~Deleting(g)
      BY <1>0, <1>2, Zenon DEF IdInv
    <2> QED
      BY <1>2, <1>5, <2>1, <2>2, Zenon DEF TakesId
  <1>10. Creating(f) /\ Creating(f)' /\ fid[f] = None /\ fid'[f] # None
    BY <1>0, <1>3, <1>4, <1>5, FileAssumption, Zenon DEF Creating, IdInv
  <1>11. op'[f] \notin NoId \cup OpenFile \cup Rewrite \cup BeforeRead \cup AfterRead \cup BeforeUnlink
                       \cup AfterUnlink \cup LastStep
    BY <1>3, <1>4, Phases, Zenon
  <1>12. ~Deleting(f)'
    BY <1>11, Zenon DEF Deleting
  <1>13. IdInv(f)'
    BY <1>0, <1>1, <1>10, <1>11, <1>12, Zenon DEF IdInv
  <1>14. DataInv(f)'
    <2>1. stored[f] = 0 /\ f \notin torn /\ done[f] # <<"retrieve", TRUE>> /\ done[f][1] = "update"
      BY <1>0, <1>3, <1>10, Zenon DEF IdInv, DataInv
    <2> QED
      BY <1>1, <1>4, <1>11, <2>1, Zenon DEF DataInv
  <1>15. Shares(f)'
    BY <1>10, Zenon DEF Shares
  <1>16. Owns(f)'
    BY <1>0, <1>1, <1>10, Zenon DEF Owns, DiskInv
  <1> QED
    BY <1>0, <1>1, <1>6, <1>7, <1>8, <1>9, <1>13, <1>14, <1>15, <1>16, StepKeeps, Zenon DEF DiskInv

(* open() with O_EXCL.                                                     *)
LEMMA CreateKeeps ==
  ASSUME FileInv, NEW f \in Frags, Create(f)
  PROVE  FileInv'
  <1>0. TypeInv /\ IdInv(f) /\ DataInv(f) /\ DiskInv /\ op[f] \in FileOps
    BY Zenon DEF FileInv, TypeInv
  <1>1. UNCHANGED <<kind, dirs, version, stored, torn, got, crashed>>
    BY Zenon DEF Create, history
  <1>2. /\ op[f] # <<>> /\ op[f] \in NoFile /\ Tail(op[f]) \in OpenFile
        /\ (IF op[f][2] = "chunk" THEN NewStream ELSE NewFile) \in NoId
    BY <1>0, Opens, Zenon DEF Create, At
  <1>3. Creating(f) /\ fid[f] # None /\ fid[f] \in Ids
    BY <1>0, <1>2, Zenon DEF IdInv, Creating, TypeInv
  <1>4. stored[f] = 0 /\ f \notin torn /\ done[f] # <<"retrieve", TRUE>> /\ done[f][1] = "update"
    BY <1>0, <1>2, <1>3, Zenon DEF IdInv, DataInv
  <1>5. CASE /\ DirOf[fid[f]] \in dirs /\ file[fid[f]] = Absent
             /\ Go(f) /\ file' = [file EXCEPT ![fid[f]] = <<f, 0>>] /\ UNCHANGED fid
    <2>1. /\ op' \in [Frags -> FileOps] /\ op'[f] = Tail(op[f]) /\ done' = done
          /\ \A g \in Frags \ {f} : op'[g] = op[g]
      BY <1>0, <1>2, <1>5, GoEffect, Zenon DEF FileOps
    <2>2. /\ file' \in [Ids -> Contents \cup {Absent}] /\ file'[fid[f]] # Absent /\ file'[fid[f]][1] = f
      BY <1>0, <1>3, <1>5, Filled, 0 \in Nat, Zenon
    <2>3. Others(f)
      BY <1>1, <1>5, <2>1, Zenon DEF Others
    <2>4. TypeInv'
      BY <1>0, <1>1, <1>5, <2>1, <2>2, Zenon DEF TypeInv
    <2>5. op'[f] \in OpenFile
          /\ op'[f] \notin NoId \cup NoFile \cup Rewrite \cup BeforeRead \cup AfterRead \cup BeforeUnlink
                           \cup AfterUnlink \cup LastStep
      BY <1>2, <2>1, Phases, Zenon
    <2>6. ~Creating(f)' /\ ~Deleting(f)'
      BY <2>5, Zenon DEF Creating, Deleting
    <2>7. IdInv(f)'
      BY <1>3, <1>5, <2>2, <2>5, <2>6, Zenon DEF IdInv
    <2>8. DataInv(f)'
      BY <1>1, <1>4, <2>1, <2>5, Zenon DEF DataInv
    <2> QED
      BY <1>1, <1>3, <1>5, <2>3, <2>4, <2>6, <2>7, <2>8, FillingKeeps, 0 \in Nat, Zenon
  <1>6. CASE /\ op' = [op EXCEPT ![f] = IF @[2] = "chunk" THEN NewStream ELSE NewFile]
             /\ fid' = [fid EXCEPT ![f] = None] /\ UNCHANGED <<file, done>>
    <2>1. PICK p \in NoId : p = IF op[f][2] = "chunk" THEN NewStream ELSE NewFile
      BY <1>2, Zenon
    <2>2. p \in FileOps
      BY Zenon DEF FileOps
    <2>3. op' = [op EXCEPT ![f] = p]
      BY <1>0, <1>6, <2>1 DEF TypeInv
    <2>4. op' \in [Frags -> FileOps] /\ op'[f] = p /\ \A g \in Frags \ {f} : op'[g] = op[g]
      BY <1>0, <2>2, <2>3 DEF TypeInv
    <2>5. fid' \in [Frags -> Ids \cup {None}] /\ fid'[f] = None /\ \A g \in Frags \ {f} : fid'[g] = fid[g]
      BY <1>0, <1>6 DEF TypeInv
    <2>6. Others(f)
      BY <1>1, <1>6, <2>4, <2>5, Zenon DEF Others
    <2>7. TypeInv'
      BY <1>0, <1>1, <1>6, <2>4, <2>5, Zenon DEF TypeInv
    <2>8. Touches(f) /\ TakesId(f)
      BY <1>6, <2>5, Zenon DEF Touches, TakesId
    <2>9. op'[f] \notin NoFile \cup OpenFile \cup Rewrite \cup BeforeRead \cup AfterRead \cup BeforeUnlink
                        \cup AfterUnlink \cup LastStep
      BY <2>1, <2>4, Phases, Zenon
    <2>10. Creating(f)' /\ ~Deleting(f)'
      BY <2>1, <2>4, <2>9, Zenon DEF Creating, Deleting
    <2>11. IdInv(f)'
      BY <1>1, <1>4, <2>5, <2>9, <2>10, Zenon DEF IdInv
    <2>12. DataInv(f)'
      BY <1>1, <1>4, <1>6, <2>9, Zenon DEF DataInv
    <2>13. Shares(f)' /\ Owns(f)'
      BY <1>0, <1>1, <1>3, <1>6, <2>10, Zenon DEF Shares, Owns, DiskInv
    <2> QED
      BY <1>0, <1>1, <1>6, <2>6, <2>7, <2>8, <2>11, <2>12, <2>13, StepKeeps, Zenon DEF DiskInv
  <1>7. CASE DirOf[fid[f]] \notin dirs /\ Alone(f) /\ Return(f, FALSE) /\ UNCHANGED <<file, fid>>
    <2>1. file[fid[f]] = Absent /\ op[f] \notin OpenFile
      BY <1>0, <1>2, <1>3, <1>7, Phases, Zenon DEF DiskInv
    <2> QED
      BY <1>0, <1>1, <1>7, <2>1, FailureKeeps, Zenon DEF TypeInv
  <1> QED
    BY <1>5, <1>6, <1>7, Zenon DEF Create


(* entry_update(): the file is torn until it is written.                   *)
LEMMA TruncateKeeps ==
  ASSUME FileInv, NEW f \in Frags, Truncate(f)
  PROVE  FileInv'
  <1>0. TypeInv /\ IdInv(f) /\ DataInv(f) /\ DiskInv /\ op[f] \in FileOps
    BY Zenon DEF FileInv, TypeInv
  <1>1. UNCHANGED <<kind, fid, dirs, version, stored, got, crashed>>
    BY Zenon DEF Truncate
  <1>2. op[f] # <<>> /\ op[f] \in Rewrite /\ Tail(op[f]) \in OpenFile
    BY <1>0, Truncates, Zenon DEF Truncate, At
  <1>3. ~Creating(f) /\ op[f] \notin OpenFile /\ fid[f] # None /\ fid[f] \in Ids
    BY <1>0, <1>2, Phases, Zenon DEF IdInv, Creating, TypeInv
  <1>4. CASE file[fid[f]] = Absent
    <2>1. Return(f, FALSE) /\ UNCHANGED <<file, torn>>
      BY <1>4, Zenon DEF Truncate
    <2> QED
      BY <1>0, <1>1, <1>3, <2>1, FailureKeeps, Zenon DEF TypeInv
  <1>5. CASE file[fid[f]] # Absent
    <2>0. Go(f) /\ file' = [file EXCEPT ![fid[f]] = <<f, 0>>] /\ torn' = torn \cup {f}
      BY <1>5, Zenon DEF Truncate
    <2>1. /\ op' \in [Frags -> FileOps] /\ op'[f] = Tail(op[f]) /\ done' = done
          /\ \A g \in Frags \ {f} : op'[g] = op[g]
      BY <1>0, <1>2, <2>0, GoEffect, Zenon DEF FileOps
    <2>2. /\ file' \in [Ids -> Contents \cup {Absent}] /\ file'[fid[f]] = <<f, 0>>
          /\ file'[fid[f]] # Absent /\ file'[fid[f]][1] = f
      BY <1>0, <1>3, <2>0, Filled, 0 \in Nat, Zenon
    <2>3. Others(f)
      BY <1>1, <2>0, <2>1, Zenon DEF Others
    <2>4. TypeInv'
      BY <1>0, <1>1, <2>0, <2>1, <2>2, Zenon DEF TypeInv
    <2>5. op'[f] \in OpenFile
          /\ op'[f] \notin NoId \cup NoFile \cup Rewrite \cup BeforeRead \cup AfterRead \cup BeforeUnlink
                           \cup AfterUnlink \cup LastStep
      BY <1>2, <2>1, Phases, Zenon
    <2>6. ~Creating(f)' /\ ~Deleting(f)' /\ f \in torn'
      BY <2>0, <2>5, Zenon DEF Creating, Deleting
    <2>7. IdInv(f)'
      BY <1>1, <1>3, <2>2, <2>5, <2>6, Zenon DEF IdInv
    <2>8. DataInv(f)'
      <3>1. stored[f] # 0 /\ done[f] # <<"retrieve", TRUE>> /\ done[f][1] = "update"
        BY <1>0, <1>2, <1>3, <1>5, Zenon DEF IdInv, DataInv
      <3> QED
        BY <1>1, <1>3, <2>1, <2>2, <2>5, <2>6, <3>1, Zenon DEF DataInv
    <2>9. DirOf[fid[f]] \in dirs
      BY <1>0, <1>3, <1>5, Zenon DEF DiskInv
    <2> QED
      BY <1>1, <1>3, <2>0, <2>3, <2>4, <2>6, <2>7, <2>8, <2>9, FillingKeeps, 0 \in Nat, Zenon
  <1> QED
    BY <1>4, <1>5

LEMMA WriteKeeps ==
  ASSUME FileInv, NEW f \in Frags, Write(f)
  PROVE  FileInv'
  <1>0. TypeInv /\ IdInv(f) /\ DataInv(f) /\ DiskInv /\ op[f] \in FileOps
    BY Zenon DEF FileInv, TypeInv
  <1>1. /\ UNCHANGED <<kind, fid, dirs, version, got, crashed>> /\ Go(f)
        /\ stored' = [stored EXCEPT ![f] = version[f]] /\ torn' = torn \ {f}
    BY Zenon DEF Write
  <1>2. op[f] # <<>> /\ op[f] \in OpenFile /\ Tail(op[f]) \in LastStep
    BY <1>0, Writes, Zenon DEF Write, At
  <1>3. ~Creating(f) /\ fid[f] # None /\ fid[f] \in Ids /\ file[fid[f]] # Absent
    BY <1>0, <1>2, Phases, Zenon DEF IdInv, Creating, TypeInv
  <1>4. PICK v \in Nat : v = version[f] /\ v # 0
    BY <1>0 DEF TypeInv
  <1>5. file' = [file EXCEPT ![fid[f]] = <<f, v>>]
    BY <1>0, <1>3, <1>4 DEF Write, TypeInv
  <1>6. /\ op' \in [Frags -> FileOps] /\ op'[f] = Tail(op[f]) /\ done' = done
        /\ \A g \in Frags \ {f} : op'[g] = op[g]
    BY <1>0, <1>1, <1>2, GoEffect, Zenon DEF FileOps
  <1>7. /\ file' \in [Ids -> Contents \cup {Absent}] /\ file'[fid[f]] = <<f, v>>
        /\ file'[fid[f]] # Absent /\ file'[fid[f]][1] = f
    BY <1>0, <1>3, <1>5, Filled, Zenon
  <1>8. stored' \in [Frags -> Nat] /\ stored'[f] = v /\ \A g \in Frags \ {f} : stored'[g] = stored[g]
    BY <1>0, <1>1, <1>4 DEF TypeInv
  <1>9. Others(f)
    BY <1>1, <1>6, <1>8, Zenon DEF Others
  <1>10. TypeInv'
    BY <1>0, <1>1, <1>6, <1>7, <1>8, Zenon DEF TypeInv
  <1>11. op'[f] \notin NoId \cup NoFile \cup OpenFile \cup Rewrite \cup BeforeRead \cup AfterRead \cup BeforeUnlink
                       \cup AfterUnlink
    BY <1>2, <1>6, Phases, Zenon
  <1>12. ~Creating(f)' /\ ~Deleting(f)' /\ f \notin torn'
    BY <1>1, <1>11, Zenon DEF Creating, Deleting
  <1>13. IdInv(f)'
    BY <1>1, <1>3, <1>4, <1>7, <1>8, <1>11, <1>12, Zenon DEF IdInv
  <1>14. DataInv(f)'
    <2>1. done[f] # <<"retrieve", TRUE>> /\ done[f][1] # "retrieve"
      BY Zenon, <1>0, <1>2 DEF DataInv
    <2> QED
      BY <1>1, <1>3, <1>4, <1>6, <1>7, <1>8, <1>11, <1>12, <2>1, Zenon DEF DataInv
  <1>15. DirOf[fid[f]] \in dirs
    BY <1>0, <1>3, Zenon DEF DiskInv
  <1> QED
    BY <1>1, <1>3, <1>5, <1>9, <1>10, <1>12, <1>13, <1>14, <1>15, FillingKeeps, Zenon

LEMMA UnlinkKeeps ==
  ASSUME FileInv, NEW f \in Frags, Unlink(f)
  PROVE  FileInv'
  <1>0. TypeInv /\ IdInv(f) /\ DataInv(f) /\ DiskInv /\ op[f] \in FileOps
    BY Zenon DEF FileInv, TypeInv
  <1>1. UNCHANGED <<kind, fid, dirs, version, got, crashed>>
    BY Zenon DEF Unlink
  <1>2. op[f] # <<>> /\ op[f] \in BeforeUnlink /\ Tail(op[f]) \in AfterUnlink
    BY <1>0, Unlinks, Zenon DEF Unlink, At
  <1>3. /\ ~Creating(f) /\ op[f] \notin OpenFile /\ fid[f] # None /\ fid[f] \in Ids
        /\ done[f][1] = "delete" /\ Alone(f)
    BY <1>0, <1>2, Phases, Zenon DEF IdInv, Creating, Deleting, TypeInv
  <1>4. CASE file[fid[f]] = Absent
    <2>1. Return(f, FALSE) /\ UNCHANGED <<file, stored, torn>>
      BY <1>4, Zenon DEF Unlink
    <2> QED
      BY <1>0, <1>1, <1>3, <2>1, FailureKeeps, Zenon DEF TypeInv
  <1>5. CASE file[fid[f]] # Absent
    <2>0. /\ Go(f) /\ file' = [file EXCEPT ![fid[f]] = Absent]
          /\ stored' = [stored EXCEPT ![f] = 0] /\ torn' = torn \ {f}
      BY <1>5, Zenon DEF Unlink
    <2>1. /\ op' \in [Frags -> FileOps] /\ op'[f] = Tail(op[f]) /\ done' = done
          /\ \A g \in Frags \ {f} : op'[g] = op[g]
      BY <1>0, <1>2, <2>0, GoEffect, Zenon DEF FileOps
    <2>2. /\ file' \in [Ids -> Contents \cup {Absent}] /\ file'[fid[f]] = Absent
          /\ \A i \in Ids \ {fid[f]} : file'[i] = file[i]
      BY <1>0, <1>3, <2>0 DEF TypeInv
    <2>3. stored' \in [Frags -> Nat] /\ stored'[f] = 0 /\ \A g \in Frags \ {f} : stored'[g] = stored[g]
      BY <1>0, <2>0 DEF TypeInv
    <2>4. Others(f)
      BY <1>1, <2>0, <2>1, <2>3, Zenon DEF Others
    <2>5. TypeInv'
      BY <1>0, <1>1, <2>0, <2>1, <2>2, <2>3, Zenon DEF TypeInv
    <2>6. Alone(f)'
      BY <1>1, <1>3, Zenon DEF Alone
    <2>7. Touches(f) /\ TakesId(f)
      BY <1>1, <1>3, <2>2, Zenon DEF Touches, TakesId, Alone
    <2>8. op'[f] \notin NoId \cup NoFile \cup OpenFile \cup Rewrite \cup BeforeRead \cup AfterRead
                        \cup BeforeUnlink \cup LastStep
      BY <1>2, <2>1, Phases, Zenon
    <2>9. ~Creating(f)' /\ f \notin torn'
      BY <2>0, <2>8, Zenon DEF Creating
    <2>10. IdInv(f)'
      BY <1>1, <1>3, <2>1, <2>2, <2>6, <2>8, <2>9, Zenon DEF IdInv
    <2>11. DataInv(f)'
      <3>1. done[f] # <<"retrieve", TRUE>>
        BY <1>0, <1>2, Zenon DEF DataInv
      <3> QED
        BY <2>1, <2>3, <2>8, <2>9, <3>1, Zenon DEF DataInv
    <2>12. Shares(f)'
      BY <2>6, Zenon DEF Shares, Alone
    <2>13. Owns(f)'
      BY <1>0, <1>1, <2>2, Zenon DEF Owns, DiskInv
    <2>14. \A i \in Ids : file'[i] # Absent => DirOf[i] \in dirs'
      BY <1>0, <1>1, <2>2, Zenon DEF DiskInv
    <2> QED
      BY <1>1, <2>4, <2>5, <2>7, <2>10, <2>11, <2>12, <2>13, <2>14, StepKeeps, Zenon
  <1> QED
    BY <1>4, <1>5

LEMMA DestroyKeeps ==
  ASSUME FileInv, NEW f \in Frags, DestroyFragment(f)
  PROVE  FileInv'
  <1>0. TypeInv /\ IdInv(f) /\ DataInv(f) /\ DiskInv /\ op[f] \in FileOps
    BY Zenon DEF FileInv, TypeInv
  <1>1. /\ UNCHANGED <<kind, file, dirs, version, torn, got, crashed>> /\ Return(f, TRUE)
        /\ fid' = [fid EXCEPT ![f] = None] /\ stored' = [stored EXCEPT ![f] = 0]
    BY Zenon DEF DestroyFragment, disk
  <1>2. op[f] # <<>> /\ op[f] \in AfterUnlink
    BY <1>0, EndsAndOthers, Zenon DEF DestroyFragment, At
  <1>3. ~Creating(f) /\ fid[f] # None /\ fid[f] \in Ids /\ file[fid[f]] = Absent /\ done[f][1] = "delete"
    BY <1>0, <1>2, Phases, Zenon DEF IdInv, Creating, Deleting, TypeInv
  <1>4. /\ op' \in [Frags -> FileOps] /\ op'[f] \in Over
        /\ done' \in [Frags -> Calls \X BOOLEAN]
        /\ done'[f] = <<done[f][1], TRUE>>
        /\ \A g \in Frags \ {f} : op'[g] = op[g] /\ done'[g] = done[g]
    BY <1>0, <1>1, ReturnEffect, Zenon
  <1>5. /\ fid' \in [Frags -> Ids \cup {None}] /\ fid'[f] = None /\ \A g \in Frags \ {f} : fid'[g] = fid[g]
        /\ stored' \in [Frags -> Nat] /\ stored'[f] = 0 /\ \A g \in Frags \ {f} : stored'[g] = stored[g]
    BY <1>0, <1>1 DEF TypeInv
  <1>6. f \notin torn
    <2>1. <<f, 0>> \in Frags \X Nat
      OBVIOUS
    <2>2. <<f, 0>> # Absent
      BY <2>1, FileAssumption, Zenon
    <2> QED
      BY <1>0, <1>3, <2>2, Zenon DEF DataInv
  <1>7. Others(f)
    BY <1>1, <1>4, <1>5, Zenon DEF Others
  <1>8. TypeInv'
    BY <1>0, <1>1, <1>4, <1>5, Zenon DEF TypeInv
  <1>9. Touches(f) /\ TakesId(f)
    BY <1>1, <1>5, Zenon DEF Touches, TakesId
  <1>10. op'[f] \notin NoId \cup NoFile \cup OpenFile \cup Rewrite \cup BeforeRead \cup AfterRead
                       \cup BeforeUnlink \cup AfterUnlink \cup LastStep
    BY <1>4, Phases, Zenon
  <1>11. ~Creating(f)' /\ ~Deleting(f)'
    BY <1>10, Zenon DEF Creating, Deleting
  <1>12. IdInv(f)'
    BY <1>5, <1>10, <1>11, Zenon DEF IdInv
  <1>13. DataInv(f)'
    <2>1. done'[f] # <<"retrieve", TRUE>>
      BY <1>3, <1>4
    <2> QED
      BY <1>1, <1>5, <1>6, <1>10, <2>1, Zenon DEF DataInv
  <1>14. Shares(f)'
    BY <1>5, Zenon DEF Shares
  <1>15. Owns(f)'
    BY <1>0, <1>1, <1>3, Zenon DEF Owns, DiskInv
  <1> QED
    BY <1>0, <1>1, <1>7, <1>8, <1>9, <1>12, <1>13, <1>14, <1>15, StepKeeps, Zenon DEF DiskInv

(* The process ends: the fragments that were stored keep their files.      *)
LEMMA CrashKeeps ==
  ASSUME FileInv, Crash
  PROVE  FileInv'
  <1>0. TypeInv /\ SameIdInv /\ DiskInv /\ \A f \in Frags : IdInv(f) /\ DataInv(f)
    BY Zenon DEF FileInv
  <1>1. /\ crashed' = TRUE /\ UNCHANGED <<kind, file, dirs, version, stored, torn, got>>
        /\ op' = [f \in Frags |-> <<>>] /\ done' = [f \in Frags |-> <<"none", TRUE>>]
        /\ fid' = [f \in Frags |-> IF stored[f] # 0 THEN fid[f] ELSE None]
    BY Zenon DEF Crash, disk
  <1>2. <<>> \in Over /\ <<>> \in FileOps
    BY Zenon DEF FileOps, Over
  <1>3. <<"none", TRUE>> \in Calls \X BOOLEAN /\ <<"none", TRUE>> # <<"retrieve", TRUE>>
    BY Zenon DEF Calls
  <1>4. op' \in [Frags -> FileOps] /\ \A f \in Frags : op'[f] \in Over
    BY <1>1, <1>2, Zenon
  <1>5. done' \in [Frags -> Calls \X BOOLEAN] /\ \A f \in Frags : done'[f] # <<"retrieve", TRUE>>
    BY <1>1, <1>3, Zenon
  <1>6. /\ fid' \in [Frags -> Ids \cup {None}]
        /\ \A f \in Frags : fid'[f] = IF stored[f] # 0 THEN fid[f] ELSE None
    BY <1>0, <1>1 DEF TypeInv
  <1>7. TypeInv'
    BY <1>0, <1>1, <1>4, <1>5, <1>6, Zenon DEF TypeInv
  <1>8. \A f \in Frags : fid'[f] # None => stored[f] # 0 /\ fid'[f] = fid[f] /\ ~Creating(f)
    BY <1>0, <1>6, Zenon DEF IdInv
  <1>9. SameIdInv'
    BY <1>0, <1>1, <1>8, Zenon DEF SameIdInv
  <1>10. DiskInv'
    BY <1>0, <1>1, Zenon DEF DiskInv
  <1>11. ASSUME NEW f \in Frags
         PROVE  (IdInv(f) /\ DataInv(f))'
    <2>1. op'[f] \notin NoId \cup NoFile \cup OpenFile \cup Rewrite \cup BeforeRead \cup AfterRead
                        \cup BeforeUnlink \cup AfterUnlink \cup LastStep
      BY <1>4, Phases, Zenon
    <2>2. ~Creating(f)' /\ ~Deleting(f)'
      BY <2>1, Zenon DEF Creating, Deleting
    <2>3. IdInv(f)'
      BY <1>0, <1>1, <1>8, <2>1, <2>2, Zenon DEF IdInv
    <2>4. DataInv(f)'
      BY <1>0, <1>1, <1>5, <1>6, <2>1, Zenon DEF DataInv
    <2> QED
      BY <2>3, <2>4
  <1> QED
    BY <1>7, <1>9, <1>10, <1>11, Zenon DEF FileInv

LEMMA FileStepKeeps ==
  ASSUME FileInv, NEW f \in Frags, FileStep(f)
  PROVE  FileInv'
  <1>1. op[f] \in FileOps
    BY Zenon DEF FileInv, TypeInv
  <1>2. ~(MakeUnusedId(f) \/ Put(f) \/ CreateBucket(f) \/ PutAgain(f))
    BY <1>1, EndsAndOthers, Zenon DEF MakeUnusedId, Put, CreateBucket, PutAgain, At
  <1> QED
    BY <1>2, PackKeeps, MakeIdKeeps, MkdirKeeps, CreateKeeps, TruncateKeeps, ChunkKeeps, WriteKeeps,
       ReadKeeps, ReadAndCopyKeeps, UnpackKeeps, UnlinkKeeps, RmdirKeeps, DestroyKeeps, SucceedKeeps,
       FailKeeps, Zenon DEF FileStep


-----------------------------------------------------------------------------
(* S3.                                                                     *)
LEMMA S3Phases ==
  /\ \A o \in NewObject : o \notin HasId \cup ReadObject \cup LastStep \cup Forget \cup S3Rest
  /\ \A o \in HasId : o \notin ReadObject \cup LastStep \cup Forget \cup S3Rest
  /\ \A o \in ReadObject : o \notin LastStep \cup Forget \cup S3Rest
  /\ \A o \in LastStep : o \notin Forget \cup S3Rest
  /\ \A o \in Forget : o \notin S3Rest
  <1> USE DEF NewObject, HasId, ReadObject, LastStep, Forget, S3Rest
  <1>1. \A o \in NewObject : o \notin HasId \cup ReadObject \cup LastStep \cup Forget \cup S3Rest
    OBVIOUS
  <1>2. \A o \in HasId : o \notin ReadObject \cup LastStep \cup Forget \cup S3Rest
    OBVIOUS
  <1>3. \A o \in ReadObject : o \notin LastStep \cup Forget \cup S3Rest
    OBVIOUS
  <1>4. \A o \in LastStep : o \notin Forget \cup S3Rest
    OBVIOUS
  <1>5. \A o \in Forget : o \notin S3Rest
    OBVIOUS
  <1> HIDE DEF NewObject, HasId, ReadObject, LastStep, Forget, S3Rest
  <1> QED
    BY ONLY Zenon, <1>1, <1>2, <1>3, <1>4, <1>5

(* What a step leaves to be done, and the steps that are none of S3.       *)
LEMMA S3Steps ==
  ASSUME NEW o \in S3Ops, o # <<>>
  PROVE  /\ Head(o) = "unusedid" => o \in NewObject /\ Tail(o) \in HasId
         /\ Head(o) = "put" => o \in HasId /\ Tail(o) \in HasId
         /\ Head(o) = "bucket" => \/ o \in HasId /\ Tail(o) \in HasId
                                  \/ o \in S3Rest /\ Tail(o) \in S3Rest
         /\ Head(o) = "putagain" => o \in HasId /\ Tail(o) \in LastStep
         /\ Head(o) = "read" => o \in ReadObject /\ Tail(o) \in LastStep
         /\ Head(o) = "success" => o \in LastStep
         /\ Head(o) = "error" => o \in S3Rest
         /\ Head(o) = "forget" => o \in Forget
         /\ Head(o) \notin {"pack", "id", "mkdir", "create", "truncate", "chunk", "write",
                           "readandcopy", "unpack", "unlink", "rmdir"}
  <1> DEFINE p1 == <<"unusedid", "put", "bucket", "putagain", "success">>
             p2 == <<"put", "bucket", "putagain", "success">>
             p3 == <<"bucket", "putagain", "success">>
             p4 == <<"putagain", "success">>
             p5 == <<"bucket", "error">>
             p6 == <<"read", "success">>
  <1>1. /\ Head(o) = "unusedid" => o = p1
        /\ Head(o) = "put" => o = p2
        /\ Head(o) = "bucket" => o = p3 \/ o = p5
        /\ Head(o) = "putagain" => o = p4
        /\ Head(o) = "read" => o = p6
        /\ Head(o) = "success" => o \in LastStep
        /\ Head(o) = "error" => o \in S3Rest
        /\ Head(o) = "forget" => o \in Forget
        /\ Head(o) \notin {"pack", "id", "mkdir", "create", "truncate", "chunk", "write",
                          "readandcopy", "unpack", "unlink", "rmdir"}
    BY DEF S3Ops, NewObject, HasId, ReadObject, LastStep, Forget, S3Rest
  <1>2. /\ Tail(p1) = p2 /\ Tail(p2) = p3 /\ Tail(p3) = p4 /\ Tail(p4) = <<"success">>
        /\ Tail(p5) = <<"error">> /\ Tail(p6) = <<"success">>
    OBVIOUS
  <1>3. /\ p1 \in NewObject /\ p2 \in HasId /\ p3 \in HasId /\ p4 \in HasId /\ p5 \in S3Rest
        /\ p6 \in ReadObject /\ <<"success">> \in LastStep /\ <<"error">> \in S3Rest
    BY Zenon DEF NewObject, HasId, ReadObject, LastStep, Forget, S3Rest
  <1> HIDE DEF p1, p2, p3, p4, p5, p6
  <1> QED
    BY <1>1, <1>2, <1>3, Zenon

LEMMA S3Programs ==
  ASSUME NEW f
  PROVE  /\ fid[f] = None => S3Update(f) \in NewObject
         /\ fid[f] # None => S3Update(f) \in HasId
         /\ S3Retrieve \in ReadObject /\ S3Delete \in Forget
  <1>1. S3Retrieve \in ReadObject /\ S3Delete \in Forget
    BY Zenon DEF S3Retrieve, S3Delete, ReadObject, Forget
  <1>2. fid[f] = None => S3Update(f) \in NewObject
    BY DEF S3Update, NewObject
  <1>3. fid[f] # None => S3Update(f) \in HasId
    BY DEF S3Update, HasId
  <1> QED
    BY <1>1, <1>2, <1>3

(* A step of one fragment touches its own object only.                     *)
LEMMA S3StepKeeps ==
  ASSUME S3Inv, NEW f \in Frags, S3Type', Others(f), S3Data(f)',
         \A i \in Ids : file'[i] # file[i] => i = fid[f],
         fid'[f] \in {fid[f], None} \/ \A g \in Frags : fid[g] # fid'[f]
  PROVE  S3Inv'
  <1>0. S3Type /\ OwnIds /\ \A g \in Frags : S3Data(g)
    BY Zenon DEF S3Inv
  <1>1. ASSUME NEW g \in Frags \ {f}
        PROVE  S3Data(g)'
    <2>1. /\ fid'[g] = fid[g] /\ op'[g] = op[g] /\ done'[g] = done[g] /\ version'[g] = version[g]
          /\ stored'[g] = stored[g] /\ got'[g] = got[g]
      BY Zenon DEF Others
    <2>2. S3Data(g)
      BY <1>0, Zenon
    <2>3. fid[g] # None => file'[fid[g]] = file[fid[g]]
      BY <1>0, Zenon DEF S3Type, OwnIds
    <2> QED
      BY <2>1, <2>2, <2>3, Zenon DEF S3Data
  <1>2. \A g \in Frags : S3Data(g)'
    BY <1>1, Zenon
  <1>3. OwnIds'
    <2>1. SUFFICES ASSUME NEW g \in Frags, NEW h \in Frags, fid'[g] # None, fid'[h] = fid'[g]
                   PROVE  g = h
      BY Zenon DEF OwnIds
    <2>2. CASE g # f /\ h # f
      BY <1>0, <2>1, <2>2, ZenonT(60) DEF OwnIds, Others
    <2>3. CASE g # f /\ h = f
      BY <1>0, <2>1, <2>3, ZenonT(60) DEF OwnIds, Others
    <2>4. CASE g = f /\ h # f
      BY <1>0, <2>1, <2>4, ZenonT(60) DEF OwnIds, Others
    <2> QED
      BY <2>2, <2>3, <2>4
  <1> QED
    BY <1>2, <1>3, Zenon DEF S3Inv

LEMMA S3Return ==
  ASSUME S3Type, NEW f \in Frags, NEW b \in BOOLEAN, Return(f, b)
  PROVE  /\ op' \in [Frags -> S3Ops] /\ op'[f] = <<>> /\ op'[f] \in S3Rest
         /\ done' \in [Frags -> Calls \X BOOLEAN]
         /\ done'[f] = <<done[f][1], b>> /\ done'[f][1] = done[f][1]
         /\ \A g \in Frags \ {f} : op'[g] = op[g] /\ done'[g] = done[g]
  <1>1. <<>> \in S3Rest
    BY Zenon DEF S3Rest
  <1>2. <<>> \in S3Ops
    BY <1>1, Zenon DEF S3Ops
  <1>3. op' = [op EXCEPT ![f] = <<>>] /\ done' = [done EXCEPT ![f] = <<done[f][1], b>>]
    BY DEF Return, S3Type
  <1>4. op' \in [Frags -> S3Ops] /\ op'[f] = <<>> /\ \A g \in Frags \ {f} : op'[g] = op[g]
    BY <1>2, <1>3 DEF S3Type
  <1>5. done[f][1] \in Calls
    BY DEF S3Type
  <1>6. PICK c \in Calls : c = done[f][1]
    BY <1>5, Zenon
  <1>7. <<c, b>> \in Calls \X BOOLEAN
    BY Zenon
  <1>8. done' = [done EXCEPT ![f] = <<c, b>>]
    BY <1>3, <1>6, Zenon
  <1>9. /\ done' \in [Frags -> Calls \X BOOLEAN] /\ done'[f] = <<c, b>>
        /\ \A g \in Frags \ {f} : done'[g] = done[g]
    BY <1>7, <1>8 DEF S3Type
  <1>10. <<c, b>>[1] = c
    OBVIOUS
  <1> QED
    BY <1>1, <1>4, <1>6, <1>9, <1>10, Zenon

LEMMA S3FailureKeeps ==
  ASSUME S3Inv, NEW f \in Frags, Return(f, FALSE), UNCHANGED <<kind, fid, file, version, stored, torn, got>>
  PROVE  S3Inv'
  <1>0. S3Type /\ S3Data(f)
    BY Zenon DEF S3Inv
  <1>1. /\ op' \in [Frags -> S3Ops] /\ op'[f] \in S3Rest
        /\ done' \in [Frags -> Calls \X BOOLEAN] /\ done'[f] = <<done[f][1], FALSE>>
        /\ \A g \in Frags \ {f} : op'[g] = op[g] /\ done'[g] = done[g]
    BY <1>0, S3Return, Zenon
  <1>2. Others(f) /\ S3Type'
    BY <1>0, <1>1, Zenon DEF Others, S3Type
  <1>3. op'[f] \notin NewObject \cup HasId \cup ReadObject \cup LastStep \cup Forget
    BY <1>1, S3Phases, Zenon
  <1>4. done'[f] # <<"retrieve", TRUE>>
    BY <1>1
  <1>5. S3Data(f)'
    BY <1>0, <1>3, <1>4, Zenon DEF S3Data
  <1> QED
    BY <1>2, <1>5, S3StepKeeps, Zenon

(* A step within an update, or one to its end, and the end of a retrieve.  *)
LEMMA S3GoKeeps ==
  ASSUME S3Inv, NEW f \in Frags, NEW rest \in S3Ops, op[f] # <<>>, op' = [op EXCEPT ![f] = rest],
         UNCHANGED <<kind, fid, file, done, version, stored, torn, got>>,
         (op[f] \in HasId /\ rest \in HasId) \/ rest \in S3Rest
  PROVE  S3Inv'
  <1>0. S3Type /\ S3Data(f)
    BY Zenon DEF S3Inv
  <1>1. op' \in [Frags -> S3Ops] /\ op'[f] = rest /\ \A g \in Frags \ {f} : op'[g] = op[g]
    BY <1>0 DEF S3Type
  <1>2. Others(f) /\ S3Type'
    BY <1>0, <1>1, Zenon DEF Others, S3Type
  <1>3. /\ op'[f] \notin NewObject \cup ReadObject \cup LastStep \cup Forget
        /\ op'[f] \in HasId => op[f] \in HasId
    BY <1>1, S3Phases, Zenon
  <1>4. done[f] # <<"retrieve", TRUE>>
    BY <1>0, Zenon DEF S3Data
  <1>5. S3Data(f)'
    BY <1>0, <1>3, <1>4, Zenon DEF S3Data
  <1> QED
    BY <1>2, <1>5, S3StepKeeps, Zenon

(* A request that is done.                                                 *)
LEMMA S3PutKeeps ==
  ASSUME S3Inv, NEW f \in Frags, op[f] \in HasId, op[f] # <<>>, NEW rest \in LastStep,
         op' = [op EXCEPT ![f] = rest],
         file' = [file EXCEPT ![fid[f]] = <<f, version[f]>>], stored' = [stored EXCEPT ![f] = version[f]],
         UNCHANGED <<kind, fid, done, version, torn, got>>
  PROVE  S3Inv'
  <1>0. S3Type /\ S3Data(f) /\ rest \in S3Ops
    BY Zenon DEF S3Inv, S3Ops
  <1>1. op' \in [Frags -> S3Ops] /\ op'[f] = rest /\ \A g \in Frags \ {f} : op'[g] = op[g]
    BY <1>0 DEF S3Type
  <1>2. fid[f] # None /\ fid[f] \in Ids
    BY <1>0, Zenon DEF S3Data, S3Type
  <1>3. PICK v \in Nat : v = version[f] /\ v # 0
    BY <1>0 DEF S3Type
  <1>4. /\ file' \in [Ids -> Contents \cup {Absent}] /\ file'[fid[f]] = <<f, v>>
        /\ \A i \in Ids \ {fid[f]} : file'[i] = file[i]
    BY <1>0, <1>2, <1>3, FilledFile, Zenon DEF S3Type
  <1>5. stored' \in [Frags -> Nat] /\ stored'[f] = v /\ \A g \in Frags \ {f} : stored'[g] = stored[g]
    BY <1>0, <1>3 DEF S3Type
  <1>6. Others(f) /\ S3Type'
    BY <1>0, <1>1, <1>4, <1>5, Zenon DEF Others, S3Type
  <1>7. op'[f] \notin NewObject \cup HasId \cup ReadObject \cup Forget
    BY <1>1, S3Phases, Zenon
  <1>8. done[f] # <<"retrieve", TRUE>> /\ done[f][1] = "update"
    BY <1>0, Zenon DEF S3Data
  <1>9. done[f][1] # "retrieve"
    BY <1>8
  <1>10. S3Data(f)'
    BY <1>2, <1>3, <1>4, <1>5, <1>7, <1>8, <1>9, Zenon DEF S3Data
  <1> QED
    BY <1>4, <1>6, <1>10, S3StepKeeps, Zenon


LEMMA S3UpdateSteps ==
  ASSUME S3Inv, NEW f \in Frags, Put(f) \/ CreateBucket(f) \/ PutAgain(f)
  PROVE  S3Inv'
  <1>0. S3Type /\ S3Data(f) /\ op[f] \in S3Ops
    BY Zenon DEF S3Inv, S3Type
  <1>1. CASE Put(f)
    <2>1. op[f] # <<>> /\ op[f] \in HasId /\ Tail(op[f]) \in HasId
      BY <1>0, <1>1, S3Steps, Zenon DEF Put, At
    <2>2. UNCHANGED <<kind, fid, done, version, torn, got>>
      BY <1>1, Zenon DEF Put
    <2>3. CASE /\ file' = [file EXCEPT ![fid[f]] = <<f, version[f]>>]
               /\ stored' = [stored EXCEPT ![f] = version[f]] /\ op' = [op EXCEPT ![f] = <<"success">>]
      <3>1. <<"success">> \in LastStep
        BY Zenon DEF LastStep
      <3> QED
        BY <2>1, <2>2, <2>3, <3>1, S3PutKeeps, Zenon
    <2>4. CASE op' = [op EXCEPT ![f] = Tail(@)] /\ UNCHANGED <<file, stored>>
      <3>1. op' = [op EXCEPT ![f] = Tail(op[f])] /\ Tail(op[f]) \in S3Ops
        BY <1>0, <2>1, <2>4, Zenon DEF S3Ops
      <3> QED
        BY <2>1, <2>2, <2>4, <3>1, S3GoKeeps, Zenon
    <2>5. CASE op' = [op EXCEPT ![f] = <<"bucket", "error">>] /\ UNCHANGED <<file, stored>>
      <3>1. <<"bucket", "error">> \in S3Rest
        BY Zenon DEF S3Rest
      <3>2. <<"bucket", "error">> \in S3Ops
        BY <3>1, Zenon DEF S3Ops
      <3> QED
        BY <2>1, <2>2, <2>5, <3>1, <3>2, S3GoKeeps, Zenon
    <2>6. \/ /\ file' = [file EXCEPT ![fid[f]] = <<f, version[f]>>]
             /\ stored' = [stored EXCEPT ![f] = version[f]] /\ op' = [op EXCEPT ![f] = <<"success">>]
          \/ op' = [op EXCEPT ![f] = Tail(@)] /\ UNCHANGED <<file, stored>>
          \/ op' = [op EXCEPT ![f] = <<"bucket", "error">>] /\ UNCHANGED <<file, stored>>
      BY <1>1 DEF Put
    <2> QED
      BY <2>3, <2>4, <2>5, <2>6, Zenon
  <1>2. CASE CreateBucket(f)
    <2>1. /\ op[f] # <<>>
          /\ (op[f] \in HasId /\ Tail(op[f]) \in HasId) \/ (op[f] \in S3Rest /\ Tail(op[f]) \in S3Rest)
      BY <1>0, <1>2, S3Steps, Zenon DEF CreateBucket, At
    <2>2. UNCHANGED <<kind, fid, file, version, stored, torn, got>>
      BY <1>2, Zenon DEF CreateBucket, history
    <2>3. CASE Go(f)
      <3>1. op' = [op EXCEPT ![f] = Tail(op[f])] /\ done' = done /\ Tail(op[f]) \in S3Ops
        BY <1>0, <2>1, <2>3, Zenon DEF S3Ops, Go
      <3> QED
        BY <2>1, <2>2, <3>1, S3GoKeeps, Zenon
    <2>4. CASE Return(f, FALSE)
      BY <2>2, <2>4, S3FailureKeeps, Zenon
    <2> QED
      BY <1>2, <2>3, <2>4, Zenon DEF CreateBucket
  <1>3. CASE PutAgain(f)
    <2>1. op[f] # <<>> /\ op[f] \in HasId /\ Tail(op[f]) \in LastStep
      BY <1>0, <1>3, S3Steps, Zenon DEF PutAgain, At
    <2>2. UNCHANGED <<kind, fid, version, torn, got>>
      BY <1>3, Zenon DEF PutAgain
    <2>3. CASE /\ Go(f) /\ file' = [file EXCEPT ![fid[f]] = <<f, version[f]>>]
               /\ stored' = [stored EXCEPT ![f] = version[f]]
      <3>1. op' = [op EXCEPT ![f] = Tail(op[f])] /\ done' = done
        BY <2>3, Zenon DEF Go
      <3> QED
        BY <2>1, <2>2, <2>3, <3>1, S3PutKeeps, Zenon
    <2>4. CASE Return(f, FALSE) /\ UNCHANGED <<file, stored>>
      BY <2>2, <2>4, S3FailureKeeps, Zenon
    <2> QED
      BY <1>3, <2>3, <2>4, Zenon DEF PutAgain
  <1> QED
    BY <1>1, <1>2, <1>3

LEMMA S3MakeId ==
  ASSUME S3Inv, NEW f \in Frags, MakeUnusedId(f)
  PROVE  S3Inv'
  <1>0. S3Type /\ S3Data(f) /\ op[f] \in S3Ops
    BY Zenon DEF S3Inv, S3Type
  <1>1. UNCHANGED <<kind, file, done, version, stored, torn, got>> /\ op' = [op EXCEPT ![f] = Tail(op[f])]
    BY Zenon DEF MakeUnusedId, disk, history, Go
  <1>2. PICK id \in Ids : (\A g \in Frags : fid[g] # id) /\ fid' = [fid EXCEPT ![f] = id]
    BY Zenon DEF MakeUnusedId
  <1>3. op[f] # <<>> /\ op[f] \in NewObject /\ Tail(op[f]) \in HasId
    BY <1>0, S3Steps, Zenon DEF MakeUnusedId, At
  <1>4. Tail(op[f]) \in S3Ops
    BY <1>3, Zenon DEF S3Ops
  <1>5. op' \in [Frags -> S3Ops] /\ op'[f] = Tail(op[f]) /\ \A g \in Frags \ {f} : op'[g] = op[g]
    BY <1>0, <1>1, <1>4 DEF S3Type
  <1>6. fid' \in [Frags -> Ids \cup {None}] /\ fid'[f] = id /\ \A g \in Frags \ {f} : fid'[g] = fid[g]
    BY <1>0, <1>2 DEF S3Type
  <1>7. Others(f) /\ S3Type'
    BY <1>0, <1>1, <1>5, <1>6, Zenon DEF Others, S3Type
  <1>8. op'[f] \notin NewObject \cup ReadObject \cup LastStep \cup Forget
    BY <1>3, <1>5, S3Phases, Zenon
  <1>9. stored[f] = 0 /\ done[f] # <<"retrieve", TRUE>> /\ done[f][1] = "update" /\ fid'[f] # None
    BY <1>0, <1>3, <1>6, FileAssumption, Zenon DEF S3Data
  <1>10. S3Data(f)'
    BY <1>1, <1>8, <1>9, Zenon DEF S3Data
  <1> QED
    BY <1>1, <1>2, <1>6, <1>7, <1>10, S3StepKeeps, Zenon

LEMMA S3Ends ==
  ASSUME S3Inv, NEW f \in Frags, Succeed(f) \/ Fail(f) \/ DestroyFragment(f)
  PROVE  S3Inv'
  <1>0. S3Type /\ S3Data(f) /\ op[f] \in S3Ops
    BY Zenon DEF S3Inv, S3Type
  <1>1. CASE Succeed(f)
    <2>1. op[f] \in LastStep
      BY <1>0, <1>1, S3Steps, Zenon DEF Succeed, At
    <2>2. UNCHANGED <<kind, fid, file, version, torn, got>> /\ Return(f, TRUE)
      BY <1>1, Zenon DEF Succeed, disk
    <2>3. stored' = stored
      <3>1. CASE done[f][1] = "update"
        <4>1. stored[f] = version[f] /\ stored' = [stored EXCEPT ![f] = version[f]]
          BY <1>0, <1>1, <2>1, <3>1, Zenon DEF S3Data, Succeed
        <4> QED
          BY <4>1, <1>0 DEF S3Type
      <3>2. CASE done[f][1] # "update"
        BY <1>1, <3>2, Zenon DEF Succeed
      <3> QED
        BY <3>1, <3>2
    <2>4. /\ op' \in [Frags -> S3Ops] /\ op'[f] = <<>> /\ op'[f] \in S3Rest
          /\ done' \in [Frags -> Calls \X BOOLEAN] /\ done'[f] = <<done[f][1], TRUE>>
          /\ \A g \in Frags \ {f} : op'[g] = op[g] /\ done'[g] = done[g]
      BY <1>0, <2>2, S3Return, Zenon
    <2>5. Others(f) /\ S3Type'
      BY <1>0, <2>2, <2>3, <2>4, Zenon DEF Others, S3Type
    <2>6. op'[f] \notin NewObject \cup HasId \cup ReadObject \cup LastStep \cup Forget
      BY <2>4, S3Phases, Zenon
    <2>7. done'[f] = <<"retrieve", TRUE>> => done[f][1] = "retrieve"
      BY <2>4
    <2>8. S3Data(f)'
      BY <1>0, <2>1, <2>2, <2>3, <2>4, <2>6, <2>7, Zenon DEF S3Data
    <2> QED
      BY <2>2, <2>5, <2>8, S3StepKeeps, Zenon
  <1>2. CASE Fail(f)
    BY <1>2, S3FailureKeeps, Zenon DEF Fail, disk, history
  <1>3. CASE DestroyFragment(f)
    <2>1. /\ UNCHANGED <<kind, file, version, torn, got>> /\ Return(f, TRUE)
          /\ fid' = [fid EXCEPT ![f] = None] /\ stored' = [stored EXCEPT ![f] = 0]
      BY <1>3, Zenon DEF DestroyFragment, disk
    <2>2. op[f] \in Forget
      BY <1>0, <1>3, S3Steps, Zenon DEF DestroyFragment, At
    <2>3. /\ op' \in [Frags -> S3Ops] /\ op'[f] = <<>> /\ op'[f] \in S3Rest
          /\ done' \in [Frags -> Calls \X BOOLEAN] /\ done'[f] = <<done[f][1], TRUE>>
          /\ \A g \in Frags \ {f} : op'[g] = op[g] /\ done'[g] = done[g]
      BY <1>0, <2>1, S3Return, Zenon
    <2>4. /\ fid' \in [Frags -> Ids \cup {None}] /\ fid'[f] = None /\ \A g \in Frags \ {f} : fid'[g] = fid[g]
          /\ stored' \in [Frags -> Nat] /\ stored'[f] = 0 /\ \A g \in Frags \ {f} : stored'[g] = stored[g]
      BY <1>0, <2>1 DEF S3Type
    <2>5. Others(f) /\ S3Type'
      BY <1>0, <2>1, <2>3, <2>4, Zenon DEF Others, S3Type
    <2>6. op'[f] \notin NewObject \cup HasId \cup ReadObject \cup LastStep \cup Forget
      BY <2>3, S3Phases, Zenon
    <2>7. done'[f] # <<"retrieve", TRUE>>
      <3>1. done[f][1] # "retrieve"
        BY <1>0, <2>2 DEF S3Data
      <3> QED
        BY <2>3, <3>1
    <2>8. S3Data(f)'
      BY <2>4, <2>6, <2>7, Zenon DEF S3Data
    <2> QED
      BY <2>1, <2>4, <2>5, <2>8, S3StepKeeps, Zenon
  <1> QED
    BY <1>1, <1>2, <1>3

LEMMA S3Read ==
  ASSUME S3Inv, NEW f \in Frags, Read(f)
  PROVE  S3Inv'
  <1>0. S3Type /\ S3Data(f) /\ op[f] \in S3Ops
    BY Zenon DEF S3Inv, S3Type
  <1>1. UNCHANGED <<kind, fid, file, version, stored, torn>>
    BY Zenon DEF Read, disk
  <1>2. op[f] # <<>> /\ op[f] \in ReadObject /\ Tail(op[f]) \in LastStep
    BY <1>0, S3Steps, Zenon DEF Read, At
  <1>3. CASE Readable(f)
    <2>1. /\ op' = [op EXCEPT ![f] = Tail(op[f])] /\ done' = done
          /\ got' = [got EXCEPT ![f] = file[fid[f]][2]] /\ Tail(op[f]) \in S3Ops
      BY <1>2, <1>3, Zenon DEF Read, Go, S3Ops
    <2>2. op' \in [Frags -> S3Ops] /\ op'[f] = Tail(op[f]) /\ \A g \in Frags \ {f} : op'[g] = op[g]
      BY <1>0, <2>1 DEF S3Type
    <2>3. stored[f] # 0 /\ file[fid[f]] = <<f, stored[f]>> /\ done[f][1] = "retrieve" /\ done[f] # <<"retrieve", TRUE>>
      BY <1>0, <1>2, Zenon DEF S3Data
    <2>4. got' \in [Frags -> Nat] /\ got'[f] = stored[f] /\ \A g \in Frags \ {f} : got'[g] = got[g]
      BY <1>0, <2>1, <2>3 DEF S3Type
    <2>5. Others(f) /\ S3Type'
      BY <1>0, <1>1, <2>1, <2>2, <2>4, Zenon DEF Others, S3Type
    <2>6. op'[f] \notin NewObject \cup HasId \cup ReadObject \cup Forget
      BY <1>2, <2>2, S3Phases, Zenon
    <2>7. done[f][1] # "update"
      BY <2>3
    <2>8. S3Data(f)'
      BY <1>0, <1>1, <2>1, <2>3, <2>4, <2>6, <2>7, Zenon DEF S3Data
    <2> QED
      BY <1>1, <2>5, <2>8, S3StepKeeps, Zenon
  <1>4. CASE ~Readable(f)
    BY <1>1, <1>4, S3FailureKeeps, Zenon DEF Read
  <1> QED
    BY <1>3, <1>4

LEMMA S3Starts ==
  ASSUME S3Inv, NEW f \in Frags, StartUpdate(f) \/ StartRetrieve(f) \/ StartDelete(f)
  PROVE  S3Inv'
  <1>0. S3Type /\ S3Data(f) /\ kind = "S3"
    BY Zenon DEF S3Inv, S3Type
  <1>1. /\ op[f] = <<>> /\ UNCHANGED <<kind, fid, file, version, stored, torn>>
        /\ got' = got \/ got' = [got EXCEPT ![f] = 0]
    <2>1. CASE StartUpdate(f)
      BY <2>1, Zenon DEF StartUpdate, disk
    <2>2. CASE StartRetrieve(f)
      BY <2>2, Zenon DEF StartRetrieve, disk, history
    <2>3. CASE StartDelete(f)
      BY <2>3, Zenon DEF StartDelete, disk
    <2> QED
      BY <2>1, <2>2, <2>3, Zenon
  <1>2. got' \in [Frags -> Nat] /\ \A g \in Frags \ {f} : got'[g] = got[g]
    <2>1. CASE got' = got
      BY <1>0, <2>1, Zenon DEF S3Type
    <2>2. CASE got' = [got EXCEPT ![f] = 0]
      BY <1>0, <2>2 DEF S3Type
    <2> QED
      BY <1>1, <2>1, <2>2, Zenon
  <1>3. PICK program, call :
          /\ op' = [op EXCEPT ![f] = program] /\ done' = [done EXCEPT ![f] = <<call, FALSE>>]
          /\ \/ call = "update" /\ program \in NewObject /\ fid[f] = None
             \/ call = "update" /\ program \in HasId /\ fid[f] # None
             \/ call = "retrieve" /\ program \in ReadObject /\ stored[f] # 0
             \/ call = "delete" /\ program \in Forget
    <2>1. CASE StartUpdate(f)
      <3>1. op' = [op EXCEPT ![f] = S3Update(f)] /\ done' = [done EXCEPT ![f] = <<"update", FALSE>>]
        BY <1>0, <2>1 DEF StartUpdate
      <3> QED
        BY <3>1, S3Programs, Zenon
    <2>2. CASE StartRetrieve(f)
      <3>1. op' = [op EXCEPT ![f] = S3Retrieve] /\ done' = [done EXCEPT ![f] = <<"retrieve", FALSE>>] /\ stored[f] # 0
        BY <1>0, <2>2 DEF StartRetrieve
      <3> QED
        BY <3>1, S3Programs, Zenon
    <2>3. CASE StartDelete(f)
      <3>1. op' = [op EXCEPT ![f] = S3Delete] /\ done' = [done EXCEPT ![f] = <<"delete", FALSE>>]
        BY <1>0, <2>3 DEF StartDelete
      <3> QED
        BY <3>1, S3Programs, Zenon
    <2> QED
      BY Zenon, <2>1, <2>2, <2>3
  <1>4. program \in S3Ops /\ call \in Calls
    BY <1>3, Zenon DEF S3Ops, Calls
  <1>5. op' \in [Frags -> S3Ops] /\ op'[f] = program /\ \A g \in Frags \ {f} : op'[g] = op[g]
    BY <1>0, <1>3, <1>4 DEF S3Type
  <1>6. <<call, FALSE>> \in Calls \X BOOLEAN /\ <<call, FALSE>>[1] = call /\ <<call, FALSE>> # <<"retrieve", TRUE>>
    <2>1. \A c \in Calls : <<c, FALSE>> \in Calls \X BOOLEAN /\ <<c, FALSE>>[1] = c /\ <<c, FALSE>> # <<"retrieve", TRUE>>
      BY Zenon
    <2> QED
      BY <1>4, <2>1, Zenon
  <1>7. /\ done' \in [Frags -> Calls \X BOOLEAN] /\ done'[f][1] = call /\ done'[f] # <<"retrieve", TRUE>>
        /\ \A g \in Frags \ {f} : done'[g] = done[g]
    BY Zenon, <1>0, <1>3, <1>6 DEF S3Type
  <1>8. Others(f) /\ S3Type'
    BY <1>0, <1>1, <1>2, <1>5, <1>7, Zenon DEF Others, S3Type
  <1>9. /\ op'[f] \notin LastStep
        /\ op'[f] \in NewObject => fid[f] = None /\ call = "update"
        /\ op'[f] \in HasId => fid[f] # None /\ call = "update"
        /\ op'[f] \in ReadObject => stored[f] # 0 /\ call = "retrieve"
        /\ op'[f] \in Forget => call = "delete"
    BY <1>3, <1>5, S3Phases, Zenon
  <1>10. S3Data(f)'
    BY <1>0, <1>1, <1>7, <1>9, Zenon DEF S3Data
  <1> QED
    BY <1>1, <1>8, <1>10, S3StepKeeps, Zenon

LEMMA S3ChangeData ==
  ASSUME S3Inv, NEW f \in Frags, ChangeData(f)
  PROVE  S3Inv'
  <1>0. S3Type /\ S3Data(f)
    BY Zenon DEF S3Inv
  <1>1. /\ op[f] = <<>> /\ version' = [version EXCEPT ![f] = @ + 1]
        /\ UNCHANGED <<kind, fid, file, op, done, stored, torn, got>>
    BY Zenon DEF ChangeData, disk
  <1>2. version' \in [Frags -> Nat \ {0}] /\ \A g \in Frags \ {f} : version'[g] = version[g]
    BY <1>0, <1>1 DEF S3Type
  <1>3. Others(f) /\ S3Type'
    BY <1>0, <1>1, <1>2, Zenon DEF Others, S3Type
  <1>4. op[f] \notin LastStep
    BY <1>1, S3Phases, Zenon DEF S3Rest
  <1>5. S3Data(f)'
    BY <1>0, <1>1, <1>4, Zenon DEF S3Data
  <1> QED
    BY <1>1, <1>3, <1>5, S3StepKeeps, Zenon

LEMMA S3Crash ==
  ASSUME S3Inv, Crash
  PROVE  S3Inv'
  <1>0. S3Type /\ OwnIds /\ \A f \in Frags : S3Data(f)
    BY Zenon DEF S3Inv
  <1>1. /\ UNCHANGED <<kind, file, version, stored, torn, got>>
        /\ op' = [f \in Frags |-> <<>>] /\ done' = [f \in Frags |-> <<"none", TRUE>>]
        /\ fid' = [f \in Frags |-> IF stored[f] # 0 THEN fid[f] ELSE None]
    BY Zenon DEF Crash, disk
  <1>2. <<>> \in S3Rest /\ <<>> \in S3Ops
    BY Zenon DEF S3Ops, S3Rest
  <1>3. <<"none", TRUE>> \in Calls \X BOOLEAN /\ <<"none", TRUE>> # <<"retrieve", TRUE>>
    BY Zenon DEF Calls
  <1>4. op' \in [Frags -> S3Ops] /\ \A f \in Frags : op'[f] \in S3Rest
    BY <1>1, <1>2, Zenon
  <1>5. done' \in [Frags -> Calls \X BOOLEAN] /\ \A f \in Frags : done'[f] # <<"retrieve", TRUE>>
    BY <1>1, <1>3, Zenon
  <1>6. /\ fid' \in [Frags -> Ids \cup {None}]
        /\ \A f \in Frags : fid'[f] = IF stored[f] # 0 THEN fid[f] ELSE None
    BY <1>0, <1>1 DEF S3Type
  <1>7. S3Type'
    BY <1>0, <1>1, <1>4, <1>5, <1>6, Zenon DEF S3Type
  <1>8. OwnIds'
    BY <1>0, <1>6, Zenon DEF OwnIds
  <1>9. ASSUME NEW f \in Frags
        PROVE  S3Data(f)'
    <2>1. op'[f] \notin NewObject \cup HasId \cup ReadObject \cup LastStep \cup Forget
      BY <1>4, S3Phases, Zenon
    <2> QED
      BY <1>0, <1>1, <1>5, <1>6, <2>1, Zenon DEF S3Data
  <1> QED
    BY <1>7, <1>8, <1>9, Zenon DEF S3Inv

LEMMA S3FileStep ==
  ASSUME S3Inv, NEW f \in Frags, FileStep(f)
  PROVE  S3Inv'
  <1>1. op[f] \in S3Ops
    BY Zenon DEF S3Inv, S3Type
  <1>2. ~(Pack(f) \/ MakeId(f) \/ Mkdir(f) \/ Create(f) \/ Truncate(f) \/ Chunk(f) \/ Write(f)
          \/ ReadAndCopy(f) \/ Unpack(f) \/ Unlink(f) \/ Rmdir(f))
    BY <1>1, S3Steps, Zenon DEF Pack, MakeId, Mkdir, Create, Truncate, Chunk, Write,
       ReadAndCopy, Unpack, Unlink, Rmdir, At
  <1> QED
    BY <1>2, S3UpdateSteps, S3MakeId, S3Ends, S3Read, Zenon DEF FileStep

-----------------------------------------------------------------------------
(* All backends.                                                           *)

LEMMA InitialState == FileInit => BackendInv
  <1>1. SUFFICES ASSUME FileInit, kind # "DUMMY"
                 PROVE  FileInv \/ S3Inv
    BY Zenon DEF BackendInv
  <1>2. /\ kind \in {"POSIX", "IME", "PMEM", "S3"}
        /\ fid = [f \in Frags |-> None] /\ file = [i \in Ids |-> Absent] /\ dirs = {}
        /\ op = [f \in Frags |-> <<>>] /\ done = [f \in Frags |-> <<"none", TRUE>>]
        /\ version = [f \in Frags |-> 1] /\ stored = [f \in Frags |-> 0]
        /\ got = [f \in Frags |-> 0] /\ torn = {} /\ crashed = FALSE
    BY <1>1 DEF FileInit, Kinds
  <1>3. <<"none", TRUE>> \in Calls \X BOOLEAN /\ <<"none", TRUE>> # <<"retrieve", TRUE>>
    BY Zenon DEF Calls
  <1>4. /\ fid \in [Frags -> Ids \cup {None}] /\ file \in [Ids -> Contents \cup {Absent}]
        /\ version \in [Frags -> Nat \ {0}] /\ stored \in [Frags -> Nat] /\ got \in [Frags -> Nat]
        /\ torn \in SUBSET Frags
    BY <1>2
  <1>5. done \in [Frags -> Calls \X BOOLEAN] /\ \A f \in Frags : done[f] # <<"retrieve", TRUE>>
    BY <1>2, <1>3, Zenon
  <1>6. (\A f \in Frags : fid[f] = None /\ stored[f] = 0 /\ op[f] = <<>>) /\ \A i \in Ids : file[i] = Absent
    BY <1>2, Zenon
  <1>7. CASE kind = "S3"
    <2>1. <<>> \in S3Rest /\ <<>> \in S3Ops
      BY Zenon DEF S3Ops, S3Rest
    <2>2. op \in [Frags -> S3Ops]
      BY <1>2, <2>1, Zenon
    <2>3. S3Type
      BY <1>2, <1>4, <1>5, <1>7, <2>2, Zenon DEF S3Type
    <2>4. ASSUME NEW f \in Frags
          PROVE  S3Data(f)
      <3>2. op[f] \notin NewObject \cup HasId \cup ReadObject \cup LastStep \cup Forget
        BY <1>6, <2>1, S3Phases, Zenon
      <3> QED
        BY <1>5, <1>6, <3>2, Zenon DEF S3Data
    <2> QED
      BY <1>6, <2>3, <2>4, Zenon DEF S3Inv, OwnIds
  <1>8. CASE kind \in {"POSIX", "IME", "PMEM"}
    <2>1. <<>> \in Over /\ <<>> \in FileOps
      BY Zenon DEF FileOps, Over
    <2>2. op \in [Frags -> FileOps]
      BY <1>2, <2>1, Zenon
    <2>3. TypeInv
      BY <1>4, <1>5, <1>8, <2>2, Zenon DEF TypeInv
    <2>4. ASSUME NEW f \in Frags
          PROVE  IdInv(f) /\ DataInv(f)
      <3>2. op[f] \notin NoId \cup NoFile \cup OpenFile \cup Rewrite \cup BeforeRead \cup AfterRead
                         \cup BeforeUnlink \cup AfterUnlink \cup LastStep
        BY <1>6, <2>1, Phases, Zenon
      <3>3. ~Creating(f) /\ ~Deleting(f) /\ f \notin torn
        BY <1>2, <3>2, Zenon DEF Creating, Deleting
      <3> QED
        BY <1>5, <1>6, <3>2, <3>3, Zenon DEF IdInv, DataInv
    <2>5. SameIdInv /\ DiskInv
      BY <1>6, Zenon DEF SameIdInv, DiskInv
    <2> QED
      BY <2>3, <2>4, <2>5, Zenon DEF FileInv
  <1> QED
    BY <1>2, <1>7, <1>8

LEMMA BackendInvKept == BackendInv /\ [FileNext]_fileVars => BackendInv'
  <1>1. CASE UNCHANGED fileVars
    <2>1. /\ kind' = kind /\ fid' = fid /\ file' = file /\ dirs' = dirs /\ op' = op /\ done' = done
          /\ version' = version /\ stored' = stored /\ torn' = torn /\ got' = got /\ crashed' = crashed
      BY <1>1, Zenon DEF fileVars
    <2>2. ASSUME FileInv
          PROVE  FileInv'
      <3>1. TypeInv' /\ SameIdInv' /\ DiskInv'
        BY <2>1, <2>2, Zenon DEF FileInv, TypeInv, SameIdInv, DiskInv, Creating
      <3>2. \A f \in Frags : IdInv(f)'
        BY <2>1, <2>2, Zenon DEF FileInv, IdInv, Creating, Deleting, Alone
      <3>3. \A f \in Frags : DataInv(f)'
        BY <2>1, <2>2, Zenon DEF FileInv, DataInv
      <3> QED
        BY <3>1, <3>2, <3>3, Zenon DEF FileInv
    <2>3. ASSUME S3Inv
          PROVE  S3Inv'
      BY <2>1, <2>3, Zenon DEF S3Inv, S3Type, S3Data, OwnIds
    <2> QED
      BY <2>1, <2>2, <2>3, Zenon DEF BackendInv
  <1>2. CASE FileNext /\ FileInv
    BY <1>2, StartUpdateKeeps, StartRetrieveKeeps, StartDeleteKeeps, ChangeDataKeeps, FileStepKeeps,
       CrashKeeps, Zenon DEF FileNext, BackendInv
  <1>3. CASE FileNext /\ S3Inv
    BY <1>3, S3Starts, S3ChangeData, S3FileStep, S3Crash, Zenon DEF FileNext, BackendInv
  <1>4. CASE FileNext /\ kind = "DUMMY"
    <2>1. kind' = kind
      BY <1>4, ZenonT(60) DEF FileNext, StartUpdate, StartRetrieve, StartDelete, ChangeData, Crash,
         FileStep, Pack, MakeId, MakeUnusedId, Mkdir, Create, Truncate, Chunk, Write, Put, CreateBucket,
         PutAgain, Read, ReadAndCopy, Unpack, Unlink, Rmdir, DestroyFragment, Succeed, Fail
    <2> QED
      BY <1>4, <2>1, Zenon DEF BackendInv
  <1> QED
    BY <1>1, <1>2, <1>3, <1>4, Zenon DEF BackendInv

LEMMA BackendInvMeans == BackendInv => FilesKept /\ RetrieveCorrect
  <1>1. ASSUME kind = "DUMMY"
        PROVE  FilesKept /\ RetrieveCorrect
    BY <1>1 DEF FilesKept, RetrieveCorrect, Files
  <1>2. ASSUME FileInv
        PROVE  FilesKept /\ RetrieveCorrect
    <2>1. TypeInv /\ DiskInv /\ \A f \in Frags : DataInv(f)
      BY <1>2, Zenon DEF FileInv
    <2>2. \A i \in Ids : file[i] # Absent => file[i][1] \in Frags
      BY <2>1 DEF TypeInv, Contents
    <2>3. ~crashed => \A i \in Ids : file[i] # Absent => fid[file[i][1]] = i
      BY <2>1, <2>2, Zenon DEF DiskInv
    <2> QED
      BY <2>1, <2>3, Zenon DEF DataInv, FilesKept, RetrieveCorrect
  <1>3. ASSUME S3Inv
        PROVE  FilesKept /\ RetrieveCorrect
    <2>1. kind = "S3" /\ \A f \in Frags : S3Data(f)
      BY <1>3, Zenon DEF S3Inv, S3Type
    <2>2. ~Files
      BY <2>1 DEF Files
    <2> QED
      BY <2>1, <2>2, Zenon DEF S3Data, FilesKept, RetrieveCorrect
  <1> QED
    BY <1>1, <1>2, <1>3, Zenon DEF BackendInv

(* What was stored stays, whatever the threads of other fragments do and   *)
(* wherever the process ends, and no file is left behind: POSIX, IME, PMEM *)
(* and S3, for any fragments, ids and directories.                         *)
THEOREM FilesStayKept == FileSpec => []FilesKept
<1>1. FileInit => BackendInv
  BY InitialState
<1>2. BackendInv /\ [FileNext]_fileVars => BackendInv'
  BY BackendInvKept
<1>3. BackendInv => FilesKept
  BY BackendInvMeans
<1> QED
  BY <1>1, <1>2, <1>3, PTL DEF FileSpec

(* A retrieve that succeeds brings the version stored last, also where a   *)
(* crash left a truncated file.                                            *)
THEOREM RetrievesCorrect == FileSpec => []RetrieveCorrect
<1>1. FileInit => BackendInv
  BY InitialState
<1>2. BackendInv /\ [FileNext]_fileVars => BackendInv'
  BY BackendInvKept
<1>3. BackendInv => RetrieveCorrect
  BY BackendInvMeans
<1> QED
  BY <1>1, <1>2, <1>3, PTL DEF FileSpec
=============================================================================
