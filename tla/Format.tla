------------------------------- MODULE Format -------------------------------
(***************************************************************************)
(* esdm_mkfs(): formatting the storage of the metadata backend and of the  *)
(* data backends, one after the other.  A directory is ESDM's if it has a  *)
(* file README-ESDM.TXT; only then it is removed, entry by entry in the    *)
(* order readdir() yields them.  A run may fail at any system call, or die *)
(* between two of them, and be repeated with other flags.  S3 uses buckets *)
(* for directories: the bucket with the name of the prefix is the mark.    *)
(***************************************************************************)
EXTENDS Naturals, Sequences

CONSTANTS Targets,     \* the backends' targets in the order of their formatting
          KindsOf,     \* the types of backend a target may have
          MaxRuns      \* bound: runs of mkfs

Mark == "README-ESDM.TXT"
Flags == {"DELETE", "CREATE", "IGNORE"}
AbsentDir == {"no directory"}   \* a set, for TLC to compare

(* The backends of a configuration have targets of their own.              *)
DistinctTargets ==
  /\ Len(Targets) \in Nat \ {0} /\ DOMAIN Targets = 1 .. Len(Targets)
  /\ \A i, j \in DOMAIN Targets : Targets[i] = Targets[j] => i = j

VARIABLES kind,        \* the type of the backend of a target
          dir,         \* what is in the directory of a target
          flags,       \* of the run; {} if none is active
          target,      \* index of the target being formatted
          step,        \* the next system call
          failed,      \* ret_final is an error
          seen,        \* history: targets found to be ESDM's in this run
          runs

fvars == <<kind, dir, flags, target, step, failed, seen, runs>>

(* The mkfs functions of the backends with a directory are copies of each  *)
(* other but for the sub-directory of the metadata, and for the mark: the  *)
(* data backends insist on a new file (O_EXCL).                            *)
MdMkfs == [entries |-> {"containers"}, exclusive |-> FALSE]
PosixMkfs == [entries |-> {}, exclusive |-> TRUE]
ImeMkfs == [entries |-> {}, exclusive |-> TRUE]
PmemMkfs == [entries |-> {}, exclusive |-> TRUE]

Mkfs(t) == CASE kind[t] = "md" -> MdMkfs
             [] kind[t] = "POSIX" -> PosixMkfs
             [] kind[t] = "IME" -> ImeMkfs
             [] kind[t] = "PMEM" -> PmemMkfs

T == Targets[target]
IgnoreErr == "IGNORE" \in flags
Exists(t) == dir[t] # AbsentDir
Put(e) == dir' = [dir EXCEPT ![T] = IF Exists(T) THEN @ \cup {e} ELSE @]

(* What a target holds before mkfs: nothing, ESDM's data, or somebody      *)
(* else's files.                                                           *)
Init ==
  /\ kind \in {k \in [{Targets[i] : i \in DOMAIN Targets} -> {"md", "POSIX", "IME", "PMEM", "S3"}] :
                \A t \in DOMAIN k : k[t] \in KindsOf[t]}
  /\ dir \in [DOMAIN kind ->
                {AbsentDir, {Mark, "data"}, {"foreign"}}]
  /\ flags = {} /\ target = 1 /\ step = "idle" /\ failed = FALSE /\ seen = {} /\ runs = 0

Begin ==
  /\ step = "idle" /\ runs < MaxRuns /\ runs' = runs + 1
  /\ flags' \in (SUBSET Flags) \ {{}}
  /\ target' = 1 /\ step' = "test" /\ failed' = FALSE /\ seen' = {}
  /\ UNCHANGED <<dir, kind>>

Goto(s) == step' = s /\ UNCHANGED <<flags, target, failed, seen, runs, kind>>

(* The backend's mkfs returns; the error of one backend does not stop the  *)
(* others.                                                                 *)
Return(ok) ==
  /\ failed' = (failed \/ ~ok)
  /\ IF target = Len(Targets) THEN step' = "idle" /\ UNCHANGED target
                              ELSE step' = "test" /\ target' = target + 1
  /\ UNCHANGED <<flags, seen, runs, kind>>

(* Past the removal: nothing to create, or an existing directory is in the *)
(* way.                                                                    *)
Created ==
  IF "CREATE" \notin flags THEN Return(TRUE)
  ELSE IF Exists(T) /\ ~IgnoreErr THEN Return(FALSE)
  ELSE Goto("mkdir")

TestForced ==
  /\ step = "test" /\ kind[T] # "S3"
  /\ IF "DELETE" \notin flags THEN Created
     ELSE IF Exists(T) /\ (IgnoreErr \/ Mark \in dir[T])
          THEN Goto("remove")
          ELSE IF IgnoreErr THEN Created ELSE Return(FALSE)
  /\ UNCHANGED dir

Test ==
  /\ step = "test" /\ kind[T] # "S3"
  /\ IF "DELETE" \notin flags THEN Created
     ELSE IF Mark \in dir[T]
          THEN /\ step' = "remove" /\ seen' = seen \cup {T}
               /\ UNCHANGED <<flags, target, failed, runs, kind>>
          ELSE IF IgnoreErr THEN Created ELSE Return(FALSE)
  /\ UNCHANGED dir

(* posix_recursive_remove(): an entry that cannot be removed ends it.      *)
Remove ==
  /\ step = "remove"
  /\ \/ /\ dir[T] # {}
        /\ \E e \in dir[T] : dir' = [dir EXCEPT ![T] = @ \ {e}]
        /\ UNCHANGED <<flags, target, step, failed, seen, runs, kind>>
     \/ dir[T] = {} /\ dir' = [dir EXCEPT ![T] = AbsentDir] /\ Goto("create")
     \/ Return(FALSE) /\ UNCHANGED dir

Create == step = "create" /\ Created /\ UNCHANGED dir

(* A call that fails ends the formatting, unless errors are ignored.       *)
Tolerate(s) == IF IgnoreErr THEN Goto(s) ELSE Return(FALSE)

Mkdir ==
  /\ step = "mkdir"
  /\ LET then == IF Mkfs(T).entries # {} THEN "containers" ELSE "readme" IN
     \/ ~Exists(T) /\ dir' = [dir EXCEPT ![T] = {}] /\ Goto(then)
     \/ Tolerate(then) /\ UNCHANGED dir

Containers ==
  /\ step = "containers"
  /\ \/ Exists(T) /\ "containers" \notin dir[T] /\ Put("containers") /\ Goto("readme")
     \/ Tolerate("readme") /\ UNCHANGED dir

Readme ==
  /\ step = "readme"
  /\ \/ Exists(T) /\ ~(Mkfs(T).exclusive /\ Mark \in dir[T]) /\ Put(Mark) /\ Return(TRUE)
     \/ Return(IgnoreErr) /\ UNCHANGED dir

-----------------------------------------------------------------------------
(* S3: the bucket of the prefix is tested, the buckets that begin with the *)
(* prefix are emptied and removed without looking at the results, then the *)
(* prefix' bucket itself.                                                  *)
TestBucket ==
  /\ step = "test" /\ kind[T] = "S3"
  /\ IF "DELETE" \notin flags THEN IF "CREATE" \in flags THEN Goto("bucket") ELSE Return(TRUE)
     ELSE \/ /\ Mark \in dir[T] \/ IgnoreErr
             /\ step' = "buckets" /\ seen' = seen \cup {T}
             /\ UNCHANGED <<flags, target, failed, runs, kind>>
          \/ ~IgnoreErr /\ Return(FALSE)
  /\ UNCHANGED dir

RemoveBuckets ==
  /\ step = "buckets"
  /\ \E gone \in SUBSET (dir[T] \cap {"data"}) : dir' = [dir EXCEPT ![T] = @ \ gone]
  /\ Goto("unmark") \/ (~IgnoreErr /\ Return(FALSE))

DeleteBucket ==
  /\ step = "unmark"
  /\ \/ /\ Mark \in dir[T] /\ dir' = [dir EXCEPT ![T] = @ \ {Mark}]
        /\ IF "CREATE" \in flags THEN Goto("bucket") ELSE Return(TRUE)
     \/ /\ IF ~IgnoreErr THEN Return(FALSE)
           ELSE IF "CREATE" \in flags THEN Goto("bucket") ELSE Return(TRUE)
        /\ UNCHANGED dir

CreateBucket ==
  /\ step = "bucket"
  /\ \/ dir' = [dir EXCEPT ![T] = (@ \ AbsentDir) \cup {Mark}] /\ Return(TRUE)
     \/ Return(FALSE) /\ UNCHANGED dir

-----------------------------------------------------------------------------
(* The tool dies; ESDM is used between two runs.                           *)
Crash == /\ step # "idle" /\ step' = "idle" /\ failed' = TRUE
         /\ UNCHANGED <<dir, flags, target, seen, runs, kind>>

Use == /\ step = "idle"
       /\ \E t \in DOMAIN dir : Mark \in dir[t] /\ dir' = [dir EXCEPT ![t] = @ \cup {"data"}]
       /\ flags' = {} /\ UNCHANGED <<target, step, failed, seen, runs, kind>>

Next == \/ Begin \/ Test \/ Remove \/ Create \/ Mkdir \/ Containers \/ Readme
        \/ TestBucket \/ RemoveBuckets \/ DeleteBucket \/ CreateBucket \/ Crash \/ Use

Spec == Init /\ [][Next]_fvars

-----------------------------------------------------------------------------
(* A run that reports success without ignoring errors has left every       *)
(* directory as asked: with --remove nothing of the earlier contents is    *)
(* there, with --create the mark is, whatever an earlier run that died or  *)
(* failed had left, and whichever backend an error occurred in.            *)
FormatFresh ==
  (step = "idle" /\ flags # {} /\ ~failed /\ ~IgnoreErr) =>
    \A t \in DOMAIN dir : kind[t] # "S3" =>
      dir[t] = IF "CREATE" \notin flags THEN AbsentDir
               ELSE Mkfs(t).entries \cup {Mark}

(* Nothing is removed from a directory in which this run has not found the *)
(* mark; and buckets of others are never removed.                          *)
KeepsForeign ==
  \A t \in DOMAIN dir :
    (kind[t] = "S3" \/ t \notin seen) /\ "foreign" \in dir[t] => "foreign" \in dir'[t]

(* Formatting is safe to repeat, and safe next to the files of others.     *)
FormatSafe == []FormatFresh /\ [][KeepsForeign]_fvars
=============================================================================
