--------------------------- MODULE Services_proofs ---------------------------
(***************************************************************************)
(* esdm_mkfs() keeps the files of others and reports success only for      *)
(* directories that are as asked, for any number of targets, any types of  *)
(* their backends and any number of runs.                                  *)
(*                                                                         *)
(* What the library allocates lives as long as it is used and no longer,   *)
(* for any configurations, any number of starts, of processes and of I/O   *)
(* jobs.                                                                   *)
(***************************************************************************)
EXTENDS Format, Startup, TLAPS

-----------------------------------------------------------------------------
(* Formatting                                                              *)

DirEntries == {"no directory", Mark, "containers", "data", "foreign"}
AllTargets == {Targets[i] : i \in DOMAIN Targets}
DirSteps == {"remove", "create", "mkdir", "containers", "readme"}
BucketSteps == {"buckets", "unmark", "bucket"}

(* The target is as the flags of the run ask for.                          *)
Asked(t) == IF "CREATE" \notin flags THEN AbsentDir ELSE Mkfs(t).entries \cup {Mark}
Formatted(t) == kind[t] # "S3" => dir[t] = Asked(t)

TypeInv ==
  /\ kind \in [AllTargets -> {"md", "POSIX", "IME", "PMEM", "S3"}]
  /\ dir \in [AllTargets -> SUBSET DirEntries]
  /\ flags \in SUBSET Flags
  /\ target \in DOMAIN Targets
  /\ step \in {"idle", "test"} \cup DirSteps \cup BucketSteps
  /\ failed \in BOOLEAN

(* A step of the removal or creation is that of a backend with a           *)
(* directory; a directory is only emptied after its mark was found.        *)
StepInv ==
  /\ step # "idle" => flags # {}
  /\ step \in DirSteps => kind[T] # "S3"
  /\ step \in BucketSteps => kind[T] = "S3"
  /\ step = "remove" => T \in seen

(* What the directory of the target being formatted holds at each call.    *)
CallInv ==
  ~IgnoreErr =>
    /\ step = "create" => ~Exists(T)
    /\ step = "mkdir" => ~Exists(T) /\ "CREATE" \in flags
    /\ step = "containers" => dir[T] = {} /\ "CREATE" \in flags /\ kind[T] = "md"
    /\ step = "readme" => dir[T] = Mkfs(T).entries /\ "CREATE" \in flags

(* The targets before this one are done, unless an error is recorded.      *)
ProgressInv ==
  ~failed /\ ~IgnoreErr =>
    /\ step # "idle" => \A i \in 1 .. target - 1 : Formatted(Targets[i])
    /\ step = "idle" /\ flags # {} => \A t \in AllTargets : Formatted(t)

FormatInv == TypeInv /\ StepInv /\ CallInv /\ ProgressInv

-----------------------------------------------------------------------------
LEMMA InitialState ==
  ASSUME DistinctTargets, Init
  PROVE  FormatInv
<1>1. kind \in [AllTargets -> {"md", "POSIX", "IME", "PMEM", "S3"}]
  BY Zenon DEF Init, AllTargets
<1>2. dir \in [AllTargets -> SUBSET DirEntries]
  <2>1. {AbsentDir, {Mark, "data"}, {"foreign"}} \subseteq SUBSET DirEntries
    BY Zenon DEF AbsentDir, DirEntries
  <2>2. DOMAIN kind = AllTargets /\ dir \in [DOMAIN kind -> {AbsentDir, {Mark, "data"}, {"foreign"}}]
    BY Zenon, <1>1 DEF Init
  <2> QED BY Zenon, <2>1, <2>2
<1>3. failed \in BOOLEAN /\ target \in DOMAIN Targets
  <2>1. failed \in BOOLEAN
    BY Zenon DEF Init
  <2> QED BY <2>1 DEF Init, DistinctTargets
<1>4. TypeInv
  BY Zenon, <1>1, <1>2, <1>3 DEF Init, TypeInv
<1>5. StepInv /\ CallInv /\ ProgressInv
  BY Zenon DEF Init, StepInv, CallInv, ProgressInv, DirSteps, BucketSteps
<1> QED BY Zenon, <1>4, <1>5 DEF FormatInv

\* A call of the current target's backend that returns moves on to the next
\* target; if it reports no error, its own target has to be as asked.
LEMMA ReturnStep ==
  ASSUME DistinctTargets, FormatInv, step # "idle",
         NEW ok \in BOOLEAN, Return(ok),
         dir' \in [AllTargets -> SUBSET DirEntries],
         \A t \in AllTargets : t # T => dir'[t] = dir[t],
         ok /\ ~IgnoreErr /\ kind[T] # "S3" => dir'[T] = Asked(T)
  PROVE  FormatInv'
<1> USE DEF FormatInv
<1>1. T \in AllTargets
  BY Zenon DEF T, AllTargets, TypeInv
<1>2. TypeInv'
  BY DEF TypeInv, Return, DistinctTargets
<1>3. step' \in {"idle", "test"} /\ flags' = flags /\ kind' = kind
  BY Zenon DEF Return
<1>4. StepInv'
  BY Zenon, <1>3 DEF StepInv, DirSteps, BucketSteps
<1>5. CallInv'
  BY Zenon, <1>3 DEF CallInv
<1>6. ASSUME ~failed', ~IgnoreErr', NEW i \in 1 .. target
      PROVE  Formatted(Targets[i])'
  <2>1. ~failed /\ ok /\ ~IgnoreErr
    BY Zenon, <1>6, <1>3 DEF Return, IgnoreErr, TypeInv
  <2>2. CASE i = target
    <3>1. Targets[i] = T
      BY Zenon, <2>2 DEF T
    <3> QED BY Zenon, <2>1, <3>1, <1>3 DEF Formatted, Asked, Mkfs
  <2>3. CASE i # target
    <3>1. i \in 1 .. target - 1 /\ i \in DOMAIN Targets
      BY <2>3 DEF TypeInv, DistinctTargets
    <3>2. Formatted(Targets[i])
      BY Zenon, <2>1, <3>1 DEF ProgressInv
    <3>3. Targets[i] # T /\ Targets[i] \in AllTargets
      BY Zenon, <3>1, <2>3 DEF DistinctTargets, TypeInv, T, AllTargets
    <3> QED BY Zenon, <3>2, <3>3, <1>3 DEF Formatted, Asked, Mkfs
  <2> QED BY Zenon, <2>2, <2>3
<1>7. ProgressInv'
  <2> SUFFICES ASSUME ~failed', ~IgnoreErr' PROVE
        /\ step' # "idle" => \A i \in 1 .. target' - 1 : Formatted(Targets[i])'
        /\ step' = "idle" => \A t \in AllTargets : Formatted(t)'
    BY Zenon DEF ProgressInv
  <2>1. CASE target = Len(Targets)
    BY <2>1, <1>6 DEF Return, AllTargets, DistinctTargets
  <2>2. CASE target # Len(Targets)
    <3>1. step' = "test" /\ target' - 1 = target
      BY <2>2 DEF Return, TypeInv, DistinctTargets
    <3> QED BY Zenon, <3>1, <1>6
  <2> QED BY Zenon, <2>1, <2>2
<1> QED BY Zenon, <1>2, <1>4, <1>5, <1>7

\* A call that is followed by another one for the same target.
LEMMA GotoStep ==
  ASSUME DistinctTargets, FormatInv, step # "idle",
         UNCHANGED <<flags, target, failed, kind>>, T \in seen => T \in seen',
         step' \in DirSteps \cup BucketSteps,
         dir' \in [AllTargets -> SUBSET DirEntries],
         \A t \in AllTargets : t # T => dir'[t] = dir[t],
         StepInv', CallInv'
  PROVE  FormatInv'
<1> USE DEF FormatInv
<1>1. TypeInv'
  BY Zenon DEF TypeInv
<1>2. ProgressInv'
  <2> SUFFICES ASSUME ~failed, ~IgnoreErr, NEW i \in 1 .. target - 1
               PROVE  Formatted(Targets[i])'
    BY Zenon DEF ProgressInv, IgnoreErr, DirSteps, BucketSteps
  <2>1. Formatted(Targets[i])
    BY Zenon DEF ProgressInv
  <2>2. Targets[i] # T /\ Targets[i] \in AllTargets
    BY DEF DistinctTargets, TypeInv, T, AllTargets
  <2> QED BY Zenon, <2>1, <2>2 DEF Formatted, Asked, Mkfs
<1> QED BY Zenon, <1>1, <1>2

\* Past the removal, see Created.
LEMMA CreatedStep ==
  ASSUME DistinctTargets, FormatInv, step \in {"test", "create"}, kind[T] # "S3",
         Created, UNCHANGED dir,
         ~IgnoreErr /\ "CREATE" \notin flags => ~Exists(T)
  PROVE  FormatInv'
<1> USE DEF FormatInv
<1>1. dir' \in [AllTargets -> SUBSET DirEntries]
  BY Zenon DEF TypeInv
<1>2. CASE "CREATE" \notin flags
  <2>1. Return(TRUE) /\ dir' = dir
    BY Zenon, <1>2 DEF Created
  <2>2. ~IgnoreErr => dir'[T] = Asked(T)
    BY Zenon, <1>2, <2>1 DEF Exists, Asked
  <2> QED BY Zenon, <1>1, <2>1, <2>2, ReturnStep
<1>3. CASE "CREATE" \in flags /\ Exists(T) /\ ~IgnoreErr
  <2>1. Return(FALSE) /\ dir' = dir
    BY Zenon, <1>3 DEF Created
  <2> QED BY Zenon, <1>1, <2>1, ReturnStep
<1>4. CASE "CREATE" \in flags /\ ~(Exists(T) /\ ~IgnoreErr)
  <2>1. Goto("mkdir") /\ dir' = dir
    BY Zenon, <1>4 DEF Created
  <2>2. StepInv' /\ CallInv'
    BY Zenon, <1>4, <2>1 DEF Goto, StepInv, CallInv, DirSteps, BucketSteps, IgnoreErr, Exists, T
  <2> QED BY Zenon, <1>1, <2>1, <2>2, GotoStep DEF Goto, DirSteps
<1> QED BY Zenon, <1>2, <1>3, <1>4

\* The calls of the backends with a directory.
LEMMA DirectoryStep ==
  ASSUME DistinctTargets, FormatInv,
         Test \/ Remove \/ Create \/ Mkdir \/ Containers \/ Readme
  PROVE  FormatInv'
<1> USE DEF FormatInv
<1>1. T \in AllTargets /\ dir[T] \in SUBSET DirEntries
  BY Zenon DEF TypeInv, T, AllTargets
<1>2. ASSUME NEW s \in SUBSET DirEntries, dir' = [dir EXCEPT ![T] = s]
      PROVE  /\ dir' \in [AllTargets -> SUBSET DirEntries] /\ dir'[T] = s
             /\ \A t \in AllTargets : t # T => dir'[t] = dir[t]
  BY Zenon, <1>1, <1>2 DEF TypeInv
<1>3. CASE Test
  <2>1. CASE "DELETE" \notin flags
    <3>1. "CREATE" \notin flags => IgnoreErr
      BY Zenon, <1>3, <2>1 DEF Test, StepInv, TypeInv, Flags, IgnoreErr
    <3> QED BY Zenon, <1>3, <2>1, <3>1, CreatedStep DEF Test
  <2>2. CASE "DELETE" \in flags /\ Mark \in dir[T]
    <3>1. /\ step = "test" /\ step' = "remove" /\ seen' = seen \cup {T}
          /\ kind[T] # "S3" /\ UNCHANGED <<flags, target, failed, kind, dir>>
      BY Zenon, <1>3, <2>2 DEF Test
    <3>2. StepInv' /\ CallInv'
      BY Zenon, <3>1 DEF StepInv, CallInv, DirSteps, BucketSteps, T
    <3> QED BY Zenon, <3>1, <3>2, GotoStep DEF DirSteps, TypeInv
  <2>3. CASE "DELETE" \in flags /\ Mark \notin dir[T] /\ IgnoreErr
    BY Zenon, <1>3, <2>3, CreatedStep DEF Test
  <2>4. CASE "DELETE" \in flags /\ Mark \notin dir[T] /\ ~IgnoreErr
    <3>1. step = "test" /\ Return(FALSE) /\ dir' = dir
      BY Zenon, <1>3, <2>4 DEF Test
    <3> QED BY Zenon, <3>1, ReturnStep DEF TypeInv
  <2> QED BY Zenon, <2>1, <2>2, <2>3, <2>4
<1>4. CASE Remove
  <2>1. ASSUME NEW e \in dir[T], dir' = [dir EXCEPT ![T] = @ \ {e}],
               UNCHANGED <<flags, target, step, failed, seen, runs, kind>>
        PROVE  FormatInv'
    <3>1. step = "remove"
      BY Zenon, <1>4 DEF Remove
    <3>2. StepInv' /\ CallInv'
      BY Zenon, <2>1, <3>1 DEF StepInv, CallInv, T
    <3> QED BY Zenon, <1>1, <1>2, <2>1, <3>1, <3>2, GotoStep DEF DirSteps
  <2>2. CASE dir' = [dir EXCEPT ![T] = AbsentDir] /\ Goto("create")
    <3>1. step = "remove" /\ dir'[T] = AbsentDir
      BY Zenon, <1>1, <1>4, <2>2 DEF Remove, TypeInv
    <3>2. StepInv' /\ CallInv'
      BY Zenon, <2>2, <3>1 DEF StepInv, CallInv, T, Goto, Exists, DirSteps, BucketSteps
    <3>3. AbsentDir \in SUBSET DirEntries
      BY Zenon DEF AbsentDir, DirEntries
    <3> QED BY Zenon, <1>1, <1>2, <2>2, <3>1, <3>2, <3>3, GotoStep DEF DirSteps, Goto
  <2>3. CASE Return(FALSE) /\ dir' = dir
    <3>1. step = "remove"
      BY Zenon, <1>4 DEF Remove
    <3> QED BY Zenon, <2>3, <3>1, ReturnStep DEF TypeInv
  <2> QED BY Zenon, <1>4, <2>1, <2>2, <2>3 DEF Remove
<1>5. CASE Create
  BY Zenon, <1>5, CreatedStep DEF Create, StepInv, CallInv, DirSteps
<1>6. ASSUME NEW s \in {"containers", "readme"}, Tolerate(s), UNCHANGED dir, step \in DirSteps
      PROVE  FormatInv'
  <2>1. CASE IgnoreErr
    <3>1. Goto(s)
      BY Zenon, <1>6, <2>1 DEF Tolerate
    <3>2. StepInv' /\ CallInv'
      BY Zenon, <1>6, <2>1, <3>1 DEF StepInv, CallInv, T, Goto, IgnoreErr, DirSteps, BucketSteps
    <3> QED BY Zenon, <1>6, <3>1, <3>2, GotoStep DEF DirSteps, Goto, TypeInv
  <2>2. CASE ~IgnoreErr
    BY Zenon, <1>6, <2>2, ReturnStep DEF Tolerate, TypeInv, DirSteps
  <2> QED BY Zenon, <2>1, <2>2
<1>7. CASE Mkdir
  <2> DEFINE then == IF Mkfs(T).entries # {} THEN "containers" ELSE "readme"
  <2>1. step = "mkdir" /\ kind[T] # "S3"
    BY Zenon, <1>7 DEF Mkdir, StepInv, DirSteps
  <2>2. CASE dir' = [dir EXCEPT ![T] = {}] /\ Goto(then)
    <3>1. dir'[T] = {}
      BY Zenon, <1>1, <2>2 DEF TypeInv
    <3>2. kind[T] \in {"md", "POSIX", "IME", "PMEM"}
      BY Zenon, <1>1, <2>1 DEF TypeInv
    <3>3. StepInv'
      BY Zenon, <2>1, <2>2 DEF StepInv, T, Goto, DirSteps, BucketSteps
    <3>4. CallInv'
      <4>1. CASE kind[T] = "md"
        BY Zenon, <2>1, <2>2, <3>1, <4>1 DEF CallInv, T, Goto, IgnoreErr, Mkfs, MdMkfs
      <4>2. CASE kind[T] # "md"
        <5>1. Mkfs(T).entries = {}
          BY Zenon, <3>2, <4>2 DEF Mkfs, PosixMkfs, ImeMkfs, PmemMkfs
        <5>2. (Mkfs(T).entries)' = {}
          BY Zenon, <5>1, <2>2 DEF Mkfs, T, Goto
        <5> QED BY Zenon, <2>1, <2>2, <3>1, <5>1, <5>2 DEF CallInv, T, Goto, IgnoreErr
      <4> QED BY Zenon, <4>1, <4>2
    <3>5. step' \in DirSteps \cup BucketSteps /\ {} \in SUBSET DirEntries
      BY Zenon, <2>2 DEF Goto, DirSteps
    <3> QED BY Zenon, <1>1, <1>2, <2>1, <2>2, <3>3, <3>4, <3>5, GotoStep DEF Goto
  <2>3. CASE Tolerate(then) /\ UNCHANGED dir
    BY Zenon, <1>6, <2>1, <2>3 DEF DirSteps
  <2> QED BY Zenon, <1>7, <2>2, <2>3 DEF Mkdir
<1>8. CASE Containers
  <2>1. step = "containers" /\ kind[T] # "S3"
    BY Zenon, <1>8 DEF Containers, StepInv, DirSteps
  <2>2. CASE Exists(T) /\ Put("containers") /\ Goto("readme")
    <3>1. dir' = [dir EXCEPT ![T] = dir[T] \cup {"containers"}]
      BY Zenon, <1>1, <2>2 DEF Put, TypeInv
    <3>2. dir[T] \cup {"containers"} \in SUBSET DirEntries
      BY Zenon, <1>1 DEF DirEntries
    <3>3. StepInv'
      BY Zenon, <2>1, <2>2 DEF StepInv, T, Goto, DirSteps, BucketSteps
    <3>4. CallInv'
      <4> SUFFICES ASSUME ~IgnoreErr PROVE dir'[T] = Mkfs(T).entries /\ "CREATE" \in flags
        BY Zenon, <2>2 DEF CallInv, T, Goto, IgnoreErr, Mkfs
      <4>1. dir[T] = {} /\ "CREATE" \in flags /\ kind[T] = "md"
        BY Zenon, <2>1 DEF CallInv
      <4>2. Mkfs(T).entries = {"containers"}
        BY Zenon, <4>1 DEF Mkfs, MdMkfs
      <4> QED BY Zenon, <1>1, <3>1, <4>1, <4>2 DEF TypeInv
    <3> QED BY Zenon, <1>1, <1>2, <2>1, <2>2, <3>1, <3>2, <3>3, <3>4, GotoStep DEF DirSteps, Goto
  <2>3. CASE Tolerate("readme") /\ UNCHANGED dir
    BY Zenon, <1>6, <2>1, <2>3 DEF DirSteps
  <2> QED BY Zenon, <1>8, <2>2, <2>3 DEF Containers
<1>9. CASE Readme
  <2>1. step = "readme"
    BY Zenon, <1>9 DEF Readme
  <2>2. CASE Exists(T) /\ Put(Mark) /\ Return(TRUE)
    <3>1. dir' = [dir EXCEPT ![T] = dir[T] \cup {Mark}]
      BY Zenon, <1>1, <2>2 DEF Put, TypeInv
    <3>2. dir[T] \cup {Mark} \in SUBSET DirEntries
      BY Zenon, <1>1 DEF DirEntries
    <3>3. ~IgnoreErr => dir'[T] = Asked(T)
      BY Zenon, <1>1, <2>1, <3>1 DEF CallInv, Asked, TypeInv
    <3> QED BY Zenon, <1>1, <1>2, <2>1, <2>2, <3>1, <3>2, <3>3, ReturnStep
  <2>3. CASE Return(IgnoreErr) /\ UNCHANGED dir
    <3>1. IgnoreErr \in BOOLEAN
      BY DEF IgnoreErr
    <3> QED BY Zenon, <2>1, <2>3, <3>1, ReturnStep DEF TypeInv
  <2> QED BY Zenon, <1>9, <2>2, <2>3 DEF Readme
<1> QED BY Zenon, <1>3, <1>4, <1>5, <1>7, <1>8, <1>9

\* The calls of the S3 backend.
LEMMA BucketStep ==
  ASSUME DistinctTargets, FormatInv,
         TestBucket \/ RemoveBuckets \/ DeleteBucket \/ CreateBucket
  PROVE  FormatInv'
<1> USE DEF FormatInv
<1>1. T \in AllTargets /\ dir[T] \in SUBSET DirEntries
  BY Zenon DEF TypeInv, T, AllTargets
<1>2. step # "idle" /\ kind[T] = "S3"
  BY Zenon DEF TestBucket, RemoveBuckets, DeleteBucket, CreateBucket, StepInv, BucketSteps
<1>3. /\ dir' \in [AllTargets -> SUBSET DirEntries]
      /\ \A t \in AllTargets : t # T => dir'[t] = dir[t]
  <2>1. CASE \E s \in SUBSET DirEntries : dir' = [dir EXCEPT ![T] = s]
    BY Zenon, <1>1, <2>1 DEF TypeInv
  <2>2. CASE dir' = dir
    BY Zenon, <2>2 DEF TypeInv
  <2>3. CASE RemoveBuckets
    <3>1. PICK gone \in SUBSET (dir[T] \cap {"data"}) : dir' = [dir EXCEPT ![T] = @ \ gone]
      BY Zenon, <2>3 DEF RemoveBuckets
    <3> QED BY Zenon, <1>1, <2>1, <3>1
  <2>4. CASE DeleteBucket
    <3>1. CASE dir' = [dir EXCEPT ![T] = @ \ {Mark}]
      BY Zenon, <1>1, <2>1, <3>1
    <3> QED BY Zenon, <2>2, <2>4, <3>1 DEF DeleteBucket
  <2>5. CASE CreateBucket
    <3>1. CASE dir' = [dir EXCEPT ![T] = (@ \ AbsentDir) \cup {Mark}]
      <4>1. (dir[T] \ AbsentDir) \cup {Mark} \in SUBSET DirEntries
        BY Zenon, <1>1 DEF DirEntries
      <4> QED BY Zenon, <2>1, <3>1, <4>1
    <3> QED BY Zenon, <2>2, <2>5, <3>1 DEF CreateBucket
  <2> QED BY Zenon, <2>2, <2>3, <2>4, <2>5 DEF TestBucket
<1>4. ASSUME NEW ok \in BOOLEAN, Return(ok)
      PROVE  FormatInv'
  BY Zenon, <1>2, <1>3, <1>4, ReturnStep
<1>5. ASSUME NEW s \in BucketSteps, step' = s, UNCHANGED <<flags, target, failed, kind>>,
             T \in seen => T \in seen'
      PROVE  FormatInv'
  <2>1. StepInv' /\ CallInv'
    BY Zenon, <1>2, <1>5 DEF StepInv, CallInv, DirSteps, BucketSteps, T
  <2> QED BY Zenon, <1>2, <1>3, <1>5, <2>1, GotoStep
<1>6. ASSUME NEW s \in BucketSteps, Goto(s)
      PROVE  FormatInv'
  BY Zenon, <1>5, <1>6 DEF Goto
<1>7. "buckets" \in BucketSteps /\ "unmark" \in BucketSteps /\ "bucket" \in BucketSteps
  BY Zenon DEF BucketSteps
<1>8. CASE TestBucket
  <2>1. CASE \/ Return(TRUE) \/ Return(FALSE) \/ Goto("bucket")
    BY Zenon, <1>4, <1>6, <1>7, <2>1
  <2>2. CASE step' = "buckets" /\ seen' = seen \cup {T} /\ UNCHANGED <<flags, target, failed, kind>>
    BY Zenon, <1>5, <1>7, <2>2
  <2> QED BY Zenon, <1>8, <2>1, <2>2 DEF TestBucket
<1>9. CASE RemoveBuckets
  BY Zenon, <1>4, <1>6, <1>7, <1>9 DEF RemoveBuckets
<1>10. CASE DeleteBucket
  BY Zenon, <1>4, <1>6, <1>7, <1>10 DEF DeleteBucket
<1>11. CASE CreateBucket
  BY Zenon, <1>4, <1>11 DEF CreateBucket
<1> QED BY Zenon, <1>8, <1>9, <1>10, <1>11

LEMMA FormatInvPreserved ==
  ASSUME DistinctTargets, FormatInv, [Next]_fvars
  PROVE  FormatInv'
<1> USE DEF FormatInv
<1>1. CASE Begin
  <2>1. flags' \in SUBSET Flags /\ flags' # {} /\ step' = "test" /\ target' = 1
    BY Zenon, <1>1 DEF Begin
  <2>2. failed' \in BOOLEAN
    BY <1>1, Zenon DEF Begin
  <2>3. TypeInv'
    BY <1>1, <2>1, <2>2 DEF Begin, TypeInv, DistinctTargets
  <2>4. StepInv' /\ CallInv' /\ ProgressInv'
    BY <2>1 DEF StepInv, CallInv, ProgressInv, DirSteps, BucketSteps
  <2> QED BY Zenon, <2>3, <2>4
<1>2. CASE Crash
  <2>1. failed' /\ failed' \in BOOLEAN
    BY <1>2, Zenon DEF Crash
  <2>2. TypeInv'
    BY Zenon, <1>2, <2>1 DEF Crash, TypeInv
  <2>3. StepInv' /\ CallInv' /\ ProgressInv'
    BY Zenon, <1>2, <2>1 DEF Crash, StepInv, CallInv, ProgressInv, DirSteps, BucketSteps
  <2> QED BY Zenon, <2>2, <2>3
<1>3. CASE Use
  <2>1. PICK t \in DOMAIN dir : dir' = [dir EXCEPT ![t] = @ \cup {"data"}]
    BY Zenon, <1>3 DEF Use
  <2>2. dir[t] \cup {"data"} \in SUBSET DirEntries
    BY Zenon DEF TypeInv, DirEntries
  <2>3. TypeInv'
    BY Zenon, <1>3, <2>1, <2>2 DEF Use, TypeInv
  <2>4. StepInv' /\ CallInv' /\ ProgressInv'
    BY Zenon, <1>3 DEF Use, StepInv, CallInv, ProgressInv, DirSteps, BucketSteps
  <2> QED BY Zenon, <2>3, <2>4
<1>4. CASE UNCHANGED fvars
  BY ZenonT(60), <1>4 DEF fvars, TypeInv, StepInv, CallInv, ProgressInv, Formatted, Asked, Mkfs, T, IgnoreErr, Exists
<1> QED BY Zenon, <1>1, <1>2, <1>3, <1>4, DirectoryStep, BucketStep DEF Next

(* A run of esdm_mkfs() that reports success, without ignoring errors, has *)
(* left the directory of every backend as asked.                           *)
THEOREM SuccessMeansFormatted ==
  ASSUME DistinctTargets
  PROVE  Spec => []FormatFresh
<1>1. Init => FormatInv
  BY Zenon, InitialState
<1>2. FormatInv /\ [Next]_fvars => FormatInv'
  BY Zenon, FormatInvPreserved
<1>3. FormatInv => FormatFresh
  BY Zenon DEF FormatInv, ProgressInv, TypeInv, FormatFresh, Formatted, Asked
<1> QED BY <1>1, <1>2, <1>3, PTL DEF Spec

(* esdm_mkfs() removes nothing from a directory without ESDM's mark, and   *)
(* no bucket of others.                                                    *)
THEOREM ForeignFilesKept ==
  ASSUME DistinctTargets
  PROVE  Spec => [][KeepsForeign]_fvars
<1>1. Init => FormatInv
  BY Zenon, InitialState
<1>2. FormatInv /\ [Next]_fvars => FormatInv'
  BY Zenon, FormatInvPreserved
<1>3. FormatInv /\ [Next]_fvars => [KeepsForeign]_fvars
  <2> SUFFICES ASSUME FormatInv, Next,
                      NEW t \in DOMAIN dir, kind[t] = "S3" \/ t \notin seen, "foreign" \in dir[t]
               PROVE  "foreign" \in dir'[t]
    BY Zenon DEF KeepsForeign
  <2>1. dir \in [AllTargets -> SUBSET DirEntries] /\ t \in AllTargets /\ T \in AllTargets
    BY Zenon DEF FormatInv, TypeInv, T, AllTargets
  <2>2. CASE dir' = dir
    BY Zenon, <2>2
  <2>3. ASSUME NEW s, dir' = [dir EXCEPT ![T] = s], t = T => "foreign" \in s
        PROVE  "foreign" \in dir'[t]
    BY Zenon, <2>1, <2>3
  <2>4. CASE Remove
    <3>1. step = "remove" /\ T \in seen /\ kind[T] # "S3"
      BY Zenon, <2>4 DEF Remove, FormatInv, StepInv, DirSteps
    <3>2. \E s : dir' = [dir EXCEPT ![T] = s] \/ dir' = dir
      BY Zenon, <2>4 DEF Remove
    <3> QED BY Zenon, <2>2, <2>3, <3>1, <3>2
  <2>5. CASE Mkdir
    <3>1. CASE ~Exists(T) /\ dir' = [dir EXCEPT ![T] = {}]
      <4>1. dir[T] = AbsentDir
        BY Zenon, <3>1 DEF Exists
      <4>2. "foreign" \notin AbsentDir
        BY Zenon DEF AbsentDir
      <4> QED BY Zenon, <2>1, <3>1, <4>1, <4>2
    <3> QED BY Zenon, <2>2, <2>5, <3>1 DEF Mkdir
  <2>6. ASSUME NEW e, Put(e) PROVE "foreign" \in dir'[t]
    BY Zenon, <2>1, <2>6 DEF Put
  <2>7. CASE RemoveBuckets
    BY <2>1, <2>7 DEF RemoveBuckets
  <2>8. CASE DeleteBucket
    BY Zenon, <2>1, <2>8 DEF DeleteBucket, Mark
  <2>9. CASE CreateBucket
    BY Zenon, <2>1, <2>9 DEF CreateBucket, AbsentDir, Mark
  <2>10. CASE Use
    BY Zenon, <2>1, <2>10 DEF Use
  <2> QED BY Zenon, <2>2, <2>4, <2>5, <2>6, <2>7, <2>8, <2>9, <2>10
          DEF Next, Begin, Test, Create, Containers, Readme, TestBucket, Crash
<1> QED BY <1>1, <1>2, <1>3, PTL DEF Spec

(* Both, as the runs check them together.                                  *)
THEOREM FormattingIsSafe ==
  ASSUME DistinctTargets
  PROVE  Spec => FormatSafe
BY SuccessMeansFormatted, ForeignFilesKept, PTL DEF FormatSafe

-----------------------------------------------------------------------------
(* Starting and finalising the library                                     *)

Running == {"ready", "waiting", "scheduler"}
Finalising == {"performance", "layout", "backends", "config"}
Jobs == [queued : Nat, running : Nat, leaving : Nat]
ModuleParts == {"modules", "data_backends", "coordinator", "metadata"}
BackendParts == {"backend", "data", "config"}

LibraryType ==
  /\ caller \in Running \cup Finalising \cup {"dead"}
  /\ file \in Documents \cup {None}
  /\ procs \in [perNode : Nat \ {0}, total : Nat \ {0}]
  /\ config \in Configs \cup {None}
  /\ config # None => config.doc # Invalid
  /\ modules \in Seq(Backends) \cup {None}
  /\ jobs \in Seq(Jobs)
  /\ initialized \in BOOLEAN
  /\ configs \in Nat

(* What a backend of a type does not free.                                 *)
Frees(type) ==
  IF type = "KDSA" THEN {"data"} ELSE IF type \in {"PMEM", "WOS"} THEN {} ELSE BackendParts

(* The parts of the instance at each step of the caller; threads have jobs *)
(* only until the scheduler is finalised.                                  *)
PhaseInv ==
  /\ config # None => config.gen = configs
  /\ initialized => config # None
  /\ initialized /\ caller \in Running \cup {"performance", "layout"} => modules # None
  /\ caller = "waiting" => initialized
  /\ caller = "config" => modules = None
  /\ modules = None => jobs = <<>>
  /\ modules # None =>
       /\ initialized /\ Len(jobs) = Len(modules)
       /\ \A i \in DOMAIN modules :
            /\ modules[i].frees = Frees(modules[i].config.type)
            /\ Drained(i) \/ (modules[i].threads > 0 /\ caller \in Running)

(* What is allocated at least ...                                          *)
HasAll ==
  /\ config # None => ConfigObjects(configs) \subseteq heap
  /\ modules # None =>
       /\ \A w \in ModuleParts : Part(w, configs) \in heap
       /\ \A i \in DOMAIN modules, w \in BackendParts :
            Object(w, configs, i, modules[i].config.type) \in heap
  /\ initialized /\ caller \in Running =>
       /\ \A w \in {"scheduler", "layout", "performance"} : Part(w, configs) \in heap
       /\ \A i \in DOMAIN modules :
            modules[i].threads > 0 => Object("pool", configs, i, modules[i].config.type) \in heap

(* ... and at most: what a finalize function left, and what the instance   *)
(* has.                                                                    *)
Left(o) ==
  \/ o.type = "KDSA" /\ o.what \in {"backend", "config"}
  \/ o.type \in {"PMEM", "WOS"} /\ o.what \in BackendParts

Owned(o) ==
  \/ config # None /\ o \in ConfigObjects(configs)
  \/ modules # None /\ \E w \in ModuleParts : o = Part(w, configs)
  \/ /\ modules # None
     /\ \E i \in DOMAIN modules, w \in BackendParts :
          o = Object(w, configs, i, modules[i].config.type)
  \/ initialized /\ caller \in Running /\ o.what \in {"pool", "scheduler"}
  \/ initialized /\ caller \in Running \cup {"performance"} /\ o = Part("performance", configs)
  \/ initialized /\ caller \in Running \cup {"performance", "layout"} /\ o = Part("layout", configs)

HasOnly == \A o \in heap : Left(o) \/ Owned(o)

LibraryInv == LibraryType /\ (caller # "dead" => PhaseInv /\ HasAll /\ HasOnly)

-----------------------------------------------------------------------------
LEMMA LibraryStarts == StartupInit => LibraryInv
<1> SUFFICES ASSUME StartupInit PROVE LibraryInv
  BY Zenon
<1>1. /\ file \in Documents \cup {None} /\ procs = [perNode |-> 1, total |-> 1]
      /\ config = None /\ modules = None /\ initialized = FALSE
      /\ heap = {} /\ jobs = <<>> /\ caller = "ready" /\ configs = 0
  BY Zenon DEF StartupInit, DefaultProcs
<1>2. LibraryType
  <2>1. jobs \in Seq(Jobs)
    BY <1>1
  <2>2. procs \in [perNode : Nat \ {0}, total : Nat \ {0}]
    BY <1>1
  <2>3. caller \in Running
    BY Zenon, <1>1 DEF Running
  <2> QED
    BY Zenon, <1>1, <2>1, <2>2, <2>3 DEF LibraryType
<1>3. PhaseInv
  BY Zenon, <1>1 DEF PhaseInv, Running
<1>4. HasAll /\ HasOnly
  BY Zenon, <1>1 DEF HasAll, HasOnly
<1> QED
  BY Zenon, <1>2, <1>3, <1>4 DEF LibraryInv

(* A call that ends the process changes nothing else.                      *)
LEMMA DyingKeeps ==
  ASSUME LibraryInv, Dies
  PROVE  LibraryInv'
BY Zenon DEF LibraryInv, LibraryType, Dies

(* So does a step that changes neither the instance nor the heap, between  *)
(* two steps of the caller at which the same parts are there.              *)
LEMMA QuietKeeps ==
  ASSUME LibraryInv, caller # "dead",
         UNCHANGED <<config, modules, initialized, heap, configs, jobs>>,
         file' \in Documents \cup {None},
         procs' \in [perNode : Nat \ {0}, total : Nat \ {0}],
         caller \in Running, caller' \in Running,
         caller' = "waiting" => initialized
  PROVE  LibraryInv'
<1>1. LibraryType'
  BY Zenon DEF LibraryInv, LibraryType
<1>2. \A i \in DOMAIN modules : Drained(i)' = Drained(i)
  BY Zenon DEF Drained
<1>3. caller' # "config" /\ PhaseInv
  BY Zenon DEF LibraryInv, Running
<1>4. PhaseInv'
  BY Zenon, <1>2, <1>3 DEF PhaseInv
<1>5. HasAll'
  BY Zenon DEF LibraryInv, HasAll
<1>6. HasOnly'
  <2>1. \A o : Owned(o) => Owned(o)'
    BY Zenon DEF Owned
  <2>2. \A o : Left(o) => Left(o)'
    BY Zenon DEF Left
  <2> QED
    BY Zenon, <2>1, <2>2 DEF LibraryInv, HasOnly
<1> QED
  BY Zenon, <1>1, <1>4, <1>5, <1>6 DEF LibraryInv

LEMMA SetProcsKeeps ==
  ASSUME LibraryInv, NEW which \in {"perNode", "total"}, NEW n \in ProcCounts,
         SetProcs(which, n)
  PROVE  LibraryInv'
<1>1. CASE initialized
  BY Zenon, <1>1, DyingKeeps DEF SetProcs
<1>2. CASE ~initialized
  <2>1. /\ caller = "ready" /\ procs' = [procs EXCEPT ![which] = n]
        /\ UNCHANGED <<file, config, modules, initialized, heap, jobs, caller, configs>>
    BY Zenon, <1>2 DEF SetProcs, Calls
  <2>2. n \in Nat \ {0}
    BY Zenon, StartupAssumption
  <2>3. /\ file' \in Documents \cup {None}
        /\ procs' \in [perNode : Nat \ {0}, total : Nat \ {0}]
    BY Zenon, <2>1, <2>2 DEF LibraryInv, LibraryType
  <2> QED
    BY Zenon, <2>1, <2>3, QuietKeeps DEF Running
<1> QED
  BY Zenon, <1>1, <1>2

LEMMA EditKeeps ==
  ASSUME LibraryInv, NEW doc \in Documents, Edit(doc)
  PROVE  LibraryInv'
<1>1. /\ caller = "ready" /\ file' = doc
      /\ UNCHANGED <<procs, config, modules, initialized, heap, jobs, caller, configs>>
  BY Zenon DEF Edit, Calls
<1>2. procs' \in [perNode : Nat \ {0}, total : Nat \ {0}]
  BY Zenon, <1>1 DEF LibraryInv, LibraryType
<1> QED
  BY Zenon, <1>1, <1>2, QuietKeeps DEF Running

(* When the library is not initialised, only the configuration and what    *)
(* was left before are allocated.                                          *)
LEMMA Idle ==
  ASSUME LibraryInv, caller = "ready", ~initialized
  PROVE  /\ modules = None /\ jobs = <<>>
         /\ config = None => \A o \in heap : Left(o)
         /\ \A o \in heap : Left(o) \/ o \in ConfigObjects(configs)
BY Zenon DEF LibraryInv, PhaseInv, HasOnly, Owned

LEMMA LoadConfigStrKeeps ==
  ASSUME LibraryInv, NEW doc \in Documents, LoadConfigStr(doc)
  PROVE  LibraryInv'
<1>1. CASE initialized \/ config # None \/ ~ConfigValid(doc)
  BY Zenon, <1>1, DyingKeeps DEF LoadConfigStr
<1>2. CASE ~(initialized \/ config # None \/ ~ConfigValid(doc))
  <2>1. /\ caller = "ready" /\ ~initialized /\ config = None /\ doc # Invalid
        /\ config' = [doc |-> doc, gen |-> configs + 1]
        /\ configs' = configs + 1
        /\ heap' = heap \cup ConfigObjects(configs + 1)
        /\ UNCHANGED <<file, procs, modules, initialized, jobs, caller>>
    BY Zenon, <1>2 DEF LoadConfigStr, Calls, ConfigValid
  <2>2. modules = None /\ jobs = <<>> /\ \A o \in heap : Left(o)
    BY Zenon, <2>1, Idle
  <2>3. config' \in Configs /\ configs' \in Nat /\ configs' = config'.gen /\ config'.doc # Invalid
    BY <2>1 DEF LibraryInv, LibraryType, Configs
  <2>4. LibraryType'
    BY Zenon, <2>1, <2>3 DEF LibraryInv, LibraryType
  <2>5. config' # None
    BY Zenon, <2>3, StartupAssumption
  <2>6. PhaseInv'
    BY Zenon, <2>1, <2>2, <2>3, <2>5 DEF PhaseInv, Running
  <2>7. HasAll'
    BY Zenon, <2>1, <2>2 DEF HasAll
  <2>8. HasOnly'
    <3>1. \A o : Left(o)' = Left(o)
      BY Zenon DEF Left
    <3>2. \A o : o \in ConfigObjects(configs') => Owned(o)'
      BY Zenon, <2>5 DEF Owned
    <3> QED
      BY Zenon, <2>1, <2>2, <3>1, <3>2 DEF HasOnly
  <2> QED
    BY Zenon, <2>4, <2>6, <2>7, <2>8 DEF LibraryInv
<1> QED
  BY Zenon, <1>1, <1>2

-----------------------------------------------------------------------------
(* Backends                                                                *)

LEMMA QuotientNat == ASSUME NEW a \in Nat, NEW b \in Nat \ {0} PROVE a \div b \in Nat
<1>1. a \div b \in Int
  OBVIOUS
<1>2. a \div b >= 0
  OBVIOUS
<1> QED
  BY <1>1, <1>2

LEMMA ThreadsNat ==
  ASSUME procs \in [perNode : Nat \ {0}, total : Nat \ {0}], NEW c \in Settings
  PROVE  Threads(c) \in Nat
<1>1. /\ procs.perNode \in Nat \ {0} /\ procs.total \in Nat \ {0}
      /\ c.perNode \in Nat /\ c.inAll \in Nat
  BY Zenon DEF Settings
<1>2. c.perNode + procs.perNode - 1 \in Nat /\ c.inAll + procs.total - 1 \in Nat
  BY <1>1
<1>3. /\ (c.perNode + procs.perNode - 1) \div procs.perNode \in Nat
      /\ (c.inAll + procs.total - 1) \div procs.total \in Nat
  BY Zenon, <1>1, <1>2, QuotientNat
<1> QED
  BY Zenon, <1>3 DEF Threads

LEMMA SettingsRead ==
  ASSUME NEW e \in Entries, e.type # None, e.target # None
  PROVE  GetBackend(e) \in Settings
<1>1. /\ e.type \in STRING /\ e.target \in STRING /\ e.model \in Optional(Models)
      /\ e.keys \in BOOLEAN
  BY Zenon DEF Entries, Optional
<1>2. /\ Default(e.perNode, 0) \in Nat /\ Default(e.inAll, 0) \in Nat
      /\ Default(e.fragment, 10) \in Nat
  BY Zenon DEF Entries, Optional, Default
<1>3. Global(e) \in BOOLEAN
  BY DEF Global
<1> QED
  BY Zenon, <1>1, <1>2, <1>3 DEF GetBackend, Settings

Made(c, frees) == Backend(c, frees, GetThroughput(ModelThroughput(c.model)))

LEMMA MadeType ==
  ASSUME NEW c \in Settings, NEW frees \in SUBSET BackendParts
  PROVE  /\ Made(c, frees) \in Backends
         /\ Made(c, frees).config = c /\ Made(c, frees).frees = frees
<1>1. GetThroughput(ModelThroughput(c.model)) \in Int
  BY DEF GetThroughput, ModelThroughput, Settings, Optional, Models
<1> QED
  BY Zenon, <1>1 DEF Made, Backend, Backends, BackendParts

(* A backend that could be made leaves what those of its type leave.       *)
LEMMA BackendMade ==
  ASSUME NEW c \in Settings, NEW b \in InitBackend(c), b # None
  PROVE  b \in Backends /\ b.config = c /\ b.frees = Frees(c.type)
<1> SUFFICES b = Made(c, Frees(c.type))
  <2>1. Frees(c.type) \in SUBSET BackendParts
    BY Zenon DEF Frees, BackendParts
  <2> QED
    BY Zenon, <2>1, MadeType
<1>1. CASE c.type \in {"DUMMY", "DUMMYX"}
  BY Zenon, <1>1 DEF InitBackend, DummyInit, DummyFinalize, BackendParts, Result, Made, Frees
<1>2. CASE c.type = "POSIX"
  BY Zenon, <1>2 DEF InitBackend, PosixInit, PosixFinalize, BackendParts, Result, Made, Frees
<1>3. CASE c.type \in {"IME", "ime"}
  BY Zenon, <1>3 DEF InitBackend, ImeInit, ImeFinalize, BackendParts, Result, Made, Frees
<1>4. CASE c.type = "KDSA"
  BY Zenon, <1>4 DEF InitBackend, KdsaInit, KdsaFinalize, Result, Made, Frees
<1>5. CASE c.type = "WOS"
  BY Zenon, <1>5 DEF InitBackend, WosInit, WosFinalize, Result, Made, Frees
<1>6. CASE c.type = "PMEM"
  BY Zenon, <1>6 DEF InitBackend, PmemInit, PmemFinalize, Result, Made, Frees
<1>7. CASE c.type = "S3"
  BY Zenon, <1>7 DEF InitBackend, S3Init, S3Finalize, BackendParts, Result, Made, Frees
<1>8. CASE c.type = "MOTR"
  BY Zenon, <1>8 DEF InitBackend, MotrInit
<1>9. CASE c.type \notin {"DUMMY", "DUMMYX", "POSIX", "IME", "ime", "KDSA", "WOS", "PMEM", "S3", "MOTR"}
  BY Zenon, <1>9 DEF InitBackend
<1> QED
  BY Zenon, <1>1, <1>2, <1>3, <1>4, <1>5, <1>6, <1>7, <1>8, <1>9

-----------------------------------------------------------------------------
(* Initialisation                                                          *)

LEMMA StartKeeps ==
  ASSUME LibraryInv, caller = "ready", ~initialized,
         NEW c \in Configs, c.doc # Invalid, NEW loaded,
         \/ config = c /\ loaded = {}
         \/ config = None /\ c.gen = configs + 1 /\ loaded = ConfigObjects(configs + 1),
         Start(c, loaded)
  PROVE  LibraryInv'
<1>1. CASE ~Startable(c.doc)
  BY Zenon, <1>1, DyingKeeps DEF Start
<1>2. CASE Startable(c.doc)
  <2>1. PICK bs \in BackendSequences(c) :
          IF \E i \in DOMAIN bs : bs[i] = None THEN Dies
          ELSE /\ config' = c
               /\ modules' = [i \in DOMAIN bs |-> [bs[i] EXCEPT !.threads = Threads(bs[i].config)]]
               /\ heap' = heap \cup loaded \cup ModulesObjects(c, bs) \cup SchedulerInit(c.gen, bs)
                               \cup {LayoutInit(c.gen), PerformanceInit(c.gen)}
               /\ jobs' = [i \in DOMAIN bs |-> [queued |-> 0, running |-> 0, leaving |-> 0]]
               /\ initialized' = TRUE
               /\ configs' = c.gen
               /\ UNCHANGED <<file, procs, caller>>
    BY Zenon, <1>2 DEF Start
  <2>2. CASE \E i \in DOMAIN bs : bs[i] = None
    BY Zenon, <2>1, <2>2, DyingKeeps
  <2>3. CASE \A i \in DOMAIN bs : bs[i] # None
    <3> DEFINE es == c.doc.backends
               n == Len(es)
    <3>1. es \in Seq(Entries) /\ \A i \in DOMAIN es : es[i].type # None /\ es[i].target # None
      <4>1. c.doc \in Parsed
        BY Zenon, StartupAssumption DEF Configs
      <4>2. BackendsValid(c.doc)
        BY Zenon, <1>2 DEF Startable
      <4> QED
        BY Zenon, <4>1, <4>2 DEF Parsed, Optional, BackendsValid
    <3>2. n \in Nat /\ DOMAIN es = 1 .. n
      BY <3>1
    <3>3. DOMAIN bs = 1 .. n /\ \A i \in 1 .. n : bs[i] \in InitBackend(GetBackend(es[i]))
      <4>1. ModulesInit(c, bs)
        BY Zenon, <2>1 DEF BackendSequences
      <4> QED
        BY Zenon, <4>1, <3>2 DEF ModulesInit
    <3>4. \A i \in 1 .. n : bs[i] \in Backends /\ bs[i].frees = Frees(bs[i].config.type)
      <4> SUFFICES ASSUME NEW i \in 1 .. n
                   PROVE  bs[i] \in Backends /\ bs[i].frees = Frees(bs[i].config.type)
        BY Zenon
      <4>1. es[i] \in Entries /\ es[i].type # None /\ es[i].target # None
        BY <3>1, <3>2
      <4>2. GetBackend(es[i]) \in Settings
        BY Zenon, <4>1, SettingsRead
      <4>3. bs[i] \in InitBackend(GetBackend(es[i])) /\ bs[i] # None
        BY Zenon, <3>3, <2>3
      <4> QED
        BY Zenon, <4>2, <4>3, BackendMade
    <3>5. procs \in [perNode : Nat \ {0}, total : Nat \ {0}]
      BY Zenon DEF LibraryInv, LibraryType
    <3>6. \A i \in 1 .. n : Threads(bs[i].config) \in Nat
      <4>1. \A i \in 1 .. n : bs[i].config \in Settings
        BY Zenon, <3>4 DEF Backends
      <4> QED
        BY Zenon, <4>1, <3>5, ThreadsNat
    <3>7. /\ config' = c /\ initialized' = TRUE /\ configs' = c.gen
          /\ modules' = [i \in 1 .. n |-> [bs[i] EXCEPT !.threads = Threads(bs[i].config)]]
          /\ jobs' = [i \in 1 .. n |-> [queued |-> 0, running |-> 0, leaving |-> 0]]
          /\ heap' = heap \cup loaded \cup ModulesObjects(c, bs) \cup SchedulerInit(c.gen, bs)
                          \cup {LayoutInit(c.gen), PerformanceInit(c.gen)}
          /\ file' = file /\ procs' = procs /\ caller' = "ready"
      BY Zenon, <2>1, <2>3, <3>3
    <3>8. /\ modules' \in Seq(Backends) /\ Len(modules') = n /\ DOMAIN modules' = 1 .. n
          /\ \A i \in 1 .. n : /\ modules'[i].config = bs[i].config
                               /\ modules'[i].frees = Frees(modules'[i].config.type)
                               /\ modules'[i].threads = Threads(bs[i].config)
      <4>1. \A i \in 1 .. n : /\ modules'[i] \in Backends
                              /\ modules'[i].config = bs[i].config
                              /\ modules'[i].frees = bs[i].frees
                              /\ modules'[i].threads = Threads(bs[i].config)
        BY Zenon, <3>4, <3>6, <3>7 DEF Backends
      <4>2. modules' \in [1 .. n -> Backends]
        BY Zenon, <4>1, <3>7
      <4>3. modules' \in Seq(Backends) /\ Len(modules') = n /\ DOMAIN modules' = 1 .. n
        BY <4>2, <3>2
      <4> QED
        BY Zenon, <4>1, <4>3, <3>4
    <3>9. jobs' \in Seq(Jobs) /\ Len(jobs') = n
          /\ \A i \in 1 .. n : jobs'[i] = [queued |-> 0, running |-> 0, leaving |-> 0]
      <4>1. jobs' \in [1 .. n -> Jobs]
        BY Zenon, <3>7 DEF Jobs
      <4> QED
        BY <4>1, <3>2, <3>7
    <3>10. c # None /\ modules' # None /\ c.gen \in Nat
      BY Zenon, <3>8, StartupAssumption DEF Configs
    <3>11. LibraryType'
      BY Zenon, <3>7, <3>8, <3>9, <3>10 DEF LibraryInv, LibraryType, Running
    <3>12. PhaseInv'
      <4>1. ASSUME NEW i \in 1 .. n PROVE Drained(i)'
        <5>1. jobs'[i] = [queued |-> 0, running |-> 0, leaving |-> 0]
          BY Zenon, <3>9
        <5>2. jobs'[i].queued = 0 /\ jobs'[i].running = 0 /\ jobs'[i].leaving = 0
          BY ONLY <5>1
        <5> QED
          BY ONLY <5>2 DEF Drained
      <4>2. caller' = "ready" /\ config'.gen = configs' /\ config' # None
        BY Zenon, <3>7, <3>10
      <4> QED
        BY Zenon, <4>1, <4>2, <3>7, <3>8, <3>9, <3>10 DEF PhaseInv
    <3>13. ConfigObjects(configs') \subseteq heap'
      <4>1. CASE config = c
        <5>1. c.gen = configs /\ ConfigObjects(configs) \subseteq heap
          BY Zenon, <4>1, <3>10 DEF LibraryInv, PhaseInv, HasAll
        <5> QED
          BY Zenon, <5>1, <3>7
      <4>2. CASE config # c
        BY Zenon, <4>2, <3>7
      <4> QED
        BY Zenon, <4>1, <4>2
    <3>18. ModulesObjects(c, bs) =
             {Part(w, c.gen) : w \in ModuleParts}
               \cup UNION {{Object(w, c.gen, i, bs[i].config.type) : w \in BackendParts} : i \in 1 .. n}
      BY Zenon, <3>3 DEF ModulesObjects, ModuleParts, BackendParts
    <3>14. /\ \A w \in ModuleParts : Part(w, configs') \in heap'
           /\ \A i \in 1 .. n, w \in BackendParts :
                Object(w, configs', i, modules'[i].config.type) \in heap'
      <4>1. \A w \in ModuleParts : Part(w, c.gen) \in ModulesObjects(c, bs)
        BY Zenon, <3>18
      <4>2. \A i \in 1 .. n, w \in BackendParts :
              Object(w, c.gen, i, bs[i].config.type) \in ModulesObjects(c, bs)
        BY <3>18
      <4> QED
        BY <4>1, <4>2, <3>7, <3>8
    <3>15. /\ \A w \in {"scheduler", "layout", "performance"} : Part(w, configs') \in heap'
           /\ \A i \in 1 .. n : modules'[i].threads > 0 =>
                Object("pool", configs', i, modules'[i].config.type) \in heap'
      <4>1. \A i \in 1 .. n : Threads(bs[i].config) > 0 =>
              Object("pool", c.gen, i, bs[i].config.type) \in Pools(c.gen, bs)
        BY ONLY Zenon, <3>3 DEF Pools
      <4>2. heap' = heap \cup loaded \cup ModulesObjects(c, bs) \cup SchedulerInit(c.gen, bs)
                      \cup {LayoutInit(c.gen), PerformanceInit(c.gen)}
        BY ONLY Zenon, <3>7
      <4>3. /\ \A w \in {"scheduler", "layout", "performance"} : Part(w, c.gen) \in heap'
            /\ Pools(c.gen, bs) \subseteq heap'
        BY ONLY Zenon, <4>2 DEF SchedulerInit, LayoutInit, PerformanceInit
      <4>4. configs' = c.gen
        BY ONLY Zenon, <3>7
      <4> QED BY ONLY Zenon, <3>8, <4>1, <4>3, <4>4
    <3>16. HasAll'
      BY Zenon, <3>8, <3>13, <3>14, <3>15 DEF HasAll
    <3>17. HasOnly'
      <4> SUFFICES ASSUME NEW o \in heap' PROVE (Left(o) \/ Owned(o))'
        BY Zenon DEF HasOnly
      <4>1. CASE o \in heap \cup loaded
        <5>1. config = c => c.gen = configs
          BY Zenon, <3>10 DEF LibraryInv, PhaseInv
        <5>2. Left(o) \/ o \in ConfigObjects(configs')
          BY Zenon, <4>1, <5>1, <3>7, Idle
        <5> QED
          BY Zenon, <5>2, <3>7, <3>10 DEF Left, Owned
      <4>2. CASE o \in ModulesObjects(c, bs)
        <5>1. \/ \E w \in ModuleParts : o = Part(w, configs')
              \/ \E i \in 1 .. n, w \in BackendParts :
                   o = Object(w, configs', i, modules'[i].config.type)
          <6>1. CASE o \in {Part(w, c.gen) : w \in ModuleParts}
            BY Zenon, <6>1, <3>7
          <6>2. CASE \E i \in 1 .. n : o \in {Object(w, c.gen, i, bs[i].config.type) : w \in BackendParts}
            BY <6>2, <3>7, <3>8
          <6> QED
            BY Zenon, <4>2, <3>18, <6>1, <6>2
        <5> QED
          BY Zenon, <5>1, <3>8, <3>10 DEF Owned
      <4>3. CASE o \in SchedulerInit(c.gen, bs)
        <5>1. o.what \in {"pool", "scheduler"}
          <6>1. o = Part("scheduler", c.gen) \/ \E i \in 1 .. n : \E type : o = Object("pool", c.gen, i, type)
            BY Zenon, <4>3, <3>3 DEF SchedulerInit, Pools
          <6> QED
            BY <6>1 DEF Part, Object
        <5> QED
          BY Zenon, <5>1, <3>7 DEF Owned, Running
      <4>4. CASE o \in {LayoutInit(c.gen), PerformanceInit(c.gen)}
        BY Zenon, <4>4, <3>7 DEF Owned, Running, LayoutInit, PerformanceInit
      <4> QED
        BY Zenon, <4>1, <4>2, <4>3, <4>4, <3>7
    <3> QED
      BY Zenon, <3>11, <3>12, <3>16, <3>17 DEF LibraryInv
  <2> QED
    BY Zenon, <2>2, <2>3
<1> QED
  BY Zenon, <1>1, <1>2

LEMMA InitLoadedKeeps ==
  ASSUME LibraryInv, InitLoaded
  PROVE  LibraryInv'
<1>1. /\ caller = "ready" /\ ~initialized /\ config # None /\ Start(config, {})
  BY Zenon DEF InitLoaded, Calls
<1>2. config \in Configs /\ config.doc # Invalid
  BY Zenon, <1>1 DEF LibraryInv, LibraryType
<1> QED
  BY Zenon, <1>1, <1>2, StartKeeps

LEMMA InitFromFileKeeps ==
  ASSUME LibraryInv, InitFromFile
  PROVE  LibraryInv'
<1>1. CASE ~ConfigValid(file)
  BY Zenon, <1>1, DyingKeeps DEF InitFromFile
<1>2. CASE ConfigValid(file)
  <2> DEFINE c == [doc |-> file, gen |-> configs + 1]
  <2>1. /\ caller = "ready" /\ ~initialized /\ config = None /\ file # None
        /\ Start(c, ConfigObjects(configs + 1))
    BY Zenon, <1>2 DEF InitFromFile, Calls
  <2>2. c \in Configs /\ c.doc # Invalid /\ c.gen = configs + 1
    BY <1>2, <2>1 DEF LibraryInv, LibraryType, Configs, ConfigValid
  <2> HIDE DEF c
  <2> QED
    BY Zenon, <2>1, <2>2, StartKeeps
<1> QED
  BY Zenon, <1>1, <1>2

-----------------------------------------------------------------------------
(* Requests and jobs                                                       *)

(* The jobs of a backend change, in a number of its threads' keeping.      *)
LEMMA JobsKeep ==
  ASSUME LibraryInv, caller \in Running, modules # None,
         UNCHANGED <<file, procs, config, modules, initialized, heap, configs>>,
         caller' \in Running,
         jobs' \in Seq(Jobs), Len(jobs') = Len(jobs),
         \A i \in DOMAIN modules : Drained(i)' \/ modules[i].threads > 0
  PROVE  LibraryInv'
<1>1. PhaseInv /\ caller # "dead" /\ caller' \notin {"dead", "config"} /\ initialized
  BY Zenon DEF LibraryInv, Running, PhaseInv
<1>2. LibraryType'
  BY Zenon DEF LibraryInv, LibraryType
<1>3. PhaseInv'
  BY Zenon, <1>1 DEF PhaseInv
<1>4. HasAll'
  BY Zenon, <1>1 DEF LibraryInv, HasAll
<1>5. HasOnly'
  <2>1. \A o : Owned(o) => Owned(o)'
    BY Zenon DEF Owned
  <2>2. \A o : Left(o) => Left(o)'
    BY Zenon DEF Left
  <2> QED
    BY Zenon, <1>1, <2>1, <2>2 DEF LibraryInv, HasOnly
<1> QED
  BY Zenon, <1>2, <1>3, <1>4, <1>5 DEF LibraryInv

LEMMA SubmitKeeps ==
  ASSUME LibraryInv, caller = "ready", initialized, NEW amount \in [DOMAIN modules -> Nat],
         Submit(amount)
  PROVE  LibraryInv'
<1>1. /\ modules # None /\ modules \in Seq(Backends) /\ jobs \in Seq(Jobs)
      /\ Len(jobs) = Len(modules)
  BY Zenon DEF LibraryInv, LibraryType, PhaseInv, Running
<1>2. /\ jobs' = [i \in DOMAIN jobs |->
                    IF modules[i].threads = 0 THEN jobs[i]
                    ELSE [jobs[i] EXCEPT !.queued = @ + amount[i]]]
      /\ caller' = "waiting"
      /\ UNCHANGED <<file, procs, config, modules, initialized, heap, configs>>
  BY Zenon DEF Submit
<1>3. DOMAIN jobs = DOMAIN modules /\ DOMAIN jobs = 1 .. Len(jobs)
  BY <1>1
<1>4. \A i \in DOMAIN jobs : jobs'[i] \in Jobs
  <2> SUFFICES ASSUME NEW i \in DOMAIN jobs PROVE jobs'[i] \in Jobs
    BY Zenon
  <2>1. jobs[i] \in Jobs /\ amount[i] \in Nat
    BY <1>1, <1>3
  <2>2. [jobs[i] EXCEPT !.queued = @ + amount[i]] \in Jobs
    BY <2>1 DEF Jobs
  <2> QED
    BY Zenon, <2>1, <2>2, <1>2
<1>5. jobs' \in Seq(Jobs) /\ Len(jobs') = Len(jobs)
  <2>1. jobs' \in [1 .. Len(jobs) -> Jobs]
    BY Zenon, <1>2, <1>3, <1>4
  <2> QED
    BY <2>1, <1>1
<1>6. \A i \in DOMAIN modules : modules[i].threads \in Nat
  <2>1. \A i \in DOMAIN modules : modules[i] \in Backends
    BY <1>1
  <2> QED
    BY Zenon, <2>1 DEF Backends
<1>7. \A i \in DOMAIN modules : Drained(i)' \/ modules[i].threads > 0
  <2> SUFFICES ASSUME NEW i \in DOMAIN modules, modules[i].threads = 0 PROVE Drained(i)'
    BY <1>6
  <2>1. jobs'[i] = jobs[i]
    BY Zenon, <1>2, <1>3
  <2>2. Drained(i)
    BY <1>1 DEF LibraryInv, PhaseInv
  <2> QED
    BY Zenon, <2>1, <2>2 DEF Drained
<1> QED
  BY Zenon, <1>1, <1>2, <1>5, <1>7, JobsKeep DEF Running

LEMMA RequestKeeps ==
  ASSUME LibraryInv, NEW amount \in Amounts, Request(amount)
  PROVE  LibraryInv'
<1>1. CASE \E i \in DOMAIN amount : amount[i] > 0 /\ ~Callable(i)
  BY Zenon, <1>1, DyingKeeps DEF Request
<1>2. CASE ~\E i \in DOMAIN amount : amount[i] > 0 /\ ~Callable(i)
  <2>1. caller = "ready" /\ initialized /\ DOMAIN amount = DOMAIN modules /\ Submit(amount)
    BY Zenon, <1>2 DEF Request, Calls
  <2>2. PICK n \in 0 .. Max({0} \cup DOMAIN jobs) : amount \in [1 .. n -> 0 .. MaxJobs]
    BY Zenon DEF Amounts
  <2>3. amount \in [DOMAIN modules -> Nat]
    BY <2>1, <2>2, StartupAssumption
  <2> QED
    BY Zenon, <2>1, <2>3, SubmitKeeps
<1> QED
  BY Zenon, <1>1, <1>2

LEMMA WriteGridFragmentKeeps ==
  ASSUME LibraryInv, WriteGridFragment
  PROVE  LibraryInv'
<1>1. CASE modules = <<>> \/ \E i \in DOMAIN modules : ~Callable(i)
  BY Zenon, <1>1, DyingKeeps DEF WriteGridFragment
<1>2. CASE ~(modules = <<>> \/ \E i \in DOMAIN modules : ~Callable(i))
  <2> DEFINE amount == [i \in DOMAIN modules |-> IF i = FastestBackend THEN 1 ELSE 0]
  <2>1. caller = "ready" /\ initialized /\ Submit(amount)
    BY Zenon, <1>2 DEF WriteGridFragment, Calls
  <2>2. amount \in [DOMAIN modules -> Nat]
    BY Zenon
  <2> HIDE DEF amount
  <2> QED
    BY Zenon, <2>1, <2>2, SubmitKeeps
<1> QED
  BY Zenon, <1>1, <1>2

LEMMA GetModulesKeeps == ASSUME LibraryInv, GetModules PROVE LibraryInv'
BY Zenon, DyingKeeps DEF GetModules

LEMMA RequestReturnKeeps == ASSUME LibraryInv, RequestReturn PROVE LibraryInv'
<1>1. /\ caller = "waiting" /\ caller' = "ready"
      /\ UNCHANGED <<file, procs, config, modules, initialized, heap, jobs, configs>>
  BY Zenon DEF RequestReturn
<1>2. /\ file' \in Documents \cup {None}
      /\ procs' \in [perNode : Nat \ {0}, total : Nat \ {0}]
  BY Zenon, <1>1 DEF LibraryInv, LibraryType
<1> QED
  BY Zenon, <1>1, <1>2, QuietKeeps DEF Running

(* A thread only has something to do while its pool is there.              *)
LEMMA WorkKeeps ==
  ASSUME LibraryInv, NEW i \in DOMAIN jobs, caller # "dead",
         NEW job \in Jobs, ~Drained(i), jobs' = [jobs EXCEPT ![i] = job],
         UNCHANGED <<file, procs, config, modules, initialized, heap, caller, configs>>
  PROVE  LibraryInv'
<1>1. /\ jobs \in Seq(Jobs) /\ PhaseInv /\ modules \in Seq(Backends) \cup {None}
  BY Zenon DEF LibraryInv, LibraryType
<1>2. modules # None
  BY <1>1 DEF PhaseInv
<1>3. Len(jobs) = Len(modules) /\ DOMAIN jobs = DOMAIN modules
  BY <1>1, <1>2 DEF PhaseInv
<1>4. modules[i].threads > 0 /\ caller \in Running
  BY Zenon, <1>1, <1>2, <1>3 DEF PhaseInv
<1>5. jobs' \in Seq(Jobs) /\ Len(jobs') = Len(jobs)
  BY <1>1
<1>6. \A j \in DOMAIN modules : Drained(j)' \/ modules[j].threads > 0
  <2> SUFFICES ASSUME NEW j \in DOMAIN modules, j # i PROVE Drained(j)' \/ modules[j].threads > 0
    BY Zenon, <1>4
  <2>1. jobs'[j] = jobs[j]
    BY Zenon, <1>1, <1>3
  <2>2. Drained(j) \/ modules[j].threads > 0
    BY Zenon, <1>1, <1>2 DEF PhaseInv
  <2> QED
    BY Zenon, <2>1, <2>2 DEF Drained
<1> QED
  BY Zenon, <1>2, <1>4, <1>5, <1>6, JobsKeep

LEMMA MovedType ==
  ASSUME NEW job \in Jobs, NEW from \in {"queued", "running", "leaving"}, NEW to, job[from] > 0
  PROVE  Moved(job, from, to) \in Jobs
<1>1. DOMAIN job = {"queued", "running", "leaving"} /\ \A s \in DOMAIN job : job[s] \in Nat
  BY Zenon DEF Jobs
<1>2. \A s \in DOMAIN job : (IF s = from THEN job[s] - 1 ELSE IF s = to THEN job[s] + 1 ELSE job[s]) \in Nat
  BY <1>1
<1> QED
  BY Zenon, <1>1, <1>2 DEF Moved, Jobs

LEMMA ThreadKeeps ==
  ASSUME LibraryInv, NEW i \in DOMAIN jobs, TakeJob(i) \/ ReportJob(i) \/ LeaveJob(i)
  PROVE  LibraryInv'
<1>1. jobs[i] \in Jobs
  BY DEF LibraryInv, LibraryType
<1>2. PICK from \in {"queued", "running", "leaving"}, to \in {"running", "leaving", None} :
        Work(i, from, to)
  BY Zenon DEF TakeJob, ReportJob, LeaveJob
<1>3. /\ caller # "dead" /\ jobs[i][from] > 0
      /\ jobs' = [jobs EXCEPT ![i] = Moved(jobs[i], from, to)]
      /\ UNCHANGED <<file, procs, config, modules, initialized, heap, caller, configs>>
  BY Zenon, <1>2 DEF Work
<1>4. ~Drained(i)
  BY <1>1, <1>3 DEF Jobs, Drained
<1>5. Moved(jobs[i], from, to) \in Jobs
  BY Zenon, <1>1, <1>3, MovedType
<1> QED
  BY Zenon, <1>3, <1>4, <1>5, WorkKeeps

-----------------------------------------------------------------------------
(* Finalisation                                                            *)

LEMMA FinalizeKeeps == ASSUME LibraryInv, Finalize PROVE LibraryInv'
<1>1. /\ caller = "ready" /\ caller' = "scheduler"
      /\ UNCHANGED <<file, procs, config, modules, initialized, heap, jobs, configs>>
  BY Zenon DEF Finalize, Calls
<1>2. /\ file' \in Documents \cup {None}
      /\ procs' \in [perNode : Nat \ {0}, total : Nat \ {0}]
  BY Zenon, <1>1 DEF LibraryInv, LibraryType
<1> QED
  BY Zenon, <1>1, <1>2, QuietKeeps DEF Running

(* A part that backends, modules and configuration do not need is freed.   *)
Services == {"pool", "scheduler", "performance", "layout"}

LEMMA FreeKeeps ==
  ASSUME LibraryInv, caller \in {"scheduler", "performance", "layout"},
         UNCHANGED <<file, procs, config, modules, initialized, jobs, configs>>,
         caller' \in {"performance", "layout", "backends"},
         \A i \in DOMAIN modules : modules # None => Drained(i),
         NEW gone, \A o \in gone : o.what \in Services, heap' = heap \ gone,
         \A o \in heap \ gone : Owned(o) => Owned(o)'
  PROVE  LibraryInv'
<1>1. caller # "dead" /\ caller' \notin Running \cup {"dead", "config", "waiting"}
  BY Zenon DEF Running
<1>2. LibraryType'
  <2>1. caller' \in Finalising
    BY Zenon DEF Finalising
  <2> QED
    BY Zenon, <2>1 DEF LibraryInv, LibraryType
<1>3. PhaseInv'
  <2>1. initialized => modules # None
    BY Zenon DEF LibraryInv, PhaseInv, Running
  <2>2. \A i \in DOMAIN modules : Drained(i)' = Drained(i)
    BY Zenon DEF Drained
  <2> QED
    BY Zenon, <1>1, <2>1, <2>2 DEF LibraryInv, PhaseInv
<1>4. HasAll'
  <2>1. \A w, gen, at, type : w \notin Services => Object(w, gen, at, type) \notin gone
    BY Zenon DEF Object
  <2>2. /\ \A w, gen : w \notin Services => Part(w, gen) \notin gone
        /\ \A gen : ConfigObjects(gen) \cap gone = {}
    BY <2>1 DEF Part, ConfigObjects, Services
  <2>3. \A w \in ModuleParts \cup BackendParts : w \notin Services
    BY Zenon DEF ModuleParts, BackendParts, Services
  <2>4. config # None => ConfigObjects(configs) \subseteq heap \ gone
    BY Zenon, <1>1, <2>2 DEF LibraryInv, HasAll
  <2>5. modules # None => \A w \in ModuleParts : Part(w, configs) \in heap \ gone
    BY Zenon, <1>1, <2>2, <2>3 DEF LibraryInv, HasAll
  <2>6. modules # None => \A i \in DOMAIN modules, w \in BackendParts :
                            Object(w, configs, i, modules[i].config.type) \in heap \ gone
    BY Zenon, <1>1, <2>1, <2>3 DEF LibraryInv, HasAll
  <2> QED
    BY Zenon, <1>1, <2>4, <2>5, <2>6 DEF HasAll
<1>5. HasOnly'
  BY Zenon, <1>1 DEF LibraryInv, HasOnly, Left
<1> QED
  BY Zenon, <1>2, <1>3, <1>4, <1>5 DEF LibraryInv

LEMMA SchedulerFinalizeKeeps == ASSUME LibraryInv, SchedulerFinalize PROVE LibraryInv'
<1> DEFINE gone == {o \in heap : o.what \in {"pool", "scheduler"}}
<1>1. /\ caller = "scheduler" /\ caller' = "performance" /\ heap' = heap \ gone
      /\ \A i \in DOMAIN jobs : Drained(i)
      /\ UNCHANGED <<file, procs, config, modules, initialized, jobs, configs>>
  BY Zenon DEF SchedulerFinalize, Free
<1>2. \A i \in DOMAIN modules : modules # None => Drained(i)
  BY <1>1 DEF LibraryInv, LibraryType, PhaseInv
<1>3. \A o \in heap \ gone : Owned(o) => Owned(o)'
  BY Zenon, <1>1 DEF Owned, Running
<1>4. \A o \in gone : o.what \in Services
  BY Zenon DEF Services
<1> HIDE DEF gone
<1> QED
  BY Zenon, <1>1, <1>2, <1>3, <1>4, FreeKeeps

LEMMA PerformanceFinalizeKeeps == ASSUME LibraryInv, PerformanceFinalize PROVE LibraryInv'
<1> DEFINE gone == Of({"performance"}, 0)
<1>1. /\ caller = "performance" /\ caller' = "layout" /\ heap' = heap \ gone
      /\ UNCHANGED <<file, procs, config, modules, initialized, jobs, configs>>
  BY Zenon DEF PerformanceFinalize, Free
<1>2. \A i \in DOMAIN modules : modules # None => Drained(i)
  BY Zenon, <1>1 DEF LibraryInv, PhaseInv, Running
<1>3. \A o \in heap \ gone : Owned(o) => Owned(o)'
  <2>1. \A o \in heap \ gone : o # Part("performance", configs)
    BY DEF Of, Part, Object
  <2> QED
    BY Zenon, <1>1, <2>1 DEF Owned, Running
<1>4. \A o \in gone : o.what \in Services
  BY Zenon DEF Of, Services
<1> HIDE DEF gone
<1> QED
  BY Zenon, <1>1, <1>2, <1>3, <1>4, FreeKeeps

LEMMA LayoutFinalizeKeeps == ASSUME LibraryInv, LayoutFinalize PROVE LibraryInv'
<1> DEFINE gone == Of({"layout"}, 0)
<1>1. /\ caller = "layout" /\ caller' = "backends" /\ heap' = heap \ gone
      /\ UNCHANGED <<file, procs, config, modules, initialized, jobs, configs>>
  BY Zenon DEF LayoutFinalize, Free
<1>2. \A i \in DOMAIN modules : modules # None => Drained(i)
  BY Zenon, <1>1 DEF LibraryInv, PhaseInv, Running
<1>3. \A o \in heap \ gone : Owned(o) => Owned(o)'
  <2>1. \A o \in heap \ gone : o # Part("layout", configs)
    BY DEF Of, Part, Object
  <2> QED
    BY Zenon, <1>1, <2>1 DEF Owned, Running
<1>4. \A o \in gone : o.what \in Services
  BY Zenon DEF Of, Services
<1> HIDE DEF gone
<1> QED
  BY Zenon, <1>1, <1>2, <1>3, <1>4, FreeKeeps

(* The last backend frees its parts, or leaves them.                       *)
LEMMA BackendFinalizeKeeps == ASSUME LibraryInv, BackendFinalize PROVE LibraryInv'
<1> DEFINE n == Len(modules)
           gone == Of(modules[n].frees, n)
<1>1. /\ caller = "backends" /\ caller' = "backends" /\ heap' = heap \ gone
      /\ modules # None /\ modules # <<>>
      /\ modules' = SubSeq(modules, 1, n - 1) /\ jobs' = SubSeq(jobs, 1, n - 1)
      /\ UNCHANGED <<file, procs, config, initialized, configs>>
  BY Zenon DEF BackendFinalize, Free
<1>2. /\ modules \in Seq(Backends) /\ jobs \in Seq(Jobs) /\ Len(jobs) = n
      /\ n \in Nat \ {0} /\ DOMAIN modules = 1 .. n
  BY <1>1 DEF LibraryInv, LibraryType, PhaseInv
<1>3. /\ modules' \in Seq(Backends) /\ Len(modules') = n - 1 /\ DOMAIN modules' = 1 .. n - 1
      /\ \A i \in 1 .. n - 1 : modules'[i] = modules[i]
  BY <1>1, <1>2
<1>4. /\ jobs' \in Seq(Jobs) /\ Len(jobs') = n - 1
      /\ \A i \in 1 .. n - 1 : jobs'[i] = jobs[i]
  BY <1>1, <1>2
<1>5. modules' # None
  BY Zenon, <1>3, StartupAssumption
<1>6. LibraryType'
  BY Zenon, <1>1, <1>3, <1>4 DEF LibraryInv, LibraryType
<1>7. PhaseInv'
  <2>1. \A i \in 1 .. n - 1 : Drained(i)
    <3>1. \A i \in DOMAIN modules : Drained(i)
      BY Zenon, <1>1 DEF LibraryInv, PhaseInv, Running
    <3> QED
      BY <3>1, <1>2
  <2>2. \A i \in 1 .. n - 1 : Drained(i)'
    BY Zenon, <2>1, <1>4 DEF Drained
  <2>3. \A i \in 1 .. n - 1 : modules'[i].frees = Frees(modules'[i].config.type)
    BY <1>1, <1>2, <1>3 DEF LibraryInv, PhaseInv
  <2> QED
    BY Zenon, <1>1, <1>3, <1>4, <1>5, <2>2, <2>3 DEF LibraryInv, PhaseInv, Running
<1>8. HasAll'
  <2>1. \A w, gen, at, type : at # n => Object(w, gen, at, type) \notin gone
    BY Zenon DEF Of, Object
  <2>2. /\ \A w, gen : Part(w, gen) \notin gone
        /\ \A gen : ConfigObjects(gen) \cap gone = {}
    BY <1>2, <2>1 DEF Part, ConfigObjects
  <2>3. config # None => ConfigObjects(configs) \subseteq heap \ gone
    BY Zenon, <1>1, <2>2 DEF LibraryInv, HasAll
  <2>4. \A w \in ModuleParts : Part(w, configs) \in heap \ gone
    BY Zenon, <1>1, <2>2 DEF LibraryInv, HasAll
  <2>5. \A i \in 1 .. n - 1, w \in BackendParts :
          Object(w, configs, i, modules'[i].config.type) \in heap \ gone
    <3> SUFFICES ASSUME NEW i \in 1 .. n - 1, NEW w \in BackendParts
                 PROVE  Object(w, configs, i, modules'[i].config.type) \in heap \ gone
      BY Zenon
    <3>1. i \in DOMAIN modules /\ i # n
      BY <1>2
    <3>2. Object(w, configs, i, modules[i].config.type) \in heap
      BY Zenon, <1>1, <3>1 DEF LibraryInv, HasAll
    <3> QED
      BY Zenon, <1>3, <2>1, <3>1, <3>2
  <2> QED
    BY Zenon, <1>1, <1>3, <2>3, <2>4, <2>5 DEF HasAll, Running
<1>9. HasOnly'
  <2> SUFFICES ASSUME NEW o \in heap \ gone PROVE (Left(o) \/ Owned(o))'
    BY Zenon, <1>1 DEF HasOnly
  <2>1. Left(o) \/ Owned(o)
    BY Zenon, <1>1 DEF LibraryInv, HasOnly
  <2>2. CASE Left(o)
    BY Zenon, <2>2 DEF Left
  <2>3. CASE \E w \in BackendParts : o = Object(w, configs, n, modules[n].config.type)
    <3>1. PICK w \in BackendParts : o = Object(w, configs, n, modules[n].config.type)
      BY Zenon, <2>3
    <3>2. w \notin modules[n].frees
      BY Zenon, <3>1 DEF Of, Object
    <3>3. modules[n].frees = Frees(modules[n].config.type)
      BY <1>1, <1>2 DEF LibraryInv, PhaseInv
    <3>4. Left(o)
      BY Zenon, <3>1, <3>2, <3>3 DEF Left, Frees, Object, BackendParts
    <3> QED
      BY Zenon, <3>4 DEF Left
  <2>4. CASE Owned(o) /\ ~\E w \in BackendParts : o = Object(w, configs, n, modules[n].config.type)
    <3>1. \/ config # None /\ o \in ConfigObjects(configs)
          \/ \E w \in ModuleParts : o = Part(w, configs)
          \/ \E i \in 1 .. n - 1, w \in BackendParts :
               o = Object(w, configs, i, modules[i].config.type)
      BY <2>4, <1>1, <1>2 DEF Owned, Running
    <3> QED
      BY Zenon, <3>1, <1>1, <1>3, <1>5 DEF Owned
  <2> QED
    BY Zenon, <2>1, <2>2, <2>3, <2>4
<1> QED
  BY Zenon, <1>6, <1>7, <1>8, <1>9 DEF LibraryInv

LEMMA ModulesFinalizeKeeps == ASSUME LibraryInv, ModulesFinalize PROVE LibraryInv'
<1> DEFINE gone == Of(ModuleParts, 0)
<1>1. /\ caller = "backends" /\ caller' = "config" /\ heap' = heap \ gone
      /\ modules \in {None, <<>>} /\ modules' = None
      /\ UNCHANGED <<file, procs, config, initialized, jobs, configs>>
  <2>1. ModuleParts = {"modules", "data_backends", "metadata", "coordinator"}
    BY Zenon DEF ModuleParts
  <2> QED
    BY Zenon, <2>1 DEF ModulesFinalize, Free
<1>2. jobs = <<>>
  BY <1>1 DEF LibraryInv, LibraryType, PhaseInv
<1>3. LibraryType'
  BY Zenon, <1>1 DEF LibraryInv, LibraryType, Finalising
<1>4. PhaseInv'
  BY Zenon, <1>1, <1>2 DEF LibraryInv, PhaseInv, Running
<1>5. HasAll'
  <2>1. ConfigObjects(configs) \cap gone = {}
    BY DEF ConfigObjects, Of, Part, Object, ModuleParts
  <2> QED
    BY Zenon, <1>1, <2>1 DEF LibraryInv, HasAll, Running
<1>6. HasOnly'
  <2> SUFFICES ASSUME NEW o \in heap \ gone PROVE (Left(o) \/ Owned(o))'
    BY Zenon, <1>1 DEF HasOnly
  <2>1. \A w \in ModuleParts : o # Part(w, configs)
    BY DEF Of, Part, Object
  <2>2. Left(o) \/ (config # None /\ o \in ConfigObjects(configs))
    BY <1>1, <2>1 DEF LibraryInv, HasOnly, Owned, Running
  <2> QED
    BY Zenon, <1>1, <2>2 DEF Left, Owned
<1> QED
  BY Zenon, <1>3, <1>4, <1>5, <1>6 DEF LibraryInv

LEMMA ConfigFinalizeKeeps == ASSUME LibraryInv, ConfigFinalize PROVE LibraryInv'
<1>1. /\ caller = "config" /\ caller' = "ready"
      /\ heap' = heap \ (IF config = None THEN {} ELSE ConfigObjects(config.gen))
      /\ config' = None /\ procs' = [perNode |-> 1, total |-> 1] /\ initialized' = FALSE
      /\ UNCHANGED <<file, modules, jobs, configs>>
  BY Zenon DEF ConfigFinalize, Free, DefaultProcs
<1>2. modules = None /\ jobs = <<>> /\ (config # None => config.gen = configs)
  BY Zenon, <1>1 DEF LibraryInv, PhaseInv
<1>3. LibraryType'
  <2>1. procs' \in [perNode : Nat \ {0}, total : Nat \ {0}]
    BY <1>1
  <2> QED
    BY Zenon, <1>1, <2>1 DEF LibraryInv, LibraryType, Running
<1>4. PhaseInv' /\ HasAll'
  BY Zenon, <1>1, <1>2 DEF PhaseInv, HasAll
<1>5. HasOnly'
  <2> SUFFICES ASSUME NEW o \in heap' PROVE Left(o)'
    BY Zenon DEF HasOnly
  <2>1. Left(o)
    BY Zenon, <1>1, <1>2 DEF LibraryInv, HasOnly, Owned, Running
  <2> QED
    BY Zenon, <2>1 DEF Left
<1> QED
  BY Zenon, <1>3, <1>4, <1>5 DEF LibraryInv

-----------------------------------------------------------------------------
LEMMA LibraryInvKept ==
  ASSUME LibraryInv, [StartupNext]_startupVars
  PROVE  LibraryInv'
<1>1. CASE UNCHANGED startupVars
  <2>1. /\ LibraryType' /\ caller' = caller
        /\ UNCHANGED <<file, procs, config, modules, initialized, heap, jobs, configs>>
    BY Zenon, <1>1 DEF startupVars, LibraryInv, LibraryType
  <2>2. PhaseInv => PhaseInv'
    BY Zenon, <2>1 DEF PhaseInv, Drained
  <2>3. HasAll => HasAll'
    BY Zenon, <2>1 DEF HasAll
  <2>4. HasOnly => HasOnly'
    BY <2>1 DEF HasOnly, Left, Owned
  <2> QED
    BY Zenon, <2>1, <2>2, <2>3, <2>4 DEF LibraryInv
<1>2. CASE \E which \in {"perNode", "total"}, n \in ProcCounts : SetProcs(which, n)
  BY Zenon, <1>2, SetProcsKeeps
<1>3. CASE \E doc \in Documents : LoadConfigStr(doc) \/ Edit(doc)
  BY Zenon, <1>3, LoadConfigStrKeeps, EditKeeps
<1>4. CASE InitLoaded \/ InitFromFile
  BY Zenon, <1>4, InitLoadedKeeps, InitFromFileKeeps
<1>5. CASE \E amount \in Amounts : Request(amount)
  BY Zenon, <1>5, RequestKeeps
<1>6. CASE GetModules \/ WriteGridFragment \/ RequestReturn
  BY Zenon, <1>6, GetModulesKeeps, WriteGridFragmentKeeps, RequestReturnKeeps
<1>7. CASE \E i \in DOMAIN jobs : TakeJob(i) \/ ReportJob(i) \/ LeaveJob(i)
  BY Zenon, <1>7, ThreadKeeps
<1>8. CASE Finalize \/ SchedulerFinalize \/ PerformanceFinalize \/ LayoutFinalize
  BY Zenon, <1>8, FinalizeKeeps, SchedulerFinalizeKeeps, PerformanceFinalizeKeeps, LayoutFinalizeKeeps
<1>9. CASE BackendFinalize \/ ModulesFinalize \/ ConfigFinalize
  BY Zenon, <1>9, BackendFinalizeKeeps, ModulesFinalizeKeeps, ConfigFinalizeKeeps
<1> QED
  BY Zenon, <1>1, <1>2, <1>3, <1>4, <1>5, <1>6, <1>7, <1>8, <1>9 DEF StartupNext

LEMMA LibraryInvMeans == LibraryInv => LifetimesKept
<1> SUFFICES ASSUME LibraryInv PROVE NoDangling /\ NothingLeft
  BY Zenon DEF LifetimesKept
<1> DEFINE Has(what, at) == \E o \in heap : o.what = what /\ o.gen = configs /\ o.at = at
<1>1. ASSUME caller # "dead"
      PROVE  /\ \A i \in DOMAIN jobs :
                  ~Drained(i) => \A w \in {"backend", "data", "config", "pool"} : Has(w, i)
             /\ modules # None =>
                  /\ \A w \in {"json", "modules", "coordinator", "metadata"} : Has(w, 0)
                  /\ \A i \in DOMAIN modules : Has("backend", i) /\ Has("config", i)
             /\ config # None => Has("json", 0) /\ Has("esdm_config", 0)
             /\ initialized /\ Calls =>
                  /\ modules # None /\ config # None
                  /\ \A w \in {"scheduler", "layout", "performance"} : Has(w, 0)
                  /\ \A i \in DOMAIN modules : modules[i].threads > 0 => Has("pool", i)
  <2> USE <1>1
  <2>1. PhaseInv /\ HasAll /\ jobs \in Seq(Jobs) /\ modules \in Seq(Backends) \cup {None}
    BY Zenon DEF LibraryInv, LibraryType
  <2>2. \A w, at, type : Object(w, configs, at, type) \in heap => Has(w, at)
    BY Zenon DEF Object
  <2>3. \A w : Part(w, configs) \in heap => Has(w, 0)
    BY <2>2 DEF Part
  <2> HIDE DEF Has
  <2>4. config # None => Has("json", 0) /\ Has("esdm_config", 0)
    BY Zenon, <2>1, <2>3 DEF HasAll, ConfigObjects
  <2>5. modules # None => config # None
    BY Zenon, <2>1 DEF PhaseInv
  <2>6. modules # None => \A w \in ModuleParts : Has(w, 0)
    BY Zenon, <2>1, <2>3 DEF HasAll
  <2>7. modules # None => \A i \in DOMAIN modules, w \in BackendParts : Has(w, i)
    BY Zenon, <2>1, <2>2 DEF HasAll
  <2>8. initialized /\ caller \in Running =>
          /\ modules # None /\ config # None
          /\ \A w \in {"scheduler", "layout", "performance"} : Has(w, 0)
          /\ \A i \in DOMAIN modules : modules[i].threads > 0 => Has("pool", i)
    BY Zenon, <2>1, <2>2, <2>3 DEF HasAll, PhaseInv
  <2>9. ASSUME NEW i \in DOMAIN jobs, ~Drained(i)
        PROVE  \A w \in {"backend", "data", "config", "pool"} : Has(w, i)
    <3>1. modules # None
      BY <2>1 DEF PhaseInv
    <3>2. i \in DOMAIN modules
      BY <3>1, <2>1 DEF PhaseInv
    <3>3. initialized /\ caller \in Running /\ modules[i].threads > 0
      BY Zenon, <2>1, <2>9, <3>1, <3>2 DEF PhaseInv
    <3> QED
      BY Zenon, <2>7, <2>8, <3>1, <3>2, <3>3 DEF BackendParts
  <2>10. initialized /\ Calls => initialized /\ caller \in Running
    BY Zenon DEF Calls, Running
  <2> QED
    BY Zenon, <2>4, <2>5, <2>6, <2>7, <2>8, <2>9, <2>10 DEF ModuleParts, BackendParts
<1>2. NoDangling
  BY Zenon, <1>1 DEF NoDangling
<1>3. NothingLeft
  <2> SUFFICES ASSUME caller = "ready", ~initialized, NEW o \in heap
               PROVE  \/ o.type = "KDSA" /\ o.what \in {"backend", "config"}
                      \/ o.type \in {"PMEM", "WOS"} /\ o.what \in {"backend", "data", "config"}
                      \/ config # None /\ o \in ConfigObjects(config.gen)
    BY Zenon DEF NothingLeft
  <2>1. PhaseInv /\ (Left(o) \/ Owned(o))
    BY Zenon DEF LibraryInv, HasOnly
  <2>2. CASE Left(o)
    BY Zenon, <2>2 DEF Left, BackendParts
  <2>3. CASE Owned(o)
    BY Zenon, <2>1, <2>3 DEF Owned, PhaseInv
  <2> QED
    BY Zenon, <2>1, <2>2, <2>3
<1> QED
  BY Zenon, <1>2, <1>3

(* What threads and the instance use is allocated when they use it, and    *)
(* esdm_finalize() leaves nothing but what the finalize functions of KDSA, *)
(* PMEM and WOS never free, whatever is configured, however often the      *)
(* library is started and however long threads take to leave their jobs.   *)
THEOREM LifetimesAreKept == StartupSpec => []LifetimesKept
<1>1. StartupInit => LibraryInv
  BY Zenon, LibraryStarts
<1>2. LibraryInv /\ [StartupNext]_startupVars => LibraryInv'
  BY Zenon, LibraryInvKept
<1>3. LibraryInv => LifetimesKept
  BY Zenon, LibraryInvMeans
<1> QED
  BY <1>1, <1>2, <1>3, PTL DEF StartupSpec
=============================================================================
