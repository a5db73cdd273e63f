--------------------------- MODULE Scheduler_proofs ---------------------------
(***************************************************************************)
(* The data path of a dataset, for any dataset, any hypercubes and any     *)
(* number of fragments: what holds whatever operations fail, what holds as *)
(* long as the backends do not fail, and the refinement of WriteOnceStore. *)
(***************************************************************************)
EXTENDS Scheduler, TLAPS

FragFields == {"status", "buf", "packed", "data"}
TaskFields == {"callback", "at", "ret"}

ShapeInv ==
    /\ DOMAIN frag = Cubes /\ DOMAIN disk = Cubes /\ DOMAIN task = Cubes
    /\ \A c \in Cubes : DOMAIN frag[c] = FragFields /\ DOMAIN task[c] = TaskFields
    /\ DOMAIN req = {"op", "region", "packed", "reads", "complete"}
    /\ req.op \in {"write", "writeback", "read", "read_grid"}
    /\ pc \in {"idle", "enqueue", "return"}
    /\ todo \subseteq Cubes

\* Tasks belong to a request that is being enqueued or waited for.
TaskInv ==
    /\ pc # "enqueue" => todo = {} /\ \A c \in Cubes : task[c] = NoTask
    /\ req.op \in {"write", "writeback"} => \A c \in todo : c \subseteq req.region
    /\ \A c \in Cubes : task[c].at # "none" => task[c].callback \in {"copy", "cleanup"}

\* A fragment that is to be committed was never stored and has the caller's buffer.
CommitInv ==
    \A c \in Cubes :
        /\ frag[c].status = "absent" => disk[c] = Blank
        /\ task[c].at = "commit" => frag[c].buf = "caller" /\ disk[c] = Blank

\* Only fragments within the region borrow the caller's buffer, and only for the
\* time of the call.
BorrowInv ==
    \A c \in Cubes : frag[c].buf = "caller" => pc # "idle" /\ c \subseteq req.region

AnyInv == ShapeInv /\ TaskInv /\ CommitInv /\ BorrowInv /\ CacheCoherent /\ ReadStaysInRegion

-----------------------------------------------------------------------------
LEMMA AnyInit == Init => AnyInv
<1> SUFFICES ASSUME Init PROVE AnyInv
  BY Zenon
<1>1. \A c \in Cubes : /\ frag[c] = Absent /\ task[c] = NoTask /\ disk[c] = Blank
                       /\ frag[c].status = "absent" /\ frag[c].buf = "null" /\ task[c].at = "none"
  BY Zenon DEF Init, Absent, NoTask
<1>2. ShapeInv
  BY Zenon DEF Init, ShapeInv, FragFields, TaskFields, Absent, NoTask
<1>3. TaskInv /\ CommitInv /\ BorrowInv /\ CacheCoherent
  BY Zenon, <1>1 DEF Init, TaskInv, CommitInv, BorrowInv, CacheCoherent
<1>4. ReadStaysInRegion
  BY Zenon DEF Init, ReadStaysInRegion, Blank
<1> QED BY Zenon, <1>2, <1>3, <1>4 DEF AnyInv

\* The requests of the user thread.
LEMMA AnyBegin ==
    ASSUME AnyInv,
           \/ \E region \in Cubes, v \in Values, packed \in BOOLEAN :
                \E tiles \in Tilings(region) : BeginWrite(region, tiles, v, packed)
           \/ \E op \in ReadCalls, region \in Cubes, packed \in BOOLEAN :
                BeginRead(op, region, packed)
    PROVE  AnyInv'
<1> USE DEF AnyInv
<1>1. pc = "idle" /\ UNCHANGED <<frag, disk, task>>
  BY Zenon DEF BeginWrite, BeginRead
<1>2. CommitInv' /\ BorrowInv' /\ CacheCoherent'
  BY Zenon, <1>1 DEF CommitInv, BorrowInv, CacheCoherent
<1>3. ASSUME NEW region \in Cubes, NEW v \in Values, NEW packed \in BOOLEAN,
             NEW tiles \in Tilings(region), BeginWrite(region, tiles, v, packed)
      PROVE  AnyInv'
  <2>1. ShapeInv'
    BY Zenon, <1>1, <1>3 DEF BeginWrite, ShapeInv, Tilings
  <2>2. TaskInv'
    BY Zenon, <1>1, <1>3 DEF BeginWrite, TaskInv, Tilings
  <2>3. ReadStaysInRegion'
    BY Zenon, <1>3 DEF BeginWrite, ReadStaysInRegion
  <2> QED BY Zenon, <1>2, <2>1, <2>2, <2>3
<1>4. ASSUME NEW op \in ReadCalls, NEW region \in Cubes, NEW packed \in BOOLEAN,
             BeginRead(op, region, packed)
      PROVE  AnyInv'
  <2> DEFINE uncovered(reads) == region \ UNION reads
  <2>1. PICK reads \in FragmentsCoveringRegion(op, region) :
          /\ req' = [op |-> op, region |-> region, packed |-> packed, reads |-> reads,
                     complete |-> uncovered(reads) = {}]
          /\ \/ pc' = "return" /\ todo' = {}
             \/ pc' = "enqueue" /\ todo' = reads
          /\ mem' = [x \in Cells |-> IF x \in uncovered(reads) /\ HasFill THEN Fill ELSE Junk]
    BY Zenon, <1>4 DEF BeginRead
  <2>2. reads \subseteq Cubes
    BY Zenon DEF FragmentsCoveringRegion, MakeSetCoveringRegion, GridSets, Present
  <2>3. op \in {"read", "read_grid"}
    BY Zenon, SchedulerAssumption
  <2>4. ShapeInv'
    BY Zenon, <1>1, <2>1, <2>2, <2>3 DEF ShapeInv
  <2>5. TaskInv'
    BY Zenon, <1>1, <2>1, <2>3 DEF TaskInv
  <2>6. ReadStaysInRegion'
    BY Zenon, <2>1 DEF ReadStaysInRegion
  <2> QED BY Zenon, <1>2, <2>4, <2>5, <2>6
<1> QED BY Zenon, <1>3, <1>4

\* The enqueue loops.
LEMMA AnyEnqueue ==
    ASSUME AnyInv, NEW c \in Cubes, EnqueueWrite(c) \/ EnqueueRead(c)
    PROVE  AnyInv'
<1> USE DEF AnyInv
<1>1. /\ pc = "enqueue" /\ c \in todo /\ todo' = todo \ {c}
      /\ UNCHANGED <<disk, pc, req, rc, mem>>
  BY Zenon DEF EnqueueWrite, EnqueueRead
<1>2. ReadStaysInRegion'
  BY Zenon, <1>1 DEF ReadStaysInRegion
<1>3. TaskInv'
  <2>1. task' = task \/ \E callback \in {"copy", "cleanup"}, at \in {"load", "commit"} :
          task' = [task EXCEPT ![c] = [callback |-> callback, at |-> at, ret |-> "none"]]
    BY Zenon DEF EnqueueWrite, EnqueueRead
  <2>2. \A d \in Cubes : task'[d].at # "none" => task'[d].callback \in {"copy", "cleanup"}
    BY <2>1 DEF TaskInv, ShapeInv
  <2> QED BY Zenon, <1>1, <2>2 DEF TaskInv
<1>4. CASE UNCHANGED <<frag, task>>
  BY Zenon, <1>1, <1>2, <1>3, <1>4 DEF ShapeInv, CommitInv, BorrowInv, CacheCoherent
<1>5. CASE EnqueueWrite(c) /\ c \notin Present
  <2>1. PICK packed \in OnePiece(c) :
          frag' = [frag EXCEPT ![c] = [status |-> "dirty", buf |-> "caller",
                                       packed |-> packed, data |-> Blank]]
    BY Zenon, <1>5 DEF EnqueueWrite
  <2>2. task' = [task EXCEPT ![c] = [callback |-> "cleanup", at |-> "commit", ret |-> "none"]]
    BY Zenon, <1>5 DEF EnqueueWrite
  <2>3. frag[c].status = "absent" /\ c \subseteq req.region
    BY Zenon, <1>1, <1>5 DEF Present, EnqueueWrite, TaskInv
  <2>4. ShapeInv'
    BY Zenon, <1>1, <2>1, <2>2 DEF ShapeInv, FragFields, TaskFields
  <2>5. CommitInv'
    BY Zenon, <1>1, <2>1, <2>2, <2>3 DEF ShapeInv, CommitInv
  <2>6. BorrowInv' /\ CacheCoherent'
    BY Zenon, <1>1, <2>1, <2>3 DEF ShapeInv, BorrowInv, CacheCoherent
  <2> QED BY Zenon, <1>2, <1>3, <2>4, <2>5, <2>6
<1>6. CASE EnqueueRead(c)
  <2>1. PICK callback \in {"cleanup", "copy"} :
          task' = [task EXCEPT ![c] = [callback |-> callback, at |-> "load", ret |-> "none"]]
    BY Zenon, <1>6 DEF EnqueueRead
  <2>2. \/ frag' = frag
        \/ frag' = [frag EXCEPT ![c].buf = "caller"] /\ c \subseteq req.region
    BY Zenon, <1>6 DEF EnqueueRead, DirectIO
  <2>3. ShapeInv'
    BY Zenon, <1>1, <2>1, <2>2 DEF ShapeInv, FragFields, TaskFields
  <2>4. \A d \in Cubes : frag'[d].status = frag[d].status /\ frag'[d].data = frag[d].data
    BY <2>2 DEF ShapeInv, FragFields
  <2>5. \A d \in Cubes : \/ frag'[d].buf = frag[d].buf
                         \/ frag'[d].buf = "caller" /\ d \subseteq req.region
    BY <2>2 DEF ShapeInv, FragFields
  <2>6. \A d \in Cubes : task'[d].at = "commit" => task[d].at = "commit"
    BY Zenon, <2>1 DEF ShapeInv
  <2>7. CommitInv'
    BY Zenon, <1>1, <2>4, <2>5, <2>6 DEF CommitInv
  <2>8. BorrowInv' /\ CacheCoherent'
    BY Zenon, <1>1, <2>4, <2>5 DEF BorrowInv, CacheCoherent
  <2> QED BY Zenon, <1>2, <1>3, <2>3, <2>7, <2>8
<1> QED BY Zenon, <1>4, <1>5, <1>6 DEF EnqueueWrite

\* The end of a request.
LEMMA AnyEnd ==
    ASSUME AnyInv,
           \/ \E tiles \in Tilings(req.region) : BeginWriteback(tiles)
           \/ Complete \/ Return
    PROVE  AnyInv'
<1> USE DEF AnyInv
<1>1. CASE \E tiles \in Tilings(req.region) : BeginWriteback(tiles)
  <2>1. PICK tiles \in Tilings(req.region) : BeginWriteback(tiles)
    BY Zenon, <1>1
  <2>2. tiles \subseteq Cubes /\ \A c \in tiles : c \subseteq req.region
    BY Zenon DEF Tilings
  <2>3. /\ pc = "enqueue" /\ todo' = tiles /\ UNCHANGED <<frag, disk, pc, task, mem>>
        /\ req' = [req EXCEPT !.op = "writeback"]
    BY Zenon, <2>1 DEF BeginWriteback, Waited
  <2>4. req'.op = "writeback" /\ req'.region = req.region /\ DOMAIN req' = DOMAIN req
    BY Zenon, <2>3 DEF ShapeInv
  <2>5. ShapeInv' /\ TaskInv'
    BY Zenon, <2>2, <2>3, <2>4 DEF ShapeInv, TaskInv
  <2>6. CommitInv' /\ BorrowInv' /\ CacheCoherent'
    BY Zenon, <2>3, <2>4 DEF CommitInv, BorrowInv, CacheCoherent
  <2>7. ReadStaysInRegion'
    BY Zenon, <2>3, <2>4 DEF ReadStaysInRegion
  <2> QED BY Zenon, <2>5, <2>6, <2>7
<1>2. CASE Complete
  <2>1. /\ Waited /\ pc' = "return" /\ UNCHANGED <<frag, disk, req, todo, task, mem>>
    BY Zenon, <1>2 DEF Complete
  <2>2. ShapeInv' /\ TaskInv'
    BY Zenon, <2>1 DEF ShapeInv, TaskInv, Waited
  <2>3. CommitInv' /\ BorrowInv' /\ CacheCoherent'
    BY Zenon, <2>1 DEF CommitInv, BorrowInv, CacheCoherent
  <2>4. ReadStaysInRegion'
    BY Zenon, <2>1 DEF ReadStaysInRegion
  <2> QED BY Zenon, <2>2, <2>3, <2>4
<1>3. CASE Return
  <2>1. /\ pc = "return" /\ pc' = "idle" /\ UNCHANGED <<disk, todo, task>> /\ mem' = Blank
        /\ req' = [op |-> "read", region |-> {}, packed |-> TRUE, reads |-> {}, complete |-> TRUE]
    BY Zenon, <1>3 DEF Return
  <2>2. frag' = [c \in Cubes |->
                  IF frag[c].buf = "caller" THEN [frag[c] EXCEPT !.buf = "stale"] ELSE frag[c]]
    BY Zenon, <1>3 DEF Return
  <2>3. \A c \in Cubes : /\ DOMAIN frag'[c] = FragFields
                         /\ frag'[c].status = frag[c].status /\ frag'[c].data = frag[c].data
                         /\ frag'[c].buf = IF frag[c].buf = "caller" THEN "stale" ELSE frag[c].buf
    BY Zenon, <2>2 DEF ShapeInv, FragFields
  <2>4. ShapeInv'
    BY Zenon, <2>1, <2>2, <2>3 DEF ShapeInv
  <2>5. TaskInv'
    BY Zenon, <2>1 DEF TaskInv
  <2>6. \A c \in Cubes : task'[c].at = "none"
    BY <2>1 DEF TaskInv, NoTask
  <2>7. CommitInv' /\ BorrowInv' /\ CacheCoherent'
    BY Zenon, <2>1, <2>3, <2>6 DEF CommitInv, BorrowInv, CacheCoherent
  <2>8. ReadStaysInRegion'
    BY Zenon, <2>1 DEF ReadStaysInRegion, Blank
  <2> QED BY Zenon, <2>4, <2>5, <2>7, <2>8
<1> QED BY Zenon, <1>1, <1>2, <1>3

\* A task exists only while its request waits.
LEMMA TaskRuns ==
    ASSUME AnyInv, NEW c \in Cubes, task[c].at # "none"
    PROVE  pc = "enqueue"
BY DEF AnyInv, TaskInv, NoTask

\* What a load does, by its outcome.
LEMMA LoadEffect ==
    ASSUME AnyInv, NEW c \in Cubes, Load(c)
    PROVE  \E ret \in {"success", "error"} :
             /\ ret = "error" => "load" \in MayFail
             /\ task' = [task EXCEPT ![c].at = "callback", ![c].ret = ret]
             /\ \/ /\ frag[c].status # "not_loaded" /\ ret = "success" /\ frag' = frag /\ mem' = mem
                \/ LET buf == IF frag[c].buf = "null" THEN "own" ELSE frag[c].buf
                       data == IF ret = "success" THEN disk[c] ELSE Blank
                   IN /\ frag[c].status = "not_loaded"
                      /\ frag'[c].buf = buf
                      /\ frag'[c].status = IF ret = "success" THEN "persistent" ELSE "not_loaded"
                      /\ frag'[c].data = IF buf = "own" THEN data ELSE frag[c].data
                      /\ DOMAIN frag'[c] = FragFields /\ DOMAIN frag' = Cubes
                      /\ \A d \in Cubes \ {c} : frag'[d] = frag[d]
                      /\ mem' = IF buf = "caller" THEN Overlay(mem, c, data) ELSE mem
<1>1. CASE frag[c].status # "not_loaded"
  BY Zenon, <1>1 DEF Load
<1>2. CASE frag[c].status = "not_loaded"
  <2> DEFINE buf == IF frag[c].buf = "null" THEN "own" ELSE frag[c].buf
             data(ret) == IF ret = "success" THEN disk[c] ELSE Blank
  <2>1. PICK ret \in Outcomes("load") :
          /\ task' = [task EXCEPT ![c].at = "callback", ![c].ret = ret]
          /\ Transfer(c, buf, data(ret))
    BY Zenon, <1>2 DEF Load
  <2>2. ret \in {"success", "error"} /\ (ret = "error" => "load" \in MayFail)
    BY Zenon DEF Outcomes
  <2>3. task'[c].ret = ret
    BY Zenon, <2>1 DEF AnyInv, ShapeInv, TaskFields
  <2>4. /\ frag'[c].buf = buf
        /\ frag'[c].status = IF ret = "success" THEN "persistent" ELSE "not_loaded"
        /\ frag'[c].data = IF buf = "own" THEN data(ret) ELSE frag[c].data
        /\ DOMAIN frag'[c] = FragFields /\ DOMAIN frag' = Cubes
        /\ \A d \in Cubes \ {c} : frag'[d] = frag[d]
    BY <1>2, <2>1, <2>2, <2>3 DEF Transfer, AnyInv, ShapeInv, FragFields
  <2>5. mem' = IF buf = "caller" THEN Overlay(mem, c, data(ret)) ELSE mem
    BY Zenon, <2>1 DEF Transfer
  <2> QED BY Zenon, <1>2, <2>1, <2>2, <2>4, <2>5
<1> QED BY Zenon, <1>1, <1>2

LEMMA AnyLoad ==
    ASSUME AnyInv, NEW c \in Cubes, Load(c)
    PROVE  AnyInv'
<1> USE DEF AnyInv
<1>1. task[c].at = "load" /\ UNCHANGED <<disk, pc, req, todo, rc>>
  BY Zenon DEF Load
<1>2. pc = "enqueue"
  BY Zenon, <1>1, TaskRuns
<1>3. PICK ret \in {"success", "error"} :
        /\ task' = [task EXCEPT ![c].at = "callback", ![c].ret = ret]
        /\ \/ frag[c].status # "not_loaded" /\ frag' = frag /\ mem' = mem
           \/ LET buf == IF frag[c].buf = "null" THEN "own" ELSE frag[c].buf
                  data == IF ret = "success" THEN disk[c] ELSE Blank
              IN /\ frag[c].status = "not_loaded"
                 /\ frag'[c].buf = buf
                 /\ frag'[c].status = IF ret = "success" THEN "persistent" ELSE "not_loaded"
                 /\ frag'[c].data = IF buf = "own" THEN data ELSE frag[c].data
                 /\ DOMAIN frag'[c] = FragFields /\ DOMAIN frag' = Cubes
                 /\ \A d \in Cubes \ {c} : frag'[d] = frag[d]
                 /\ mem' = IF buf = "caller" THEN Overlay(mem, c, data) ELSE mem
  BY LoadEffect
<1>4. /\ DOMAIN task' = Cubes /\ \A d \in Cubes : DOMAIN task'[d] = TaskFields
      /\ task'[c].at = "callback" /\ task'[c].callback = task[c].callback
      /\ \A d \in Cubes \ {c} : task'[d] = task[d]
  BY Zenon, <1>3 DEF ShapeInv, TaskFields
<1>5. ShapeInv'
  BY <1>1, <1>3, <1>4 DEF ShapeInv
<1>6. TaskInv'
  BY Zenon, <1>1, <1>2, <1>4 DEF TaskInv
<1>7. CommitInv'
  BY <1>1, <1>3, <1>4 DEF CommitInv
<1>8. BorrowInv'
  BY Zenon, <1>1, <1>2, <1>3 DEF BorrowInv
<1>9. CacheCoherent'
  BY Zenon, <1>1, <1>3 DEF CacheCoherent
<1>10. ReadStaysInRegion'
  BY Zenon, <1>1, <1>3 DEF ReadStaysInRegion, BorrowInv, Overlay
<1> QED BY Zenon, <1>5, <1>6, <1>7, <1>8, <1>9, <1>10

LEMMA AnyCommit ==
    ASSUME AnyInv, NEW c \in Cubes, Commit(c)
    PROVE  AnyInv'
<1> USE DEF AnyInv
<1>1. task[c].at = "commit" /\ UNCHANGED <<pc, req, todo, rc, mem>>
  BY Zenon DEF Commit
<1>2. pc = "enqueue"
  BY Zenon, <1>1, TaskRuns
<1>3. PICK ret \in {"success", "error"} :
        /\ task' = [task EXCEPT ![c].at = "callback", ![c].ret = ret]
        /\ \/ /\ frag' = [frag EXCEPT ![c].status = "persistent"]
              /\ disk' = [disk EXCEPT ![c] = Buffer(c)]
           \/ UNCHANGED <<frag, disk>>
  BY Zenon DEF Commit, Outcomes
<1>4. /\ DOMAIN task' = Cubes /\ \A d \in Cubes : DOMAIN task'[d] = TaskFields
      /\ task'[c].at = "callback" /\ task'[c].callback = task[c].callback
      /\ \A d \in Cubes \ {c} : task'[d] = task[d]
  BY Zenon, <1>3 DEF ShapeInv, TaskFields
<1>5. /\ DOMAIN frag' = Cubes /\ DOMAIN disk' = Cubes
      /\ \A d \in Cubes : DOMAIN frag'[d] = FragFields /\ frag'[d].buf = frag[d].buf
      /\ \A d \in Cubes \ {c} : frag'[d] = frag[d] /\ disk'[d] = disk[d]
      /\ \/ frag'[c].status = "persistent"
         \/ frag'[c] = frag[c] /\ disk'[c] = disk[c]
  BY <1>3 DEF ShapeInv, FragFields
<1>6. ShapeInv'
  BY Zenon, <1>1, <1>4, <1>5 DEF ShapeInv
<1>7. TaskInv'
  BY Zenon, <1>1, <1>2, <1>4 DEF TaskInv
<1>8. CommitInv'
  BY <1>4, <1>5 DEF CommitInv
<1>9. BorrowInv' /\ ReadStaysInRegion'
  BY Zenon, <1>1, <1>5 DEF BorrowInv, ReadStaysInRegion
<1>10. CacheCoherent'
  BY <1>1, <1>5 DEF CacheCoherent, CommitInv
<1> QED BY Zenon, <1>6, <1>7, <1>8, <1>9, <1>10

\* A callback takes the task away; it copies, unloads or does nothing.
LEMMA CallbackEffect ==
    ASSUME AnyInv, NEW c \in Cubes, Callback(c)
    PROVE  \/ frag' = frag /\ mem' = mem /\ task[c].ret # "success"
           \/ /\ frag' = frag /\ mem' = Overlay(mem, c \cap req.region, Buffer(c))
              /\ task[c].ret = "success" /\ task[c].callback = "copy"
           \/ /\ frag'[c].status = "not_loaded" /\ frag'[c].buf = "null"
              /\ DOMAIN frag'[c] = FragFields /\ DOMAIN frag' = Cubes
              /\ \A d \in Cubes \ {c} : frag'[d] = frag[d]
              /\ mem' = mem /\ task[c].ret = "success" /\ task[c].callback = "cleanup"
<1>1. CASE task[c].ret # "success"
  BY Zenon, <1>1 DEF Callback
<1>2. CASE task[c].ret = "success" /\ task[c].callback = "copy"
  BY Zenon, <1>2 DEF Callback
<1>3. CASE task[c].ret = "success" /\ task[c].callback = "cleanup"
  <2>1. Unload(c) /\ mem' = mem
    BY Zenon, <1>3 DEF Callback
  <2> QED BY <1>3, <2>1 DEF Unload, AnyInv, ShapeInv, FragFields
<1> QED BY Zenon, <1>1, <1>2, <1>3 DEF Callback, AnyInv, TaskInv

LEMMA AnyCallback ==
    ASSUME AnyInv, NEW c \in Cubes, Callback(c)
    PROVE  AnyInv'
<1> USE DEF AnyInv
<1>1. /\ task[c].at = "callback" /\ task' = [task EXCEPT ![c] = NoTask]
      /\ UNCHANGED <<disk, pc, req, todo>>
  BY Zenon DEF Callback
<1>2. pc = "enqueue"
  BY Zenon, <1>1, TaskRuns
<1>3. \/ frag' = frag
      \/ /\ frag'[c].status = "not_loaded" /\ frag'[c].buf = "null"
         /\ DOMAIN frag'[c] = FragFields /\ DOMAIN frag' = Cubes
         /\ \A d \in Cubes \ {c} : frag'[d] = frag[d]
  BY Zenon, CallbackEffect
<1>4. mem' = mem \/ mem' = Overlay(mem, c \cap req.region, Buffer(c))
  BY Zenon, CallbackEffect
<1>5. /\ DOMAIN task' = Cubes /\ \A d \in Cubes : DOMAIN task'[d] = TaskFields
      /\ task'[c].at = "none" /\ \A d \in Cubes \ {c} : task'[d] = task[d]
  BY Zenon, <1>1 DEF ShapeInv, TaskFields, NoTask
<1>6. ShapeInv'
  BY <1>1, <1>3, <1>5 DEF ShapeInv
<1>7. TaskInv'
  BY Zenon, <1>1, <1>2, <1>5 DEF TaskInv
<1>8. CommitInv' /\ BorrowInv' /\ CacheCoherent'
  BY <1>1, <1>2, <1>3, <1>5 DEF CommitInv, BorrowInv, CacheCoherent
<1>9. ReadStaysInRegion'
  BY Zenon, <1>1, <1>4 DEF ReadStaysInRegion, Overlay
<1> QED BY Zenon, <1>6, <1>7, <1>8, <1>9

LEMMA AnyPreserved == AnyInv /\ [Next]_vars => AnyInv'
<1> SUFFICES ASSUME AnyInv, [Next]_vars PROVE AnyInv'
  BY Zenon
<1>1. CASE UNCHANGED vars
  BY Zenon, <1>1 DEF vars, AnyInv, ShapeInv, TaskInv, CommitInv, BorrowInv, CacheCoherent, ReadStaysInRegion
<1> QED BY Zenon, <1>1, AnyBegin, AnyEnqueue, AnyEnd, AnyLoad, AnyCommit, AnyCallback DEF Next

(* Whatever operations of the backends fail: a fragment that caches data   *)
(* caches what is stored.                                                  *)
THEOREM CachesCoherent == Spec => []CacheCoherent
<1>1. AnyInv => CacheCoherent
  BY Zenon DEF AnyInv
<1> QED BY <1>1, AnyInit, AnyPreserved, PTL DEF Spec

(* Whatever operations fail: reading, direct I/O included, leaves the      *)
(* caller's memory outside of the region alone.                            *)
THEOREM ReadsStayInRegion == Spec => []ReadStaysInRegion
<1>1. AnyInv => ReadStaysInRegion
  BY Zenon DEF AnyInv
<1> QED BY <1>1, AnyInit, AnyPreserved, PTL DEF Spec

(* Whatever operations fail: the data of a fragment is stored at most      *)
(* once, and never changes.                                                *)
THEOREM WrittenOnce == Spec => WriteOnce
<1>1. AnyInv /\ [Next]_vars => [\A c \in Cubes : disk[c] # Blank => disk'[c] = disk[c]]_vars
  <2> SUFFICES ASSUME AnyInv, Next, NEW c \in Cubes, disk[c] # Blank PROVE disk'[c] = disk[c]
    BY Zenon
  <2>1. CASE UNCHANGED disk
    BY Zenon, <2>1
  <2>2. ASSUME NEW d \in Cubes, Commit(d) PROVE disk'[c] = disk[c]
    <3>1. disk[d] = Blank
      BY Zenon, <2>2 DEF Commit, AnyInv, CommitInv
    <3>2. \/ disk' = [disk EXCEPT ![d] = Buffer(d)]
          \/ disk' = disk
      BY Zenon, <2>2 DEF Commit
    <3> QED BY Zenon, <3>1, <3>2 DEF AnyInv, ShapeInv
  <2> QED BY Zenon, <2>1, <2>2 DEF Next, BeginWrite, BeginRead, EnqueueWrite, EnqueueRead, BeginWriteback,
                            Complete, Return, Load, Callback
<1> QED BY <1>1, AnyInit, AnyPreserved, PTL DEF Spec, WriteOnce

-----------------------------------------------------------------------------
(* As long as the backends do not fail.                                    *)

ReadOps == {"read", "read_grid"}

\* How far a fragment's task is tells where the fragment's data is.
StateOf(c) ==
    LET at(s, callback) == task[c].at = s /\ task[c].callback = callback
        data(status, buf) == frag[c].status = status /\ frag[c].buf = buf
    IN  \/ task[c].at = "none" /\ (\/ data("absent", "null") \/ data("not_loaded", "null")
                                  \/ data("persistent", "own"))
        \/ at("commit", "cleanup") /\ data("dirty", "caller")
        \/ at("load", "cleanup") /\ data("not_loaded", "caller")
        \/ at("load", "copy") /\ (data("not_loaded", "null") \/ data("persistent", "own"))
        \/ at("callback", "cleanup") /\ task[c].ret = "success" /\ data("persistent", "caller")
        \/ at("callback", "copy") /\ task[c].ret = "success" /\ data("persistent", "own")

StateInv == \A c \in Cubes : StateOf(c)

\* The tasks of a request are the ones of its kind, for fragments that it visited.
RequestInv ==
    /\ req.region \subseteq Cells
    /\ req.reads \subseteq Present
    /\ pc = "enqueue" => rc = "success"
    /\ req.op \in ReadOps =>
          /\ todo \subseteq req.reads
          /\ \A c \in Cubes : task[c].at # "none" =>
                c \in req.reads /\ c \notin todo /\ task[c].at # "commit"
    /\ req.op \notin ReadOps =>
          \A c \in Cubes : /\ task[c].at # "load" /\ task[c].callback # "copy"
                           /\ task[c].at = "commit" => c \notin req.reads

\* The read of a fragment has not yet put data into the caller's buffer.
Pending(c) ==
    /\ req.op # "writeback"
    /\ \/ c \in todo
       \/ task[c].at = "load"
       \/ task[c].at = "callback" /\ task[c].callback = "copy"

\* An element has its fill value if no fragment of the read contains it, and the
\* data of a fragment once one that contains it was read.
ElementRead(x) ==
    /\ (\A c \in req.reads : x \notin c) => mem[x] = Fill
    /\ \A c \in req.reads : x \in c /\ ~Pending(c) =>
          \E d \in req.reads : x \in d /\ mem[x] = disk[d][x]

ProgressInv ==
    pc # "idle" /\ rc = "success" /\ req.op # "write" => \A x \in req.region : ElementRead(x)

GoodInv == AnyInv /\ StateInv /\ RequestInv /\ ProgressInv

LEMMA GoodInit == Init => GoodInv
<1> SUFFICES ASSUME Init PROVE GoodInv
  BY Zenon
<1>1. \A c \in Cubes : frag[c].status = "absent" /\ frag[c].buf = "null" /\ task[c].at = "none"
  BY Zenon DEF Init, Absent, NoTask
<1>2. StateInv
  BY Zenon, <1>1 DEF StateInv, StateOf
<1>3. RequestInv
  BY Zenon, <1>1 DEF Init, RequestInv, ReadOps
<1>4. ProgressInv
  BY Zenon DEF Init, ProgressInv
<1> QED BY Zenon, <1>2, <1>3, <1>4, AnyInit DEF GoodInv

LEMMA GoodBegin ==
    ASSUME GoodInv,
           \/ \E region \in Cubes, v \in Values, packed \in BOOLEAN :
                \E tiles \in Tilings(region) : BeginWrite(region, tiles, v, packed)
           \/ \E op \in ReadCalls, region \in Cubes, packed \in BOOLEAN :
                BeginRead(op, region, packed)
    PROVE  StateInv' /\ RequestInv' /\ ProgressInv'
<1>1. pc = "idle" /\ UNCHANGED <<frag, disk, task>>
  BY Zenon DEF BeginWrite, BeginRead
<1>2. StateInv'
  BY <1>1 DEF GoodInv, StateInv, StateOf
<1>3. \A c \in Cubes : task[c].at = "none" /\ task[c].callback = "none"
  BY <1>1 DEF GoodInv, AnyInv, TaskInv, NoTask
<1>4. ASSUME NEW region \in Cubes, NEW v \in Values, NEW packed \in BOOLEAN,
             NEW tiles \in Tilings(region), BeginWrite(region, tiles, v, packed)
      PROVE  RequestInv' /\ ProgressInv'
  <2>1. req'.op = "write" /\ req'.region = region /\ req'.reads = {} /\ rc' = "success"
    BY Zenon, <1>4 DEF BeginWrite
  <2>2. region \subseteq Cells
    BY Zenon, SchedulerAssumption
  <2> QED BY Zenon, <1>1, <1>3, <2>1, <2>2 DEF RequestInv, ProgressInv, ReadOps
<1>5. ASSUME NEW op \in ReadCalls, NEW region \in Cubes, NEW packed \in BOOLEAN,
             BeginRead(op, region, packed)
      PROVE  RequestInv' /\ ProgressInv'
  <2> DEFINE uncovered(reads) == region \ UNION reads
  <2>1. PICK reads \in FragmentsCoveringRegion(op, region) :
          /\ req' = [op |-> op, region |-> region, packed |-> packed, reads |-> reads,
                     complete |-> uncovered(reads) = {}]
          /\ \/ pc' = "return" /\ todo' = {} /\ rc' = "incomplete"
             \/ /\ pc' = "enqueue" /\ todo' = reads /\ rc' = "success"
                /\ uncovered(reads) = {} \/ HasFill
          /\ mem' = [x \in Cells |-> IF x \in uncovered(reads) /\ HasFill THEN Fill ELSE Junk]
    BY Zenon, <1>5 DEF BeginRead
  <2>2. reads \subseteq Present
    BY Zenon DEF FragmentsCoveringRegion, MakeSetCoveringRegion, GridSets, Present
  <2>3. op \in ReadOps /\ op # "writeback" /\ region \subseteq Cells
    BY Zenon, SchedulerAssumption DEF ReadOps
  <2>4. req'.op = op /\ req'.region = region /\ req'.reads = reads
    BY Zenon, <2>1
  <2>5. Present' = Present
    BY Zenon, <1>1 DEF Present
  <2>6. RequestInv'
    BY Zenon, <1>1, <1>3, <2>1, <2>2, <2>3, <2>4, <2>5 DEF RequestInv
  <2>7. ASSUME rc' = "success", NEW x \in region PROVE ElementRead(x)'
    <3>1. \A c \in reads : Pending(c)'
      BY Zenon, <2>1, <2>3, <2>4, <2>7 DEF Pending
    <3>2. (\A c \in reads : x \notin c) => mem'[x] = Fill
      BY Zenon, <2>1, <2>3, <2>7
    <3> QED BY Zenon, <2>4, <3>1, <3>2 DEF ElementRead
  <2> QED BY Zenon, <2>4, <2>6, <2>7 DEF ProgressInv
<1> QED BY Zenon, <1>2, <1>4, <1>5

\* The other fragments and tasks are what they were, after a step for one of them.
Others(c) == \A d \in Cubes \ {c} : frag'[d] = frag[d] /\ task'[d] = task[d]

LEMMA OthersKept ==
    ASSUME StateInv, NEW c \in Cubes, Others(c), StateOf(c)'
    PROVE  StateInv'
<1> SUFFICES ASSUME NEW d \in Cubes PROVE StateOf(d)'
  BY Zenon DEF StateInv
<1>1. CASE d # c
  <2>1. frag'[d] = frag[d] /\ task'[d] = task[d] /\ StateOf(d)
    BY Zenon, <1>1 DEF Others, StateInv
  <2> QED BY Zenon, <2>1 DEF StateOf
<1> QED BY Zenon, <1>1

\* A step that changes neither request nor buffer and stores no fragment of the
\* read, and after which no fragment is done that was pending.
LEMMA ProgressKept ==
    ASSUME GoodInv, UNCHANGED <<pc, req, rc, mem>>,
           \A d \in req.reads : disk'[d] = disk[d] /\ (Pending(d) => Pending(d)')
    PROVE  ProgressInv'
<1> SUFFICES ASSUME pc # "idle", rc = "success", req.op # "write", NEW x \in req.region
             PROVE  ElementRead(x)'
  BY Zenon DEF ProgressInv
<1>1. ElementRead(x)
  BY Zenon DEF GoodInv, ProgressInv
<1> QED BY Zenon, <1>1 DEF ElementRead

LEMMA GoodEnqueueWrite ==
    ASSUME GoodInv, NEW c \in Cubes, EnqueueWrite(c)
    PROVE  StateInv' /\ RequestInv' /\ ProgressInv'
<1>1. /\ pc = "enqueue" /\ c \in todo /\ todo' = todo \ {c} /\ req.op \in {"write", "writeback"}
      /\ UNCHANGED <<disk, pc, req, rc, mem>>
  BY Zenon DEF EnqueueWrite
<1>2. ASSUME \A d \in Cubes : \/ task'[d].at = task[d].at /\ task'[d].callback = task[d].callback
                              \/ task'[d].at = "commit"
      PROVE  ProgressInv'
  <2> SUFFICES ASSUME pc # "idle", rc = "success", req.op # "write", NEW x \in req.region
               PROVE  ElementRead(x)'
    BY Zenon, <1>1 DEF ProgressInv
  <2>1. ElementRead(x)
    BY Zenon DEF GoodInv, ProgressInv
  <2>2. req.op = "writeback" /\ req' = req
    BY Zenon, <1>1
  <2> QED BY Zenon, <1>1, <2>1, <2>2 DEF ElementRead, Pending
<1>3. CASE UNCHANGED <<frag, task>>
  <2>1. StateInv'
    BY <1>3 DEF GoodInv, StateInv, StateOf
  <2>2. RequestInv'
    BY Zenon, <1>1, <1>3 DEF GoodInv, RequestInv, Present, ReadOps
  <2> QED BY Zenon, <1>2, <1>3, <2>1, <2>2
<1>4. CASE c \notin Present
  <2>1. PICK packed \in OnePiece(c) :
          frag' = [frag EXCEPT ![c] = [status |-> "dirty", buf |-> "caller",
                                       packed |-> packed, data |-> Blank]]
    BY Zenon, <1>4 DEF EnqueueWrite
  <2>2. task' = [task EXCEPT ![c] = [callback |-> "cleanup", at |-> "commit", ret |-> "none"]]
    BY Zenon, <1>4 DEF EnqueueWrite
  <2>3. /\ frag'[c].status = "dirty" /\ frag'[c].buf = "caller"
        /\ task'[c].at = "commit" /\ task'[c].callback = "cleanup" /\ Others(c)
    BY Zenon, <2>1, <2>2 DEF GoodInv, AnyInv, ShapeInv, Others
  <2>4. StateInv'
    BY Zenon, <2>3, OthersKept DEF GoodInv, StateOf
  <2>5. req.reads \subseteq Present'
    BY Zenon, <2>3 DEF GoodInv, RequestInv, Present, Others
  <2>6. c \notin req.reads
    BY Zenon, <1>4 DEF GoodInv, RequestInv
  <2>7. RequestInv'
    BY Zenon, <1>1, <2>3, <2>5, <2>6 DEF GoodInv, RequestInv, ReadOps, Others
  <2>8. ProgressInv'
    BY Zenon, <1>2, <2>3 DEF Others
  <2> QED BY Zenon, <2>4, <2>7, <2>8
<1> QED BY Zenon, <1>3, <1>4 DEF EnqueueWrite

LEMMA GoodEnqueueRead ==
    ASSUME GoodInv, NEW c \in Cubes, EnqueueRead(c)
    PROVE  StateInv' /\ RequestInv' /\ ProgressInv'
<1>1. /\ pc = "enqueue" /\ c \in todo /\ todo' = todo \ {c} /\ req.op \in ReadOps
      /\ UNCHANGED <<disk, pc, req, rc, mem>>
  BY Zenon DEF EnqueueRead, ReadOps
<1>2. c \in req.reads /\ c \in Present /\ task[c].at = "none"
  BY Zenon, <1>1 DEF GoodInv, RequestInv
<1>3. \/ frag[c].status = "not_loaded" /\ frag[c].buf = "null"
      \/ frag[c].status = "persistent" /\ frag[c].buf = "own"
  BY Zenon, <1>2 DEF GoodInv, StateInv, StateOf, Present
<1>4. PICK callback \in {"cleanup", "copy"} :
        /\ task' = [task EXCEPT ![c] = [callback |-> callback, at |-> "load", ret |-> "none"]]
        /\ IF callback = "cleanup"
           THEN frag[c].buf = "null" /\ frag' = [frag EXCEPT ![c].buf = "caller"]
           ELSE frag' = frag
  BY Zenon DEF EnqueueRead, DirectIO
<1>5. task'[c].at = "load" /\ task'[c].callback = callback /\ Others(c)
  BY Zenon, <1>4 DEF GoodInv, AnyInv, ShapeInv, Others
<1>6. /\ frag'[c].status = frag[c].status
      /\ frag'[c].buf = IF callback = "cleanup" THEN "caller" ELSE frag[c].buf
  BY <1>4 DEF GoodInv, AnyInv, ShapeInv, FragFields
<1>7. StateOf(c)'
  BY Zenon, <1>3, <1>4, <1>5, <1>6 DEF StateOf
<1>8. StateInv'
  BY Zenon, <1>5, <1>7, OthersKept DEF GoodInv
<1>9. req.reads \subseteq Present'
  BY <1>5, <1>6 DEF GoodInv, RequestInv, Present, Others
<1>10. RequestInv'
  BY Zenon, <1>1, <1>2, <1>5, <1>9 DEF GoodInv, RequestInv, Others
<1>11. \A d \in req.reads : Pending(d) => Pending(d)'
  BY Zenon, <1>1, <1>5 DEF Pending, Others, GoodInv, RequestInv, Present
<1>12. ProgressInv'
  BY Zenon, <1>1, <1>11, ProgressKept
<1> QED BY Zenon, <1>8, <1>10, <1>12

LEMMA GoodEnd ==
    ASSUME GoodInv,
           \/ \E tiles \in Tilings(req.region) : BeginWriteback(tiles)
           \/ Complete \/ Return
    PROVE  StateInv' /\ RequestInv' /\ ProgressInv'
<1>1. CASE Return
  <2>1. /\ pc' = "idle" /\ req'.region = {} /\ req'.reads = {} /\ req'.op = "read" /\ todo' = {}
        /\ task' = task
    BY Zenon, <1>1 DEF Return, GoodInv, AnyInv, TaskInv
  <2>2. \A c \in Cubes : task[c].at = "none"
    BY <1>1 DEF Return, GoodInv, AnyInv, TaskInv, NoTask
  <2>3. \A c \in Cubes : frag'[c] = frag[c]
    BY Zenon, <1>1, <2>2 DEF Return, GoodInv, StateInv, StateOf
  <2>4. StateInv'
    BY <2>1, <2>3 DEF GoodInv, StateInv, StateOf
  <2>5. RequestInv' /\ ProgressInv'
    BY Zenon, <2>1, <2>2 DEF RequestInv, ProgressInv, ReadOps
  <2> QED BY Zenon, <2>4, <2>5
<1>2. CASE Complete
  <2>1. /\ pc = "enqueue" /\ pc' = "return" /\ todo = {}
        /\ UNCHANGED <<frag, disk, req, todo, task, mem>>
    BY Zenon, <1>2 DEF Complete, Waited
  <2>2. rc = "success" /\ rc' = rc
    BY Zenon, <1>2, <2>1 DEF Complete, GoodInv, RequestInv
  <2>3. StateInv' /\ RequestInv'
    BY <2>1, <2>2 DEF GoodInv, StateInv, StateOf, RequestInv, Present
  <2>4. ProgressInv'
    BY Zenon, <2>1, <2>2 DEF GoodInv, ProgressInv, ElementRead, Pending
  <2> QED BY Zenon, <2>3, <2>4
<1>3. CASE \E tiles \in Tilings(req.region) : BeginWriteback(tiles)
  <2>1. /\ pc = "enqueue" /\ todo = {} /\ req' = [req EXCEPT !.op = "writeback"]
        /\ \A c \in Cubes : task[c] = NoTask
        /\ UNCHANGED <<frag, disk, pc, task, rc, mem>> /\ req.op \in ReadOps
    BY Zenon, <1>3 DEF BeginWriteback, Waited, WritebackDue, GridCellDue, ReadOps
  <2>2. req'.op = "writeback" /\ req'.region = req.region /\ req'.reads = req.reads
    BY Zenon, <2>1 DEF GoodInv, AnyInv, ShapeInv
  <2>3. StateInv'
    BY <2>1 DEF GoodInv, StateInv, StateOf
  <2>4. \A c \in Cubes : task[c].at = "none" /\ task[c].callback = "none"
    BY <2>1 DEF NoTask
  <2>5. RequestInv'
    BY Zenon, <2>1, <2>2, <2>4 DEF GoodInv, RequestInv, Present, ReadOps
  <2>6. \A c \in Cubes : ~Pending(c)
    BY Zenon, <2>1, <2>4 DEF Pending
  <2>7. ASSUME NEW x \in req.region, ElementRead(x) PROVE ElementRead(x)'
    BY Zenon, <2>1, <2>2, <2>6, <2>7 DEF ElementRead, GoodInv, RequestInv, Present
  <2>8. ProgressInv'
    BY Zenon, <2>1, <2>2, <2>7 DEF GoodInv, ProgressInv, ReadOps
  <2> QED BY Zenon, <2>3, <2>5, <2>8
<1> QED BY Zenon, <1>1, <1>2, <1>3

\* A step of a backend thread for a fragment.
LEMMA GoodThread ==
    ASSUME MayFail = {}, GoodInv, NEW c \in Cubes, Load(c) \/ Commit(c) \/ Callback(c)
    PROVE  StateInv' /\ RequestInv' /\ ProgressInv'
<1>1. UNCHANGED <<pc, req, todo>> /\ task[c].at \in {"load", "commit", "callback"}
  BY Zenon DEF Load, Commit, Callback
<1>2. StateOf(c)
  BY Zenon DEF GoodInv, StateInv
<1>3. CASE Load(c)
  <2>1. PICK ret \in {"success", "error"} :
             /\ ret = "error" => "load" \in MayFail
             /\ task' = [task EXCEPT ![c].at = "callback", ![c].ret = ret]
             /\ \/ /\ frag[c].status # "not_loaded" /\ ret = "success" /\ frag' = frag /\ mem' = mem
                \/ LET buf == IF frag[c].buf = "null" THEN "own" ELSE frag[c].buf
                       data == IF ret = "success" THEN disk[c] ELSE Blank
                   IN /\ frag[c].status = "not_loaded"
                      /\ frag'[c].buf = buf
                      /\ frag'[c].status = IF ret = "success" THEN "persistent" ELSE "not_loaded"
                      /\ frag'[c].data = IF buf = "own" THEN data ELSE frag[c].data
                      /\ DOMAIN frag'[c] = FragFields /\ DOMAIN frag' = Cubes
                      /\ \A d \in Cubes \ {c} : frag'[d] = frag[d]
                      /\ mem' = IF buf = "caller" THEN Overlay(mem, c, data) ELSE mem
    BY Zenon, <1>3, LoadEffect DEF GoodInv
  <2>2. ret = "success"
    BY Zenon, <2>1
  <2>3. /\ task[c].at = "load" /\ task'[c].at = "callback" /\ task'[c].ret = "success"
        /\ task'[c].callback = task[c].callback
        /\ \A d \in Cubes \ {c} : task'[d] = task[d]
    <3>1. task[c].at = "load" /\ task' = [task EXCEPT ![c].at = "callback", ![c].ret = "success"]
      BY Zenon, <1>3, <2>1, <2>2 DEF Load
    <3> QED BY Zenon, <3>1 DEF GoodInv, AnyInv, ShapeInv, TaskFields
  <2>4. UNCHANGED <<disk, rc>>
    BY Zenon, <1>3 DEF Load
  <2>5. Others(c)
    BY Zenon, <2>1, <2>3 DEF Others
  <2>6. /\ frag'[c].status = "persistent"
        /\ IF task[c].callback = "cleanup"
           THEN frag'[c].buf = "caller" /\ mem' = Overlay(mem, c, disk[c])
           ELSE task[c].callback = "copy" /\ frag'[c].buf = "own" /\ mem' = mem
    BY Zenon, <1>2, <2>1, <2>2, <2>3 DEF StateOf
  <2>7. StateInv'
    BY Zenon, <2>3, <2>5, <2>6, OthersKept DEF GoodInv, StateOf
  <2>8. c \in req.reads /\ c \notin todo /\ req.op \in ReadOps
    <3>1. task[c].at # "none"
      BY Zenon, <2>3
    <3> QED BY Zenon, <2>3, <3>1 DEF GoodInv, RequestInv
  <2>9. req.reads \subseteq Present'
    BY Zenon, <2>5, <2>6 DEF GoodInv, RequestInv, Present, Others
  <2>10. RequestInv'
    BY Zenon, <1>1, <2>3, <2>4, <2>8, <2>9 DEF GoodInv, RequestInv
  <2>11. ASSUME NEW x \in req.region, ElementRead(x) PROVE ElementRead(x)'
    <3>1. x \in Cells
      BY Zenon DEF GoodInv, RequestInv
    <3>2. CASE task[c].callback = "cleanup"
      <4>1. mem'[x] = IF x \in c THEN disk[c][x] ELSE mem[x]
        BY Zenon, <2>6, <3>1, <3>2 DEF Overlay
      <4>2. \A d \in req.reads : d # c => (Pending(d)' <=> Pending(d))
        BY Zenon, <1>1, <2>3 DEF Pending, GoodInv, RequestInv, Present
      <4> QED BY Zenon, <1>1, <2>4, <2>8, <2>11, <4>1, <4>2 DEF ElementRead
    <3>3. CASE task[c].callback # "cleanup"
      <4>1. mem' = mem /\ task'[c].callback = "copy"
        BY Zenon, <2>3, <2>6, <3>3
      <4>2. \A d \in req.reads : Pending(d) => Pending(d)'
        BY Zenon, <1>1, <2>3, <2>8, <4>1 DEF Pending, GoodInv, RequestInv, Present, ReadOps
      <4> QED BY Zenon, <1>1, <2>4, <2>11, <4>1, <4>2 DEF ElementRead
    <3> QED BY Zenon, <3>2, <3>3
  <2>12. ProgressInv'
    BY Zenon, <1>1, <2>4, <2>11 DEF GoodInv, ProgressInv
  <2> QED BY Zenon, <2>7, <2>10, <2>12
<1>4. CASE Commit(c)
  <2>1. /\ task[c].at = "commit" /\ task' = [task EXCEPT ![c].at = "callback", ![c].ret = "success"]
        /\ frag' = [frag EXCEPT ![c].status = "persistent"]
        /\ disk' = [disk EXCEPT ![c] = Buffer(c)] /\ UNCHANGED <<rc, mem>>
    BY Zenon, <1>4 DEF Commit, Outcomes
  <2>2. /\ task'[c].at = "callback" /\ task'[c].ret = "success"
        /\ task'[c].callback = task[c].callback
        /\ \A d \in Cubes \ {c} : task'[d] = task[d]
    BY Zenon, <2>1 DEF GoodInv, AnyInv, ShapeInv, TaskFields
  <2>3. /\ frag'[c].status = "persistent" /\ frag'[c].buf = frag[c].buf
        /\ \A d \in Cubes \ {c} : frag'[d] = frag[d] /\ disk'[d] = disk[d]
    BY Zenon, <2>1 DEF GoodInv, AnyInv, ShapeInv, FragFields
  <2>4. Others(c)
    BY Zenon, <2>2, <2>3 DEF Others
  <2>5. StateInv'
    BY Zenon, <1>2, <2>1, <2>2, <2>3, <2>4, OthersKept DEF GoodInv, StateOf
  <2>6. req.op \notin ReadOps /\ c \notin req.reads
    <3>1. task[c].at # "none"
      BY Zenon, <2>1
    <3> QED BY Zenon, <2>1, <3>1 DEF GoodInv, RequestInv
  <2>7. req.reads \subseteq Present'
    BY Zenon, <2>3 DEF GoodInv, RequestInv, Present
  <2>8. RequestInv'
    BY Zenon, <1>1, <2>1, <2>2, <2>6, <2>7 DEF GoodInv, RequestInv
  <2>9. \A d \in req.reads : disk'[d] = disk[d] /\ (Pending(d) => Pending(d)')
    BY Zenon, <1>1, <2>2, <2>3, <2>6 DEF Pending, GoodInv, RequestInv, Present
  <2>10. ProgressInv'
    BY Zenon, <1>1, <2>1, <2>9, ProgressKept
  <2> QED BY Zenon, <2>5, <2>8, <2>10
<1>5. CASE Callback(c)
  <2>1. /\ task[c].at = "callback" /\ task[c].ret = "success" /\ task' = [task EXCEPT ![c] = NoTask]
        /\ UNCHANGED <<disk, rc>>
    BY Zenon, <1>2, <1>5 DEF Callback, StateOf
  <2>2. /\ task'[c].at = "none" /\ task'[c].callback = "none"
        /\ \A d \in Cubes \ {c} : task'[d] = task[d]
    BY Zenon, <2>1 DEF GoodInv, AnyInv, ShapeInv, NoTask
  <2>3. CASE task[c].callback = "copy"
    <3>1. frag' = frag /\ mem' = Overlay(mem, c \cap req.region, Buffer(c))
      BY Zenon, <1>5, <2>1, <2>3 DEF Callback
    <3>2. Buffer(c) = disk[c]
      BY Zenon, <1>2, <2>1, <2>3 DEF StateOf, Buffer, GoodInv, AnyInv, CacheCoherent
    <3>3. StateInv'
      BY Zenon, <1>2, <2>1, <2>2, <2>3, <3>1, OthersKept DEF GoodInv, StateOf, Others
    <3>4. c \in req.reads /\ c \notin todo /\ req.op \in ReadOps
      <4>1. task[c].at # "none"
        BY Zenon, <2>1
      <4> QED BY Zenon, <2>1, <2>3, <4>1 DEF GoodInv, RequestInv
    <3>5. RequestInv'
      BY Zenon, <1>1, <2>1, <2>2, <3>1, <3>4 DEF GoodInv, RequestInv, Present
    <3>6. ASSUME NEW x \in req.region, ElementRead(x) PROVE ElementRead(x)'
      <4>1. mem'[x] = IF x \in c THEN disk[c][x] ELSE mem[x]
        BY Zenon, <3>1, <3>2 DEF Overlay, GoodInv, RequestInv
      <4>2. \A d \in req.reads : d # c => (Pending(d)' <=> Pending(d))
        BY Zenon, <1>1, <2>2 DEF Pending, GoodInv, RequestInv, Present
      <4> QED BY Zenon, <1>1, <2>1, <3>4, <3>6, <4>1, <4>2 DEF ElementRead
    <3>7. ProgressInv'
      BY Zenon, <1>1, <2>1, <3>6 DEF GoodInv, ProgressInv
    <3> QED BY Zenon, <3>3, <3>5, <3>7
  <2>4. CASE task[c].callback = "cleanup"
    <3>1. /\ frag'[c].status = "not_loaded" /\ frag'[c].buf = "null" /\ mem' = mem
          /\ \A d \in Cubes \ {c} : frag'[d] = frag[d]
      BY Zenon, <1>5, <2>1, <2>4, CallbackEffect DEF GoodInv
    <3>2. StateInv'
      BY Zenon, <2>2, <3>1, OthersKept DEF GoodInv, StateOf, Others
    <3>3. req.reads \subseteq Present'
      BY Zenon, <3>1 DEF GoodInv, RequestInv, Present
    <3>4. RequestInv'
      BY Zenon, <1>1, <2>1, <2>2, <3>3 DEF GoodInv, RequestInv
    <3>5. \A d \in req.reads : disk'[d] = disk[d] /\ (Pending(d) => Pending(d)')
      BY Zenon, <1>1, <2>1, <2>2, <2>4 DEF Pending, GoodInv, RequestInv, Present
    <3>6. ProgressInv'
      BY Zenon, <1>1, <2>1, <3>1, <3>5, ProgressKept
    <3> QED BY Zenon, <3>2, <3>4, <3>6
  <2> QED BY Zenon, <2>1, <2>3, <2>4 DEF GoodInv, AnyInv, TaskInv
<1> QED BY Zenon, <1>3, <1>4, <1>5

LEMMA GoodPreserved ==
    ASSUME MayFail = {}, GoodInv, [Next]_vars
    PROVE  GoodInv'
<1>1. AnyInv'
  BY Zenon, AnyPreserved DEF GoodInv
<1>2. CASE UNCHANGED vars
  <2>1. StateInv' /\ RequestInv'
    BY <1>2 DEF vars, GoodInv, StateInv, StateOf, RequestInv, Present
  <2>2. ProgressInv'
    BY Zenon, <1>2 DEF vars, GoodInv, ProgressInv, ElementRead, Pending
  <2> QED BY Zenon, <1>1, <2>1, <2>2 DEF GoodInv
<1> QED BY Zenon, <1>1, <1>2, GoodBegin, GoodEnqueueWrite, GoodEnqueueRead, GoodEnd, GoodThread
        DEF Next, GoodInv

(* If the backends do not fail, no fragment keeps a reference to the       *)
(* caller's buffer beyond the call.                                        *)
THEOREM BuffersReturned ==
    ASSUME MayFail = {}
    PROVE  Spec => []NoStaleBuffer
<1>1. GoodInv => NoStaleBuffer
  BY Zenon DEF GoodInv, StateInv, StateOf, NoStaleBuffer
<1>2. GoodInv /\ [Next]_vars => GoodInv'
  BY Zenon, GoodPreserved
<1> QED BY <1>1, <1>2, GoodInit, PTL DEF Spec

(* If the backends do not fail, a read that returns success has put into   *)
(* every element data of a fragment that contains it, or the fill value,   *)
(* whatever the order of loads and copies.                                 *)
THEOREM ReadsCorrect ==
    ASSUME MayFail = {}
    PROVE  Spec => []ReadCorrect
<1>1. GoodInv => ReadCorrect
  <2> SUFFICES ASSUME GoodInv, pc = "return", rc = "success", req.op # "write", NEW x \in req.region
               PROVE  mem[x] \in IF \E c \in req.reads : x \in c
                                  THEN {disk[c][x] : c \in {d \in req.reads : x \in d}}
                                  ELSE {Fill}
    BY Zenon DEF ReadCorrect
  <2>1. ElementRead(x)
    BY Zenon DEF GoodInv, ProgressInv
  <2>2. \A c \in req.reads : ~Pending(c)
    BY DEF GoodInv, RequestInv, AnyInv, TaskInv, Pending, NoTask, Present
  <2> QED BY Zenon, <2>1, <2>2 DEF ElementRead
<1>2. GoodInv /\ [Next]_vars => GoodInv'
  BY Zenon, GoodPreserved
<1> QED BY <1>1, <1>2, GoodInit, PTL DEF Spec

-----------------------------------------------------------------------------
(***************************************************************************)
(* The scheduler implements the write-once store, for any dataset and any  *)
(* hypercubes, as long as the backends do not fail and grids are not read. *)
(* (Reading a grid cell that has gaps stores the fill values with it.)     *)
(***************************************************************************)
\* What fragments and the caller's buffer hold.
DataInv ==
    /\ \A c \in Cubes : frag[c].status \in {"not_loaded", "persistent"} =>
          \A x \in c : disk[c][x] \in Values
    /\ pc # "idle" /\ req.op = "write" =>
          \E v \in Values : \A x \in req.region : mem[x] = v
    /\ pc # "idle" /\ rc = "success" /\ req.op # "write" =>
          \A x \in req.region : (\A c \in req.reads : x \notin c) =>
             HasFill /\ req.op = "read" /\ \A c \in Present : x \notin c
    /\ req.op = "read" /\ req.complete => \A x \in req.region : \E c \in req.reads : x \in c
    /\ req.op # "read_grid"
    /\ pc # "idle" => req.region \in Cubes

StoreInv == GoodInv /\ DataInv

\* A fragment that a read uses has been stored.
LEMMA ReadsStored ==
    ASSUME StoreInv, NEW d \in req.reads
    PROVE  d \in Cubes /\ frag[d].status \in {"not_loaded", "persistent"} /\ \A x \in d : disk[d][x] \in Values
<1>1. d \in Cubes /\ frag[d].status # "absent"
  BY Zenon DEF StoreInv, GoodInv, RequestInv, Present
<1>2. task[d].at # "commit"
  BY Zenon, <1>1 DEF StoreInv, GoodInv, RequestInv
<1>3. frag[d].status \in {"not_loaded", "persistent"}
  BY Zenon, <1>1, <1>2 DEF StoreInv, GoodInv, StateInv, StateOf
<1> QED BY Zenon, <1>1, <1>3 DEF StoreInv, DataInv

\* The data that is being written: one value, or copies of what is stored.
LEMMA WriteData ==
    ASSUME StoreInv, pc = "enqueue", req.op \in {"write", "writeback"}
    PROVE  /\ \A x \in req.region : mem[x] \in Values
           /\ req.op = "write" => \E v \in Values : \A x \in req.region : mem[x] = v
           /\ req.op = "writeback" =>
                \A x \in req.region : \E d \in req.reads : x \in d /\ mem[x] = disk[d][x]
<1>1. req.op = "write" => \E v \in Values : \A x \in req.region : mem[x] = v
  BY Zenon DEF StoreInv, DataInv
<1>2. ASSUME req.op = "writeback", NEW x \in req.region
      PROVE  \E d \in req.reads : x \in d /\ mem[x] = disk[d][x]
  <2>1. rc = "success" /\ ElementRead(x)
    BY Zenon, <1>2 DEF StoreInv, GoodInv, RequestInv, ProgressInv
  <2>2. PICK c \in req.reads : x \in c
    BY Zenon, <1>2, <2>1 DEF StoreInv, DataInv
  <2>3. ~Pending(c)
    BY Zenon, <1>2 DEF Pending
  <2> QED BY Zenon, <2>1, <2>2, <2>3 DEF ElementRead
<1> QED BY Zenon, <1>1, <1>2, ReadsStored

LEMMA StoreInit == Init => StoreInv
<1> SUFFICES ASSUME Init PROVE StoreInv
  BY Zenon
<1>1. \A c \in Cubes : frag[c].status = "absent"
  BY Zenon DEF Init, Absent
<1>2. DataInv
  BY Zenon, <1>1 DEF Init, DataInv
<1> QED BY Zenon, <1>2, GoodInit DEF StoreInv

\* A new request.
LEMMA DataBegin ==
    ASSUME StoreInv, ReadCalls \subseteq {"read"},
           \/ \E region \in Cubes, v \in Values, packed \in BOOLEAN :
                \E tiles \in Tilings(region) : BeginWrite(region, tiles, v, packed)
           \/ \E op \in ReadCalls, region \in Cubes, packed \in BOOLEAN :
                BeginRead(op, region, packed)
    PROVE  DataInv'
<1>1. pc = "idle" /\ UNCHANGED <<frag, disk, task>>
  BY Zenon DEF BeginWrite, BeginRead
<1>2. ASSUME NEW region \in Cubes, NEW v \in Values, NEW packed \in BOOLEAN,
             NEW tiles \in Tilings(region), BeginWrite(region, tiles, v, packed)
      PROVE  DataInv'
  <2>1. req'.op = "write" /\ req'.region = region
    BY Zenon, <1>2 DEF BeginWrite
  <2>2. \A x \in region : mem'[x] = v
    BY Zenon, <1>2, SchedulerAssumption DEF BeginWrite
  <2> QED BY Zenon, <1>1, <2>1, <2>2 DEF DataInv, StoreInv
<1>3. ASSUME NEW op \in ReadCalls, NEW region \in Cubes, NEW packed \in BOOLEAN,
             BeginRead(op, region, packed)
      PROVE  DataInv'
  <2> DEFINE uncovered(reads) == region \ UNION reads
  <2>1. PICK reads \in FragmentsCoveringRegion(op, region) :
          /\ req' = [op |-> op, region |-> region, packed |-> packed, reads |-> reads,
                     complete |-> uncovered(reads) = {}]
          /\ rc' = "success" => uncovered(reads) = {} \/ HasFill
    BY Zenon, <1>3 DEF BeginRead
  <2>2. op = "read" /\ req'.op = "read" /\ req'.region = region /\ req'.reads = reads
    BY Zenon, <2>1
  <2>3. req'.complete => \A x \in region : \E c \in reads : x \in c
    BY Zenon, <2>1
  <2>4. ASSUME NEW x \in region, \A c \in reads : x \notin c
        PROVE  \A c \in Present : x \notin c
    BY Zenon, <2>4 DEF FragmentsCoveringRegion, MakeSetCoveringRegion, GridSets
  <2>5. Present' = Present
    BY Zenon, <1>1 DEF Present
  <2> QED BY Zenon, <1>1, <2>1, <2>2, <2>3, <2>4, <2>5 DEF DataInv, StoreInv
<1> QED BY Zenon, <1>2, <1>3

\* The enqueue loops and the end of a request.
LEMMA DataUser ==
    ASSUME StoreInv,
           \/ \E c \in Cubes : EnqueueWrite(c) \/ EnqueueRead(c)
           \/ \E tiles \in Tilings(req.region) : BeginWriteback(tiles)
           \/ Complete \/ Return
    PROVE  DataInv'
<1>1. ASSUME NEW c \in Cubes, EnqueueWrite(c) PROVE DataInv'
  <2>1. req.op \in {"write", "writeback"} /\ UNCHANGED <<disk, pc, req, rc, mem>> /\ pc = "enqueue"
    BY Zenon, <1>1 DEF EnqueueWrite
  <2>2. \A d \in Cubes : frag'[d] = frag[d] \/ frag'[d].status = "dirty"
    BY <1>1 DEF EnqueueWrite, StoreInv, GoodInv, AnyInv, ShapeInv
  <2>3. rc = "success" /\ req.op # "write" => \A x \in req.region : \E d \in req.reads : x \in d
    BY Zenon, <2>1, WriteData
  <2> QED BY Zenon, <2>1, <2>2, <2>3 DEF StoreInv, DataInv
<1>2. ASSUME NEW c \in Cubes, EnqueueRead(c) PROVE DataInv'
  <2>1. UNCHANGED <<disk, pc, req, rc, mem>>
    BY Zenon, <1>2 DEF EnqueueRead
  <2>2. \A d \in Cubes : frag'[d].status = frag[d].status
    BY <1>2 DEF EnqueueRead, StoreInv, GoodInv, AnyInv, ShapeInv, FragFields
  <2>3. Present' = Present
    BY Zenon, <2>2 DEF Present
  <2> QED BY Zenon, <2>1, <2>2, <2>3 DEF StoreInv, DataInv
<1>3. CASE \E tiles \in Tilings(req.region) : BeginWriteback(tiles)
  <2>1. /\ WritebackDue \/ GridCellDue
        /\ req' = [req EXCEPT !.op = "writeback"] /\ UNCHANGED <<frag, disk, pc, task, rc, mem>>
    BY Zenon, <1>3 DEF BeginWriteback
  <2>2. req.op = "read" /\ req.complete
    BY Zenon, <2>1 DEF WritebackDue, GridCellDue, StoreInv, DataInv
  <2>3. req'.op = "writeback" /\ req'.region = req.region /\ req'.reads = req.reads
    BY Zenon, <2>1 DEF StoreInv, GoodInv, AnyInv, ShapeInv
  <2>4. \A x \in req.region : \E c \in req.reads : x \in c
    BY Zenon, <2>2 DEF StoreInv, DataInv
  <2> QED BY Zenon, <2>1, <2>3, <2>4 DEF StoreInv, DataInv
<1>4. CASE Complete
  <2>1. /\ pc = "enqueue" /\ UNCHANGED <<frag, disk, req, todo, task, mem>>
        /\ rc = "success" /\ rc' = rc
    BY Zenon, <1>4 DEF Complete, Waited, StoreInv, GoodInv, RequestInv
  <2> QED BY Zenon, <2>1 DEF StoreInv, DataInv, Present
<1>5. CASE Return
  <2>1. pc' = "idle" /\ disk' = disk /\ req'.op = "read" /\ req'.region = {}
    BY Zenon, <1>5 DEF Return
  <2>2. \A c \in Cubes : frag'[c].status = frag[c].status
    BY Zenon, <1>5 DEF Return, StoreInv, GoodInv, AnyInv, ShapeInv, FragFields
  <2> QED BY Zenon, <2>1, <2>2 DEF StoreInv, DataInv
<1> QED BY Zenon, <1>1, <1>2, <1>3, <1>4, <1>5

\* The backend threads.
LEMMA DataThread ==
    ASSUME StoreInv, MayFail = {}, NEW c \in Cubes, Load(c) \/ Commit(c) \/ Callback(c)
    PROVE  DataInv'
<1>1. UNCHANGED <<pc, req>> /\ task[c].at \in {"load", "commit", "callback"}
  BY Zenon DEF Load, Commit, Callback
<1>2. StateOf(c) /\ pc = "enqueue" /\ rc = "success"
  BY Zenon, <1>1, TaskRuns DEF StoreInv, GoodInv, StateInv, RequestInv
<1>3. rc' = rc
  BY Zenon, <1>2 DEF Load, Commit, Callback, StateOf
<1>4. req.op = "write" => mem' = mem
  <2>1. CASE Load(c)
    BY Zenon, <2>1 DEF Load, StoreInv, GoodInv, RequestInv, ReadOps
  <2>2. CASE Commit(c)
    BY Zenon, <2>2 DEF Commit
  <2>3. CASE Callback(c)
    BY Zenon, <2>3, CallbackEffect DEF StoreInv, GoodInv, RequestInv, ReadOps
  <2> QED BY Zenon, <2>1, <2>2, <2>3
<1>5. \A d \in Cubes \ {c} : frag'[d] = frag[d] /\ disk'[d] = disk[d]
  <2>1. CASE Load(c)
    BY Zenon, <2>1, LoadEffect DEF Load, StoreInv, GoodInv
  <2>2. CASE Commit(c)
    BY Zenon, <2>2 DEF Commit, StoreInv, GoodInv, AnyInv, ShapeInv
  <2>3. CASE Callback(c)
    BY Zenon, <2>3, CallbackEffect DEF Callback, StoreInv, GoodInv
  <2> QED BY Zenon, <2>1, <2>2, <2>3
<1>6. /\ frag[c].status # "absent"
      /\ frag'[c].status \in {"not_loaded", "persistent"} /\ \A x \in c : disk'[c][x] \in Values
  <2>1. CASE Load(c)
    <3>1. disk' = disk /\ frag[c].status \in {"not_loaded", "persistent"}
      BY Zenon, <1>2, <2>1 DEF Load, StateOf
    <3>2. frag'[c].status \in {"not_loaded", "persistent"}
      BY Zenon, <2>1, <3>1, LoadEffect DEF StoreInv, GoodInv
    <3> QED BY Zenon, <3>1, <3>2 DEF StoreInv, DataInv
  <2>2. CASE Commit(c)
    <3>1. /\ frag[c].status = "dirty" /\ frag[c].buf = "caller" /\ req.op \in {"write", "writeback"}
          /\ c \subseteq req.region
      BY Zenon, <1>2, <2>2 DEF Commit, StateOf, StoreInv, GoodInv, RequestInv, ReadOps, AnyInv, BorrowInv, ShapeInv
    <3>2. frag' = [frag EXCEPT ![c].status = "persistent"] /\ disk' = [disk EXCEPT ![c] = Buffer(c)]
      BY Zenon, <2>2 DEF Commit, Outcomes
    <3>3. Buffer(c) = Cut(mem, c)
      BY Zenon, <3>1 DEF Buffer
    <3>4. disk'[c] = Cut(mem, c) /\ frag'[c].status = "persistent"
      BY Zenon, <3>2, <3>3 DEF StoreInv, GoodInv, AnyInv, ShapeInv, FragFields
    <3>5. \A x \in c : mem[x] \in Values /\ x \in Cells
      BY Zenon, <1>2, <3>1, WriteData DEF StoreInv, GoodInv, RequestInv
    <3> QED BY Zenon, <3>1, <3>4, <3>5 DEF Cut
  <2>3. CASE Callback(c)
    <3>1. disk' = disk /\ frag[c].status = "persistent"
      BY Zenon, <1>2, <2>3 DEF Callback, StateOf
    <3>2. frag'[c].status \in {"not_loaded", "persistent"}
      BY Zenon, <2>3, <3>1, CallbackEffect DEF StoreInv, GoodInv
    <3> QED BY Zenon, <3>1, <3>2 DEF StoreInv, DataInv
  <2> QED BY Zenon, <2>1, <2>2, <2>3
<1>7. Present' = Present
  BY Zenon, <1>5, <1>6 DEF Present
<1> QED BY <1>1, <1>2, <1>3, <1>4, <1>5, <1>6, <1>7 DEF StoreInv, DataInv

LEMMA StorePreserved ==
    ASSUME MayFail = {}, ReadCalls \subseteq {"read"}, StoreInv, [Next]_vars
    PROVE  StoreInv'
<1>1. GoodInv'
  BY Zenon, GoodPreserved DEF StoreInv
<1>2. CASE UNCHANGED vars
  BY Zenon, <1>1, <1>2 DEF vars, StoreInv, DataInv, Present
<1> QED BY Zenon, <1>1, <1>2, DataBegin, DataUser, DataThread DEF Next, StoreInv

-----------------------------------------------------------------------------
(* The refinement.                                                         *)

\* What the table holds for a fragment: nothing for one that does not exist, and
\* something for one that does.
LEMMA TableOf ==
    ASSUME StoreInv, NEW c \in Cubes
    PROVE  /\ frag[c].status # "dirty" => StoreTable[c] = disk[c]
           /\ frag[c].status = "dirty" => StoreTable[c] = Cut(mem, c) /\ task[c].at = "commit"
           /\ frag[c].status = "absent" => StoreTable[c] = Blank
           /\ frag[c].status \in {"not_loaded", "persistent"} => StoreTable[c] # Blank
<1>1. /\ frag[c].status # "dirty" => StoreTable[c] = disk[c]
      /\ frag[c].status = "dirty" => StoreTable[c] = Buffer(c)
  BY Zenon DEF StoreTable
<1>2. frag[c].status = "dirty" => frag[c].buf = "caller" /\ task[c].at = "commit"
  BY Zenon DEF StoreInv, GoodInv, StateInv, StateOf
<1>3. frag[c].status = "dirty" => Buffer(c) = Cut(mem, c)
  BY Zenon, <1>2 DEF Buffer
<1>4. frag[c].status = "absent" => disk[c] = Blank
  BY Zenon DEF StoreInv, GoodInv, AnyInv, CommitInv
<1>5. ASSUME frag[c].status \in {"not_loaded", "persistent"} PROVE disk[c] # Blank
  <2>1. PICK x \in c : x \in Cells
    BY SchedulerAssumption
  <2>2. disk[c][x] \in Values /\ Junk \notin Values
    BY Zenon, <1>5, SchedulerAssumption DEF StoreInv, DataInv
  <2> QED BY Zenon, <2>1, <2>2 DEF Blank
<1> QED BY Zenon, <1>1, <1>2, <1>3, <1>4, <1>5

\* A step that changes no fragment's data is none of the store's.
LEMMA TableKept ==
    ASSUME StoreInv, StoreInv',
           \A c \in Cubes : /\ frag[c].status # "dirty" => frag'[c].status # "dirty" /\ disk'[c] = disk[c]
                            /\ frag[c].status = "dirty" =>
                                 mem' = mem /\ (frag'[c].status # "dirty" => disk'[c] = Cut(mem, c))
    PROVE  StoreTable' = StoreTable
<1>1. \A c \in Cubes : StoreTable'[c] = StoreTable[c]
  <2> SUFFICES ASSUME NEW c \in Cubes PROVE StoreTable'[c] = StoreTable[c]
    BY Zenon
  <2>1. /\ frag'[c].status # "dirty" => StoreTable'[c] = disk'[c]
        /\ frag'[c].status = "dirty" => StoreTable'[c] = Cut(mem', c)
    <3>1. frag'[c].status = "dirty" => frag'[c].buf = "caller"
      BY Zenon DEF StoreInv, GoodInv, StateInv, StateOf
    <3>2. frag'[c].status = "dirty" => Buffer(c)' = Cut(mem', c)
      BY Zenon, <3>1 DEF Buffer, Cut
    <3> QED BY Zenon, <3>2 DEF StoreTable
  <2> QED BY <2>1, TableOf
<1> QED BY Zenon, <1>1 DEF StoreTable

\* Nothing waits for a commit while the thread is idle, reads or returns.
LEMMA NothingDirty ==
    ASSUME StoreInv, pc # "enqueue" \/ req.op \in ReadOps
    PROVE  \A c \in Cubes : frag[c].status # "dirty"
<1> SUFFICES ASSUME NEW c \in Cubes, frag[c].status = "dirty" PROVE FALSE
  BY Zenon
<1>1. task[c].at = "commit"
  BY Zenon, TableOf
<1>2. task[c].at # "none"
  BY Zenon, <1>1
<1>3. CASE pc # "enqueue"
  BY <1>2, <1>3 DEF StoreInv, GoodInv, AnyInv, TaskInv, NoTask
<1>4. CASE req.op \in ReadOps
  BY Zenon, <1>1, <1>2, <1>4 DEF StoreInv, GoodInv, RequestInv
<1> QED BY Zenon, <1>3, <1>4

LEMMA StepBegin ==
    ASSUME StoreInv, StoreInv',
           \/ \E region \in Cubes, v \in Values, packed \in BOOLEAN :
                \E tiles \in Tilings(region) : BeginWrite(region, tiles, v, packed)
           \/ \E op \in ReadCalls, region \in Cubes, packed \in BOOLEAN :
                BeginRead(op, region, packed)
    PROVE  UNCHANGED <<StoreTable, StoreAnswer>>
<1>1. pc = "idle" /\ UNCHANGED <<frag, disk, task>>
  BY Zenon DEF BeginWrite, BeginRead
<1>2. StoreTable' = StoreTable
  BY Zenon, <1>1, NothingDirty, TableKept
<1>3. pc' # "return" \/ rc' # "success"
  BY Zenon DEF BeginWrite, BeginRead
<1> QED BY Zenon, <1>1, <1>2, <1>3 DEF StoreAnswer

LEMMA StepEnqueueWrite ==
    ASSUME StoreInv, StoreInv', NEW c \in Cubes, EnqueueWrite(c)
    PROVE  UNCHANGED <<StoreTable, StoreAnswer>> \/ Store!Put(c)
<1>1. /\ pc = "enqueue" /\ c \in todo /\ req.op \in {"write", "writeback"}
      /\ UNCHANGED <<disk, pc, req, rc, mem>>
  BY Zenon DEF EnqueueWrite
<1>2. StoreAnswer' = StoreAnswer
  BY Zenon, <1>1 DEF StoreAnswer
<1>3. CASE UNCHANGED frag
  BY Zenon, <1>1, <1>2, <1>3 DEF StoreTable, Buffer
<1>4. CASE c \notin Present
  <2>1. PICK packed \in OnePiece(c) :
          frag' = [frag EXCEPT ![c] = [status |-> "dirty", buf |-> "caller",
                                       packed |-> packed, data |-> Blank]]
    BY Zenon, <1>4 DEF EnqueueWrite
  <2>2. /\ frag'[c].status = "dirty" /\ frag'[c].buf = "caller"
        /\ \A d \in Cubes \ {c} : frag'[d] = frag[d]
    BY Zenon, <2>1 DEF StoreInv, GoodInv, AnyInv, ShapeInv
  <2>3. StoreTable[c] = Blank
    BY Zenon, <1>4, TableOf DEF Present
  <2>4. StoreTable' = [StoreTable EXCEPT ![c] = Cut(mem, c)]
    <3>1. StoreTable'[c] = Cut(mem, c)
      BY Zenon, <1>1, <2>2 DEF StoreTable, Buffer
    <3>2. \A d \in Cubes \ {c} : StoreTable'[d] = StoreTable[d]
      BY Zenon, <1>1, <2>2 DEF StoreTable, Buffer
    <3> QED BY Zenon, <3>1, <3>2 DEF StoreTable
  <2>5. c \subseteq req.region /\ c \subseteq Cells
    BY Zenon, <1>1, SchedulerAssumption DEF StoreInv, GoodInv, AnyInv, TaskInv
  <2>6. CASE req.op = "write"
    <3>1. PICK v \in Values : \A x \in req.region : mem[x] = v
      BY Zenon, <1>1, <2>6, WriteData
    <3>2. Cut(mem, c) = [x \in Cells |-> IF x \in c THEN v ELSE Junk]
      BY Zenon, <2>5, <3>1 DEF Cut
    <3> QED BY Zenon, <1>2, <2>3, <2>4, <3>2 DEF Store!Put, Store!Nothing, Blank
  <2>7. CASE req.op = "writeback"
    <3> DEFINE data == [x \in c |-> mem[x]]
    <3>1. ASSUME NEW x \in c PROVE mem[x] \in Store!Candidates(x) /\ mem[x] # Fill
      <4>1. PICK d \in req.reads : x \in d /\ mem[x] = disk[d][x]
        BY Zenon, <1>1, <2>5, <2>7, WriteData
      <4>2. d \in Cubes /\ frag[d].status \in {"not_loaded", "persistent"} /\ disk[d][x] \in Values
        BY Zenon, <4>1, ReadsStored
      <4>3. StoreTable[d] = disk[d] /\ StoreTable[d] # Blank
        BY Zenon, <4>2, TableOf
      <4>4. mem[x] # Fill
        BY Zenon, <4>1, <4>2, SchedulerAssumption
      <4> QED BY Zenon, <4>1, <4>2, <4>3, <4>4 DEF Store!Candidates, Store!Nothing, Blank
    <3>2. data \in [c -> (UNION {Store!Candidates(x) : x \in c}) \ {Fill}]
      BY Zenon, <3>1
    <3>3. \A x \in c : data[x] \in Store!Candidates(x)
      BY Zenon, <3>1
    <3>4. Cut(mem, c) = [x \in Cells |-> IF x \in c THEN data[x] ELSE Junk]
      BY Zenon DEF Cut
    <3> HIDE DEF data
    <3> QED BY Zenon, <1>2, <2>3, <2>4, <3>2, <3>3, <3>4 DEF Store!Put, Store!Nothing, Blank
  <2> QED BY Zenon, <1>1, <2>6, <2>7
<1> QED BY Zenon, <1>3, <1>4 DEF EnqueueWrite

LEMMA StepUser ==
    ASSUME StoreInv, StoreInv',
           \/ \E c \in Cubes : EnqueueRead(c)
           \/ \E tiles \in Tilings(req.region) : BeginWriteback(tiles)
    PROVE  UNCHANGED <<StoreTable, StoreAnswer>>
<1>1. pc = "enqueue" /\ UNCHANGED <<disk, pc, rc, mem>> /\ req.op \in ReadOps
  BY Zenon DEF EnqueueRead, BeginWriteback, Waited, WritebackDue, GridCellDue, ReadOps
<1>2. \A c \in Cubes : frag'[c].status = frag[c].status
  BY DEF EnqueueRead, BeginWriteback, StoreInv, GoodInv, AnyInv, ShapeInv, FragFields
<1>3. StoreTable' = StoreTable
  BY Zenon, <1>1, <1>2, NothingDirty, TableKept
<1> QED BY Zenon, <1>1, <1>3 DEF StoreAnswer

\* The load of a fragment changes no stored data, its commit stores what the
\* caller's buffer holds for it, and a callback only drops a stored fragment's
\* buffer.
LEMMA StepThread ==
    ASSUME StoreInv, StoreInv', MayFail = {}, NEW c \in Cubes, Load(c) \/ Commit(c) \/ Callback(c)
    PROVE  UNCHANGED <<StoreTable, StoreAnswer>>
<1>1. UNCHANGED <<pc, req>> /\ task[c].at \in {"load", "commit", "callback"}
  BY Zenon DEF Load, Commit, Callback
<1>2. StateOf(c) /\ pc = "enqueue"
  BY Zenon, <1>1, TaskRuns DEF StoreInv, GoodInv, StateInv
<1>3. StoreTable' = StoreTable
  <2>1. CASE Load(c)
    <3>1. disk' = disk /\ req.op \in ReadOps
      BY Zenon, <2>1 DEF Load, StoreInv, GoodInv, RequestInv
    <3>2. \A d \in Cubes : frag[d].status # "dirty"
      BY Zenon, <3>1, NothingDirty
    <3>3. \A d \in Cubes : frag'[d].status # "dirty"
      BY Zenon, <2>1, <3>2, LoadEffect DEF StoreInv, GoodInv
    <3> QED BY Zenon, <3>1, <3>2, <3>3, TableKept
  <2>2. CASE Commit(c)
    <3>1. frag[c].status = "dirty" /\ frag[c].buf = "caller"
      BY Zenon, <1>2, <2>2 DEF Commit, StateOf
    <3>2. /\ frag' = [frag EXCEPT ![c].status = "persistent"]
          /\ disk' = [disk EXCEPT ![c] = Buffer(c)] /\ mem' = mem
      BY Zenon, <2>2 DEF Commit, Outcomes
    <3>3. Buffer(c) = Cut(mem, c)
      BY Zenon, <3>1 DEF Buffer
    <3>4. /\ disk'[c] = Cut(mem, c) /\ frag'[c].status = "persistent"
          /\ \A d \in Cubes \ {c} : disk'[d] = disk[d] /\ frag'[d] = frag[d]
      BY <3>2, <3>3 DEF StoreInv, GoodInv, AnyInv, ShapeInv, FragFields
    <3> QED BY Zenon, <3>1, <3>2, <3>4, TableKept
  <2>3. CASE Callback(c)
    <3>1. disk' = disk /\ frag[c].status = "persistent"
      BY Zenon, <1>2, <2>3 DEF Callback, StateOf
    <3>2. /\ frag'[c].status # "dirty"
          /\ \A d \in Cubes \ {c} : frag'[d] = frag[d]
      BY Zenon, <2>3, <3>1, CallbackEffect DEF StoreInv, GoodInv
    <3>3. mem' = mem \/ req.op \in ReadOps
      BY Zenon, <2>3, CallbackEffect DEF StoreInv, GoodInv, RequestInv
    <3>4. \A d \in Cubes : frag[d].status = "dirty" => mem' = mem
      BY Zenon, <3>3, NothingDirty
    <3> QED BY Zenon, <3>1, <3>2, <3>4, TableKept
  <2> QED BY Zenon, <2>1, <2>2, <2>3
<1> QED BY Zenon, <1>1, <1>2, <1>3 DEF StoreAnswer

\* A read that is complete answers every element with stored data or the fill
\* value.
LEMMA StepComplete ==
    ASSUME StoreInv, StoreInv', Complete
    PROVE  UNCHANGED <<StoreTable, StoreAnswer>> \/ Store!Answer(req.region)
<1>1. /\ pc = "enqueue" /\ pc' = "return" /\ todo = {} /\ \A c \in Cubes : task[c].at = "none"
      /\ UNCHANGED <<frag, disk, req, task, mem>>
  BY DEF Complete, Waited, NoTask
<1>2. rc = "success" /\ rc' = "success"
  BY Zenon, <1>1 DEF StoreInv, GoodInv, RequestInv, Complete
<1>3. StoreTable' = StoreTable
  BY Zenon, <1>1, TableOf, TableKept
<1>4. StoreAnswer = Store!NoAnswer
  BY Zenon, <1>1 DEF StoreAnswer, Store!NoAnswer, Store!Nothing, Blank
<1>5. CASE req.op = "write"
  BY Zenon, <1>1, <1>3, <1>5 DEF StoreAnswer
<1>6. CASE req.op # "write"
  <2>1. StoreAnswer' = [region |-> req.region, data |-> mem]
    BY Zenon, <1>1, <1>2, <1>6 DEF StoreAnswer
  <2>2. ASSUME NEW x \in req.region PROVE mem[x] \in Store!Candidates(x)
    <3>1. ElementRead(x)
      BY Zenon, <1>1, <1>2, <1>6 DEF StoreInv, GoodInv, ProgressInv
    <3>2. CASE \E c \in req.reads : x \in c
      <4>1. PICK c \in req.reads : x \in c
        BY Zenon, <3>2
      <4>2. ~Pending(c)
        BY Zenon, <1>1, ReadsStored DEF Pending
      <4>3. PICK d \in req.reads : x \in d /\ mem[x] = disk[d][x]
        BY Zenon, <3>1, <4>1, <4>2 DEF ElementRead
      <4>4. d \in Cubes /\ StoreTable[d] = disk[d] /\ StoreTable[d] # Blank
        BY Zenon, ReadsStored, TableOf
      <4> QED BY Zenon, <4>3, <4>4 DEF Store!Candidates, Store!Nothing, Blank
    <3>3. CASE \A c \in req.reads : x \notin c
      <4>1. HasFill /\ mem[x] = Fill /\ \A c \in Present : x \notin c
        BY Zenon, <1>1, <1>2, <1>6, <3>1, <3>3 DEF ElementRead, StoreInv, DataInv
      <4>2. \A c \in Cubes : x \in c => StoreTable[c] = Blank
        BY Zenon, <4>1, TableOf DEF Present
      <4> QED BY Zenon, <4>1, <4>2 DEF Store!Candidates, Store!Nothing, Blank
    <3> QED BY Zenon, <3>2, <3>3
  <2> QED BY Zenon, <1>3, <1>4, <2>1, <2>2 DEF Store!Answer
<1> QED BY Zenon, <1>5, <1>6

LEMMA StepReturn ==
    ASSUME StoreInv, StoreInv', Return
    PROVE  UNCHANGED <<StoreTable, StoreAnswer>> \/ Store!Done
<1>1. pc = "return" /\ pc' = "idle" /\ disk' = disk
  BY Zenon DEF Return
<1>2. \A c \in Cubes : frag'[c].status = frag[c].status
  BY DEF Return, StoreInv, GoodInv, AnyInv, ShapeInv, FragFields
<1>3. StoreTable' = StoreTable
  BY Zenon, <1>1, <1>2, NothingDirty, TableKept
<1>4. StoreAnswer' = Store!NoAnswer
  BY Zenon, <1>1 DEF StoreAnswer, Store!NoAnswer, Store!Nothing, Blank
<1> QED BY Zenon, <1>3, <1>4 DEF Store!Done

LEMMA StoreSteps ==
    ASSUME StoreInv, StoreInv', MayFail = {}, [Next]_vars
    PROVE  [Store!Next]_<<StoreTable, StoreAnswer>>
<1>1. CASE UNCHANGED vars
  BY Zenon, <1>1 DEF vars, StoreTable, StoreAnswer, Buffer, Cut
<1>2. ASSUME NEW c \in Cubes, EnqueueWrite(c)
      PROVE  [Store!Next]_<<StoreTable, StoreAnswer>>
  BY Zenon, <1>2, StepEnqueueWrite DEF Store!Next
<1>3. CASE Complete
  <2>1. req.region \in Cubes
    BY Zenon, <1>3 DEF Complete, Waited, StoreInv, DataInv
  <2> QED BY Zenon, <1>3, <2>1, StepComplete DEF Store!Next
<1>4. CASE Return
  BY Zenon, <1>4, StepReturn DEF Store!Next
<1> QED BY Zenon, <1>1, <1>2, <1>3, <1>4, StepBegin, StepUser, StepThread DEF Next

\* The data path of a dataset, with its caches, direct I/O, overlapping fragments
\* and write-back (esdm-scheduler.c), implements the write-once store, whatever the
\* dataset and the hypercubes of its requests, if no backend operation fails and
\* the application does not read through grids.
THEOREM SchedulerImplementsStore ==
    ASSUME MayFail = {}, ReadCalls \subseteq {"read"}
    PROVE  Spec => ImplementsStore
<1>1. Init => StoreInv
  BY Zenon, StoreInit
<1>2. StoreInv /\ [Next]_vars => StoreInv'
  BY Zenon, StorePreserved
<1>3. Init => Store!Init
  <2>1. Init => \A c \in Cubes : StoreTable[c] = Blank
    BY DEF Init, StoreTable, Absent
  <2> QED BY Zenon, <2>1 DEF Init, StoreTable, StoreAnswer, Store!Init, Store!Nothing, Store!NoAnswer, Blank
<1>4. StoreInv /\ StoreInv' /\ [Next]_vars => [Store!Next]_<<StoreTable, StoreAnswer>>
  BY Zenon, StoreSteps
<1> QED BY <1>1, <1>2, <1>3, <1>4, PTL DEF Spec, ImplementsStore, Store!Spec
=============================================================================
