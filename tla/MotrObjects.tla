---------------------------- MODULE MotrObjects ----------------------------
(***************************************************************************)
(* The Motr data backend (backends-data/Motr/client.c).  All fragments of  *)
(* a dataset are appended to one Motr object.  Two persistent indices keep *)
(* the object of a dataset and the tail (last_pos) of an object; a session *)
(* (one process between init and fini) caches both in con_map and writes   *)
(* the tails back only in fini.                                            *)
(*                                                                         *)
(* A session runs one fragment operation at a time (ebm_lock); operations  *)
(* of different sessions interleave between calls of the Motr client.      *)
(* Positions and sizes are counted in blocks of 4 KiB; what a block holds  *)
(* is the fragment and the version of its data.                            *)
(***************************************************************************)
EXTENDS Naturals, Fragments

CONSTANTS Procs,       \* processes that use the backend
          Datasets,    \* "container/dataset" strings
          DatasetOf,   \* the dataset of a fragment
          SizeOf,      \* blocks of a fragment; 0: not a multiple of a block
          Objs,        \* object ids that next_gid can yield, numbers
          MaxBlock     \* bound: blocks of an object

VARIABLES indices,     \* the indices that exist, subset of {"name", "tail"}
          nameIdx,     \* index_cdname_to_object
          tailIdx,     \* index_object_last_pos
          blocks,      \* contents of the objects that exist, None for others
          running,     \* processes whose client is initialised
          conMap,      \* con_map of each process
          act,         \* what each process is doing
          frag,        \* fragment: its id and the version stored last
          tainted      \* history: datasets whose tail or object was confused

motrVars == <<indices, nameIdx, tailIdx, blocks, running, conMap, act, frag, tainted>>

Idle == [pc |-> "idle"]
Working(p) == "f" \in DOMAIN act[p]
Formatting == \E p \in Procs : act[p].pc \in {"delname", "deltail", "mkname", "mktail"}
D(p) == DatasetOf[act[p].f]
Pair(p) == conMap[p][D(p)]
Continue(p, pc) == act' = [act EXCEPT ![p].pc = pc]
Finish(p) == act' = [act EXCEPT ![p] = Idle]

(* What con_map holds of an object, and the id of a fragment.              *)
Pairs == [obj : Objs, tail : Nat, handle : Objs \cup {None}]
Positions == [pos : Nat, obj : Objs]

ASSUME MotrAssumption ==
  /\ Datasets # {}
  /\ DatasetOf \in [Frags -> Datasets] /\ SizeOf \in [Frags -> 0 .. MaxBlock] /\ MaxBlock \in Nat
  /\ None \notin Nat /\ None \notin Objs /\ None \notin Pairs /\ None \notin Positions
  /\ None \notin [0 .. MaxBlock - 1 -> (Frags \X Nat) \cup {None}]

Blank == [b \in 0..MaxBlock - 1 |-> None]
(* mapping_get finds an entry, mapping_insert can store one.               *)
MappingGet(index, entry) == index \in indices /\ entry # None
MappingInsert(index) == index \in indices
(* con_map_lookup_locked and con_map_new_locked                            *)
Cached(p, d) == conMap[p][d] # None
NewPair(o, tail) == [obj |-> o, tail |-> tail, handle |-> None]

MotrInit ==
  /\ indices = {"name", "tail"}
  /\ nameIdx = [d \in Datasets |-> None]
  /\ tailIdx = [o \in Objs |-> None]
  /\ blocks = [o \in Objs |-> None]
  /\ running = {}
  /\ conMap = [p \in Procs |-> [d \in Datasets |-> None]]
  /\ act = [p \in Procs |-> Idle]
  /\ frag = [f \in Frags |-> [id |-> None, stored |-> 0]]
  /\ tainted = {}

-----------------------------------------------------------------------------
(* Sessions                                                                *)

Start(p) ==
  /\ p \notin running /\ ~Formatting
  /\ running' = running \cup {p}
  /\ conMap' = [conMap EXCEPT ![p] = [d \in Datasets |-> None]]
  /\ UNCHANGED <<indices, nameIdx, tailIdx, blocks, act, frag, tainted>>

FiniForgets(p) ==
  /\ p \in running /\ act[p].pc \in {"idle", "fini"}
  /\ IF \A d \in Datasets : ~Cached(p, d)
     THEN running' = running \ {p} /\ Finish(p) /\ UNCHANGED conMap
     ELSE /\ \E d \in Datasets :
               /\ Cached(p, d)
               /\ conMap' = [conMap EXCEPT ![p][d] = None]
          /\ act' = [act EXCEPT ![p] = [pc |-> "fini"]] /\ UNCHANGED running
  /\ UNCHANGED <<indices, nameIdx, tailIdx, blocks, frag, tainted>>

(* The tails are saved one by one; a failed put aborts (eassert), as a     *)
(* crash does.                                                             *)
Fini(p) ==
  /\ p \in running /\ act[p].pc \in {"idle", "fini"}
  /\ IF \A d \in Datasets : ~Cached(p, d)
     THEN running' = running \ {p} /\ Finish(p) /\ UNCHANGED <<conMap, tailIdx>>
     ELSE /\ \E d \in Datasets :
               /\ Cached(p, d) /\ MappingInsert("tail")
               /\ tailIdx' = [tailIdx EXCEPT ![conMap[p][d].obj] = conMap[p][d].tail]
               /\ conMap' = [conMap EXCEPT ![p][d] = None]
          /\ act' = [act EXCEPT ![p] = [pc |-> "fini"]] /\ UNCHANGED running
  /\ UNCHANGED <<indices, nameIdx, blocks, frag, tainted>>

Unsaved(p) == {d \in Datasets : /\ Cached(p, d)
                                /\ conMap[p][d].tail # tailIdx[conMap[p][d].obj]}

(* The process dies: its con_map is lost, and so is the id of a fragment   *)
(* whose metadata was not written yet.                                     *)
SessionCrash(p) ==
  /\ p \in running
  /\ running' = running \ {p}
  /\ conMap' = [conMap EXCEPT ![p] = [d \in Datasets |-> None]]
  /\ tainted' = tainted \cup Unsaved(p)
  /\ frag' = IF act[p].pc \in {"open", "write"} /\ frag[act[p].f].stored = 0
             THEN [frag EXCEPT ![act[p].f].id = None]
             ELSE frag
  /\ Finish(p)
  /\ UNCHANGED <<indices, nameIdx, tailIdx, blocks>>

-----------------------------------------------------------------------------
(* Writing a fragment                                                      *)

Busy(f) == \E p \in Procs : Working(p) /\ act[p].f = f

(* Another session already uses the dataset's object, or is about to.      *)
Shared(p, d) == \E q \in Procs \ {p} :
                  \/ Cached(q, d)
                  \/ Working(q) /\ DatasetOf[act[q].f] = d

Appended(p, f, o, pos) ==
  /\ frag' = [frag EXCEPT ![f].id = [pos |-> pos, obj |-> o]]
  /\ act' = [act EXCEPT ![p] = [pc |-> "open", f |-> f, obj |-> o, pos |-> pos]]

(* esdm_backend_t_motr_fragment_update up to the first call of the client: *)
(* an unaligned fragment is refused; a new one is appended; one that has   *)
(* an id is written at last_pos, still 0 when its pair is cached.          *)
MotrUpdate(p, f) ==
  LET d == DatasetOf[f] IN
  /\ p \in running /\ act[p] = Idle /\ ~Busy(f)
  /\ SizeOf[f] # 0 /\ frag[f].stored < MaxVersion
  /\ tainted' = tainted \cup IF frag[f].id # None \/ Shared(p, d) THEN {d} ELSE {}
  /\ IF frag[f].id = None
     THEN IF Cached(p, d)
          THEN /\ conMap[p][d].tail + SizeOf[f] <= MaxBlock
               /\ Appended(p, f, conMap[p][d].obj, conMap[p][d].tail)
               /\ conMap' = [conMap EXCEPT ![p][d].tail = @ + SizeOf[f]]
          ELSE /\ act' = [act EXCEPT ![p] = [pc |-> "getname", f |-> f, obj |-> None, pos |-> 0]]
               /\ UNCHANGED <<frag, conMap>>
     ELSE /\ act' = [act EXCEPT ![p] =
                       [pc |-> IF Cached(p, d) THEN "open" ELSE "regettail",
                        f |-> f, obj |-> frag[f].id.obj, pos |-> 0]]
          /\ UNCHANGED <<frag, conMap>>
  /\ UNCHANGED <<indices, nameIdx, tailIdx, blocks, running>>

(* mapping_get: the entry, or an error that the caller cannot tell from a  *)
(* missing one; such an error makes a second object for the dataset.       *)
GetName(p) ==
  /\ act[p].pc = "getname"
  /\ \/ /\ MappingGet("name", nameIdx[D(p)])
        /\ act' = [act EXCEPT ![p].pc = "gettail", ![p].obj = nameIdx[D(p)]]
        /\ UNCHANGED tainted
     \/ /\ Continue(p, "alloc")
        /\ tainted' = tainted \cup IF nameIdx[D(p)] # None THEN {D(p)} ELSE {}
  /\ UNCHANGED <<indices, nameIdx, tailIdx, blocks, running, conMap, frag>>

GetTail(p) ==
  /\ act[p].pc = "gettail"
  /\ \/ LET o == act[p].obj IN
        /\ MappingGet("tail", tailIdx[o])
        /\ tailIdx[o] + SizeOf[act[p].f] <= MaxBlock
        /\ Appended(p, act[p].f, o, tailIdx[o])
        /\ conMap' = [conMap EXCEPT ![p][D(p)] = NewPair(o, tailIdx[o] + SizeOf[act[p].f])]
        /\ UNCHANGED tainted
     \/ /\ Continue(p, "alloc")
        /\ tainted' = tainted \cup {D(p)}
        /\ UNCHANGED <<frag, conMap>>
  /\ UNCHANGED <<indices, nameIdx, tailIdx, blocks, running>>

(* object_id_alloc counts the ids up; create_object makes the object.      *)
NextId(o) == blocks[o] = None /\ \A x \in Objs : x < o => blocks[x] # None
CreateObject(o) == blocks' = [blocks EXCEPT ![o] = Blank]

AllocNameOnly(p) ==
  /\ act[p].pc = "alloc"
  /\ \E o \in Objs :
       /\ NextId(o) /\ CreateObject(o)
       /\ act' = [act EXCEPT ![p].pc = "putname", ![p].obj = o]
  /\ UNCHANGED <<indices, nameIdx, tailIdx, running, conMap, frag, tainted>>

(* Creating the object may fail, which ends the update.                    *)
Alloc(p) ==
  /\ act[p].pc = "alloc"
  /\ \/ \E o \in Objs :
          /\ NextId(o) /\ CreateObject(o)
          /\ act' = [act EXCEPT ![p].pc = "puttail", ![p].obj = o]
     \/ Finish(p) /\ UNCHANGED blocks
  /\ UNCHANGED <<indices, nameIdx, tailIdx, running, conMap, frag, tainted>>

PutTail(p) ==
  /\ act[p].pc = "puttail"
  /\ \/ /\ MappingInsert("tail")
        /\ tailIdx' = [tailIdx EXCEPT ![act[p].obj] = 0]
        /\ Continue(p, "putname")
     \/ Finish(p) /\ UNCHANGED tailIdx
  /\ UNCHANGED <<indices, nameIdx, blocks, running, conMap, frag, tainted>>

PutName(p) ==
  /\ act[p].pc = "putname"
  /\ \/ /\ MappingInsert("name")
        /\ nameIdx' = [nameIdx EXCEPT ![D(p)] = act[p].obj]
        /\ Appended(p, act[p].f, act[p].obj, 0)
        /\ conMap' = [conMap EXCEPT ![p][D(p)] = NewPair(act[p].obj, SizeOf[act[p].f])]
     \/ Finish(p) /\ UNCHANGED <<nameIdx, conMap, frag>>
  /\ UNCHANGED <<indices, tailIdx, blocks, running, tainted>>

(* A fragment with an id whose pair is not cached goes to the stored tail; *)
(* its id stays what it was.                                               *)
RegetTail(p) ==
  /\ act[p].pc = "regettail"
  /\ \/ LET o == act[p].obj IN
        /\ MappingGet("tail", tailIdx[o])
        /\ tailIdx[o] + SizeOf[act[p].f] <= MaxBlock
        /\ act' = [act EXCEPT ![p].pc = "open", ![p].pos = tailIdx[o]]
        /\ conMap' = [conMap EXCEPT ![p][D(p)] = NewPair(o, tailIdx[o] + SizeOf[act[p].f])]
     \/ Finish(p) /\ UNCHANGED conMap
  /\ UNCHANGED <<indices, nameIdx, tailIdx, blocks, running, frag, tainted>>

(* The handle is the one kept in the pair, opened at first use.            *)
OpenForWrite(p) ==
  /\ act[p].pc = "open"
  /\ conMap' = IF Pair(p).handle = None
               THEN [conMap EXCEPT ![p][D(p)].handle = Pair(p).obj] ELSE conMap
  /\ Continue(p, "write")
  /\ UNCHANGED <<indices, nameIdx, tailIdx, blocks, running, frag, tainted>>

(* A failed write aborts the process (M0_ASSERT), as a crash does.         *)
WriteBlocks(p) ==
  LET f == act[p].f
      v == frag[f].stored + 1
      at == act[p].pos .. act[p].pos + SizeOf[f] - 1 IN
  /\ act[p].pc = "write"
  /\ blocks' = [blocks EXCEPT ![Pair(p).handle] =
                  [b \in DOMAIN @ |-> IF b \in at THEN <<f, v>> ELSE @[b]]]
  /\ frag' = [frag EXCEPT ![f].stored = v]
  /\ Finish(p)
  /\ UNCHANGED <<indices, nameIdx, tailIdx, running, conMap, tainted>>

-----------------------------------------------------------------------------
(* Reading a fragment                                                      *)

MotrRetrieve(p, f) ==
  /\ p \in running /\ act[p] = Idle /\ ~Busy(f)
  /\ frag[f].id # None /\ SizeOf[f] # 0 /\ frag[f].stored # 0
  /\ act' = [act EXCEPT ![p] =
               [pc |-> IF Cached(p, DatasetOf[f]) THEN "read" ELSE "readtail",
                f |-> f, obj |-> frag[f].id.obj, pos |-> frag[f].id.pos]]
  /\ tainted' = tainted \cup IF Shared(p, DatasetOf[f]) THEN {DatasetOf[f]} ELSE {}
  /\ UNCHANGED <<indices, nameIdx, tailIdx, blocks, running, conMap, frag>>

ReadTail(p) ==
  /\ act[p].pc = "readtail"
  /\ \/ /\ MappingGet("tail", tailIdx[act[p].obj])
        /\ conMap' = [conMap EXCEPT ![p][D(p)] = NewPair(act[p].obj, tailIdx[act[p].obj])]
        /\ Continue(p, "read")
     \/ Finish(p) /\ UNCHANGED conMap
  /\ UNCHANGED <<indices, nameIdx, tailIdx, blocks, running, frag, tainted>>

(* The blocks are read through the pair's handle, which is opened for the  *)
(* fragment's object when the pair has none.                               *)
ReadHandle(p) == IF Pair(p).handle = None THEN act[p].obj ELSE Pair(p).handle

ReadBlocks(p) ==
  /\ act[p].pc = "read"
  /\ conMap' = [conMap EXCEPT ![p][D(p)].handle = ReadHandle(p)]
  /\ Finish(p)
  /\ UNCHANGED <<indices, nameIdx, tailIdx, blocks, running, frag, tainted>>

-----------------------------------------------------------------------------
(* Formatting.  The tool runs alone; the fragments are gone, the objects   *)
(* stay behind and nothing refers to what they hold.                       *)

Mkfs(p) ==
  /\ running = {p} /\ act[p] = Idle /\ conMap[p] = [d \in Datasets |-> None]
  /\ act' = [act EXCEPT ![p] = [pc |-> "delname"]]
  /\ frag' = [f \in Frags |-> [id |-> None, stored |-> 0]]
  /\ blocks' = [o \in Objs |-> IF blocks[o] = None THEN None ELSE Blank]
  /\ tainted' = {}
  /\ UNCHANGED <<indices, nameIdx, tailIdx, running, conMap>>

(* The errors of the deletions are ignored.                                *)
DeleteIndex(p) ==
  /\ \/ /\ act[p].pc = "delname" /\ Continue(p, "deltail")
        /\ indices' = indices \ {"name"}
        /\ nameIdx' = [d \in Datasets |-> None]
        /\ UNCHANGED tailIdx
     \/ /\ act[p].pc = "deltail" /\ Continue(p, "mkname")
        /\ indices' = indices \ {"tail"}
        /\ tailIdx' = [o \in Objs |-> None]
        /\ UNCHANGED nameIdx
  /\ UNCHANGED <<blocks, running, conMap, frag, tainted>>

CreateIndex(p) ==
  /\ \/ /\ act[p].pc = "mkname" /\ Continue(p, "mktail")
        /\ indices' = indices \cup {"name"}
     \/ /\ act[p].pc = "mktail" /\ Finish(p)
        /\ indices' = indices \cup {"tail"}
     \/ /\ act[p].pc \in {"mkname", "mktail"} /\ Finish(p) /\ UNCHANGED indices
  /\ UNCHANGED <<nameIdx, tailIdx, blocks, running, conMap, frag, tainted>>

-----------------------------------------------------------------------------
MotrStep(p) ==
  \/ Start(p) \/ Fini(p) \/ SessionCrash(p)
  \/ \E f \in Frags : MotrUpdate(p, f) \/ MotrRetrieve(p, f)
  \/ GetName(p) \/ GetTail(p) \/ Alloc(p) \/ PutTail(p) \/ PutName(p)
  \/ RegetTail(p) \/ OpenForWrite(p) \/ WriteBlocks(p)
  \/ ReadTail(p) \/ ReadBlocks(p)
  \/ Mkfs(p) \/ DeleteIndex(p) \/ CreateIndex(p)

MotrNext == \E p \in Procs : MotrStep(p)

MotrSpec == MotrInit /\ [][MotrNext]_motrVars

-----------------------------------------------------------------------------
(* A fragment that was stored is read back as it was stored, whatever the  *)
(* sessions append to its dataset's object in between, through restarts    *)
(* and crashes, as long as the dataset is not tainted: no fragment of it   *)
(* was written a second time, no two sessions used it at once, no session  *)
(* died before it saved the tail, no lookup failed.                        *)
MotrDataKept ==
  /\ \A f \in Frags :
       (frag[f].stored # 0 /\ DatasetOf[f] \notin tainted) =>
         \A b \in frag[f].id.pos .. frag[f].id.pos + SizeOf[f] - 1 :
           blocks[frag[f].id.obj][b] = <<f, frag[f].stored>>
  /\ \A p \in Procs :
       (act[p].pc = "read" /\ D(p) \notin tainted) => ReadHandle(p) = act[p].obj

(* An object the name index gives for a dataset has an entry in the tail   *)
(* index, in every state a crash can leave: without it the next update     *)
(* takes the dataset for new and gives it a second object.                 *)
NameHasTail ==
  \A d \in Datasets : nameIdx[d] # None => tailIdx[nameIdx[d]] # None
=============================================================================
