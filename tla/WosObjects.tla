----------------------------- MODULE WosObjects -----------------------------
(***************************************************************************)
(* The WOS data backend (backends-data/WOS/wos.c).  A fragment is stored   *)
(* in an object whose id is reserved first and written afterwards.  The    *)
(* list of reserved ids and the list of their sizes belong to the backend, *)
(* not to the operation: two threads that store a fragment at once, or a   *)
(* thread and the performance check that the dynamic performance model     *)
(* starts, use each other's lists.                                         *)
(*                                                                         *)
(* Threads interleave between calls of the WOS library and between the     *)
(* assignments of the shared lists.  An object holds a fragment's data of  *)
(* one version; WOS writes a reserved object once and never reuses an id   *)
(* (external).                                                             *)
(***************************************************************************)
EXTENDS Naturals, Sequences, Fragments

CONSTANTS Check,        \* the performance check
          WObjs,        \* object ids, numbers in the order WOS gives them out
          BytesOf,      \* size of a fragment's and of the check's data
          Capacity      \* ids that fit into a fragment's metadata

VARIABLES store,        \* object: None, Reserved, Deleted or its data
          oidList,      \* ebm->oid_list, of at most one id; None: NULL
          sizeList,     \* ebm->size_list, its one size; None: NULL
          thread,       \* what each actor does
          ids,          \* object ids in a fragment's metadata
          kept,         \* version stored by the last update that succeeded
          disturbed     \* history: actors whose lists another one used

wosVars == <<store, oidList, sizeList, thread, ids, kept, disturbed>>

BlankOid == 0   \* a new t_WosOID
Reserved == <<"reserved">>
Deleted == <<"deleted">>
Actors == Frags \cup {Check}

(* Object ids are not taken for the one of a new t_WosOID, nor for None.   *)
ASSUME WosAssumption ==
  /\ WObjs \subseteq Nat \ {BlankOid} /\ Check \notin Frags
  /\ None \notin WObjs \cup {BlankOid} /\ None # Reserved /\ None # Deleted
  /\ None \notin Seq(WObjs \cup {BlankOid}) /\ None \notin Actors \X Nat

Resting == [pc |-> "rest", id |-> None]
InAlloc(a) == thread[a].pc \in {"oids", "sizes", "woid", "reserve", "encode", "write"}
Goto(a, pc) == thread' = [thread EXCEPT ![a].pc = pc]
Rest(a) == thread' = [thread EXCEPT ![a] = Resting]

WosInit ==
  /\ store = [o \in WObjs |-> None]
  /\ oidList = None /\ sizeList = None
  /\ thread = [a \in Actors |-> Resting]
  /\ ids = [f \in Frags |-> <<>>] /\ kept = [f \in Frags |-> 0]
  /\ disturbed = {}

(* A NULL list or element is dereferenced: the process dies.               *)
Segfault ==
  /\ thread' = [a \in Actors |-> Resting]
  /\ oidList' = None /\ sizeList' = None
  /\ UNCHANGED <<store, ids, kept, disturbed>>

-----------------------------------------------------------------------------
(* esdm_backend_t_wos_fragment_update                                      *)

WosUpdate(f) ==
  /\ thread[f] = Resting /\ Len(ids[f]) < Capacity
  /\ Goto(f, IF ids[f] = <<>> THEN "oids" ELSE "replace")
  /\ UNCHANGED <<store, oidList, sizeList, ids, kept, disturbed>>

(* esdm_backend_t_wos_delete; the object may be gone, or never written.    *)
Delete(o) == /\ o \in WObjs /\ store[o] \notin {None, Deleted}
             /\ store' = [store EXCEPT ![o] = Deleted]

(* The object of the first id in the metadata is deleted, the id stays.    *)
Replace(f) ==
  /\ thread[f].pc = "replace"
  /\ \/ Delete(Head(ids[f])) /\ Goto(f, "oids") /\ kept' = [kept EXCEPT ![f] = 0]
     \/ Rest(f) /\ UNCHANGED <<store, kept>>
  /\ UNCHANGED <<oidList, sizeList, ids, disturbed>>

(* esdm_backend_t_wos_alloc, one shared assignment or library call a step  *)
NewOidList(a) ==
  LET others == {b \in Actors \ {a} : InAlloc(b) /\ thread[b].pc # "oids"} IN
  /\ thread[a].pc = "oids" /\ Goto(a, "sizes")
  /\ oidList' = <<>>
  /\ disturbed' = IF others = {} THEN disturbed \ {a} ELSE disturbed \cup {a} \cup others
  /\ UNCHANGED <<store, sizeList, ids, kept>>

NewSizeList(a) ==
  /\ thread[a].pc = "sizes" /\ Goto(a, "woid")
  /\ sizeList' = 0
  /\ UNCHANGED <<store, oidList, ids, kept, disturbed>>

CreateWoid(a) ==
  /\ thread[a].pc = "woid"
  /\ IF oidList = None \/ sizeList = None THEN Segfault
     ELSE /\ oidList' = <<BlankOid>> /\ sizeList' = BytesOf[a]
          /\ Goto(a, "reserve")
          /\ UNCHANGED <<store, ids, kept, disturbed>>

DeleteOidList == oidList' = None /\ sizeList' = None

Reserve(a) ==
  /\ thread[a].pc = "reserve"
  /\ IF oidList \in {None, <<>>} THEN Segfault
     ELSE \/ \E o \in WObjs :
               /\ store[o] = None /\ \A x \in WObjs : x < o => store[x] # None
               /\ store' = [store EXCEPT ![o] = Reserved]
               /\ oidList' = <<o>>
               /\ Goto(a, "encode")
               /\ UNCHANGED <<sizeList, ids, kept, disturbed>>
          \/ /\ DeleteOidList /\ Rest(a)
             /\ UNCHANGED <<store, ids, kept, disturbed>>

(* wos_object_list_encode: the id is read from the shared list again.  A   *)
(* list without element gives no id, and the object cannot be opened.      *)
Encode(a) ==
  LET id == IF oidList \in {None, <<>>} THEN None ELSE oidList[1] IN
  /\ thread[a].pc = "encode"
  /\ ids' = IF a = Check THEN ids ELSE [ids EXCEPT ![a] = Append(@, id)]
  /\ IF id = None \/ (a # Check /\ Len(ids[a]) + 1 >= Capacity)
     THEN Rest(a)
     ELSE thread' = [thread EXCEPT ![a] = [pc |-> "write", id |-> id]]
  /\ UNCHANGED <<store, oidList, sizeList, kept, disturbed>>

Written(a) ==
  /\ IF a = Check THEN Goto(a, "read") ELSE Rest(a)
  /\ kept' = IF a = Check THEN kept ELSE [kept EXCEPT ![a] = Len(ids[a])]

(* esdm_backend_t_wos_write puts the data into the object of the shared    *)
(* list, not into the one it opened; an empty list writes nothing and      *)
(* reports success.                                                        *)
WosWrite(a) ==
  /\ thread[a].pc = "write"
  /\ \/ /\ sizeList # None /\ sizeList >= BytesOf[a]
        /\ IF oidList = None THEN Segfault
           ELSE /\ \/ oidList = <<>> /\ UNCHANGED store
                   \/ /\ oidList # <<>> /\ oidList[1] \in WObjs
                      /\ store[oidList[1]] = Reserved
                      /\ store' = [store EXCEPT ![oidList[1]] =
                                     <<a, IF a = Check THEN 0 ELSE Len(ids[a])>>]
                /\ Written(a)
                /\ UNCHANGED <<oidList, sizeList, ids, disturbed>>
     \/ /\ Rest(a)
        /\ UNCHANGED <<store, oidList, sizeList, ids, kept, disturbed>>

-----------------------------------------------------------------------------
(* esdm_backend_t_wos_fragment_delete works on the first id of the metadata *)
DeleteFragment(f) ==
  /\ thread[f] = Resting /\ ids[f] # <<>>
  /\ Delete(Head(ids[f]))
  /\ kept' = [kept EXCEPT ![f] = 0]
  /\ UNCHANGED <<oidList, sizeList, thread, ids, disturbed>>

(* esdm_backend_t_wos_read finds data                                      *)
HasData(o) == o \in WObjs /\ store[o] \notin {None, Reserved, Deleted}

(* What esdm_backend_t_wos_fragment_retrieve reads, None for an error.     *)
Retrieved(f) ==
  IF ids[f] # <<>> /\ HasData(Head(ids[f])) THEN store[Head(ids[f])] ELSE None

-----------------------------------------------------------------------------
(* wos_backend_performance_check: allocate, write, read, delete            *)

StartCheck ==
  /\ thread[Check] = Resting
  /\ Goto(Check, "oids")
  /\ UNCHANGED <<store, oidList, sizeList, ids, kept, disturbed>>

CheckRead ==
  /\ thread[Check].pc = "read"
  /\ \/ HasData(thread[Check].id) /\ Goto(Check, "delete")
     \/ Rest(Check)
  /\ UNCHANGED <<store, oidList, sizeList, ids, kept, disturbed>>

(* Mutant: the check deletes the object of the shared list.                *)
CheckDeleteListed ==
  /\ thread[Check].pc = "delete"
  /\ \/ oidList \notin {None, <<>>} /\ Delete(oidList[1])
     \/ UNCHANGED store
  /\ Rest(Check)
  /\ UNCHANGED <<oidList, sizeList, ids, kept, disturbed>>

CheckDelete ==
  /\ thread[Check].pc = "delete"
  /\ \/ Delete(thread[Check].id)
     \/ UNCHANGED store
  /\ Rest(Check)
  /\ UNCHANGED <<oidList, sizeList, ids, kept, disturbed>>

-----------------------------------------------------------------------------
WosStep(a) == \/ NewOidList(a) \/ NewSizeList(a) \/ CreateWoid(a) \/ Reserve(a)
           \/ Encode(a) \/ WosWrite(a)

WosNext == \/ \E a \in Actors : WosStep(a)
        \/ \E f \in Frags : WosUpdate(f) \/ Replace(f) \/ DeleteFragment(f)
        \/ StartCheck \/ CheckRead \/ CheckDelete

WosSpec == WosInit /\ [][WosNext]_wosVars

(* A fragment stored by an update during which no other thread was in the  *)
(* allocation or the write, and which was not written a second time, is    *)
(* read back as it was stored, however the other threads and the           *)
(* performance check race with each other before and afterwards.           *)
WosDataKept ==
  \A f \in Frags :
    (kept[f] = 1 /\ Len(ids[f]) = 1 /\ f \notin disturbed) => Retrieved(f) = <<f, 1>>
=============================================================================
