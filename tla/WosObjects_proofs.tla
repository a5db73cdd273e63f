------------------------- MODULE WosObjects_proofs -------------------------
(***************************************************************************)
(* The WOS backend keeps what an undisturbed update has stored, for any    *)
(* number of fragments and objects.                                        *)
(***************************************************************************)
EXTENDS WosObjects, TLAPS

Oids == WObjs \cup {BlankOid, None}

(* The element of the shared list of ids.                                  *)
Listed == IF oidList \in {None, <<>>} THEN None ELSE oidList[1]

(* An actor that has made the shared lists its own, for now.               *)
AllocSteps == {"sizes", "woid", "reserve", "encode", "write"}
Steps == {"rest", "replace", "oids", "read", "delete"} \cup AllocSteps
Past(a) == thread[a].pc \in AllocSteps

WosType ==
  /\ store \in [WObjs -> {None, Reserved, Deleted} \cup (Actors \X Nat)]
  /\ oidList \in Seq(WObjs \cup {BlankOid}) \cup {None}
  /\ thread \in [Actors -> [pc : Steps, id : Oids]]
  /\ ids \in [Frags -> Seq(Oids)]
  /\ kept \in [Frags -> Nat]
  /\ disturbed \subseteq Actors

(* Whatever id is known somewhere has been given out by WOS.               *)
KnownGiven ==
  /\ Listed \in WObjs => store[Listed] # None
  /\ \A a \in Actors : thread[a].id \in WObjs => store[thread[a].id] # None
  /\ \A f \in Frags : \A n \in DOMAIN ids[f] : ids[f][n] \in WObjs => store[ids[f][n]] # None

(* The lists are used by one actor, or its users are disturbed.            *)
UsersDisturbed ==
  \A a \in Actors : Past(a) /\ a \notin disturbed => \A b \in Actors \ {a} : ~Past(b)

(* No other fragment, and not the performance check, has the id o.         *)
Only(f, o) ==
  /\ \A g \in Frags \ {f} : \A n \in DOMAIN ids[g] : ids[g][n] # o
  /\ thread[Check].id # o

(* An undisturbed update writes the object that it reserved.               *)
WritesOwn ==
  \A f \in Frags :
    thread[f].pc \in {"encode", "write"} /\ f \notin disturbed =>
      /\ Listed \in WObjs /\ store[Listed] = Reserved /\ Only(f, Listed)
      /\ thread[f].pc = "write" => ids[f] # <<>> /\ ids[f][Len(ids[f])] = Listed

(* Nothing is kept during an update, and only what was stored is replaced. *)
NotKeptYet ==
  \A f \in Frags : /\ ids[f] = <<>> \/ Past(f) \/ thread[f].pc = "oids" => kept[f] = 0
                   /\ thread[f].pc = "replace" => ids[f] # <<>>

(* What an undisturbed update stored is there, and nobody else can get at  *)
(* it: the shared list may still have the id, but nobody uses the list.    *)
StoredAlone ==
  \A f \in Frags :
    kept[f] = 1 /\ Len(ids[f]) = 1 /\ f \notin disturbed =>
      /\ ids[f][1] \in WObjs /\ store[ids[f][1]] = <<f, 1>> /\ Only(f, ids[f][1])
      /\ Listed = ids[f][1] => \A a \in Actors : ~Past(a)

WosInv ==
  WosType /\ KnownGiven /\ UsersDisturbed /\ WritesOwn /\ NotKeptYet /\ StoredAlone


-----------------------------------------------------------------------------
(* What the two ways to change a thread do.                                *)
LEMMA GotoFacts ==
  ASSUME WosType, NEW a \in Actors, NEW pc \in Steps, Goto(a, pc)
  PROVE  /\ thread' \in [Actors -> [pc : Steps, id : Oids]]
         /\ thread'[a].pc = pc /\ thread'[a].id = thread[a].id
         /\ \A b \in Actors \ {a} : thread'[b] = thread[b]
BY Zenon DEF WosType, Goto

LEMMA RestFacts ==
  ASSUME WosType, NEW a \in Actors, Rest(a)
  PROVE  /\ thread' \in [Actors -> [pc : Steps, id : Oids]]
         /\ thread'[a].pc = "rest" /\ thread'[a].id = None
         /\ \A b \in Actors \ {a} : thread'[b] = thread[b]
<1>1. Resting \in [pc : Steps, id : Oids] /\ Resting.pc = "rest" /\ Resting.id = None
  BY Zenon DEF Resting, Steps, Oids
<1> HIDE DEF Resting
<1> QED BY Zenon, <1>1 DEF WosType, Rest

LEMMA SegfaultFacts ==
  ASSUME WosType, Segfault
  PROVE  /\ thread' \in [Actors -> [pc : Steps, id : Oids]]
         /\ \A b \in Actors : thread'[b].pc = "rest" /\ thread'[b].id = None
<1>1. Resting \in [pc : Steps, id : Oids] /\ Resting.pc = "rest" /\ Resting.id = None
  BY Zenon DEF Resting, Steps, Oids
<1> HIDE DEF Resting
<1> QED BY Zenon, <1>1 DEF Segfault

LEMMA IdsApart == None \notin WObjs /\ BlankOid \notin WObjs /\ Frags \subseteq Actors /\ Check \in Actors
                  /\ Check \notin Frags
BY Zenon, WosAssumption DEF BlankOid, Actors

(* While one actor uses the lists, there is no other undisturbed user.     *)
LEMMA OneUser ==
  ASSUME WosInv, NEW a \in Actors, Past(a), NEW f \in Frags, f # a, thread[f].pc \in {"encode", "write"}
  PROVE  f \in disturbed
<1>1. Past(f) /\ f \in Actors
  BY Zenon, IdsApart DEF Past, AllocSteps
<1> QED BY Zenon, <1>1 DEF WosInv, UsersDisturbed

(* A step of one actor that leaves the lists alone and does not enter the  *)
(* use of them: objects may be deleted, and what was kept may be given up. *)
LEMMA QuietStep ==
  ASSUME WosInv, NEW a \in Actors,
         thread' \in [Actors -> [pc : Steps, id : Oids]],
         \A b \in Actors \ {a} : thread'[b] = thread[b],
         thread'[a].id \in {thread[a].id, None},
         Past(a)' => Past(a),
         thread'[a].pc \in {"encode", "write"} => thread'[a].pc = thread[a].pc,
         UNCHANGED <<oidList, ids, disturbed>>,
         kept' \in [Frags -> Nat],
         \A f \in Frags : kept'[f] \in {kept[f], 0},
         a \in Frags /\ thread'[a].pc = "oids" => kept'[a] = 0,
         a \in Frags /\ thread'[a].pc = "replace" => ids[a] # <<>>,
         store' \in [WObjs -> {None, Reserved, Deleted} \cup (Actors \X Nat)],
         \A o \in WObjs : store[o] # None => store'[o] # None,
         \A f \in Frags : thread'[f].pc \in {"encode", "write"} /\ f \notin disturbed =>
                            store'[Listed] = store[Listed],
         \A f \in Frags : kept'[f] = 1 /\ Len(ids[f]) = 1 /\ f \notin disturbed =>
                            store'[ids[f][1]] = store[ids[f][1]]
  PROVE  WosInv'
<1>0. WosType /\ KnownGiven /\ UsersDisturbed /\ WritesOwn /\ NotKeptYet /\ StoredAlone
  BY Zenon DEF WosInv
<1>1. Listed' = Listed
  BY Zenon DEF Listed
<1>2. WosType'
  BY Zenon, <1>0 DEF WosType
<1>3. \A b \in Actors : (Past(b)' => Past(b)) /\ thread'[b].id \in {thread[b].id, None}
  BY Zenon DEF Past
<1>4. KnownGiven'
  BY Zenon, <1>0, <1>1, <1>3, IdsApart DEF KnownGiven
<1>5. UsersDisturbed'
  BY Zenon, <1>0, <1>3 DEF UsersDisturbed
<1>6. \A f \in Frags, o \in WObjs : Only(f, o) => Only(f, o)'
  BY Zenon, <1>3, IdsApart DEF Only
<1>7. WritesOwn'
  <2> SUFFICES ASSUME NEW f \in Frags, thread'[f].pc \in {"encode", "write"}, f \notin disturbed
               PROVE  /\ Listed \in WObjs /\ store'[Listed] = Reserved /\ Only(f, Listed)'
                      /\ thread'[f].pc = "write" => ids[f] # <<>> /\ ids[f][Len(ids[f])] = Listed
    BY Zenon, <1>1 DEF WritesOwn, Only
  <2>1. thread[f].pc = thread'[f].pc
    BY Zenon, IdsApart
  <2> QED BY Zenon, <1>0, <1>1, <1>6, <2>1 DEF WritesOwn
<1>8. NotKeptYet'
  <2>0. \A f \in Frags : thread'[f].pc = "replace" => ids[f] # <<>>
    BY Zenon, <1>0, IdsApart DEF NotKeptYet
  <2> SUFFICES ASSUME NEW f \in Frags, ids[f] = <<>> \/ Past(f)' \/ thread'[f].pc = "oids"
               PROVE  kept'[f] = 0
    BY Zenon, <2>0 DEF NotKeptYet
  <2>1. CASE f = a /\ thread'[a].pc = "oids"
    BY Zenon, <2>1
  <2>2. CASE ids[f] = <<>> \/ Past(f) \/ thread[f].pc = "oids"
    BY Zenon, <1>0, <2>2 DEF NotKeptYet
  <2> QED BY Zenon, <1>3, <2>1, <2>2, IdsApart
<1>9. StoredAlone'
  <2> SUFFICES ASSUME NEW f \in Frags, kept'[f] = 1, Len(ids[f]) = 1, f \notin disturbed
               PROVE  /\ ids[f][1] \in WObjs /\ store'[ids[f][1]] = <<f, 1>> /\ Only(f, ids[f][1])'
                      /\ Listed = ids[f][1] => \A b \in Actors : ~Past(b)'
    BY Zenon, <1>1 DEF StoredAlone, Only
  <2>1. kept[f] = 1
    OBVIOUS
  <2> QED BY Zenon, <1>0, <1>3, <1>6, <2>1 DEF StoredAlone
<1> QED BY Zenon, <1>2, <1>4, <1>5, <1>7, <1>8, <1>9 DEF WosInv

(* A step after which the list has no id of an object, and no update that  *)
(* is not disturbed is about to write.                                     *)
LEMMA ListStep ==
  ASSUME WosInv, UNCHANGED <<store, ids, kept>>,
         oidList' \in Seq(WObjs \cup {BlankOid}) \cup {None},
         Listed' \notin WObjs, disturbed' \subseteq Actors,
         thread' \in [Actors -> [pc : Steps, id : Oids]],
         \A b \in Actors : thread'[b].id \in {thread[b].id, None},
         \A f \in Frags : thread'[f].pc \in {"encode", "write"} => f \in disturbed',
         UsersDisturbed', NotKeptYet',
         \A f \in Frags : kept[f] = 1 /\ f \in disturbed => f \in disturbed'
  PROVE  WosInv'
<1>0. WosType /\ KnownGiven /\ StoredAlone
  BY Zenon DEF WosInv
<1>1. WosType'
  BY Zenon, <1>0 DEF WosType
<1>2. KnownGiven'
  BY Zenon, <1>0, IdsApart DEF KnownGiven
<1>3. WritesOwn'
  BY Zenon DEF WritesOwn
<1>4. \A f \in Frags, o \in WObjs : Only(f, o) => Only(f, o)'
  BY Zenon, IdsApart DEF Only
<1>5. StoredAlone'
  BY Zenon, <1>0, <1>4 DEF StoredAlone
<1> QED BY Zenon, <1>1, <1>2, <1>3, <1>5 DEF WosInv


-----------------------------------------------------------------------------
(* The steps that leave the lists alone.                                   *)
LEMMA UpdateStarts ==
  ASSUME WosInv, NEW f \in Frags, WosUpdate(f)
  PROVE  WosInv'
<1>0. WosType /\ NotKeptYet /\ f \in Actors
  BY Zenon, IdsApart DEF WosInv
<1>1. PICK pc \in {"oids", "replace"} : Goto(f, pc) /\ (pc = "oids" <=> ids[f] = <<>>)
  BY Zenon DEF WosUpdate
<1>2. UNCHANGED <<store, oidList, ids, kept, disturbed>>
  BY Zenon DEF WosUpdate
<1>3. pc \in Steps
  BY Zenon DEF Steps
<1>4. /\ thread' \in [Actors -> [pc : Steps, id : Oids]]
      /\ thread'[f].pc = pc /\ thread'[f].id = thread[f].id
      /\ \A b \in Actors \ {f} : thread'[b] = thread[b]
  BY Zenon, <1>0, <1>1, <1>3, GotoFacts
<1>5. (thread'[f].pc = "oids" => kept[f] = 0) /\ (thread'[f].pc = "replace" => ids[f] # <<>>)
  BY Zenon, <1>0, <1>1, <1>4 DEF NotKeptYet
<1>6. ~Past(f)' /\ thread'[f].pc \notin {"encode", "write"}
  BY Zenon, <1>4 DEF Past, AllocSteps
<1>7. /\ kept \in [Frags -> Nat]
      /\ store \in [WObjs -> {None, Reserved, Deleted} \cup (Actors \X Nat)]
  BY Zenon, <1>0 DEF WosType
<1> QED BY Zenon, <1>0, <1>2, <1>4, <1>5, <1>6, <1>7, QuietStep

LEMMA SizesMade ==
  ASSUME WosInv, NEW a \in Actors, NewSizeList(a)
  PROVE  WosInv'
<1>0. WosType /\ NotKeptYet
  BY Zenon DEF WosInv
<1>1. "woid" \in Steps /\ Goto(a, "woid") /\ UNCHANGED <<store, oidList, ids, kept, disturbed>>
  BY Zenon DEF NewSizeList, Steps, AllocSteps
<1>2. /\ thread' \in [Actors -> [pc : Steps, id : Oids]]
      /\ thread'[a].pc = "woid" /\ thread'[a].id = thread[a].id
      /\ \A b \in Actors \ {a} : thread'[b] = thread[b]
  BY Zenon, <1>0, <1>1, GotoFacts
<1>3. Past(a)
  BY Zenon DEF NewSizeList, Past, AllocSteps
<1>4. /\ kept \in [Frags -> Nat]
      /\ store \in [WObjs -> {None, Reserved, Deleted} \cup (Actors \X Nat)]
  BY Zenon, <1>0 DEF WosType
<1> QED BY Zenon, <1>1, <1>2, <1>3, <1>4, QuietStep

(* A thread returns, or the check goes on, and nothing else changes.       *)
LEMMA ThreadReturns ==
  ASSUME WosInv, NEW a \in Actors, Rest(a), UNCHANGED <<store, oidList, ids, kept, disturbed>>
  PROVE  WosInv'
<1>0. WosType
  BY Zenon DEF WosInv
<1>1. /\ thread' \in [Actors -> [pc : Steps, id : Oids]]
      /\ thread'[a].pc = "rest" /\ thread'[a].id = None
      /\ \A b \in Actors \ {a} : thread'[b] = thread[b]
  BY Zenon, <1>0, RestFacts
<1>2. ~Past(a)' /\ thread'[a].pc \notin {"encode", "write", "oids", "replace"}
  BY Zenon, <1>1 DEF Past, AllocSteps
<1>3. /\ kept \in [Frags -> Nat]
      /\ store \in [WObjs -> {None, Reserved, Deleted} \cup (Actors \X Nat)]
  BY Zenon, <1>0 DEF WosType
<1> QED BY Zenon, <1>1, <1>2, <1>3, QuietStep

LEMMA CheckGoesOn ==
  ASSUME WosInv, NEW pc \in {"oids", "read", "delete"}, Goto(Check, pc),
         UNCHANGED <<store, oidList, ids, kept, disturbed>>
  PROVE  WosInv'
<1>0. WosType /\ Check \in Actors /\ Check \notin Frags /\ pc \in Steps
  BY Zenon, IdsApart DEF WosInv, Steps
<1>1. /\ thread' \in [Actors -> [pc : Steps, id : Oids]]
      /\ thread'[Check].pc = pc /\ thread'[Check].id = thread[Check].id
      /\ \A b \in Actors \ {Check} : thread'[b] = thread[b]
  BY Zenon, <1>0, GotoFacts
<1>2. ~Past(Check)' /\ thread'[Check].pc \notin {"encode", "write"}
  BY Zenon, <1>1 DEF Past, AllocSteps
<1>3. /\ kept \in [Frags -> Nat]
      /\ store \in [WObjs -> {None, Reserved, Deleted} \cup (Actors \X Nat)]
  BY Zenon, <1>0 DEF WosType
<1> QED BY Zenon, <1>0, <1>1, <1>2, <1>3, QuietStep

(* An object is deleted by the one who has its id.                         *)
LEMMA ObjectDeleted ==
  ASSUME WosInv, NEW a \in Actors, NEW o, Delete(o),
         thread' \in [Actors -> [pc : Steps, id : Oids]],
         \A b \in Actors \ {a} : thread'[b] = thread[b],
         thread'[a].id \in {thread[a].id, None},
         thread'[a].pc \in {"rest", "oids"},
         UNCHANGED <<oidList, ids, disturbed>>,
         a = Check => o = thread[Check].id /\ thread'[a].pc = "rest" /\ kept' = kept,
         a # Check => ids[a] # <<>> /\ o = ids[a][1] /\ kept' = [kept EXCEPT ![a] = 0]
  PROVE  WosInv'
<1>0. WosType /\ WritesOwn /\ StoredAlone
  BY Zenon DEF WosInv
<1>1. /\ o \in WObjs /\ store[o] # None
      /\ store' = [store EXCEPT ![o] = Deleted]
  BY Zenon DEF Delete
<1>2. /\ kept \in [Frags -> Nat] /\ ids \in [Frags -> Seq(Oids)]
      /\ store \in [WObjs -> {None, Reserved, Deleted} \cup (Actors \X Nat)]
  BY Zenon, <1>0 DEF WosType
<1>3. store' \in [WObjs -> {None, Reserved, Deleted} \cup (Actors \X Nat)]
  BY Zenon, <1>1, <1>2
<1>4. None # Deleted
  BY Zenon, WosAssumption DEF Deleted
<1>5. \A x \in WObjs : (x # o => store'[x] = store[x]) /\ (store[x] # None => store'[x] # None)
  BY Zenon, <1>1, <1>2, <1>4
<1>6. /\ kept' \in [Frags -> Nat]
      /\ \A f \in Frags : kept'[f] \in {kept[f], 0}
      /\ a \in Frags => kept'[a] = 0
  BY <1>2, IdsApart DEF Actors
<1>7. ASSUME NEW f \in Frags, f # a, NEW x, Only(f, x) PROVE x # o
  <2>1. CASE a = Check
    BY Zenon, <1>7, <2>1 DEF Only
  <2>2. CASE a # Check
    <3>1. a \in Frags \ {f} /\ 1 \in DOMAIN ids[a]
      BY <1>2, <1>7, <2>2 DEF Actors
    <3> QED BY Zenon, <1>7, <2>2, <3>1 DEF Only
  <2> QED BY Zenon, <2>1, <2>2
<1>8. ~Past(a)' /\ thread'[a].pc \notin {"encode", "write"}
  BY Zenon DEF Past, AllocSteps
<1>9. \A f \in Frags : thread'[f].pc \in {"encode", "write"} /\ f \notin disturbed =>
                         store'[Listed] = store[Listed]
  <2> SUFFICES ASSUME NEW f \in Frags, thread'[f].pc \in {"encode", "write"}, f \notin disturbed
               PROVE  store'[Listed] = store[Listed]
    BY Zenon
  <2>1. f # a /\ thread[f].pc \in {"encode", "write"}
    BY Zenon, <1>8, IdsApart
  <2>2. Listed \in WObjs /\ Only(f, Listed)
    BY Zenon, <1>0, <2>1 DEF WritesOwn
  <2> QED BY Zenon, <1>5, <1>7, <2>1, <2>2
<1>10. \A f \in Frags : kept'[f] = 1 /\ Len(ids[f]) = 1 /\ f \notin disturbed =>
                          store'[ids[f][1]] = store[ids[f][1]]
  <2> SUFFICES ASSUME NEW f \in Frags, kept'[f] = 1, Len(ids[f]) = 1, f \notin disturbed
               PROVE  store'[ids[f][1]] = store[ids[f][1]]
    BY Zenon
  <2>1. f # a /\ kept[f] = 1
    BY <1>6
  <2>2. ids[f][1] \in WObjs /\ Only(f, ids[f][1])
    BY Zenon, <1>0, <2>1 DEF StoredAlone
  <2> QED BY Zenon, <1>5, <1>7, <2>1, <2>2
<1>11. a \in Frags /\ thread'[a].pc = "oids" => kept'[a] = 0
  BY Zenon, <1>6
<1> QED BY Zenon, <1>3, <1>5, <1>6, <1>8, <1>9, <1>10, <1>11, QuietStep

LEMMA DeletionsKeep ==
  ASSUME WosInv, CheckDelete \/ \E f \in Frags : Replace(f) \/ DeleteFragment(f)
  PROVE  WosInv'
<1>0. WosType /\ Check \in Actors
  BY Zenon, IdsApart DEF WosInv
<1>1. CASE CheckDelete
  <2>1. Rest(Check) /\ UNCHANGED <<oidList, sizeList, ids, kept, disturbed>>
    BY Zenon, <1>1 DEF CheckDelete
  <2>2. CASE UNCHANGED store
    BY Zenon, <1>0, <2>1, <2>2, ThreadReturns
  <2>3. CASE Delete(thread[Check].id)
    <3>1. /\ thread' \in [Actors -> [pc : Steps, id : Oids]]
          /\ thread'[Check].pc = "rest" /\ thread'[Check].id = None
          /\ \A b \in Actors \ {Check} : thread'[b] = thread[b]
      BY Zenon, <1>0, <2>1, RestFacts
    <3> QED BY Zenon, <1>0, <2>1, <2>3, <3>1, ObjectDeleted
  <2> QED BY Zenon, <1>1, <2>2, <2>3 DEF CheckDelete
<1>2. ASSUME NEW f \in Frags, Replace(f) PROVE WosInv'
  <2>0. f \in Actors /\ f # Check /\ UNCHANGED <<oidList, sizeList, ids, disturbed>>
    BY Zenon, <1>2, IdsApart DEF Replace
  <2>1. CASE Rest(f) /\ UNCHANGED <<store, kept>>
    BY Zenon, <2>0, <2>1, ThreadReturns
  <2>2. CASE Delete(Head(ids[f])) /\ Goto(f, "oids") /\ kept' = [kept EXCEPT ![f] = 0]
    <3>1. "oids" \in Steps
      BY Zenon DEF Steps
    <3>2. /\ thread' \in [Actors -> [pc : Steps, id : Oids]]
          /\ thread'[f].pc = "oids" /\ thread'[f].id = thread[f].id
          /\ \A b \in Actors \ {f} : thread'[b] = thread[b]
      BY Zenon, <1>0, <2>0, <2>2, <3>1, GotoFacts
    <3>3. ids[f] # <<>> /\ Head(ids[f]) = ids[f][1]
      BY <1>0, <1>2 DEF WosInv, NotKeptYet, WosType, Replace
    <3> QED BY Zenon, <2>0, <2>2, <3>2, <3>3, ObjectDeleted
  <2> QED BY Zenon, <1>2, <2>1, <2>2 DEF Replace
<1>3. ASSUME NEW f \in Frags, DeleteFragment(f) PROVE WosInv'
  <2>1. /\ f \in Actors /\ f # Check /\ UNCHANGED <<oidList, thread, ids, disturbed>>
        /\ ids[f] # <<>> /\ Delete(Head(ids[f])) /\ kept' = [kept EXCEPT ![f] = 0]
        /\ thread[f] = Resting
    BY Zenon, <1>3, IdsApart DEF DeleteFragment
  <2>2. thread'[f].pc = "rest" /\ thread' \in [Actors -> [pc : Steps, id : Oids]]
    BY <1>0, <2>1 DEF Resting, WosType
  <2>3. Head(ids[f]) = ids[f][1]
    BY <1>0, <2>1 DEF WosType
  <2> QED BY Zenon, <2>1, <2>2, <2>3, ObjectDeleted
<1> QED BY Zenon, <1>1, <1>2, <1>3


-----------------------------------------------------------------------------
(* The steps that use the lists.                                           *)
LEMMA SegfaultKeeps ==
  ASSUME WosInv, Segfault
  PROVE  WosInv'
<1>0. WosType /\ NotKeptYet
  BY Zenon DEF WosInv
<1>1. /\ thread' \in [Actors -> [pc : Steps, id : Oids]]
      /\ \A b \in Actors : thread'[b].pc = "rest" /\ thread'[b].id = None
  BY Zenon, <1>0, SegfaultFacts
<1>2. UNCHANGED <<store, ids, kept, disturbed>> /\ oidList' = None
  BY Zenon DEF Segfault
<1>3. Listed' \notin WObjs /\ disturbed' \subseteq Actors
  BY Zenon, <1>0, <1>2, IdsApart DEF Listed, WosType
<1>4. \A b \in Actors : ~Past(b)'
  BY Zenon, <1>1 DEF Past, AllocSteps
<1>5. UsersDisturbed'
  BY Zenon, <1>4 DEF UsersDisturbed
<1>6. NotKeptYet'
  BY Zenon, <1>0, <1>1, <1>2, <1>4, IdsApart DEF NotKeptYet
<1>7. \A f \in Frags : thread'[f].pc \in {"encode", "write"} => f \in disturbed'
  BY Zenon, <1>1, IdsApart
<1> QED BY Zenon, <1>1, <1>2, <1>3, <1>5, <1>6, <1>7, ListStep

(* The element of the list after an assignment.                            *)
LEMMA ListedFacts ==
  /\ oidList' = <<>> => Listed' = None
  /\ oidList' = None => Listed' = None
  /\ \A o \in WObjs \cup {BlankOid} : oidList' = <<o>> => Listed' = o
<1>1. ASSUME NEW o \in WObjs \cup {BlankOid} PROVE <<o>> # None /\ <<o>> # <<>> /\ <<o>>[1] = o
  <2>1. <<o>> \in Seq(WObjs \cup {BlankOid}) /\ <<o>> # <<>> /\ <<o>>[1] = o
    OBVIOUS
  <2>2. None \notin Seq(WObjs \cup {BlankOid})
    BY Zenon, WosAssumption
  <2> QED BY Zenon, <2>1, <2>2
<1> QED BY Zenon, <1>1 DEF Listed

LEMMA NewListKeeps ==
  ASSUME WosInv, NEW a \in Actors, NewOidList(a)
  PROVE  WosInv'
<1> DEFINE others == {b \in Actors \ {a} : InAlloc(b) /\ thread[b].pc # "oids"}
<1>0. WosType /\ NotKeptYet /\ thread[a].pc = "oids"
  BY Zenon DEF WosInv, NewOidList
<1>1. /\ "sizes" \in Steps /\ Goto(a, "sizes") /\ UNCHANGED <<store, ids, kept>>
      /\ oidList' = <<>>
      /\ disturbed' = IF others = {} THEN disturbed \ {a} ELSE disturbed \cup {a} \cup others
  BY Zenon DEF NewOidList, Steps, AllocSteps
<1>2. \A b \in Actors \ {a} : Past(b) => b \in others
  BY Zenon DEF Past, AllocSteps, InAlloc
<1> HIDE DEF others
<1>3. /\ thread' \in [Actors -> [pc : Steps, id : Oids]]
      /\ thread'[a].pc = "sizes" /\ thread'[a].id = thread[a].id
      /\ \A b \in Actors \ {a} : thread'[b] = thread[b]
  BY Zenon, <1>0, <1>1, GotoFacts
<1>4. \A b \in Actors \ {a} : Past(b)' => Past(b) /\ b \in disturbed' /\ a \in disturbed'
  BY Zenon, <1>1, <1>2, <1>3 DEF Past
<1>5. UsersDisturbed'
  BY Zenon, <1>4 DEF UsersDisturbed
<1>6. NotKeptYet'
  <2> SUFFICES ASSUME NEW f \in Frags
               PROVE  /\ ids[f] = <<>> \/ Past(f)' \/ thread'[f].pc = "oids" => kept[f] = 0
                      /\ thread'[f].pc = "replace" => ids[f] # <<>>
    BY Zenon, <1>1 DEF NotKeptYet
  <2>1. CASE f = a
    BY Zenon, <1>0, <1>3, <2>1 DEF NotKeptYet
  <2>2. CASE f # a
    BY Zenon, <1>0, <1>3, <1>4, <2>2, IdsApart DEF NotKeptYet
  <2> QED BY Zenon, <2>1, <2>2
<1>7. \A f \in Frags : thread'[f].pc \in {"encode", "write"} => f \in disturbed'
  <2> SUFFICES ASSUME NEW f \in Frags, thread'[f].pc \in {"encode", "write"} PROVE f \in disturbed'
    BY Zenon
  <2>1. f # a /\ f \in Actors /\ Past(f)'
    BY Zenon, <1>3, IdsApart DEF Past, AllocSteps
  <2> QED BY Zenon, <1>4, <2>1
<1>8. \A f \in Frags : kept[f] = 1 /\ f \in disturbed => f \in disturbed'
  BY <1>0, <1>1 DEF NotKeptYet
<1>9. disturbed' \subseteq Actors
  BY Zenon, <1>0, <1>1 DEF WosType, others
<1>10. Listed' \notin WObjs /\ oidList' \in Seq(WObjs \cup {BlankOid}) \cup {None}
  BY <1>1, ListedFacts, IdsApart
<1>11. \A b \in Actors : thread'[b].id \in {thread[b].id, None}
  BY Zenon, <1>3
<1> QED BY Zenon, <1>1, <1>3, <1>5, <1>6, <1>7, <1>8, <1>9, <1>10, <1>11, ListStep

(* A user of the lists puts no object into them.                           *)
LEMMA UserStep ==
  ASSUME WosInv, NEW a \in Actors, Past(a), UNCHANGED <<store, ids, kept, disturbed>>,
         oidList' \in Seq(WObjs \cup {BlankOid}) \cup {None}, Listed' \notin WObjs,
         thread' \in [Actors -> [pc : Steps, id : Oids]],
         thread'[a].pc \in {"rest", "reserve"}, thread'[a].id \in {thread[a].id, None},
         \A b \in Actors \ {a} : thread'[b] = thread[b]
  PROVE  WosInv'
<1>0. WosType /\ NotKeptYet /\ UsersDisturbed
  BY Zenon DEF WosInv
<1>1. \A b \in Actors : (Past(b)' => Past(b)) /\ thread'[b].id \in {thread[b].id, None}
  BY Zenon DEF Past
<1>2. UsersDisturbed'
  BY Zenon, <1>0, <1>1 DEF UsersDisturbed
<1>3. NotKeptYet'
  BY Zenon, <1>0, <1>1, IdsApart DEF NotKeptYet
<1>4. \A f \in Frags : thread'[f].pc \in {"encode", "write"} => f \in disturbed'
  BY Zenon, OneUser, IdsApart
<1>5. disturbed' \subseteq Actors
  BY Zenon, <1>0 DEF WosType
<1> QED BY Zenon, <1>1, <1>2, <1>3, <1>4, <1>5, ListStep

LEMMA WoidKeeps ==
  ASSUME WosInv, NEW a \in Actors, CreateWoid(a)
  PROVE  WosInv'
<1>1. CASE oidList = None \/ sizeList = None
  BY Zenon, <1>1, SegfaultKeeps DEF CreateWoid
<1>2. CASE ~(oidList = None \/ sizeList = None)
  <2>1. /\ "reserve" \in Steps /\ Goto(a, "reserve") /\ oidList' = <<BlankOid>>
        /\ UNCHANGED <<store, ids, kept, disturbed>> /\ WosType /\ Past(a)
    BY Zenon, <1>2 DEF CreateWoid, Steps, AllocSteps, Past, WosInv
  <2>2. /\ thread' \in [Actors -> [pc : Steps, id : Oids]]
        /\ thread'[a].pc = "reserve" /\ thread'[a].id = thread[a].id
        /\ \A b \in Actors \ {a} : thread'[b] = thread[b]
    BY Zenon, <2>1, GotoFacts
  <2>3. Listed' \notin WObjs /\ oidList' \in Seq(WObjs \cup {BlankOid}) \cup {None}
    BY <2>1, ListedFacts, IdsApart
  <2> QED BY Zenon, <2>1, <2>2, <2>3, UserStep
<1> QED BY Zenon, <1>1, <1>2

LEMMA ReserveKeeps ==
  ASSUME WosInv, NEW a \in Actors, Reserve(a)
  PROVE  WosInv'
<1>0. WosType /\ KnownGiven /\ UsersDisturbed /\ NotKeptYet /\ StoredAlone /\ Past(a)
  BY Zenon DEF WosInv, Reserve, Past, AllocSteps
<1>1. CASE Segfault
  BY Zenon, <1>1, SegfaultKeeps
<1>2. CASE DeleteOidList /\ Rest(a) /\ UNCHANGED <<store, ids, kept, disturbed>>
  <2>1. /\ thread' \in [Actors -> [pc : Steps, id : Oids]]
        /\ thread'[a].pc = "rest" /\ thread'[a].id = None
        /\ \A b \in Actors \ {a} : thread'[b] = thread[b]
    BY Zenon, <1>0, <1>2, RestFacts
  <2>2. Listed' \notin WObjs /\ oidList' \in Seq(WObjs \cup {BlankOid}) \cup {None}
    BY Zenon, <1>2, ListedFacts, IdsApart DEF DeleteOidList
  <2> QED BY Zenon, <1>0, <1>2, <2>1, <2>2, UserStep
<1>3. ASSUME NEW o \in WObjs, store[o] = None, store' = [store EXCEPT ![o] = Reserved],
             oidList' = <<o>>, Goto(a, "encode"), UNCHANGED <<ids, kept, disturbed>>
      PROVE  WosInv'
  <2>0. "encode" \in Steps
    BY Zenon DEF Steps, AllocSteps
  <2>1. /\ thread' \in [Actors -> [pc : Steps, id : Oids]]
        /\ thread'[a].pc = "encode" /\ thread'[a].id = thread[a].id
        /\ \A b \in Actors \ {a} : thread'[b] = thread[b]
    BY Zenon, <1>0, <1>3, <2>0, GotoFacts
  <2>2. Listed' = o
    BY Zenon, <1>3, ListedFacts
  <2>3. /\ store' \in [WObjs -> {None, Reserved, Deleted} \cup (Actors \X Nat)]
        /\ store'[o] = Reserved /\ Reserved # None
        /\ \A x \in WObjs \ {o} : store'[x] = store[x]
    BY Zenon, <1>0, <1>3, WosAssumption DEF WosType
  <2>4. oidList' \in Seq(WObjs \cup {BlankOid})
    BY <1>3
  <2>5. WosType'
    BY Zenon, <1>0, <1>3, <2>1, <2>3, <2>4 DEF WosType
  <2>6. \A b \in Actors : (Past(b)' => Past(b)) /\ thread'[b].id = thread[b].id
    BY Zenon, <1>0, <2>1 DEF Past
  <2>7. KnownGiven'
    BY <1>0, <1>3, <2>2, <2>3, <2>6 DEF KnownGiven
  <2>8. UsersDisturbed'
    BY Zenon, <1>0, <1>3, <2>6 DEF UsersDisturbed
  <2>9. NotKeptYet'
    <3>1. \A f \in Frags : thread'[f].pc \in {"oids", "replace"} => thread'[f].pc = thread[f].pc
      BY Zenon, <2>1, IdsApart
    <3> QED BY Zenon, <1>0, <1>3, <2>6, <3>1, IdsApart DEF NotKeptYet
  <2>10. \A f \in Frags : Only(f, o)'
    BY Zenon, <1>0, <1>3, <2>6, IdsApart DEF KnownGiven, Only
  <2>11. WritesOwn'
    <3> SUFFICES ASSUME NEW f \in Frags, thread'[f].pc \in {"encode", "write"}, f \notin disturbed
                 PROVE  /\ o \in WObjs /\ store'[o] = Reserved /\ Only(f, o)'
                        /\ thread'[f].pc = "write" => ids'[f] # <<>> /\ ids'[f][Len(ids'[f])] = o
      BY Zenon, <1>3, <2>2 DEF WritesOwn, Only
    <3>1. f = a
      BY Zenon, <1>0, <2>1, OneUser, IdsApart
    <3> QED BY Zenon, <2>1, <2>3, <2>10, <3>1
  <2>12. StoredAlone'
    <3> SUFFICES ASSUME NEW f \in Frags, kept[f] = 1, Len(ids[f]) = 1, f \notin disturbed
                 PROVE  /\ ids[f][1] \in WObjs /\ store'[ids[f][1]] = <<f, 1>>
                        /\ Only(f, ids[f][1])' /\ o # ids[f][1]
      BY Zenon, <1>3, <2>2 DEF StoredAlone, Only
    <3>1. /\ ids[f][1] \in WObjs /\ store[ids[f][1]] = <<f, 1>> /\ Only(f, ids[f][1])
      BY Zenon, <1>0 DEF StoredAlone
    <3>2. <<f, 1>> # None
      BY WosAssumption DEF Actors
    <3>3. Only(f, ids[f][1])'
      BY Zenon, <1>3, <2>6, <3>1, IdsApart DEF Only
    <3> QED BY Zenon, <1>3, <2>3, <3>1, <3>2, <3>3
  <2> QED BY Zenon, <2>5, <2>7, <2>8, <2>9, <2>11, <2>12 DEF WosInv
<1> QED BY Zenon, <1>1, <1>2, <1>3 DEF Reserve

LEMMA EncodeKeeps ==
  ASSUME WosInv, NEW a \in Actors, Encode(a)
  PROVE  WosInv'
<1> DEFINE Alone(f, o) == /\ \A g \in Frags \ {f} : \A n \in DOMAIN ids'[g] : ids'[g][n] # o
                          /\ thread'[Check].id # o
<1>0. /\ WosType /\ KnownGiven /\ UsersDisturbed /\ WritesOwn /\ NotKeptYet /\ StoredAlone
      /\ thread[a].pc = "encode" /\ Past(a)
  BY Zenon DEF WosInv, Encode, Past, AllocSteps
<1>1. /\ ids' = IF a = Check THEN ids ELSE [ids EXCEPT ![a] = Append(@, Listed)]
      /\ Rest(a) \/ (Listed # None /\ thread' = [thread EXCEPT ![a] = [pc |-> "write", id |-> Listed]])
      /\ UNCHANGED <<store, oidList, kept, disturbed>>
  BY Zenon DEF Encode, Listed
<1>2. Listed' = Listed /\ Listed \in Oids
  <2>1. ASSUME oidList \notin {None, <<>>} PROVE oidList[1] \in WObjs \cup {BlankOid}
    BY <1>0, <2>1 DEF WosType
  <2> QED BY Zenon, <1>1, <2>1 DEF Listed, Oids
<1> HIDE DEF Listed
<1>3. /\ thread' \in [Actors -> [pc : Steps, id : Oids]]
      /\ \/ thread'[a].pc = "rest" /\ thread'[a].id = None
         \/ thread'[a].pc = "write" /\ thread'[a].id = Listed
      /\ \A b \in Actors \ {a} : thread'[b] = thread[b]
  <2>1. CASE Rest(a)
    BY Zenon, <1>0, <2>1, RestFacts
  <2>2. CASE thread' = [thread EXCEPT ![a] = [pc |-> "write", id |-> Listed]]
    <3>1. [pc |-> "write", id |-> Listed] \in [pc : Steps, id : Oids]
      BY Zenon, <1>2 DEF Steps, AllocSteps
    <3> QED BY Zenon, <1>0, <2>2, <3>1 DEF WosType
  <2> QED BY Zenon, <1>1, <2>1, <2>2
<1>4. /\ ids' \in [Frags -> Seq(Oids)]
      /\ \A g \in Frags \ {a} : ids'[g] = ids[g]
      /\ a \in Frags => /\ Len(ids'[a]) = Len(ids[a]) + 1 /\ ids'[a] # <<>>
                        /\ ids'[a][Len(ids'[a])] = Listed
                        /\ \A n \in DOMAIN ids'[a] : ids'[a][n] = Listed \/ (n \in DOMAIN ids[a] /\ ids'[a][n] = ids[a][n])
  <2>1. CASE a = Check
    BY Zenon, <1>0, <1>1, <2>1, IdsApart DEF WosType
  <2>2. CASE a # Check
    <3> DEFINE s == ids[a]
               t == Append(s, Listed)
    <3>1. a \in Frags
      BY Zenon, <2>2 DEF Actors
    <3>2. s \in Seq(Oids)
      BY Zenon, <1>0, <3>1 DEF WosType
    <3>3. /\ t \in Seq(Oids) /\ Len(t) = Len(s) + 1 /\ t # <<>> /\ t[Len(t)] = Listed
          /\ \A n \in DOMAIN t : t[n] = Listed \/ (n \in DOMAIN s /\ t[n] = s[n])
      <4> HIDE DEF s
      <4> QED BY <1>2, <3>2
    <3>4. ids' = [ids EXCEPT ![a] = t]
      BY Zenon, <1>1, <2>2
    <3>5. ids'[a] = t /\ ids' \in [Frags -> Seq(Oids)] /\ \A g \in Frags \ {a} : ids'[g] = ids[g]
      <4> HIDE DEF t, s
      <4> QED BY Zenon, <1>0, <3>1, <3>3, <3>4 DEF WosType
    <3> QED BY Zenon, <3>3, <3>5
  <2> QED BY Zenon, <2>1, <2>2
<1>5. \A b \in Actors : /\ Past(b)' => Past(b)
                        /\ thread'[b].id \in {thread[b].id, None, Listed}
                        /\ b # a => thread'[b].id = thread[b].id
  BY Zenon, <1>0, <1>3 DEF Past
<1>6. WosType'
  BY Zenon, <1>0, <1>1, <1>3, <1>4 DEF WosType
<1>7. KnownGiven'
  <2>1. \A b \in Actors : thread'[b].id \in WObjs => store[thread'[b].id] # None
    BY Zenon, <1>0, <1>5, IdsApart DEF KnownGiven
  <2>2. ASSUME NEW f \in Frags, NEW n \in DOMAIN ids'[f], ids'[f][n] \in WObjs
        PROVE  store[ids'[f][n]] # None
    BY <1>0, <1>4, <2>2 DEF KnownGiven
  <2> QED BY Zenon, <1>0, <1>1, <1>2, <2>1, <2>2 DEF KnownGiven
<1>8. UsersDisturbed'
  BY Zenon, <1>0, <1>1, <1>5 DEF UsersDisturbed
<1>9. NotKeptYet'
  <2> SUFFICES ASSUME NEW f \in Frags
               PROVE  /\ ids'[f] = <<>> \/ Past(f)' \/ thread'[f].pc = "oids" => kept[f] = 0
                      /\ thread'[f].pc = "replace" => ids'[f] # <<>>
    BY Zenon, <1>1 DEF NotKeptYet
  <2>1. CASE f = a
    BY Zenon, <1>0, <1>3, <2>1 DEF NotKeptYet
  <2>2. CASE f # a
    BY Zenon, <1>0, <1>3, <1>4, <1>5, <2>2, IdsApart DEF NotKeptYet
  <2> QED BY Zenon, <2>1, <2>2
<1>10. \A f \in Frags, o \in WObjs : Only(f, o) /\ (f # a => Listed # o) => Alone(f, o)
  <2> SUFFICES ASSUME NEW f \in Frags, NEW o \in WObjs, Only(f, o), f # a => Listed # o PROVE Alone(f, o)
    BY Zenon
  <2>1. ASSUME NEW g \in Frags \ {f}, NEW n \in DOMAIN ids'[g] PROVE ids'[g][n] # o
    BY <1>4, <2>1 DEF Only
  <2>2. thread'[Check].id # o
    BY Zenon, <1>5, IdsApart DEF Only
  <2> QED BY Zenon, <2>1, <2>2
<1> HIDE DEF Alone
<1>11. WritesOwn'
  <2> SUFFICES ASSUME NEW f \in Frags, thread'[f].pc \in {"encode", "write"}, f \notin disturbed
               PROVE  /\ Listed \in WObjs /\ store[Listed] = Reserved /\ Alone(f, Listed)
                      /\ thread'[f].pc = "write" => ids'[f] # <<>> /\ ids'[f][Len(ids'[f])] = Listed
    BY <1>1, <1>2 DEF WritesOwn, Only, Alone
  <2>1. f = a
    BY Zenon, <1>0, <1>3, OneUser, IdsApart
  <2>2. Listed \in WObjs /\ store[Listed] = Reserved /\ Only(f, Listed)
    BY Zenon, <1>0, <2>1 DEF WritesOwn
  <2> QED BY Zenon, <1>4, <1>10, <2>1, <2>2
<1>12. StoredAlone'
  <2> SUFFICES ASSUME NEW f \in Frags, kept[f] = 1, Len(ids'[f]) = 1, f \notin disturbed
               PROVE  /\ ids'[f][1] \in WObjs /\ store[ids'[f][1]] = <<f, 1>> /\ Alone(f, ids'[f][1])
                      /\ Listed # ids'[f][1]
    BY Zenon, <1>1, <1>2 DEF StoredAlone, Only, Alone
  <2>1. f # a /\ ids'[f] = ids[f]
    BY <1>0, <1>4 DEF NotKeptYet
  <2>2. /\ ids[f][1] \in WObjs /\ store[ids[f][1]] = <<f, 1>> /\ Only(f, ids[f][1])
        /\ Listed # ids[f][1]
    BY Zenon, <1>0, <2>1 DEF StoredAlone
  <2> QED BY Zenon, <1>10, <2>1, <2>2
<1> QED BY Zenon, <1>6, <1>7, <1>8, <1>9, <1>11, <1>12 DEF WosInv


LEMMA WriteKeeps ==
  ASSUME WosInv, NEW a \in Actors, WosWrite(a)
  PROVE  WosInv'
<1>0. /\ WosType /\ KnownGiven /\ UsersDisturbed /\ WritesOwn /\ NotKeptYet /\ StoredAlone
      /\ thread[a].pc = "write" /\ Past(a)
  BY Zenon DEF WosInv, WosWrite, Past, AllocSteps
<1>1. CASE Segfault
  BY Zenon, <1>1, SegfaultKeeps
<1>2. CASE Rest(a) /\ UNCHANGED <<store, oidList, sizeList, ids, kept, disturbed>>
  BY Zenon, <1>2, ThreadReturns
<1>3. CASE /\ oidList # None
           /\ \/ oidList = <<>> /\ UNCHANGED store
              \/ /\ oidList # <<>> /\ oidList[1] \in WObjs /\ store[oidList[1]] = Reserved
                 /\ store' = [store EXCEPT ![oidList[1]] = <<a, IF a = Check THEN 0 ELSE Len(ids[a])>>]
           /\ Written(a) /\ UNCHANGED <<oidList, ids, disturbed>>
  <2> DEFINE d == <<a, IF a = Check THEN 0 ELSE Len(ids[a])>>
  <2>1. d \in Actors \X Nat /\ d # None
    <3>1. a # Check => ids[a] \in Seq(Oids)
      BY Zenon, <1>0 DEF WosType, Actors
    <3>2. d \in Actors \X Nat
      BY <3>1
    <3> QED BY Zenon, <3>2, WosAssumption
  <2>2. /\ Listed' = Listed
        /\ \/ Listed = None /\ UNCHANGED store
           \/ Listed \in WObjs /\ store[Listed] = Reserved /\ store' = [store EXCEPT ![Listed] = d]
    BY Zenon, <1>3 DEF Listed
  <2> HIDE DEF d
  <2>3. /\ store' \in [WObjs -> {None, Reserved, Deleted} \cup (Actors \X Nat)]
        /\ \A x \in WObjs : store'[x] = store[x] \/ (x = Listed /\ store[x] = Reserved /\ store'[x] = d)
        /\ Listed \in WObjs => store'[Listed] = d
    BY ZenonT(60), <1>0, <2>1, <2>2, IdsApart DEF WosType
  <2>4. /\ thread' \in [Actors -> [pc : Steps, id : Oids]]
        /\ thread'[a].pc = (IF a = Check THEN "read" ELSE "rest")
        /\ thread'[a].id \in {thread[a].id, None}
        /\ \A b \in Actors \ {a} : thread'[b] = thread[b]
    <3>1. CASE a = Check
      <4>1. "read" \in Steps /\ Goto(a, "read")
        BY Zenon, <1>3, <3>1 DEF Steps, Written
      <4>2. /\ thread' \in [Actors -> [pc : Steps, id : Oids]]
            /\ thread'[a].pc = "read" /\ thread'[a].id = thread[a].id
            /\ \A b \in Actors \ {a} : thread'[b] = thread[b]
        BY Zenon, <1>0, <4>1, GotoFacts
      <4> QED BY Zenon, <3>1, <4>2
    <3>2. CASE a # Check
      <4>1. Rest(a)
        BY Zenon, <1>3, <3>2 DEF Written
      <4>2. /\ thread' \in [Actors -> [pc : Steps, id : Oids]]
            /\ thread'[a].pc = "rest" /\ thread'[a].id = None
            /\ \A b \in Actors \ {a} : thread'[b] = thread[b]
        BY Zenon, <1>0, <4>1, RestFacts
      <4> QED BY Zenon, <3>2, <4>2
    <3> QED BY Zenon, <3>1, <3>2
  <2>5. /\ kept' \in [Frags -> Nat]
        /\ \A f \in Frags \ {a} : kept'[f] = kept[f]
        /\ a \in Frags => kept'[a] = Len(ids[a])
    <3>1. CASE a = Check
      BY Zenon, <1>0, <1>3, <3>1, IdsApart DEF Written, WosType
    <3>2. CASE a # Check
      <4>1. a \in Frags /\ kept' = [kept EXCEPT ![a] = Len(ids[a])]
        BY Zenon, <1>3, <3>2 DEF Written, Actors
      <4>2. Len(ids[a]) \in Nat
        BY <1>0, <4>1 DEF WosType
      <4> QED BY Zenon, <1>0, <4>1, <4>2 DEF WosType
    <3> QED BY Zenon, <3>1, <3>2
  <2>6. ~Past(a)' /\ \A b \in Actors : (Past(b)' => Past(b)) /\ thread'[b].id \in {thread[b].id, None}
    BY Zenon, <2>4 DEF Past, AllocSteps
  <2>7. WosType'
    BY Zenon, <1>0, <1>3, <2>3, <2>4, <2>5 DEF WosType
  <2>8. KnownGiven'
    <3>1. \A x \in WObjs : store[x] # None => store'[x] # None
      BY Zenon, <2>1, <2>3
    <3>2. Listed' \in WObjs => store'[Listed'] # None
      BY Zenon, <1>0, <2>2, <3>1 DEF KnownGiven
    <3>3. \A b \in Actors : thread'[b].id \in WObjs => store'[thread'[b].id] # None
      BY Zenon, <1>0, <2>6, <3>1, IdsApart DEF KnownGiven
    <3>4. \A f \in Frags : \A n \in DOMAIN ids'[f] : ids'[f][n] \in WObjs => store'[ids'[f][n]] # None
      BY Zenon, <1>0, <1>3, <3>1 DEF KnownGiven
    <3> QED BY Zenon, <3>2, <3>3, <3>4 DEF KnownGiven
  <2>9. UsersDisturbed'
    BY Zenon, <1>0, <1>3, <2>6 DEF UsersDisturbed
  <2>10. NotKeptYet'
    <3> SUFFICES ASSUME NEW f \in Frags
                 PROVE  /\ ids[f] = <<>> \/ Past(f)' \/ thread'[f].pc = "oids" => kept'[f] = 0
                        /\ thread'[f].pc = "replace" => ids[f] # <<>>
      BY Zenon, <1>3 DEF NotKeptYet
    <3>1. CASE f = a
      BY Zenon, <2>4, <2>5, <2>6, <3>1
    <3>2. CASE f # a
      BY Zenon, <1>0, <2>4, <2>5, <2>6, <3>2, IdsApart DEF NotKeptYet
    <3> QED BY Zenon, <3>1, <3>2
  <2>11. \A f \in Frags : thread'[f].pc \in {"encode", "write"} => f \in disturbed
    <3> SUFFICES ASSUME NEW f \in Frags, thread'[f].pc \in {"encode", "write"} PROVE f \in disturbed
      BY Zenon
    <3>1. f # a /\ thread[f].pc \in {"encode", "write"}
      BY Zenon, <2>4, IdsApart
    <3> QED BY Zenon, <1>0, <3>1, OneUser
  <2>12. WritesOwn'
    BY Zenon, <1>3, <2>11 DEF WritesOwn
  <2>13. StoredAlone'
    <3> SUFFICES ASSUME NEW f \in Frags, kept'[f] = 1, Len(ids[f]) = 1, f \notin disturbed
                 PROVE  /\ ids[f][1] \in WObjs /\ store'[ids[f][1]] = <<f, 1>>
                        /\ \A g \in Frags \ {f} : \A n \in DOMAIN ids[g] : ids[g][n] # ids[f][1]
                        /\ thread'[Check].id # ids[f][1]
                        /\ Listed = ids[f][1] => \A b \in Actors : ~Past(b)'
      BY ZenonT(60), <1>3, <2>2 DEF StoredAlone, Only
    <3>1. CASE f = a
      <4>1. Listed \in WObjs /\ Only(a, Listed) /\ ids[a][1] = Listed
        BY Zenon, <1>0, <3>1 DEF WritesOwn
      <4>2. store'[Listed] = <<a, 1>>
        BY Zenon, <2>3, <3>1, <4>1, IdsApart DEF d
      <4>3. \A b \in Actors : ~Past(b)'
        BY Zenon, <1>0, <2>6, <3>1 DEF UsersDisturbed
      <4> QED BY Zenon, <2>6, <3>1, <4>1, <4>2, <4>3, IdsApart DEF Only
    <3>2. CASE f # a
      <4>1. /\ ids[f][1] \in WObjs /\ store[ids[f][1]] = <<f, 1>> /\ Only(f, ids[f][1])
            /\ Listed # ids[f][1]
        BY Zenon, <1>0, <2>5, <3>2 DEF StoredAlone
      <4>2. store'[ids[f][1]] = <<f, 1>>
        BY Zenon, <2>3, <4>1
      <4> QED BY Zenon, <2>6, <4>1, <4>2, IdsApart DEF Only
    <3> QED BY Zenon, <3>1, <3>2
  <2> QED BY Zenon, <2>7, <2>8, <2>9, <2>10, <2>12, <2>13 DEF WosInv
<1> QED BY Zenon, <1>1, <1>2, <1>3 DEF WosWrite

-----------------------------------------------------------------------------
LEMMA WosInitially == WosInit => WosInv
<1> SUFFICES ASSUME WosInit PROVE WosInv
  BY Zenon
<1>1. /\ store = [o \in WObjs |-> None] /\ oidList = None
      /\ ids = [f \in Frags |-> <<>>] /\ kept = [f \in Frags |-> 0] /\ disturbed = {}
      /\ Listed = None
  BY Zenon DEF WosInit, Listed
<1>2. /\ thread \in [Actors -> [pc : Steps, id : Oids]]
      /\ \A a \in Actors : thread[a].pc = "rest" /\ thread[a].id = None /\ ~Past(a)
  BY Zenon DEF WosInit, Resting, Steps, AllocSteps, Oids, Past
<1>3. WosType
  BY <1>1, <1>2 DEF WosType
<1>4. KnownGiven
  BY <1>1, <1>2, IdsApart DEF KnownGiven
<1>5. UsersDisturbed /\ WritesOwn /\ NotKeptYet /\ StoredAlone
  BY <1>1, <1>2, IdsApart DEF UsersDisturbed, WritesOwn, NotKeptYet, StoredAlone
<1> QED BY Zenon, <1>3, <1>4, <1>5 DEF WosInv

LEMMA WosPreserved == WosInv /\ [WosNext]_wosVars => WosInv'
<1> SUFFICES ASSUME WosInv, [WosNext]_wosVars PROVE WosInv'
  BY Zenon
<1>1. ASSUME NEW a \in Actors, WosStep(a) PROVE WosInv'
  BY Zenon, <1>1, NewListKeeps, SizesMade, WoidKeeps, ReserveKeeps, EncodeKeeps, WriteKeeps DEF WosStep
<1>2. ASSUME NEW f \in Frags, WosUpdate(f) \/ Replace(f) \/ DeleteFragment(f) PROVE WosInv'
  BY Zenon, <1>2, UpdateStarts, DeletionsKeep
<1>3. CASE StartCheck
  BY Zenon, <1>3, CheckGoesOn DEF StartCheck
<1>4. CASE CheckRead
  BY Zenon, <1>4, CheckGoesOn, ThreadReturns, IdsApart DEF CheckRead
<1>5. CASE CheckDelete
  BY Zenon, <1>5, DeletionsKeep
<1>6. CASE UNCHANGED wosVars
  BY <1>6 DEF wosVars, WosInv, WosType, KnownGiven, UsersDisturbed, WritesOwn, NotKeptYet, StoredAlone,
              Only, Past, Listed
<1> QED BY Zenon, <1>1, <1>2, <1>3, <1>4, <1>5, <1>6 DEF WosNext

(* For any number of fragments, objects and ids per fragment: what an      *)
(* undisturbed update has put into WOS is read back as it was stored       *)
(* (wos.c: alloc, write and retrieve), although threads and the            *)
(* performance check share the lists of the backend.                       *)
THEOREM WosKeepsData == WosSpec => []WosDataKept
<1>1. WosInv => WosDataKept
  <2> SUFFICES ASSUME WosInv, NEW f \in Frags, kept[f] = 1, Len(ids[f]) = 1, f \notin disturbed
               PROVE  Retrieved(f) = <<f, 1>>
    BY Zenon DEF WosDataKept
  <2>1. ids[f][1] \in WObjs /\ store[ids[f][1]] = <<f, 1>> /\ ids[f] \in Seq(Oids)
    BY Zenon DEF WosInv, StoredAlone, WosType
  <2>2. ids[f] # <<>> /\ Head(ids[f]) = ids[f][1]
    BY <2>1
  <2>3. <<f, 1>> \notin {None, Reserved, Deleted}
    BY WosAssumption DEF Reserved, Deleted, Actors
  <2> QED BY Zenon, <2>1, <2>2, <2>3 DEF Retrieved, HasData
<1> QED BY <1>1, WosInitially, WosPreserved, PTL DEF WosSpec
=============================================================================
