------------------------- MODULE MotrObjects_proofs -------------------------
(***************************************************************************)
(* The Motr backend, for any number of sessions, their crashes and a       *)
(* formatting: its two indices agree in every state (IndicesAgree), and a  *)
(* stored fragment of a dataset that is not tainted keeps its data         *)
(* (MotrKeepsData).                                                        *)
(***************************************************************************)
EXTENDS MotrObjects, TLAPS

FormatSteps == {"delname", "deltail", "mkname", "mktail"}
ObjectSteps == {"gettail", "puttail", "putname", "regettail", "readtail", "open", "write", "read"}
CachedSteps == {"open", "write", "read"}

SessionActs == [pc : {"idle", "fini"} \cup FormatSteps]
SearchActs == [pc : {"getname", "alloc"}, f : Frags, obj : Objs \cup {None}, pos : Nat]
ObjectActs == [pc : ObjectSteps, f : Frags, obj : Objs, pos : Nat]
Acts == SessionActs \cup SearchActs \cup ObjectActs

TypeInv ==
  /\ nameIdx \in [Datasets -> Objs \cup {None}]
  /\ tailIdx \in [Objs -> Nat \cup {None}]
  /\ running \in SUBSET Procs
  /\ conMap \in [Procs -> [Datasets -> Pairs \cup {None}]]
  /\ act \in [Procs -> Acts]
  /\ frag \in [Frags -> [id : Positions \cup {None}, stored : Nat]]

(* A session acts while it runs; the tool that formats runs alone.         *)
SessionInv ==
  \A p \in Procs : /\ p \notin running => act[p] = Idle
                   /\ act[p].pc \in FormatSteps => running = {p}

(* A pair is there when its handle is used.                                *)
CacheInv == \A p \in Procs : act[p].pc \in CachedSteps => conMap[p][D(p)] # None

(* The tail of a new object is stored before its name, and the names are   *)
(* deleted before the tails.                                               *)
OrderInv ==
  \A p \in Procs : /\ act[p].pc = "putname" => tailIdx[act[p].obj] # None
                   /\ act[p].pc = "deltail" => \A d \in Datasets : nameIdx[d] = None

MotrInv == TypeInv /\ SessionInv /\ CacheInv /\ OrderInv /\ NameHasTail

-----------------------------------------------------------------------------
LEMMA InitialState ==
  ASSUME MotrInit
  PROVE  MotrInv
<1>1. act \in [Procs -> Acts]
  BY Zenon DEF MotrInit, Idle, Acts, SessionActs
<1>2. frag \in [Frags -> [id : Positions \cup {None}, stored : Nat]]
  BY Zenon DEF MotrInit
<1>3. conMap \in [Procs -> [Datasets -> Pairs \cup {None}]]
  BY Zenon DEF MotrInit
<1>4. TypeInv
  BY Zenon, <1>1, <1>2, <1>3 DEF MotrInit, TypeInv
<1>5. \A p \in Procs : act[p] = Idle /\ act[p].pc = "idle"
  BY Zenon DEF MotrInit, Idle
<1>6. SessionInv /\ CacheInv /\ OrderInv
  BY Zenon, <1>5 DEF SessionInv, CacheInv, OrderInv, FormatSteps, CachedSteps
<1>7. NameHasTail
  BY Zenon DEF MotrInit, NameHasTail
<1> QED BY Zenon, <1>4, <1>6, <1>7 DEF MotrInv

LEMMA FragmentFacts ==
  \A f \in Frags : DatasetOf[f] \in Datasets /\ SizeOf[f] \in Nat /\ SizeOf[f] <= MaxBlock
BY MotrAssumption

\* What the step of a process is about, by its name.
LEMMA ActShape ==
  ASSUME MotrInv, NEW p \in Procs
  PROVE  /\ act[p].pc \in ObjectSteps =>
              act[p] \in ObjectActs /\ act[p].f \in Frags /\ act[p].obj \in Objs
         /\ act[p].pc \in {"getname", "alloc"} => act[p] \in SearchActs /\ act[p].f \in Frags
         /\ act[p].pc \in {"idle", "fini"} \cup FormatSteps => act[p] \in SessionActs
BY Zenon DEF MotrInv, TypeInv, Acts, ObjectActs, SearchActs, SessionActs, ObjectSteps, FormatSteps

\* A step of a running session that deletes no tail: it changes its own
\* activity and its own pairs, and names only objects that have a tail.
LEMMA LocalStep ==
  ASSUME MotrInv,
         NEW p \in Procs, p \in running, running' = running,
         NEW a \in Acts, act' = [act EXCEPT ![p] = a],
         NEW m \in [Datasets -> Pairs \cup {None}], conMap' = [conMap EXCEPT ![p] = m],
         frag' \in [Frags -> [id : Positions \cup {None}, stored : Nat]],
         tailIdx' \in [Objs -> Nat \cup {None}],
         nameIdx' \in [Datasets -> Objs \cup {None}],
         \A o \in Objs : tailIdx[o] # None => tailIdx'[o] # None,
         \A d \in Datasets : nameIdx'[d] \notin {nameIdx[d], None} => tailIdx'[nameIdx'[d]] # None,
         a.pc \in FormatSteps => running = {p},
         a.pc \in CachedSteps => m[DatasetOf[a.f]] # None,
         a.pc = "putname" => tailIdx'[a.obj] # None,
         a.pc = "deltail" => \A d \in Datasets : nameIdx'[d] = None
  PROVE  MotrInv'
<1> USE DEF MotrInv
<1>1. act'[p] = a /\ \A q \in Procs : q # p => act'[q] = act[q]
  BY Zenon DEF TypeInv
<1>2. conMap'[p] = m /\ \A q \in Procs : q # p => conMap'[q] = conMap[q]
  BY Zenon DEF TypeInv
<1>3. TypeInv'
  <2>1. act' \in [Procs -> Acts]
    BY Zenon DEF TypeInv
  <2>2. conMap' \in [Procs -> [Datasets -> Pairs \cup {None}]]
    BY Zenon DEF TypeInv
  <2> QED BY Zenon, <2>1, <2>2 DEF TypeInv
<1>4. SessionInv'
  BY Zenon, <1>1 DEF SessionInv
<1>5. CacheInv'
  BY <1>1, <1>2 DEF CacheInv, D
<1>6. OrderInv'
  <2> SUFFICES ASSUME NEW q \in Procs
               PROVE  /\ act'[q].pc = "putname" => tailIdx'[act'[q].obj] # None
                      /\ act'[q].pc = "deltail" => \A d \in Datasets : nameIdx'[d] = None
    BY Zenon DEF OrderInv
  <2>1. CASE q = p
    BY Zenon, <1>1, <2>1
  <2>2. CASE q # p
    <3>1. act'[q] = act[q] /\ act[q].pc \notin FormatSteps
      BY <1>1, <2>2 DEF SessionInv
    <3>2. act[q].pc = "putname" => act[q].obj \in Objs /\ tailIdx[act[q].obj] # None
      BY Zenon, ActShape DEF OrderInv, ObjectSteps
    <3> QED BY Zenon, <3>1, <3>2 DEF FormatSteps
  <2> QED BY Zenon, <2>1, <2>2
<1>7. NameHasTail'
  <2> SUFFICES ASSUME NEW d \in Datasets, nameIdx'[d] # None
               PROVE  tailIdx'[nameIdx'[d]] # None
    BY Zenon DEF NameHasTail
  <2>1. CASE nameIdx'[d] = nameIdx[d]
    BY Zenon, <2>1 DEF NameHasTail, TypeInv
  <2> QED BY Zenon, <2>1
<1> QED BY Zenon, <1>3, <1>4, <1>5, <1>6, <1>7

\* A process starts, ends or dies.
LEMMA SessionStep ==
  ASSUME MotrInv, NEW p \in Procs,
         UNCHANGED <<nameIdx, tailIdx>>,
         frag' \in [Frags -> [id : Positions \cup {None}, stored : Nat]],
         act' = [act EXCEPT ![p] = Idle],
         NEW m \in [Datasets -> Pairs \cup {None}], conMap' = [conMap EXCEPT ![p] = m],
         \/ running' = running \ {p}
         \/ running' = running \cup {p} /\ ~Formatting
  PROVE  MotrInv'
<1> USE DEF MotrInv
<1>1. act'[p] = Idle /\ act'[p].pc = "idle" /\ \A q \in Procs : q # p => act'[q] = act[q]
  BY Zenon DEF TypeInv, Idle
<1>2. \A q \in Procs : q # p => conMap'[q] = conMap[q]
  BY Zenon DEF TypeInv
<1>3. TypeInv'
  <2>1. act' \in [Procs -> Acts]
    BY Zenon DEF TypeInv, Acts, SessionActs, Idle
  <2>2. conMap' \in [Procs -> [Datasets -> Pairs \cup {None}]]
    BY Zenon DEF TypeInv
  <2> QED BY Zenon, <2>1, <2>2 DEF TypeInv
<1>4. SessionInv'
  BY Zenon, <1>1 DEF SessionInv, FormatSteps, Formatting
<1>5. CacheInv'
  BY <1>1, <1>2 DEF CacheInv, D, CachedSteps
<1>6. OrderInv'
  BY <1>1 DEF OrderInv
<1>7. NameHasTail'
  BY Zenon DEF NameHasTail
<1> QED BY Zenon, <1>3, <1>4, <1>5, <1>6, <1>7

\* Facts about the acting process that most steps need.
LEMMA Acting ==
  ASSUME MotrInv, NEW p \in Procs
  PROVE  /\ act[p].pc # "idle" => p \in running
         /\ conMap[p] \in [Datasets -> Pairs \cup {None}]
         /\ conMap = [conMap EXCEPT ![p] = conMap[p]]
         /\ Idle \in Acts /\ Idle.pc = "idle"
         /\ \A d \in Datasets : conMap[p][d] # None => conMap[p][d] \in Pairs
BY DEF MotrInv, TypeInv, SessionInv, Idle, Acts, SessionActs

\* The step of a session that leaves the indices and its pairs alone.
LEMMA QuietStep ==
  ASSUME MotrInv,
         NEW p \in Procs, p \in running,
         NEW a \in Acts, act' = [act EXCEPT ![p] = a],
         frag' \in [Frags -> [id : Positions \cup {None}, stored : Nat]],
         UNCHANGED <<running, conMap, nameIdx, tailIdx>>,
         a.pc \in FormatSteps => running = {p},
         a.pc \in CachedSteps => conMap[p][DatasetOf[a.f]] # None,
         a.pc \notin {"putname", "deltail"}
  PROVE  MotrInv'
<1>1. tailIdx' \in [Objs -> Nat \cup {None}] /\ nameIdx' \in [Datasets -> Objs \cup {None}]
  BY Zenon DEF MotrInv, TypeInv
<1>2. conMap[p] \in [Datasets -> Pairs \cup {None}] /\ conMap' = [conMap EXCEPT ![p] = conMap[p]]
  BY Zenon, Acting
<1> QED BY Zenon, <1>1, <1>2, LocalStep

\* The session gives up, or is done.
LEMMA ReturnStep ==
  ASSUME MotrInv,
         NEW p \in Procs, p \in running, Finish(p),
         frag' \in [Frags -> [id : Positions \cup {None}, stored : Nat]],
         UNCHANGED <<running, conMap, nameIdx, tailIdx>>
  PROVE  MotrInv'
BY Zenon, Acting, QuietStep DEF Finish, FormatSteps, CachedSteps

\* The session goes on with a pair in its con_map.
LEMMA PairStep ==
  ASSUME MotrInv,
         NEW p \in Procs, p \in running,
         NEW a \in ObjectActs, a.pc \in CachedSteps, act' = [act EXCEPT ![p] = a],
         NEW pair \in Pairs, conMap' = [conMap EXCEPT ![p][DatasetOf[a.f]] = pair],
         frag' \in [Frags -> [id : Positions \cup {None}, stored : Nat]],
         UNCHANGED <<running, tailIdx>>,
         nameIdx' \in [Datasets -> Objs \cup {None}],
         \A d \in Datasets : nameIdx'[d] # nameIdx[d] => tailIdx'[nameIdx'[d]] # None
  PROVE  MotrInv'
<1> DEFINE m == [conMap[p] EXCEPT ![DatasetOf[a.f]] = pair]
<1>1. DatasetOf[a.f] \in Datasets
  BY Zenon, MotrAssumption DEF ObjectActs
<1>2. m \in [Datasets -> Pairs \cup {None}] /\ m[DatasetOf[a.f]] # None
  BY Zenon, <1>1, Acting, MotrAssumption
<1>3. conMap' = [conMap EXCEPT ![p] = m]
  BY Zenon
<1>4. a \in Acts /\ a.pc \notin FormatSteps /\ a.pc \notin {"putname", "deltail"}
  BY Zenon DEF Acts, FormatSteps, CachedSteps
<1>5. tailIdx' \in [Objs -> Nat \cup {None}]
  BY Zenon DEF MotrInv, TypeInv
<1> HIDE DEF m
<1> QED BY Zenon, <1>2, <1>3, <1>4, <1>5, LocalStep

LEMMA SessionsKeepInv ==
  ASSUME MotrInv, NEW p \in Procs, Start(p) \/ Fini(p) \/ SessionCrash(p)
  PROVE  MotrInv'
<1>1. [d \in Datasets |-> None] \in [Datasets -> Pairs \cup {None}]
  BY Zenon
<1>2. CASE Start(p)
  <2>1. act' = [act EXCEPT ![p] = Idle]
    BY Zenon, <1>2 DEF Start, MotrInv, TypeInv, SessionInv
  <2> QED BY Zenon, <1>1, <1>2, <2>1, SessionStep DEF Start, MotrInv, TypeInv
<1>3. CASE SessionCrash(p)
  <2>1. frag' \in [Frags -> [id : Positions \cup {None}, stored : Nat]]
    BY Zenon, <1>3 DEF SessionCrash, MotrInv, TypeInv
  <2> QED BY Zenon, <1>1, <1>3, <2>1, SessionStep DEF SessionCrash, Finish
<1>4. CASE Fini(p) /\ \A d \in Datasets : ~Cached(p, d)
  <2>1. frag' \in [Frags -> [id : Positions \cup {None}, stored : Nat]]
    BY Zenon, <1>4 DEF Fini, MotrInv, TypeInv
  <2>2. conMap' = [conMap EXCEPT ![p] = conMap[p]] /\ conMap[p] \in [Datasets -> Pairs \cup {None}]
    BY Zenon, <1>4, Acting DEF Fini
  <2> QED BY Zenon, <1>4, <2>1, <2>2, SessionStep DEF Fini, Finish
<1>5. CASE Fini(p) /\ ~(\A d \in Datasets : ~Cached(p, d))
  <2>1. PICK d \in Datasets :
          /\ Cached(p, d)
          /\ tailIdx' = [tailIdx EXCEPT ![conMap[p][d].obj] = conMap[p][d].tail]
          /\ conMap' = [conMap EXCEPT ![p][d] = None]
    BY Zenon, <1>5 DEF Fini
  <2> DEFINE m == [conMap[p] EXCEPT ![d] = None]
             a == [pc |-> "fini"]
  <2>2. m \in [Datasets -> Pairs \cup {None}] /\ conMap' = [conMap EXCEPT ![p] = m]
    BY Zenon, <2>1, Acting
  <2>3. conMap[p][d].obj \in Objs /\ conMap[p][d].tail \in Nat
    BY Zenon, <2>1, Acting DEF Cached, Pairs
  <2>4. /\ tailIdx' \in [Objs -> Nat \cup {None}]
        /\ \A o \in Objs : tailIdx[o] # None => tailIdx'[o] # None
    BY Zenon, <2>1, <2>3, MotrAssumption DEF MotrInv, TypeInv
  <2>5. /\ a \in Acts /\ a.pc = "fini" /\ act' = [act EXCEPT ![p] = a]
        /\ p \in running /\ UNCHANGED <<running, nameIdx, frag>>
    BY Zenon, <1>5 DEF Fini, Acts, SessionActs
  <2>6. /\ frag' \in [Frags -> [id : Positions \cup {None}, stored : Nat]]
        /\ nameIdx' \in [Datasets -> Objs \cup {None}]
    BY Zenon, <2>5 DEF MotrInv, TypeInv
  <2> HIDE DEF m, a
  <2> QED BY Zenon, <2>2, <2>4, <2>5, <2>6, LocalStep DEF FormatSteps, CachedSteps
<1> QED BY Zenon, <1>2, <1>3, <1>4, <1>5

\* A fragment gets its place in an object and is written there.
LEMMA AppendStep ==
  ASSUME MotrInv,
         NEW p \in Procs, p \in running,
         NEW f \in Frags, NEW o \in Objs, NEW pos \in Nat, Appended(p, f, o, pos),
         NEW pair \in Pairs, conMap' = [conMap EXCEPT ![p][DatasetOf[f]] = pair],
         UNCHANGED <<running, tailIdx>>,
         nameIdx' \in [Datasets -> Objs \cup {None}],
         \A d \in Datasets : nameIdx'[d] # nameIdx[d] => tailIdx'[nameIdx'[d]] # None
  PROVE  MotrInv'
<1> DEFINE a == [pc |-> "open", f |-> f, obj |-> o, pos |-> pos]
           i == [pos |-> pos, obj |-> o]
<1>1. a \in ObjectActs /\ a.pc \in CachedSteps /\ a.f = f
  BY Zenon DEF ObjectActs, ObjectSteps, CachedSteps
<1>2. i \in Positions
  BY Zenon DEF Positions
<1>3. act' = [act EXCEPT ![p] = a] /\ frag' = [frag EXCEPT ![f].id = i]
  BY Zenon DEF Appended
<1> HIDE DEF a, i
<1>4. frag' \in [Frags -> [id : Positions \cup {None}, stored : Nat]]
  BY SMTT(60), <1>2, <1>3 DEF MotrInv, TypeInv
<1> QED BY Zenon, <1>1, <1>3, <1>4, PairStep

LEMMA UpdateStarts ==
  ASSUME MotrInv, NEW p \in Procs, NEW f \in Frags, MotrUpdate(p, f)
  PROVE  MotrInv'
<1> DEFINE d == DatasetOf[f]
<1>1. d \in Datasets /\ SizeOf[f] \in Nat /\ p \in running
  BY MotrAssumption DEF MotrUpdate
<1>2. /\ nameIdx' = nameIdx /\ nameIdx' \in [Datasets -> Objs \cup {None}]
      /\ tailIdx' = tailIdx /\ running' = running
  BY Zenon DEF MotrUpdate, MotrInv, TypeInv
<1>3. CASE frag[f].id = None /\ Cached(p, d)
  <2> DEFINE pair == [conMap[p][d] EXCEPT !.tail = @ + SizeOf[f]]
  <2>1. conMap[p][d] \in Pairs
    BY Zenon, <1>1, <1>3, Acting DEF Cached
  <2>2. pair \in Pairs /\ conMap[p][d].obj \in Objs /\ conMap[p][d].tail \in Nat
    BY <1>1, <2>1 DEF Pairs
  <2>3. /\ Appended(p, f, conMap[p][d].obj, conMap[p][d].tail)
        /\ conMap' = [conMap EXCEPT ![p][d] = pair]
    BY Zenon, <1>3 DEF MotrUpdate
  <2> HIDE DEF pair
  <2> QED BY Zenon, <1>1, <1>2, <2>2, <2>3, AppendStep
<1>4. CASE frag[f].id = None /\ ~Cached(p, d)
  <2> DEFINE a == [pc |-> "getname", f |-> f, obj |-> None, pos |-> 0]
  <2>1. a \in Acts /\ a.pc = "getname"
    BY Zenon DEF Acts, SearchActs
  <2>2. act' = [act EXCEPT ![p] = a] /\ UNCHANGED <<frag, conMap>>
    BY Zenon, <1>4 DEF MotrUpdate
  <2>3. frag' \in [Frags -> [id : Positions \cup {None}, stored : Nat]]
    BY Zenon, <2>2 DEF MotrInv, TypeInv
  <2> HIDE DEF a
  <2> QED BY Zenon, <1>1, <1>2, <2>1, <2>2, <2>3, QuietStep DEF FormatSteps, CachedSteps
<1>5. CASE frag[f].id # None
  <2> DEFINE a == [pc |-> IF Cached(p, d) THEN "open" ELSE "regettail",
                   f |-> f, obj |-> frag[f].id.obj, pos |-> 0]
  <2>1. frag[f].id.obj \in Objs
    BY Zenon, <1>5 DEF MotrInv, TypeInv, Positions
  <2>2. a \in Acts /\ a.f = f /\ a.pc = IF Cached(p, d) THEN "open" ELSE "regettail"
    BY Zenon, <2>1 DEF Acts, ObjectActs, ObjectSteps
  <2>3. act' = [act EXCEPT ![p] = a] /\ UNCHANGED <<frag, conMap>>
    BY Zenon, <1>5 DEF MotrUpdate
  <2>4. frag' \in [Frags -> [id : Positions \cup {None}, stored : Nat]]
    BY Zenon, <2>3 DEF MotrInv, TypeInv
  <2> HIDE DEF a
  <2> QED BY Zenon, <1>1, <1>2, <2>2, <2>3, <2>4, QuietStep DEF FormatSteps, CachedSteps, Cached
<1> QED BY Zenon, <1>3, <1>4, <1>5

LEMMA RetrieveStarts ==
  ASSUME MotrInv, NEW p \in Procs, NEW f \in Frags, MotrRetrieve(p, f)
  PROVE  MotrInv'
<1> DEFINE a == [pc |-> IF Cached(p, DatasetOf[f]) THEN "read" ELSE "readtail",
                 f |-> f, obj |-> frag[f].id.obj, pos |-> frag[f].id.pos]
<1>1. frag[f].id.obj \in Objs /\ frag[f].id.pos \in Nat
  BY Zenon DEF MotrRetrieve, MotrInv, TypeInv, Positions
<1>2. a \in Acts /\ a.f = f /\ a.pc = IF Cached(p, DatasetOf[f]) THEN "read" ELSE "readtail"
  BY Zenon, <1>1 DEF Acts, ObjectActs, ObjectSteps
<1>3. /\ act' = [act EXCEPT ![p] = a] /\ p \in running
      /\ UNCHANGED <<frag, conMap, running, nameIdx, tailIdx>>
  BY Zenon DEF MotrRetrieve
<1>4. frag' \in [Frags -> [id : Positions \cup {None}, stored : Nat]]
  BY Zenon, <1>3 DEF MotrInv, TypeInv
<1> HIDE DEF a
<1> QED BY Zenon, <1>2, <1>3, <1>4, QuietStep DEF FormatSteps, CachedSteps, Cached

\* Looking up the object of a dataset, or making one.
LEMMA LookupSteps ==
  ASSUME MotrInv, NEW p \in Procs,
         GetName(p) \/ GetTail(p) \/ Alloc(p) \/ PutTail(p) \/ PutName(p)
  PROVE  MotrInv'
<1>1. /\ p \in running /\ running' = running
      /\ act[p].f \in Frags /\ D(p) \in Datasets /\ SizeOf[act[p].f] \in Nat
  BY Zenon, ActShape, Acting, FragmentFacts DEF GetName, GetTail, Alloc, PutTail, PutName, ObjectSteps, D
<1>2. frag \in [Frags -> [id : Positions \cup {None}, stored : Nat]]
  BY Zenon DEF MotrInv, TypeInv
<1>3. ASSUME NEW a \in SearchActs \cup ObjectActs, a.pc \in {"gettail", "alloc", "puttail"},
             act' = [act EXCEPT ![p] = a], UNCHANGED <<frag, conMap, nameIdx, tailIdx>>
      PROVE  MotrInv'
  BY Zenon, <1>1, <1>2, <1>3, QuietStep DEF Acts, FormatSteps, CachedSteps
<1>4. ASSUME act[p].pc \in {"getname", "gettail"}, Continue(p, "alloc"),
             UNCHANGED <<frag, conMap, nameIdx, tailIdx>>
      PROVE  MotrInv'
  <2> DEFINE a == [act[p] EXCEPT !.pc = "alloc"]
  <2>1. act[p] \in SearchActs \/ act[p] \in ObjectActs
    BY Zenon, <1>4, ActShape DEF ObjectSteps
  <2>2. a \in SearchActs /\ a.pc = "alloc"
    BY Zenon, <2>1 DEF SearchActs, ObjectActs
  <2>3. act' = [act EXCEPT ![p] = a]
    BY Zenon, <1>4 DEF Continue
  <2> HIDE DEF a
  <2> QED BY Zenon, <1>3, <1>4, <2>2, <2>3
<1>5. ASSUME Finish(p), UNCHANGED <<frag, conMap, nameIdx, tailIdx>>
      PROVE  MotrInv'
  BY Zenon, <1>1, <1>2, <1>5, ReturnStep
<1>6. CASE GetName(p)
  <2>1. CASE /\ MappingGet("name", nameIdx[D(p)])
             /\ act' = [act EXCEPT ![p].pc = "gettail", ![p].obj = nameIdx[D(p)]]
    <3>1. nameIdx[D(p)] \in Objs
      BY Zenon, <1>1, <2>1 DEF MappingGet, MotrInv, TypeInv
    <3> DEFINE a == [act[p] EXCEPT !.pc = "gettail", !.obj = nameIdx[D(p)]]
    <3>2. a \in ObjectActs /\ a.pc = "gettail"
      BY Zenon, <1>6, <3>1, ActShape DEF GetName, SearchActs, ObjectActs, ObjectSteps
    <3>3. act' = [act EXCEPT ![p] = a]
      BY Zenon, <2>1 DEF MotrInv, TypeInv
    <3> HIDE DEF a
    <3> QED BY Zenon, <1>3, <1>6, <3>2, <3>3 DEF GetName
  <2>2. CASE Continue(p, "alloc")
    BY Zenon, <1>4, <1>6, <2>2 DEF GetName
  <2> QED BY Zenon, <1>6, <2>1, <2>2 DEF GetName
<1>7. CASE GetTail(p)
  <2> DEFINE o == act[p].obj
             pair == NewPair(o, tailIdx[o] + SizeOf[act[p].f])
  <2>1. CASE /\ MappingGet("tail", tailIdx[o])
             /\ Appended(p, act[p].f, o, tailIdx[o])
             /\ conMap' = [conMap EXCEPT ![p][D(p)] = pair]
    <3>1. o \in Objs
      BY Zenon, <1>7, ActShape DEF GetTail, ObjectSteps
    <3>2. tailIdx[o] \in Nat
      BY Zenon, <2>1, <3>1 DEF MappingGet, MotrInv, TypeInv
    <3>3. pair \in Pairs
      BY <1>1, <3>1, <3>2 DEF NewPair, Pairs
    <3>4. UNCHANGED <<nameIdx, tailIdx>> /\ nameIdx' \in [Datasets -> Objs \cup {None}]
      BY Zenon, <1>7 DEF GetTail, MotrInv, TypeInv
    <3> HIDE DEF o, pair
    <3> QED BY Zenon, <1>1, <2>1, <3>1, <3>2, <3>3, <3>4, AppendStep DEF D
  <2>2. CASE Continue(p, "alloc") /\ UNCHANGED <<frag, conMap>>
    BY Zenon, <1>4, <1>7, <2>2 DEF GetTail
  <2> QED BY Zenon, <1>7, <2>1, <2>2 DEF GetTail
<1>8. CASE Alloc(p)
  <2>1. CASE \E o \in Objs : act' = [act EXCEPT ![p].pc = "puttail", ![p].obj = o]
    <3>1. PICK o \in Objs : act' = [act EXCEPT ![p].pc = "puttail", ![p].obj = o]
      BY Zenon, <2>1
    <3> DEFINE a == [act[p] EXCEPT !.pc = "puttail", !.obj = o]
    <3>2. a \in ObjectActs /\ a.pc = "puttail"
      BY Zenon, <1>8, ActShape DEF Alloc, SearchActs, ObjectActs, ObjectSteps
    <3>3. act' = [act EXCEPT ![p] = a]
      BY Zenon, <3>1 DEF MotrInv, TypeInv
    <3> HIDE DEF a
    <3> QED BY Zenon, <1>3, <1>8, <3>2, <3>3 DEF Alloc
  <2>2. CASE Finish(p)
    BY Zenon, <1>5, <1>8, <2>2 DEF Alloc
  <2> QED BY Zenon, <1>8, <2>1, <2>2 DEF Alloc
<1>9. CASE PutTail(p)
  <2>1. CASE tailIdx' = [tailIdx EXCEPT ![act[p].obj] = 0] /\ Continue(p, "putname")
    <3> DEFINE a == [act[p] EXCEPT !.pc = "putname"]
    <3>1. act[p] \in ObjectActs /\ act[p].obj \in Objs
      BY Zenon, <1>9, ActShape DEF PutTail, ObjectSteps
    <3>2. a \in Acts /\ a.pc = "putname" /\ a.obj = act[p].obj
      BY Zenon, <3>1 DEF Acts, ObjectActs, ObjectSteps
    <3>3. act' = [act EXCEPT ![p] = a] /\ UNCHANGED <<nameIdx, conMap, frag>>
      BY Zenon, <1>9, <2>1 DEF PutTail, Continue
    <3>4. /\ tailIdx' \in [Objs -> Nat \cup {None}] /\ tailIdx'[act[p].obj] # None
          /\ \A o \in Objs : tailIdx[o] # None => tailIdx'[o] # None
      BY <2>1, <3>1, MotrAssumption DEF MotrInv, TypeInv
    <3>5. nameIdx' \in [Datasets -> Objs \cup {None}]
      BY Zenon, <3>3 DEF MotrInv, TypeInv
    <3>6. conMap[p] \in [Datasets -> Pairs \cup {None}] /\ conMap' = [conMap EXCEPT ![p] = conMap[p]]
      BY Zenon, <3>3, Acting
    <3>7. frag' \in [Frags -> [id : Positions \cup {None}, stored : Nat]]
      BY Zenon, <1>2, <3>3
    <3>8. /\ a.pc \notin FormatSteps /\ a.pc \notin CachedSteps /\ a.pc # "deltail"
          /\ tailIdx'[a.obj] # None
      BY Zenon, <3>2, <3>4 DEF FormatSteps, CachedSteps
    <3>9. \A d \in Datasets : nameIdx'[d] \notin {nameIdx[d], None} => tailIdx'[nameIdx'[d]] # None
      BY Zenon, <3>3
    <3> HIDE DEF a
    <3> QED BY Zenon, <1>1, <3>2, <3>3, <3>4, <3>5, <3>6, <3>7, <3>8, <3>9, LocalStep
  <2>2. CASE Finish(p) /\ UNCHANGED tailIdx
    BY Zenon, <1>5, <1>9, <2>2 DEF PutTail
  <2> QED BY Zenon, <1>9, <2>1, <2>2 DEF PutTail
<1>10. CASE PutName(p)
  <2> DEFINE o == act[p].obj
             pair == NewPair(o, SizeOf[act[p].f])
  <2>1. CASE /\ nameIdx' = [nameIdx EXCEPT ![D(p)] = o]
             /\ Appended(p, act[p].f, o, 0)
             /\ conMap' = [conMap EXCEPT ![p][D(p)] = pair]
    <3>1. o \in Objs /\ tailIdx[o] # None
      BY Zenon, <1>10, ActShape DEF PutName, ObjectSteps, MotrInv, OrderInv
    <3>2. pair \in Pairs
      BY Zenon, <1>1, <3>1 DEF NewPair, Pairs
    <3>3. /\ tailIdx' = tailIdx /\ nameIdx' \in [Datasets -> Objs \cup {None}]
          /\ \A d \in Datasets : nameIdx'[d] # nameIdx[d] => nameIdx'[d] = o
      BY Zenon, <1>1, <1>10, <2>1, <3>1 DEF PutName, MotrInv, TypeInv
    <3> HIDE DEF o, pair
    <3> QED BY Zenon, <1>1, <2>1, <3>1, <3>2, <3>3, AppendStep DEF D
  <2>2. CASE Finish(p) /\ UNCHANGED <<nameIdx, conMap, frag>>
    BY Zenon, <1>5, <1>10, <2>2 DEF PutName
  <2> QED BY Zenon, <1>10, <2>1, <2>2 DEF PutName
<1> QED BY Zenon, <1>6, <1>7, <1>8, <1>9, <1>10

\* Using the object: opening, writing and reading.
LEMMA UsingSteps ==
  ASSUME MotrInv, NEW p \in Procs,
         RegetTail(p) \/ OpenForWrite(p) \/ WriteBlocks(p) \/ ReadTail(p) \/ ReadBlocks(p)
  PROVE  MotrInv'
<1>1. /\ p \in running /\ act[p] \in ObjectActs /\ act[p].f \in Frags /\ act[p].obj \in Objs
      /\ D(p) \in Datasets /\ SizeOf[act[p].f] \in Nat /\ act[p].pc \in ObjectSteps
  BY Zenon, ActShape, Acting, FragmentFacts DEF RegetTail, OpenForWrite, WriteBlocks, ReadTail, ReadBlocks, ObjectSteps, D
<1>2. /\ UNCHANGED <<running, nameIdx, tailIdx>>
      /\ nameIdx' \in [Datasets -> Objs \cup {None}]
  BY Zenon DEF RegetTail, OpenForWrite, WriteBlocks, ReadTail, ReadBlocks, MotrInv, TypeInv
<1>3. frag' \in [Frags -> [id : Positions \cup {None}, stored : Nat]]
  <2>1. CASE WriteBlocks(p)
    <3>1. frag[act[p].f] \in [id : Positions \cup {None}, stored : Nat]
      BY Zenon, <1>1 DEF MotrInv, TypeInv
    <3>2. frag[act[p].f].stored + 1 \in Nat
      BY <3>1
    <3>3. frag' = [frag EXCEPT ![act[p].f].stored = frag[act[p].f].stored + 1]
      BY Zenon, <2>1 DEF WriteBlocks
    <3> QED BY Zenon, <1>1, <3>2, <3>3 DEF MotrInv, TypeInv
  <2>2. CASE UNCHANGED frag
    BY Zenon, <2>2 DEF MotrInv, TypeInv
  <2> QED BY Zenon, <2>1, <2>2 DEF RegetTail, OpenForWrite, ReadTail, ReadBlocks
<1>4. act[p].pc \in CachedSteps => Pair(p) \in Pairs
  BY Zenon, <1>1, Acting DEF MotrInv, CacheInv, Pair
<1>5. ASSUME Finish(p), UNCHANGED conMap
      PROVE  MotrInv'
  BY Zenon, <1>1, <1>2, <1>3, <1>5, ReturnStep
<1>6. ASSUME NEW a \in ObjectActs, a.pc \in CachedSteps, a.f = act[p].f,
             act' = [act EXCEPT ![p] = a],
             NEW pair \in Pairs, conMap' = [conMap EXCEPT ![p][D(p)] = pair]
      PROVE  MotrInv'
  BY Zenon, <1>1, <1>2, <1>3, <1>6, PairStep DEF D
<1>7. ASSUME NEW n \in Nat PROVE NewPair(act[p].obj, n) \in Pairs
  BY Zenon, <1>1 DEF NewPair, Pairs
<1>8. tailIdx[act[p].obj] # None => tailIdx[act[p].obj] \in Nat
  BY Zenon, <1>1 DEF MotrInv, TypeInv
<1>9. CASE RegetTail(p)
  <2> DEFINE t == tailIdx[act[p].obj]
             a == [act[p] EXCEPT !.pc = "open", !.pos = t]
             pair == NewPair(act[p].obj, t + SizeOf[act[p].f])
  <2>1. CASE /\ MappingGet("tail", t)
             /\ act' = [act EXCEPT ![p].pc = "open", ![p].pos = t]
             /\ conMap' = [conMap EXCEPT ![p][D(p)] = pair]
    <3>1. t \in Nat
      BY Zenon, <1>8, <2>1 DEF MappingGet
    <3>2. a \in ObjectActs /\ a.pc \in CachedSteps /\ a.f = act[p].f
      BY Zenon, <1>1, <3>1 DEF ObjectActs, ObjectSteps, CachedSteps
    <3>3. act' = [act EXCEPT ![p] = a]
      BY Zenon, <2>1 DEF MotrInv, TypeInv
    <3>4. pair \in Pairs
      BY <1>1, <1>7, <3>1
    <3> HIDE DEF a, pair
    <3> QED BY Zenon, <1>6, <2>1, <3>2, <3>3, <3>4
  <2>2. CASE Finish(p) /\ UNCHANGED conMap
    BY Zenon, <1>5, <2>2
  <2> QED BY Zenon, <1>9, <2>1, <2>2 DEF RegetTail
<1>10. CASE OpenForWrite(p)
  <2> DEFINE a == [act[p] EXCEPT !.pc = "write"]
             pair == [Pair(p) EXCEPT !.handle = Pair(p).obj]
  <2>1. Pair(p) \in Pairs
    BY Zenon, <1>4, <1>10 DEF OpenForWrite, CachedSteps
  <2>2. a \in ObjectActs /\ a.pc \in CachedSteps /\ a.f = act[p].f /\ act' = [act EXCEPT ![p] = a]
    BY Zenon, <1>1, <1>10 DEF OpenForWrite, Continue, ObjectActs, ObjectSteps, CachedSteps
  <2>3. CASE Pair(p).handle = None
    <3>1. pair \in Pairs
      BY Zenon, <2>1 DEF Pairs
    <3>2. conMap' = [conMap EXCEPT ![p][D(p)] = pair]
      BY Zenon, <1>10, <2>3 DEF OpenForWrite, Pair
    <3> HIDE DEF a, pair
    <3> QED BY Zenon, <1>6, <2>2, <3>1, <3>2
  <2>4. CASE Pair(p).handle # None
    <3>1. conMap' = [conMap EXCEPT ![p][D(p)] = Pair(p)]
      BY Zenon, <1>1, <1>10, <2>4 DEF OpenForWrite, Pair, MotrInv, TypeInv
    <3> HIDE DEF a
    <3> QED BY Zenon, <1>6, <2>1, <2>2, <3>1
  <2> QED BY Zenon, <2>3, <2>4
<1>11. CASE WriteBlocks(p)
  BY Zenon, <1>5, <1>11 DEF WriteBlocks
<1>12. CASE ReadTail(p)
  <2> DEFINE t == tailIdx[act[p].obj]
             a == [act[p] EXCEPT !.pc = "read"]
             pair == NewPair(act[p].obj, t)
  <2>1. CASE MappingGet("tail", t) /\ conMap' = [conMap EXCEPT ![p][D(p)] = pair] /\ Continue(p, "read")
    <3>1. t \in Nat
      BY Zenon, <1>8, <2>1 DEF MappingGet
    <3>2. a \in ObjectActs /\ a.pc \in CachedSteps /\ a.f = act[p].f /\ act' = [act EXCEPT ![p] = a]
      BY Zenon, <1>1, <2>1 DEF Continue, ObjectActs, ObjectSteps, CachedSteps
    <3>3. pair \in Pairs
      BY Zenon, <1>7, <3>1
    <3> HIDE DEF a, pair
    <3> QED BY Zenon, <1>6, <2>1, <3>2, <3>3
  <2>2. CASE Finish(p) /\ UNCHANGED conMap
    BY Zenon, <1>5, <2>2
  <2> QED BY Zenon, <1>12, <2>1, <2>2 DEF ReadTail
<1>13. CASE ReadBlocks(p)
  <2> DEFINE pair == [Pair(p) EXCEPT !.handle = ReadHandle(p)]
             m == [conMap[p] EXCEPT ![D(p)] = pair]
  <2>1. Pair(p) \in Pairs
    BY Zenon, <1>4, <1>13 DEF ReadBlocks, CachedSteps
  <2>2. pair \in Pairs
    BY Zenon, <1>1, <2>1 DEF ReadHandle, Pairs
  <2>3. conMap' = [conMap EXCEPT ![p] = m]
    BY Zenon, <1>13 DEF ReadBlocks, Pair
  <2>4. m \in [Datasets -> Pairs \cup {None}]
    BY Zenon, <2>2, Acting
  <2>5. tailIdx' \in [Objs -> Nat \cup {None}]
    BY Zenon, <1>2 DEF MotrInv, TypeInv
  <2>6. act' = [act EXCEPT ![p] = Idle]
    BY Zenon, <1>13 DEF ReadBlocks, Finish
  <2>7. Idle \in Acts /\ Idle.pc = "idle"
    BY Zenon, Acting
  <2> HIDE DEF m
  <2> QED BY Zenon, <1>1, <1>2, <1>3, <2>3, <2>4, <2>5, <2>6, <2>7, LocalStep DEF FormatSteps, CachedSteps
<1> QED BY Zenon, <1>9, <1>10, <1>11, <1>12, <1>13

\* Formatting.
LEMMA FormattingKeepsInv ==
  ASSUME MotrInv, NEW p \in Procs, Mkfs(p) \/ DeleteIndex(p) \/ CreateIndex(p)
  PROVE  MotrInv'
<1>1. running = {p} /\ UNCHANGED <<running, conMap>>
  BY Zenon DEF Mkfs, DeleteIndex, CreateIndex, MotrInv, SessionInv, FormatSteps
<1>2. frag' \in [Frags -> [id : Positions \cup {None}, stored : Nat]]
  BY DEF Mkfs, DeleteIndex, CreateIndex, MotrInv, TypeInv
<1>3. act[p].pc \in FormatSteps => act[p] \in SessionActs
  BY Zenon, ActShape
<1>4. ASSUME NEW s \in FormatSteps, act[p].pc \in FormatSteps, Continue(p, s)
      PROVE  [pc |-> s] \in Acts /\ act' = [act EXCEPT ![p] = [pc |-> s]]
  <2>1. [pc |-> s] \in Acts
    BY Zenon DEF Acts, SessionActs
  <2>2. [act[p] EXCEPT !.pc = s] = [pc |-> s]
    BY <1>3, <1>4 DEF SessionActs
  <2>3. act' = [act EXCEPT ![p] = [act[p] EXCEPT !.pc = s]]
    BY Zenon, <1>4 DEF Continue
  <2> QED BY Zenon, <2>1, <2>2, <2>3
<1>5. CASE Mkfs(p)
  <2> DEFINE a == [pc |-> "delname"]
  <2>1. a \in Acts /\ a.pc = "delname" /\ act' = [act EXCEPT ![p] = a] /\ UNCHANGED <<nameIdx, tailIdx>>
    BY Zenon, <1>5 DEF Mkfs, Acts, SessionActs, FormatSteps
  <2> HIDE DEF a
  <2> QED BY Zenon, <1>1, <1>2, <2>1, QuietStep DEF CachedSteps
<1>6. CASE DeleteIndex(p) /\ act[p].pc = "delname"
  <2> DEFINE a == [pc |-> "deltail"]
  <2>1. Continue(p, "deltail") /\ nameIdx' = [d \in Datasets |-> None] /\ tailIdx' = tailIdx
    BY Zenon, <1>6 DEF DeleteIndex
  <2>2. a \in Acts /\ a.pc = "deltail" /\ act' = [act EXCEPT ![p] = a]
    BY Zenon, <1>4, <1>6, <2>1 DEF FormatSteps
  <2>3. tailIdx' \in [Objs -> Nat \cup {None}] /\ nameIdx' \in [Datasets -> Objs \cup {None}]
    BY Zenon, <2>1 DEF MotrInv, TypeInv
  <2>4. conMap[p] \in [Datasets -> Pairs \cup {None}] /\ conMap' = [conMap EXCEPT ![p] = conMap[p]]
    BY Zenon, <1>1, Acting
  <2> HIDE DEF a
  <2> QED BY Zenon, <1>1, <1>2, <2>1, <2>2, <2>3, <2>4, LocalStep DEF CachedSteps
<1>7. CASE DeleteIndex(p) /\ act[p].pc = "deltail"
  <2>1. Continue(p, "mkname") /\ nameIdx' = nameIdx /\ tailIdx' = [o \in Objs |-> None]
    BY Zenon, <1>7 DEF DeleteIndex
  <2>2. [pc |-> "mkname"] \in Acts /\ act' = [act EXCEPT ![p] = [pc |-> "mkname"]]
    BY Zenon, <1>4, <1>7, <2>1 DEF FormatSteps
  <2>3. act' \in [Procs -> Acts] /\ act'[p].pc = "mkname"
    BY Zenon, <2>2 DEF MotrInv, TypeInv
  <2>4. TypeInv'
    BY Zenon, <1>1, <1>2, <2>1, <2>3 DEF MotrInv, TypeInv
  <2>5. \A q \in Procs : q # p => act'[q] = Idle /\ act'[q].pc = "idle"
    BY <1>1, <2>2 DEF MotrInv, TypeInv, SessionInv, Idle
  <2>6. SessionInv' /\ CacheInv' /\ OrderInv'
    BY Zenon, <1>1, <2>3, <2>5 DEF SessionInv, CacheInv, OrderInv, FormatSteps, CachedSteps
  <2>7. NameHasTail'
    BY Zenon, <1>7, <2>1 DEF MotrInv, OrderInv, NameHasTail
  <2> QED BY Zenon, <2>4, <2>6, <2>7 DEF MotrInv
<1>8. CASE CreateIndex(p)
  <2>1. UNCHANGED <<nameIdx, tailIdx>> /\ act[p].pc \in FormatSteps
    BY Zenon, <1>8 DEF CreateIndex, FormatSteps
  <2>2. CASE Continue(p, "mktail")
    <3> DEFINE a == [pc |-> "mktail"]
    <3>1. a \in Acts /\ a.pc = "mktail" /\ act' = [act EXCEPT ![p] = a]
      BY Zenon, <1>4, <2>1, <2>2 DEF FormatSteps
    <3> HIDE DEF a
    <3> QED BY Zenon, <1>1, <1>2, <2>1, <3>1, QuietStep DEF CachedSteps
  <2>3. CASE Finish(p)
    BY Zenon, <1>1, <1>2, <2>1, <2>3, ReturnStep
  <2> QED BY Zenon, <1>8, <2>2, <2>3 DEF CreateIndex
<1> QED BY Zenon, <1>5, <1>6, <1>7, <1>8 DEF DeleteIndex

LEMMA IndicesKept == MotrInv /\ [MotrNext]_motrVars => MotrInv'
<1> SUFFICES ASSUME MotrInv, [MotrNext]_motrVars PROVE MotrInv'
  BY Zenon
<1>1. ASSUME NEW p \in Procs, MotrStep(p) PROVE MotrInv'
  BY Zenon, <1>1, SessionsKeepInv, UpdateStarts, RetrieveStarts, LookupSteps, UsingSteps,
     FormattingKeepsInv DEF MotrStep
<1>2. CASE UNCHANGED motrVars
  BY Zenon, <1>2 DEF motrVars, MotrInv, TypeInv, SessionInv, CacheInv, OrderInv, NameHasTail, D
<1> QED BY Zenon, <1>1, <1>2 DEF MotrNext

(* In every reachable state, the ones that a crash between two calls of    *)
(* the Motr client leaves included, an object that the name index gives    *)
(* for a dataset has an entry in the tail index.                           *)
THEOREM IndicesAgree == MotrSpec => []NameHasTail
<1>1. MotrInit => MotrInv
  BY Zenon, InitialState
<1>2. MotrInv => NameHasTail
  BY Zenon DEF MotrInv
<1> QED BY <1>1, <1>2, IndicesKept, PTL DEF MotrSpec

-----------------------------------------------------------------------------
(* The data of the fragments.                                              *)

SearchSteps == {"getname", "gettail", "alloc", "puttail", "putname", "regettail", "readtail"}
BlockValues == (Frags \X Nat) \cup {None}

(* A session that is over has no pairs; a pair is cached only once; while  *)
(* the tool formats there are neither pairs nor fragments.                 *)
PlaceInv ==
  /\ blocks \in [Objs -> [0 .. MaxBlock - 1 -> BlockValues] \cup {None}]
  /\ \A p \in Procs \ running : \A d \in Datasets : conMap[p][d] = None
  /\ \A p \in Procs : act[p].pc \in SearchSteps => conMap[p][D(p)] = None
  /\ \A p \in Procs : act[p].pc = "write" => conMap[p][D(p)].handle # None
  /\ \A p \in Procs : act[p].pc \in FormatSteps =>
       /\ \A d \in Datasets : conMap[p][d] = None
       /\ \A f \in Frags : frag[f].id = None

(* Every object belongs to one dataset, even of those that are tainted.    *)
OwnedBy(own, d, o) == blocks[o] # None /\ own[o] = d

Owners(own) ==
  /\ \A d \in Datasets : nameIdx[d] # None => OwnedBy(own, d, nameIdx[d])
  /\ \A p \in Procs, d \in Datasets : conMap[p][d] # None =>
       /\ OwnedBy(own, d, conMap[p][d].obj)
       /\ conMap[p][d].handle # None => OwnedBy(own, d, conMap[p][d].handle)
  /\ \A p \in Procs : Working(p) /\ act[p].obj # None => OwnedBy(own, D(p), act[p].obj)
  /\ \A f \in Frags : frag[f].id # None => OwnedBy(own, DatasetOf[f], frag[f].id.obj)

OwnersInv == \E own \in [Objs -> Datasets] : Owners(own)

(* A dataset that is not tainted: one session uses it, ...                 *)
Uses(p, d) == Cached(p, d) \/ (Working(p) /\ D(p) = d)
SoleUser(d) == \A p, q \in Procs : Uses(p, d) /\ Uses(q, d) => p = q

(* ... all that is known of its object is what the index says, ...         *)
PairNamed(p, d) ==
  Cached(p, d) => /\ conMap[p][d].obj = nameIdx[d]
                  /\ conMap[p][d].handle \in {None, nameIdx[d]}

WorkNamed(p, d) ==
  Working(p) /\ D(p) = d =>
    /\ act[p].pc # "regettail"
    /\ act[p].pc \in {"gettail", "readtail", "read", "open", "write"} => act[p].obj = nameIdx[d]
    /\ act[p].pc \in {"alloc", "puttail", "putname"} => nameIdx[d] = None
    /\ act[p].pc \in {"getname", "gettail", "alloc", "puttail", "putname"} => frag[act[p].f].id = None
    /\ act[p].pc \in {"open", "write"} =>
         /\ frag[act[p].f].id = [pos |-> act[p].pos, obj |-> act[p].obj]
         /\ frag[act[p].f].stored = 0
    /\ act[p].pc = "write" => conMap[p][d].handle = nameIdx[d]

(* ... its fragments have extents of their own that hold their data, ...   *)
Placed(f, d) == DatasetOf[f] = d /\ frag[f].id # None
End(f) == frag[f].id.pos + SizeOf[f]

FragsApart(d) ==
  /\ \A f \in Frags : DatasetOf[f] = d /\ frag[f].stored # 0 => Placed(f, d)
  /\ \A f \in Frags : Placed(f, d) => frag[f].id.obj = nameIdx[d] /\ End(f) <= MaxBlock
  /\ \A f, g \in Frags : Placed(f, d) /\ Placed(g, d) /\ f # g =>
       End(f) <= frag[g].id.pos \/ End(g) <= frag[f].id.pos
  /\ \A f \in Frags : Placed(f, d) /\ frag[f].stored # 0 =>
       \A b \in frag[f].id.pos .. End(f) - 1 : blocks[nameIdx[d]][b] = <<f, frag[f].stored>>

(* ... below the tail, the cached one or else the stored one.              *)
BelowTail(d) ==
  \A f \in Frags : Placed(f, d) =>
    /\ \A p \in Procs : Cached(p, d) => End(f) <= conMap[p][d].tail
    /\ (\A p \in Procs : ~Cached(p, d)) => End(f) <= tailIdx[nameIdx[d]]

Clean(d) ==
  /\ SoleUser(d) /\ FragsApart(d) /\ BelowTail(d)
  /\ \A p \in Procs : PairNamed(p, d) /\ WorkNamed(p, d)

DataInv ==
  MotrInv /\ PlaceInv /\ OwnersInv /\ \A d \in Datasets \ tainted : Clean(d)

-----------------------------------------------------------------------------
WorkSteps == ObjectSteps \cup {"getname", "alloc"}

LEMMA ActRecord ==
  ASSUME NEW a \in Acts
  PROVE  /\ "f" \in DOMAIN a <=> a.pc \in WorkSteps
         /\ a.pc \in WorkSteps => a.f \in Frags /\ a.pos \in Nat /\ a.obj \in Objs \cup {None}
                                  /\ DatasetOf[a.f] \in Datasets
         /\ a.pc \in ObjectSteps => a.obj \in Objs
<1>1. CASE a \in SessionActs
  BY Zenon, <1>1 DEF SessionActs, WorkSteps, ObjectSteps, FormatSteps
<1>2. CASE a \in SearchActs
  BY Zenon, <1>2, MotrAssumption DEF SearchActs, WorkSteps, ObjectSteps
<1>3. CASE a \in ObjectActs
  BY Zenon, <1>3, MotrAssumption DEF ObjectActs, WorkSteps, ObjectSteps
<1> QED BY Zenon, <1>1, <1>2, <1>3 DEF Acts

\* Nothing happens to a dataset.
LEMMA OtherDataset ==
  ASSUME NEW d \in Datasets, Clean(d), nameIdx'[d] = nameIdx[d],
         nameIdx[d] # None => /\ tailIdx'[nameIdx[d]] = tailIdx[nameIdx[d]]
                              /\ blocks'[nameIdx[d]] = blocks[nameIdx[d]],
         \A q \in Procs : conMap'[q][d] = conMap[q][d],
         \A f \in Frags : DatasetOf[f] = d => frag'[f] = frag[f],
         \A f \in Frags : frag[f].id # None => frag[f].id.obj # None,
         \A q \in Procs : (Working(q) /\ D(q) = d) \/ (Working(q)' /\ D(q)' = d) =>
                          act'[q] = act[q] /\ act[q].f \in Frags
  PROVE  Clean(d)'
<1>1. \A q \in Procs : /\ Cached(q, d)' <=> Cached(q, d)
                       /\ (Working(q) /\ D(q) = d)' <=> (Working(q) /\ D(q) = d)
  BY Zenon DEF Cached, Working, D
<1>2. \A q \in Procs : Uses(q, d)' <=> Uses(q, d)
  BY Zenon, <1>1 DEF Uses
<1>3. SoleUser(d)'
  BY Zenon, <1>2 DEF Clean, SoleUser
<1>4. \A f \in Frags : /\ Placed(f, d)' <=> Placed(f, d)
                       /\ Placed(f, d) => /\ frag'[f] = frag[f] /\ End(f)' = End(f)
                                          /\ nameIdx[d] # None
  BY Zenon DEF Placed, End, Clean, FragsApart
<1>5. FragsApart(d)'
  BY <1>4 DEF Clean, FragsApart
<1>6. BelowTail(d)'
  BY <1>1, <1>4 DEF Clean, BelowTail
<1>7. \A q \in Procs : PairNamed(q, d)'
  BY <1>1 DEF Clean, PairNamed
<1>8. \A q \in Procs : WorkNamed(q, d)'
  <2> SUFFICES ASSUME NEW q \in Procs, Working(q)', D(q)' = d PROVE WorkNamed(q, d)'
    BY Zenon DEF WorkNamed
  <2>1. act'[q] = act[q] /\ WorkNamed(q, d) /\ Working(q) /\ D(q) = d /\ frag'[act[q].f] = frag[act[q].f]
    BY Zenon, <1>1 DEF Clean, D
  <2> QED BY Zenon, <2>1 DEF WorkNamed
<1> QED BY Zenon, <1>3, <1>5, <1>6, <1>7, <1>8 DEF Clean

\* A step of the only session that uses a dataset.
LEMMA UsedDataset ==
  ASSUME NEW p \in Procs, NEW d \in Datasets,
         \A q \in Procs \ {p} : ~Uses(q, d) /\ act'[q] = act[q] /\ conMap'[q] = conMap[q],
         PairNamed(p, d)', WorkNamed(p, d)', FragsApart(d)',
         \A f \in Frags : Placed(f, d)' =>
           End(f)' <= IF Cached(p, d)' THEN conMap'[p][d].tail ELSE tailIdx'[nameIdx'[d]]
  PROVE  Clean(d)'
<1>1. \A q \in Procs \ {p} : ~Uses(q, d)' /\ ~Cached(q, d)' /\ ~(Working(q) /\ D(q) = d)'
  BY Zenon DEF Uses, Cached, Working, D
<1>2. SoleUser(d)'
  BY Zenon, <1>1 DEF SoleUser
<1>3. BelowTail(d)'
  BY Zenon, <1>1 DEF BelowTail
<1>4. \A q \in Procs : PairNamed(q, d)' /\ WorkNamed(q, d)'
  BY Zenon, <1>1 DEF PairNamed, WorkNamed
<1> QED BY Zenon, <1>2, <1>3, <1>4 DEF Clean

\* The fragments of a dataset stay where they are.
LEMMA FragsStay ==
  ASSUME NEW d \in Datasets, FragsApart(d),
         \A f \in Frags : DatasetOf[f] = d => frag'[f] = frag[f],
         (\E f \in Frags : Placed(f, d)) =>
            nameIdx'[d] = nameIdx[d] /\ blocks'[nameIdx[d]] = blocks[nameIdx[d]]
  PROVE  /\ FragsApart(d)'
         /\ \A f \in Frags : (Placed(f, d)' <=> Placed(f, d)) /\ (Placed(f, d) => End(f)' = End(f))
<1>1. \A f \in Frags : /\ Placed(f, d)' <=> Placed(f, d)
                       /\ Placed(f, d) => /\ frag'[f] = frag[f] /\ End(f)' = End(f)
                                          /\ nameIdx'[d] = nameIdx[d]
                                          /\ blocks'[nameIdx[d]] = blocks[nameIdx[d]]
  BY Zenon DEF Placed, End
<1> QED BY <1>1 DEF FragsApart


Holds(own, d, o) == blocks'[o] # None /\ own[o] = d

\* A session works on a dataset: what is left to be shown of its step.
LEMMA WorkingStep ==
  ASSUME DataInv, MotrInv', NEW p \in Procs, p \in running, running' = running,
         NEW own \in [Objs -> Datasets], Owners(own), NEW own1 \in [Objs -> Datasets],
         \A o \in Objs : blocks[o] # None => own1[o] = own[o] /\ blocks'[o] # None,
         NEW e \in Datasets,
         NEW a \in Acts, act' = [act EXCEPT ![p] = a],
         NEW c \in Pairs \cup {None}, conMap' = [conMap EXCEPT ![p][e] = c],
         act[p].pc \notin FormatSteps, a.pc \notin FormatSteps,
         act[p].pc \in WorkSteps => DatasetOf[act[p].f] = e,
         a.pc \in WorkSteps => DatasetOf[a.f] = e,
         blocks' \in [Objs -> [0 .. MaxBlock - 1 -> BlockValues] \cup {None}],
         \A o \in Objs : blocks[o] # None /\ own[o] # e => tailIdx'[o] = tailIdx[o] /\ blocks'[o] = blocks[o],
         \A d \in Datasets \ {e} : nameIdx'[d] = nameIdx[d],
         nameIdx'[e] # None => Holds(own1, e, nameIdx'[e]),
         c # None => Holds(own1, e, c.obj) /\ (c.handle # None => Holds(own1, e, c.handle)),
         a.pc \in WorkSteps /\ a.obj # None => Holds(own1, e, a.obj),
         \A f \in Frags : \/ frag'[f] = frag[f]
                          \/ /\ DatasetOf[f] = e
                             /\ frag'[f].id # None => Holds(own1, e, frag'[f].id.obj),
         a.pc \in SearchSteps => c = None, a.pc = "write" => c.handle # None,
         tainted \subseteq tainted',
         e \notin tainted' => Clean(e)'
  PROVE  DataInv'
<1>0. MotrInv /\ PlaceInv /\ TypeInv /\ TypeInv' /\ \A d \in Datasets \ tainted : Clean(d)
  BY Zenon DEF DataInv, MotrInv
<1>1. act'[p] = a /\ \A q \in Procs \ {p} : act'[q] = act[q] /\ act[q].pc \notin FormatSteps
  BY <1>0 DEF TypeInv, MotrInv, SessionInv
<1>2. /\ conMap'[p][e] = c /\ \A d \in Datasets \ {e} : conMap'[p][d] = conMap[p][d]
      /\ \A q \in Procs \ {p} : conMap'[q] = conMap[q]
  BY <1>0 DEF TypeInv
<1>3. \A q \in Procs : act[q] \in Acts /\ act'[q] \in Acts
  BY Zenon, <1>0 DEF TypeInv
<1>4. \A q \in Procs : /\ Working(q) <=> act[q].pc \in WorkSteps
                       /\ Working(q)' <=> act'[q].pc \in WorkSteps
  BY Zenon, <1>3, ActRecord DEF Working
<1>5. PlaceInv'
  <2>1. \A q \in Procs \ running' : \A d \in Datasets : conMap'[q][d] = None
    BY <1>0, <1>2 DEF PlaceInv
  <2>2. ASSUME NEW q \in Procs
        PROVE  /\ act'[q].pc \in SearchSteps => conMap'[q][D(q)'] = None
               /\ act'[q].pc = "write" => conMap'[q][D(q)'].handle # None
    <3>1. CASE q = p
      BY <1>1, <1>2, <3>1 DEF D, SearchSteps, WorkSteps, ObjectSteps
    <3>2. CASE q # p
      BY <1>0, <1>1, <1>2, <3>2 DEF PlaceInv, D
    <3> QED BY Zenon, <3>1, <3>2
  <2>3. \A q \in Procs : act'[q].pc \notin FormatSteps
    BY Zenon, <1>1
  <2> QED BY Zenon, <2>1, <2>2, <2>3 DEF PlaceInv, D
<1>6. Owners(own1)'
  <2>1. \A o \in Objs, d \in Datasets : OwnedBy(own, d, o) => OwnedBy(own1, d, o)'
    BY Zenon DEF OwnedBy
  <2>2. \A o \in Objs, d \in Datasets : Holds(own1, d, o) => OwnedBy(own1, d, o)'
    BY Zenon DEF OwnedBy, Holds
  <2>3. ASSUME NEW d \in Datasets, nameIdx'[d] # None
        PROVE  nameIdx'[d] \in Objs /\ (d # e => OwnedBy(own, d, nameIdx[d]) /\ nameIdx'[d] = nameIdx[d])
    BY <1>0, <2>3 DEF TypeInv, Owners
  <2>4. \A d \in Datasets : nameIdx'[d] # None => blocks'[nameIdx'[d]] # None /\ own1[nameIdx'[d]] = d
    BY <2>1, <2>3 DEF Holds, OwnedBy
  <2>5. ASSUME NEW q \in Procs, NEW d \in Datasets, conMap'[q][d] # None
        PROVE  /\ blocks'[conMap'[q][d].obj] # None /\ own1[conMap'[q][d].obj] = d
               /\ conMap'[q][d].handle # None =>
                    blocks'[conMap'[q][d].handle] # None /\ own1[conMap'[q][d].handle] = d
    <3>1. conMap'[q][d] \in Pairs
      BY <1>0, <2>5 DEF TypeInv
    <3>2. conMap'[q][d].obj \in Objs /\ conMap'[q][d].handle \in Objs \cup {None}
      BY Zenon, <3>1 DEF Pairs
    <3>3. CASE q = p /\ d = e
      BY <1>2, <2>5, <3>3 DEF Holds
    <3>4. CASE ~(q = p /\ d = e)
      <4>1. conMap'[q][d] = conMap[q][d]
        BY Zenon, <1>2, <3>4
      <4>2. /\ OwnedBy(own, d, conMap[q][d].obj)
            /\ conMap[q][d].handle # None => OwnedBy(own, d, conMap[q][d].handle)
        BY Zenon, <2>5, <4>1 DEF Owners
      <4> QED BY <2>1, <3>2, <4>1, <4>2 DEF OwnedBy
    <3> QED BY Zenon, <3>3, <3>4
  <2>6. ASSUME NEW q \in Procs, Working(q)', act'[q].obj # None
        PROVE  blocks'[act'[q].obj] # None /\ own1[act'[q].obj] = DatasetOf[act'[q].f]
    <3>1. act'[q].obj \in Objs /\ act'[q].pc \in WorkSteps
      BY Zenon, <1>3, <1>4, <2>6, ActRecord
    <3>2. CASE q = p
      BY <1>1, <2>6, <3>1, <3>2 DEF Holds
    <3>3. CASE q # p
      <4>1. act'[q] = act[q] /\ OwnedBy(own, DatasetOf[act[q].f], act[q].obj) /\ DatasetOf[act[q].f] \in Datasets
        BY Zenon, <1>1, <1>3, <1>4, <2>6, <3>3, ActRecord DEF Owners, D
      <4> QED BY <2>1, <3>1, <4>1 DEF OwnedBy
    <3> QED BY Zenon, <3>2, <3>3
  <2>7. ASSUME NEW f \in Frags, frag'[f].id # None
        PROVE  blocks'[frag'[f].id.obj] # None /\ own1[frag'[f].id.obj] = DatasetOf[f]
    <3>1. DatasetOf[f] \in Datasets
      BY Zenon, MotrAssumption
    <3>2. CASE frag'[f] = frag[f]
      <4>1. OwnedBy(own, DatasetOf[f], frag[f].id.obj) /\ frag[f].id.obj \in Objs
        BY <1>0, <2>7, <3>2 DEF Owners, TypeInv, Positions
      <4> QED BY <2>1, <3>1, <3>2, <4>1 DEF OwnedBy
    <3>3. CASE DatasetOf[f] = e /\ Holds(own1, e, frag'[f].id.obj)
      BY Zenon, <3>3 DEF Holds
    <3> QED BY Zenon, <2>7, <3>2, <3>3
  <2> QED BY Zenon, <2>4, <2>5, <2>6, <2>7 DEF Owners, OwnedBy, D
<1>7. ASSUME NEW d \in Datasets \ tainted' PROVE Clean(d)'
  <2>1. CASE d = e
    BY Zenon, <1>7, <2>1
  <2>2. CASE d # e
    <3>1. Clean(d) /\ nameIdx'[d] = nameIdx[d]
      BY Zenon, <1>0, <2>2
    <3>2. nameIdx[d] # None => /\ tailIdx'[nameIdx[d]] = tailIdx[nameIdx[d]]
                               /\ blocks'[nameIdx[d]] = blocks[nameIdx[d]]
      <4>1. nameIdx[d] # None => nameIdx[d] \in Objs /\ OwnedBy(own, d, nameIdx[d])
        BY <1>0 DEF TypeInv, Owners
      <4> QED BY Zenon, <2>2, <4>1 DEF OwnedBy
    <3>3. \A q \in Procs : conMap'[q][d] = conMap[q][d]
      BY Zenon, <1>2, <2>2
    <3>4. \A f \in Frags : DatasetOf[f] = d => frag'[f] = frag[f]
      BY Zenon, <2>2
    <3>5. \A f \in Frags : frag[f].id # None => frag[f].id.obj # None
      BY <1>0, MotrAssumption DEF TypeInv, Positions
    <3>6. \A q \in Procs : (Working(q) /\ D(q) = d) \/ (Working(q)' /\ D(q)' = d) =>
                              act'[q] = act[q] /\ act[q].f \in Frags
      <4> SUFFICES ASSUME NEW q \in Procs, (Working(q) /\ D(q) = d) \/ (Working(q)' /\ D(q)' = d)
                   PROVE  act'[q] = act[q] /\ act[q].f \in Frags
        BY Zenon
      <4>1. q # p
        BY <1>1, <1>4, <2>2 DEF D
      <4>2. act'[q] = act[q] /\ act[q].pc \in WorkSteps
        BY Zenon, <1>1, <1>4, <4>1
      <4> QED BY Zenon, <1>3, <4>2, ActRecord
    <3> QED BY Zenon, <3>1, <3>2, <3>3, <3>4, <3>5, <3>6, OtherDataset
  <2> QED BY Zenon, <2>1, <2>2
<1> QED BY Zenon, <1>5, <1>6, <1>7 DEF DataInv, OwnersInv


LEMMA SoleSession ==
  ASSUME DataInv, NEW p \in Procs, NEW d \in Datasets \ tainted, Uses(p, d)
  PROVE  \A q \in Procs \ {p} : ~Uses(q, d)
BY Zenon DEF DataInv, Clean, SoleUser

\* A step of a session that works: its activity, as a record.
LEMMA WorkFacts ==
  ASSUME MotrInv, NEW p \in Procs, act[p].pc \in WorkSteps
  PROVE  /\ act[p] \in Acts /\ Working(p) /\ p \in running /\ act[p].pc \notin FormatSteps
         /\ act[p].f \in Frags /\ DatasetOf[act[p].f] \in Datasets /\ D(p) = DatasetOf[act[p].f]
         /\ D(p) \in Datasets /\ act[p].pos \in Nat /\ act[p].obj \in Objs \cup {None}
         /\ act[p].pc \in ObjectSteps => act[p].obj \in Objs
         /\ conMap[p] \in [Datasets -> Pairs \cup {None}]
<1>1. act[p] \in Acts
  BY Zenon DEF MotrInv, TypeInv
<1>2. act[p].pc # "idle" /\ act[p].pc \notin FormatSteps
  BY Zenon DEF WorkSteps, ObjectSteps, FormatSteps
<1> QED BY Zenon, <1>1, <1>2, ActRecord, Acting DEF Working, D

\* A step that changes the activity of a session only.
LEMMA ActivityStep ==
  ASSUME DataInv, MotrInv', NEW p \in Procs, p \in running,
         UNCHANGED <<nameIdx, tailIdx, blocks, running, conMap, frag>>,
         NEW e \in Datasets,
         NEW a \in Acts, act' = [act EXCEPT ![p] = a],
         act[p].pc \notin FormatSteps, a.pc \notin FormatSteps,
         act[p].pc \in WorkSteps => DatasetOf[act[p].f] = e,
         a.pc \in WorkSteps => DatasetOf[a.f] = e,
         a.pc \in WorkSteps /\ a.obj # None =>
           \A own \in [Objs -> Datasets] : Owners(own) => OwnedBy(own, e, a.obj),
         a.pc \in SearchSteps => conMap[p][e] = None, a.pc # "write",
         tainted \subseteq tainted',
         e \notin tainted' => WorkNamed(p, e)' /\ \A q \in Procs \ {p} : ~Uses(q, e)
  PROVE  DataInv'
<1>0. MotrInv /\ PlaceInv /\ TypeInv
  BY Zenon DEF DataInv, MotrInv
<1>1. PICK own \in [Objs -> Datasets] : Owners(own)
  BY Zenon DEF DataInv, OwnersInv
<1>2. /\ conMap[p][e] \in Pairs \cup {None}
      /\ conMap' = [conMap EXCEPT ![p][e] = conMap[p][e]]
  BY Zenon, <1>0 DEF TypeInv
<1>3. blocks' \in [Objs -> [0 .. MaxBlock - 1 -> BlockValues] \cup {None}]
  BY Zenon, <1>0 DEF PlaceInv
<1>4. /\ nameIdx'[e] # None => Holds(own, e, nameIdx'[e])
      /\ conMap[p][e] # None => /\ Holds(own, e, conMap[p][e].obj)
                                /\ conMap[p][e].handle # None => Holds(own, e, conMap[p][e].handle)
      /\ a.pc \in WorkSteps /\ a.obj # None => Holds(own, e, a.obj)
  <2>1. \A o : OwnedBy(own, e, o) => Holds(own, e, o)
    BY Zenon DEF OwnedBy, Holds
  <2> QED BY Zenon, <1>1, <2>1 DEF Owners
<1>5. ASSUME e \notin tainted' PROVE Clean(e)'
  <2>1. Clean(e)
    BY Zenon, <1>5 DEF DataInv
  <2>2. \A q \in Procs \ {p} : ~Uses(q, e) /\ act'[q] = act[q] /\ conMap'[q] = conMap[q]
    BY Zenon, <1>0, <1>5 DEF TypeInv
  <2>3. PairNamed(p, e)'
    BY Zenon, <2>1 DEF Clean, PairNamed, Cached
  <2>4. FragsApart(e)' /\ \A f \in Frags : Placed(f, e)' => Placed(f, e) /\ End(f)' = End(f)
    BY Zenon, <2>1 DEF Clean, FragsApart, Placed, End
  <2>5. \A f \in Frags : Placed(f, e)' =>
           End(f)' <= IF Cached(p, e)' THEN conMap'[p][e].tail ELSE tailIdx'[nameIdx'[e]]
    <3>1. \A q \in Procs \ {p} : ~Cached(q, e)
      BY Zenon, <2>2 DEF Uses
    <3>2. Cached(p, e)' <=> Cached(p, e)
      BY Zenon DEF Cached
    <3> QED BY Zenon, <2>1, <2>4, <3>1, <3>2 DEF Clean, BelowTail
  <2> QED BY Zenon, <1>5, <2>2, <2>3, <2>4, <2>5, UsedDataset
<1>6. \A o \in Objs : blocks[o] # None => own[o] = own[o] /\ blocks'[o] # None
  BY Zenon
<1>7. \A o \in Objs : blocks[o] # None /\ own[o] # e => tailIdx'[o] = tailIdx[o] /\ blocks'[o] = blocks[o]
  BY Zenon
<1>8. /\ \A d \in Datasets \ {e} : nameIdx'[d] = nameIdx[d]
      /\ \A f \in Frags : \/ frag'[f] = frag[f]
                          \/ /\ DatasetOf[f] = e
                             /\ frag'[f].id # None => Holds(own, e, frag'[f].id.obj)
  BY Zenon
<1> QED BY Zenon, <1>1, <1>2, <1>3, <1>4, <1>5, <1>6, <1>7, <1>8, WorkingStep

\* A session gives up, or an operation ends.
LEMMA EndOfWork ==
  ASSUME DataInv, MotrInv', NEW p \in Procs, act[p].pc \in WorkSteps, Finish(p),
         UNCHANGED <<nameIdx, tailIdx, blocks, running, conMap, frag, tainted>>
  PROVE  DataInv'
<1>0. MotrInv
  BY Zenon DEF DataInv
<1>1. Idle \in Acts /\ Idle.pc = "idle" /\ act' = [act EXCEPT ![p] = Idle]
  BY Zenon, <1>0, Acting DEF Finish
<1>2. ~Working(p)'
  BY Zenon, <1>0, <1>1 DEF Working, Idle, MotrInv, TypeInv
<1>3. PICK e \in Datasets : e = D(p)
  BY Zenon, <1>0, WorkFacts
<1>4. ASSUME e \notin tainted' PROVE WorkNamed(p, e)' /\ \A q \in Procs \ {p} : ~Uses(q, e)
  <2>1. Uses(p, e) /\ e \in Datasets \ tainted
    BY Zenon, <1>0, <1>3, <1>4, WorkFacts DEF Uses
  <2>2. \A q \in Procs \ {p} : ~Uses(q, e)
    BY Zenon, <2>1, SoleSession
  <2> QED BY Zenon, <1>2, <2>2 DEF WorkNamed
<1>5. /\ p \in running /\ act[p].pc \notin FormatSteps /\ DatasetOf[act[p].f] = e
      /\ Idle.pc \notin WorkSteps \cup FormatSteps \cup SearchSteps \cup {"write"}
  BY Zenon, <1>0, <1>1, <1>3, WorkFacts DEF WorkSteps, ObjectSteps, FormatSteps, SearchSteps
<1> QED BY Zenon, <1>1, <1>4, <1>5, ActivityStep

(* The steps that look something up, or start.                             *)
LEMMA UpdateLooksUp ==
  ASSUME DataInv, MotrInv', NEW p \in Procs, NEW f \in Frags, MotrUpdate(p, f),
         ~(frag[f].id = None /\ Cached(p, DatasetOf[f]))
  PROVE  DataInv'
<1>0. MotrInv /\ PlaceInv /\ DatasetOf[f] \in Datasets /\ TypeInv
  BY Zenon, FragmentFacts DEF DataInv, MotrInv
<1>1. PICK e \in Datasets : e = DatasetOf[f]
  BY Zenon, <1>0
<1>2. /\ p \in running /\ act[p] = Idle /\ act[p].pc = "idle"
      /\ UNCHANGED <<nameIdx, tailIdx, blocks, running, conMap, frag>>
      /\ tainted' = tainted \cup IF frag[f].id # None \/ Shared(p, e) THEN {e} ELSE {}
  BY <1>1 DEF MotrUpdate, Idle
<1>3. PICK a : /\ act' = [act EXCEPT ![p] = a] /\ a \in Acts /\ a.f = f
               /\ \/ frag[f].id = None /\ ~Cached(p, e) /\ a.pc = "getname" /\ a.obj = None
                  \/ /\ frag[f].id # None /\ a.obj = frag[f].id.obj
                     /\ a.pc = IF Cached(p, e) THEN "open" ELSE "regettail"
  <2>1. CASE frag[f].id = None
    <3> DEFINE a == [pc |-> "getname", f |-> f, obj |-> None, pos |-> 0]
    <3>1. a \in Acts /\ a.pc = "getname" /\ a.f = f /\ a.obj = None
      BY Zenon DEF Acts, SearchActs
    <3>2. act' = [act EXCEPT ![p] = a] /\ ~Cached(p, e)
      BY Zenon, <1>1, <2>1 DEF MotrUpdate
    <3> HIDE DEF a
    <3> QED BY Zenon, <2>1, <3>1, <3>2
  <2>2. CASE frag[f].id # None
    <3> DEFINE a == [pc |-> IF Cached(p, e) THEN "open" ELSE "regettail",
                     f |-> f, obj |-> frag[f].id.obj, pos |-> 0]
    <3>1. frag[f].id.obj \in Objs
      BY Zenon, <1>0, <2>2 DEF TypeInv, Positions
    <3>2. /\ a \in Acts /\ a.f = f /\ a.obj = frag[f].id.obj
          /\ a.pc = IF Cached(p, e) THEN "open" ELSE "regettail"
      BY Zenon, <3>1 DEF Acts, ObjectActs, ObjectSteps
    <3>3. act' = [act EXCEPT ![p] = a]
      BY Zenon, <1>1, <2>2 DEF MotrUpdate
    <3> HIDE DEF a
    <3> QED BY Zenon, <2>2, <3>2, <3>3
  <2> QED BY Zenon, <2>1, <2>2
<1>4. /\ a.pc \in {"getname", "open", "regettail"} /\ a.pc \notin FormatSteps /\ a.pc # "write"
      /\ act[p].pc \notin FormatSteps \cup WorkSteps /\ DatasetOf[a.f] = e
      /\ a.pc \in SearchSteps => conMap[p][e] = None
  BY Zenon, <1>1, <1>2, <1>3 DEF FormatSteps, WorkSteps, ObjectSteps, SearchSteps, Cached
<1>5. a.obj # None => \A own \in [Objs -> Datasets] : Owners(own) => OwnedBy(own, e, a.obj)
  BY Zenon, <1>1, <1>3 DEF Owners
<1>6. ASSUME e \notin tainted' PROVE WorkNamed(p, e)' /\ \A q \in Procs \ {p} : ~Uses(q, e)
  <2>1. frag[f].id = None /\ ~Shared(p, e)
    BY Zenon, <1>2, <1>6
  <2>2. a.pc = "getname" /\ act'[p] = a
    BY Zenon, <1>0, <1>3, <2>1 DEF TypeInv
  <2>3. WorkNamed(p, e)'
    BY Zenon, <1>2, <1>3, <2>1, <2>2 DEF WorkNamed
  <2>4. \A q \in Procs \ {p} : ~Uses(q, e)
    BY Zenon, <2>1 DEF Shared, Uses, D
  <2> QED BY Zenon, <2>3, <2>4
<1>7. tainted \subseteq tainted'
  BY Zenon, <1>2
<1> QED BY Zenon, <1>2, <1>3, <1>4, <1>5, <1>6, <1>7, ActivityStep

LEMMA RetrieveLooksUp ==
  ASSUME DataInv, MotrInv', NEW p \in Procs, NEW f \in Frags, MotrRetrieve(p, f)
  PROVE  DataInv'
<1>0. MotrInv /\ PlaceInv /\ DatasetOf[f] \in Datasets /\ TypeInv
  BY Zenon, FragmentFacts DEF DataInv, MotrInv
<1>1. PICK e \in Datasets : e = DatasetOf[f]
  BY Zenon, <1>0
<1>2. /\ p \in running /\ act[p] = Idle /\ act[p].pc = "idle" /\ frag[f].id # None
      /\ UNCHANGED <<nameIdx, tailIdx, blocks, running, conMap, frag>>
      /\ tainted' = tainted \cup IF Shared(p, e) THEN {e} ELSE {}
  BY <1>1 DEF MotrRetrieve, Idle
<1>3. PICK a : /\ act' = [act EXCEPT ![p] = a] /\ a \in Acts /\ a.f = f /\ a.obj = frag[f].id.obj
               /\ a.pc = IF Cached(p, e) THEN "read" ELSE "readtail"
  <2> DEFINE a == [pc |-> IF Cached(p, e) THEN "read" ELSE "readtail",
                   f |-> f, obj |-> frag[f].id.obj, pos |-> frag[f].id.pos]
  <2>1. frag[f].id.obj \in Objs /\ frag[f].id.pos \in Nat
    BY Zenon, <1>0, <1>2 DEF TypeInv, Positions
  <2>2. /\ a \in Acts /\ a.f = f /\ a.obj = frag[f].id.obj
        /\ a.pc = IF Cached(p, e) THEN "read" ELSE "readtail"
    BY Zenon, <2>1 DEF Acts, ObjectActs, ObjectSteps
  <2>3. act' = [act EXCEPT ![p] = a]
    BY Zenon, <1>1 DEF MotrRetrieve
  <2> HIDE DEF a
  <2> QED BY Zenon, <2>2, <2>3
<1>4. /\ a.pc \in {"read", "readtail"} /\ a.pc \notin FormatSteps /\ a.pc # "write"
      /\ act[p].pc \notin FormatSteps \cup WorkSteps /\ DatasetOf[a.f] = e
      /\ a.pc \in SearchSteps => conMap[p][e] = None
  BY Zenon, <1>1, <1>2, <1>3 DEF FormatSteps, WorkSteps, ObjectSteps, SearchSteps, Cached
<1>5. a.obj # None => \A own \in [Objs -> Datasets] : Owners(own) => OwnedBy(own, e, a.obj)
  BY Zenon, <1>1, <1>2, <1>3 DEF Owners
<1>6. ASSUME e \notin tainted' PROVE WorkNamed(p, e)' /\ \A q \in Procs \ {p} : ~Uses(q, e)
  <2>1. ~Shared(p, e) /\ Clean(e)
    BY Zenon, <1>2, <1>6 DEF DataInv
  <2>2. act'[p] = a /\ a.obj = nameIdx[e]
    BY Zenon, <1>0, <1>1, <1>2, <1>3, <2>1 DEF TypeInv, Clean, FragsApart, Placed
  <2>3. WorkNamed(p, e)'
    BY Zenon, <1>2, <1>4, <2>2 DEF WorkNamed
  <2>4. \A q \in Procs \ {p} : ~Uses(q, e)
    BY Zenon, <2>1 DEF Shared, Uses, D
  <2> QED BY Zenon, <2>3, <2>4
<1>7. tainted \subseteq tainted'
  BY Zenon, <1>2
<1> QED BY Zenon, <1>2, <1>3, <1>4, <1>5, <1>6, <1>7, ActivityStep

LEMMA NameLookedUp ==
  ASSUME DataInv, MotrInv', NEW p \in Procs,
         GetName(p) \/ (GetTail(p) /\ Continue(p, "alloc") /\ UNCHANGED <<frag, conMap>> /\ D(p) \in tainted')
  PROVE  DataInv'
<1>0. MotrInv /\ PlaceInv /\ TypeInv /\ act[p].pc \in {"getname", "gettail"} /\ act[p].pc \in WorkSteps
  BY Zenon DEF DataInv, MotrInv, GetName, GetTail, WorkSteps, ObjectSteps
<1>1. PICK e \in Datasets : e = D(p)
  BY Zenon, <1>0, WorkFacts
<1>2. /\ p \in running /\ DatasetOf[act[p].f] = e /\ act[p].pc \notin FormatSteps /\ Working(p)
      /\ UNCHANGED <<nameIdx, tailIdx, blocks, running, conMap, frag>>
      /\ tainted \subseteq tainted' /\ conMap[p][e] = None
  BY Zenon, <1>0, <1>1, WorkFacts DEF GetName, GetTail, PlaceInv, SearchSteps
<1>3. PICK a : /\ act' = [act EXCEPT ![p] = a] /\ a \in Acts /\ a.f = act[p].f
               /\ \/ a.pc = "gettail" /\ a.obj = nameIdx[e] /\ nameIdx[e] # None
                  \/ a.pc = "alloc" /\ a.obj = act[p].obj /\ (nameIdx[e] # None => e \in tainted')
  <2>1. CASE Continue(p, "alloc")
    <3> DEFINE a == [act[p] EXCEPT !.pc = "alloc"]
    <3>1. act' = [act EXCEPT ![p] = a]
      BY Zenon, <2>1 DEF Continue
    <3>2. act[p] \in SearchActs \cup ObjectActs
      BY Zenon, <1>0, ActShape DEF ObjectSteps
    <3>3. a \in Acts /\ a.f = act[p].f /\ a.pc = "alloc" /\ a.obj = act[p].obj
      BY Zenon, <3>2 DEF Acts, SearchActs, ObjectActs
    <3>4. nameIdx[e] # None => e \in tainted'
      <4>1. CASE GetTail(p) /\ D(p) \in tainted'
        BY Zenon, <1>1, <4>1
      <4>2. CASE GetName(p)
        <5>1. act'[p].pc = "alloc"
          BY Zenon, <1>0, <3>1, <3>3 DEF TypeInv
        <5>2. ~(act' = [act EXCEPT ![p].pc = "gettail", ![p].obj = nameIdx[D(p)]])
          BY <1>0, <3>2, <5>1 DEF TypeInv, SearchActs, ObjectActs
        <5> QED BY Zenon, <1>1, <4>2, <5>2 DEF GetName
      <4> QED BY Zenon, <4>1, <4>2
    <3> HIDE DEF a
    <3> QED BY Zenon, <3>1, <3>3, <3>4
  <2>2. CASE GetName(p) /\ ~Continue(p, "alloc")
    <3> DEFINE a == [act[p] EXCEPT !.pc = "gettail", !.obj = nameIdx[e]]
    <3>1. act' = [act EXCEPT ![p] = a] /\ nameIdx[e] # None
      BY Zenon, <1>1, <2>2 DEF GetName, MappingGet
    <3>2. act[p] \in SearchActs \cup ObjectActs
      BY Zenon, <1>0, ActShape DEF ObjectSteps
    <3>3. nameIdx[e] \in Objs
      BY Zenon, <1>0, <3>1 DEF TypeInv
    <3>4. a \in Acts /\ a.f = act[p].f /\ a.pc = "gettail" /\ a.obj = nameIdx[e]
      BY Zenon, <3>2, <3>3 DEF Acts, SearchActs, ObjectActs, ObjectSteps
    <3> HIDE DEF a
    <3> QED BY Zenon, <3>1, <3>4
  <2> QED BY Zenon, <2>1, <2>2
<1>4. a.pc \notin FormatSteps /\ a.pc # "write" /\ DatasetOf[a.f] = e /\ a.pc \in {"gettail", "alloc"}
  BY Zenon, <1>2, <1>3 DEF FormatSteps
<1>5. a.obj # None => \A own \in [Objs -> Datasets] : Owners(own) => OwnedBy(own, e, a.obj)
  BY Zenon, <1>1, <1>2, <1>3 DEF Owners
<1>6. ASSUME e \notin tainted' PROVE WorkNamed(p, e)' /\ \A q \in Procs \ {p} : ~Uses(q, e)
  <2>1. Uses(p, e) /\ e \in Datasets \ tainted
    BY Zenon, <1>1, <1>2, <1>6 DEF Uses
  <2>2. act'[p] = a
    BY Zenon, <1>0, <1>3 DEF TypeInv
  <2>3. WorkNamed(p, e)'
    <3>1. frag[act[p].f].id = None
      BY Zenon, <1>0, <1>1, <1>2, <2>1 DEF DataInv, Clean, WorkNamed
    <3> QED BY Zenon, <1>2, <1>3, <1>6, <2>2, <3>1 DEF WorkNamed
  <2> QED BY Zenon, <2>1, <2>3, SoleSession
<1> QED BY Zenon, <1>2, <1>3, <1>4, <1>5, <1>6, ActivityStep


-----------------------------------------------------------------------------
\* A fragment gets its place behind all the others.
LEMMA FragmentPlaced ==
  ASSUME NEW e \in Datasets, FragsApart(e), NEW f \in Frags, DatasetOf[f] = e,
         NEW o \in Objs, NEW pos \in Nat, pos + SizeOf[f] <= MaxBlock,
         frag \in [Frags -> [id : Positions \cup {None}, stored : Nat]],
         frag' = [frag EXCEPT ![f].id = [pos |-> pos, obj |-> o]],
         frag[f].id = None, frag[f].stored = 0,
         nameIdx'[e] = o, UNCHANGED blocks,
         \A g \in Frags : Placed(g, e) => nameIdx[e] = o /\ End(g) <= pos
  PROVE  /\ FragsApart(e)'
         /\ \A g \in Frags : Placed(g, e)' => End(g)' <= pos + SizeOf[f]
<1>1. /\ frag'[f].id.pos = pos /\ frag'[f].id.obj = o /\ frag'[f].stored = 0
      /\ \A g \in Frags \ {f} : frag'[g] = frag[g]
  BY Zenon
<1>2. /\ End(f)' = pos + SizeOf[f] /\ SizeOf[f] \in Nat
      /\ \A g \in Frags \ {f} : End(g)' = End(g) /\ (Placed(g, e)' <=> Placed(g, e))
  BY Zenon, <1>1, FragmentFacts DEF End, Placed
<1>3. \A g \in Frags \ {f} : Placed(g, e) => End(g) \in Nat /\ End(g) <= pos /\ nameIdx[e] = o
  BY FragmentFacts DEF Placed, End, Positions
<1>4. \A g \in Frags : Placed(g, e)' => frag'[g].id.obj = nameIdx'[e] /\ End(g)' <= MaxBlock
  BY Zenon, <1>1, <1>2, <1>3 DEF FragsApart
<1>5. \A g, h \in Frags : Placed(g, e)' /\ Placed(h, e)' /\ g # h =>
         End(g)' <= frag'[h].id.pos \/ End(h)' <= frag'[g].id.pos
  <2> SUFFICES ASSUME NEW g \in Frags, NEW h \in Frags, Placed(g, e)', Placed(h, e)', g # h
               PROVE  End(g)' <= frag'[h].id.pos \/ End(h)' <= frag'[g].id.pos
    BY Zenon
  <2>1. CASE g # f /\ h # f
    BY <1>1, <1>2, <2>1 DEF FragsApart
  <2>2. CASE g = f \/ h = f
    BY <1>1, <1>2, <1>3, <2>2
  <2> QED BY Zenon, <2>1, <2>2
<1>6. \A g \in Frags : Placed(g, e)' /\ frag'[g].stored # 0 =>
        \A b \in frag'[g].id.pos .. End(g)' - 1 : blocks'[nameIdx'[e]][b] = <<g, frag'[g].stored>>
  BY <1>1, <1>2, <1>3 DEF FragsApart
<1>7. \A g \in Frags : Placed(g, e)' => End(g)' <= pos + SizeOf[f]
  BY <1>2, <1>3
<1>8. \A g \in Frags : DatasetOf[g] = e /\ frag'[g].stored # 0 => Placed(g, e)'
  BY Zenon, <1>1, <1>2 DEF FragsApart
<1> QED BY Zenon, <1>4, <1>5, <1>6, <1>7, <1>8 DEF FragsApart

LEMMA AppendKeepsData ==
  ASSUME DataInv, MotrInv', NEW p \in Procs, p \in running, running' = running,
         NEW f \in Frags, NEW o \in Objs, NEW pos \in Nat, Appended(p, f, o, pos),
         NEW e \in Datasets, DatasetOf[f] = e,
         NEW c \in Pairs, c.obj = o, conMap' = [conMap EXCEPT ![p][e] = c],
         UNCHANGED <<tailIdx, blocks>>, tainted \subseteq tainted',
         act[p].pc \notin FormatSteps, act[p].pc \in WorkSteps => DatasetOf[act[p].f] = e,
         \A d \in Datasets \ {e} : nameIdx'[d] = nameIdx[d], nameIdx'[e] \in {nameIdx[e], o},
         \A own \in [Objs -> Datasets] : Owners(own) =>
           OwnedBy(own, e, o) /\ (c.handle # None => OwnedBy(own, e, c.handle)),
         e \notin tainted' =>
           /\ \A q \in Procs \ {p} : ~Uses(q, e)
           /\ nameIdx'[e] = o /\ c.handle \in {None, o} /\ frag[f].id = None
           /\ pos + SizeOf[f] <= MaxBlock /\ c.tail = pos + SizeOf[f]
           /\ \A g \in Frags : Placed(g, e) => nameIdx[e] = o /\ End(g) <= pos
  PROVE  DataInv'
<1> DEFINE a == [pc |-> "open", f |-> f, obj |-> o, pos |-> pos]
           i == [pos |-> pos, obj |-> o]
<1>0. MotrInv /\ PlaceInv /\ TypeInv
  BY Zenon DEF DataInv, MotrInv
<1>1. PICK own \in [Objs -> Datasets] : Owners(own)
  BY Zenon DEF DataInv, OwnersInv
<1>2. /\ a \in Acts /\ a.pc = "open" /\ a.f = f /\ a.obj = o /\ a.pos = pos
      /\ i \in Positions /\ i.obj = o /\ i = [pos |-> a.pos, obj |-> a.obj]
  BY Zenon DEF Acts, ObjectActs, ObjectSteps, Positions
<1>3. act' = [act EXCEPT ![p] = a] /\ frag' = [frag EXCEPT ![f].id = i]
  BY Zenon DEF Appended
<1> HIDE DEF a, i
<1>4. /\ frag'[f].id = i /\ frag'[f].stored = frag[f].stored
      /\ \A g \in Frags \ {f} : frag'[g] = frag[g]
      /\ i # None /\ c # None /\ o # None
  BY <1>0, <1>2, <1>3, MotrAssumption DEF TypeInv
<1>5. /\ nameIdx'[e] # None => Holds(own, e, nameIdx'[e])
      /\ Holds(own, e, o) /\ (c.handle # None => Holds(own, e, c.handle))
  <2>1. \A x : OwnedBy(own, e, x) => Holds(own, e, x)
    BY Zenon DEF OwnedBy, Holds
  <2> QED BY Zenon, <1>1, <2>1 DEF Owners
<1>6. \A g \in Frags : \/ frag'[g] = frag[g]
                       \/ /\ DatasetOf[g] = e
                          /\ frag'[g].id # None => Holds(own, e, frag'[g].id.obj)
  BY <1>2, <1>4, <1>5
<1>7. ASSUME e \notin tainted' PROVE Clean(e)'
  <2>1. Clean(e)
    BY Zenon, <1>7 DEF DataInv
  <2>2. \A q \in Procs \ {p} : ~Uses(q, e) /\ act'[q] = act[q] /\ conMap'[q] = conMap[q]
    BY Zenon, <1>0, <1>3, <1>7 DEF TypeInv
  <2>3. act'[p] = a /\ conMap'[p][e] = c
    BY Zenon, <1>0, <1>3 DEF TypeInv
  <2>4. PairNamed(p, e)'
    BY Zenon, <1>7, <2>3 DEF PairNamed
  <2>5. frag[f].stored = 0
    BY Zenon, <1>7, <2>1 DEF Clean, FragsApart, Placed
  <2>6. WorkNamed(p, e)'
    BY Zenon, <1>2, <1>4, <1>7, <2>3, <2>5 DEF WorkNamed
  <2>7. /\ FragsApart(e) /\ frag \in [Frags -> [id : Positions \cup {None}, stored : Nat]]
        /\ frag' = [frag EXCEPT ![f].id = [pos |-> pos, obj |-> o]]
    BY Zenon, <1>0, <1>3, <2>1 DEF Clean, TypeInv, i
  <2>8. /\ FragsApart(e)'
        /\ \A g \in Frags : Placed(g, e)' => End(g)' <= pos + SizeOf[f]
    BY Zenon, <1>7, <2>5, <2>7, FragmentPlaced
  <2>9. Cached(p, e)' /\ c.tail = pos + SizeOf[f]
    BY Zenon, <1>4, <1>7, <2>3 DEF Cached
  <2>10. \A g \in Frags : Placed(g, e)' =>
           End(g)' <= IF Cached(p, e)' THEN conMap'[p][e].tail ELSE tailIdx'[nameIdx'[e]]
    BY Zenon, <2>3, <2>8, <2>9
  <2> QED BY Zenon, <2>2, <2>4, <2>6, <2>8, <2>10, UsedDataset
<1>8. /\ a.pc \notin FormatSteps /\ a.pc \notin SearchSteps /\ a.pc # "write" /\ DatasetOf[a.f] = e
      /\ c \in Pairs \cup {None}
      /\ blocks' \in [Objs -> [0 .. MaxBlock - 1 -> BlockValues] \cup {None}]
  BY Zenon, <1>0, <1>2 DEF FormatSteps, SearchSteps, PlaceInv
<1>9. /\ \A x \in Objs : blocks[x] # None => own[x] = own[x] /\ blocks'[x] # None
      /\ \A x \in Objs : blocks[x] # None /\ own[x] # e => tailIdx'[x] = tailIdx[x] /\ blocks'[x] = blocks[x]
  BY Zenon
<1>10. /\ c # None => Holds(own, e, c.obj) /\ (c.handle # None => Holds(own, e, c.handle))
       /\ a.pc \in WorkSteps /\ a.obj # None => Holds(own, e, a.obj)
  BY Zenon, <1>2, <1>5
<1> QED BY Zenon, <1>1, <1>2, <1>3, <1>5, <1>6, <1>7, <1>8, <1>9, <1>10, WorkingStep


LEMMA UpdateKeepsData ==
  ASSUME DataInv, MotrInv', NEW p \in Procs, NEW f \in Frags, MotrUpdate(p, f)
  PROVE  DataInv'
<1>a. SUFFICES ASSUME frag[f].id = None, Cached(p, DatasetOf[f])
               PROVE  DataInv'
  BY Zenon, UpdateLooksUp
<1>0. MotrInv /\ PlaceInv /\ TypeInv /\ DatasetOf[f] \in Datasets /\ SizeOf[f] \in Nat
  BY Zenon, FragmentFacts DEF DataInv, MotrInv
<1>1. PICK e \in Datasets : e = DatasetOf[f]
  BY Zenon, <1>0
<1> DEFINE old == conMap[p][e]
           c == [old EXCEPT !.tail = @ + SizeOf[f]]
<1>2. /\ p \in running /\ running' = running /\ act[p].pc = "idle"
      /\ UNCHANGED <<nameIdx, tailIdx, blocks>>
      /\ tainted' = tainted \cup IF frag[f].id # None \/ Shared(p, e) THEN {e} ELSE {}
      /\ old.tail + SizeOf[f] <= MaxBlock /\ Appended(p, f, old.obj, old.tail)
      /\ conMap' = [conMap EXCEPT ![p][e] = c]
  BY <1>a, <1>1 DEF MotrUpdate, Idle
<1>3. old \in Pairs
  BY <1>a, <1>0, <1>1 DEF TypeInv, Cached
<1>4. /\ c \in Pairs /\ c.obj = old.obj /\ c.handle = old.handle /\ c.tail = old.tail + SizeOf[f]
      /\ old.obj \in Objs /\ old.tail \in Nat
  BY <1>0, <1>3 DEF Pairs
<1>5. act[p].pc \notin FormatSteps \cup WorkSteps /\ tainted \subseteq tainted'
  BY Zenon, <1>2 DEF FormatSteps, WorkSteps, ObjectSteps
<1>6. \A own \in [Objs -> Datasets] : Owners(own) =>
         OwnedBy(own, e, old.obj) /\ (old.handle # None => OwnedBy(own, e, old.handle))
  BY Zenon, <1>a, <1>1 DEF Owners, Cached
<1>7. ASSUME e \notin tainted'
      PROVE  /\ \A q \in Procs \ {p} : ~Uses(q, e)
             /\ nameIdx'[e] = old.obj /\ old.handle \in {None, old.obj}
             /\ \A g \in Frags : Placed(g, e) => nameIdx[e] = old.obj /\ End(g) <= old.tail
  <2>1. Clean(e) /\ ~Shared(p, e) /\ Cached(p, e)
    BY Zenon, <1>a, <1>1, <1>2, <1>7 DEF DataInv
  <2>2. \A q \in Procs \ {p} : ~Uses(q, e)
    BY Zenon, <2>1 DEF Shared, Uses, D
  <2>3. nameIdx[e] = old.obj /\ old.handle \in {None, old.obj}
    BY Zenon, <2>1 DEF Clean, PairNamed
  <2>4. \A g \in Frags : Placed(g, e) => End(g) <= old.tail
    BY Zenon, <2>1 DEF Clean, BelowTail
  <2> QED BY Zenon, <1>2, <2>2, <2>3, <2>4
<1> HIDE DEF c, old
<1>8. PICK o \in Objs, pos \in Nat : o = old.obj /\ pos = old.tail
  BY Zenon, <1>4
<1>9. /\ \A d \in Datasets \ {e} : nameIdx'[d] = nameIdx[d]
      /\ nameIdx'[e] \in {nameIdx[e], o}
      /\ act[p].pc \in WorkSteps => DatasetOf[act[p].f] = e
  BY Zenon, <1>2, <1>5, <1>8
<1>10. \A own \in [Objs -> Datasets] : Owners(own) =>
  OwnedBy(own, e, o) /\ (c.handle # None => OwnedBy(own, e, c.handle))
  BY Zenon, <1>4, <1>6, <1>8
<1>11. e \notin tainted' =>
        /\ \A q \in Procs \ {p} : ~Uses(q, e)
        /\ nameIdx'[e] = o /\ c.handle \in {None, o} /\ frag[f].id = None
        /\ pos + SizeOf[f] <= MaxBlock /\ c.tail = pos + SizeOf[f]
        /\ \A g \in Frags : Placed(g, e) => nameIdx[e] = o /\ End(g) <= pos
  BY Zenon, <1>a, <1>2, <1>4, <1>7, <1>8
<1>12. /\ p \in running /\ running' = running /\ o \in Objs /\ pos \in Nat
      /\ Appended(p, f, o, pos) /\ DatasetOf[f] = e
      /\ c \in Pairs /\ c.obj = o /\ conMap' = [conMap EXCEPT ![p][e] = c]
      /\ UNCHANGED <<tailIdx, blocks>> /\ tainted \subseteq tainted'
      /\ act[p].pc \notin FormatSteps
  BY Zenon, <1>1, <1>2, <1>4, <1>5, <1>8
<1> QED BY ZenonT(60), <1>9, <1>10, <1>11, <1>12, AppendKeepsData

LEMMA TailFetched ==
  ASSUME DataInv, MotrInv', NEW p \in Procs, GetTail(p)
  PROVE  DataInv'
<1>0. /\ MotrInv /\ PlaceInv /\ TypeInv /\ act[p].pc = "gettail"
      /\ act[p].pc \in WorkSteps /\ act[p].pc \in ObjectSteps
  BY Zenon DEF DataInv, MotrInv, GetTail, WorkSteps, ObjectSteps
<1>1. PICK e \in Datasets, f \in Frags, o \in Objs : e = D(p) /\ f = act[p].f /\ o = act[p].obj
  BY Zenon, <1>0, WorkFacts
<1>2. /\ p \in running /\ DatasetOf[f] = e /\ act[p].pc \notin FormatSteps /\ Working(p)
      /\ SizeOf[f] \in Nat /\ conMap[p][e] = None
  BY Zenon, <1>0, <1>1, WorkFacts, FragmentFacts DEF PlaceInv, SearchSteps
<1>3. CASE Continue(p, "alloc") /\ UNCHANGED <<frag, conMap>> /\ tainted' = tainted \cup {D(p)}
  BY Zenon, <1>3, NameLookedUp
<1>4. CASE /\ MappingGet("tail", tailIdx[o]) /\ tailIdx[o] + SizeOf[f] <= MaxBlock
           /\ Appended(p, f, o, tailIdx[o]) /\ UNCHANGED tainted
           /\ conMap' = [conMap EXCEPT ![p][e] = NewPair(o, tailIdx[o] + SizeOf[f])]
  <2> DEFINE c == NewPair(o, tailIdx[o] + SizeOf[f])
  <2>1. tailIdx[o] \in Nat
    BY Zenon, <1>0, <1>4 DEF MappingGet, TypeInv
  <2>2. c \in Pairs /\ c.obj = o /\ c.handle = None /\ c.tail = tailIdx[o] + SizeOf[f]
    BY <1>2, <2>1 DEF NewPair, Pairs
  <2>3. UNCHANGED <<nameIdx, tailIdx, blocks, running>>
    BY Zenon DEF GetTail
  <2>4. \A own \in [Objs -> Datasets] : Owners(own) => OwnedBy(own, e, o)
    BY Zenon, <1>1, <1>2, MotrAssumption DEF Owners
  <2>5. ASSUME e \notin tainted'
        PROVE  /\ \A q \in Procs \ {p} : ~Uses(q, e)
               /\ nameIdx'[e] = o /\ frag[f].id = None
               /\ \A g \in Frags : Placed(g, e) => nameIdx[e] = o /\ End(g) <= tailIdx[o]
    <3>1. Clean(e) /\ e \in Datasets \ tainted /\ Uses(p, e)
      BY Zenon, <1>1, <1>2, <1>4, <2>5 DEF DataInv, Uses
    <3>2. \A q \in Procs \ {p} : ~Uses(q, e)
      BY Zenon, <3>1, SoleSession
    <3>3. nameIdx[e] = o /\ frag[f].id = None
      BY Zenon, <1>0, <1>1, <1>2, <3>1 DEF Clean, WorkNamed
    <3>4. \A q \in Procs : ~Cached(q, e)
      BY Zenon, <1>2, <3>2 DEF Uses, Cached
    <3>5. \A g \in Frags : Placed(g, e) => End(g) <= tailIdx[o]
      BY Zenon, <3>1, <3>3, <3>4 DEF Clean, BelowTail
    <3> QED BY Zenon, <2>3, <3>2, <3>3, <3>5
  <2> HIDE DEF c
  <2>6. PICK pos \in Nat : pos = tailIdx[o]
    BY Zenon, <2>1
  <2>7. /\ \A d \in Datasets \ {e} : nameIdx'[d] = nameIdx[d]
        /\ nameIdx'[e] \in {nameIdx[e], o}
        /\ act[p].pc \in WorkSteps => DatasetOf[act[p].f] = e
    BY Zenon, <1>1, <1>2, <2>3
  <2>8. \A own \in [Objs -> Datasets] : Owners(own) =>
    OwnedBy(own, e, o) /\ (c.handle # None => OwnedBy(own, e, c.handle))
    BY Zenon, <2>2, <2>4
  <2>9. e \notin tainted' =>
          /\ \A q \in Procs \ {p} : ~Uses(q, e)
          /\ nameIdx'[e] = o /\ c.handle \in {None, o} /\ frag[f].id = None
          /\ pos + SizeOf[f] <= MaxBlock /\ c.tail = pos + SizeOf[f]
          /\ \A g \in Frags : Placed(g, e) => nameIdx[e] = o /\ End(g) <= pos
    BY Zenon, <1>4, <2>2, <2>5, <2>6
  <2>10. /\ p \in running /\ running' = running /\ o \in Objs /\ pos \in Nat
        /\ Appended(p, f, o, pos) /\ DatasetOf[f] = e
        /\ c \in Pairs /\ c.obj = o /\ conMap' = [conMap EXCEPT ![p][e] = c]
        /\ UNCHANGED <<tailIdx, blocks>> /\ tainted \subseteq tainted'
        /\ act[p].pc \notin FormatSteps
    BY Zenon, <1>2, <1>4, <2>2, <2>3, <2>6 DEF c
  <2> QED BY ZenonT(60), <2>7, <2>8, <2>9, <2>10, AppendKeepsData
<1> QED BY Zenon, <1>1, <1>3, <1>4 DEF GetTail

LEMMA NamePut ==
  ASSUME DataInv, MotrInv', NEW p \in Procs, PutName(p)
  PROVE  DataInv'
<1>0. /\ MotrInv /\ PlaceInv /\ TypeInv /\ act[p].pc = "putname"
      /\ act[p].pc \in WorkSteps /\ act[p].pc \in ObjectSteps
  BY Zenon DEF DataInv, MotrInv, PutName, WorkSteps, ObjectSteps
<1>1. PICK e \in Datasets, f \in Frags, o \in Objs : e = D(p) /\ f = act[p].f /\ o = act[p].obj
  BY Zenon, <1>0, WorkFacts
<1>2. /\ p \in running /\ DatasetOf[f] = e /\ act[p].pc \notin FormatSteps /\ Working(p)
      /\ SizeOf[f] \in Nat /\ SizeOf[f] <= MaxBlock /\ conMap[p][e] = None
  BY Zenon, <1>0, <1>1, WorkFacts, FragmentFacts DEF PlaceInv, SearchSteps
<1>3. CASE Finish(p) /\ UNCHANGED <<nameIdx, conMap, frag>>
  BY Zenon, <1>0, <1>3, EndOfWork DEF PutName
<1>4. CASE /\ nameIdx' = [nameIdx EXCEPT ![e] = o] /\ Appended(p, f, o, 0)
           /\ conMap' = [conMap EXCEPT ![p][e] = NewPair(o, SizeOf[f])]
  <2> DEFINE c == NewPair(o, SizeOf[f])
  <2>1. c \in Pairs /\ c.obj = o /\ c.handle = None /\ c.tail = 0 + SizeOf[f]
    BY <1>2 DEF NewPair, Pairs
  <2>2. UNCHANGED <<tailIdx, blocks, running, tainted>>
    BY Zenon DEF PutName
  <2>3. nameIdx'[e] = o /\ \A d \in Datasets \ {e} : nameIdx'[d] = nameIdx[d]
    BY Zenon, <1>0, <1>4 DEF TypeInv
  <2>4. \A own \in [Objs -> Datasets] : Owners(own) => OwnedBy(own, e, o)
    BY Zenon, <1>1, <1>2, MotrAssumption DEF Owners
  <2>5. ASSUME e \notin tainted'
        PROVE  /\ \A q \in Procs \ {p} : ~Uses(q, e)
               /\ frag[f].id = None
               /\ \A g \in Frags : ~Placed(g, e)
    <3>1. Clean(e) /\ e \in Datasets \ tainted /\ Uses(p, e)
      BY Zenon, <1>1, <1>2, <2>2, <2>5 DEF DataInv, Uses
    <3>2. \A q \in Procs \ {p} : ~Uses(q, e)
      BY Zenon, <3>1, SoleSession
    <3>3. nameIdx[e] = None /\ frag[f].id = None
      BY Zenon, <1>0, <1>1, <1>2, <3>1 DEF Clean, WorkNamed
    <3>4. \A g \in Frags : Placed(g, e) => frag[g].id.obj = None
      BY Zenon, <3>1, <3>3 DEF Clean, FragsApart
    <3>5. \A g \in Frags : Placed(g, e) => frag[g].id.obj \in Objs
      BY Zenon, <1>0 DEF TypeInv, Placed, Positions
    <3> QED BY Zenon, <3>2, <3>3, <3>4, <3>5, MotrAssumption
  <2> HIDE DEF c
  <2>6. /\ nameIdx'[e] \in {nameIdx[e], o} /\ 0 + SizeOf[f] <= MaxBlock
        /\ act[p].pc \in WorkSteps => DatasetOf[act[p].f] = e
        /\ \A d \in Datasets \ {e} : nameIdx'[d] = nameIdx[d]
    BY <1>1, <1>2, <2>3
  <2>7. \A own \in [Objs -> Datasets] : Owners(own) =>
    OwnedBy(own, e, o) /\ (c.handle # None => OwnedBy(own, e, c.handle))
    BY Zenon, <2>1, <2>4
  <2>8. e \notin tainted' =>
          /\ \A q \in Procs \ {p} : ~Uses(q, e)
          /\ nameIdx'[e] = o /\ c.handle \in {None, o} /\ frag[f].id = None
          /\ 0 + SizeOf[f] <= MaxBlock /\ c.tail = 0 + SizeOf[f]
          /\ \A g \in Frags : Placed(g, e) => nameIdx[e] = o /\ End(g) <= 0
    BY Zenon, <2>1, <2>3, <2>5, <2>6
  <2>9. /\ p \in running /\ running' = running /\ o \in Objs /\ 0 \in Nat
        /\ Appended(p, f, o, 0) /\ DatasetOf[f] = e
        /\ c \in Pairs /\ c.obj = o /\ conMap' = [conMap EXCEPT ![p][e] = c]
        /\ UNCHANGED <<tailIdx, blocks>> /\ tainted \subseteq tainted'
        /\ act[p].pc \notin FormatSteps
    BY Zenon, <1>2, <1>4, <2>1, <2>2 DEF c
  <2> QED BY ZenonT(60), <2>6, <2>7, <2>8, <2>9, AppendKeepsData
<1> QED BY Zenon, <1>1, <1>3, <1>4 DEF PutName


-----------------------------------------------------------------------------
MakeSteps == {"alloc", "puttail"}
MadeSteps == {"puttail", "putname"}

Grown(own, own1, e, o) ==
  /\ own \in [Objs -> Datasets] /\ own1 \in [Objs -> Datasets] /\ Owners(own)
  /\ \A x \in Objs : blocks[x] # None => own1[x] = own[x] /\ blocks'[x] = blocks[x]
  /\ blocks' \in [Objs -> [0 .. MaxBlock - 1 -> BlockValues] \cup {None}]
  /\ blocks'[o] # None /\ own1[o] = e
  /\ \A x \in Objs : blocks[x] # None /\ own[x] # e => tailIdx'[x] = tailIdx[x]

\* An object is made, or gets its tail, for a dataset that has none.
LEMMA ObjectKeepsData ==
  ASSUME DataInv, MotrInv', NEW p \in Procs, act[p].pc \in MakeSteps,
         NEW e \in Datasets, DatasetOf[act[p].f] = e, NEW o \in Objs,
         NEW a \in Acts, act' = [act EXCEPT ![p] = a],
         a.pc \in MadeSteps, a.f = act[p].f, a.obj = o,
         UNCHANGED <<nameIdx, running, conMap, frag, tainted>>,
         NEW own, NEW own1, Grown(own, own1, e, o)
  PROVE  DataInv'
<1> USE DEF Grown
<1>0. MotrInv /\ PlaceInv /\ TypeInv /\ act[p].pc \in WorkSteps /\ act[p].pc \in SearchSteps
  BY Zenon DEF DataInv, MotrInv, WorkSteps, ObjectSteps, SearchSteps, MakeSteps
<1>1. /\ p \in running /\ running' = running /\ act[p].pc \notin FormatSteps /\ Working(p)
      /\ act[p].f \in Frags /\ D(p) = e
      /\ conMap[p] \in [Datasets -> Pairs \cup {None}]
  BY Zenon, <1>0, WorkFacts
<1>2. conMap[p][e] = None
  BY <1>0, <1>1 DEF PlaceInv
<1>3. PICK c \in Pairs \cup {None} : c = None /\ conMap' = [conMap EXCEPT ![p][e] = c]
  <2>1. conMap[p] = [conMap[p] EXCEPT ![e] = conMap[p][e]] /\ conMap = [conMap EXCEPT ![p] = conMap[p]]
    BY Zenon, <1>0, <1>1 DEF TypeInv
  <2> QED BY <1>2, <2>1
<1>4. a.pc \notin FormatSteps /\ a.pc # "write" /\ DatasetOf[a.f] = e
  BY Zenon DEF FormatSteps, MadeSteps
<1>5. /\ nameIdx'[e] # None => Holds(own1, e, nameIdx'[e])
      /\ Holds(own1, e, a.obj)
  <2>1. \A x \in Objs : OwnedBy(own, e, x) => Holds(own1, e, x)
    BY Zenon DEF OwnedBy, Holds
  <2>2. nameIdx[e] \in Objs \cup {None} /\ Holds(own1, e, o)
    BY Zenon, <1>0 DEF TypeInv, Holds
  <2> QED BY Zenon, <2>1, <2>2 DEF Owners
<1>6. ASSUME e \notin tainted' PROVE Clean(e)'
  <2>1. Clean(e) /\ Uses(p, e) /\ e \in Datasets \ tainted
    BY Zenon, <1>1, <1>6 DEF DataInv, Uses
  <2>2. \A q \in Procs \ {p} : ~Uses(q, e) /\ act'[q] = act[q] /\ conMap'[q] = conMap[q]
    BY Zenon, <1>0, <2>1, SoleSession DEF TypeInv
  <2>3. act'[p] = a
    BY Zenon, <1>0 DEF TypeInv
  <2>4. nameIdx[e] = None /\ frag[act[p].f].id = None
    BY Zenon, <1>1, <2>1 DEF Clean, WorkNamed, MakeSteps
  <2>5. WorkNamed(p, e)'
    BY Zenon, <2>3, <2>4 DEF WorkNamed, MadeSteps
  <2>6. PairNamed(p, e)'
    BY Zenon, <1>2 DEF PairNamed, Cached
  <2>7. \A g \in Frags : Placed(g, e) => frag[g].id.obj = None /\ frag[g].id.obj \in Objs
    <3>1. \A g \in Frags : Placed(g, e) => frag[g].id.obj = None
      BY Zenon, <2>1, <2>4 DEF Clean, FragsApart
    <3>2. \A g \in Frags : Placed(g, e) => frag[g].id \in Positions
      BY Zenon, <1>0 DEF Placed, TypeInv
    <3> QED BY Zenon, <3>1, <3>2 DEF Positions
  <2>8. \A g \in Frags : ~Placed(g, e)'
    BY Zenon, <2>7, MotrAssumption DEF Placed
  <2>9. \A g \in Frags : DatasetOf[g] = e => frag'[g].stored = 0
    BY Zenon, <2>1, <2>7, MotrAssumption DEF Clean, FragsApart
  <2>10. FragsApart(e)'
    BY Zenon, <2>8, <2>9 DEF FragsApart
  <2> QED BY Zenon, <2>2, <2>5, <2>6, <2>8, <2>10, UsedDataset
<1>7. /\ \A x \in Objs : blocks[x] # None => own1[x] = own[x] /\ blocks'[x] # None
      /\ \A x \in Objs : blocks[x] # None /\ own[x] # e => tailIdx'[x] = tailIdx[x] /\ blocks'[x] = blocks[x]
      /\ \A d \in Datasets \ {e} : nameIdx'[d] = nameIdx[d]
      /\ \A f \in Frags : \/ frag'[f] = frag[f]
                          \/ /\ DatasetOf[f] = e
                             /\ frag'[f].id # None => Holds(own1, e, frag'[f].id.obj)
      /\ tainted \subseteq tainted'
  BY Zenon
<1>8. /\ c # None => Holds(own1, e, c.obj) /\ (c.handle # None => Holds(own1, e, c.handle))
      /\ a.pc \in WorkSteps /\ a.obj # None => Holds(own1, e, a.obj)
      /\ a.pc \in SearchSteps => c = None
      /\ a.pc = "write" => c.handle # None
      /\ conMap' = [conMap EXCEPT ![p][e] = c]
  BY Zenon, <1>3, <1>4, <1>5
<1>9. /\ DataInv /\ MotrInv' /\ p \in Procs /\ e \in Datasets /\ a \in Acts /\ c \in Pairs \cup {None}
      /\ own \in [Objs -> Datasets] /\ own1 \in [Objs -> Datasets] /\ Owners(own)
      /\ act' = [act EXCEPT ![p] = a] /\ p \in running /\ running' = running
      /\ act[p].pc \notin FormatSteps /\ a.pc \notin FormatSteps
      /\ act[p].pc \in WorkSteps => DatasetOf[act[p].f] = e
      /\ a.pc \in WorkSteps => DatasetOf[a.f] = e
      /\ blocks' \in [Objs -> [0 .. MaxBlock - 1 -> BlockValues] \cup {None}]
      /\ nameIdx'[e] # None => Holds(own1, e, nameIdx'[e])
  BY Zenon, <1>1, <1>4, <1>5
<1> QED BY ONLY Zenon, <1>6, <1>7, <1>8, <1>9, WorkingStep

LEMMA ObjectMade ==
  ASSUME DataInv, MotrInv', NEW p \in Procs, Alloc(p) \/ PutTail(p)
  PROVE  DataInv'
<1>0. /\ MotrInv /\ PlaceInv /\ TypeInv /\ act[p].pc \in MakeSteps /\ act[p].pc \in WorkSteps
      /\ UNCHANGED <<nameIdx, running, conMap, frag, tainted>>
  BY Zenon DEF DataInv, MotrInv, WorkSteps, ObjectSteps, Alloc, PutTail, MakeSteps
<1>1. PICK e \in Datasets : DatasetOf[act[p].f] = e
  BY Zenon, <1>0, WorkFacts
<1>2. PICK own \in [Objs -> Datasets] : Owners(own)
  BY Zenon DEF DataInv, OwnersInv
<1>3. CASE Finish(p) /\ UNCHANGED <<blocks, tailIdx>>
  BY Zenon, <1>0, <1>3, EndOfWork
<1>4. ASSUME NEW o \in Objs, blocks[o] = None, CreateObject(o), UNCHANGED tailIdx,
             act' = [act EXCEPT ![p].pc = "puttail", ![p].obj = o]
      PROVE  DataInv'
  <2> DEFINE a == [act[p] EXCEPT !.pc = "puttail", !.obj = o]
             own1 == [own EXCEPT ![o] = e]
  <2>1. act[p] \in SearchActs \cup ObjectActs
    BY Zenon, <1>0, ActShape DEF ObjectSteps, MakeSteps
  <2>2. a \in Acts /\ a.pc = "puttail" /\ a.f = act[p].f /\ a.obj = o
    BY Zenon, <2>1 DEF Acts, SearchActs, ObjectActs, ObjectSteps
  <2>3. act' = [act EXCEPT ![p] = a]
    BY Zenon, <1>4
  <2>4. own1 \in [Objs -> Datasets] /\ own1[o] = e
    BY Zenon
  <2>5. Blank \in [0 .. MaxBlock - 1 -> BlockValues] /\ Blank # None
    BY Zenon, MotrAssumption DEF Blank, BlockValues
  <2>6. /\ blocks' \in [Objs -> [0 .. MaxBlock - 1 -> BlockValues] \cup {None}]
        /\ blocks'[o] # None
        /\ \A x \in Objs : blocks[x] # None => own1[x] = own[x] /\ blocks'[x] = blocks[x]
    BY Zenon, <1>0, <1>4, <2>5 DEF CreateObject, PlaceInv
  <2>7. \A x \in Objs : blocks[x] # None /\ own[x] # e => tailIdx'[x] = tailIdx[x]
    BY Zenon, <1>4
  <2> HIDE DEF a, own1
  <2>8. /\ DataInv /\ MotrInv' /\ p \in Procs /\ o \in Objs /\ e \in Datasets /\ DatasetOf[act[p].f] = e
        /\ a.pc \in MadeSteps /\ act[p].pc \in MakeSteps
        /\ UNCHANGED <<nameIdx, running, conMap, frag, tainted>>
    BY Zenon, <1>0, <1>1, <1>2, <2>2 DEF MadeSteps
  <2>9. Grown(own, own1, e, o)
    BY Zenon, <1>2, <2>4, <2>6, <2>7 DEF Grown
  <2> QED BY ONLY Zenon, <2>2, <2>3, <2>8, <2>9, ObjectKeepsData
<1>5. CASE /\ act[p].pc = "puttail" /\ UNCHANGED blocks /\ Continue(p, "putname")
           /\ tailIdx' = [tailIdx EXCEPT ![act[p].obj] = 0]
  <2> DEFINE a == [act[p] EXCEPT !.pc = "putname"]
  <2>1. PICK o \in Objs : o = act[p].obj
    BY Zenon, <1>0, <1>5, WorkFacts DEF ObjectSteps
  <2>2. act[p] \in ObjectActs
    BY Zenon, <1>0, <1>5, ActShape DEF ObjectSteps
  <2>3. a \in Acts /\ a.pc = "putname" /\ a.f = act[p].f /\ a.obj = o
    BY Zenon, <2>1, <2>2 DEF Acts, ObjectActs, ObjectSteps
  <2>4. act' = [act EXCEPT ![p] = a]
    BY Zenon, <1>5 DEF Continue
  <2>5. OwnedBy(own, e, o)
    BY <1>0, <1>1, <1>2, <2>1, WorkFacts, MotrAssumption DEF Owners
  <2>6. /\ blocks' \in [Objs -> [0 .. MaxBlock - 1 -> BlockValues] \cup {None}]
        /\ blocks'[o] # None /\ own[o] = e
        /\ \A x \in Objs : blocks[x] # None => own[x] = own[x] /\ blocks'[x] = blocks[x]
    BY Zenon, <1>0, <1>5, <2>5 DEF PlaceInv, OwnedBy
  <2>7. \A x \in Objs : blocks[x] # None /\ own[x] # e => tailIdx'[x] = tailIdx[x]
    BY Zenon, <1>0, <1>5, <2>1, <2>6 DEF TypeInv
  <2> HIDE DEF a
  <2>8. /\ DataInv /\ MotrInv' /\ p \in Procs /\ o \in Objs /\ e \in Datasets /\ DatasetOf[act[p].f] = e
        /\ a.pc \in MadeSteps /\ act[p].pc \in MakeSteps
        /\ UNCHANGED <<nameIdx, running, conMap, frag, tainted>>
    BY Zenon, <1>0, <1>1, <1>2, <2>1, <2>3 DEF MadeSteps
  <2>9. Grown(own, own, e, o)
    BY Zenon, <1>2, <2>6, <2>7 DEF Grown
  <2> QED BY ONLY Zenon, <2>3, <2>4, <2>8, <2>9, ObjectKeepsData
<1>6. CASE Alloc(p)
  BY Zenon, <1>3, <1>4, <1>6 DEF Alloc, NextId
<1>7. CASE PutTail(p)
  BY Zenon, <1>3, <1>5, <1>7 DEF PutTail
<1> QED BY Zenon, <1>6, <1>7


-----------------------------------------------------------------------------
\* A pair is new, or its handle is.
NewPairOf(p, e, c) ==
  /\ c \in Pairs /\ conMap' = [conMap EXCEPT ![p][e] = c]
  /\ \A own \in [Objs -> Datasets] : Owners(own) =>
       OwnedBy(own, e, c.obj) /\ (c.handle # None => OwnedBy(own, e, c.handle))
  /\ e \notin tainted => /\ c.obj = nameIdx[e] /\ c.handle \in {None, nameIdx[e]}
                         /\ c.tail = IF Cached(p, e) THEN conMap[p][e].tail ELSE tailIdx[nameIdx[e]]

LEMMA PairKeepsData ==
  ASSUME DataInv, MotrInv', NEW p \in Procs, act[p].pc \in WorkSteps,
         NEW e \in Datasets, DatasetOf[act[p].f] = e,
         NEW a \in Acts, act' = [act EXCEPT ![p] = a], a.pc \in CachedSteps \cup {"idle"},
         a.pc \in WorkSteps => a.f = act[p].f /\ a.obj = act[p].obj,
         UNCHANGED <<nameIdx, tailIdx, blocks, running, frag, tainted>>,
         NEW c, NewPairOf(p, e, c), a.pc = "write" => c.handle # None,
         e \notin tainted => WorkNamed(p, e)'
  PROVE  DataInv'
<1>0. MotrInv /\ PlaceInv /\ TypeInv
  BY Zenon DEF DataInv, MotrInv
<1>1. /\ p \in running /\ running' = running /\ act[p].pc \notin FormatSteps /\ Working(p)
      /\ D(p) = e /\ a.pc \notin FormatSteps /\ a.pc \notin SearchSteps
  BY Zenon, <1>0, WorkFacts DEF FormatSteps, SearchSteps, CachedSteps
<1>2. PICK own \in [Objs -> Datasets] : Owners(own)
  BY Zenon DEF DataInv, OwnersInv
<1>3. ASSUME e \notin tainted' PROVE Clean(e)'
  <2>1. Clean(e) /\ Uses(p, e) /\ e \in Datasets \ tainted
    BY Zenon, <1>1, <1>3 DEF DataInv, Uses
  <2>2. \A q \in Procs \ {p} : ~Uses(q, e) /\ act'[q] = act[q] /\ conMap'[q] = conMap[q]
    BY Zenon, <1>0, <2>1, SoleSession DEF TypeInv, NewPairOf
  <2>3. /\ conMap'[p][e] = c /\ c.obj = nameIdx[e] /\ c.handle \in {None, nameIdx[e]}
        /\ c.tail = IF Cached(p, e) THEN conMap[p][e].tail ELSE tailIdx[nameIdx[e]]
        /\ c # None
    BY Zenon, <1>0, <2>1, MotrAssumption DEF TypeInv, NewPairOf
  <2>4. PairNamed(p, e)'
    BY Zenon, <2>3 DEF PairNamed
  <2>5. FragsApart(e)' /\ \A f \in Frags : Placed(f, e)' => Placed(f, e) /\ End(f)' = End(f)
    BY Zenon, <2>1 DEF Clean, FragsApart, Placed, End
  <2>6. ASSUME NEW f \in Frags, Placed(f, e)
        PROVE  End(f) <= IF Cached(p, e) THEN conMap[p][e].tail ELSE tailIdx[nameIdx[e]]
    BY Zenon, <2>1, <2>2, <2>6 DEF Clean, BelowTail, Uses
  <2>7. Cached(p, e)'
    BY Zenon, <2>3 DEF Cached
  <2>8. \A f \in Frags : Placed(f, e)' =>
           End(f)' <= IF Cached(p, e)' THEN conMap'[p][e].tail ELSE tailIdx'[nameIdx'[e]]
    BY Zenon, <2>3, <2>5, <2>6, <2>7
  <2> QED BY Zenon, <1>3, <2>2, <2>4, <2>5, <2>8, UsedDataset
<1>4. /\ blocks' \in [Objs -> [0 .. MaxBlock - 1 -> BlockValues] \cup {None}]
      /\ \A x \in Objs : blocks[x] # None => own[x] = own[x] /\ blocks'[x] # None
      /\ \A x \in Objs : blocks[x] # None /\ own[x] # e => tailIdx'[x] = tailIdx[x] /\ blocks'[x] = blocks[x]
      /\ \A d \in Datasets \ {e} : nameIdx'[d] = nameIdx[d]
      /\ \A f \in Frags : \/ frag'[f] = frag[f]
                          \/ /\ DatasetOf[f] = e
                             /\ frag'[f].id # None => Holds(own, e, frag'[f].id.obj)
      /\ tainted \subseteq tainted'
  BY Zenon, <1>0 DEF PlaceInv
<1>5. /\ nameIdx'[e] # None => Holds(own, e, nameIdx'[e])
      /\ c # None => Holds(own, e, c.obj) /\ (c.handle # None => Holds(own, e, c.handle))
      /\ a.pc \in WorkSteps /\ a.obj # None => Holds(own, e, a.obj)
  <2>1. \A x : OwnedBy(own, e, x) => Holds(own, e, x)
    BY Zenon DEF OwnedBy, Holds
  <2> QED BY Zenon, <1>1, <1>2, <2>1 DEF Owners, NewPairOf
<1>6. /\ DataInv /\ MotrInv' /\ act' = [act EXCEPT ![p] = a] /\ c \in Pairs \cup {None}
      /\ act[p].pc \in WorkSteps => DatasetOf[act[p].f] = e
      /\ a.pc \in WorkSteps => DatasetOf[a.f] = e
      /\ conMap' = [conMap EXCEPT ![p][e] = c]
      /\ a.pc \in SearchSteps => c = None
      /\ a.pc = "write" => c.handle # None
  BY Zenon, <1>1 DEF NewPairOf
<1> QED BY ONLY Zenon, <1>1, <1>2, <1>3, <1>4, <1>5, <1>6, WorkingStep

LEMMA HandleOpened ==
  ASSUME DataInv, MotrInv', NEW p \in Procs, OpenForWrite(p) \/ ReadBlocks(p)
  PROVE  DataInv'
<1>0. /\ MotrInv /\ PlaceInv /\ TypeInv /\ act[p].pc \in {"open", "read"}
      /\ act[p].pc \in WorkSteps /\ act[p].pc \in ObjectSteps
      /\ UNCHANGED <<nameIdx, tailIdx, blocks, running, frag, tainted>>
  BY Zenon DEF DataInv, MotrInv, WorkSteps, ObjectSteps, OpenForWrite, ReadBlocks
<1>1. PICK e \in Datasets : DatasetOf[act[p].f] = e
  BY Zenon, <1>0, WorkFacts
<1>2. Working(p) /\ D(p) = e /\ act[p].obj \in Objs /\ act[p].obj # None
  BY Zenon, <1>0, <1>1, WorkFacts, MotrAssumption
<1> DEFINE old == conMap[p][e]
           h == IF old.handle # None THEN old.handle
                ELSE IF act[p].pc = "read" THEN act[p].obj ELSE old.obj
           c == [old EXCEPT !.handle = h]
<1>3. old \in Pairs /\ Cached(p, e)
  <2>1. conMap[p] \in [Datasets -> Pairs \cup {None}] /\ old # None
    BY Zenon, <1>0, <1>2 DEF MotrInv, TypeInv, CacheInv, CachedSteps
  <2> QED BY Zenon, <2>1 DEF Cached
<1>4. old.obj \in Objs /\ old.handle \in Objs \cup {None} /\ h \in Objs /\ h # None
  BY Zenon, <1>2, <1>3, MotrAssumption DEF Pairs
<1>5. c \in Pairs /\ c.obj = old.obj /\ c.tail = old.tail /\ c.handle = h
  <2> HIDE DEF h
  <2> QED BY Zenon, <1>3, <1>4 DEF Pairs
<1>6. conMap' = [conMap EXCEPT ![p][e] = c]
  <2>1. CASE ReadBlocks(p)
    BY Zenon, <1>2, <2>1 DEF ReadBlocks, ReadHandle, Pair
  <2>2. CASE OpenForWrite(p) /\ old.handle = None
    BY Zenon, <1>2, <2>2 DEF OpenForWrite, Pair
  <2>3. CASE OpenForWrite(p) /\ old.handle # None
    <3>1. conMap' = conMap
      BY Zenon, <1>2, <2>3 DEF OpenForWrite, Pair
    <3>2. c = old
      <4>1. old = [old EXCEPT !.handle = old.handle]
        BY Zenon, <1>3 DEF Pairs
      <4>2. h = old.handle
        BY Zenon, <2>3
      <4> HIDE DEF h
      <4> QED BY Zenon, <4>1, <4>2
    <3>3. conMap = [conMap EXCEPT ![p][e] = conMap[p][e]]
      BY Zenon, <1>0 DEF TypeInv
    <3> HIDE DEF c
    <3> QED BY Zenon, <3>1, <3>2, <3>3
  <2> QED BY Zenon, <2>1, <2>2, <2>3
<1>7. \A own \in [Objs -> Datasets] : Owners(own) => OwnedBy(own, e, old.obj) /\ OwnedBy(own, e, h)
  BY Zenon, <1>2, <1>3 DEF Owners, Cached
<1>8. ASSUME e \notin tainted PROVE old.obj = nameIdx[e] /\ h = nameIdx[e]
  <2>1. Clean(e)
    BY Zenon, <1>8 DEF DataInv
  <2>2. act[p].obj = nameIdx[e]
    BY Zenon, <1>0, <1>2, <2>1 DEF Clean, WorkNamed
  <2> QED BY Zenon, <1>3, <2>1, <2>2 DEF Clean, PairNamed
<1> HIDE DEF c, h
<1>9. NewPairOf(p, e, c)
  BY Zenon, <1>3, <1>5, <1>6, <1>7, <1>8 DEF NewPairOf
<1>10. PICK a : /\ a \in Acts /\ act' = [act EXCEPT ![p] = a]
                /\ \/ a = Idle /\ a.pc = "idle"
                   \/ /\ act[p].pc = "open" /\ a.pc = "write" /\ a.f = act[p].f
                      /\ a.obj = act[p].obj /\ a.pos = act[p].pos
  <2>1. CASE ReadBlocks(p)
    <3>1. act' = [act EXCEPT ![p] = Idle] /\ Idle \in Acts /\ Idle.pc = "idle"
      BY Zenon, <1>0, <2>1, Acting DEF ReadBlocks, Finish
    <3> QED BY Zenon, <3>1
  <2>2. CASE OpenForWrite(p)
    <3> DEFINE a == [act[p] EXCEPT !.pc = "write"]
    <3>1. act[p] \in ObjectActs
      BY Zenon, <1>0, ActShape
    <3>2. /\ a \in Acts /\ a.pc = "write" /\ a.f = act[p].f
          /\ a.obj = act[p].obj /\ a.pos = act[p].pos
      BY Zenon, <3>1 DEF Acts, ObjectActs, ObjectSteps
    <3>3. act' = [act EXCEPT ![p] = a] /\ act[p].pc = "open"
      BY Zenon, <2>2 DEF OpenForWrite, Continue
    <3> HIDE DEF a
    <3> QED BY Zenon, <3>2, <3>3
  <2> QED BY Zenon, <2>1, <2>2
<1>11. ASSUME e \notin tainted PROVE WorkNamed(p, e)'
  <2>1. Clean(e) /\ act'[p] = a /\ conMap'[p][e] = c
    BY Zenon, <1>0, <1>6, <1>10, <1>11 DEF DataInv, TypeInv
  <2>2. CASE a = Idle
    <3>1. Idle.pc = "idle"
      BY Zenon DEF Idle
    <3> QED BY Zenon, <2>1, <2>2, <3>1 DEF WorkNamed, Working
  <2>3. CASE a # Idle
    <3>1. WorkNamed(p, e) /\ act[p].pc = "open" /\ Working(p) /\ D(p) = e
      BY Zenon, <1>2, <1>10, <2>1, <2>3 DEF Clean
    <3> QED BY <1>0, <1>5, <1>8, <1>10, <1>11, <2>1, <2>3, <3>1 DEF WorkNamed
  <2> QED BY Zenon, <2>2, <2>3
<1>12. /\ a.pc \in CachedSteps \cup {"idle"} /\ (a.pc = "write" => c.handle # None)
       /\ a.pc \in WorkSteps => a.f = act[p].f /\ a.obj = act[p].obj
  BY Zenon, <1>4, <1>5, <1>10 DEF CachedSteps, WorkSteps, ObjectSteps
<1> QED BY Zenon, <1>0, <1>1, <1>9, <1>10, <1>11, <1>12, PairKeepsData


LEMMA TailReadAgain ==
  ASSUME DataInv, MotrInv', NEW p \in Procs, ReadTail(p) \/ RegetTail(p)
  PROVE  DataInv'
<1>0. /\ MotrInv /\ PlaceInv /\ TypeInv /\ act[p].pc \in {"readtail", "regettail"}
      /\ act[p].pc \in WorkSteps /\ act[p].pc \in ObjectSteps /\ act[p].pc \in SearchSteps
      /\ UNCHANGED <<nameIdx, tailIdx, blocks, running, frag, tainted>>
  BY Zenon DEF DataInv, MotrInv, WorkSteps, ObjectSteps, SearchSteps, ReadTail, RegetTail
<1>1. PICK e \in Datasets, o \in Objs : DatasetOf[act[p].f] = e /\ act[p].obj = o
  BY Zenon, <1>0, WorkFacts
<1>2. Working(p) /\ D(p) = e /\ o # None /\ ~Cached(p, e)
  BY <1>0, <1>1, WorkFacts, MotrAssumption DEF PlaceInv, Cached
<1>3. CASE Finish(p) /\ UNCHANGED conMap
  BY Zenon, <1>0, <1>3, EndOfWork
<1>4. ASSUME NEW n \in Nat, conMap' = [conMap EXCEPT ![p][e] = NewPair(o, n)],
             NEW a \in Acts, act' = [act EXCEPT ![p] = a], a.pc \in {"read", "open"},
             a.f = act[p].f, a.obj = o,
             act[p].pc = "readtail" => a.pc = "read" /\ n = tailIdx[o]
      PROVE  DataInv'
  <2> DEFINE c == NewPair(o, n)
  <2>1. c \in Pairs /\ c.obj = o /\ c.tail = n /\ c.handle = None
    BY Zenon DEF NewPair, Pairs
  <2>2. \A own \in [Objs -> Datasets] : Owners(own) => OwnedBy(own, e, o)
    BY Zenon, <1>1, <1>2 DEF Owners
  <2>3. ASSUME e \notin tainted PROVE act[p].pc = "readtail" /\ o = nameIdx[e]
    BY Zenon, <1>0, <1>1, <1>2, <2>3 DEF DataInv, Clean, WorkNamed
  <2> HIDE DEF c
  <2>4. NewPairOf(p, e, c)
    BY Zenon, <1>2, <1>4, <2>1, <2>2, <2>3 DEF NewPairOf, c
  <2>5. ASSUME e \notin tainted PROVE WorkNamed(p, e)'
    BY Zenon, <1>0, <1>4, <2>3, <2>5 DEF WorkNamed, TypeInv
  <2>6. /\ a.pc \in CachedSteps \cup {"idle"} /\ (a.pc = "write" => c.handle # None)
        /\ a.pc \in WorkSteps => a.f = act[p].f /\ a.obj = act[p].obj
    BY Zenon, <1>1, <1>4 DEF CachedSteps
  <2> QED BY Zenon, <1>0, <1>1, <1>4, <2>4, <2>5, <2>6, PairKeepsData
<1>5. CASE /\ ReadTail(p) /\ MappingGet("tail", tailIdx[o]) /\ Continue(p, "read")
           /\ conMap' = [conMap EXCEPT ![p][e] = NewPair(o, tailIdx[o])]
  <2> DEFINE a == [act[p] EXCEPT !.pc = "read"]
  <2>1. act[p] \in ObjectActs
    BY Zenon, <1>0, ActShape
  <2>2. a \in Acts /\ a.pc = "read" /\ a.f = act[p].f /\ a.obj = o
    BY Zenon, <1>1, <2>1 DEF Acts, ObjectActs, ObjectSteps
  <2>3. act' = [act EXCEPT ![p] = a]
    BY Zenon, <1>5 DEF Continue
  <2>4. PICK n \in Nat : n = tailIdx[o]
    BY Zenon, <1>0, <1>5 DEF MappingGet, TypeInv
  <2> HIDE DEF a
  <2> QED BY Zenon, <1>4, <1>5, <2>2, <2>3, <2>4
<1>6. CASE /\ RegetTail(p) /\ MappingGet("tail", tailIdx[o])
           /\ act' = [act EXCEPT ![p].pc = "open", ![p].pos = tailIdx[o]]
           /\ conMap' = [conMap EXCEPT ![p][e] = NewPair(o, tailIdx[o] + SizeOf[act[p].f])]
  <2> DEFINE a == [act[p] EXCEPT !.pc = "open", !.pos = tailIdx[o]]
  <2>1. act[p] \in ObjectActs /\ tailIdx[o] \in Nat
    BY Zenon, <1>0, <1>6, ActShape DEF MappingGet, TypeInv
  <2>2. a \in Acts /\ a.pc = "open" /\ a.f = act[p].f /\ a.obj = o
    BY Zenon, <1>1, <2>1 DEF Acts, ObjectActs, ObjectSteps
  <2>3. act' = [act EXCEPT ![p] = a]
    BY Zenon, <1>6
  <2>4. PICK n \in Nat : n = tailIdx[o] + SizeOf[act[p].f]
    BY <1>0, <2>1, WorkFacts, FragmentFacts
  <2>5. act[p].pc # "readtail"
    BY Zenon, <1>6 DEF RegetTail
  <2> HIDE DEF a
  <2> QED BY Zenon, <1>4, <1>6, <2>2, <2>3, <2>4, <2>5
<1>7. CASE ReadTail(p)
  BY Zenon, <1>1, <1>2, <1>3, <1>5, <1>7 DEF ReadTail
<1>8. CASE RegetTail(p)
  BY Zenon, <1>1, <1>2, <1>3, <1>6, <1>8 DEF RegetTail
<1> QED BY Zenon, <1>7, <1>8

-----------------------------------------------------------------------------
LEMMA WrittenKeepsData ==
  ASSUME DataInv, MotrInv', NEW p \in Procs, WriteBlocks(p)
  PROVE  DataInv'
<1>0. /\ MotrInv /\ PlaceInv /\ TypeInv /\ act[p].pc = "write"
      /\ act[p].pc \in WorkSteps /\ act[p].pc \in ObjectSteps
      /\ UNCHANGED <<nameIdx, tailIdx, running, conMap, tainted>>
  BY Zenon DEF DataInv, MotrInv, WorkSteps, ObjectSteps, WriteBlocks
<1>1. PICK e \in Datasets, f \in Frags, pos \in Nat :
        DatasetOf[f] = e /\ act[p].f = f /\ act[p].pos = pos
  BY Zenon, <1>0, WorkFacts
<1>2. Working(p) /\ D(p) = e /\ p \in running /\ act[p].pc \notin FormatSteps /\ SizeOf[f] \in Nat
  BY Zenon, <1>0, <1>1, WorkFacts, FragmentFacts
<1>3. conMap[p][e] \in Pairs /\ Cached(p, e) /\ conMap[p][e].handle # None
  <2>1. conMap[p] \in [Datasets -> Pairs \cup {None}] /\ conMap[p][e] # None
    BY Zenon, <1>0, <1>2 DEF MotrInv, TypeInv, CacheInv, CachedSteps
  <2> QED BY Zenon, <1>0, <1>2, <2>1 DEF Cached, PlaceInv
<1>4. PICK h \in Objs, c \in Pairs : h = c.handle /\ c = conMap[p][e]
  BY Zenon, <1>3 DEF Pairs
<1>5. PICK own \in [Objs -> Datasets] : Owners(own)
  BY Zenon DEF DataInv, OwnersInv
<1>6. OwnedBy(own, e, c.obj) /\ OwnedBy(own, e, h)
  BY Zenon, <1>3, <1>4, <1>5 DEF Owners, Cached
<1> DEFINE v == frag[f].stored + 1
           at == pos .. pos + SizeOf[f] - 1
           new == [b \in 0 .. MaxBlock - 1 |-> IF b \in at THEN <<f, v>> ELSE blocks[h][b]]
<1>7. blocks[h] \in [0 .. MaxBlock - 1 -> BlockValues]
  BY Zenon, <1>0, <1>6 DEF PlaceInv, OwnedBy
<1>8. v \in Nat /\ v # 0 /\ frag' = [frag EXCEPT ![f].stored = v]
  BY <1>0, <1>1 DEF TypeInv, WriteBlocks
<1>9. blocks' = [blocks EXCEPT ![h] = new]
  <2>1. DOMAIN blocks[h] = 0 .. MaxBlock - 1
    BY Zenon, <1>7
  <2>2. blocks' = [blocks EXCEPT ![h] = [b \in DOMAIN blocks[h] |-> IF b \in at THEN <<f, v>> ELSE blocks[h][b]]]
    BY Zenon, <1>1, <1>2, <1>4 DEF WriteBlocks, Pair
  <2> QED BY Zenon, <2>1, <2>2
<1> HIDE DEF v, at
<1>10. new \in [0 .. MaxBlock - 1 -> BlockValues] /\ new # None
  <2>1. \A b \in 0 .. MaxBlock - 1 : (IF b \in at THEN <<f, v>> ELSE blocks[h][b]) \in BlockValues
    BY Zenon, <1>7, <1>8 DEF BlockValues
  <2>2. new \in [0 .. MaxBlock - 1 -> BlockValues]
    BY Zenon, <2>1
  <2> QED BY Zenon, <2>2, MotrAssumption DEF BlockValues
<1>11. \A b \in 0 .. MaxBlock - 1 : new[b] = IF b \in at THEN <<f, v>> ELSE blocks[h][b]
  BY Zenon
<1> HIDE DEF new
<1>12. /\ blocks' \in [Objs -> [0 .. MaxBlock - 1 -> BlockValues] \cup {None}]
       /\ blocks'[h] = new /\ \A x \in Objs \ {h} : blocks'[x] = blocks[x]
  BY Zenon, <1>0, <1>9, <1>10 DEF PlaceInv
<1>13. /\ frag'[f].id = frag[f].id /\ frag'[f].stored = v
       /\ \A g \in Frags \ {f} : frag'[g] = frag[g]
  BY Zenon, <1>0, <1>8 DEF TypeInv
<1>14. Idle \in Acts /\ Idle.pc = "idle" /\ act' = [act EXCEPT ![p] = Idle]
  BY Zenon, <1>0, Acting DEF WriteBlocks, Finish
<1>15. ASSUME e \notin tainted' PROVE Clean(e)'
  <2>1. Clean(e) /\ Uses(p, e) /\ e \in Datasets \ tainted
    BY Zenon, <1>0, <1>2, <1>15 DEF DataInv, Uses
  <2>2. \A q \in Procs \ {p} : ~Uses(q, e) /\ act'[q] = act[q] /\ conMap'[q] = conMap[q]
    BY Zenon, <1>0, <1>14, <2>1, SoleSession DEF TypeInv
  <2>3. ~Working(p)'
    BY Zenon, <1>0, <1>14 DEF Working, Idle, TypeInv
  <2>4. WorkNamed(p, e)'
    BY Zenon, <2>3 DEF WorkNamed
  <2>5. PairNamed(p, e)'
    BY Zenon, <1>0, <2>1 DEF Clean, PairNamed, Cached
  <2>6. /\ frag[f].id = [pos |-> pos, obj |-> act[p].obj] /\ act[p].obj = nameIdx[e] /\ h = nameIdx[e]
    BY Zenon, <1>0, <1>1, <1>2, <1>4, <2>1 DEF Clean, WorkNamed
  <2>7. frag[f].id # None
    <3>1. frag[f].id \in Positions
      <4>1. act[p].obj \in Objs
        BY Zenon, <1>0, WorkFacts
      <4> QED BY ONLY <1>1, <2>6, <4>1 DEF Positions
    <3> QED BY Zenon, <3>1, MotrAssumption
  <2>8. \A g \in Frags : (Placed(g, e)' <=> Placed(g, e)) /\ End(g)' = End(g) /\ frag'[g].id = frag[g].id
    BY Zenon, <1>13 DEF Placed, End
  <2>9. Placed(f, e) /\ frag[f].id.pos = pos /\ End(f) = pos + SizeOf[f] /\ End(f) <= MaxBlock
    <3>1. frag[f].id.pos = pos
      BY ONLY <2>6
    <3>2. Placed(f, e)
      BY Zenon, <1>1, <2>7 DEF Placed
    <3> QED BY Zenon, <2>1, <3>1, <3>2 DEF End, Clean, FragsApart
  <2>10. ASSUME NEW g \in Frags, Placed(g, e), frag'[g].stored # 0, NEW b \in frag[g].id.pos .. End(g) - 1
         PROVE  blocks'[h][b] = <<g, frag'[g].stored>>
    <3>0. frag[g].id \in Positions
      BY Zenon, <1>0, <2>10 DEF TypeInv, Placed
    <3>1. /\ frag[g].id.pos \in Nat /\ End(g) \in Nat /\ End(g) <= MaxBlock
      <4>1. frag[g].id.pos \in Nat /\ SizeOf[g] \in Nat /\ End(g) <= MaxBlock
        BY Zenon, <2>1, <2>10, <3>0, FragmentFacts DEF Positions, Clean, FragsApart
      <4> QED BY ONLY <4>1 DEF End
    <3>2. b \in 0 .. MaxBlock - 1
      BY ONLY <2>10, <3>1, MotrAssumption
    <3>3. CASE g = f
      <4>1. b \in at
        BY <1>2, <2>9, <2>10, <3>1, <3>3 DEF at
      <4> QED BY Zenon, <1>11, <1>12, <1>13, <3>2, <3>3, <4>1
    <3>4. CASE g # f
      <4>1. End(g) <= pos \/ End(f) <= frag[g].id.pos
        BY Zenon, <2>1, <2>9, <2>10, <3>4 DEF Clean, FragsApart
      <4>2. b \notin at
        BY <1>2, <2>9, <3>1, <4>1 DEF at
      <4>3. frag'[g] = frag[g]
        BY Zenon, <1>13, <3>4
      <4>4. blocks[h][b] = <<g, frag[g].stored>>
        BY Zenon, <2>1, <2>6, <2>10, <4>3 DEF Clean, FragsApart
      <4> QED BY Zenon, <1>11, <1>12, <3>2, <4>2, <4>3, <4>4
    <3> QED BY Zenon, <3>3, <3>4
  <2>11. FragsApart(e)'
    <3>1. /\ \A g \in Frags : Placed(g, e)' => frag'[g].id.obj = nameIdx'[e] /\ End(g)' <= MaxBlock
          /\ \A g, g2 \in Frags : Placed(g, e)' /\ Placed(g2, e)' /\ g # g2 =>
               End(g)' <= frag'[g2].id.pos \/ End(g2)' <= frag'[g].id.pos
      BY Zenon, <1>0, <2>1, <2>8 DEF Clean, FragsApart
    <3>2. \A g \in Frags : Placed(g, e)' /\ frag'[g].stored # 0 =>
            \A b \in frag'[g].id.pos .. End(g)' - 1 : blocks'[nameIdx'[e]][b] = <<g, frag'[g].stored>>
      BY Zenon, <1>0, <2>6, <2>8, <2>10
    <3>3. \A g \in Frags : DatasetOf[g] = e /\ frag'[g].stored # 0 => Placed(g, e)'
      BY Zenon, <1>13, <2>1, <2>8, <2>9 DEF Clean, FragsApart
    <3> QED BY Zenon, <3>1, <3>2, <3>3 DEF FragsApart
  <2>12. \A g \in Frags : Placed(g, e)' =>
           End(g)' <= IF Cached(p, e)' THEN conMap'[p][e].tail ELSE tailIdx'[nameIdx'[e]]
    <3>1. Cached(p, e)' <=> Cached(p, e)
      BY Zenon, <1>0 DEF Cached
    <3> QED BY Zenon, <1>0, <1>3, <2>1, <2>8, <3>1 DEF Clean, BelowTail
  <2> QED BY Zenon, <2>2, <2>4, <2>5, <2>11, <2>12, UsedDataset
<1>16. /\ \A x \in Objs : blocks[x] # None => own[x] = own[x] /\ blocks'[x] # None
       /\ \A x \in Objs : blocks[x] # None /\ own[x] # e => tailIdx'[x] = tailIdx[x] /\ blocks'[x] = blocks[x]
       /\ \A d \in Datasets \ {e} : nameIdx'[d] = nameIdx[d]
       /\ tainted \subseteq tainted'
  BY Zenon, <1>0, <1>6, <1>10, <1>12 DEF OwnedBy
<1>17. \A g \in Frags : \/ frag'[g] = frag[g]
                        \/ /\ DatasetOf[g] = e
                           /\ frag'[g].id # None => Holds(own, e, frag'[g].id.obj)
  <2>1. frag[f].id # None => frag[f].id.obj \in Objs /\ OwnedBy(own, e, frag[f].id.obj)
    BY Zenon, <1>0, <1>1, <1>5 DEF Owners, TypeInv, Positions
  <2> QED BY <1>1, <1>13, <1>16, <2>1 DEF OwnedBy, Holds
<1>18. /\ nameIdx'[e] # None => Holds(own, e, nameIdx'[e])
       /\ c # None => Holds(own, e, c.obj) /\ (c.handle # None => Holds(own, e, c.handle))
       /\ Idle.pc \notin WorkSteps \cup SearchSteps \cup FormatSteps \cup {"write"}
       /\ conMap' = [conMap EXCEPT ![p][e] = c]
  <2>1. nameIdx[e] # None => nameIdx[e] \in Objs /\ OwnedBy(own, e, nameIdx[e])
    BY Zenon, <1>0, <1>5 DEF Owners, TypeInv
  <2>2. c.obj \in Objs
    BY Zenon DEF Pairs
  <2>3. conMap' = [conMap EXCEPT ![p][e] = c]
    BY Zenon, <1>0, <1>4 DEF TypeInv
  <2>4. Idle.pc \notin WorkSteps \cup SearchSteps \cup FormatSteps \cup {"write"}
    BY Zenon, <1>14 DEF WorkSteps, ObjectSteps, SearchSteps, FormatSteps
  <2> QED BY Zenon, <1>0, <1>4, <1>6, <1>16, <2>1, <2>2, <2>3, <2>4 DEF OwnedBy, Holds
<1>19. /\ DataInv /\ MotrInv' /\ p \in running /\ running' = running
       /\ act[p].pc \notin FormatSteps /\ Idle.pc \notin FormatSteps
       /\ act[p].pc \in WorkSteps => DatasetOf[act[p].f] = e
       /\ Idle.pc \in WorkSteps => DatasetOf[Idle.f] = e
       /\ Idle.pc \in WorkSteps /\ Idle.obj # None => Holds(own, e, Idle.obj)
       /\ Idle.pc \in SearchSteps => c = None
       /\ Idle.pc = "write" => c.handle # None
       /\ c \in Pairs \cup {None}
  BY Zenon, <1>0, <1>1, <1>2, <1>18
<1> HIDE DEF Idle
<1> QED BY ONLY Zenon, <1>5, <1>12, <1>14, <1>15, <1>16, <1>17, <1>18, <1>19, WorkingStep


-----------------------------------------------------------------------------
\* Sessions.  A session that starts, ends or dies leaves without its pairs; a
\* dataset whose tail it had not saved is tainted.
LEMMA SessionMoves ==
  ASSUME DataInv, MotrInv', NEW p \in Procs, UNCHANGED <<nameIdx, tailIdx, blocks>>,
         act' = [act EXCEPT ![p] = Idle],
         conMap' = [conMap EXCEPT ![p] = [d \in Datasets |-> None]],
         running \ {p} \subseteq running',
         tainted' = tainted \cup Unsaved(p),
         \A f \in Frags : \/ frag'[f] = frag[f]
                          \/ /\ frag'[f].id = None /\ frag'[f].stored = 0
                             /\ act[p].pc \in WorkSteps /\ act[p].f = f
  PROVE  DataInv'
<1>0. MotrInv /\ PlaceInv /\ TypeInv /\ TypeInv' /\ \A d \in Datasets \ tainted : Clean(d)
  BY Zenon DEF DataInv, MotrInv
<1>1. act'[p] = Idle /\ Idle.pc = "idle" /\ \A q \in Procs \ {p} : act'[q] = act[q]
  BY Zenon, <1>0 DEF TypeInv, Idle
<1>2. /\ \A d \in Datasets : conMap'[p][d] = None
      /\ \A q \in Procs \ {p} : conMap'[q] = conMap[q]
  BY Zenon, <1>0 DEF TypeInv
<1>3. /\ ~Working(p)'
      /\ \A q \in Procs \ {p} : (Working(q)' <=> Working(q)) /\ D(q)' = D(q)
  BY Zenon, <1>1 DEF Working, Idle, D
<1>4. PlaceInv'
  <2>1. \A q \in Procs \ running' : \A d \in Datasets : conMap'[q][d] = None
    BY <1>0, <1>2 DEF PlaceInv
  <2>2. ASSUME NEW q \in Procs
        PROVE  /\ act'[q].pc \in SearchSteps => conMap'[q][D(q)'] = None
               /\ act'[q].pc = "write" => conMap'[q][D(q)'].handle # None
               /\ act'[q].pc \in FormatSteps =>
                    /\ \A d \in Datasets : conMap'[q][d] = None
                    /\ \A f \in Frags : frag'[f].id = None
    <3>1. CASE q = p
      BY Zenon, <1>1, <3>1 DEF SearchSteps, FormatSteps
    <3>2. CASE q # p
      BY <1>0, <1>1, <1>2, <1>3, <3>2 DEF PlaceInv
    <3> QED BY Zenon, <3>1, <3>2
  <2> QED BY Zenon, <1>0, <2>1, <2>2 DEF PlaceInv, D
<1>5. OwnersInv'
  <2>1. PICK own \in [Objs -> Datasets] : Owners(own)
    BY Zenon DEF DataInv, OwnersInv
  <2>2. \A q \in Procs, d \in Datasets : conMap'[q][d] # None => conMap'[q][d] = conMap[q][d]
    BY Zenon, <1>2
  <2>3. \A q \in Procs : Working(q)' => Working(q) /\ act'[q] = act[q]
    BY Zenon, <1>1, <1>3
  <2>4. \A f \in Frags : frag'[f].id # None => frag'[f].id = frag[f].id
    BY Zenon
  <2>5. Owners(own)'
    <3>1. \A d \in Datasets : nameIdx'[d] # None => Holds(own, d, nameIdx'[d])
      BY Zenon, <2>1 DEF Owners, OwnedBy, Holds
    <3>0. \A d, o : OwnedBy(own, d, o) => Holds(own, d, o)
      BY Zenon DEF OwnedBy, Holds
    <3>2. ASSUME NEW q \in Procs, NEW d \in Datasets, conMap'[q][d] # None
          PROVE  /\ Holds(own, d, conMap'[q][d].obj)
                 /\ conMap'[q][d].handle # None => Holds(own, d, conMap'[q][d].handle)
      BY ONLY Zenon, <2>1, <2>2, <3>0, <3>2 DEF Owners
    <3>3. ASSUME NEW q \in Procs, Working(q)', act'[q].obj # None PROVE Holds(own, D(q)', act'[q].obj)
      <4>1. Working(q) /\ act'[q] = act[q] /\ D(q)' = D(q)
        BY ONLY Zenon, <2>3, <3>3 DEF D
      <4> QED BY ONLY Zenon, <2>1, <3>0, <3>3, <4>1 DEF Owners
    <3>4. \A f \in Frags : frag'[f].id # None => Holds(own, DatasetOf[f], frag'[f].id.obj)
      BY Zenon, <2>1, <2>4 DEF Owners, OwnedBy, Holds
    <3> QED BY Zenon, <3>1, <3>2, <3>3, <3>4 DEF Owners, OwnedBy, Holds
  <2> QED BY Zenon, <2>5 DEF OwnersInv
<1>6. ASSUME NEW d \in Datasets \ tainted' PROVE Clean(d)'
  <2>1. Clean(d) /\ d \notin Unsaved(p)
    BY Zenon, <1>0
  <2>2. act[p].pc \in WorkSteps => Working(p) /\ D(p) = DatasetOf[act[p].f]
    BY Zenon, <1>0, WorkFacts
  <2>3. CASE ~Uses(p, d)
    <3>1. \A q \in Procs : conMap'[q][d] = conMap[q][d]
      BY Zenon, <1>2, <2>3 DEF Uses, Cached
    <3>2. \A f \in Frags : DatasetOf[f] = d => frag'[f] = frag[f]
      BY Zenon, <2>2, <2>3 DEF Uses
    <3>3. \A f \in Frags : frag[f].id # None => frag[f].id.obj # None
      BY <1>0, MotrAssumption DEF TypeInv, Positions
    <3>4. ASSUME NEW q \in Procs, (Working(q) /\ D(q) = d) \/ (Working(q)' /\ D(q)' = d)
          PROVE  act'[q] = act[q] /\ act[q].f \in Frags
      <4>1. q # p
        BY Zenon, <1>3, <2>3, <3>4 DEF Uses
      <4>2. act'[q] = act[q] /\ Working(q) /\ act[q] \in Acts
        BY Zenon, <1>0, <1>1, <1>3, <3>4, <4>1 DEF TypeInv
      <4> QED BY Zenon, <4>2, ActRecord DEF Working
    <3> QED BY Zenon, <2>1, <3>1, <3>2, <3>3, <3>4, OtherDataset
  <2>4. CASE Uses(p, d)
    <3>1. \A q \in Procs \ {p} : ~Uses(q, d) /\ act'[q] = act[q] /\ conMap'[q] = conMap[q]
      BY Zenon, <1>1, <1>2, <2>4, SoleSession
    <3>2. PairNamed(p, d)' /\ WorkNamed(p, d)' /\ ~Cached(p, d)'
      BY Zenon, <1>2, <1>3 DEF PairNamed, WorkNamed, Cached
    <3>3. \A f \in Frags : /\ Placed(f, d)' => Placed(f, d) /\ frag'[f] = frag[f] /\ End(f)' = End(f)
                           /\ frag'[f].stored # 0 => frag'[f] = frag[f]
      BY Zenon DEF Placed, End
    <3>4. FragsApart(d)'
      <4>1. \A f \in Frags : DatasetOf[f] = d /\ frag'[f].stored # 0 => Placed(f, d)'
        BY Zenon, <2>1, <3>3 DEF Clean, FragsApart, Placed
      <4> QED BY <2>1, <3>3, <4>1 DEF Clean, FragsApart
    <3>5. ASSUME NEW f \in Frags, Placed(f, d) PROVE End(f) <= tailIdx[nameIdx[d]]
      <4>1. CASE Cached(p, d)
        BY Zenon, <2>1, <3>5, <4>1 DEF Clean, BelowTail, PairNamed, Unsaved
      <4>2. CASE ~Cached(p, d)
        BY Zenon, <2>1, <3>1, <3>5, <4>2 DEF Clean, BelowTail, Uses
      <4> QED BY Zenon, <4>1, <4>2
    <3>6. \A f \in Frags : Placed(f, d)' =>
            End(f)' <= IF Cached(p, d)' THEN conMap'[p][d].tail ELSE tailIdx'[nameIdx'[d]]
      BY Zenon, <3>2, <3>3, <3>5
    <3> QED BY Zenon, <3>1, <3>2, <3>4, <3>6, UsedDataset
  <2> QED BY Zenon, <2>3, <2>4
<1> QED BY Zenon, <1>4, <1>5, <1>6 DEF DataInv

\* fini writes the tail of a pair back and drops the pair.
LEMMA TailSaved ==
  ASSUME DataInv, MotrInv', NEW p \in Procs, NEW e \in Datasets,
         p \in running, act[p].pc \in {"idle", "fini"}, Cached(p, e),
         tailIdx' = [tailIdx EXCEPT ![conMap[p][e].obj] = conMap[p][e].tail],
         conMap' = [conMap EXCEPT ![p][e] = None],
         act' = [act EXCEPT ![p] = [pc |-> "fini"]],
         UNCHANGED <<running, nameIdx, blocks, frag, tainted>>
  PROVE  DataInv'
<1>0. MotrInv /\ PlaceInv /\ TypeInv /\ p \in running
  BY Zenon DEF DataInv, MotrInv
<1>1. PICK c \in Pairs : c = conMap[p][e]
  BY <1>0 DEF TypeInv, Cached
<1>2. PICK o \in Objs, n \in Nat : o = c.obj /\ n = c.tail
  BY Zenon DEF Pairs
<1>3. PICK own \in [Objs -> Datasets] : Owners(own)
  BY Zenon DEF DataInv, OwnersInv
<1>4. OwnedBy(own, e, o)
  BY Zenon, <1>1, <1>2, <1>3 DEF Owners, Cached
<1>5. tailIdx'[o] = n /\ \A x \in Objs \ {o} : tailIdx'[x] = tailIdx[x]
  BY Zenon, <1>0, <1>1, <1>2 DEF TypeInv
<1>6. PICK a \in Acts : a = [pc |-> "fini"]
  BY Zenon DEF Acts, SessionActs
<1>7. a.pc = "fini" /\ act' = [act EXCEPT ![p] = a] /\ "f" \notin DOMAIN a
  BY Zenon, <1>6
<1>8. /\ a.pc \notin WorkSteps \cup SearchSteps \cup FormatSteps \cup {"write"}
      /\ act[p].pc \notin WorkSteps \cup FormatSteps
  BY Zenon, <1>0, <1>7 DEF WorkSteps, ObjectSteps, SearchSteps, FormatSteps
<1>9. ASSUME e \notin tainted' PROVE Clean(e)'
  <2>1. Clean(e) /\ Uses(p, e) /\ e \in Datasets \ tainted
    BY Zenon, <1>9 DEF DataInv, Uses
  <2>2. \A q \in Procs \ {p} : ~Uses(q, e) /\ act'[q] = act[q] /\ conMap'[q] = conMap[q]
    BY Zenon, <1>0, <1>7, <2>1, SoleSession DEF TypeInv
  <2>3. ~Working(p)' /\ ~Cached(p, e)'
    BY Zenon, <1>0, <1>7 DEF Working, TypeInv, Cached
  <2>4. PairNamed(p, e)' /\ WorkNamed(p, e)'
    BY Zenon, <2>3 DEF PairNamed, WorkNamed
  <2>5. FragsApart(e)' /\ \A f \in Frags : (Placed(f, e)' <=> Placed(f, e)) /\ (Placed(f, e) => End(f)' = End(f))
    BY Zenon, <2>1, FragsStay DEF Clean
  <2>6. o = nameIdx[e] /\ \A f \in Frags : Placed(f, e) => End(f) <= n
    BY Zenon, <1>1, <1>2, <2>1 DEF Clean, PairNamed, BelowTail
  <2>7. \A f \in Frags : Placed(f, e)' =>
          End(f)' <= IF Cached(p, e)' THEN conMap'[p][e].tail ELSE tailIdx'[nameIdx'[e]]
    BY Zenon, <1>5, <2>3, <2>5, <2>6
  <2> QED BY Zenon, <2>2, <2>4, <2>5, <2>7, UsedDataset
<1>10. /\ \A x \in Objs : blocks[x] # None => own[x] = own[x] /\ blocks'[x] # None
       /\ \A x \in Objs : blocks[x] # None /\ own[x] # e => tailIdx'[x] = tailIdx[x] /\ blocks'[x] = blocks[x]
       /\ \A d \in Datasets \ {e} : nameIdx'[d] = nameIdx[d]
       /\ tainted \subseteq tainted'
       /\ blocks' \in [Objs -> [0 .. MaxBlock - 1 -> BlockValues] \cup {None}]
  BY Zenon, <1>0, <1>4, <1>5 DEF OwnedBy, PlaceInv
<1>11. nameIdx'[e] # None => Holds(own, e, nameIdx'[e])
  BY Zenon, <1>0, <1>3 DEF Owners, TypeInv, OwnedBy, Holds
<1>12. PICK c1 \in Pairs \cup {None} : c1 = None
  BY Zenon
<1>13. /\ DataInv /\ MotrInv' /\ p \in running /\ running' = running
       /\ act[p].pc \notin FormatSteps /\ a.pc \notin FormatSteps
       /\ act[p].pc \in WorkSteps => DatasetOf[act[p].f] = e
       /\ a.pc \in WorkSteps => DatasetOf[a.f] = e
       /\ a.pc \in WorkSteps /\ a.obj # None => Holds(own, e, a.obj)
       /\ a.pc \in SearchSteps => c1 = None
       /\ a.pc = "write" => c1.handle # None
       /\ conMap' = [conMap EXCEPT ![p][e] = c1]
       /\ c1 # None => Holds(own, e, c1.obj) /\ (c1.handle # None => Holds(own, e, c1.handle))
       /\ \A f \in Frags : \/ frag'[f] = frag[f]
                           \/ /\ DatasetOf[f] = e
                              /\ frag'[f].id # None => Holds(own, e, frag'[f].id.obj)
  BY Zenon, <1>0, <1>8, <1>12
<1> QED BY ONLY Zenon, <1>3, <1>7, <1>9, <1>10, <1>11, <1>13, WorkingStep


LEMMA SessionsKeepData ==
  ASSUME DataInv, MotrInv', NEW p \in Procs, Start(p) \/ Fini(p) \/ SessionCrash(p)
  PROVE  DataInv'
<1>0. MotrInv /\ PlaceInv /\ TypeInv
  BY Zenon DEF DataInv, MotrInv
<1>1. ASSUME \A d \in Datasets : conMap[p][d] = None PROVE Unsaved(p) = {}
  BY Zenon, <1>1 DEF Unsaved, Cached
<1>2. CASE Start(p)
  <2>1. act[p] = Idle /\ \A d \in Datasets : conMap[p][d] = None
    BY Zenon, <1>0, <1>2 DEF Start, MotrInv, SessionInv, PlaceInv
  <2>2. act' = [act EXCEPT ![p] = Idle]
    BY Zenon, <1>0, <1>2, <2>1 DEF Start, TypeInv
  <2>3. /\ UNCHANGED <<nameIdx, tailIdx, blocks>> /\ frag' = frag
        /\ conMap' = [conMap EXCEPT ![p] = [d \in Datasets |-> None]]
        /\ running \ {p} \subseteq running' /\ tainted' = tainted \cup Unsaved(p)
    BY Zenon, <1>1, <1>2, <2>1 DEF Start
  <2> QED BY Zenon, <2>2, <2>3, SessionMoves
<1>3. CASE Fini(p) /\ \A d \in Datasets : ~Cached(p, d)
  <2>1. \A d \in Datasets : conMap[p][d] = None
    BY Zenon, <1>3 DEF Cached
  <2>2. conMap[p] = [d \in Datasets |-> None]
    BY Zenon, <1>0, <2>1 DEF TypeInv
  <2>3. conMap' = [conMap EXCEPT ![p] = [d \in Datasets |-> None]]
    BY Zenon, <1>0, <1>3, <2>2 DEF Fini, TypeInv
  <2>4. /\ UNCHANGED <<nameIdx, tailIdx, blocks>> /\ frag' = frag
        /\ act' = [act EXCEPT ![p] = Idle]
        /\ running \ {p} \subseteq running' /\ tainted' = tainted \cup Unsaved(p)
    BY Zenon, <1>1, <1>3, <2>1 DEF Fini, Finish
  <2> QED BY Zenon, <2>3, <2>4, SessionMoves
<1>4. CASE Fini(p) /\ ~(\A d \in Datasets : ~Cached(p, d))
  <2>1. PICK e \in Datasets :
          /\ Cached(p, e)
          /\ tailIdx' = [tailIdx EXCEPT ![conMap[p][e].obj] = conMap[p][e].tail]
          /\ conMap' = [conMap EXCEPT ![p][e] = None]
    BY Zenon, <1>4 DEF Fini
  <2>2. /\ p \in running /\ act[p].pc \in {"idle", "fini"}
        /\ act' = [act EXCEPT ![p] = [pc |-> "fini"]]
        /\ UNCHANGED <<running, nameIdx, blocks, frag, tainted>>
    BY Zenon, <1>4 DEF Fini
  <2> QED BY Zenon, <2>1, <2>2, TailSaved
<1>5. CASE SessionCrash(p)
  <2>1. /\ UNCHANGED <<nameIdx, tailIdx, blocks>>
        /\ act' = [act EXCEPT ![p] = Idle]
        /\ conMap' = [conMap EXCEPT ![p] = [d \in Datasets |-> None]]
        /\ running \ {p} \subseteq running' /\ tainted' = tainted \cup Unsaved(p)
    BY Zenon, <1>5 DEF SessionCrash, Finish
  <2>2. CASE act[p].pc \in {"open", "write"} /\ frag[act[p].f].stored = 0
    <3>1. PICK f \in Frags : act[p].f = f
      BY Zenon, <1>0, <2>2, ActShape DEF ObjectSteps
    <3>2. frag' = [frag EXCEPT ![f].id = None] /\ frag[f].stored = 0 /\ act[p].pc \in WorkSteps
      BY Zenon, <1>5, <2>2, <3>1 DEF SessionCrash, WorkSteps, ObjectSteps
    <3>3. /\ frag'[f].id = None /\ frag'[f].stored = 0
          /\ \A g \in Frags \ {f} : frag'[g] = frag[g]
      BY Zenon, <1>0, <3>2 DEF TypeInv
    <3> QED BY Zenon, <2>1, <3>1, <3>2, <3>3, SessionMoves
  <2>3. CASE ~(act[p].pc \in {"open", "write"} /\ frag[act[p].f].stored = 0)
    <3>1. frag' = frag
      BY Zenon, <1>5, <2>3 DEF SessionCrash
    <3> QED BY Zenon, <2>1, <3>1, SessionMoves
  <2> QED BY Zenon, <2>2, <2>3
<1> QED BY Zenon, <1>2, <1>3, <1>4, <1>5

-----------------------------------------------------------------------------
\* Formatting: nothing is cached and no fragment has a place.
LEMMA BlankState ==
  ASSUME DataInv, MotrInv', NEW p \in Procs, running = {p}, running' = {p},
         blocks' \in [Objs -> [0 .. MaxBlock - 1 -> BlockValues] \cup {None}],
         \A o \in Objs : blocks[o] # None => blocks'[o] # None,
         \A d \in Datasets : conMap[p][d] = None, conMap' = conMap,
         \A d \in Datasets : nameIdx'[d] \in {nameIdx[d], None},
         NEW a \in SessionActs, act' = [act EXCEPT ![p] = a],
         \A f \in Frags : frag'[f].id = None,
         \A f \in Frags : DatasetOf[f] \notin tainted' => frag'[f].stored = 0
  PROVE  DataInv'
<1>0. MotrInv /\ PlaceInv /\ TypeInv
  BY Zenon DEF DataInv, MotrInv
<1>1. a.pc \in {"idle", "fini"} \cup FormatSteps /\ "f" \notin DOMAIN a
  BY Zenon DEF SessionActs
<1>2. act'[p] = a /\ \A q \in Procs \ {p} : act'[q] = Idle /\ act'[q].pc = "idle"
  BY <1>0 DEF TypeInv, MotrInv, SessionInv, Idle
<1>3. \A q \in Procs : \A d \in Datasets : conMap'[q][d] = None
  BY Zenon, <1>0 DEF PlaceInv
<1>4. \A q \in Procs : ~Working(q)'
  BY <1>1, <1>2 DEF Working, Idle
<1>5. PlaceInv'
  <2>1. \A q \in Procs : act'[q].pc \notin SearchSteps /\ act'[q].pc # "write"
    BY Zenon, <1>1, <1>2 DEF SearchSteps, FormatSteps
  <2> QED BY Zenon, <1>3, <2>1 DEF PlaceInv
<1>6. OwnersInv'
  <2>1. PICK own \in [Objs -> Datasets] : Owners(own)
    BY Zenon DEF DataInv, OwnersInv
  <2>2. \A d \in Datasets : nameIdx'[d] # None =>
          nameIdx'[d] \in Objs /\ blocks'[nameIdx'[d]] # None /\ own[nameIdx'[d]] = d
    BY <1>0, <2>1 DEF Owners, OwnedBy, TypeInv
  <2>3. Owners(own)'
    BY Zenon, <1>3, <1>4, <2>2 DEF Owners, OwnedBy
  <2> QED BY Zenon, <2>3 DEF OwnersInv
<1>7. ASSUME NEW d \in Datasets \ tainted' PROVE Clean(d)'
  <2>1. \A q \in Procs : ~Cached(q, d)' /\ ~Uses(q, d)' /\ PairNamed(q, d)' /\ WorkNamed(q, d)'
    BY Zenon, <1>3, <1>4 DEF Cached, Uses, PairNamed, WorkNamed
  <2>2. \A f \in Frags : ~Placed(f, d)' /\ (DatasetOf[f] = d => frag'[f].stored = 0)
    BY Zenon, <1>7 DEF Placed
  <2>3. SoleUser(d)' /\ FragsApart(d)' /\ BelowTail(d)'
    BY Zenon, <2>1, <2>2 DEF SoleUser, FragsApart, BelowTail
  <2> QED BY Zenon, <2>1, <2>3 DEF Clean
<1> QED BY Zenon, <1>5, <1>6, <1>7 DEF DataInv

LEMMA FormattingKeepsData ==
  ASSUME DataInv, MotrInv', NEW p \in Procs, Mkfs(p) \/ DeleteIndex(p) \/ CreateIndex(p)
  PROVE  DataInv'
<1>0. MotrInv /\ PlaceInv /\ TypeInv
  BY Zenon DEF DataInv, MotrInv
<1>1. running = {p} /\ running' = {p} /\ conMap' = conMap /\ \A d \in Datasets : conMap[p][d] = None
  BY Zenon, <1>0 DEF Mkfs, DeleteIndex, CreateIndex, MotrInv, SessionInv, PlaceInv, FormatSteps
<1>2. CASE Mkfs(p)
  <2>1. Blank \in [0 .. MaxBlock - 1 -> BlockValues] /\ Blank # None
    <3>1. Blank \in [0 .. MaxBlock - 1 -> BlockValues]
      BY Zenon DEF Blank, BlockValues
    <3> QED BY Zenon, <3>1, MotrAssumption DEF BlockValues
  <2>2. /\ blocks' \in [Objs -> [0 .. MaxBlock - 1 -> BlockValues] \cup {None}]
        /\ \A o \in Objs : blocks[o] # None => blocks'[o] # None
    BY Zenon, <1>2, <2>1 DEF Mkfs
  <2>3. PICK a \in SessionActs : a = [pc |-> "delname"]
    BY Zenon DEF SessionActs, FormatSteps
  <2>4. act' = [act EXCEPT ![p] = a] /\ nameIdx' = nameIdx
    BY Zenon, <1>2, <2>3 DEF Mkfs
  <2>5. \A f \in Frags : frag'[f].id = None /\ frag'[f].stored = 0
    BY Zenon, <1>2 DEF Mkfs
  <2> QED BY Zenon, <1>1, <2>2, <2>4, <2>5, BlankState
<1>3. CASE DeleteIndex(p) \/ CreateIndex(p)
  <2>1. act[p].pc \in FormatSteps /\ UNCHANGED <<blocks, frag, tainted>>
    BY Zenon, <1>3 DEF DeleteIndex, CreateIndex, FormatSteps
  <2>2. /\ \A f \in Frags : frag'[f].id = None
        /\ \A f \in Frags : DatasetOf[f] \notin tainted' => frag'[f].stored = 0
    <3>1. \A f \in Frags : frag[f].id = None /\ DatasetOf[f] \in Datasets
      BY Zenon, <1>0, <2>1, FragmentFacts DEF PlaceInv
    <3>2. ASSUME NEW f \in Frags, DatasetOf[f] \notin tainted PROVE frag[f].stored = 0
      BY Zenon, <3>1, <3>2 DEF DataInv, Clean, FragsApart, Placed
    <3> QED BY Zenon, <2>1, <3>1, <3>2
  <2>3. \A d \in Datasets : nameIdx'[d] \in {nameIdx[d], None}
    BY Zenon, <1>3 DEF DeleteIndex, CreateIndex
  <2>4. /\ blocks' \in [Objs -> [0 .. MaxBlock - 1 -> BlockValues] \cup {None}]
        /\ \A o \in Objs : blocks[o] # None => blocks'[o] # None
    BY Zenon, <1>0, <2>1 DEF PlaceInv
  <2>5. PICK a \in SessionActs : act' = [act EXCEPT ![p] = a]
    <3>1. act[p] \in SessionActs
      BY Zenon, <1>0, <2>1, ActShape
    <3>2. ASSUME NEW s \in FormatSteps, Continue(p, s)
          PROVE  \E a \in SessionActs : act' = [act EXCEPT ![p] = a]
      <4>1. [act[p] EXCEPT !.pc = s] \in SessionActs
        BY Zenon, <3>1 DEF SessionActs
      <4>2. act' = [act EXCEPT ![p] = [act[p] EXCEPT !.pc = s]]
        BY Zenon, <3>2 DEF Continue
      <4> QED BY Zenon, <4>1, <4>2
    <3>3. Idle \in SessionActs
      BY Zenon DEF Idle, SessionActs
    <3>4. CASE Finish(p)
      BY Zenon, <3>3, <3>4 DEF Finish
    <3>5. \E s \in FormatSteps : Continue(p, s) \/ Finish(p)
      BY Zenon, <1>3 DEF DeleteIndex, CreateIndex, FormatSteps
    <3> QED BY Zenon, <3>2, <3>4, <3>5
  <2> QED BY Zenon, <1>1, <2>2, <2>3, <2>4, <2>5, BlankState
<1> QED BY Zenon, <1>2, <1>3

-----------------------------------------------------------------------------
LEMMA InitialData ==
  ASSUME MotrInit
  PROVE  DataInv
<1>1. MotrInv
  BY Zenon, InitialState
<1>2. /\ \A p \in Procs : act[p] = Idle /\ act[p].pc = "idle" /\ ~Working(p)
      /\ \A p \in Procs, d \in Datasets : conMap[p][d] = None
      /\ \A f \in Frags : frag[f].id = None /\ frag[f].stored = 0
      /\ \A d \in Datasets : nameIdx[d] = None
  BY Zenon DEF MotrInit, Idle, Working
<1>3. PlaceInv
  BY Zenon, <1>2 DEF MotrInit, PlaceInv, SearchSteps, FormatSteps
<1>4. OwnersInv
  <2>1. PICK e \in Datasets : TRUE
    BY Zenon, MotrAssumption
  <2>2. [o \in Objs |-> e] \in [Objs -> Datasets]
    BY Zenon
  <2>3. Owners([o \in Objs |-> e])
    BY Zenon, <1>2 DEF Owners
  <2> QED BY Zenon, <2>2, <2>3 DEF OwnersInv
<1>5. ASSUME NEW d \in Datasets PROVE Clean(d)
  <2>1. \A q \in Procs : ~Cached(q, d) /\ ~Uses(q, d) /\ PairNamed(q, d) /\ WorkNamed(q, d)
    BY Zenon, <1>2 DEF Cached, Uses, PairNamed, WorkNamed
  <2>2. \A f \in Frags : ~Placed(f, d) /\ frag[f].stored = 0
    BY Zenon, <1>2 DEF Placed
  <2>3. SoleUser(d) /\ FragsApart(d) /\ BelowTail(d)
    BY Zenon, <2>1, <2>2 DEF SoleUser, FragsApart, BelowTail
  <2> QED BY Zenon, <2>1, <2>3 DEF Clean
<1> QED BY Zenon, <1>1, <1>3, <1>4, <1>5 DEF DataInv


LEMMA DataKeptByStep == DataInv /\ [MotrNext]_motrVars => DataInv'
<1> SUFFICES ASSUME DataInv, [MotrNext]_motrVars PROVE DataInv'
  BY Zenon
<1>1. MotrInv'
  BY Zenon, IndicesKept DEF DataInv
<1>2. ASSUME NEW p \in Procs, MotrStep(p) PROVE DataInv'
  BY Zenon, <1>1, <1>2, SessionsKeepData, UpdateKeepsData, RetrieveLooksUp, NameLookedUp, TailFetched,
     ObjectMade, NamePut, TailReadAgain, HandleOpened, WrittenKeepsData, FormattingKeepsData DEF MotrStep
<1>3. CASE UNCHANGED motrVars
  <2>1. PlaceInv'
    BY Zenon, <1>3 DEF motrVars, DataInv, PlaceInv, D
  <2>2. OwnersInv'
    <3>1. PICK own \in [Objs -> Datasets] : Owners(own)
      BY Zenon DEF DataInv, OwnersInv
    <3>2. Owners(own)'
      BY ZenonT(60), <1>3, <3>1 DEF motrVars, Owners, OwnedBy, D, Working
    <3> QED BY Zenon, <3>2 DEF OwnersInv
  <2>3. \A d \in Datasets \ tainted' : Clean(d)'
    <3> SUFFICES ASSUME NEW d \in Datasets \ tainted' PROVE Clean(d)'
      OBVIOUS
    <3>1. Clean(d)
      BY Zenon, <1>3 DEF motrVars, DataInv
    <3>2. \A q \in Procs : /\ Uses(q, d)' <=> Uses(q, d)
                           /\ Cached(q, d)' <=> Cached(q, d)
                           /\ Working(q)' <=> Working(q)
                           /\ D(q)' = D(q)
      BY Zenon, <1>3 DEF motrVars, Uses, Cached, Working, D
    <3>3. \A f \in Frags : (Placed(f, d)' <=> Placed(f, d)) /\ End(f)' = End(f)
      BY Zenon, <1>3 DEF motrVars, Placed, End
    <3>4. SoleUser(d)'
      BY Zenon, <3>1, <3>2 DEF Clean, SoleUser
    <3>5. FragsApart(d)'
      BY Zenon, <1>3, <3>1, <3>3 DEF motrVars, Clean, FragsApart
    <3>6. BelowTail(d)'
      BY Zenon, <1>3, <3>1, <3>2, <3>3 DEF motrVars, Clean, BelowTail
    <3>7. ASSUME NEW q \in Procs PROVE PairNamed(q, d)' /\ WorkNamed(q, d)'
      BY Zenon, <1>3, <3>1, <3>2 DEF motrVars, Clean, PairNamed, WorkNamed
    <3> QED BY Zenon, <3>4, <3>5, <3>6, <3>7 DEF Clean
  <2> QED BY Zenon, <1>1, <2>1, <2>2, <2>3 DEF DataInv
<1> QED BY Zenon, <1>2, <1>3 DEF MotrNext

LEMMA DataInvGivesData == DataInv => MotrDataKept
<1> SUFFICES ASSUME DataInv PROVE MotrDataKept
  BY Zenon
<1>0. MotrInv /\ TypeInv
  BY Zenon DEF DataInv, MotrInv
<1>1. ASSUME NEW f \in Frags, frag[f].stored # 0, DatasetOf[f] \notin tainted
      PROVE  \A b \in frag[f].id.pos .. frag[f].id.pos + SizeOf[f] - 1 :
               blocks[frag[f].id.obj][b] = <<f, frag[f].stored>>
  <2>1. PICK d \in Datasets \ tainted : d = DatasetOf[f]
    BY Zenon, <1>1, FragmentFacts
  <2>2. FragsApart(d)
    BY Zenon DEF DataInv, Clean
  <2>3. Placed(f, d)
    BY Zenon, <1>1, <2>1, <2>2 DEF FragsApart
  <2>4. /\ frag[f].id.obj = nameIdx[d]
        /\ \A b \in frag[f].id.pos .. End(f) - 1 : blocks[nameIdx[d]][b] = <<f, frag[f].stored>>
    BY Zenon, <1>1, <2>2, <2>3 DEF FragsApart
  <2>5. frag[f].id.pos \in Nat /\ SizeOf[f] \in Nat
    BY Zenon, <1>0, <2>3, FragmentFacts DEF TypeInv, Placed, Positions
  <2>6. End(f) - 1 = frag[f].id.pos + SizeOf[f] - 1
    BY <2>5 DEF End
  <2> QED BY Zenon, <2>4, <2>6
<1>2. ASSUME NEW p \in Procs, act[p].pc = "read", D(p) \notin tainted
      PROVE  ReadHandle(p) = act[p].obj
  <2>1. act[p].pc \in WorkSteps /\ act[p].pc \in CachedSteps
    BY Zenon, <1>2 DEF WorkSteps, ObjectSteps, CachedSteps
  <2>2. PICK d \in Datasets \ tainted : d = D(p)
    BY Zenon, <1>0, <1>2, <2>1, WorkFacts
  <2>3. Working(p) /\ Cached(p, d)
    BY Zenon, <1>0, <2>1, <2>2, WorkFacts DEF MotrInv, CacheInv, Cached
  <2>4. PairNamed(p, d) /\ WorkNamed(p, d)
    BY Zenon DEF DataInv, Clean
  <2>5. act[p].obj = nameIdx[d] /\ conMap[p][d].handle \in {None, nameIdx[d]}
    BY Zenon, <1>2, <2>2, <2>3, <2>4 DEF PairNamed, WorkNamed
  <2> QED BY Zenon, <2>2, <2>5 DEF ReadHandle, Pair
<1> QED BY Zenon, <1>1, <1>2 DEF MotrDataKept

(* Any number of sessions, their crashes and a formatting included: a      *)
(* stored fragment of a dataset that is not tainted is where its id says,  *)
(* with the data stored last, and is read from the object it was written   *)
(* to.                                                                     *)
THEOREM MotrKeepsData == MotrSpec => []MotrDataKept
<1>1. MotrInit => DataInv
  BY Zenon, InitialData
<1> QED BY <1>1, DataKeptByStep, DataInvGivesData, PTL DEF MotrSpec
=============================================================================
