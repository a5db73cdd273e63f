----------------------------- MODULE MCServices -----------------------------
(***************************************************************************)
(* Instances of the parts, small enough for all their states.              *)
(***************************************************************************)
EXTENDS Services, FiniteSets

-----------------------------------------------------------------------------
(* Collectives: programs that create, fill, close and open a container     *)
(* again, with at most one repetition of a write, an open or a close; two  *)
(* sizes differ in one dimension.                                          *)

MCSizes == {<<1, 2>>, <<3, 2>>}

Times(call) == Cardinality({i \in DOMAIN script : script[i] = call})
Repeated == {"write", "dataset_open", "dataset_close", "dataset_commit"}
Programs ==
  part = "mpi" =>
    /\ \A i \in DOMAIN script : Times(script[i]) <= IF script[i] \in Repeated THEN 2 ELSE 1
    /\ Times("init") = 1 => Len(script) <= 3
    /\ Times("dataset_open") + Times("dataset_create") <= 2
    /\ Times("write") + Times("dataset_commit") <= 3

-----------------------------------------------------------------------------
(* Streams of up to three dimensions, with sizes that fragments and chunks *)
(* do not divide.                                                          *)

MCRegions == {[offset |-> <<>>, size |-> <<>>], [offset |-> <<2>>, size |-> <<5>>],
              [offset |-> <<0, 1>>, size |-> <<2, 3>>], [offset |-> <<0, 0>>, size |-> <<3, 2>>],
              [offset |-> <<1, 0, 0>>, size |-> <<2, 3, 2>>]}

-----------------------------------------------------------------------------
(* Startup: configurations, good ones with one to three backends of all    *)
(* kinds, and one for every check of the code that it does not pass.       *)

Meta == [type |-> "metadummy", id |-> "md", target |-> "dir", accessibility |-> None]
Entry(type, id) ==
  [type |-> type, id |-> id, target |-> "dir", accessibility |-> None, model |-> None,
   perNode |-> None, inAll |-> None, fragment |-> None, method |-> None, keys |-> TRUE]
Doc(backends) == [esdm |-> TRUE, list |-> None, metadata |-> Meta, backends |-> backends]
Threaded == [Entry("POSIX", "a") EXCEPT !.perNode = 2, !.inAll = 3]
Local == [Entry("DUMMY", "b") EXCEPT !.accessibility = "local", !.perNode = 1]
Modelled(type, latency, throughput) ==
  [Entry(type, "c") EXCEPT !.model = [latency |-> latency, throughput |-> throughput], !.method = "equalized"]

Good == {Doc(<<Threaded, Local>>), Doc(<<>>), Doc(<<Local, Modelled("ime", 0, 200)>>),
         Doc(<<Threaded, Entry("KDSA", "k")>>), Doc(<<Entry("WOS", "w")>>), 
         [Doc(<<Entry("PMEM", "p"), Entry("S3", "s")>>) EXCEPT !.list = "array"]}
BadEntries == {Entry("MOTR", "m"), Entry("MOTR_CLIENT", "m"), Entry("DUMMYX", "m"),
               Entry(None, "m"), Entry("POSIX", None),
               [Local EXCEPT !.target = None], [Local EXCEPT !.target = "number"],
               [Local EXCEPT !.accessibility = "none"], [Local EXCEPT !.method = "none"],
               Modelled("DUMMY", -1, 1), Modelled("DUMMY", 0, 0),
               [Entry("S3", "s") EXCEPT !.keys = FALSE], [Entry("S3", "s") EXCEPT !.target = "abc"]}
Bad == {Invalid, [Doc(<<>>) EXCEPT !.esdm = FALSE], [Doc(<<>>) EXCEPT !.list = "tree"],
        [Doc(<<>>) EXCEPT !.backends = None], [Doc(<<>>) EXCEPT !.metadata = None],
        [Doc(<<>>) EXCEPT !.metadata.type = "mongodb"], [Doc(<<>>) EXCEPT !.metadata.id = None],
        [Doc(<<>>) EXCEPT !.metadata.accessibility = "none"], Doc(<<Local, Local>>)}
       \cup {Doc(<<e>>) : e \in BadEntries}
MCDocuments == Good \cup Bad

-----------------------------------------------------------------------------
(* Format: the metadata, a data backend with a directory, and S3.          *)

MCTargets == <<"m", "d", "s">>
MCKindsOf == [m |-> {"md"}, d |-> {"POSIX", "IME", "PMEM"}, s |-> {"S3"}]
=============================================================================
