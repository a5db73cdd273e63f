------------------------------- MODULE Startup --------------------------------
(* Start and end of the library (esdm.c, esdm-config.c, esdm-modules.c, the   *)
(* init and finalize functions of backends, layout, performance and           *)
(* scheduler).  A configuration is the parsed document, with None for a tag   *)
(* that is not set; memory is the set of objects that are allocated.  Errors  *)
(* in a configuration end the process, as ESDM_ERROR and eassert do.          *)
EXTENDS Integers, Sequences, FiniteSets, FiniteSetsExt

CONSTANTS Documents,   \* configurations, Invalid (no JSON) may be among them
          Invalid,
          ProcCounts,  \* arguments of esdm_set_procs_per_node() and _total_procs()
          MaxConfigs,  \* configurations that are loaded in a run
          MaxJobs,     \* I/O jobs of a request
          None

VARIABLES
  file,        \* content of esdm.conf, None if there is no file
  procs,       \* procs_per_node and total_procs
  config,      \* None or the configuration: [doc, gen]
  modules,     \* None or the sequence of data backends
  initialized,
  heap,        \* objects that are allocated
  jobs,        \* per data backend: jobs [queued, running, leaving]
  caller,      \* the caller is ready, waiting, dead or the step of esdm_finalize()
  configs      \* number of configurations so far

startupVars == <<file, procs, config, modules, initialized, heap, jobs, caller, configs>>

(* What jansson makes of a file; the elements of "backends" are objects.    *)
Optional(S) == S \cup {None}
Models == [latency : Int, throughput : Int]
Entries ==
  [type : Optional(STRING), id : Optional(STRING), target : Optional(STRING),
   accessibility : Optional(STRING), model : Optional(Models), perNode : Optional(Nat),
   inAll : Optional(Nat), fragment : Optional(Nat), method : Optional(STRING), keys : BOOLEAN]
Coordinators ==
  [type : Optional(STRING), id : Optional(STRING), target : Optional(STRING),
   accessibility : Optional(STRING)]
Parsed ==
  [esdm : BOOLEAN, list : Optional(STRING), metadata : Optional(Coordinators),
   backends : Optional(Seq(Entries))]

Object(what, gen, at, type) == [what |-> what, gen |-> gen, at |-> at, type |-> type]
Part(what, gen) == Object(what, gen, 0, None)
Dies == caller' = "dead" /\ UNCHANGED <<file, procs, config, modules, initialized, heap, jobs, configs>>
Calls == caller = "ready"

-----------------------------------------------------------------------------
(* Reading a configuration                                                  *)

(* esdm_config_init_from_str()                                              *)
ConfigValid(doc) ==
  /\ doc # Invalid
  /\ doc.esdm
  /\ doc.list \in {None, "array", "btree"}

AccessibilityValid(e) == e.accessibility \in {None, "global", "local"}
Global(e) == e.accessibility \in {None, "global"}

(* esdm_config_get_metadata_coordinator()                                   *)
CoordinatorValid(doc) ==
  /\ doc.metadata # None
  /\ doc.metadata.type # None /\ doc.metadata.id # None /\ doc.metadata.target # None
  /\ AccessibilityValid(doc.metadata)

(* esdm_config_get_backends(): what is demanded ...                         *)
BackendsValid(doc) ==
  /\ doc.backends # None
  /\ \A i \in DOMAIN doc.backends :
       LET e == doc.backends[i] IN
       /\ e.type # None /\ e.id # None /\ e.target # None
       /\ \A j \in 1..(i - 1) : e.id # doc.backends[j].id
       /\ AccessibilityValid(e)
       /\ e.method \in {None, "contiguous", "equalized"}

(* ... and the defaults                                                     *)
Default(value, default) == IF value = None THEN default ELSE value
GetBackend(e) ==
  [type |-> e.type, target |-> e.target, global |-> Global(e), model |-> e.model,
   perNode |-> Default(e.perNode, 0), inAll |-> Default(e.inAll, 0),
   fragment |-> Default(e.fragment, 10), keys |-> e.keys]

-----------------------------------------------------------------------------
(* Data backends.  The result of an init function is the set of outcomes:   *)
(* a backend with what its finalize function frees and its throughput, or   *)
(* None (it returns NULL or ends the process).                              *)

(* esdm_backend_t_parse_perf_model_lat_thp() and ..._reset_...()            *)
ModelValid(model) == model = None \/ (model.latency >= 0 /\ model.throughput > 0)
ModelThroughput(model) == IF model = None THEN 0 ELSE model.throughput

(* esdm_backend_t_perf_model_get_throughput(), in MiB/s                     *)
GetThroughput(throughput) == IF throughput > 0 THEN throughput ELSE 100

PosixFinalize == {"backend", "data", "config"}
ImeFinalize == {"backend", "data", "config"}
S3Finalize == {"backend", "data", "config"}
DummyFinalize == {"backend", "data", "config"}
KdsaFinalize == {"data"}
WosFinalize == {}
PmemFinalize == {}      \* there is no such callback

Backend(c, frees, throughput) ==
  [config |-> c, frees |-> frees, throughput |-> throughput, threads |-> 0]
Result(valid, c, frees) ==
  IF valid /\ c.target # "number" /\ ModelValid(c.model)
  THEN {Backend(c, frees, GetThroughput(ModelThroughput(c.model)))} ELSE {None}

DummyInit(c) == Result(c.type = "DUMMY", c, DummyFinalize)
PosixInit(c) == Result(c.type = "POSIX", c, PosixFinalize)
ImeInit(c) == Result(c.type \in {"IME", "ime"}, c, ImeFinalize)
PmemInit(c) == Result(c.type = "PMEM", c, PmemFinalize)
(* The keys are demanded, and a target of five characters.                  *)
S3Init(c) == Result(c.type = "S3" /\ c.keys /\ c.target # "abc", c, S3Finalize)
(* Connecting or reading the header may fail.                               *)
KdsaInit(c) == {None} \cup Result(c.type = "KDSA", c, KdsaFinalize)
(* The cluster or the policy may be missing.                                *)
WosInit(c) == {None} \cup
  Result(c.type = "WOS", c, WosFinalize)
(* The type must be MOTR_CLIENT here, which does not get here.              *)
MotrInit(c) == IF c.type = "MOTR_CLIENT" THEN {Backend(c, {"backend"}, 0)} ELSE {None}

(* esdmI_init_backend(), built with all backends: types are prefixes, some  *)
(* whatever the case.                                                       *)
InitBackend(c) ==
  CASE c.type \in {"DUMMY", "DUMMYX"} -> DummyInit(c)
    [] c.type = "POSIX" -> PosixInit(c)
    [] c.type \in {"IME", "ime"} -> ImeInit(c)
    [] c.type = "KDSA" -> KdsaInit(c)
    [] c.type = "MOTR" -> MotrInit(c)
    [] c.type = "WOS" -> WosInit(c)
    [] c.type = "PMEM" -> PmemInit(c)
    [] c.type = "S3" -> S3Init(c)
    [] OTHER -> {None}

(* Threads of a backend (esdm_scheduler_init())                             *)
Threads(c) ==
  LET local == (c.perNode + procs.perNode - 1) \div procs.perNode
      global == (c.inAll + procs.total - 1) \div procs.total
  IN IF c.global /\ global < local THEN global ELSE local

(* What the constants are: configurations as parsed, counts of processes as *)
(* esdm_set_procs_per_node() demands, and None differs from what it stands  *)
(* beside.                                                                  *)
Settings ==
  [type : STRING, target : STRING, global : BOOLEAN, model : Optional(Models),
   perNode : Nat, inAll : Nat, fragment : Nat, keys : BOOLEAN]
Backends ==
  [config : Settings, frees : SUBSET {"backend", "data", "config"},
   throughput : Int, threads : Nat]
Configs == [doc : Documents, gen : Nat]
ASSUME StartupAssumption ==
  /\ Documents \subseteq Parsed \cup {Invalid}
  /\ ProcCounts \subseteq Nat \ {0} /\ MaxJobs \in Nat
  /\ None \notin Configs \cup Seq(Backends)

-----------------------------------------------------------------------------
DefaultProcs == [perNode |-> 1, total |-> 1]

StartupInit ==
  /\ file \in Documents \cup {None}
  /\ procs = DefaultProcs
  /\ config = None /\ modules = None
  /\ initialized = FALSE
  /\ heap = {} /\ jobs = <<>> /\ caller = "ready" /\ configs = 0

(* esdm_set_procs_per_node() and esdm_set_total_procs()                     *)
SetProcs(which, n) ==
  /\ Calls
  /\ IF initialized THEN Dies
     ELSE /\ procs' = [procs EXCEPT ![which] = n]
          /\ UNCHANGED <<file, config, modules, initialized, heap, jobs, caller, configs>>

ConfigObjects(gen) == {Part("json", gen), Part("esdm_config", gen)}

(* esdm_load_config_str()                                                   *)
LoadConfigStr(doc) ==
  /\ Calls /\ configs < MaxConfigs
  /\ IF initialized \/ config # None \/ ~ConfigValid(doc) THEN Dies
     ELSE /\ config' = [doc |-> doc, gen |-> configs + 1]
          /\ configs' = configs + 1
          /\ heap' = heap \cup ConfigObjects(configs + 1)
          /\ UNCHANGED <<file, procs, modules, initialized, jobs, caller>>

(* esdm_modules_init(): backends bs for configuration c, if they could be   *)
(* made                                                                     *)
ModulesInit(c, bs) ==
  /\ DOMAIN bs = DOMAIN c.doc.backends
  /\ \A i \in DOMAIN bs : bs[i] \in InitBackend(GetBackend(c.doc.backends[i]))
BackendSequences(c) ==
  LET made == [i \in DOMAIN c.doc.backends |-> InitBackend(GetBackend(c.doc.backends[i]))]
  IN {bs \in [DOMAIN made -> UNION {made[i] : i \in DOMAIN made}] : ModulesInit(c, bs)}
ModulesObjects(c, bs) ==
  {Part(w, c.gen) : w \in {"modules", "data_backends", "coordinator", "metadata"}}
    \cup UNION {{Object(w, c.gen, i, bs[i].config.type) : w \in {"backend", "data", "config"}} :
                   i \in DOMAIN bs}

LayoutInit(gen) == Part("layout", gen)
PerformanceInit(gen) == Part("performance", gen)
Pools(gen, bs) ==
  {Object("pool", gen, i, bs[i].config.type) : i \in {j \in DOMAIN bs : Threads(bs[j].config) > 0}}
SchedulerInit(gen, bs) == {Part("scheduler", gen)} \cup Pools(gen, bs)

(* The only metadata backend that is built is metadummy.                    *)
Startable(doc) ==
  BackendsValid(doc) /\ CoordinatorValid(doc) /\ doc.metadata.type = "metadummy"

(* esdm_init() with a configuration                                         *)
Start(c, loaded) ==
  IF ~Startable(c.doc) THEN Dies
  ELSE \E bs \in BackendSequences(c) :
          IF \E i \in DOMAIN bs : bs[i] = None THEN Dies
          ELSE /\ config' = c
               /\ modules' = [i \in DOMAIN bs |-> [bs[i] EXCEPT !.threads = Threads(bs[i].config)]]
               /\ heap' = heap \cup loaded \cup ModulesObjects(c, bs) \cup SchedulerInit(c.gen, bs)
                               \cup {LayoutInit(c.gen), PerformanceInit(c.gen)}
               /\ jobs' = [i \in DOMAIN bs |-> [queued |-> 0, running |-> 0, leaving |-> 0]]
               /\ initialized' = TRUE
               /\ configs' = c.gen
               /\ UNCHANGED <<file, procs, caller>>

(* esdm_init(), with the configuration that was loaded before ...           *)
InitLoaded == Calls /\ ~initialized /\ config # None /\ Start(config, {})

(* ... or with esdm.conf; without that file it returns ESDM_ERROR.          *)
InitFromFile ==
  /\ Calls /\ ~initialized /\ config = None /\ configs < MaxConfigs
  /\ file # None
  /\ IF ConfigValid(file)
     THEN Start([doc |-> file, gen |-> configs + 1], ConfigObjects(configs + 1)) ELSE Dies

-----------------------------------------------------------------------------
(* Requests.  A request puts jobs in the queues of some backends and waits  *)
(* for all of them; a thread is done with its job some time after the       *)
(* request has returned.                                                    *)

Sum(f) == MapThenSumSet(LAMBDA i : f[i], DOMAIN f)
(* The template of the WOS backend does not have the layout of the table of *)
(* callbacks, so that a call through it goes to another function.           *)
Callable(i) == modules[i].config.type # "WOS"

(* Backends without threads work in the caller.                             *)
Submit(amount) ==
  /\ jobs' = [i \in DOMAIN jobs |->
                IF modules[i].threads = 0 THEN jobs[i]
                ELSE [jobs[i] EXCEPT !.queued = @ + amount[i]]]
  /\ caller' = "waiting"
  /\ UNCHANGED <<file, procs, config, modules, initialized, heap, configs>>

Request(amount) ==
  /\ Calls /\ initialized
  /\ DOMAIN amount = DOMAIN modules /\ Sum(amount) \in 1..MaxJobs
  /\ IF \E i \in DOMAIN amount : amount[i] > 0 /\ ~Callable(i) THEN Dies ELSE Submit(amount)

(* esdm_get_modules(), as every operation begins                            *)
GetModules == Calls /\ ~initialized /\ Dies

(* esdm_modules_fastestBackend(): the last one of the fastest               *)
FastestBackend ==
  Max({i \in DOMAIN modules : \A j \in DOMAIN modules : modules[i].throughput >= modules[j].throughput})

(* A fragment of a grid goes to the fastest backend.                        *)
WriteGridFragment ==
  /\ Calls /\ initialized
  /\ IF modules = <<>> \/ \E i \in DOMAIN modules : ~Callable(i) THEN Dies
     ELSE Submit([i \in DOMAIN modules |-> IF i = FastestBackend THEN 1 ELSE 0])

Busy == \E i \in DOMAIN jobs : jobs[i].queued + jobs[i].running > 0

RequestReturn ==
  /\ caller = "waiting" /\ ~Busy
  /\ caller' = "ready"
  /\ UNCHANGED <<file, procs, config, modules, initialized, heap, jobs, configs>>

Moved(job, from, to) ==
  [s \in DOMAIN job |-> IF s = from THEN job[s] - 1 ELSE IF s = to THEN job[s] + 1 ELSE job[s]]

(* A thread of a pool takes a job, reports it, and leaves backend_thread(). *)
Work(i, from, to) ==
  /\ i \in DOMAIN jobs /\ caller # "dead"
  /\ jobs[i][from] > 0
  /\ from = "queued" => jobs[i].running + jobs[i].leaving < modules[i].threads
  /\ jobs' = [jobs EXCEPT ![i] = Moved(@, from, to)]
  /\ UNCHANGED <<file, procs, config, modules, initialized, heap, caller, configs>>
TakeJob(i) == Work(i, "queued", "running")
ReportJob(i) == Work(i, "running", "leaving")
LeaveJob(i) == Work(i, "leaving", None)

-----------------------------------------------------------------------------
(* esdm_finalize()                                                          *)

Free(objects, next) ==
  /\ heap' = heap \ objects
  /\ caller' = next
Of(whats, at) == {o \in heap : o.what \in whats /\ o.gen = configs /\ o.at = at}

Finalize ==
  /\ Calls
  /\ caller' = "scheduler"
  /\ UNCHANGED <<file, procs, config, modules, initialized, heap, jobs, configs>>

Drained(i) == jobs[i].queued + jobs[i].running + jobs[i].leaving = 0

(* Mutant: the pools are freed without waiting for their threads.           *)
SchedulerFinalizeAtOnce ==
  /\ caller = "scheduler"
  /\ Free({o \in heap : o.what \in {"pool", "scheduler"}}, "performance")
  /\ UNCHANGED <<file, procs, config, modules, initialized, jobs, configs>>

(* esdm_scheduler_finalize(): g_thread_pool_free() waits for the threads.   *)
SchedulerFinalize ==
  /\ caller = "scheduler"
  /\ \A i \in DOMAIN jobs : Drained(i)
  /\ Free({o \in heap : o.what \in {"pool", "scheduler"}}, "performance")
  /\ UNCHANGED <<file, procs, config, modules, initialized, jobs, configs>>

PerformanceFinalize ==
  /\ caller = "performance"
  /\ Free(Of({"performance"}, 0), "layout")
  /\ UNCHANGED <<file, procs, config, modules, initialized, jobs, configs>>

LayoutFinalize ==
  /\ caller = "layout"
  /\ Free(Of({"layout"}, 0), "backends")
  /\ UNCHANGED <<file, procs, config, modules, initialized, jobs, configs>>

(* esdm_modules_finalize(): backends from the last to the first one ...     *)
BackendFinalize ==
  /\ caller = "backends" /\ modules \notin {None, <<>>}
  /\ LET i == Len(modules) IN
     /\ Free(Of(modules[i].frees, i), "backends")
     /\ modules' = SubSeq(modules, 1, i - 1)
     /\ jobs' = SubSeq(jobs, 1, i - 1)
  /\ UNCHANGED <<file, procs, config, initialized, configs>>

(* Mutant: the metadata backend stays.                                      *)
ModulesFinalizeOfData ==
  /\ caller = "backends" /\ modules \in {None, <<>>}
  /\ Free(Of({"modules", "data_backends"}, 0), "config")
  /\ modules' = None
  /\ UNCHANGED <<file, procs, config, initialized, jobs, configs>>

(* ... then the metadata backend (metadummy_finalize()).                    *)
ModulesFinalize ==
  /\ caller = "backends" /\ modules \in {None, <<>>}
  /\ Free(Of({"modules", "data_backends", "metadata", "coordinator"}, 0), "config")
  /\ modules' = None
  /\ UNCHANGED <<file, procs, config, initialized, jobs, configs>>

(* esdm_config_finalize(), and the instance is as in the beginning.         *)
ConfigFinalize ==
  /\ caller = "config"
  /\ Free(IF config = None THEN {} ELSE ConfigObjects(config.gen), "ready")
  /\ config' = None /\ procs' = DefaultProcs /\ initialized' = FALSE
  /\ UNCHANGED <<file, modules, jobs, configs>>

(* The user edits esdm.conf (once, after the first configuration).          *)
Edit(content) ==
  /\ Calls /\ ~initialized /\ file # content /\ configs = 1
  /\ file' = content
  /\ UNCHANGED <<procs, config, modules, initialized, heap, jobs, caller, configs>>

Amounts == UNION {[1..n -> 0..MaxJobs] : n \in 0..Max({0} \cup DOMAIN jobs)}

StartupNext ==
  \/ \E which \in {"perNode", "total"}, n \in ProcCounts : SetProcs(which, n)
  \/ \E doc \in Documents : LoadConfigStr(doc) \/ Edit(doc)
  \/ InitLoaded \/ InitFromFile
  \/ \E amount \in Amounts : Request(amount)
  \/ GetModules \/ WriteGridFragment \/ RequestReturn
  \/ \E i \in DOMAIN jobs : TakeJob(i) \/ ReportJob(i) \/ LeaveJob(i)
  \/ Finalize \/ SchedulerFinalize \/ PerformanceFinalize \/ LayoutFinalize
  \/ BackendFinalize \/ ModulesFinalize \/ ConfigFinalize

StartupSpec == StartupInit /\ [][StartupNext]_startupVars

-----------------------------------------------------------------------------
(* What a thread or the instance uses is allocated: a thread has its        *)
(* backend, data, backend configuration and pool, all parts have the        *)
(* document, whose strings configurations only point to, and no part is     *)
(* used by the instance after it was freed.                                 *)
NoDangling ==
  LET Has(what, at) == \E o \in heap : o.what = what /\ o.gen = configs /\ o.at = at
  IN caller # "dead" =>
     /\ \A i \in DOMAIN jobs :
          ~Drained(i) => \A w \in {"backend", "data", "config", "pool"} : Has(w, i)
     /\ modules # None =>
          /\ \A w \in {"json", "modules", "coordinator", "metadata"} : Has(w, 0)
          /\ \A i \in DOMAIN modules : Has("backend", i) /\ Has("config", i)
     /\ config # None => Has("json", 0) /\ Has("esdm_config", 0)
     /\ initialized /\ Calls =>
          /\ modules # None /\ config # None
          /\ \A w \in {"scheduler", "layout", "performance"} : Has(w, 0)
          /\ \A i \in DOMAIN modules : modules[i].threads > 0 => Has("pool", i)

(* After esdm_finalize() nothing of the library is allocated, however often *)
(* it was started, apart from what the finalize functions of some backends  *)
(* leave: KDSA the backend and its configuration, PMEM and WOS their data   *)
(* as well.                                                                 *)
NothingLeft ==
  caller = "ready" /\ ~initialized =>
    \A o \in heap :
      \/ o.type = "KDSA" /\ o.what \in {"backend", "config"}
      \/ o.type \in {"PMEM", "WOS"} /\ o.what \in {"backend", "data", "config"}
      \/ config # None /\ o \in ConfigObjects(config.gen)

(* Nothing is used after it was freed, and nothing but what the backends   *)
(* never free is left when the library is finalised.                       *)
LifetimesKept == NoDangling /\ NothingLeft
=============================================================================
