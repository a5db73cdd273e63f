---------------------------- MODULE RequestStatus ----------------------------
(***************************************************************************)
(* One I/O request of the scheduler (esdm-scheduler.c): the user thread    *)
(* that initialises an io_request_status_t on its stack, hands one task    *)
(* per fragment to the backends, waits on the condition variable and       *)
(* finalises the status; and the backend threads that run the tasks and    *)
(* report back through the same status object.                             *)
(*                                                                         *)
(* The granularity is that of the synchronisation: every lock, unlock,     *)
(* atomic operation, wait and signal is a step of its own.  What a task    *)
(* does to its fragment is the business of Scheduler; here a task only     *)
(* succeeds or fails.                                                      *)
(***************************************************************************)
EXTENDS Integers, FiniteSets

CONSTANTS
    Tasks,       \* the fragments of a request, one io_work_t each
    Backends,    \* the data backends
    BackendOf,   \* fragment->backend of every task
    Threads,     \* backend->threads; 0 means: no pool, run in the caller
    User,        \* the thread that issued the request (as a mutex owner)
    Free         \* "nobody holds the mutex"

ASSUME StatusAssumption ==
    /\ IsFiniteSet(Tasks)
    /\ BackendOf \in [Tasks -> Backends]
    /\ Threads \in [Backends -> Nat]
    /\ User \notin Tasks
    /\ Free \notin Tasks
    /\ User # Free

VARIABLES
    pc,          \* where the user thread is
    op,          \* ESDM_OP_READ or ESDM_OP_WRITE, the kind of the request
    announced,   \* tasks already counted in status->pending_ops
    task,        \* where the execution of backend_thread(task) is
    result,      \* the local `ret` of backend_thread, per task
    alive,       \* the status is initialised and not yet finalised
    pending_ops, \* status->pending_ops
    return_code, \* status->return_code
    mutex        \* owner of status->mutex

vars == <<pc, op, announced, task, result, alive, pending_ops, return_code, mutex>>

Codes == {"success", "error"}

\* The tasks a backend's pool is executing.  A task of a backend without a
\* pool is executed by the user thread itself.
Running == {t \in Tasks : task[t] \in {"running", "callback", "lock", "critical", "release"}}
Busy(b) == {t \in Running : BackendOf[t] = b}
Pooled(t) == Threads[BackendOf[t]] > 0
Inline == {t \in Running : ~Pooled(t)}

Init ==
    /\ pc = "idle"
    /\ op = "read"
    /\ announced = {}
    /\ task = [t \in Tasks |-> "none"]
    /\ result = [t \in Tasks |-> "success"]
    /\ alive = FALSE
    /\ pending_ops = 0
    /\ return_code = "success"
    /\ mutex = Free

-----------------------------------------------------------------------------
(* The user thread.                                                        *)

\* esdm_scheduler_status_init(), at the start of a blocking read or write.
StatusInit ==
    /\ pc = "idle"
    /\ pc' = "enqueue"
    /\ op' \in {"read", "write"}
    /\ alive' = TRUE
    /\ pending_ops' = 0
    /\ return_code' = "success"
    /\ UNCHANGED <<announced, task, result, mutex>>

\* A task is handed over when its pool or the caller has it.
Issued(t) == task[t] # "none"

\* esdm_scheduler_enqueue_read() counts all fragments before the first push.
AnnounceRead ==
    /\ pc = "enqueue" /\ op = "read" /\ announced = {}
    /\ announced' = Tasks
    /\ pending_ops' = pending_ops + Cardinality(Tasks)
    /\ UNCHANGED <<pc, op, task, result, alive, return_code, mutex>>

\* esdmI_scheduler_writeFragmentNonblocking() counts each fragment just before
\* it pushes it.
AnnounceWrite(t) ==
    /\ pc = "enqueue" /\ op = "write"
    /\ t \notin announced
    /\ \A u \in announced : Issued(u)
    /\ Inline = {}
    /\ announced' = announced \cup {t}
    /\ pending_ops' = pending_ops + 1
    /\ UNCHANGED <<pc, op, task, result, alive, return_code, mutex>>

\* g_thread_pool_push(), or the direct call of backend_thread() when the
\* backend has no threads: the caller then is busy until the task is over.
Push(t) ==
    /\ pc = "enqueue"
    /\ t \in announced /\ ~Issued(t)
    /\ Inline = {}
    /\ task' = [task EXCEPT ![t] = IF Pooled(t) THEN "queued" ELSE "running"]
    /\ UNCHANGED <<pc, op, announced, result, alive, pending_ops, return_code, mutex>>

\* The enqueue loop is over.
EndEnqueue ==
    /\ pc = "enqueue"
    /\ announced = Tasks
    /\ \A t \in Tasks : Issued(t)
    /\ Inline = {}
    /\ pc' = "lock"
    /\ UNCHANGED <<op, announced, task, result, alive, pending_ops, return_code, mutex>>

\* Mutant: the caller does not lock when nothing is pending.
WaitLockShortcut ==
    /\ pc = "lock"
    /\ IF pending_ops = 0
       THEN pc' = "finalize" /\ UNCHANGED mutex
       ELSE mutex = Free /\ mutex' = User /\ pc' = "check"
    /\ UNCHANGED <<op, announced, task, result, alive, pending_ops, return_code>>

\* esdm_scheduler_wait(): g_mutex_lock(), also when g_cond_wait() returns.
WaitLock ==
    /\ pc = "lock" /\ mutex = Free
    /\ mutex' = User
    /\ pc' = "check"
    /\ UNCHANGED <<op, announced, task, result, alive, pending_ops, return_code>>

\* Mutant: the waiting caller polls the counter and keeps the mutex meanwhile.
WaitCheckPolls ==
    /\ pc = "check"
    /\ pc' = IF pending_ops # 0 THEN "check" ELSE "unlock"
    /\ UNCHANGED <<op, announced, task, result, alive, pending_ops, return_code, mutex>>

\* ... while (atomic_load(&status->pending_ops)) g_cond_wait(...);
WaitCheck ==
    /\ pc = "check"
    /\ IF pending_ops # 0
       THEN pc' = "sleep" /\ mutex' = Free
       ELSE pc' = "unlock" /\ UNCHANGED mutex
    /\ UNCHANGED <<op, announced, task, result, alive, pending_ops, return_code>>

\* g_cond_wait() may return without a signal.
SpuriousWakeup ==
    /\ pc = "sleep"
    /\ pc' = "lock"
    /\ UNCHANGED <<op, announced, task, result, alive, pending_ops, return_code, mutex>>

\* ... g_mutex_unlock().
WaitUnlock ==
    /\ pc = "unlock"
    /\ mutex' = Free
    /\ pc' = "finalize"
    /\ UNCHANGED <<op, announced, task, result, alive, pending_ops, return_code>>

\* esdm_scheduler_status_finalize(); the caller then reads status.return_code
\* and leaves the stack frame that holds the status.
StatusFinalize ==
    /\ pc = "finalize"
    /\ alive' = FALSE
    /\ pc' = "done"
    /\ UNCHANGED <<op, announced, task, result, pending_ops, return_code, mutex>>

\* The application goes on to its next request, on a fresh status.
NextRequest ==
    /\ pc = "done"
    /\ pc' = "idle"
    /\ announced' = {}
    /\ task' = [t \in Tasks |-> "none"]
    /\ result' = [t \in Tasks |-> "success"]
    /\ UNCHANGED <<op, alive, pending_ops, return_code, mutex>>

-----------------------------------------------------------------------------
(* backend_thread(), run by a pool thread or inline by the user thread.    *)

\* A pool thread of the task's backend takes the task.
Start(t) ==
    /\ task[t] = "queued"
    /\ Cardinality(Busy(BackendOf[t])) < Threads[BackendOf[t]]
    /\ task' = [task EXCEPT ![t] = "running"]
    /\ UNCHANGED <<pc, op, announced, result, alive, pending_ops, return_code, mutex>>

\* esdm_fragment_load() or esdm_fragment_commit(); either may fail.
Operate(t) ==
    /\ task[t] = "running"
    /\ \E c \in Codes : result' = [result EXCEPT ![t] = c]
    /\ task' = [task EXCEPT ![t] = "callback"]
    /\ UNCHANGED <<pc, op, announced, alive, pending_ops, return_code, mutex>>

\* work->callback(work): the last access to the caller's buffer.
Callback(t) ==
    /\ task[t] = "callback"
    /\ task' = [task EXCEPT ![t] = "lock"]
    /\ UNCHANGED <<pc, op, announced, result, alive, pending_ops, return_code, mutex>>

\* g_mutex_lock(&status->mutex).
Lock(t) ==
    /\ task[t] = "lock" /\ mutex = Free
    /\ mutex' = t
    /\ task' = [task EXCEPT ![t] = "critical"]
    /\ UNCHANGED <<pc, op, announced, result, alive, pending_ops, return_code>>

\* Mutants of the critical section: the signal is tied to the new value of the
\* counter instead of the old one; the last code wins; failed tasks stay counted.
FinishSignalsLate(t) ==
    /\ task[t] = "critical"
    /\ pending_ops' = pending_ops - 1
    /\ return_code' = IF result[t] # "success" THEN result[t] ELSE return_code
    /\ pc' = IF pending_ops = 0 /\ pc = "sleep" THEN "lock" ELSE pc
    /\ task' = [task EXCEPT ![t] = "release"]
    /\ UNCHANGED <<op, announced, result, alive, mutex>>
FinishLastCode(t) ==
    /\ task[t] = "critical"
    /\ pending_ops' = pending_ops - 1
    /\ return_code' = result[t]
    /\ pc' = IF pending_ops = 1 /\ pc = "sleep" THEN "lock" ELSE pc
    /\ task' = [task EXCEPT ![t] = "release"]
    /\ UNCHANGED <<op, announced, result, alive, mutex>>
FinishSuccessOnly(t) ==
    /\ task[t] = "critical"
    /\ pending_ops' = IF result[t] = "success" THEN pending_ops - 1 ELSE pending_ops
    /\ return_code' = IF result[t] # "success" THEN result[t] ELSE return_code
    /\ pc' = IF pending_ops = 1 /\ pc = "sleep" THEN "lock" ELSE pc
    /\ task' = [task EXCEPT ![t] = "release"]
    /\ UNCHANGED <<op, announced, result, alive, mutex>>

\* The critical section: atomic_fetch_sub(), the error code, and the signal
\* when the counter was 1, which wakes the user thread if it sleeps.
Finish(t) ==
    /\ task[t] = "critical"
    /\ pending_ops' = pending_ops - 1
    /\ return_code' = IF result[t] # "success" THEN result[t] ELSE return_code
    /\ pc' = IF pending_ops = 1 /\ pc = "sleep" THEN "lock" ELSE pc
    /\ task' = [task EXCEPT ![t] = "release"]
    /\ UNCHANGED <<op, announced, result, alive, mutex>>

\* g_mutex_unlock(&status->mutex); free(work).
Unlock(t) ==
    /\ task[t] = "release"
    /\ mutex' = Free
    /\ task' = [task EXCEPT ![t] = "freed"]
    /\ UNCHANGED <<pc, op, announced, result, alive, pending_ops, return_code>>

-----------------------------------------------------------------------------

UserStep ==
    \/ StatusInit
    \/ AnnounceRead
    \/ \E t \in Tasks : AnnounceWrite(t)
    \/ \E t \in Tasks : Push(t)
    \/ EndEnqueue
    \/ WaitLock
    \/ WaitCheck
    \/ WaitUnlock
    \/ StatusFinalize
    \/ NextRequest

BackendStep(t) ==
    \/ Start(t)
    \/ Operate(t)
    \/ Callback(t)
    \/ Lock(t)
    \/ Finish(t)
    \/ Unlock(t)

Next == UserStep \/ SpuriousWakeup \/ \E t \in Tasks : BackendStep(t)

Spec == Init /\ [][Next]_vars

\* The user thread runs, a backend operation ends, a pool thread that has
\* nothing else to do takes a queued task, and a task that asks for the mutex
\* again and again gets it although the user thread may keep waking up.
Fairness ==
    /\ WF_vars(UserStep)
    /\ \A t \in Tasks : WF_vars(BackendStep(t)) /\ SF_vars(Lock(t))

FairSpec == Spec /\ Fairness

-----------------------------------------------------------------------------
(* Properties.                                                             *)

TaskStates == {"none", "queued", "running", "callback", "lock", "critical",
               "release", "freed"}

\* The type invariant.  The counter is an integer here and never negative by
\* PendingOpsExact; backend_thread() asserts as much (eassert(pendings >= 1)).
TypeOK ==
    /\ pc \in {"idle", "enqueue", "lock", "check", "sleep", "unlock", "finalize", "done"}
    /\ op \in {"read", "write"}
    /\ announced \in SUBSET Tasks
    /\ task \in [Tasks -> TaskStates]
    /\ result \in [Tasks -> Codes]
    /\ alive \in BOOLEAN
    /\ pending_ops \in Int
    /\ return_code \in Codes
    /\ mutex \in Tasks \cup {User, Free}

\* Tasks that are counted and have not left the counter again.
Outstanding == {t \in announced : task[t] \notin {"release", "freed"}}

\* While a status is in use its pending_ops is exactly the number of tasks that
\* still have to report, although enqueue and the workers change it concurrently;
\* so the eassert(pendings >= 1) of backend_thread() never fires.
PendingOpsExact == alive => pending_ops = Cardinality(Outstanding)

\* Every task that was handed over and is not yet through with backend_thread()
\* finds the status object, which lives on the caller's stack, still alive: the
\* waiting caller cannot finalise it between a worker's signal and its unlock.
NoUseAfterFinalize ==
    \A t \in Tasks : task[t] \notin {"none", "freed"} => alive

\* No lost wakeup: the caller never sleeps in g_cond_wait() when no task is left
\* that would signal it.
NoLostWakeup == pc = "sleep" => Outstanding # {}

\* When the caller reads status.return_code, it is an error code exactly if some
\* task of the request failed: no error is lost, whatever the order of the tasks.
ErrorReported ==
    pc = "done" => (return_code = "error" <=> \E t \in Tasks : result[t] = "error")

\* A pool never runs more tasks than it has threads, and the caller runs at most
\* one task itself, never while it is waiting for the others.
ThreadBound ==
    /\ \A b \in Backends : Threads[b] > 0 => Cardinality(Busy(b)) <= Threads[b]
    /\ \A t, u \in Inline : t = u
    /\ Inline # {} => pc = "enqueue"

\* The inductive invariant behind the safety properties: who holds the mutex,
\* which phase of the user thread knows what about the tasks, and what the
\* counter and the error code have accumulated so far.
IndInv ==
    /\ TypeOK
    /\ alive <=> pc \notin {"idle", "done"}
    /\ PendingOpsExact
    /\ \A t \in Tasks : Issued(t) => t \in announced
    /\ pc = "idle" => announced = {}
    /\ pc \notin {"idle", "enqueue"} => \A t \in Tasks : Issued(t)
    /\ \A t \in Tasks : mutex = t <=> task[t] \in {"critical", "release"}
    /\ mutex = User <=> pc \in {"check", "unlock"}
    /\ pc \in {"unlock", "finalize", "done"} => \A t \in Tasks : task[t] = "freed"
    /\ NoLostWakeup
    /\ pc # "idle" =>
         (return_code = "error" <=>
            \E t \in Tasks : task[t] \in {"release", "freed"} /\ result[t] = "error")
    /\ ThreadBound

\* Every request that is started returns, on every mix of pooled and inline
\* backends and with failing tasks and spurious wakeups.
RequestReturns == (pc = "enqueue") ~> (pc = "done")
=============================================================================
