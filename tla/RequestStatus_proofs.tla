------------------------- MODULE RequestStatus_proofs -------------------------
(***************************************************************************)
(* The safety of a request for every number of tasks, backends and         *)
(* threads: IndInv is inductive and implies the invariants that TLC checks *)
(* on one instance.                                                        *)
(***************************************************************************)
EXTENDS RequestStatus, FiniteSetTheorems, TLAPS

\* The sets that are counted are finite.
LEMMA FiniteSets ==
    ASSUME TypeOK
    PROVE  /\ IsFiniteSet(Outstanding)
           /\ Cardinality(Outstanding) \in Nat
           /\ Cardinality(Outstanding) = 0 <=> Outstanding = {}
           /\ \A b \in Backends : IsFiniteSet(Busy(b)) /\ Cardinality(Busy(b)) \in Nat
<1>1. Outstanding \in SUBSET Tasks
  BY DEF Outstanding, TypeOK
<1>2. ASSUME NEW b \in Backends
      PROVE  IsFiniteSet(Busy(b)) /\ Cardinality(Busy(b)) \in Nat
  <2>1. Busy(b) \in SUBSET Tasks
    BY DEF Busy, Running
  <2>2. QED
    BY <2>1, FS_Subset, FS_CardinalityType, StatusAssumption
<1>3. IsFiniteSet(Outstanding)
  BY <1>1, FS_Subset, StatusAssumption
<1>4. QED
  BY <1>2, <1>3, FS_EmptySet, FS_CardinalityType

\* A step that leaves every task alone, or moves one between two states in which
\* it occupies a thread, does not change who occupies one.
LEMMA SameThreads ==
    ASSUME ThreadBound, Running' = Running, pc = "enqueue" => (pc' = "enqueue" \/ Inline = {})
    PROVE  ThreadBound'
<1>1. Inline' = Inline /\ \A b : Busy(b)' = Busy(b)
  BY DEF Inline, Busy, Pooled
<1>2. QED
  BY <1>1 DEF ThreadBound

\* The initial state satisfies the inductive invariant.
LEMMA InitInd == Init => IndInv
<1> SUFFICES ASSUME Init PROVE IndInv
  OBVIOUS
<1>1. Outstanding = {} /\ Running = {}
  BY DEF Init, Outstanding, Running
<1>2. TypeOK
  <2>1. alive \in BOOLEAN
    BY Zenon DEF Init
  <2>2. QED
    BY <2>1 DEF Init, TypeOK, TaskStates, Codes
<1>3. ThreadBound
  <2>1. Inline = {} /\ \A b \in Backends : Busy(b) = {}
    BY <1>1 DEF Inline, Busy
  <2>2. QED
    BY <2>1, FS_EmptySet, StatusAssumption DEF ThreadBound
<1>4. QED
  BY <1>1, <1>2, <1>3, StatusAssumption
     DEF Init, IndInv, PendingOpsExact, NoLostWakeup, Issued

\* The steps of the user thread preserve it.
LEMMA UserInd ==
    ASSUME IndInv, UserStep \/ SpuriousWakeup
    PROVE  IndInv'
<1> USE StatusAssumption
<1>0. TypeOK /\ ThreadBound
  BY DEF IndInv
<1>a. TypeOK'
  <2>1. Cardinality(Tasks) \in Nat
    BY FS_CardinalityType
  <2>2. alive' \in BOOLEAN
    BY <1>0, Zenon DEF TypeOK, UserStep, SpuriousWakeup, StatusInit, AnnounceRead,
       AnnounceWrite, Push, EndEnqueue, WaitLock, WaitCheck, WaitUnlock, StatusFinalize,
       NextRequest
  <2>3. CASE StatusInit \/ AnnounceRead
    BY <1>0, <2>1, <2>2, <2>3 DEF TypeOK, Codes, StatusInit, AnnounceRead
  <2>4. ASSUME NEW t \in Tasks, AnnounceWrite(t) \/ Push(t) PROVE TypeOK'
    BY <1>0, <2>2, <2>4 DEF TypeOK, TaskStates, AnnounceWrite, Push
  <2>5. CASE EndEnqueue \/ WaitLock \/ WaitCheck \/ SpuriousWakeup
    BY <1>0, <2>2, <2>5 DEF TypeOK, EndEnqueue, WaitLock, WaitCheck, SpuriousWakeup
  <2>6. CASE WaitUnlock \/ StatusFinalize
    BY <1>0, <2>2, <2>6 DEF TypeOK, WaitUnlock, StatusFinalize
  <2>7. CASE NextRequest
    BY <1>0, <2>2, <2>7 DEF TypeOK, NextRequest, TaskStates, Codes
  <2>8. QED
    BY <2>3, <2>4, <2>5, <2>6, <2>7 DEF UserStep
<1>f. /\ IsFiniteSet(Outstanding)
      /\ Cardinality(Outstanding) \in Nat
      /\ Cardinality(Outstanding) = 0 <=> Outstanding = {}
  BY <1>0, FiniteSets
<1>1. CASE StatusInit
  <2>1. Running' = Running /\ Outstanding = {} /\ Outstanding' = {}
    BY <1>1 DEF StatusInit, Running, Outstanding, IndInv
  <2>2. ThreadBound'
    BY <1>0, <1>1, <2>1, SameThreads DEF StatusInit
  <2>3. QED
    BY <1>a, <1>1, <2>1, <2>2, FS_EmptySet
       DEF StatusInit, IndInv, PendingOpsExact, NoLostWakeup, Issued
<1>2. CASE AnnounceRead
  <2>1. Running' = Running /\ Outstanding = {} /\ Outstanding' = Tasks
    BY <1>0, <1>2 DEF AnnounceRead, Running, Outstanding, IndInv, Issued, TypeOK
  <2>2. ThreadBound'
    BY <1>0, <1>2, <2>1, SameThreads DEF AnnounceRead
  <2>3. PendingOpsExact'
    BY <1>2, <2>1, FS_EmptySet, FS_CardinalityType DEF AnnounceRead, IndInv, PendingOpsExact
  <2>4. QED
    BY <1>a, <1>2, <2>2, <2>3 DEF AnnounceRead, IndInv, NoLostWakeup, Issued
<1>3. ASSUME NEW t \in Tasks, AnnounceWrite(t) PROVE IndInv'
  <2>1. Running' = Running /\ t \notin Outstanding /\ Outstanding' = Outstanding \cup {t}
    BY <1>0, <1>3 DEF AnnounceWrite, Running, Outstanding, IndInv, Issued, TypeOK
  <2>2. ThreadBound'
    BY <1>0, <1>3, <2>1, SameThreads DEF AnnounceWrite
  <2>3. PendingOpsExact'
    <3>1. Cardinality(Outstanding') = Cardinality(Outstanding) + 1
      BY Zenon, <1>f, <2>1, FS_AddElement
    <3>2. QED
      BY <1>3, <3>1 DEF AnnounceWrite, IndInv, PendingOpsExact
  <2>4. QED
    BY <1>a, <1>3, <2>2, <2>3 DEF AnnounceWrite, IndInv, NoLostWakeup, Issued
<1>4. ASSUME NEW t \in Tasks, Push(t) PROVE IndInv'
  <2>1. Outstanding' = Outstanding
    BY <1>0, <1>4 DEF Push, Outstanding, IndInv, Issued, TypeOK
  <2>2. ThreadBound'
    <3>1. CASE Pooled(t)
      <4>1. Running' = Running
        BY <1>0, <1>4, <3>1 DEF Push, Running, Issued, TypeOK
      <4>2. QED
        BY <1>0, <1>4, <4>1, SameThreads DEF Push
    <3>2. CASE ~Pooled(t)
      <4>1. Running' = Running \cup {t}
        BY <1>0, <1>4, <3>2 DEF Push, Running, Issued, TypeOK
      <4>2. Inline' = {t}
        BY <1>4, <3>2, <4>1 DEF Push, Inline, Pooled
      <4>3. \A b \in Backends : Threads[b] > 0 => Busy(b)' = Busy(b)
        BY <3>2, <4>1 DEF Busy, Pooled
      <4>4. QED
        BY <1>0, <1>4, <4>2, <4>3 DEF ThreadBound, Push
    <3>3. QED
      BY <3>1, <3>2
  <2>3. QED
    BY <1>0, <1>a, <1>4, <2>1, <2>2
       DEF Push, IndInv, NoLostWakeup, Issued, PendingOpsExact, TypeOK, TaskStates
<1>5. CASE EndEnqueue
  <2>1. Running' = Running /\ Outstanding' = Outstanding
    BY <1>5 DEF EndEnqueue, Running, Outstanding
  <2>2. ThreadBound'
    BY <1>0, <1>5, <2>1, SameThreads DEF EndEnqueue
  <2>3. QED
    BY <1>a, <1>5, <2>1, <2>2 DEF EndEnqueue, IndInv, NoLostWakeup, Issued, PendingOpsExact
<1>6. CASE WaitLock \/ SpuriousWakeup
  <2>1. Running' = Running /\ Outstanding' = Outstanding
    BY <1>6 DEF WaitLock, SpuriousWakeup, Running, Outstanding
  <2>2. ThreadBound'
    BY <1>0, <1>6, <2>1, SameThreads DEF WaitLock, SpuriousWakeup
  <2>3. QED
    BY <1>a, <1>6, <2>1, <2>2
       DEF WaitLock, SpuriousWakeup, IndInv, NoLostWakeup, Issued, PendingOpsExact
<1>7. CASE WaitCheck
  <2>1. Running' = Running /\ Outstanding' = Outstanding
    BY <1>7 DEF WaitCheck, Running, Outstanding
  <2>2. ThreadBound'
    BY <1>0, <1>7, <2>1, SameThreads DEF WaitCheck
  <2>3. pending_ops = Cardinality(Outstanding)
    BY <1>7 DEF WaitCheck, IndInv, PendingOpsExact
  <2>4. NoLostWakeup' /\ PendingOpsExact'
    BY <1>7, <1>f, <2>1, <2>3 DEF WaitCheck, NoLostWakeup, PendingOpsExact, IndInv
  \* The user thread holds the mutex, so no worker is between its decrement
  \* and its unlock: a task that has left the counter is through.
  <2>5. pending_ops = 0 => \A t \in Tasks : task[t] = "freed"
    BY <1>7, <1>f, <2>3 DEF WaitCheck, IndInv, Outstanding, Issued
  <2>6. QED
    BY <1>a, <1>7, <2>2, <2>4, <2>5 DEF WaitCheck, IndInv, Issued
<1>8. CASE WaitUnlock \/ StatusFinalize
  <2>1. Running' = Running /\ Outstanding' = Outstanding
    BY <1>8 DEF WaitUnlock, StatusFinalize, Running, Outstanding
  <2>2. ThreadBound'
    BY <1>0, <1>8, <2>1, SameThreads DEF WaitUnlock, StatusFinalize
  <2>3. QED
    BY <1>a, <1>8, <2>1, <2>2
       DEF WaitUnlock, StatusFinalize, IndInv, NoLostWakeup, Issued, PendingOpsExact
<1>9. CASE NextRequest
  <2>1. Running' = Running
    BY <1>9 DEF NextRequest, Running, IndInv
  <2>2. ThreadBound'
    BY <1>0, <1>9, <2>1, SameThreads DEF NextRequest
  <2>3. QED
    BY <1>a, <1>9, <2>1, <2>2 DEF NextRequest, IndInv, NoLostWakeup, Issued, PendingOpsExact
<1>10. QED
  BY <1>1, <1>2, <1>3, <1>4, <1>5, <1>6, <1>7, <1>8, <1>9 DEF UserStep

\* The steps of backend_thread() preserve it.
LEMMA BackendInd ==
    ASSUME IndInv, NEW t \in Tasks, BackendStep(t)
    PROVE  IndInv'
<1> USE StatusAssumption
<1>0. TypeOK /\ ThreadBound
  BY DEF IndInv
<1>a. TypeOK'
  BY <1>0 DEF TypeOK, TaskStates, Codes, BackendStep, Start, Operate, Callback, Lock,
     Finish, Unlock
<1>f. /\ IsFiniteSet(Outstanding)
      /\ Cardinality(Outstanding) \in Nat
      /\ Cardinality(Outstanding) = 0 <=> Outstanding = {}
      /\ \A b \in Backends : IsFiniteSet(Busy(b)) /\ Cardinality(Busy(b)) \in Nat
  BY <1>0, FiniteSets
<1>1. CASE Start(t)
  <2>1. Outstanding' = Outstanding /\ Running' = Running \cup {t} /\ t \notin Running
    BY <1>0, <1>1 DEF Start, Outstanding, Running, TypeOK
  <2>2. Pooled(t) /\ BackendOf[t] \in Backends
    BY <1>1, <1>f DEF Start, Pooled
  <2>3. Inline' = Inline
    BY <2>1, <2>2 DEF Inline, Pooled
  <2>4. ASSUME NEW b \in Backends, Threads[b] > 0
        PROVE  Cardinality(Busy(b)') <= Threads[b]
    <3>1. CASE BackendOf[t] = b
      <4>1. Busy(b)' = Busy(b) \cup {t} /\ t \notin Busy(b)
        BY <2>1, <3>1 DEF Busy
      <4>2. Cardinality(Busy(b)') = Cardinality(Busy(b)) + 1
        BY Zenon, <1>f, <4>1, FS_AddElement
      <4>3. QED
        BY <1>1, <1>f, <3>1, <4>2 DEF Start
    <3>2. CASE BackendOf[t] # b
      <4>1. Busy(b)' = Busy(b)
        BY <2>1, <3>2 DEF Busy
      <4>2. QED
        BY <1>0, <2>4, <4>1 DEF ThreadBound
    <3>3. QED
      BY <3>1, <3>2
  <2>5. ThreadBound'
    BY <1>0, <1>1, <2>3, <2>4 DEF ThreadBound, Start
  <2>6. QED
    BY <1>0, <1>a, <1>1, <2>1, <2>5
       DEF Start, IndInv, NoLostWakeup, Issued, PendingOpsExact, TypeOK, TaskStates
<1>2. CASE Operate(t) \/ Callback(t)
  <2>1. Outstanding' = Outstanding /\ Running' = Running
    BY <1>0, <1>2 DEF Operate, Callback, Outstanding, Running, TypeOK
  <2>2. ThreadBound'
    BY <1>0, <1>2, <2>1, SameThreads DEF Operate, Callback
  <2>3. QED
    BY <1>0, <1>a, <1>2, <2>1, <2>2
       DEF Operate, Callback, IndInv, NoLostWakeup, Issued, PendingOpsExact, TypeOK, TaskStates
<1>3. CASE Lock(t)
  <2>1. Outstanding' = Outstanding /\ Running' = Running
    BY <1>0, <1>3 DEF Lock, Outstanding, Running, TypeOK
  <2>2. ThreadBound'
    BY <1>0, <1>3, <2>1, SameThreads DEF Lock
  <2>3. QED
    BY <1>0, <1>a, <1>3, <2>1, <2>2
       DEF Lock, IndInv, NoLostWakeup, Issued, PendingOpsExact, TypeOK, TaskStates
<1>4. CASE Finish(t)
  <2>1. /\ t \in Outstanding
        /\ Outstanding' = Outstanding \ {t}
        /\ Running' = Running
        /\ alive
    BY <1>0, <1>4 DEF Finish, Outstanding, Running, TypeOK, IndInv, Issued
  <2>2. ThreadBound'
    BY <1>0, <1>4, <2>1, SameThreads DEF Finish
  <2>3. Cardinality(Outstanding') = Cardinality(Outstanding) - 1
    BY Zenon, <1>f, <2>1, FS_RemoveElement
  <2>4. PendingOpsExact'
    BY <1>4, <2>1, <2>3 DEF Finish, IndInv, PendingOpsExact
  \* The worker that takes the counter to 0 wakes the sleeper.
  <2>5. NoLostWakeup'
    <3>1. SUFFICES ASSUME pc' = "sleep" PROVE Outstanding' # {}
      BY DEF NoLostWakeup
    <3>2. pending_ops = Cardinality(Outstanding) /\ pending_ops # 1
      BY <1>4, <2>1, <3>1 DEF Finish, IndInv, PendingOpsExact
    <3>3. Cardinality(Outstanding') # 0
      BY <1>f, <2>3, <3>2
    <3>4. Cardinality({}) = 0
      BY FS_EmptySet
    <3>5. QED
      BY <3>3, <3>4
  <2>6. QED
    BY <1>0, <1>a, <1>4, <2>1, <2>2, <2>4, <2>5
       DEF Finish, IndInv, Issued, TypeOK, TaskStates, Codes
<1>5. CASE Unlock(t)
  <2>1. Outstanding' = Outstanding /\ Running' = Running \ {t}
    BY <1>0, <1>5 DEF Unlock, Outstanding, Running, TypeOK
  <2>2. Inline' \subseteq Inline
    BY <2>1 DEF Inline, Pooled
  <2>3. ASSUME NEW b \in Backends, Threads[b] > 0
        PROVE  Cardinality(Busy(b)') <= Threads[b]
    <3>1. Busy(b)' \in SUBSET Busy(b)
      BY <2>1 DEF Busy
    <3>2. Cardinality(Busy(b)') <= Cardinality(Busy(b)) /\ Cardinality(Busy(b)') \in Nat
      BY <1>f, <3>1, FS_Subset, FS_CardinalityType
    <3>3. Cardinality(Busy(b)) <= Threads[b] /\ Threads[b] \in Nat
      BY <1>0, <2>3 DEF ThreadBound
    <3>4. QED
      BY <1>f, <3>2, <3>3
  <2>4. ThreadBound'
    BY <1>0, <1>5, <2>2, <2>3 DEF ThreadBound, Unlock
  <2>5. QED
    BY <1>0, <1>a, <1>5, <2>1, <2>4
       DEF Unlock, IndInv, NoLostWakeup, Issued, PendingOpsExact, TypeOK, TaskStates
<1>6. QED
  BY <1>1, <1>2, <1>3, <1>4, <1>5 DEF BackendStep

\* IndInv holds in every reachable state.
THEOREM Inductive == Spec => []IndInv
<1>1. IndInv /\ [Next]_vars => IndInv'
  <2> SUFFICES ASSUME IndInv, [Next]_vars PROVE IndInv'
    OBVIOUS
  <2>1. CASE UserStep \/ SpuriousWakeup
    BY <2>1, UserInd
  <2>2. ASSUME NEW t \in Tasks, BackendStep(t) PROVE IndInv'
    BY <2>2, BackendInd
  <2>3. CASE UNCHANGED vars
    BY <2>3 DEF vars, IndInv, TypeOK, PendingOpsExact, Outstanding, Issued, NoLostWakeup,
       ThreadBound, Busy, Inline, Running, Pooled
  <2>4. QED
    BY <2>1, <2>2, <2>3 DEF Next
<1>2. QED
  BY <1>1, InitInd, PTL DEF Spec

\* The type invariant of a request.
THEOREM TypeCorrect == Spec => []TypeOK
<1>1. IndInv => TypeOK
  BY DEF IndInv
<1>2. QED
  BY <1>1, Inductive, PTL

\* pending_ops counts the outstanding tasks exactly, in every interleaving of the
\* enqueue loop with any number of backend threads.
THEOREM PendingExact == Spec => []PendingOpsExact
<1>1. IndInv => PendingOpsExact
  BY DEF IndInv
<1>2. QED
  BY <1>1, Inductive, PTL

\* esdm_scheduler_wait() never returns while a backend thread still has to use the
\* io_request_status_t on the caller's stack.
THEOREM StatusOutlivesTasks == Spec => []NoUseAfterFinalize
<1>1. IndInv => NoUseAfterFinalize
  BY DEF IndInv, NoUseAfterFinalize, Issued
<1>2. QED
  BY <1>1, Inductive, PTL

\* The caller never sleeps without a task that will signal it.
THEOREM WakeupNotLost == Spec => []NoLostWakeup
<1>1. IndInv => NoLostWakeup
  BY DEF IndInv
<1>2. QED
  BY <1>1, Inductive, PTL

\* The return code of a request tells whether one of its tasks failed.
THEOREM ErrorNotLost == Spec => []ErrorReported
<1>1. IndInv => ErrorReported
  BY DEF IndInv, ErrorReported
<1>2. QED
  BY <1>1, Inductive, PTL

\* No pool runs more tasks than it has threads.
THEOREM ThreadsRespected == Spec => []ThreadBound
<1>1. IndInv => ThreadBound
  BY DEF IndInv
<1>2. QED
  BY <1>1, Inductive, PTL
=============================================================================
