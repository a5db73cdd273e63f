--------------------------- MODULE MCRequestStatus ---------------------------
(***************************************************************************)
(* A request of four tasks: three on a backend with two threads, so that   *)
(* one has to queue, and one on a backend that runs in the caller.         *)
(***************************************************************************)
EXTENDS RequestStatus

CONSTANTS t1, t2, t3, t4, posix, dummy

MCTasks == {t1, t2, t3, t4}
MCBackends == {posix, dummy}
MCBackendOf == [t \in MCTasks |-> IF t = t4 THEN dummy ELSE posix]
MCThreads == [b \in MCBackends |-> IF b = posix THEN 2 ELSE 0]
=============================================================================
