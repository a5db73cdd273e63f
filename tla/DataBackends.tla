---------------------------- MODULE DataBackends ----------------------------
(***************************************************************************)
(* A data backend as esdmI_init_backend() makes it from the type in the    *)
(* configuration: one with a file or object per fragment (FileBackends),   *)
(* Motr (MotrObjects) or WOS (WosObjects).  KDSA has a module of its own,  *)
(* KdsaBlocks.                                                             *)
(***************************************************************************)
EXTENDS FileBackends, MotrObjects, WosObjects

VARIABLE type

vars == <<type, fileVars, motrVars, wosVars>>

(* A backend that is not in use rests in an initial state.                 *)
Init == /\ type \in {"file", "motr", "wos"}
        /\ FileInit /\ (type # "file" => kind = "DUMMY")
        /\ MotrInit /\ WosInit

UseFiles == type = "file" /\ FileNext /\ UNCHANGED <<type, motrVars, wosVars>>
UseMotr == type = "motr" /\ MotrNext /\ UNCHANGED <<type, fileVars, wosVars>>
UseWos == type = "wos" /\ WosNext /\ UNCHANGED <<type, fileVars, motrVars>>

Next == UseFiles \/ UseMotr \/ UseWos

Spec == Init /\ [][Next]_vars
=============================================================================
