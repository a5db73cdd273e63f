--------------------------- MODULE MCDataBackends ---------------------------
(* Two fragments of one dataset, of different sizes.  Two ids share a      *)
(* directory of the file system; two processes use Motr.                   *)
EXTENDS DataBackends, TLC

CONSTANTS f1, f2, dset

MCDirOf == [i \in Ids |-> "dir"]
MCDatasetOf == [f \in Frags |-> dset]
MCSizeOf == f1 :> 1 @@ f2 :> 2
MCBytesOf == f1 :> 1 @@ f2 :> 2 @@ Check :> 1

Symmetry == Permutations(Procs)
=============================================================================
