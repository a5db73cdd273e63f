----------------------------- MODULE MCDatasets -----------------------------
(***************************************************************************)
(* Containers: two datasets of one container and one shape of fragments; a *)
(* dataset can be changed, committed, closed and opened while the other    *)
(* one is in any other state.  Names and ids are only compared.            *)
(*                                                                         *)
(* Grids: two processes and a dataset of 2 x 2 elements; one grid for all  *)
(* of it and one for its lower half.                                       *)
(***************************************************************************)
EXTENDS Datasets, TLC

Symmetry == Permutations(Names) \cup Permutations(Ids)

MCSpace == <<<<0, 2>>, <<0, 2>>>>
MCDomainOf == [n \in GridNames |-> IF n = "g" THEN MCSpace ELSE <<<<1, 2>>, <<0, 2>>>>]
MCIntervals == {<<0, 1>>, <<1, 2>>, <<0, 2>>}
MCBoxes == MCIntervals \X MCIntervals
MCRefined == {<<<<0, 1>>, <<0, 2>>>>}
MCPlain == {<<<<0, 1>>, <<0, 2>>>>}

(* Two grids in one process without failures, or one grid in two processes *)
(* with failures.                                                          *)
Scenarios == Len(list[0]) <= 1 \/ (failures = 0 /\ gs[1] = <<>> /\ table[1] = <<>>)
=============================================================================
