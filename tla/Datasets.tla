------------------------------ MODULE Datasets ------------------------------
(***************************************************************************)
(* What the library keeps of a dataset: its metadata in the files of the   *)
(* container (Containers), and its grids in the processes of an MPI        *)
(* program (Grids).  A behaviour is one of one part; the other rests.      *)
(***************************************************************************)
EXTENDS Containers

CONSTANTS Procs, GridNames, DomainOf, Space, Boxes, Plain, Refined, MaxDepth, MaxFailures

VARIABLES part, gs, list, count, table, alive, failures, partial

gridVars == <<gs, list, count, table, alive, failures, partial>>

Grid == INSTANCE Grids WITH Names <- GridNames

DatasetsInit == part \in {"metadata", "grids"} /\ Init /\ Grid!Init

MetadataStep == part = "metadata" /\ Next /\ UNCHANGED <<part, gridVars>>

GridStep == part = "grids" /\ Grid!Next /\ UNCHANGED <<part, vars>>

DatasetsNext == MetadataStep \/ GridStep

DatasetsSpec == DatasetsInit /\ [][DatasetsNext]_<<part, vars, gridVars>>

-----------------------------------------------------------------------------
(* A grid counts as complete exactly when every cell has data; a region is *)
(* then served by exactly the fragments that overlap with it, and an       *)
(* iterator returns all cells, see Grids.                                  *)
GridsExact ==
  part = "grids" => Grid!CompletionExact /\ Grid!RegionServed /\ Grid!IteratorExact

(* The copies of a grid in several processes have the same cells, see      *)
(* Grids.                                                                  *)
CopiesAgree == part = "grids" => Grid!CopiesAgree

(* No assertion of esdm-grid.c ends the program, see Grids.                *)
NoAbort == Grid!NoAbort
=============================================================================
