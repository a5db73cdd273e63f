---------------------------- MODULE WriteOnceStore ----------------------------
(***************************************************************************)
(* What the data path of a dataset promises to its users: hypercubes of    *)
(* data are put once and never change, and a read answers every element    *)
(* with the data of a hypercube that contains it, or with the fill value   *)
(* where there is none.  Scheduler is shown to implement it as long as the *)
(* backends do not fail.                                                   *)
(***************************************************************************)
CONSTANTS Cells, Cubes, Values, Fill, Junk, HasFill

VARIABLES
    table,    \* the data of every hypercube, or Nothing
    answer    \* the region and the data a read is returning, or NoAnswer

Nothing == [x \in Cells |-> Junk]
NoAnswer == [region |-> {}, data |-> Nothing]

Init == table = [c \in Cubes |-> Nothing] /\ answer = NoAnswer

\* What a read may answer for one element.
Candidates(x) ==
    LET known == {c \in Cubes : x \in c /\ table[c] # Nothing}
    IN  IF known # {} THEN {table[c][x] : c \in known}
        ELSE IF HasFill THEN {Fill} ELSE {}

\* A new hypercube gets data: what the application wrote, or a copy of what is
\* stored already.
Put(c) ==
    /\ table[c] = Nothing
    /\ \/ \E v \in Values : table' = [table EXCEPT ![c] = [x \in Cells |-> IF x \in c THEN v ELSE Junk]]
       \/ \E data \in [c -> (UNION {Candidates(x) : x \in c}) \ {Fill}] :
            /\ \A x \in c : data[x] \in Candidates(x)
            /\ table' = [table EXCEPT ![c] = [x \in Cells |-> IF x \in c THEN data[x] ELSE Junk]]
    /\ UNCHANGED answer

\* A read of a region returns.
Answer(region) ==
    /\ answer = NoAnswer
    /\ answer'.region = region
    /\ \A x \in region : answer'.data[x] \in Candidates(x)
    /\ UNCHANGED table

Done == answer # NoAnswer /\ answer' = NoAnswer /\ UNCHANGED table

Next ==
    \/ \E c \in Cubes : Put(c)
    \/ \E region \in Cubes : Answer(region)
    \/ Done

Spec == Init /\ [][Next]_<<table, answer>>
=============================================================================
