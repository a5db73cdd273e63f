----------------------------- MODULE KdsaBlocks -----------------------------
(***************************************************************************)
(* Block allocation of the KDSA backend (backends-data/kdsa/esdm-kdsa.c).  *)
(* Processes share a volume whose block map has one bit per block.  Every  *)
(* process works on its own, possibly stale, copy of the map and claims or *)
(* releases a block by a compare-and-swap of the word that holds its bit.  *)
(*                                                                         *)
(* A word is the set of its bits that are 1.  Within a process allocation  *)
(* is serialised by block_lock, so a process is one sequential actor.      *)
(***************************************************************************)
EXTENDS Integers, FiniteSets

CONSTANTS
    Procs,         \* processes that have the volume open
    WordBits,      \* bits of a block map word (64)
    IntBits,       \* bits of an int (32)
    BlockCount,    \* h.blockcount
    RandomTries,   \* words tried at random before the sequential search (30)
    Deletable,     \* bit positions of the blocks that applications delete
    CanCrash       \* whether processes may die and start again

WordCount == (BlockCount + WordBits - 1) \div WordBits

ASSUME KdsaAssumption ==
    /\ WordBits \in Nat \ {0} /\ IntBits \in 1 .. WordBits
    /\ BlockCount \in Nat \ {0}
    /\ RandomTries \in Nat
    /\ Deletable \subseteq 0 .. WordBits - 1
    /\ CanCrash \in BOOLEAN

Bits == 0 .. WordBits - 1
WordIds == 0 .. WordCount - 1
Blocks == 0 .. WordCount * WordBits - 1
NoBlock == -1

WordOf(blk) == blk \div WordBits
BitOf(blk) == blk % WordBits
BlockAt(w, b) == b + WordBits * w

VARIABLES
    map,       \* the block map on the volume
    cache,     \* data->block_map of every process
    estimate,  \* data->free_blocks_estimate of every process
    pc,        \* what a process is doing
    visits,    \* words that its search for a free block still visits
    word,      \* the word it looks at
    bit,       \* the bit it looks at
    blk,       \* the block it has claimed or is releasing
    held,      \* blocks that belong to a fragment
    leaked     \* blocks claimed by a process that died before it stored anything

vars == <<map, cache, estimate, pc, visits, word, bit, blk, held, leaked>>

\* Mutants: one padding bit too many; no padding.
OccupyOneMore == WordBits - (BlockCount % WordBits) + 1
FormattedUnpadded == [w \in WordIds |-> {}]

\* mkfs(): the last word gets its occupy_blocks largest bits set.
OccupyBlocks == WordBits - (BlockCount % WordBits)
FormattedMap ==
    [w \in WordIds |-> IF w = WordCount - 1 THEN WordBits - OccupyBlocks .. WordBits - 1 ELSE {}]

\* load_block_bitmap(): the number of zero bits.
CountFree(m) == Cardinality({b \in Blocks : BitOf(b) \notin m[WordOf(b)]})

Init ==
    /\ map = FormattedMap
    /\ cache = [p \in Procs |-> FormattedMap]
    /\ estimate = [p \in Procs |-> CountFree(FormattedMap)]
    /\ pc = [p \in Procs |-> "idle"]
    /\ visits = [p \in Procs |-> 0]
    /\ word = [p \in Procs |-> 0]
    /\ bit = [p \in Procs |-> 0]
    /\ blk = [p \in Procs |-> NoBlock]
    /\ held = {}
    /\ leaked = {}

-----------------------------------------------------------------------------
(* Allocation: fragment_update() and find_offset_to_store_fragment().      *)

\* The estimate is too low to go on without a look at the volume.
Reload(p) == (estimate[p] * 100) \div BlockCount <= 3

\* The map and the estimate that find_offset_to_store_fragment() works with.
CurrentMap(p) == IF Reload(p) THEN map ELSE cache[p]
CurrentEstimate(p) == IF Reload(p) THEN CountFree(map) ELSE estimate[p]

\* Enter find_offset_to_store_fragment() and start with a random word.
BeginUpdate(p) ==
    /\ pc[p] = "idle"
    /\ ~(Reload(p) /\ CountFree(map) = 0)
    /\ cache' = [cache EXCEPT ![p] = CurrentMap(p)]
    /\ estimate' = [estimate EXCEPT ![p] = CurrentEstimate(p)]
    /\ pc' = [pc EXCEPT ![p] = "search"]
    /\ visits' = [visits EXCEPT ![p] = RandomTries + WordCount - 1]
    /\ \E w \in WordIds : word' = [word EXCEPT ![p] = w]
    /\ bit' = [bit EXCEPT ![p] = 0]
    /\ UNCHANGED <<map, blk, held, leaked>>

\* ... or give up at once, because the reloaded map has no free block.
NoSpaceLeft(p) ==
    /\ pc[p] = "idle"
    /\ Reload(p) /\ CountFree(map) = 0
    /\ cache' = [cache EXCEPT ![p] = map]
    /\ estimate' = [estimate EXCEPT ![p] = 0]
    /\ pc' = [pc EXCEPT ![p] = "failed"]
    /\ UNCHANGED <<map, visits, word, bit, blk, held, leaked>>

\* The next zero bit of the cached word that the loop of try_to_use_block() has
\* not passed yet.
FreeBits(p) == {b \in Bits : b >= bit[p] /\ b \notin cache[p][word[p]]}
IsNextFree(p, b) == b \in FreeBits(p) /\ \A c \in FreeBits(p) : b <= c

EndSearch(p) ==
    /\ visits' = [visits EXCEPT ![p] = 0]
    /\ word' = [word EXCEPT ![p] = 0]
    /\ bit' = [bit EXCEPT ![p] = 0]

\* Mutant: a plain write of the word instead of the compare-and-swap.
ClaimUnchecked(p, b) ==
    /\ pc[p] = "search"
    /\ IsNextFree(p, b)
    /\ map' = [map EXCEPT ![word[p]] = cache[p][word[p]] \cup {b}]
    /\ cache' = [cache EXCEPT ![p][word[p]] = @ \cup {b}]
    /\ estimate' = [estimate EXCEPT ![p] = @ - 1]
    /\ pc' = [pc EXCEPT ![p] = "claimed"]
    /\ blk' = [blk EXCEPT ![p] = BlockAt(word[p], b)]
    /\ EndSearch(p)
    /\ UNCHANGED <<held, leaked>>

\* try_to_use_block(): kdsa_compare_and_swap() finds the expected word, sets the
\* bit, and the block is ours.
ClaimBit(p, b) ==
    /\ pc[p] = "search"
    /\ IsNextFree(p, b)
    /\ map[word[p]] = cache[p][word[p]]
    /\ map' = [map EXCEPT ![word[p]] = @ \cup {b}]
    /\ cache' = [cache EXCEPT ![p][word[p]] = @ \cup {b}]
    /\ estimate' = [estimate EXCEPT ![p] = @ - 1]
    /\ pc' = [pc EXCEPT ![p] = "claimed"]
    /\ blk' = [blk EXCEPT ![p] = BlockAt(word[p], b)]
    /\ EndSearch(p)
    /\ UNCHANGED <<held, leaked>>

\* ... or finds another word, and stores it into the local map.
MissBit(p, b) ==
    /\ pc[p] = "search"
    /\ IsNextFree(p, b)
    /\ map[word[p]] # cache[p][word[p]]
    /\ cache' = [cache EXCEPT ![p][word[p]] = map[word[p]]]
    /\ bit' = [bit EXCEPT ![p] = b + 1]
    /\ UNCHANGED <<map, estimate, pc, visits, word, blk, held, leaked>>

\* try_to_use_block() returned 0: on to another random word, then to all words
\* in sequence from a random one.
NextWord(p) ==
    /\ pc[p] = "search"
    /\ FreeBits(p) = {}
    /\ visits[p] # 0
    /\ visits' = [visits EXCEPT ![p] = @ - 1]
    /\ \E w \in IF visits[p] >= WordCount THEN WordIds ELSE {(word[p] + 1) % WordCount} :
         word' = [word EXCEPT ![p] = w]
    /\ bit' = [bit EXCEPT ![p] = 0]
    /\ UNCHANGED <<map, cache, estimate, pc, blk, held, leaked>>

\* ... and after the last one the search has failed.
SearchFails(p) ==
    /\ pc[p] = "search"
    /\ FreeBits(p) = {}
    /\ visits[p] = 0
    /\ pc' = [pc EXCEPT ![p] = "failed"]
    /\ EndSearch(p)
    /\ UNCHANGED <<map, cache, estimate, blk, held, leaked>>

\* The rest of fragment_update(): the fragment has its id and metadata, so the
\* block is the fragment's, whether writing the data works or not.
StoreFragment(p) ==
    /\ pc[p] = "claimed"
    /\ held' = held \cup {blk[p]}
    /\ blk' = [blk EXCEPT ![p] = NoBlock]
    /\ pc' = [pc EXCEPT ![p] = "idle"]
    /\ UNCHANGED <<map, cache, estimate, visits, word, bit, leaked>>

\* fragment_update() returns ESDM_ERROR.
UpdateFails(p) ==
    /\ pc[p] = "failed"
    /\ pc' = [pc EXCEPT ![p] = "idle"]
    /\ UNCHANGED <<map, cache, estimate, visits, word, bit, blk, held, leaked>>

-----------------------------------------------------------------------------
(* fragment_delete().                                                      *)

\* int bit = ~(1llu << k): all ones but bit k, truncated to an int and extended
\* with its sign when it is combined with the 64 bit word.
Mask(k) ==
    LET low == (0 .. IntBits - 1) \ {k}
    IN  IF IntBits - 1 \in low THEN low \cup (IntBits .. WordBits - 1) ELSE low

BeginDelete(p, b) ==
    /\ pc[p] = "idle"
    /\ b \in held /\ BitOf(b) \in Deletable
    /\ \A q \in Procs : blk[q] # b
    /\ pc' = [pc EXCEPT ![p] = "delete"]
    /\ blk' = [blk EXCEPT ![p] = b]
    /\ UNCHANGED <<map, cache, estimate, visits, word, bit, held, leaked>>

\* Mutant: a plain write of the word instead of the compare-and-swap.
ReleaseUnchecked(p) ==
    /\ pc[p] = "delete"
    /\ LET w == WordOf(blk[p])
           kept == cache[p][w] \cap Mask(BitOf(blk[p]))
       IN  /\ map' = [map EXCEPT ![w] = kept]
           /\ cache' = [cache EXCEPT ![p][w] = kept]
    /\ held' = held \ {blk[p]}
    /\ blk' = [blk EXCEPT ![p] = NoBlock]
    /\ pc' = [pc EXCEPT ![p] = "idle"]
    /\ UNCHANGED <<estimate, visits, word, bit, leaked>>

\* The compare-and-swap loop: the word is as expected and the bit is cleared ...
ReleaseBit(p) ==
    /\ pc[p] = "delete"
    /\ LET w == WordOf(blk[p])
           kept == map[w] \cap Mask(BitOf(blk[p]))
       IN  /\ map[w] = cache[p][w]
           /\ map' = [map EXCEPT ![w] = kept]
           /\ cache' = [cache EXCEPT ![p][w] = kept]
    /\ held' = held \ {blk[p]}
    /\ blk' = [blk EXCEPT ![p] = NoBlock]
    /\ pc' = [pc EXCEPT ![p] = "idle"]
    /\ UNCHANGED <<estimate, visits, word, bit, leaked>>

\* ... or it is not, and the loop goes on with the word that was found.
MissRelease(p) ==
    /\ pc[p] = "delete"
    /\ LET w == WordOf(blk[p])
       IN  /\ map[w] # cache[p][w]
           /\ cache' = [cache EXCEPT ![p][w] = map[w]]
    /\ UNCHANGED <<map, estimate, pc, visits, word, bit, blk, held, leaked>>

\* The process dies; kdsa_backend_init() of its successor loads the map.  A block
\* that was claimed and not stored is lost.
Crash(p) ==
    /\ CanCrash
    /\ pc[p] # "idle"
    /\ leaked' = IF pc[p] = "claimed" THEN leaked \cup {blk[p]} ELSE leaked
    /\ blk' = [blk EXCEPT ![p] = NoBlock]
    /\ pc' = [pc EXCEPT ![p] = "idle"]
    /\ cache' = [cache EXCEPT ![p] = map]
    /\ estimate' = [estimate EXCEPT ![p] = CountFree(map)]
    /\ EndSearch(p)
    /\ UNCHANGED <<map, held>>

-----------------------------------------------------------------------------

Step(p) ==
    \/ BeginUpdate(p)
    \/ NoSpaceLeft(p)
    \/ \E b \in Bits : ClaimBit(p, b)
    \/ \E b \in Bits : MissBit(p, b)
    \/ NextWord(p)
    \/ SearchFails(p)
    \/ StoreFragment(p)
    \/ UpdateFails(p)
    \/ \E b \in Blocks : BeginDelete(p, b)
    \/ ReleaseBit(p)
    \/ MissRelease(p)
    \/ Crash(p)

Next == \E p \in Procs : Step(p)

Spec == Init /\ [][Next]_vars

-----------------------------------------------------------------------------
(* Properties.                                                             *)

TypeOK ==
    /\ map \in [WordIds -> SUBSET Bits]
    /\ cache \in [Procs -> [WordIds -> SUBSET Bits]]
    /\ estimate \in [Procs -> Int]
    /\ pc \in [Procs -> {"idle", "search", "claimed", "failed", "delete"}]
    /\ visits \in [Procs -> Nat]
    /\ word \in [Procs -> WordIds]
    /\ bit \in [Procs -> 0 .. WordBits]
    /\ blk \in [Procs -> Blocks \cup {NoBlock}]
    /\ held \in SUBSET Blocks
    /\ leaked \in SUBSET Blocks

Claimed(p) == pc[p] = "claimed"

\* The block a process has just claimed belongs to no fragment and to no other
\* process, however stale the copy of the map was that it searched.
NoDoubleAllocation ==
    \A p \in Procs : Claimed(p) =>
        /\ blk[p] \notin held
        /\ \A q \in Procs \ {p} : blk[q] # blk[p]

\* "1 == used": a block that belongs to a fragment or is being claimed has its
\* bit set in the map on the volume.
UsedIsMarked ==
    \A b \in held \cup {blk[p] : p \in {q \in Procs : Claimed(q)}} : BitOf(b) \in map[WordOf(b)]

\* "0 == unused": a block of the volume whose bit is set is used, or was lost in
\* a crash.
MarkedIsUsed ==
    \A b \in 0 .. BlockCount - 1 : BitOf(b) \in map[WordOf(b)] =>
        b \in held \cup leaked \cup {blk[p] : p \in {q \in Procs : Claimed(q)}}

\* The bits of the last word that stand for no block are never handed out.
ClaimsExist == \A p \in Procs : Claimed(p) => blk[p] < BlockCount

\* The inductive invariant adds what each phase of a process knows of its block,
\* and that the padding of the last word stays marked.
BlockPhase == \A p \in Procs : blk[p] # NoBlock <=> pc[p] \in {"claimed", "delete"}
DeletesHeld == \A p \in Procs : pc[p] = "delete" => blk[p] \in held /\ BitOf(blk[p]) \in Deletable
BlocksApart == \A p, q \in Procs : p # q /\ blk[p] # NoBlock => blk[p] # blk[q]
PaddingKept == \A b \in Blocks : b >= BlockCount => BitOf(b) \in map[WordOf(b)]
HeldExist == \A b \in held : b < BlockCount
IndInv ==
    /\ TypeOK
    /\ BlockPhase /\ DeletesHeld /\ BlocksApart /\ PaddingKept /\ HeldExist
    /\ NoDoubleAllocation
    /\ UsedIsMarked
    /\ ClaimsExist
=============================================================================
