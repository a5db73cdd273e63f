-------------------------- MODULE KdsaBlocks_proofs --------------------------
(***************************************************************************)
(* Compare-and-swap on stale copies of the block map is safe for any       *)
(* number of processes, words and bits, as long as only blocks below the   *)
(* sign bit of an int are deleted.                                         *)
(***************************************************************************)
EXTENDS KdsaBlocks, FiniteSetTheorems, TLAPS

\* Block numbers and pairs of a word and a bit are the same thing.
LEMMA BlockArithmetic ==
    /\ WordCount \in Nat \ {0}
    /\ \A b \in Blocks : WordOf(b) \in WordIds /\ BitOf(b) \in Bits
    /\ \A b, c \in Blocks : WordOf(b) = WordOf(c) /\ BitOf(b) = BitOf(c) => b = c
    /\ \A w \in WordIds, b \in Bits :
         /\ BlockAt(w, b) \in Blocks
         /\ WordOf(BlockAt(w, b)) = w
         /\ BitOf(BlockAt(w, b)) = b
<1> USE KdsaAssumption
<1>1. WordCount \in Nat \ {0}
  BY DEF WordCount
<1>2. ASSUME NEW b \in Blocks
      PROVE  WordOf(b) \in WordIds /\ BitOf(b) \in Bits /\ b = BlockAt(WordOf(b), BitOf(b))
  BY <1>1 DEF Blocks, WordOf, BitOf, WordIds, Bits, BlockAt
<1>3. ASSUME NEW w \in WordIds, NEW b \in Bits
      PROVE  /\ BlockAt(w, b) \in Blocks
             /\ WordOf(BlockAt(w, b)) = w
             /\ BitOf(BlockAt(w, b)) = b
  <2>1. BlockAt(w, b) \in Nat
    BY <1>1 DEF BlockAt, WordIds, Bits
  <2>2. BlockAt(w, b) < WordCount * WordBits
    <3>1. w + 1 <= WordCount
      BY <1>1 DEF WordIds
    <3>2. (w + 1) * WordBits <= WordCount * WordBits
      BY <1>1, <3>1 DEF WordIds
    <3>3. QED
      BY <1>1, <3>2 DEF BlockAt, WordIds, Bits
  <2>3. QED
    BY <1>1, <2>1, <2>2 DEF BlockAt, WordOf, BitOf, Blocks, WordIds, Bits
<1>4. QED
  BY <1>1, <1>2, <1>3

\* Clearing a bit below the sign bit of an int clears nothing else.
LEMMA MaskIsExact ==
    ASSUME NEW k \in 0 .. IntBits - 2
    PROVE  Mask(k) = Bits \ {k}
  BY KdsaAssumption DEF Mask, Bits

\* Division with remainder, for any divisor.
LEMMA Remainder ==
    ASSUME NEW d \in Nat \ {0}, NEW n \in Nat
    PROVE  n \div d \in Nat /\ n % d \in 0 .. d - 1 /\ n = (n \div d) * d + (n % d)
  OBVIOUS

LEMMA Quotient ==
    ASSUME NEW d \in Nat \ {0}, NEW q \in Nat, NEW r \in 0 .. d - 1
    PROVE  (q * d + r) \div d = q
  OBVIOUS

\* The padding bits of a freshly formatted map are set.
LEMMA PaddingMarked ==
    ASSUME NEW b \in Blocks, b >= BlockCount
    PROVE  BitOf(b) \in FormattedMap[WordOf(b)]
<1> DEFINE full == BlockCount \div WordBits
           rest == BlockCount % WordBits
           w == WordOf(b)
           k == BitOf(b)
<1>1. full \in Nat /\ rest \in 0 .. WordBits - 1 /\ BlockCount = full * WordBits + rest
  BY Zenon, KdsaAssumption, Remainder
<1>2. WordBits \in Nat \ {0} /\ BlockCount \in Nat /\ b \in Nat
  BY KdsaAssumption DEF Blocks
<1>3. w \in WordIds /\ k \in Bits /\ b = w * WordBits + k
  BY <1>2, BlockArithmetic, Remainder DEF WordOf, BitOf
<1>4. WordCount = IF rest = 0 THEN full ELSE full + 1
  <2>1. CASE rest = 0
    <3>1. BlockCount + WordBits - 1 = full * WordBits + (WordBits - 1)
      BY <1>1, <1>2, <2>1
    <3>2. WordBits - 1 \in 0 .. WordBits - 1
      BY <1>2
    <3>3. (full * WordBits + (WordBits - 1)) \div WordBits = full
      BY <1>1, <1>2, <3>2, Quotient
    <3>4. QED
      BY <2>1, <3>1, <3>3 DEF WordCount
  <2>2. CASE rest # 0
    <3> HIDE DEF full, rest
    <3>1. BlockCount + WordBits - 1 = (full + 1) * WordBits + (rest - 1)
      BY <1>1, <1>2
    <3>2. rest - 1 \in 0 .. WordBits - 1 /\ full + 1 \in Nat
      BY <1>1, <1>2, <2>2
    <3>3. ((full + 1) * WordBits + (rest - 1)) \div WordBits = full + 1
      BY <1>2, <3>2, Quotient
    <3>4. QED
      BY <2>2, <3>1, <3>3 DEF WordCount
  <2>3. QED
    BY <2>1, <2>2
<1> HIDE DEF full, rest, w, k
<1>5. rest # 0
  BY <1>1, <1>2, <1>4 DEF Blocks
<1>6. w = full
  <2>1. w \in Nat /\ w <= full /\ k < WordBits /\ k \in Nat
    BY <1>1, <1>2, <1>3, <1>4, <1>5 DEF WordIds, Bits
  <2>2. ASSUME w + 1 <= full PROVE FALSE
    <3>1. (w + 1) * WordBits <= full * WordBits
      BY <1>1, <1>2, <2>1, <2>2
    <3>2. w * WordBits + k < (w + 1) * WordBits
      BY <1>2, <2>1
    <3>3. full * WordBits \in Nat /\ w * WordBits \in Nat /\ (w + 1) * WordBits \in Nat
      BY <1>1, <1>2, <2>1
    <3>4. QED
      BY <1>1, <1>2, <1>3, <2>1, <3>1, <3>2, <3>3
  <2>3. QED
    BY <1>1, <2>1, <2>2
<1>7. k >= rest
  <2>1. full * WordBits \in Nat
    BY <1>1, <1>2
  <2>2. QED
    BY <1>1, <1>2, <1>3, <1>6, <2>1 DEF Bits
<1>8. FormattedMap[w] = rest .. WordBits - 1
  BY <1>1, <1>2, <1>3, <1>4, <1>5, <1>6 DEF FormattedMap, OccupyBlocks, WordIds, rest
<1>9. QED
  BY <1>2, <1>3, <1>7, <1>8 DEF Bits, w, k

\* CountFree is a number.
LEMMA CountFreeType == ASSUME NEW m PROVE CountFree(m) \in Int
<1>1. {b \in Blocks : BitOf(b) \notin m[WordOf(b)]} \in SUBSET Blocks /\ IsFiniteSet(Blocks)
  BY BlockArithmetic, KdsaAssumption, FS_Interval DEF Blocks
<1>2. QED
  BY <1>1, FS_Subset, FS_CardinalityType DEF CountFree

\* The state right after mkfs() satisfies the inductive invariant.
LEMMA InitInd == Init => IndInv
<1> SUFFICES ASSUME Init PROVE IndInv
  OBVIOUS
<1> USE KdsaAssumption
<1>1. FormattedMap \in [WordIds -> SUBSET Bits]
  BY DEF FormattedMap, OccupyBlocks, Bits
<1>2. TypeOK
  <2>1. 0 \in WordIds
    BY BlockArithmetic DEF WordIds
  <2>2. CountFree(FormattedMap) \in Int
    BY CountFreeType
  <2>3. QED
    BY <1>1, <2>1, <2>2 DEF Init, TypeOK
<1>3. QED
  BY <1>2, PaddingMarked
     DEF Init, IndInv, BlockPhase, DeletesHeld, BlocksApart, PaddingKept, HeldExist,
         NoDoubleAllocation, UsedIsMarked, ClaimsExist, Claimed, NoBlock

\* Every step of every process preserves the types.
LEMMA TypeStep ==
    ASSUME TypeOK, NEW p \in Procs, Step(p),
           pc[p] \in {"claimed", "delete"} => blk[p] # NoBlock
    PROVE  TypeOK'
<1>0. /\ 0 \in WordIds /\ WordCount \in Nat \ {0}
      /\ WordBits \in Nat /\ RandomTries \in Nat
  BY BlockArithmetic, KdsaAssumption DEF WordIds
<1>1. map \in [WordIds -> SUBSET Bits] /\ cache[p] \in [WordIds -> SUBSET Bits]
      /\ word[p] \in WordIds /\ visits[p] \in Nat /\ estimate[p] \in Int
  BY DEF TypeOK
<1>2. CASE BeginUpdate(p)
  <2>1. RandomTries + WordCount - 1 \in Nat /\ 0 \in 0 .. WordBits
    BY <1>0
  <2>2. CurrentMap(p) \in [WordIds -> SUBSET Bits] /\ CurrentEstimate(p) \in Int
    BY <1>1, CountFreeType DEF CurrentMap, CurrentEstimate
  <2>3. PICK w \in WordIds : word' = [word EXCEPT ![p] = w]
    BY Zenon, <1>2 DEF BeginUpdate
  <2>4. word' \in [Procs -> WordIds]
    BY <2>3 DEF TypeOK
  <2>5. visits' \in [Procs -> Nat] /\ bit' \in [Procs -> 0 .. WordBits]
    BY <1>2, <2>1 DEF BeginUpdate, TypeOK
  <2>6. QED
    BY <1>2, <2>2, <2>4, <2>5 DEF BeginUpdate, TypeOK
<1>3. CASE NoSpaceLeft(p)
  <2>1. CurrentMap(p) \in [WordIds -> SUBSET Bits]
    BY <1>1 DEF CurrentMap
  <2>2. QED
    BY <1>3, <2>1 DEF NoSpaceLeft, TypeOK
<1>4. ASSUME EndSearch(p)
      PROVE  visits' \in [Procs -> Nat] /\ word' \in [Procs -> WordIds] /\ bit' \in [Procs -> 0 .. WordBits]
  <2>1. 0 \in 0 .. WordBits
    BY <1>0
  <2>2. QED
    BY <1>0, <1>4, <2>1 DEF EndSearch, TypeOK
<1>5. ASSUME NEW b \in Bits, ClaimBit(p, b) PROVE TypeOK'
  <2>1. BlockAt(word[p], b) \in Blocks /\ estimate[p] - 1 \in Int
    BY <1>1, <1>5, BlockArithmetic
  <2>2. map' \in [WordIds -> SUBSET Bits]
    BY <1>1, <1>5 DEF ClaimBit
  <2>3. [cache[p] EXCEPT ![word[p]] = @ \cup {b}] \in [WordIds -> SUBSET Bits]
    BY <1>1, <1>5
  <2>4. cache' \in [Procs -> [WordIds -> SUBSET Bits]]
    BY <1>5, <2>3 DEF ClaimBit, TypeOK
  <2>5. visits' \in [Procs -> Nat] /\ word' \in [Procs -> WordIds] /\ bit' \in [Procs -> 0 .. WordBits]
    BY <1>4, <1>5 DEF ClaimBit
  <2>6. estimate' \in [Procs -> Int] /\ blk' \in [Procs -> Blocks \cup {NoBlock}]
    BY <1>5, <2>1 DEF ClaimBit, TypeOK
  <2>7. QED
    BY <1>5, <2>2, <2>4, <2>5, <2>6 DEF ClaimBit, TypeOK
<1>6. ASSUME NEW b \in Bits, MissBit(p, b) PROVE TypeOK'
  <2>1. b + 1 \in 0 .. WordBits
    BY <1>0 DEF Bits
  <2>2. [cache[p] EXCEPT ![word[p]] = map[word[p]]] \in [WordIds -> SUBSET Bits]
    BY <1>1
  <2>3. cache' \in [Procs -> [WordIds -> SUBSET Bits]] /\ bit' \in [Procs -> 0 .. WordBits]
    BY <1>6, <2>1, <2>2 DEF MissBit, TypeOK
  <2>4. QED
    BY <1>6, <2>3 DEF MissBit, TypeOK
<1>7. CASE NextWord(p)
  <2>1. (word[p] + 1) % WordCount \in WordIds
    BY <1>0, <1>1 DEF WordIds
  <2>2. PICK w \in WordIds : word' = [word EXCEPT ![p] = w]
    BY Zenon, <1>7, <2>1 DEF NextWord
  <2>3. visits[p] - 1 \in Nat /\ 0 \in 0 .. WordBits
    BY <1>0, <1>1, <1>7 DEF NextWord
  <2>4. word' \in [Procs -> WordIds] /\ visits' \in [Procs -> Nat] /\ bit' \in [Procs -> 0 .. WordBits]
    BY <1>7, <2>2, <2>3 DEF NextWord, TypeOK
  <2>5. QED
    BY <1>7, <2>4 DEF NextWord, TypeOK
<1>8. CASE SearchFails(p)
  BY <1>4, <1>8 DEF SearchFails, TypeOK
<1>9. CASE StoreFragment(p) \/ UpdateFails(p)
  BY Zenon, <1>9 DEF StoreFragment, UpdateFails, TypeOK, NoBlock
<1>10. ASSUME NEW b \in Blocks, BeginDelete(p, b) PROVE TypeOK'
  BY <1>10 DEF BeginDelete, TypeOK
<1>11. CASE ReleaseBit(p)
  <2> DEFINE w == WordOf(blk[p])
             kept == map[w] \cap Mask(BitOf(blk[p]))
  <2>1. w \in WordIds
    BY <1>11, BlockArithmetic DEF ReleaseBit, TypeOK
  <2>2. kept \in SUBSET Bits
    BY <1>1, <2>1
  <2>3. map' = [map EXCEPT ![w] = kept] /\ cache' = [cache EXCEPT ![p][w] = kept]
    BY <1>11 DEF ReleaseBit
  <2> HIDE DEF w, kept
  <2>4. [cache[p] EXCEPT ![w] = kept] \in [WordIds -> SUBSET Bits]
    BY <1>1, <2>1, <2>2
  <2>5. map' \in [WordIds -> SUBSET Bits] /\ cache' \in [Procs -> [WordIds -> SUBSET Bits]]
    BY <2>1, <2>2, <2>3, <2>4 DEF TypeOK
  <2>6. QED
    BY <1>11, <2>5 DEF ReleaseBit, TypeOK
<1>12. CASE MissRelease(p)
  <2> DEFINE w == WordOf(blk[p])
  <2>1. w \in WordIds
    BY <1>12, BlockArithmetic DEF MissRelease, TypeOK
  <2>2. cache' = [cache EXCEPT ![p][w] = map[w]]
    BY <1>12 DEF MissRelease
  <2> HIDE DEF w
  <2>3. [cache[p] EXCEPT ![w] = map[w]] \in [WordIds -> SUBSET Bits]
    BY <1>1, <2>1
  <2>4. cache' \in [Procs -> [WordIds -> SUBSET Bits]]
    BY <2>2, <2>3 DEF TypeOK
  <2>5. QED
    BY <1>12, <2>4 DEF MissRelease, TypeOK
<1>13. CASE Crash(p)
  <2>1. CountFree(map) \in Int
    BY CountFreeType
  <2>2. QED
    BY <1>4, <1>13, <2>1 DEF Crash, TypeOK
<1>14. QED
  BY <1>2, <1>3, <1>5, <1>6, <1>7, <1>8, <1>9, <1>10, <1>11, <1>12, <1>13 DEF Step

\* A used block or a padding bit is marked: what the two compare-and-swaps have to
\* keep when they change a word.
Marked(m, b) == BitOf(b) \in m[WordOf(b)]

\* A successful claim sets one bit, that was clear, and leaves the others alone.
LEMMA ClaimMarks ==
    ASSUME TypeOK, NEW p \in Procs, NEW b \in Bits, ClaimBit(p, b)
    PROVE  LET new == BlockAt(word[p], b)
           IN  /\ new \in Blocks
               /\ blk' = [blk EXCEPT ![p] = new]
               /\ ~ Marked(map, new) /\ Marked(map', new)
               /\ \A c \in Blocks : c # new => (Marked(map', c) <=> Marked(map, c))
<1> DEFINE w == word[p]
           new == BlockAt(w, b)
<1>1. w \in WordIds /\ map \in [WordIds -> SUBSET Bits]
  BY DEF TypeOK
<1>2. new \in Blocks /\ WordOf(new) = w /\ BitOf(new) = b
  BY <1>1, BlockArithmetic
<1>3. b \notin map[w] /\ map' = [map EXCEPT ![w] = @ \cup {b}] /\ blk' = [blk EXCEPT ![p] = new]
  BY DEF ClaimBit, IsNextFree, FreeBits
<1> HIDE DEF w, new
<1>4. ASSUME NEW c \in Blocks, c # new PROVE Marked(map', c) <=> Marked(map, c)
  <2>1. WordOf(c) \in WordIds /\ (WordOf(c) # w \/ BitOf(c) # b)
    BY <1>2, <1>4, BlockArithmetic
  <2>2. QED
    BY <1>1, <1>3, <2>1 DEF Marked
<1>5. ~ Marked(map, new) /\ Marked(map', new)
  BY <1>1, <1>2, <1>3 DEF Marked
<1>6. QED
  BY Zenon, <1>2, <1>3, <1>4, <1>5 DEF new, w

\* Releasing a block whose bit is below the sign bit of an int clears its bit and
\* leaves the bits of all others alone.
LEMMA ReleaseClears ==
    ASSUME TypeOK, NEW p \in Procs, ReleaseBit(p), blk[p] \in Blocks,
           BitOf(blk[p]) \in 0 .. IntBits - 2
    PROVE  /\ \A c \in Blocks : c # blk[p] => (Marked(map', c) <=> Marked(map, c))
           /\ ~ Marked(map', blk[p])
<1> DEFINE w == WordOf(blk[p])
           k == BitOf(blk[p])
<1>1. w \in WordIds /\ k \in Bits /\ map \in [WordIds -> SUBSET Bits]
  BY BlockArithmetic DEF TypeOK
<1>2. map' = [map EXCEPT ![w] = map[w] \cap (Bits \ {k})]
  BY Zenon, MaskIsExact DEF ReleaseBit
<1>3. ASSUME NEW c \in Blocks, c # blk[p] PROVE Marked(map', c) <=> Marked(map, c)
  <2>1. WordOf(c) \in WordIds /\ BitOf(c) \in Bits /\ (WordOf(c) # w \/ BitOf(c) # k)
    BY <1>3, BlockArithmetic
  <2> HIDE DEF w, k
  <2>2. QED
    BY <1>1, <1>2, <2>1 DEF Marked
<1>4. ~ Marked(map', blk[p])
  BY <1>1, <1>2 DEF Marked
<1>5. QED
  BY <1>3, <1>4

\* Every step of every process preserves the inductive invariant, if only blocks
\* below the sign bit of an int are deleted.
LEMMA IndStep ==
    ASSUME Deletable \subseteq 0 .. IntBits - 2, IndInv, NEW p \in Procs, Step(p)
    PROVE  IndInv'
<1>1. TypeOK'
  BY TypeStep DEF IndInv, BlockPhase
<1>2. /\ pc \in [Procs -> {"idle", "search", "claimed", "failed", "delete"}]
      /\ blk \in [Procs -> Blocks \cup {NoBlock}]
      /\ held \in SUBSET Blocks
  BY DEF IndInv, TypeOK
<1>3. NoBlock \notin Blocks
  BY DEF NoBlock, Blocks
<1> DEFINE Rest == /\ BlockPhase /\ DeletesHeld /\ BlocksApart /\ PaddingKept /\ HeldExist
                   /\ NoDoubleAllocation /\ UsedIsMarked /\ ClaimsExist
<1> USE DEF BlockPhase, DeletesHeld, BlocksApart, HeldExist, NoDoubleAllocation, ClaimsExist, Claimed
<1>4. ASSUME UNCHANGED <<map, blk, held>>, pc'[p] \notin {"claimed", "delete"},
             pc[p] \notin {"claimed", "delete"}, pc' = [pc EXCEPT ![p] = pc'[p]]
      PROVE  Rest'
  <2>1. \A q \in Procs : pc'[q] \in {"claimed", "delete"} => pc'[q] = pc[q]
    BY <1>2, <1>4
  <2>2. \A q \in Procs : pc[q] \in {"claimed", "delete"} => pc'[q] = pc[q]
    BY <1>2, <1>4
  <2>3. PaddingKept'
    BY <1>4 DEF IndInv, PaddingKept
  <2>4. UsedIsMarked'
    BY <1>4, <2>1 DEF IndInv, UsedIsMarked
  <2>5. QED
    BY <1>4, <2>1, <2>2, <2>3, <2>4 DEF IndInv
<1>5. ASSUME BeginUpdate(p) \/ NoSpaceLeft(p) \/ NextWord(p) \/ SearchFails(p) \/ UpdateFails(p) PROVE Rest'
  <2>1. UNCHANGED <<map, blk, held>> /\ pc[p] \notin {"claimed", "delete"}
    BY <1>5 DEF BeginUpdate, NoSpaceLeft, NextWord, SearchFails, UpdateFails
  <2>2. pc'[p] \notin {"claimed", "delete"} /\ pc' = [pc EXCEPT ![p] = pc'[p]]
    BY <1>2, <1>5 DEF BeginUpdate, NoSpaceLeft, NextWord, SearchFails, UpdateFails
  <2>3. QED
    BY <1>4, <2>1, <2>2
<1>6. ASSUME MissRelease(p) \/ \E b \in Bits : MissBit(p, b) PROVE Rest'
  <2>1. UNCHANGED <<map, blk, held, pc>>
    BY <1>6 DEF MissRelease, MissBit
  <2>2. PaddingKept' /\ UsedIsMarked'
    BY <2>1 DEF IndInv, PaddingKept, UsedIsMarked
  <2>3. QED
    BY <2>1, <2>2 DEF IndInv
<1>7. ASSUME NEW b \in Bits, ClaimBit(p, b) PROVE Rest'
  <2> DEFINE new == BlockAt(word[p], b)
  <2>1. /\ new \in Blocks
        /\ blk' = [blk EXCEPT ![p] = new]
        /\ ~ Marked(map, new) /\ Marked(map', new)
        /\ \A c \in Blocks : c # new => (Marked(map', c) <=> Marked(map, c))
    BY <1>7, ClaimMarks DEF IndInv
  <2>2. pc[p] = "search" /\ pc' = [pc EXCEPT ![p] = "claimed"] /\ held' = held
    BY <1>7 DEF ClaimBit
  <2> HIDE DEF new
  <2>3. new < BlockCount
    BY <2>1, KdsaAssumption DEF IndInv, PaddingKept, Marked, Blocks
  <2>4. new \notin held
    BY <2>1 DEF IndInv, UsedIsMarked, Marked
  <2>5. \A q \in Procs : blk[q] # new
    <3>1. \A q \in Procs : blk[q] = new => pc[q] \in {"claimed", "delete"}
      BY <1>3, <2>1 DEF IndInv
    <3>2. \A q \in Procs : pc[q] = "claimed" => Marked(map, blk[q])
      BY DEF IndInv, UsedIsMarked, Marked
    <3>3. \A q \in Procs : pc[q] = "delete" => blk[q] \in held
      BY DEF IndInv
    <3>4. QED
      BY <2>1, <2>4, <3>1, <3>2, <3>3
  <2>6. blk[p] = NoBlock
    BY <2>2 DEF IndInv
  <2>7. PaddingKept'
    BY <2>1 DEF IndInv, PaddingKept, Marked
  <2>8. UsedIsMarked'
    <3>1. ASSUME NEW c \in held \cup {blk'[q] : q \in {r \in Procs : pc'[r] = "claimed"}}
          PROVE  Marked(map', c)
      <4>1. CASE c \in held
        BY <1>2, <2>1, <2>4, <4>1 DEF IndInv, UsedIsMarked, Marked
      <4>2. CASE c \notin held
        <5>1. PICK q \in Procs : pc'[q] = "claimed" /\ c = blk'[q]
          BY <3>1, <4>2
        <5>2. CASE q = p
          BY <1>2, <2>1, <5>1, <5>2
        <5>3. CASE q # p
          <6>1. pc[q] = "claimed" /\ c = blk[q]
            BY <1>2, <2>1, <2>2, <5>1, <5>3
          <6>2. c \in Blocks /\ Marked(map, c)
            BY <1>2, <6>1 DEF IndInv, UsedIsMarked, Marked
          <6>3. QED
            BY <2>1, <6>2
        <5>4. QED
          BY <5>2, <5>3
      <4>3. QED
        BY <4>1, <4>2
    <3>2. QED
      BY <2>2, <3>1 DEF UsedIsMarked, Marked
  <2>9. BlockPhase' /\ DeletesHeld' /\ HeldExist' /\ ClaimsExist'
    BY <1>2, <1>3, <2>1, <2>2, <2>3 DEF IndInv
  <2>10. BlocksApart' /\ NoDoubleAllocation'
    BY <1>2, <2>1, <2>2, <2>4, <2>5 DEF IndInv
  <2>11. QED
    BY <2>7, <2>8, <2>9, <2>10
<1>8. ASSUME StoreFragment(p) PROVE Rest'
  <2>1. /\ pc[p] = "claimed" /\ map' = map
        /\ held' = held \cup {blk[p]}
        /\ blk' = [blk EXCEPT ![p] = NoBlock]
        /\ pc' = [pc EXCEPT ![p] = "idle"]
    BY <1>8 DEF StoreFragment
  <2>2. PaddingKept'
    BY <2>1 DEF IndInv, PaddingKept
  <2>3. UsedIsMarked'
    BY <1>2, <2>1 DEF IndInv, UsedIsMarked
  <2>4. BlockPhase' /\ DeletesHeld' /\ HeldExist' /\ ClaimsExist'
    BY <1>2, <1>3, <2>1 DEF IndInv
  <2>5. BlocksApart' /\ NoDoubleAllocation'
    BY <1>2, <1>3, <2>1 DEF IndInv
  <2>6. QED
    BY <2>2, <2>3, <2>4, <2>5
<1>9. ASSUME NEW b \in Blocks, BeginDelete(p, b) PROVE Rest'
  <2>1. /\ pc[p] = "idle" /\ map' = map /\ held' = held
        /\ b \in held /\ BitOf(b) \in Deletable
        /\ \A q \in Procs : blk[q] # b
        /\ blk' = [blk EXCEPT ![p] = b]
        /\ pc' = [pc EXCEPT ![p] = "delete"]
    BY <1>9 DEF BeginDelete
  <2>2. PaddingKept'
    BY <2>1 DEF IndInv, PaddingKept
  <2>3. UsedIsMarked'
    BY <1>2, <2>1 DEF IndInv, UsedIsMarked
  <2>4. BlockPhase' /\ DeletesHeld' /\ HeldExist' /\ ClaimsExist'
    BY <1>2, <1>3, <2>1 DEF IndInv
  <2>5. BlocksApart' /\ NoDoubleAllocation'
    BY <1>2, <1>3, <2>1 DEF IndInv
  <2>6. QED
    BY <2>2, <2>3, <2>4, <2>5
<1>10. ASSUME ReleaseBit(p) PROVE Rest'
  <2>1. /\ pc[p] = "delete"
        /\ held' = held \ {blk[p]}
        /\ blk' = [blk EXCEPT ![p] = NoBlock]
        /\ pc' = [pc EXCEPT ![p] = "idle"]
    BY <1>10 DEF ReleaseBit
  <2>2. blk[p] \in held /\ blk[p] \in Blocks /\ BitOf(blk[p]) \in 0 .. IntBits - 2
    BY Zenon, <1>2, <2>1 DEF IndInv
  <2>3. \A c \in Blocks : c # blk[p] => (Marked(map', c) <=> Marked(map, c))
    BY <1>10, <2>2, ReleaseClears DEF IndInv
  <2>4. PaddingKept'
    BY <2>2, <2>3, KdsaAssumption DEF IndInv, PaddingKept, Marked, Blocks
  <2>5. UsedIsMarked'
    <3>1. ASSUME NEW c \in (held \ {blk[p]}) \cup {blk'[q] : q \in {r \in Procs : pc'[r] = "claimed"}}
          PROVE  c \in Blocks /\ c # blk[p] /\ Marked(map, c)
      <4>1. CASE c \in held \ {blk[p]}
        BY <1>2, <4>1 DEF IndInv, UsedIsMarked, Marked
      <4>2. CASE c \notin held \ {blk[p]}
        <5>1. PICK q \in Procs : pc'[q] = "claimed" /\ c = blk'[q]
          BY <3>1, <4>2
        <5>2. q # p /\ pc[q] = "claimed" /\ c = blk[q]
          BY <1>2, <2>1, <5>1
        <5>3. QED
          BY <1>2, <2>2, <5>2 DEF IndInv, UsedIsMarked, Marked
      <4>3. QED
        BY <4>1, <4>2
    <3>2. QED
      BY <2>1, <2>3, <3>1 DEF UsedIsMarked, Marked
  <2>6. BlockPhase' /\ HeldExist' /\ ClaimsExist'
    BY <1>2, <1>3, <2>1 DEF IndInv
  <2>7. DeletesHeld' /\ BlocksApart' /\ NoDoubleAllocation'
    BY <1>2, <1>3, <2>1, <2>2 DEF IndInv
  <2>8. QED
    BY <2>4, <2>5, <2>6, <2>7
<1>11. ASSUME Crash(p) PROVE Rest'
  <2>1. /\ map' = map /\ held' = held
        /\ blk' = [blk EXCEPT ![p] = NoBlock]
        /\ pc' = [pc EXCEPT ![p] = "idle"]
    BY <1>11 DEF Crash
  <2>2. PaddingKept'
    BY <2>1 DEF IndInv, PaddingKept
  <2>3. UsedIsMarked'
    BY <1>2, <2>1 DEF IndInv, UsedIsMarked
  <2>4. BlockPhase' /\ DeletesHeld' /\ HeldExist' /\ ClaimsExist'
    BY <1>2, <1>3, <2>1 DEF IndInv
  <2>5. BlocksApart' /\ NoDoubleAllocation'
    BY <1>2, <1>3, <2>1 DEF IndInv
  <2>6. QED
    BY <2>2, <2>3, <2>4, <2>5
<1>12. Rest'
  <2> HIDE DEF Rest
  <2> QED
    BY <1>5, <1>6, <1>7, <1>8, <1>9, <1>10, <1>11 DEF Step
<1>13. QED
  BY <1>1, <1>12 DEF IndInv

\* The inductive invariant holds in every reachable state.
LEMMA Inductive ==
    ASSUME Deletable \subseteq 0 .. IntBits - 2
    PROVE  Spec => []IndInv
<1>1. IndInv /\ [Next]_vars => IndInv'
  <2>1. IndInv /\ Next => IndInv'
    BY IndStep DEF Next
  <2>2. ASSUME IndInv, UNCHANGED vars PROVE IndInv'
    <3>1. TypeOK'
      BY <2>2 DEF IndInv, TypeOK, vars
    <3>2. UsedIsMarked' /\ PaddingKept'
      BY <2>2 DEF IndInv, UsedIsMarked, PaddingKept, Claimed, vars
    <3>3. QED
      BY <2>2, <3>1, <3>2 DEF IndInv, BlockPhase, DeletesHeld, BlocksApart, HeldExist,
                              NoDoubleAllocation, ClaimsExist, Claimed, vars
  <2>3. QED
    BY <2>1, <2>2
<1>2. QED
  BY <1>1, InitInd, PTL DEF Spec

\* find_offset_to_store_fragment() hands out no block twice: for any number of
\* processes and any block map, however stale the copies that they search, and
\* whenever processes die.
THEOREM BlocksAllocatedOnce ==
    ASSUME Deletable \subseteq 0 .. IntBits - 2
    PROVE  Spec => []NoDoubleAllocation
<1>1. IndInv => NoDoubleAllocation
  BY DEF IndInv
<1>2. QED
  BY <1>1, Inductive, PTL

\* Every block of a fragment stays marked as used in the map on the volume.
THEOREM UsedBlocksMarked ==
    ASSUME Deletable \subseteq 0 .. IntBits - 2
    PROVE  Spec => []UsedIsMarked
<1>1. IndInv => UsedIsMarked
  BY DEF IndInv
<1>2. QED
  BY <1>1, Inductive, PTL

\* The padding that mkfs() marks in the last word keeps try_to_use_block() within
\* the volume, for every block count and word size.
THEOREM ClaimsWithinVolume ==
    ASSUME Deletable \subseteq 0 .. IntBits - 2
    PROVE  Spec => []ClaimsExist
<1>1. IndInv => ClaimsExist
  BY DEF IndInv
<1>2. QED
  BY <1>1, Inductive, PTL

-----------------------------------------------------------------------------
\* A freshly formatted map marks no block of the volume, if the last word is not
\* full.
LEMMA NothingMarked ==
    ASSUME BlockCount % WordBits # 0, NEW b \in 0 .. BlockCount - 1
    PROVE  b \in Blocks /\ ~ Marked(FormattedMap, b)
<1> DEFINE full == BlockCount \div WordBits
           rest == BlockCount % WordBits
           w == WordOf(b)
           k == BitOf(b)
<1>1. full \in Nat /\ rest \in 1 .. WordBits - 1 /\ BlockCount = full * WordBits + rest
  <2>1. full \in Nat /\ rest \in 0 .. WordBits - 1 /\ BlockCount = full * WordBits + rest
    BY Zenon, KdsaAssumption, Remainder
  <2> HIDE DEF full
  <2>2. rest # 0
    OBVIOUS
  <2> HIDE DEF rest
  <2> QED BY <2>1, <2>2, KdsaAssumption
<1>2. WordBits \in Nat \ {0} /\ BlockCount \in Nat /\ b \in Nat /\ b < BlockCount
  BY KdsaAssumption
<1>3. w \in Nat /\ k \in 0 .. WordBits - 1 /\ b = w * WordBits + k
  BY Zenon, <1>2, Remainder DEF WordOf, BitOf
<1> HIDE DEF full, rest, w, k
<1>4. WordCount = full + 1
  <2>1. BlockCount + WordBits - 1 = (full + 1) * WordBits + (rest - 1)
    BY <1>1, <1>2
  <2>2. rest - 1 \in 0 .. WordBits - 1 /\ full + 1 \in Nat
    BY <1>1, <1>2
  <2>3. ((full + 1) * WordBits + (rest - 1)) \div WordBits = full + 1
    BY <1>2, <2>2, Quotient
  <2>4. QED
    BY <2>1, <2>3 DEF WordCount
<1>5. full * WordBits \in Nat /\ w * WordBits \in Nat
  BY <1>1, <1>2, <1>3
<1>6. w <= full
  <2> SUFFICES ASSUME full + 1 <= w PROVE FALSE
    BY <1>1, <1>3
  <2>1. (full + 1) * WordBits <= w * WordBits
    BY <1>1, <1>2, <1>3
  <2>2. (full + 1) * WordBits = full * WordBits + WordBits
    BY <1>1, <1>2
  <2>3. QED
    BY <1>1, <1>2, <1>3, <1>5, <2>1, <2>2
<1>7. w = full => k < rest
  BY <1>1, <1>2, <1>3, <1>5
<1>8. b \in Blocks
  <2>1. (full + 1) * WordBits = full * WordBits + WordBits
    BY <1>1, <1>2
  <2>2. QED
    BY <1>1, <1>2, <1>4, <1>5, <2>1 DEF Blocks
<1>9. k \notin FormattedMap[w]
  <2>1. w \in WordIds /\ WordCount - 1 = full
    BY <1>1, <1>3, <1>4, <1>6 DEF WordIds
  <2>2. WordBits - OccupyBlocks = rest
    BY <1>1, <1>2 DEF OccupyBlocks, rest
  <2>3. QED
    BY <1>1, <1>2, <1>3, <1>7, <2>1, <2>2 DEF FormattedMap
<1>10. QED
  BY <1>8, <1>9 DEF Marked, w, k

\* A block that is held, lost or claimed.
Used(b) == b \in held \cup leaked \/ \E q \in Procs : pc[q] = "claimed" /\ blk[q] = b

\* A step that marks no block and takes none away keeps what is marked used.
LEMMA UsedKept ==
    ASSUME IndInv, MarkedIsUsed, \A b \in 0 .. BlockCount - 1 :
             Marked(map', b) => Used(b)' \/ (Marked(map, b) /\ (Used(b) => Used(b)'))
    PROVE  MarkedIsUsed'
<1>1. ASSUME NEW b \in 0 .. BlockCount - 1, Marked(map', b) PROVE Used(b)'
  BY <1>1 DEF MarkedIsUsed, Marked, Used, Claimed
<1>2. QED
  BY <1>1 DEF MarkedIsUsed, Marked, Used, Claimed

\* Every step of every process keeps what is marked used.
LEMMA MarkedStep ==
    ASSUME Deletable \subseteq 0 .. IntBits - 2, IndInv, MarkedIsUsed,
           \A b \in 0 .. BlockCount - 1 : b \in Blocks, NEW p \in Procs, Step(p)
    PROVE  MarkedIsUsed'
<1>1. /\ pc \in [Procs -> {"idle", "search", "claimed", "failed", "delete"}]
      /\ blk \in [Procs -> Blocks \cup {NoBlock}]
      /\ held \in SUBSET Blocks
  BY DEF IndInv, TypeOK
<1>2. ASSUME UNCHANGED <<map, held, leaked>>,
             \A q \in Procs : pc[q] = "claimed" => pc'[q] = "claimed" /\ blk'[q] = blk[q]
      PROVE  MarkedIsUsed'
  BY <1>2, UsedKept DEF Marked, Used
<1>3. ASSUME BeginUpdate(p) \/ NoSpaceLeft(p) \/ NextWord(p) \/ SearchFails(p) \/ UpdateFails(p)
             \/ MissRelease(p) \/ (\E b \in Bits : MissBit(p, b))
             \/ \E b \in Blocks : BeginDelete(p, b)
      PROVE  MarkedIsUsed'
  <2>1. UNCHANGED <<map, held, leaked>>
    BY <1>3 DEF BeginUpdate, NoSpaceLeft, NextWord, SearchFails, UpdateFails, MissRelease, MissBit,
                BeginDelete
  <2>2. pc[p] # "claimed"
    BY <1>3 DEF BeginUpdate, NoSpaceLeft, NextWord, SearchFails, UpdateFails, MissRelease, MissBit,
                BeginDelete
  <2>3. \A q \in Procs : q # p => pc'[q] = pc[q] /\ blk'[q] = blk[q]
    BY <1>1, <1>3 DEF BeginUpdate, NoSpaceLeft, NextWord, SearchFails, UpdateFails, MissRelease,
                      MissBit, BeginDelete
  <2>4. QED
    BY <1>2, <2>1, <2>2, <2>3
<1>4. ASSUME NEW b \in Bits, ClaimBit(p, b) PROVE MarkedIsUsed'
  <2> DEFINE new == BlockAt(word[p], b)
  <2>1. /\ new \in Blocks
        /\ blk' = [blk EXCEPT ![p] = new]
        /\ \A c \in Blocks : c # new => (Marked(map', c) <=> Marked(map, c))
    BY <1>4, ClaimMarks DEF IndInv
  <2>2. pc[p] = "search" /\ pc' = [pc EXCEPT ![p] = "claimed"] /\ UNCHANGED <<held, leaked>>
    BY <1>4 DEF ClaimBit
  <2> HIDE DEF new
  <2>3. pc'[p] = "claimed" /\ blk'[p] = new
    BY <1>1, <2>1, <2>2
  <2>4. \A q \in Procs : pc[q] = "claimed" => pc'[q] = "claimed" /\ blk'[q] = blk[q]
    BY <1>1, <2>1, <2>2
  <2>5. \A c \in 0 .. BlockCount - 1 :
          Marked(map', c) => Used(c)' \/ (Marked(map, c) /\ (Used(c) => Used(c)'))
    BY <2>1, <2>2, <2>3, <2>4 DEF Used
  <2>6. QED
    BY <2>5, UsedKept
<1>5. ASSUME StoreFragment(p) \/ Crash(p) PROVE MarkedIsUsed'
  <2>1. map' = map /\ held \subseteq held' /\ leaked \subseteq leaked'
    BY <1>5 DEF StoreFragment, Crash
  <2>2. pc[p] = "claimed" => blk[p] \in held' \cup leaked'
    BY <1>5 DEF StoreFragment, Crash
  <2>3. \A q \in Procs : q # p => pc'[q] = pc[q] /\ blk'[q] = blk[q]
    BY <1>1, <1>5 DEF StoreFragment, Crash
  <2>4. \A c : Used(c) => Used(c)'
    BY <2>1, <2>2, <2>3 DEF Used
  <2>5. QED
    BY <2>1, <2>4, UsedKept DEF Marked
<1>6. ASSUME ReleaseBit(p) PROVE MarkedIsUsed'
  <2>1. /\ pc[p] = "delete" /\ leaked' = leaked
        /\ held' = held \ {blk[p]}
        /\ blk' = [blk EXCEPT ![p] = NoBlock]
        /\ pc' = [pc EXCEPT ![p] = "idle"]
    BY <1>6 DEF ReleaseBit
  <2>2. blk[p] \in Blocks /\ BitOf(blk[p]) \in 0 .. IntBits - 2
    BY Zenon, <1>1, <2>1 DEF IndInv, DeletesHeld
  <2>3. /\ \A c \in Blocks : c # blk[p] => (Marked(map', c) <=> Marked(map, c))
        /\ ~ Marked(map', blk[p])
    BY <1>6, <2>2, ReleaseClears DEF IndInv
  <2>4. \A q \in Procs : pc[q] = "claimed" => pc'[q] = "claimed" /\ blk'[q] = blk[q]
    BY <1>1, <2>1
  <2>5. \A c \in Blocks : c # blk[p] => (Used(c) => Used(c)')
    BY <2>1, <2>4 DEF Used
  <2>6. QED
    BY <2>3, <2>5, UsedKept
<1>7. QED
  BY <1>3, <1>4, <1>5, <1>6 DEF Step

\* What fragment_delete() gives back is free again: a block of the volume that is
\* marked in the map belongs to a fragment, is being claimed, or was lost in a
\* crash.  (When the block count is a multiple of the
\* word size, mkfs() marks all blocks of the last word.)
THEOREM MarkedBlocksUsed ==
    ASSUME Deletable \subseteq 0 .. IntBits - 2, BlockCount % WordBits # 0
    PROVE  Spec => []MarkedIsUsed
<1>1. \A b \in 0 .. BlockCount - 1 : b \in Blocks /\ ~ Marked(FormattedMap, b)
  BY NothingMarked
<1>2. Init => MarkedIsUsed
  BY <1>1 DEF Init, MarkedIsUsed, Marked
<1>3. IndInv /\ MarkedIsUsed /\ [Next]_vars => MarkedIsUsed'
  <2>1. IndInv /\ MarkedIsUsed /\ Next => MarkedIsUsed'
    BY <1>1, MarkedStep DEF Next
  <2>2. MarkedIsUsed /\ UNCHANGED vars => MarkedIsUsed'
    BY DEF MarkedIsUsed, Claimed, vars
  <2>3. QED
    BY <2>1, <2>2
<1>4. QED
  BY <1>2, <1>3, Inductive, PTL DEF Spec
=============================================================================
