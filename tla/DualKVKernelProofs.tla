------------------------- MODULE DualKVKernelProofs -------------------------
(***************************************************************************)
(* What TLAPS proves of the forward kernel, for every call, every block    *)
(* size and every order of the CTAs: the output is that of attention       *)
(* without blocks.                                                         *)
(***************************************************************************)
EXTENDS DualKVBackward, Division

-----------------------------------------------------------------------------
(* Lengths and block counts of a call.                                     *)

\* cu_seqlens give every sequence a place of its own in the packed tensors.
LEMMA Lengths ==
  ASSUME NEW L \in Launches, NEW b \in Batch(L)
  PROVE  /\ L.ctx \in Nat /\ L.maxQ \in Nat /\ L.causal \in BOOLEAN
         /\ L.cuQ[b] \in Nat /\ L.cuK[b] \in Nat
         /\ L.cuQ[L.batch] \in Nat /\ L.cuK[L.batch] \in Nat
         /\ QLen(L, b) \in Nat /\ DecLen(L, b) \in Nat /\ KLen(L, b) \in Nat
         /\ KLen(L, b) = L.ctx + DecLen(L, b)
         /\ L.cuQ[b] + QLen(L, b) <= L.cuQ[L.batch]
         /\ L.cuK[b] + DecLen(L, b) <= L.cuK[L.batch]
<1>1. IsLaunch(L)
  BY LaunchesAssumption
<1>2. L.batch \in Nat /\ b \in 0 .. L.batch /\ b + 1 \in 0 .. L.batch /\ L.batch \in 0 .. L.batch
  BY <1>1 DEF IsLaunch, Batch
<1>3. /\ L.cuQ[b] \in Nat /\ L.cuQ[b + 1] \in Nat /\ L.cuQ[L.batch] \in Nat
      /\ L.cuK[b] \in Nat /\ L.cuK[b + 1] \in Nat /\ L.cuK[L.batch] \in Nat
  BY <1>1, <1>2 DEF IsLaunch
<1>4. /\ L.cuQ[b] <= L.cuQ[b + 1] /\ L.cuQ[b + 1] <= L.cuQ[L.batch]
      /\ L.cuK[b] <= L.cuK[b + 1] /\ L.cuK[b + 1] <= L.cuK[L.batch]
  BY <1>1, <1>2 DEF IsLaunch
<1>5. L.ctx \in Nat /\ L.maxQ \in Nat /\ L.causal \in BOOLEAN
  BY <1>1 DEF IsLaunch
<1> QED
  BY <1>3, <1>4, <1>5 DEF QLen, DecLen, KLen

\* A block exists exactly if its first row does, in the context and behind it.
LEMMA Blocks ==
  ASSUME NEW L \in Launches, NEW b \in Batch(L)
  PROVE  /\ BlockM \in Nat \ {0} /\ BlockN \in Nat \ {0}
         /\ CtxBlocks(L) \in Nat /\ DecBlocks(L, b) \in Nat
         /\ \A n \in Int : n < CtxBlocks(L) <=> n * BlockN < L.ctx
         /\ \A n \in Int : n < DecBlocks(L, b) <=> n * BlockN < DecLen(L, b)
<1>1. BlockM \in Nat \ {0} /\ BlockN \in Nat \ {0}
  BY BlocksAssumption
<1>2. L.ctx \in Nat /\ DecLen(L, b) \in Nat
  BY Lengths
<1>3. \A a \in Nat : /\ CeilDiv(a, BlockN) \in Int
                     /\ \A n \in Int : n < CeilDiv(a, BlockN) <=> n * BlockN < a
  BY <1>1, CeilLess DEF CeilDiv
<1>4. \A a \in Nat : CeilDiv(a, BlockN) \in Nat
  <2> TAKE a \in Nat
  <2>1. -1 < CeilDiv(a, BlockN)
    <3>1. (-1) * BlockN < a
      BY <1>1
    <3> QED
      BY <1>3, <3>1
  <2> QED
    BY <1>3, <2>1
<1> QED
  BY <1>1, <1>2, <1>3, <1>4 DEF CtxBlocks, DecBlocks

-----------------------------------------------------------------------------
(* Keys and tiles.                                                         *)

(* The block of key k of a sequence. *)
BlockOf(L, k) == IF k < L.ctx THEN k \div BlockN
                 ELSE CtxBlocks(L) + ((k - L.ctx) \div BlockN)

\* Every key is in a column of one of the blocks the kernel counts.
LEMMA BlockOfFacts ==
  ASSUME NEW L \in Launches, NEW b \in Batch(L), NEW k \in 0 .. KLen(L, b) - 1
  PROVE  /\ BlockOf(L, k) \in Nat
         /\ BlockOf(L, k) < CtxBlocks(L) + DecBlocks(L, b)
         /\ IsContext(L, BlockOf(L, k)) <=> k < L.ctx
         /\ \E j \in 0 .. BlockN - 1 : k = KPos(L, BlockOf(L, k)) + j
<1>1. /\ BlockN \in Nat \ {0} /\ CtxBlocks(L) \in Nat /\ DecBlocks(L, b) \in Nat
      /\ \A n \in Int : n < CtxBlocks(L) <=> n * BlockN < L.ctx
      /\ \A n \in Int : n < DecBlocks(L, b) <=> n * BlockN < DecLen(L, b)
  BY Blocks
<1>2. L.ctx \in Nat /\ DecLen(L, b) \in Nat /\ k \in Nat /\ k < L.ctx + DecLen(L, b)
  BY Lengths
<1>3. CASE k < L.ctx
  <2> DEFINE n == k \div BlockN
  <2>1. n \in Nat /\ BlockN * n <= k /\ k < BlockN * n + BlockN
    BY <1>1, <1>2, DivBounds
  <2> HIDE DEF n
  <2>2. BlockN * n = n * BlockN /\ n * BlockN \in Nat
    BY <1>1, <2>1
  <2>3. n < CtxBlocks(L)
    BY <1>1, <1>2, <1>3, <2>1, <2>2
  <2>4. BlockOf(L, k) = n
    BY <1>3 DEF BlockOf, n
  <2>5. IsContext(L, n) /\ KPos(L, n) = n * BlockN
    BY <2>3 DEF IsContext, KPos
  <2>6. k - n * BlockN \in 0 .. BlockN - 1 /\ k = n * BlockN + (k - n * BlockN)
    BY <1>1, <1>2, <2>1, <2>2
  <2>7. \E j \in 0 .. BlockN - 1 : k = KPos(L, n) + j
    BY <2>5, <2>6
  <2> QED
    BY <1>1, <1>3, <2>1, <2>3, <2>4, <2>5, <2>7
<1>4. CASE ~(k < L.ctx)
  <2> DEFINE n == (k - L.ctx) \div BlockN
  <2>0. k - L.ctx \in Nat /\ k - L.ctx < DecLen(L, b)
    BY <1>2, <1>4
  <2>1. n \in Nat /\ BlockN * n <= k - L.ctx /\ k - L.ctx < BlockN * n + BlockN
    BY <1>1, <2>0, DivBounds
  <2> HIDE DEF n
  <2>2. BlockN * n = n * BlockN /\ n * BlockN \in Nat
    BY <1>1, <2>1
  <2>3. n < DecBlocks(L, b)
    BY <1>1, <1>2, <2>0, <2>1, <2>2
  <2>4. BlockOf(L, k) = CtxBlocks(L) + n
    BY <1>4 DEF BlockOf, n
  <2>5. ~IsContext(L, CtxBlocks(L) + n) /\ KPos(L, CtxBlocks(L) + n) = L.ctx + n * BlockN
    BY <1>1, <2>1 DEF IsContext, KPos
  <2>6. k - L.ctx - n * BlockN \in 0 .. BlockN - 1 /\ k = L.ctx + n * BlockN + (k - L.ctx - n * BlockN)
    BY <1>1, <1>2, <2>0, <2>1, <2>2
  <2>7. \E j \in 0 .. BlockN - 1 : k = KPos(L, CtxBlocks(L) + n) + j
    BY <2>5, <2>6
  <2> QED
    BY <1>1, <1>4, <2>1, <2>3, <2>4, <2>5, <2>7
<1> QED
  BY <1>3, <1>4

(* A row of K holds one key of a sequence. *)
LEMMA KeyRowInjective ==
  ASSUME NEW L \in Launches, NEW b \in Batch(L),
         NEW k \in 0 .. KLen(L, b) - 1, NEW l \in 0 .. KLen(L, b) - 1,
         KeyRow(L, b, k) = KeyRow(L, b, l)
  PROVE  k = l
<1>1. L.ctx \in Nat /\ L.cuK[b] \in Nat /\ KLen(L, b) \in Nat
  BY Lengths
<1> QED
  BY <1>1 DEF KeyRow

(* Column j of block n, where it is not masked, is a key of block n. *)
LEMMA ColumnIsKey ==
  ASSUME NEW L \in Launches, NEW b \in Batch(L), NEW n \in Nat,
         NEW j \in 0 .. BlockN - 1, j < ValidK(L, b, n)
  PROVE  /\ KPos(L, n) + j \in 0 .. KLen(L, b) - 1
         /\ BlockOf(L, KPos(L, n) + j) = n
         /\ KeyRow(L, b, KPos(L, n) + j) = RowAt(L, b, n, j)
<1>1. /\ BlockN \in Nat \ {0} /\ CtxBlocks(L) \in Nat /\ DecBlocks(L, b) \in Nat
      /\ \A x \in Int : x < CtxBlocks(L) <=> x * BlockN < L.ctx
  BY Blocks
<1>2. /\ L.ctx \in Nat /\ DecLen(L, b) \in Nat /\ L.cuK[b] \in Nat
      /\ KLen(L, b) = L.ctx + DecLen(L, b)
  BY Lengths
<1>3. CASE IsContext(L, n)
  <2>1. n * BlockN \in Nat /\ BlockN * n = n * BlockN
    BY <1>1
  <2>2. KPos(L, n) = n * BlockN /\ RowAt(L, b, n, j) = n * BlockN + j
    BY <1>3 DEF KPos, RowAt
  <2>3. j < L.ctx - n * BlockN
    BY <1>1, <1>2, <1>3, <2>1 DEF ValidK, MinOf
  <2>4. n * BlockN + j \in Nat /\ n * BlockN + j < L.ctx
    BY <1>1, <1>2, <2>1, <2>3
  <2>5. (n * BlockN + j) \div BlockN = n
    BY <1>1, DivOfSum
  <2> QED
    BY SMTT(30), <1>1, <1>2, <2>2, <2>4, <2>5 DEF BlockOf, KeyRow
<1>4. CASE ~IsContext(L, n)
  <2> DEFINE d == n - CtxBlocks(L)
  <2>0. d \in Nat /\ n = CtxBlocks(L) + d
    BY <1>1, <1>4 DEF IsContext
  <2>1. d * BlockN \in Nat /\ BlockN * d = d * BlockN
    BY <1>1, <2>0
  <2>2. KPos(L, n) = L.ctx + d * BlockN /\ RowAt(L, b, n, j) = L.ctx + L.cuK[b] + d * BlockN + j
    BY <1>4 DEF KPos, RowAt
  <2>3. j < DecLen(L, b) - d * BlockN
    BY <1>1, <1>2, <1>4, <2>1 DEF ValidK, MinOf
  <2> HIDE DEF d
  <2>4. d * BlockN + j \in Nat /\ d * BlockN + j < DecLen(L, b)
    BY <1>1, <1>2, <2>1, <2>3
  <2>5. (d * BlockN + j) \div BlockN = d
    BY <1>1, <2>0, DivOfSum
  <2> DEFINE k == KPos(L, n) + j
  <2>6. k - L.ctx = d * BlockN + j /\ ~(k < L.ctx) /\ k \in 0 .. KLen(L, b) - 1
    BY <1>1, <1>2, <2>1, <2>2, <2>4
  <2>7. BlockOf(L, k) = n
    <3>1. BlockOf(L, k) = CtxBlocks(L) + ((k - L.ctx) \div BlockN)
      BY <2>6 DEF BlockOf
    <3> QED
      BY <2>0, <2>5, <2>6, <3>1
  <2>8. KeyRow(L, b, k) = RowAt(L, b, n, j)
    BY <1>1, <1>2, <2>1, <2>2, <2>6 DEF KeyRow
  <2> QED
    BY <2>6, <2>7, <2>8
<1> QED
  BY <1>3, <1>4

(* A tile holds exactly the keys of its block that the mask lets through. *)
LEMMA TileHolds ==
  ASSUME NEW L \in Launches, NEW b \in Batch(L), NEW n \in Nat, NEW i \in Int,
         NEW row \in KRows(L)
  PROVE  TileKeys(L, b, n, i)[row] = 1 <=>
           \E k \in 0 .. KLen(L, b) - 1 :
             BlockOf(L, k) = n /\ k < ColLimit(L, b, i) /\ KeyRow(L, b, k) = row
<1>1. BlockN \in Nat \ {0} /\ CtxBlocks(L) \in Nat
  BY Blocks
<1>2. TileKeys(L, b, n, i)[row] = 1 <=>
        \E j \in 0 .. BlockN - 1 : Unmasked(L, b, n, i, j) /\ RowAt(L, b, n, j) = row
  BY DEF TileKeys
<1>3. ASSUME NEW j \in 0 .. BlockN - 1, Unmasked(L, b, n, i, j), RowAt(L, b, n, j) = row
      PROVE  \E k \in 0 .. KLen(L, b) - 1 :
               BlockOf(L, k) = n /\ k < ColLimit(L, b, i) /\ KeyRow(L, b, k) = row
  <2>1. j < ValidK(L, b, n) /\ KPos(L, n) + j < ColLimit(L, b, i)
    BY <1>3 DEF Unmasked
  <2>2. /\ KPos(L, n) + j \in 0 .. KLen(L, b) - 1
        /\ BlockOf(L, KPos(L, n) + j) = n
        /\ KeyRow(L, b, KPos(L, n) + j) = row
    BY <1>3, <2>1, ColumnIsKey
  <2> QED
    BY <2>1, <2>2
<1>4. ASSUME NEW k \in 0 .. KLen(L, b) - 1,
             BlockOf(L, k) = n, k < ColLimit(L, b, i), KeyRow(L, b, k) = row
      PROVE  \E j \in 0 .. BlockN - 1 : Unmasked(L, b, n, i, j) /\ RowAt(L, b, n, j) = row
  <2>1. IsContext(L, n) <=> k < L.ctx
    BY <1>4, BlockOfFacts
  <2>2. PICK j \in 0 .. BlockN - 1 : k = KPos(L, n) + j
    BY <1>4, BlockOfFacts
  <2>3. /\ L.ctx \in Nat /\ DecLen(L, b) \in Nat /\ L.cuK[b] \in Nat
        /\ KLen(L, b) = L.ctx + DecLen(L, b)
    BY Lengths
  <2>4. j < ValidK(L, b, n) /\ RowAt(L, b, n, j) = row
    <3>1. CASE IsContext(L, n)
      <4>1. k = n * BlockN + j /\ k < L.ctx /\ n * BlockN \in Nat
        BY <1>1, <2>1, <2>2, <3>1 DEF KPos
      <4>2. row = k
        BY <1>4, <4>1 DEF KeyRow
      <4> QED
        BY <1>1, <2>3, <3>1, <4>1, <4>2 DEF ValidK, RowAt, MinOf
    <3>2. CASE ~IsContext(L, n)
      <4> DEFINE d == (n - CtxBlocks(L)) * BlockN
      <4>0. d \in Int
        BY <1>1
      <4>1. k = L.ctx + d + j /\ ~(k < L.ctx)
        BY <2>1, <2>2, <3>2 DEF KPos
      <4>2. row = L.cuK[b] + k
        BY <1>4, <4>1 DEF KeyRow
      <4>3. /\ ValidK(L, b, n) = MinOf(BlockN, DecLen(L, b) - d)
            /\ RowAt(L, b, n, j) = L.ctx + L.cuK[b] + d + j
        BY <3>2 DEF ValidK, RowAt
      <4> HIDE DEF d
      <4> QED
        BY <1>1, <2>3, <4>0, <4>1, <4>2, <4>3 DEF MinOf
    <3> QED
      BY <3>1, <3>2
  <2> WITNESS j \in 0 .. BlockN - 1
  <2> QED
    BY <1>4, <2>2, <2>4 DEF Unmasked
<1> QED
  BY <1>2, <1>3, <1>4

\* The column limit of the causal mask is the relation of the abstract attention.
LEMMA LimitIsAttends ==
  ASSUME NEW L \in Launches, NEW b \in Batch(L), NEW i \in Int,
         NEW k \in 0 .. KLen(L, b) - 1
  PROVE  k < ColLimit(L, b, i) <=> Attends(L, b, i, k)
<1>1. KLen(L, b) \in Nat /\ QLen(L, b) \in Nat /\ L.causal \in BOOLEAN
  BY Lengths
<1>2. CASE L.causal
  <2>1. ColLimit(L, b, i) = MinOf(KLen(L, b), i + 1 + KLen(L, b) - QLen(L, b))
    BY <1>2 DEF ColLimit
  <2>2. Attends(L, b, i, k) <=> k <= i + KLen(L, b) - QLen(L, b)
    BY <1>2 DEF Attends
  <2> QED
    BY <1>1, <2>1, <2>2 DEF MinOf
<1>3. CASE ~L.causal
  <2>1. ColLimit(L, b, i) = MinOf(KLen(L, b), KLen(L, b)) /\ Attends(L, b, i, k)
    BY <1>3 DEF ColLimit, Attends
  <2> QED
    BY <1>1, <2>1 DEF MinOf
<1> QED
  BY <1>1, <1>2, <1>3

\* The bounds of the n_block loop are integers (a query block may see no key).
LEMMA NBlockMaxType ==
  ASSUME NEW L \in Launches, NEW b \in Batch(L), NEW m \in Nat
  PROVE  /\ NBlockMax(L, b, m) \in Int
         /\ KLen(L, b) - QLen(L, b) + (m + 1) * BlockM \in Int
<1>1. /\ BlockM \in Nat \ {0} /\ BlockN \in Nat \ {0}
      /\ CtxBlocks(L) \in Nat /\ DecBlocks(L, b) \in Nat
  BY Blocks
<1>2. L.ctx \in Nat /\ KLen(L, b) \in Nat /\ QLen(L, b) \in Nat /\ L.causal \in BOOLEAN
  BY Lengths
<1> DEFINE needed == KLen(L, b) - QLen(L, b) + (m + 1) * BlockM
<1>3. needed \in Int
  BY <1>1, <1>2
<1>4. CeilDiv(needed, BlockN) \in Int /\ CeilDiv(needed - L.ctx, BlockN) \in Int
  <2> HIDE DEF needed
  <2> QED
    BY <1>1, <1>2, <1>3, CeilLess DEF CeilDiv
<1>5. NBlockMax(L, b, m) \in Int
  BY <1>1, <1>4 DEF NBlockMax, MinOf
<1> QED
  BY <1>3, <1>5

(* The blocks the kernel visits are all those with a key to attend to. *)
LEMMA VisitsAll ==
  ASSUME NEW L \in Launches, NEW b \in Batch(L), NEW m \in Nat,
         NEW i \in Int, i < (m + 1) * BlockM,
         NEW k \in 0 .. KLen(L, b) - 1, Attends(L, b, i, k)
  PROVE  BlockOf(L, k) < NBlockMax(L, b, m)
<1> DEFINE n == BlockOf(L, k)
           all == CtxBlocks(L) + DecBlocks(L, b)
           needed == KLen(L, b) - QLen(L, b) + (m + 1) * BlockM
<1>1. /\ BlockM \in Nat \ {0} /\ BlockN \in Nat \ {0}
      /\ CtxBlocks(L) \in Nat /\ DecBlocks(L, b) \in Nat
      /\ \A x \in Int : x < CtxBlocks(L) <=> x * BlockN < L.ctx
  BY Blocks
<1>2. L.ctx \in Nat /\ KLen(L, b) \in Nat /\ QLen(L, b) \in Nat /\ L.causal \in BOOLEAN
  BY Lengths
<1>3. /\ n \in Nat /\ n < all
      /\ IsContext(L, n) <=> k < L.ctx
      /\ \E j \in 0 .. BlockN - 1 : k = KPos(L, n) + j
  BY BlockOfFacts
<1>4. needed \in Int /\ NBlockMax(L, b, m) \in Int
  BY NBlockMaxType
<1>5. CASE ~L.causal
  BY <1>3, <1>5 DEF NBlockMax
<1>6. CASE L.causal
  <2>1. k < needed
    <3>1. k <= i + KLen(L, b) - QLen(L, b)
      BY <1>6 DEF Attends
    <3>2. (m + 1) * BlockM \in Int
      BY <1>1
    <3> QED
      BY <1>2, <3>1, <3>2
  <2>2. NBlockMax(L, b, m) =
          MinOf(all, IF needed <= L.ctx THEN CeilDiv(needed, BlockN)
                     ELSE CtxBlocks(L) + CeilDiv(needed - L.ctx, BlockN))
    BY <1>6 DEF NBlockMax
  <2> HIDE DEF needed, n, all
  <2>3. /\ CeilDiv(needed, BlockN) \in Int /\ CeilDiv(needed - L.ctx, BlockN) \in Int
        /\ \A x \in Int : x < CeilDiv(needed, BlockN) <=> x * BlockN < needed
        /\ \A x \in Int : x < CeilDiv(needed - L.ctx, BlockN) <=> x * BlockN < needed - L.ctx
    <3>1. \A a \in Int : /\ CeilDiv(a, BlockN) \in Int
                        /\ \A x \in Int : x < CeilDiv(a, BlockN) <=> x * BlockN < a
      BY <1>1, CeilLess DEF CeilDiv
    <3>2. needed \in Int /\ needed - L.ctx \in Int
      BY <1>2, <1>4
    <3> QED
      BY <3>1, <3>2
  <2>4. PICK j \in 0 .. BlockN - 1 : k = KPos(L, n) + j
    BY <1>3
  <2>5. n < (IF needed <= L.ctx THEN CeilDiv(needed, BlockN)
             ELSE CtxBlocks(L) + CeilDiv(needed - L.ctx, BlockN))
    <3>1. CASE needed <= L.ctx
      <4>1. IsContext(L, n)
        BY <1>2, <1>3, <1>4, <2>1, <3>1
      <4>2. n * BlockN \in Int /\ n * BlockN <= k
        BY <1>1, <1>3, <2>4, <4>1 DEF KPos
      <4>3. n * BlockN < needed
        BY <1>4, <2>1, <4>2
      <4> QED
        BY <1>3, <2>3, <3>1, <4>3
    <3>2. CASE ~(needed <= L.ctx) /\ IsContext(L, n)
      <4>1. n < CtxBlocks(L)
        BY <3>2 DEF IsContext
      <4>2. 0 * BlockN < needed - L.ctx
        BY <1>1, <1>2, <1>4, <3>2
      <4>3. 0 < CeilDiv(needed - L.ctx, BlockN)
        BY <2>3, <4>2
      <4> QED
        BY <1>1, <1>3, <2>3, <3>2, <4>1, <4>3
    <3>3. CASE ~(needed <= L.ctx) /\ ~IsContext(L, n)
      <4> DEFINE d == n - CtxBlocks(L)
      <4>1. d \in Int /\ d * BlockN \in Int /\ n = CtxBlocks(L) + d
        BY <1>1, <1>3
      <4>2. k = L.ctx + d * BlockN + j
        BY <2>4, <3>3 DEF KPos
      <4> HIDE DEF d
      <4>3. d * BlockN < needed - L.ctx
        BY <1>1, <1>2, <1>4, <2>1, <4>1, <4>2
      <4>4. d < CeilDiv(needed - L.ctx, BlockN)
        BY <2>3, <4>1, <4>3
      <4> QED
        BY <1>1, <2>3, <3>3, <4>1, <4>4
    <3> QED
      BY <3>1, <3>2, <3>3
  <2>6. all \in Nat
    BY <1>1 DEF all
  <2>7. n < NBlockMax(L, b, m)
    BY <1>3, <2>2, <2>3, <2>5, <2>6 DEF MinOf
  <2> QED
    BY <2>7 DEF n
<1> QED
  BY <1>2, <1>5, <1>6

-----------------------------------------------------------------------------
(* What a query has seen of the blocks lo .. hi - 1.                       *)

Seen(L, b, lo, hi, i) ==
  [row \in KRows(L) |->
     IF \E n \in lo .. hi - 1 : TileKeys(L, b, n, i)[row] = 1 THEN 1 ELSE 0]

\* No block, no keys.
LEMMA SeenNothing ==
  ASSUME NEW L \in Launches, NEW b \in Batch(L), NEW lo \in Int, NEW hi \in Int, hi <= lo,
         NEW i \in Int
  PROVE  Seen(L, b, lo, hi, i) = NoKeys(L)
<1>1. lo .. hi - 1 = {}
  OBVIOUS
<1> QED
  BY <1>1 DEF Seen, NoKeys

(* No key is seen twice. *)
LEMMA SeenOneMore ==
  ASSUME NEW L \in Launches, NEW b \in Batch(L), NEW n \in Nat, NEW hi \in Int, n < hi,
         NEW i \in Int
  PROVE  [row \in KRows(L) |-> Seen(L, b, n + 1, hi, i)[row] + TileKeys(L, b, n, i)[row]]
           = Seen(L, b, n, hi, i)
<1>1. ASSUME NEW row \in KRows(L)
      PROVE  Seen(L, b, n + 1, hi, i)[row] + TileKeys(L, b, n, i)[row] = Seen(L, b, n, hi, i)[row]
  <2> DEFINE In(x) == TileKeys(L, b, x, i)[row] = 1
  <2>1. \A x \in Nat : TileKeys(L, b, x, i)[row] = IF In(x) THEN 1 ELSE 0
    BY DEF TileKeys
  <2>2. \A lo \in Nat : Seen(L, b, lo, hi, i)[row] = IF \E x \in lo .. hi - 1 : In(x) THEN 1 ELSE 0
    BY DEF Seen
  <2>3. ASSUME NEW x \in Nat, NEW y \in Nat, In(x), In(y) PROVE x = y
    <3>1. PICK k \in 0 .. KLen(L, b) - 1 : BlockOf(L, k) = x /\ KeyRow(L, b, k) = row
      BY <2>3, TileHolds
    <3>2. PICK l \in 0 .. KLen(L, b) - 1 : BlockOf(L, l) = y /\ KeyRow(L, b, l) = row
      BY <2>3, TileHolds
    <3>3. k = l
      BY <3>1, <3>2, KeyRowInjective
    <3> QED
      BY <3>1, <3>2, <3>3
  <2> HIDE DEF In
  <2>4. (\E x \in n .. hi - 1 : In(x)) <=> In(n) \/ \E x \in n + 1 .. hi - 1 : In(x)
    <3>1. n \in n .. hi - 1 /\ \A x \in n .. hi - 1 : x = n \/ x \in n + 1 .. hi - 1
      OBVIOUS
    <3>2. \A x \in n + 1 .. hi - 1 : x \in n .. hi - 1
      OBVIOUS
    <3> QED
      BY <3>1, <3>2
  <2>5. ~(In(n) /\ \E x \in n + 1 .. hi - 1 : In(x))
    <3>1. \A x \in n + 1 .. hi - 1 : x \in Nat /\ x # n
      OBVIOUS
    <3> QED
      BY <2>3, <3>1
  <2>6. /\ TileKeys(L, b, n, i)[row] = IF In(n) THEN 1 ELSE 0
        /\ Seen(L, b, n, hi, i)[row] = IF \E x \in n .. hi - 1 : In(x) THEN 1 ELSE 0
        /\ Seen(L, b, n + 1, hi, i)[row] = IF \E x \in n + 1 .. hi - 1 : In(x) THEN 1 ELSE 0
    BY <2>1, <2>2
  <2> QED
    BY <2>4, <2>5, <2>6
<1>2. Seen(L, b, n, hi, i) = [row \in KRows(L) |-> Seen(L, b, n, hi, i)[row]]
  BY DEF Seen
<1> QED
  BY <1>1, <1>2

(* All the blocks together hold the keys of the query. *)
LEMMA SeenAll ==
  ASSUME NEW L \in Launches, NEW b \in Batch(L), NEW m \in Nat,
         NEW i \in Int, i < (m + 1) * BlockM
  PROVE  Seen(L, b, 0, NBlockMax(L, b, m), i) = KeysOf(L, b, i)
<1> DEFINE max == NBlockMax(L, b, m)
<1>0. max \in Int
  BY NBlockMaxType
<1>1. ASSUME NEW row \in KRows(L)
      PROVE  (\E n \in 0 .. max - 1 : TileKeys(L, b, n, i)[row] = 1)
               <=> \E k \in 0 .. KLen(L, b) - 1 : Attends(L, b, i, k) /\ KeyRow(L, b, k) = row
  <2>1. ASSUME NEW n \in 0 .. max - 1, TileKeys(L, b, n, i)[row] = 1
        PROVE  \E k \in 0 .. KLen(L, b) - 1 : Attends(L, b, i, k) /\ KeyRow(L, b, k) = row
    <3>1. n \in Nat
      BY <1>0
    <3>2. PICK k \in 0 .. KLen(L, b) - 1 : k < ColLimit(L, b, i) /\ KeyRow(L, b, k) = row
      BY <2>1, <3>1, TileHolds
    <3>3. Attends(L, b, i, k)
      BY <3>2, LimitIsAttends
    <3> QED
      BY <3>2, <3>3
  <2>2. ASSUME NEW k \in 0 .. KLen(L, b) - 1, Attends(L, b, i, k), KeyRow(L, b, k) = row
        PROVE  \E n \in 0 .. max - 1 : TileKeys(L, b, n, i)[row] = 1
    <3>1. BlockOf(L, k) < max /\ BlockOf(L, k) \in Nat
      BY <2>2, VisitsAll, BlockOfFacts
    <3>2. k < ColLimit(L, b, i)
      BY <2>2, LimitIsAttends
    <3>3. TileKeys(L, b, BlockOf(L, k), i)[row] = 1
      BY <2>2, <3>1, <3>2, TileHolds
    <3>4. BlockOf(L, k) \in 0 .. max - 1
      BY <1>0, <3>1
    <3> QED
      BY <3>3, <3>4
  <2> QED
    BY <2>1, <2>2
<1> QED
  BY <1>1 DEF Seen, KeysOf

-----------------------------------------------------------------------------
(* Rows of the output.                                                     *)

(* A row of the output is one query of one sequence. *)
LEMMA RowUnique ==
  ASSUME NEW L \in Launches, NEW b \in Batch(L), NEW c \in Batch(L),
         NEW x \in 0 .. QLen(L, b) - 1, NEW y \in 0 .. QLen(L, c) - 1,
         L.cuQ[b] + x = L.cuQ[c] + y
  PROVE  b = c /\ x = y
<1>1. /\ L.batch \in Nat /\ b \in 0 .. L.batch /\ b + 1 \in 0 .. L.batch
      /\ c \in 0 .. L.batch /\ c + 1 \in 0 .. L.batch /\ b \in Nat /\ c \in Nat
  BY LaunchesAssumption DEF IsLaunch, Batch
<1>2. \A d, e \in 0 .. L.batch : /\ L.cuQ[d] \in Nat /\ L.cuQ[e] \in Nat
                                 /\ d <= e => L.cuQ[d] <= L.cuQ[e]
  BY LaunchesAssumption DEF IsLaunch
<1>3. /\ L.cuQ[b] \in Nat /\ L.cuQ[b + 1] \in Nat /\ L.cuQ[c] \in Nat /\ L.cuQ[c + 1] \in Nat
      /\ b + 1 <= c => L.cuQ[b + 1] <= L.cuQ[c]
      /\ c + 1 <= b => L.cuQ[c + 1] <= L.cuQ[b]
  BY <1>1, <1>2
<1>4. x \in Nat /\ y \in Nat /\ x < L.cuQ[b + 1] - L.cuQ[b] /\ y < L.cuQ[c + 1] - L.cuQ[c]
  BY <1>3 DEF QLen
<1>5. ~(b + 1 <= c) /\ ~(c + 1 <= b)
  BY <1>3, <1>4
<1>6. b = c
  BY <1>1, <1>5
<1> QED
  BY <1>3, <1>4, <1>6

(* A query of a sequence is in one lane of one block. *)
LEMMA LaneUnique ==
  ASSUME NEW m \in Nat, NEW n \in Nat, NEW i \in Lanes, NEW j \in Lanes,
         m * BlockM + i = n * BlockM + j
  PROVE  m = n /\ i = j
<1>1. BlockM \in Nat \ {0} /\ i \in 0 .. BlockM - 1 /\ j \in 0 .. BlockM - 1
  BY BlocksAssumption DEF Lanes
<1>2. (m * BlockM + i) \div BlockM = m /\ (n * BlockM + j) \div BlockM = n
  BY <1>1, DivOfSum
<1>3. m = n
  BY <1>2
<1>4. m * BlockM \in Int
  BY <1>1
<1> QED
  BY <1>1, <1>3, <1>4

-----------------------------------------------------------------------------
(* The inductive invariant.                                                *)

(* The sums of a CTA in its loop are what its queries have seen. *)
LoopSum(c) ==
  [i \in Lanes |-> Seen(launch, c.b, nblk[c] + 1, NBlockMax(launch, c.b, c.m), Query(c, i))]

StartInv == \A c \in CTAs(launch) : pc[c] = "start" => acc[c] = Nothing

LoopInv ==
  \A c \in CTAs(launch) : pc[c] = "loop" =>
    /\ -1 <= nblk[c] /\ nblk[c] < NBlockMax(launch, c.b, c.m)
    /\ acc[c] = LoopSum(c)

(* Nobody writes the rows of a CTA before it does. *)
OutputInv ==
  \A c \in CTAs(launch) : pc[c] # "exit" =>
    \A i \in Lanes : Stores(c, i) => o[launch.cuQ[c.b] + Query(c, i)] = {}

IInv == TypeOK /\ StartInv /\ LoopInv /\ OutputInv

\* What a CTA knows of its sequence and its rows.
LEMMA CTAFacts ==
  ASSUME launch \in Launches, NEW c \in CTAs(launch)
  PROVE  /\ c.b \in Batch(launch) /\ c.m \in Nat
         /\ NBlockMax(launch, c.b, c.m) \in Int
         /\ launch.cuQ[c.b] \in Nat /\ QLen(launch, c.b) \in Nat
         /\ c.m * BlockM \in Nat
         /\ \A i \in Lanes : /\ i \in Nat /\ Query(c, i) \in Nat
                             /\ Query(c, i) < (c.m + 1) * BlockM
<1>1. c.b \in Batch(launch) /\ c.m \in Nat
  <2>1. launch.maxQ \in Nat /\ BlockM \in Nat \ {0}
    BY LaunchesAssumption, BlocksAssumption DEF IsLaunch
  <2> QED
    BY <2>1 DEF CTAs
<1>2. BlockM \in Nat \ {0}
  BY BlocksAssumption
<1>3. c.m * BlockM \in Nat /\ (c.m + 1) * BlockM = c.m * BlockM + BlockM
  BY <1>1, <1>2
<1>4. NBlockMax(launch, c.b, c.m) \in Int
  BY <1>1, NBlockMaxType
<1>5. launch.cuQ[c.b] \in Nat /\ QLen(launch, c.b) \in Nat
  BY <1>1, Lengths
<1>6. \A i \in Lanes : /\ i \in Nat /\ Query(c, i) \in Nat
                       /\ Query(c, i) < (c.m + 1) * BlockM
  BY <1>2, <1>3 DEF Lanes, Query
<1> QED
  BY <1>1, <1>3, <1>4, <1>5, <1>6

(* A stored lane has a row of the output, of its own. *)
LEMMA StoredRow ==
  ASSUME launch \in Launches, NEW c \in CTAs(launch), NEW i \in Lanes, Stores(c, i)
  PROVE  /\ launch.cuQ[c.b] + Query(c, i) \in QRows(launch)
         /\ Query(c, i) \in 0 .. QLen(launch, c.b) - 1
         /\ (launch.cuQ[c.b] + Query(c, i)) - launch.cuQ[c.b] - c.m * BlockM = i
         /\ (launch.cuQ[c.b] + Query(c, i)) - launch.cuQ[c.b] = Query(c, i)
<1>1. /\ c.b \in Batch(launch) /\ launch.cuQ[c.b] \in Nat /\ QLen(launch, c.b) \in Nat
      /\ Query(c, i) \in Nat /\ c.m * BlockM \in Nat /\ i \in Nat
  BY CTAFacts
<1>2. Query(c, i) < QLen(launch, c.b) /\ Query(c, i) = c.m * BlockM + i
  BY DEF Stores, Query
<1>3. /\ launch.cuQ[c.b] + QLen(launch, c.b) <= launch.cuQ[launch.batch]
      /\ launch.cuQ[launch.batch] \in Nat
  BY <1>1, Lengths
<1>4. launch.cuQ[c.b] + Query(c, i) \in QRows(launch)
  BY <1>1, <1>2, <1>3 DEF QRows
<1> QED
  BY <1>1, <1>2, <1>4

\* A row of the output is stored by one lane of one CTA.
LEMMA StoredByOne ==
  ASSUME launch \in Launches, NEW c \in CTAs(launch), NEW d \in CTAs(launch),
         NEW i \in Lanes, NEW j \in Lanes, Stores(c, i), Stores(d, j),
         launch.cuQ[c.b] + Query(c, i) = launch.cuQ[d.b] + Query(d, j)
  PROVE  c = d /\ i = j
<1>1. c.b \in Batch(launch) /\ d.b \in Batch(launch) /\ c.m \in Nat /\ d.m \in Nat
  BY CTAFacts
<1>2. /\ Query(c, i) \in 0 .. QLen(launch, c.b) - 1
      /\ Query(d, j) \in 0 .. QLen(launch, d.b) - 1
  BY StoredRow
<1>3. c.b = d.b /\ Query(c, i) = Query(d, j)
  BY <1>1, <1>2, RowUnique
<1>4. c.m = d.m /\ i = j
  BY <1>1, <1>3, LaneUnique DEF Query
<1> QED
  BY <1>3, <1>4 DEF CTAs

(* What the copy of a tile leaves in the output. *)
LEMMA WrittenRows ==
  ASSUME launch \in Launches, NEW c \in CTAs(launch), NEW tile
  PROVE  /\ Written(c, tile) = [r \in QRows(launch) |-> Written(c, tile)[r]]
         /\ \A i \in Lanes : Stores(c, i) =>
              Written(c, tile)[launch.cuQ[c.b] + Query(c, i)] = {tile[i]}
         /\ \A r \in QRows(launch) :
              (\A i \in Lanes : Stores(c, i) => r # launch.cuQ[c.b] + Query(c, i))
                => Written(c, tile)[r] = o[r]
<1>1. ASSUME NEW i \in Lanes, Stores(c, i)
      PROVE  Written(c, tile)[launch.cuQ[c.b] + Query(c, i)] = {tile[i]}
  <2> DEFINE r == launch.cuQ[c.b] + Query(c, i)
  <2>1. r \in QRows(launch) /\ r - launch.cuQ[c.b] - c.m * BlockM = i
    BY <1>1, StoredRow
  <2>2. \E j \in Lanes : Stores(c, j) /\ r = launch.cuQ[c.b] + Query(c, j)
    BY <1>1
  <2> HIDE DEF r
  <2>3. Written(c, tile)[r] = {tile[r - launch.cuQ[c.b] - c.m * BlockM]}
    BY <2>1, <2>2 DEF Written
  <2>4. Written(c, tile)[r] = {tile[i]}
    BY <2>1, <2>3
  <2> QED
    BY <2>4 DEF r
<1>2. ASSUME NEW r \in QRows(launch),
             \A i \in Lanes : Stores(c, i) => r # launch.cuQ[c.b] + Query(c, i)
      PROVE  Written(c, tile)[r] = o[r]
  BY <1>2 DEF Written
<1>3. Written(c, tile) = [r \in QRows(launch) |-> Written(c, tile)[r]]
  BY DEF Written
<1> QED
  BY <1>1, <1>2, <1>3

\* The epilogue leaves an output of the right type.
LEMMA WrittenType ==
  ASSUME TypeOK, NEW c \in CTAs(launch),
         NEW tile \in [Lanes -> [KRows(launch) -> {0, 1}]]
  PROVE  Written(c, tile) \in [QRows(launch) -> SUBSET [KRows(launch) -> {0, 1}]]
<1>1. launch \in Launches /\ o \in [QRows(launch) -> SUBSET [KRows(launch) -> {0, 1}]]
  BY DEF TypeOK
<1>2. ASSUME NEW r \in QRows(launch)
      PROVE  Written(c, tile)[r] \in SUBSET [KRows(launch) -> {0, 1}]
  <2>1. CASE \E i \in Lanes : Stores(c, i) /\ r = launch.cuQ[c.b] + Query(c, i)
    <3>1. PICK i \in Lanes : Stores(c, i) /\ r = launch.cuQ[c.b] + Query(c, i)
      BY <2>1
    <3>2. Written(c, tile)[launch.cuQ[c.b] + Query(c, i)] = {tile[i]}
      <4>1. \A j \in Lanes : Stores(c, j) =>
              Written(c, tile)[launch.cuQ[c.b] + Query(c, j)] = {tile[j]}
        BY <1>1, WrittenRows
      <4> QED
        BY <3>1, <4>1
    <3>3. tile[i] \in [KRows(launch) -> {0, 1}]
      OBVIOUS
    <3> QED
      BY <3>1, <3>2, <3>3
  <2>2. CASE ~\E i \in Lanes : Stores(c, i) /\ r = launch.cuQ[c.b] + Query(c, i)
    <3>1. Written(c, tile)[r] = o[r]
      BY <1>1, <2>2, WrittenRows
    <3> QED
      BY <1>1, <3>1
  <2> QED
    BY <2>1, <2>2
<1>3. Written(c, tile) = [r \in QRows(launch) |-> Written(c, tile)[r]]
  BY <1>1, WrittenRows
<1> HIDE DEF Written
<1> QED
  BY <1>2, <1>3

\* A cleared accumulator has counted no key.
LEMMA NothingType ==
  /\ Nothing \in [Lanes -> [KRows(launch) -> {0, 1}]]
  /\ Nothing = [i \in Lanes |-> NoKeys(launch)]
BY DEF Nothing, NoKeys

\* What the loop has to have counted at its present block, as a type.
LEMMA LoopSumType ==
  ASSUME NEW c PROVE LoopSum(c) \in [Lanes -> [KRows(launch) -> {0, 1}]]
BY DEF LoopSum, Seen

-----------------------------------------------------------------------------
\* Before any CTA starts the accumulators and the output of the call are empty.
THEOREM InitInv == Init => IInv
<1> SUFFICES ASSUME Init PROVE IInv
  OBVIOUS
<1>1. /\ launch \in Launches /\ pc = [c \in CTAs(launch) |-> "start"]
      /\ nblk = [c \in CTAs(launch) |-> 0] /\ acc = [c \in CTAs(launch) |-> Nothing]
      /\ o = [r \in QRows(launch) |-> {}]
  BY DEF Init
<1>2. TypeOK
  BY <1>1, NothingType DEF TypeOK
<1>3. StartInv /\ LoopInv
  BY <1>1 DEF StartInv, LoopInv
<1>4. OutputInv
  <2> SUFFICES ASSUME NEW c \in CTAs(launch), NEW i \in Lanes, Stores(c, i)
               PROVE  o[launch.cuQ[c.b] + Query(c, i)] = {}
    BY DEF OutputInv
  <2>1. launch.cuQ[c.b] + Query(c, i) \in QRows(launch)
    BY <1>1, StoredRow
  <2> QED
    BY <1>1, <2>1
<1> QED
  BY <1>2, <1>3, <1>4 DEF IInv

(* A CTA that ends with the copy of a tile keeps the invariant. *)
LEMMA StoreKeepsInv ==
  ASSUME IInv, NEW c \in CTAs(launch), pc[c] # "exit",
         NEW tile \in [Lanes -> [KRows(launch) -> {0, 1}]],
         o' = Written(c, tile), pc' = [pc EXCEPT ![c] = "exit"],
         UNCHANGED <<launch, nblk, acc>>
  PROVE  IInv'
<1>1. TypeOK /\ launch \in Launches /\ pc \in [CTAs(launch) -> {"start", "loop", "exit"}]
  BY DEF IInv, TypeOK
<1>2. TypeOK'
  <2>1. o' \in [QRows(launch) -> SUBSET [KRows(launch) -> {0, 1}]]
    BY <1>1, WrittenType
  <2>2. pc' \in [CTAs(launch) -> {"start", "loop", "exit"}]
    BY <1>1
  <2> QED
    BY <1>1, <2>1, <2>2 DEF TypeOK
<1>3. \A d \in CTAs(launch) : pc'[d] = IF d = c THEN "exit" ELSE pc[d]
  BY <1>1
<1>4. StartInv'
  BY <1>3 DEF IInv, StartInv, Nothing, NoKeys
<1>5. LoopInv'
  <2> SUFFICES ASSUME NEW d \in CTAs(launch), pc'[d] = "loop"
               PROVE  /\ -1 <= nblk[d] /\ nblk[d] < NBlockMax(launch, d.b, d.m)
                      /\ acc[d] = LoopSum(d)
    BY DEF LoopInv, LoopSum, Query
  <2> QED
    BY <1>3 DEF IInv, LoopInv
<1>6. OutputInv'
  <2> SUFFICES ASSUME NEW d \in CTAs(launch), pc'[d] # "exit", NEW i \in Lanes, Stores(d, i)
               PROVE  o'[launch.cuQ[d.b] + Query(d, i)] = {}
    BY DEF OutputInv, Stores, Query
  <2> DEFINE r == launch.cuQ[d.b] + Query(d, i)
  <2>1. d # c /\ pc[d] # "exit"
    BY <1>3
  <2>2. r \in QRows(launch)
    BY <1>1, StoredRow
  <2>3. \A j \in Lanes : Stores(c, j) => r # launch.cuQ[c.b] + Query(c, j)
    BY <1>1, <2>1, StoredByOne
  <2>4. o[r] = {}
    BY <2>1 DEF IInv, OutputInv
  <2> HIDE DEF r
  <2>5. Written(c, tile)[r] = o[r]
    BY <1>1, <2>2, <2>3, WrittenRows
  <2>6. o'[r] = {}
    BY <2>4, <2>5
  <2> QED
    BY <2>6 DEF r
<1> QED
  BY <1>2, <1>4, <1>5, <1>6 DEF IInv

\* A CTA whose block of queries is behind the end of its sequence keeps it.
LEMMA ReturnKeepsInv == ASSUME IInv, NEW c \in CTAs(launch), Return(c) PROVE IInv'
<1>1. TypeOK /\ pc \in [CTAs(launch) -> {"start", "loop", "exit"}]
  BY DEF IInv, TypeOK
<1>2. pc' = [pc EXCEPT ![c] = "exit"] /\ UNCHANGED <<launch, nblk, acc, o>>
  BY DEF Return
<1>3. \A d \in CTAs(launch) : pc'[d] = IF d = c THEN "exit" ELSE pc[d]
  BY <1>1, <1>2
<1>4. TypeOK'
  <2>1. pc' \in [CTAs(launch) -> {"start", "loop", "exit"}]
    BY <1>1, <1>2
  <2> QED
    BY <1>1, <1>2, <2>1 DEF TypeOK
<1>5. StartInv'
  BY <1>2, <1>3 DEF IInv, StartInv, Nothing, NoKeys
<1>6. LoopInv'
  <2> SUFFICES ASSUME NEW d \in CTAs(launch), pc'[d] = "loop"
               PROVE  /\ -1 <= nblk[d] /\ nblk[d] < NBlockMax(launch, d.b, d.m)
                      /\ acc[d] = LoopSum(d)
    BY <1>2 DEF LoopInv, LoopSum, Query
  <2> QED
    BY <1>3 DEF IInv, LoopInv
<1>7. OutputInv'
  <2> SUFFICES ASSUME NEW d \in CTAs(launch), pc'[d] # "exit", NEW i \in Lanes, Stores(d, i)
               PROVE  o[launch.cuQ[d.b] + Query(d, i)] = {}
    BY <1>2 DEF OutputInv, Stores, Query
  <2> QED
    BY <1>3 DEF IInv, OutputInv
<1> QED
  BY <1>4, <1>5, <1>6, <1>7 DEF IInv

\* A CTA that enters the n_block loop has seen no key yet.
LEMMA PrologueKeepsInv == ASSUME IInv, NEW c \in CTAs(launch), Prologue(c) PROVE IInv'
<1> DEFINE max == NBlockMax(launch, c.b, c.m)
<1>1. /\ TypeOK /\ launch \in Launches /\ nblk \in [CTAs(launch) -> Int]
      /\ pc \in [CTAs(launch) -> {"start", "loop", "exit"}]
  BY DEF IInv, TypeOK
<1>2. /\ pc[c] = "start" /\ max > 0
      /\ nblk' = [nblk EXCEPT ![c] = max - 1] /\ pc' = [pc EXCEPT ![c] = "loop"]
      /\ UNCHANGED <<launch, acc, o>>
  BY DEF Prologue
<1>3. max \in Int
  BY <1>1, CTAFacts
<1> HIDE DEF max
<1>4. \A d \in CTAs(launch) : /\ pc'[d] = IF d = c THEN "loop" ELSE pc[d]
                              /\ nblk'[d] = IF d = c THEN max - 1 ELSE nblk[d]
  BY <1>1, <1>2
<1>5. TypeOK'
  <2>1. pc' \in [CTAs(launch) -> {"start", "loop", "exit"}] /\ nblk' \in [CTAs(launch) -> Int]
    BY <1>1, <1>2, <1>3
  <2> QED
    BY <1>1, <1>2, <2>1 DEF TypeOK
<1>6. StartInv'
  BY <1>2, <1>4 DEF IInv, StartInv, Nothing, NoKeys
<1>7. LoopInv'
  <2> SUFFICES ASSUME NEW d \in CTAs(launch), pc'[d] = "loop"
               PROVE  /\ -1 <= nblk'[d] /\ nblk'[d] < NBlockMax(launch, d.b, d.m)
                      /\ acc[d] = LoopSum(d)'
    BY <1>2 DEF LoopInv
  <2>1. CASE d = c
    <3>1. nblk'[c] = max - 1
      BY <1>4
    <3>2. \A i \in Lanes : Seen(launch, c.b, nblk'[c] + 1, max, Query(c, i)) = NoKeys(launch)
      <4>1. c.b \in Batch(launch) /\ \A i \in Lanes : Query(c, i) \in Int
        BY <1>1, CTAFacts
      <4>2. nblk'[c] + 1 = max
        BY <1>3, <3>1
      <4> QED
        BY <1>1, <1>3, <4>1, <4>2, SeenNothing
    <3>3. LoopSum(c)' = [i \in Lanes |-> Seen(launch, c.b, nblk'[c] + 1, max, Query(c, i))]
      BY <1>2 DEF LoopSum, Query, max
    <3>4. LoopSum(c)' = Nothing
      BY <3>2, <3>3 DEF Nothing
    <3>5. acc[c] = Nothing
      BY <1>2 DEF IInv, StartInv
    <3>6. -1 <= max - 1 /\ max - 1 < max
      BY <1>2, <1>3
    <3> QED
      BY <2>1, <3>1, <3>4, <3>5, <3>6 DEF max
  <2>2. CASE d # c
    <3>1. nblk'[d] = nblk[d] /\ pc[d] = "loop"
      BY <1>4, <2>2
    <3>2. LoopSum(d)' = LoopSum(d)
      BY <1>2, <3>1 DEF LoopSum, Query
    <3> QED
      BY <3>1, <3>2 DEF IInv, LoopInv
  <2> QED
    BY <2>1, <2>2
<1>8. OutputInv'
  <2> SUFFICES ASSUME NEW d \in CTAs(launch), pc'[d] # "exit", NEW i \in Lanes, Stores(d, i)
               PROVE  o[launch.cuQ[d.b] + Query(d, i)] = {}
    BY <1>2 DEF OutputInv, Stores, Query
  <2>1. pc[d] # "exit"
    BY <1>2, <1>4
  <2> QED
    BY <2>1 DEF IInv, OutputInv
<1> QED
  BY <1>5, <1>6, <1>7, <1>8 DEF IInv

\* One iteration of the n_block loop adds the attended keys of its block.
LEMMA TileKeepsInv == ASSUME IInv, NEW c \in CTAs(launch), Tile(c) PROVE IInv'
<1> DEFINE max == NBlockMax(launch, c.b, c.m)
           sum == [i \in Lanes |-> [row \in KRows(launch) |->
                    acc[c][i][row] + TileKeys(launch, c.b, nblk[c], Query(c, i))[row]]]
<1>1. /\ TypeOK /\ launch \in Launches /\ nblk \in [CTAs(launch) -> Int]
      /\ acc \in [CTAs(launch) -> [Lanes -> [KRows(launch) -> {0, 1}]]]
  BY DEF IInv, TypeOK
<1>2. /\ pc[c] = "loop" /\ nblk[c] >= 0
      /\ acc' = [acc EXCEPT ![c] = sum] /\ nblk' = [nblk EXCEPT ![c] = nblk[c] - 1]
      /\ UNCHANGED <<launch, pc, o>>
  BY DEF Tile
<1>3. max \in Int /\ c.b \in Batch(launch) /\ \A i \in Lanes : Query(c, i) \in Int
  BY <1>1, CTAFacts
<1>4. nblk[c] \in Nat /\ nblk[c] < max
  BY <1>1, <1>2 DEF IInv, LoopInv
<1>5. acc[c] = LoopSum(c)
  BY <1>2 DEF IInv, LoopInv
<1>6. sum = [i \in Lanes |-> Seen(launch, c.b, nblk[c], max, Query(c, i))]
  <2>1. ASSUME NEW i \in Lanes
        PROVE  sum[i] = Seen(launch, c.b, nblk[c], max, Query(c, i))
    <3>1. acc[c][i] = Seen(launch, c.b, nblk[c] + 1, max, Query(c, i))
      BY <1>5 DEF LoopSum
    <3>2. sum[i] = [row \in KRows(launch) |->
                      Seen(launch, c.b, nblk[c] + 1, max, Query(c, i))[row]
                        + TileKeys(launch, c.b, nblk[c], Query(c, i))[row]]
      BY <3>1
    <3> HIDE DEF sum, max
    <3> QED
      BY <1>1, <1>3, <1>4, <3>2, SeenOneMore
  <2>2. sum = [i \in Lanes |-> sum[i]]
    OBVIOUS
  <2> HIDE DEF sum, max
  <2> QED
    BY <2>1, <2>2
<1> HIDE DEF sum, max
<1>7. \A d \in CTAs(launch) : /\ acc'[d] = IF d = c THEN sum ELSE acc[d]
                              /\ nblk'[d] = IF d = c THEN nblk[c] - 1 ELSE nblk[d]
  BY <1>1, <1>2
<1>8. TypeOK'
  <2>1. sum \in [Lanes -> [KRows(launch) -> {0, 1}]]
    BY <1>6 DEF Seen
  <2>2. acc' \in [CTAs(launch) -> [Lanes -> [KRows(launch) -> {0, 1}]]]
    BY <1>1, <1>2, <2>1
  <2>3. nblk' \in [CTAs(launch) -> Int]
    BY <1>1, <1>2, <1>4
  <2> QED
    BY <1>1, <1>2, <2>2, <2>3 DEF TypeOK
<1>9. StartInv'
  <2> SUFFICES ASSUME NEW d \in CTAs(launch), pc[d] = "start" PROVE acc'[d] = Nothing
    BY <1>2 DEF StartInv, Nothing, NoKeys
  <2> QED
    BY <1>2, <1>7 DEF IInv, StartInv
<1>10. LoopInv'
  <2> SUFFICES ASSUME NEW d \in CTAs(launch), pc[d] = "loop"
               PROVE  /\ -1 <= nblk'[d] /\ nblk'[d] < NBlockMax(launch, d.b, d.m)
                      /\ acc'[d] = LoopSum(d)'
    BY <1>2 DEF LoopInv
  <2>1. CASE d = c
    <3>1. nblk'[c] = nblk[c] - 1 /\ nblk'[c] + 1 = nblk[c] /\ acc'[c] = sum
      BY <1>4, <1>7
    <3>2. LoopSum(c)' = [i \in Lanes |-> Seen(launch, c.b, nblk'[c] + 1, max, Query(c, i))]
      BY <1>2 DEF LoopSum, Query, max
    <3>3. acc'[c] = LoopSum(c)'
      BY <1>6, <3>1, <3>2
    <3>4. -1 <= nblk[c] - 1 /\ nblk[c] - 1 < max
      BY <1>3, <1>4
    <3> QED
      BY <2>1, <3>1, <3>3, <3>4 DEF max
  <2>2. CASE d # c
    <3>1. nblk'[d] = nblk[d] /\ acc'[d] = acc[d]
      BY <1>7, <2>2
    <3>2. LoopSum(d)' = LoopSum(d)
      BY <1>2, <3>1 DEF LoopSum, Query
    <3> QED
      BY <3>1, <3>2 DEF IInv, LoopInv
  <2> QED
    BY <2>1, <2>2
<1>11. OutputInv'
  BY <1>2 DEF IInv, OutputInv, Stores, Query
<1> QED
  BY <1>8, <1>9, <1>10, <1>11 DEF IInv

\* Every step of the grid keeps the invariant.
LEMMA NextKeepsInv == ASSUME IInv, [Next]_vars PROVE IInv'
<1>1. CASE UNCHANGED vars
  <2>1. UNCHANGED <<launch, pc, nblk, acc, o>>
    BY <1>1 DEF vars
  <2>2. TypeOK'
    BY <2>1 DEF IInv, TypeOK
  <2>3. StartInv'
    BY <2>1 DEF IInv, StartInv, Nothing, NoKeys
  <2>4. \A c \in CTAs(launch) : LoopSum(c)' = LoopSum(c)
    BY <2>1 DEF LoopSum, Query
  <2>5. LoopInv'
    BY <2>1, <2>4 DEF IInv, LoopInv
  <2>6. OutputInv'
    BY <2>1 DEF IInv, OutputInv, Stores, Query
  <2> QED
    BY <2>2, <2>3, <2>5, <2>6 DEF IInv
<1>2. ASSUME NEW c \in CTAs(launch), CTA(c) PROVE IInv'
  <2>1. CASE Return(c)
    BY <2>1, ReturnKeepsInv
  <2>2. CASE EarlyExit(c)
    BY <2>2, NothingType, StoreKeepsInv DEF EarlyExit
  <2>3. CASE Prologue(c)
    BY <2>3, PrologueKeepsInv
  <2>4. CASE Tile(c)
    BY <2>4, TileKeepsInv
  <2>5. CASE Epilogue(c)
    <3>1. acc[c] \in [Lanes -> [KRows(launch) -> {0, 1}]]
      BY DEF IInv, TypeOK
    <3> QED
      BY <2>5, <3>1, StoreKeepsInv DEF Epilogue
  <2> QED
    BY <1>2, <2>1, <2>2, <2>3, <2>4, <2>5 DEF CTA
<1> QED
  BY <1>1, <1>2 DEF Next

(* The sums of the kernel are well typed: no key is counted twice, in any  *)
(* tile of any block of queries (compute_attn_1rowblock_dualkv_training).  *)
THEOREM TypeCorrect == Spec => []TypeOK
<1>1. Init => IInv
  BY InitInv
<1>2. IInv /\ [Next]_vars => IInv'
  BY NextKeepsInv
<1>3. IInv => TypeOK
  BY DEF IInv
<1> QED
  BY <1>1, <1>2, <1>3, PTL DEF Spec

-----------------------------------------------------------------------------
(* The refinement.                                                         *)

(* The abstract specification speaks of the same calls. *)
LEMMA SameCall ==
  ASSUME NEW L, NEW b, NEW i
  PROVE  /\ Attention!KeysOf(L, b, i) = KeysOf(L, b, i)
         /\ Attention!QRows(L) = QRows(L) /\ Attention!Batch(L) = Batch(L)
         /\ Attention!QLen(L, b) = QLen(L, b)
BY DEF Attention!KeysOf, KeysOf, Attention!KRows, KRows, Attention!KLen, KLen,
       Attention!DecLen, DecLen, Attention!Attends, Attends, Attention!QLen, QLen,
       Attention!KeyRow, KeyRow, Attention!QRows, QRows, Attention!Batch, Batch

\* The empty output is the initial state of the abstract attention.
LEMMA InitRefines == Init => Attention!Init
BY SameCall DEF Init, Attention!Init

(* A CTA that stores the keys of its queries writes their attention. *)
LEMMA StoreIsWrite ==
  ASSUME IInv, NEW c \in CTAs(launch), pc[c] # "exit", NEW tile,
         \A i \in Lanes : Stores(c, i) => tile[i] = KeysOf(launch, c.b, Query(c, i)),
         o' = Written(c, tile), UNCHANGED launch
  PROVE  Attention!Next
<1> DEFINE I == {Query(c, i) : i \in {j \in Lanes : Stores(c, j)}}
<1>1. launch \in Launches
  BY DEF IInv, TypeOK
<1>2. c.b \in Batch(launch)
  BY <1>1, CTAFacts
<1>3. I \in SUBSET (0 .. QLen(launch, c.b) - 1)
  BY <1>1, StoredRow
<1>4. \A q \in I : o[launch.cuQ[c.b] + q] = {}
  BY DEF IInv, OutputInv
<1>5. ASSUME NEW r \in QRows(launch)
      PROVE  Written(c, tile)[r] = IF \E q \in I : r = launch.cuQ[c.b] + q
                                   THEN {KeysOf(launch, c.b, r - launch.cuQ[c.b])} ELSE o[r]
  <2>1. CASE \E q \in I : r = launch.cuQ[c.b] + q
    <3>1. PICK i \in Lanes : Stores(c, i) /\ r = launch.cuQ[c.b] + Query(c, i)
      BY <2>1
    <3>2. Written(c, tile)[launch.cuQ[c.b] + Query(c, i)] = {tile[i]}
      <4>1. \A j \in Lanes : Stores(c, j) =>
              Written(c, tile)[launch.cuQ[c.b] + Query(c, j)] = {tile[j]}
        BY <1>1, WrittenRows
      <4> QED
        BY <3>1, <4>1
    <3>3. r - launch.cuQ[c.b] = Query(c, i)
      BY <1>1, <3>1, StoredRow
    <3>4. tile[i] = KeysOf(launch, c.b, Query(c, i))
      BY <3>1
    <3> HIDE DEF I
    <3> QED
      BY <2>1, <3>1, <3>2, <3>3, <3>4
  <2>2. CASE ~\E q \in I : r = launch.cuQ[c.b] + q
    <3>1. \A i \in Lanes : Stores(c, i) => r # launch.cuQ[c.b] + Query(c, i)
      BY <2>2
    <3>2. Written(c, tile)[r] = o[r]
      BY <1>1, <3>1, WrittenRows
    <3> HIDE DEF I
    <3> QED
      BY <2>2, <3>2
  <2> QED
    BY <2>1, <2>2
<1>6. Written(c, tile) = [r \in QRows(launch) |-> Written(c, tile)[r]]
  BY <1>1, WrittenRows
<1> HIDE DEF I
<1>7. o' = [r \in QRows(launch) |->
              IF \E q \in I : r = launch.cuQ[c.b] + q
              THEN {KeysOf(launch, c.b, r - launch.cuQ[c.b])} ELSE o[r]]
  BY <1>5, <1>6
<1>8. Attention!Write(c.b, I)
  <2>1. Attention!QRows(launch) = QRows(launch)
    BY SameCall
  <2>2. \A r : Attention!KeysOf(launch, c.b, r - launch.cuQ[c.b])
                = KeysOf(launch, c.b, r - launch.cuQ[c.b])
    BY SameCall
  <2>3. o' = [r \in Attention!QRows(launch) |->
                IF \E q \in I : r = launch.cuQ[c.b] + q
                THEN {Attention!KeysOf(launch, c.b, r - launch.cuQ[c.b])} ELSE o[r]]
    BY <1>7, <2>1, <2>2
  <2> QED
    BY <1>4, <2>3 DEF Attention!Write
<1> QED
  BY <1>2, <1>3, <1>8, SameCall DEF Attention!Next

(* Every step of a CTA is a write of the abstract specification or none. *)
LEMMA NextRefines ==
  ASSUME IInv, [Next]_vars PROVE [Attention!Next]_<<launch, o>>
<1>1. CASE UNCHANGED vars
  BY <1>1 DEF vars
<1>2. ASSUME NEW c \in CTAs(launch), CTA(c) PROVE [Attention!Next]_<<launch, o>>
  <2> DEFINE max == NBlockMax(launch, c.b, c.m)
  <2>0. launch \in Launches
    BY DEF IInv, TypeOK
  <2>1. /\ max \in Int /\ c.b \in Batch(launch) /\ c.m \in Nat
        /\ \A i \in Lanes : Query(c, i) \in Int /\ Query(c, i) < (c.m + 1) * BlockM
    BY <2>0, CTAFacts
  <2>2. \A i \in Lanes :
          Seen(launch, c.b, 0, max, Query(c, i)) = KeysOf(launch, c.b, Query(c, i))
    BY <2>0, <2>1, SeenAll
  <2>3. CASE Return(c)
    BY <2>3 DEF Return
  <2>4. CASE EarlyExit(c)
    <3>1. max <= 0 /\ pc[c] # "exit" /\ o' = Written(c, Nothing) /\ UNCHANGED launch
      BY <2>4 DEF EarlyExit
    <3> HIDE DEF max
    <3>2. \A i \in Lanes : Seen(launch, c.b, 0, max, Query(c, i)) = NoKeys(launch)
      BY <2>0, <2>1, <3>1, SeenNothing
    <3>3. \A i \in Lanes : Nothing[i] = KeysOf(launch, c.b, Query(c, i))
      BY <2>2, <3>2 DEF Nothing
    <3> QED
      BY <3>1, <3>3, StoreIsWrite
  <2>5. CASE Prologue(c)
    BY <2>5 DEF Prologue
  <2>6. CASE Tile(c)
    BY <2>6 DEF Tile
  <2>7. CASE Epilogue(c)
    <3>1. pc[c] = "loop" /\ nblk[c] < 0 /\ o' = Written(c, acc[c]) /\ UNCHANGED launch
      BY <2>7 DEF Epilogue
    <3>2. -1 <= nblk[c] /\ acc[c] = LoopSum(c) /\ nblk[c] \in Int
      BY <3>1 DEF IInv, LoopInv, TypeOK
    <3>3. nblk[c] + 1 = 0
      BY <3>1, <3>2
    <3>4. \A i \in Lanes : acc[c][i] = KeysOf(launch, c.b, Query(c, i))
      BY <2>2, <3>2, <3>3 DEF LoopSum
    <3>5. pc[c] # "exit"
      BY <3>1
    <3> QED
      BY <3>1, <3>4, <3>5, StoreIsWrite
  <2> QED
    BY <1>2, <2>3, <2>4, <2>5, <2>6, <2>7 DEF CTA
<1> QED
  BY <1>1, <1>2 DEF Next

(* The kernel computes the attention of every query over the context and   *)
(* the decoded rows of its sequence, each key once, however the keys are   *)
(* cut into blocks and in whatever order the CTAs run: the docstring of    *)
(* flash_attn_dualkv_varlen_func, for every call.                          *)
THEOREM Refinement == Spec => ImplementsAttention
<1>1. Init => IInv
  BY InitInv
<1>2. IInv /\ [Next]_vars => IInv'
  BY NextKeepsInv
<1>3. Init => Attention!Init
  BY InitRefines
<1>4. IInv /\ [Next]_vars => [Attention!Next]_<<launch, o>>
  BY NextRefines
<1> QED
  BY <1>1, <1>2, <1>3, <1>4, PTL DEF Spec, ImplementsAttention, Attention!Spec

-----------------------------------------------------------------------------
(***************************************************************************)
(* What TLAPS proves of the backward kernels, for every call, every block  *)
(* size and every order of the CTAs: no term of a gradient is lost or      *)
(* counted twice.                                                          *)
(***************************************************************************)

-----------------------------------------------------------------------------
(* Rows of K and the blocks that hold them.                                *)

(* Block n of the keys of sequence b has a column that is row "row" of K. *)
Holds(L, b, n, row) ==
  \E j \in 0 .. BlockN - 1 : j < ValidK(L, b, n) /\ RowAt(L, b, n, j) = row

Att(L, b, q, row) == KeysOf(L, b, q)[row] = 1

\* The parts of K.
LEMMA KRowsAre ==
  ASSUME launch \in Launches
  PROVE  /\ KRows(launch) = CtxRows \cup DecRows
         /\ \A row \in CtxRows : row < launch.ctx
         /\ \A row \in DecRows : ~(row < launch.ctx) /\ row \notin CtxRows
<1>1. launch.ctx \in Nat /\ launch.cuK[launch.batch] \in Nat
  BY LaunchesAssumption DEF IsLaunch
<1> QED
  BY <1>1 DEF KRows, CtxRows, DecRows

\* Each key of a sequence is a row of K and in the block that BlockOf says.
LEMMA KeyHeld ==
  ASSUME NEW L \in Launches, NEW b \in Batch(L), NEW k \in 0 .. KLen(L, b) - 1
  PROVE  KeyRow(L, b, k) \in KRows(L) /\ Holds(L, b, BlockOf(L, k), KeyRow(L, b, k))
<1>1. /\ L.ctx \in Nat /\ DecLen(L, b) \in Nat /\ L.cuK[b] \in Nat /\ L.cuK[L.batch] \in Nat
      /\ KLen(L, b) = L.ctx + DecLen(L, b) /\ QLen(L, b) \in Nat /\ KLen(L, b) \in Nat
      /\ L.cuK[b] + DecLen(L, b) <= L.cuK[L.batch] /\ L.causal \in BOOLEAN
  BY Lengths
<1>2. KeyRow(L, b, k) \in KRows(L)
  BY <1>1 DEF KeyRow, KRows
<1>3. BlockOf(L, k) \in Nat
  BY BlockOfFacts
<1>4. Attends(L, b, QLen(L, b), k)
  BY <1>1 DEF Attends
<1>5. k < ColLimit(L, b, QLen(L, b))
  BY <1>1, <1>4, LimitIsAttends
<1>6. TileKeys(L, b, BlockOf(L, k), QLen(L, b))[KeyRow(L, b, k)] = 1
  BY <1>1, <1>2, <1>3, <1>5, TileHolds
<1>7. \E j \in 0 .. BlockN - 1 : /\ Unmasked(L, b, BlockOf(L, k), QLen(L, b), j)
                                 /\ RowAt(L, b, BlockOf(L, k), j) = KeyRow(L, b, k)
  BY <1>2, <1>6 DEF TileKeys
<1> QED
  BY <1>2, <1>7 DEF Holds, Unmasked

\* What a block holds are keys of the sequence, of that block.
LEMMA HeldKey ==
  ASSUME NEW L \in Launches, NEW b \in Batch(L), NEW n \in Nat, NEW row, Holds(L, b, n, row)
  PROVE  \E k \in 0 .. KLen(L, b) - 1 : BlockOf(L, k) = n /\ KeyRow(L, b, k) = row
<1>1. PICK j \in 0 .. BlockN - 1 : j < ValidK(L, b, n) /\ RowAt(L, b, n, j) = row
  BY DEF Holds
<1>2. /\ KPos(L, n) + j \in 0 .. KLen(L, b) - 1
      /\ BlockOf(L, KPos(L, n) + j) = n
      /\ KeyRow(L, b, KPos(L, n) + j) = row
  BY <1>1, ColumnIsKey
<1> QED
  BY <1>2

(* A row is in one block of a sequence. *)
LEMMA HeldByOne ==
  ASSUME NEW L \in Launches, NEW b \in Batch(L), NEW n \in Nat, NEW m \in Nat, NEW row,
         Holds(L, b, n, row), Holds(L, b, m, row)
  PROVE  n = m
<1>1. PICK k \in 0 .. KLen(L, b) - 1 : BlockOf(L, k) = n /\ KeyRow(L, b, k) = row
  BY HeldKey
<1>2. PICK l \in 0 .. KLen(L, b) - 1 : BlockOf(L, l) = m /\ KeyRow(L, b, l) = row
  BY HeldKey
<1>3. k = l
  BY <1>1, <1>2, KeyRowInjective
<1> QED
  BY <1>1, <1>2, <1>3

(* The parts of a sequence that cu_seqlens name do not overlap. *)
LEMMA PartsApart ==
  ASSUME NEW N \in Nat, NEW f \in [0 .. N -> Nat],
         \A b, c \in 0 .. N : b <= c => f[b] <= f[c],
         NEW b \in 0 .. N - 1, NEW c \in 0 .. N - 1, NEW x \in Int,
         f[b] <= x, x < f[b + 1], f[c] <= x, x < f[c + 1]
  PROVE  b = c
<1>1. b + 1 \in 0 .. N /\ c + 1 \in 0 .. N /\ b \in 0 .. N /\ c \in 0 .. N
  OBVIOUS
<1>2. b + 1 <= c => f[b + 1] <= f[c]
  BY <1>1
<1>3. c + 1 <= b => f[c + 1] <= f[b]
  BY <1>1
<1>4. f[b] \in Nat /\ f[c] \in Nat /\ f[b + 1] \in Nat /\ f[c + 1] \in Nat
  BY <1>1
<1> QED
  BY <1>1, <1>2, <1>3, <1>4

(* And they leave nothing out. *)
LEMMA PartsCover ==
  ASSUME NEW N \in Nat, NEW f \in [0 .. N -> Nat], f[0] = 0,
         NEW x \in Nat, x < f[N]
  PROVE  \E b \in 0 .. N - 1 : f[b] <= x /\ x < f[b + 1]
<1> DEFINE T == {b \in 0 .. N : x < f[b]}
<1>1. N \in T /\ T \subseteq Nat
  OBVIOUS
<1>2. PICK c \in T : \A d \in T : c <= d
  BY <1>1, LeastNumber
<1>3. c \in 0 .. N /\ x < f[c] /\ c # 0
  OBVIOUS
<1>4. c - 1 \in 0 .. N /\ ~(x < f[c - 1])
  BY <1>2, <1>3
<1>5. f[c - 1] <= x /\ x < f[(c - 1) + 1] /\ c - 1 \in 0 .. N - 1
  BY <1>3, <1>4
<1> QED
  BY <1>5

\* cu_seqlens as the lemmas on parts want them.
LEMMA Cumulated ==
  ASSUME NEW L \in Launches
  PROVE  /\ L.batch \in Nat /\ L.ctx \in Nat /\ L.maxQ \in Nat /\ L.maxK \in Nat
         /\ L.cuQ \in [0 .. L.batch -> Nat] /\ L.cuQ[0] = 0
         /\ L.cuK \in [0 .. L.batch -> Nat] /\ L.cuK[0] = 0
         /\ \A b, c \in 0 .. L.batch : b <= c => L.cuQ[b] <= L.cuQ[c]
         /\ \A b, c \in 0 .. L.batch : b <= c => L.cuK[b] <= L.cuK[c]
         /\ \A b \in Batch(L) : QLen(L, b) <= L.maxQ /\ DecLen(L, b) <= L.maxK
BY LaunchesAssumption DEF IsLaunch, Batch, QLen, DecLen

(* A decoded row belongs to one sequence and one of its blocks. *)
LEMMA DecodedHeldByOne ==
  ASSUME NEW L \in Launches, NEW b \in Batch(L), NEW c \in Batch(L), NEW n \in Nat, NEW m \in Nat,
         NEW row \in KRows(L), ~(row < L.ctx), Holds(L, b, n, row), Holds(L, c, m, row)
  PROVE  b = c /\ n = m
<1>1. /\ L.batch \in Nat /\ L.ctx \in Nat /\ L.cuK \in [0 .. L.batch -> Nat]
      /\ \A d, e \in 0 .. L.batch : d <= e => L.cuK[d] <= L.cuK[e]
  BY Cumulated
<1>2. ASSUME NEW d \in Batch(L), NEW k \in 0 .. KLen(L, d) - 1, KeyRow(L, d, k) = row
      PROVE  L.cuK[d] <= row - L.ctx /\ row - L.ctx < L.cuK[d + 1] /\ d \in 0 .. L.batch - 1
  <2>1. /\ L.ctx \in Nat /\ DecLen(L, d) \in Nat /\ L.cuK[d] \in Nat
        /\ KLen(L, d) = L.ctx + DecLen(L, d)
    BY Lengths
  <2>2. L.cuK[d + 1] \in Nat /\ d \in 0 .. L.batch - 1
    <3>1. d \in 0 .. L.batch - 1
      BY DEF Batch
    <3>2. d + 1 \in 0 .. L.batch
      BY <1>1, <3>1
    <3> QED
      BY <1>1, <3>1, <3>2
  <2>3. DecLen(L, d) = L.cuK[d + 1] - L.cuK[d]
    BY DEF DecLen
  <2>4. k \in Nat /\ k < L.ctx + DecLen(L, d)
    BY <2>1
  <2>5. row = L.cuK[d] + k /\ ~(k < L.ctx)
    BY <1>2 DEF KeyRow
  <2> QED
    BY <2>1, <2>2, <2>3, <2>4, <2>5
<1>3. PICK k \in 0 .. KLen(L, b) - 1 : KeyRow(L, b, k) = row
  BY HeldKey
<1>4. PICK l \in 0 .. KLen(L, c) - 1 : KeyRow(L, c, l) = row
  BY HeldKey
<1>5. row - L.ctx \in Int
  BY <1>1 DEF KRows
<1>6. b = c
  <2>1. /\ b \in 0 .. L.batch - 1 /\ L.cuK[b] <= row - L.ctx /\ row - L.ctx < L.cuK[b + 1]
        /\ c \in 0 .. L.batch - 1 /\ L.cuK[c] <= row - L.ctx /\ row - L.ctx < L.cuK[c + 1]
    BY <1>2, <1>3, <1>4
  <2> DEFINE N == L.batch
             f == L.cuK
             x == row - L.ctx
  <2>2. /\ N \in Nat /\ f \in [0 .. N -> Nat] /\ x \in Int
        /\ \A d, e \in 0 .. N : d <= e => f[d] <= f[e]
        /\ b \in 0 .. N - 1 /\ f[b] <= x /\ x < f[b + 1]
        /\ c \in 0 .. N - 1 /\ f[c] <= x /\ x < f[c + 1]
    BY <1>1, <1>5, <2>1
  <2> HIDE DEF N, f, x
  <2> QED
    BY <2>2, PartsApart
<1> QED
  BY <1>6, HeldByOne

\* In its block an unmasked column is a key the query attends to.
LEMMA UnmaskedIsAtt ==
  ASSUME NEW L \in Launches, NEW b \in Batch(L), NEW n \in Nat, NEW j \in 0 .. BlockN - 1,
         j < ValidK(L, b, n), NEW q \in Int
  PROVE  Unmasked(L, b, n, q, j) <=> Att(L, b, q, RowAt(L, b, n, j))
<1> DEFINE k == KPos(L, n) + j
           row == RowAt(L, b, n, j)
<1>1. k \in 0 .. KLen(L, b) - 1 /\ KeyRow(L, b, k) = row
  BY ColumnIsKey
<1>2. row \in KRows(L)
  BY <1>1, KeyHeld
<1>3. Att(L, b, q, row) <=> \E l \in 0 .. KLen(L, b) - 1 : Attends(L, b, q, l) /\ KeyRow(L, b, l) = row
  BY <1>2 DEF Att, KeysOf
<1>4. \A l \in 0 .. KLen(L, b) - 1 : KeyRow(L, b, l) = row => l = k
  BY <1>1, KeyRowInjective
<1>5. Att(L, b, q, row) <=> Attends(L, b, q, k)
  BY <1>1, <1>3, <1>4
<1>6. Unmasked(L, b, n, q, j) <=> k < ColLimit(L, b, q)
  BY DEF Unmasked
<1> QED
  BY <1>1, <1>5, <1>6, LimitIsAttends

\* A block has a row in one column.
LEMMA ColumnUnique ==
  ASSUME NEW L \in Launches, NEW b \in Batch(L), NEW n \in Nat,
         NEW j \in 0 .. BlockN - 1, NEW i \in 0 .. BlockN - 1,
         RowAt(L, b, n, j) = RowAt(L, b, n, i)
  PROVE  i = j
<1>1. BlockN \in Nat \ {0} /\ CtxBlocks(L) \in Nat /\ L.ctx \in Nat /\ L.cuK[b] \in Nat
  BY Blocks, Lengths
<1>2. n * BlockN \in Int /\ (n - CtxBlocks(L)) * BlockN \in Int
  BY <1>1
<1> QED
  BY <1>1, <1>2 DEF RowAt

-----------------------------------------------------------------------------
(* Blocks of queries and of keys, and the grids that cover them.           *)

\* The grid of the main kernel has a CTA for every block of keys.
LEMMA GridCovers ==
  ASSUME NEW L \in Launches, NEW b \in Batch(L)
  PROVE  /\ GridN(L) \in Nat /\ GridM(L) \in Nat
         /\ CtxBlocks(L) + DecBlocks(L, b) <= GridN(L)
         /\ MBlockMax(L, b) \in Nat /\ MBlockMax(L, b) <= GridM(L)
         /\ \A m \in Int : m < MBlockMax(L, b) <=> m * BlockM < QLen(L, b)
<1>1. /\ BlockM \in Nat \ {0} /\ BlockN \in Nat \ {0} /\ CtxBlocks(L) \in Nat /\ DecBlocks(L, b) \in Nat
      /\ \A n \in Int : n < DecBlocks(L, b) <=> n * BlockN < DecLen(L, b)
  BY Blocks
<1>2. /\ L.maxK \in Nat /\ L.maxQ \in Nat /\ QLen(L, b) \in Nat /\ DecLen(L, b) \in Nat
      /\ QLen(L, b) <= L.maxQ /\ DecLen(L, b) <= L.maxK
  BY Cumulated, Lengths
<1>3. ASSUME NEW a \in Nat, NEW s \in Nat \ {0}
      PROVE  /\ CeilDiv(a, s) \in Nat
             /\ \A n \in Int : n < CeilDiv(a, s) <=> n * s < a
  <2>1. /\ CeilDiv(a, s) \in Int
        /\ \A n \in Int : n < CeilDiv(a, s) <=> n * s < a
    BY CeilLess DEF CeilDiv
  <2>2. (-1) * s < a
    OBVIOUS
  <2>3. -1 < CeilDiv(a, s)
    BY <2>1, <2>2
  <2> QED
    BY <2>1, <2>3
<1>4. ASSUME NEW a \in Nat, NEW d \in Nat, a <= d, NEW s \in Nat \ {0}
      PROVE  CeilDiv(a, s) <= CeilDiv(d, s)
  <2>1. CeilDiv(d, s) * s \in Int /\ ~(CeilDiv(d, s) * s < d)
    BY <1>3
  <2>2. ~(CeilDiv(d, s) * s < a)
    BY <1>4, <2>1
  <2> QED
    BY <1>3, <2>2
<1>5. DecBlocks(L, b) <= CeilDiv(L.maxK, BlockN) /\ CeilDiv(L.maxK, BlockN) \in Nat
  BY <1>1, <1>2, <1>3, <1>4 DEF DecBlocks
<1>6. MBlockMax(L, b) <= GridM(L) /\ GridM(L) \in Nat
  BY <1>1, <1>2, <1>3, <1>4 DEF MBlockMax, GridM
<1>7. /\ MBlockMax(L, b) \in Nat
      /\ \A m \in Int : m < MBlockMax(L, b) <=> m * BlockM < QLen(L, b)
  BY <1>1, <1>2, <1>3 DEF MBlockMax
<1> QED
  BY <1>1, <1>5, <1>6, <1>7 DEF GridN

\* A query is in a lane of a block of its sequence.
LEMMA LaneOf ==
  ASSUME NEW L \in Launches, NEW b \in Batch(L), NEW q \in 0 .. QLen(L, b) - 1
  PROVE  /\ q \div BlockM \in Nat /\ q \div BlockM < MBlockMax(L, b)
         /\ q - (q \div BlockM) * BlockM \in Lanes
         /\ q < (q \div BlockM + 1) * BlockM
         /\ q < MBlockMax(L, b) * BlockM
<1> DEFINE m == q \div BlockM
<1>1. QLen(L, b) \in Nat /\ BlockM \in Nat \ {0}
  BY Lengths, BlocksAssumption
<1>2. q \in Nat /\ q < QLen(L, b)
  BY <1>1
<1>3. m \in Nat /\ BlockM * m <= q /\ q < BlockM * m + BlockM
  BY <1>1, <1>2, DivBounds
<1> HIDE DEF m
<1>4. BlockM * m = m * BlockM /\ m * BlockM \in Nat /\ (m + 1) * BlockM = m * BlockM + BlockM
  BY <1>1, <1>3
<1>5. m < MBlockMax(L, b) /\ MBlockMax(L, b) \in Nat
  BY <1>1, <1>2, <1>3, <1>4, GridCovers
<1>6. m * BlockM + BlockM <= MBlockMax(L, b) * BlockM
  BY <1>1, <1>3, <1>5, MulMono
<1>7. q < MBlockMax(L, b) * BlockM
  <2>1. MBlockMax(L, b) * BlockM \in Nat
    BY <1>1, <1>5
  <2> QED
    BY <1>1, <1>2, <1>3, <1>4, <1>6, <2>1
<1>8. q - m * BlockM \in Lanes
  BY <1>1, <1>2, <1>3, <1>4 DEF Lanes
<1> QED
  BY <1>1, <1>2, <1>3, <1>4, <1>5, <1>7, <1>8 DEF m

(* Before block MBlockMin no query attends to a key of the block. *)
LEMMA NothingBefore ==
  ASSUME NEW L \in Launches, NEW b \in Batch(L), NEW n \in Nat, NEW q \in Nat,
         q < MBlockMin(L, b, n) * BlockM, NEW j \in Nat
  PROVE  ~Unmasked(L, b, n, q, j)
<1> DEFINE first == KPos(L, n) + QLen(L, b) - KLen(L, b)
<1>1. /\ BlockM \in Nat \ {0} /\ BlockN \in Nat \ {0} /\ CtxBlocks(L) \in Nat
      /\ KLen(L, b) \in Nat /\ QLen(L, b) \in Nat /\ L.ctx \in Nat /\ L.causal \in BOOLEAN
  BY Lengths, Blocks
<1>2. KPos(L, n) \in Int
  <2>1. n * BlockN \in Int /\ (n - CtxBlocks(L)) * BlockN \in Int
    BY <1>1
  <2> QED
    BY <1>1, <2>1 DEF KPos
<1>3. first \in Int
  BY <1>1, <1>2
<1>4. L.causal /\ first > 0 /\ MBlockMin(L, b, n) = first \div BlockM
  <2>1. 0 * BlockM = 0
    BY <1>1
  <2> QED
    BY <2>1 DEF MBlockMin
<1>5. ColLimit(L, b, q) = MinOf(KLen(L, b), q + 1 + KLen(L, b) - QLen(L, b))
  BY <1>4 DEF ColLimit
<1> HIDE DEF first
<1>6. q < first
  <2>1. BlockM * (first \div BlockM) <= first /\ first \div BlockM \in Nat
    BY <1>1, <1>3, <1>4, DivBounds
  <2>2. BlockM * (first \div BlockM) = MBlockMin(L, b, n) * BlockM
    BY <1>1, <1>4, <2>1
  <2> QED
    BY <1>1, <1>3, <2>1, <2>2
<1>7. first = KPos(L, n) + QLen(L, b) - KLen(L, b)
  BY DEF first
<1> QED
  BY <1>1, <1>2, <1>3, <1>5, <1>6, <1>7 DEF Unmasked, MinOf

\* MBlockMin is a block.
LEMMA MinType ==
  ASSUME NEW L \in Launches, NEW b \in Batch(L), NEW n \in Nat
  PROVE  MBlockMin(L, b, n) \in Nat
<1> DEFINE first == KPos(L, n) + QLen(L, b) - KLen(L, b)
<1>1. /\ BlockM \in Nat \ {0} /\ BlockN \in Nat \ {0} /\ CtxBlocks(L) \in Nat
      /\ KLen(L, b) \in Nat /\ QLen(L, b) \in Nat /\ L.ctx \in Nat
  BY Lengths, Blocks
<1>2. first \in Int
  <2>1. n * BlockN \in Int /\ (n - CtxBlocks(L)) * BlockN \in Int
    BY <1>1
  <2> QED
    BY <1>1, <2>1 DEF KPos
<1>3. MBlockMin(L, b, n) = IF L.causal /\ first > 0 THEN first \div BlockM ELSE 0
  BY DEF MBlockMin
<1> HIDE DEF first
<1>4. first > 0 => first \div BlockM \in Nat
  BY <1>1, <1>2, DivBounds
<1> QED
  BY <1>3, <1>4

-----------------------------------------------------------------------------
(* Rows of dq_accum and softmax_d.                                         *)

(* Where the padded rows of query q of sequence b are. *)
Pad(L, b, q) == L.cuQ[b] + q + RowPad * b

(* The padding keeps the last block of a sequence off the next one. *)
LEMMA PadUnique ==
  ASSUME NEW L \in Launches, NEW b \in Batch(L), NEW c \in Batch(L), NEW x \in Nat, NEW y \in Nat,
         x < QLen(L, b) + RowPad, y < QLen(L, c) + RowPad, Pad(L, b, x) = Pad(L, c, y)
  PROVE  b = c /\ x = y
<1>1. /\ L.batch \in Nat /\ b \in 0 .. L.batch /\ b + 1 \in 0 .. L.batch
      /\ c \in 0 .. L.batch /\ c + 1 \in 0 .. L.batch /\ b \in Nat /\ c \in Nat
  BY Cumulated DEF Batch
<1>2. /\ L.cuQ[b] \in Nat /\ L.cuQ[b + 1] \in Nat /\ L.cuQ[c] \in Nat /\ L.cuQ[c + 1] \in Nat
      /\ b + 1 <= c => L.cuQ[b + 1] <= L.cuQ[c]
      /\ c + 1 <= b => L.cuQ[c + 1] <= L.cuQ[b]
  BY <1>1, Cumulated
<1>3. RowPad \in Nat
  BY RowPadAssumption
<1>4. /\ RowPad * b \in Nat /\ RowPad * c \in Nat
      /\ b < c => RowPad * b + RowPad <= RowPad * c
      /\ c < b => RowPad * c + RowPad <= RowPad * b
  <2>1. RowPad * b = b * RowPad /\ RowPad * c = c * RowPad /\ b * RowPad \in Nat /\ c * RowPad \in Nat
    BY <1>1, <1>3
  <2>2. b < c => b * RowPad + RowPad <= c * RowPad
    BY <1>1, <1>3, MulMono
  <2>3. c < b => c * RowPad + RowPad <= b * RowPad
    BY <1>1, <1>3, MulMono
  <2> QED
    BY <2>1, <2>2, <2>3
<1>5. /\ x < L.cuQ[b + 1] - L.cuQ[b] + RowPad /\ y < L.cuQ[c + 1] - L.cuQ[c] + RowPad
      /\ L.cuQ[b] + x + RowPad * b = L.cuQ[c] + y + RowPad * c
  BY DEF QLen, Pad
<1>6. b = c
  BY <1>1, <1>2, <1>3, <1>4, <1>5
<1> QED
  BY <1>2, <1>4, <1>5, <1>6

\* The rows of the queries are there.
LEMMA PadIn ==
  ASSUME launch \in Launches, NEW b \in Batch(launch), NEW q \in 0 .. QLen(launch, b) - 1
  PROVE  Pad(launch, b, q) \in PaddedRows /\ launch.cuQ[b] + q \in QRows(launch)
<1>1. /\ launch.cuQ[b] \in Nat /\ launch.cuQ[launch.batch] \in Nat /\ QLen(launch, b) \in Nat
      /\ launch.cuQ[b] + QLen(launch, b) <= launch.cuQ[launch.batch]
  BY Lengths
<1>2. RowPad \in Nat /\ b \in Nat /\ launch.batch \in Nat /\ b < launch.batch
  BY RowPadAssumption, Cumulated DEF Batch
<1>3. /\ RowPad * b \in Nat /\ RowPad * launch.batch \in Nat
      /\ RowPad * b <= RowPad * launch.batch
  <2>1. b * RowPad + RowPad <= launch.batch * RowPad
    BY <1>2, MulMono
  <2>2. /\ b * RowPad = RowPad * b /\ launch.batch * RowPad = RowPad * launch.batch
        /\ RowPad * b \in Nat /\ RowPad * launch.batch \in Nat
    BY <1>2
  <2> QED
    BY <1>2, <2>1, <2>2
<1> QED
  BY <1>1, <1>3 DEF Pad, PaddedRows, QRows

-----------------------------------------------------------------------------
(* Which query attends to which row.                                       *)

Queries(b) == 0 .. QLen(launch, b) - 1

\* A block holds rows of the context or decoded rows, never both.
LEMMA HeldPart ==
  ASSUME NEW L \in Launches, NEW b \in Batch(L), NEW n \in Nat, NEW row, Holds(L, b, n, row)
  PROVE  /\ n < CtxBlocks(L) + DecBlocks(L, b) /\ n < GridN(L)
         /\ IsContext(L, n) <=> row < L.ctx
<1>1. PICK k \in 0 .. KLen(L, b) - 1 : BlockOf(L, k) = n /\ KeyRow(L, b, k) = row
  BY HeldKey
<1>2. n < CtxBlocks(L) + DecBlocks(L, b) /\ (IsContext(L, n) <=> k < L.ctx)
  BY <1>1, BlockOfFacts
<1>3. /\ L.ctx \in Nat /\ L.cuK[b] \in Nat /\ KLen(L, b) \in Nat
      /\ CtxBlocks(L) + DecBlocks(L, b) <= GridN(L) /\ GridN(L) \in Nat
      /\ CtxBlocks(L) \in Nat /\ DecBlocks(L, b) \in Nat
  BY Lengths, GridCovers, Blocks
<1>4. row < L.ctx <=> k < L.ctx
  BY <1>1, <1>3 DEF KeyRow
<1> QED
  BY <1>2, <1>3, <1>4

\* What a query attends to is in a block of its sequence.
LEMMA AttHeld ==
  ASSUME NEW L \in Launches, NEW b \in Batch(L), NEW q \in Int, NEW row \in KRows(L), Att(L, b, q, row)
  PROVE  \E n \in 0 .. GridN(L) - 1 : Holds(L, b, n, row)
<1>1. PICK k \in 0 .. KLen(L, b) - 1 : KeyRow(L, b, k) = row
  BY DEF Att, KeysOf
<1>2. Holds(L, b, BlockOf(L, k), row) /\ BlockOf(L, k) \in Nat
  BY <1>1, KeyHeld, BlockOfFacts
<1>3. BlockOf(L, k) < GridN(L) /\ GridN(L) \in Nat
  BY <1>2, HeldPart, GridCovers
<1> QED
  BY <1>2, <1>3

\* Every row of Q is a query of a sequence.
LEMMA EveryQuery ==
  ASSUME launch \in Launches, NEW r \in QRows(launch)
  PROVE  \E b \in Batch(launch) : \E q \in Queries(b) : r = launch.cuQ[b] + q
<1> DEFINE N == launch.batch
           f == launch.cuQ
<1>1. N \in Nat /\ f \in [0 .. N -> Nat] /\ f[0] = 0
  BY Cumulated
<1>2. r \in Nat /\ r < f[N]
  BY <1>1 DEF QRows
<1>3. \E b \in 0 .. N - 1 : f[b] <= r /\ r < f[b + 1]
  <2> HIDE DEF N, f
  <2> QED
    BY <1>1, <1>2, PartsCover
<1>4. PICK b \in Batch(launch) : launch.cuQ[b] <= r /\ r < launch.cuQ[b + 1]
  BY <1>3 DEF Batch
<1>5. launch.cuQ[b] \in Nat /\ launch.cuQ[b + 1] \in Nat
  <2>1. b \in 0 .. N /\ b + 1 \in 0 .. N
    BY <1>1 DEF Batch
  <2> QED
    BY <1>1, <2>1
<1>6. r - launch.cuQ[b] \in Queries(b) /\ r = launch.cuQ[b] + (r - launch.cuQ[b])
  BY <1>2, <1>4, <1>5 DEF Queries, QLen
<1> QED
  BY <1>6

\* Every decoded row is in a block of a sequence.
LEMMA EveryDecoded ==
  ASSUME launch \in Launches, NEW row \in DecRows
  PROVE  \E b \in Batch(launch) : \E n \in 0 .. GridN(launch) - 1 : Holds(launch, b, n, row)
<1> DEFINE N == launch.batch
           f == launch.cuK
           x == row - launch.ctx
<1>1. N \in Nat /\ f \in [0 .. N -> Nat] /\ f[0] = 0 /\ launch.ctx \in Nat
  BY Cumulated
<1>2. x \in Nat /\ x < f[N]
  <2>1. f[N] \in Nat
    BY <1>1
  <2> QED
    BY <1>1, <2>1 DEF DecRows
<1>3. \E b \in 0 .. N - 1 : f[b] <= x /\ x < f[b + 1]
  <2> HIDE DEF N, f, x
  <2> QED
    BY <1>1, <1>2, PartsCover
<1>4. PICK b \in Batch(launch) : launch.cuK[b] <= x /\ x < launch.cuK[b + 1]
  BY <1>3 DEF Batch
<1> DEFINE k == row - launch.cuK[b]
<1>5. launch.cuK[b] \in Nat /\ launch.cuK[b + 1] \in Nat
  <2>1. b \in 0 .. N /\ b + 1 \in 0 .. N
    BY <1>1 DEF Batch
  <2> QED
    BY <1>1, <2>1
<1>6. /\ k \in 0 .. KLen(launch, b) - 1 /\ ~(k < launch.ctx)
      /\ KeyRow(launch, b, k) = row
  <2>1. row \in Int
    BY <1>1 DEF DecRows
  <2> DEFINE c == launch.ctx
             u == launch.cuK[b]
             v == launch.cuK[b + 1]
  <2>2. c \in Nat /\ u \in Nat /\ v \in Nat /\ u <= row - c /\ row - c < v
    BY <1>1, <1>4, <1>5
  <2>3. /\ row - u \in 0 .. (c + (v - u)) - 1
        /\ ~(row - u < c) /\ u + (row - u) = row
    <3> HIDE DEF c, u, v
    <3> QED
      BY <2>1, <2>2
  <2> QED
    BY <2>3 DEF KLen, DecLen, KeyRow, k
<1> HIDE DEF k
<1>7. Holds(launch, b, BlockOf(launch, k), row) /\ BlockOf(launch, k) \in Nat
  BY <1>6, KeyHeld, BlockOfFacts
<1>8. BlockOf(launch, k) < GridN(launch) /\ GridN(launch) \in Nat
  BY <1>7, HeldPart, GridCovers
<1> QED
  BY <1>7, <1>8

\* AttendsRow, by the query.
LEMMA AttendsAsQuery ==
  ASSUME launch \in Launches, NEW b \in Batch(launch), NEW q \in Queries(b), NEW row
  PROVE  AttendsRow(launch.cuQ[b] + q, row) <=> Att(launch, b, q, row)
<1>1. Att(launch, b, q, row) => AttendsRow(launch.cuQ[b] + q, row)
  BY DEF Att, AttendsRow, Queries
<1>2. ASSUME AttendsRow(launch.cuQ[b] + q, row) PROVE Att(launch, b, q, row)
  <2>0. PICK c \in Batch(launch) : \E p \in 0 .. QLen(launch, c) - 1 :
          launch.cuQ[b] + q = launch.cuQ[c] + p /\ KeysOf(launch, c, p)[row] = 1
    BY <1>2 DEF AttendsRow
  <2>1. PICK p \in 0 .. QLen(launch, c) - 1 :
          launch.cuQ[b] + q = launch.cuQ[c] + p /\ KeysOf(launch, c, p)[row] = 1
    BY <2>0
  <2>2. b = c /\ q = p
    BY <2>1, RowUnique DEF Queries
  <2> QED
    BY <2>1, <2>2 DEF Att
<1> QED
  BY <1>1, <1>2

\* AttendsRow, by the decoded row.
LEMMA AttendsDecoded ==
  ASSUME launch \in Launches, NEW b \in Batch(launch), NEW n \in Nat, NEW row \in DecRows,
         Holds(launch, b, n, row), NEW r
  PROVE  AttendsRow(r, row) <=>
           \E q \in Queries(b) : r = launch.cuQ[b] + q /\ Att(launch, b, q, row)
<1>0. row \in KRows(launch) /\ ~(row < launch.ctx)
  BY KRowsAre
<1>1. ASSUME AttendsRow(r, row)
      PROVE  \E q \in Queries(b) : r = launch.cuQ[b] + q /\ Att(launch, b, q, row)
  <2>0. PICK c \in Batch(launch) : \E q \in Queries(c) :
          r = launch.cuQ[c] + q /\ Att(launch, c, q, row)
    BY <1>1 DEF AttendsRow, Att, Queries
  <2>1. PICK q \in Queries(c) : r = launch.cuQ[c] + q /\ Att(launch, c, q, row)
    BY <2>0
  <2>2. q \in Int
    BY Lengths DEF Queries
  <2>3. PICK m \in 0 .. GridN(launch) - 1 : Holds(launch, c, m, row)
    BY <1>0, <2>1, <2>2, AttHeld
  <2>4. m \in Nat
    BY GridCovers
  <2>5. b = c
    BY <1>0, <2>3, <2>4, DecodedHeldByOne
  <2> QED
    BY <2>1, <2>5
<1>2. ASSUME NEW q \in Queries(b), r = launch.cuQ[b] + q, Att(launch, b, q, row)
      PROVE  AttendsRow(r, row)
  BY <1>2 DEF AttendsRow, Att, Queries
<1> QED
  BY <1>1, <1>2

-----------------------------------------------------------------------------
(* The inductive invariant.                                                *)

MainGrid == Grid(launch, "main")
DotGrid  == Grid(launch, "dot_do_o")
AllBlocks(b) == CtxBlocks(launch) + DecBlocks(launch, b)

(* The CTA of block n of sequence b and head h, and that of a query in the *)
(* preprocess kernel.                                                      *)
Main(n, b, h) == [n |-> n, b |-> b, h |-> h]
Dot(h, b, q)  == [m |-> q \div BlockM, b |-> b, h |-> h]

(* A CTA has stored its block; it has gone over query q; it has ended.     *)
Finished(c)  == at[c].n # c.n
Passed(c, q) == Finished(c) \/ (at[c].pc = "loop" /\ (at[c].m + 1) * BlockM <= q)
Over(c)      == \/ kernel = "main" /\ c \notin todo
                \/ kernel \in {"convert_dq", "done"}

(* D of query q is there, and dq_accum set to zero. *)
Ready(h, b, q) == \/ kernel \in {"main", "convert_dq", "done"}
                  \/ kernel = "dot_do_o" /\ Dot(h, b, q) \notin todo

BwdTypes ==
  /\ launch \in Launches
  /\ kernel \in {"forward", "dot_do_o", "main", "convert_dq", "done"}
  /\ at \in [MainGrid -> [pc : {"next", "loop"}, n : Nat, m : Int]]
  /\ DOMAIN dk = MainGrid
  /\ DOMAIN dpsum = Heads /\ DOMAIN dqacc = Heads
  /\ DOMAIN ctxacc = Heads /\ DOMAIN dec = Heads

(* A CTA has the block of its number and no other. *)
CTAInv ==
  \A c \in MainGrid :
    /\ at[c].n = c.n \/ at[c].n = c.n + GridN(launch)
    /\ at[c].pc = "loop" => at[c].n = c.n /\ at[c].m < MBlockMax(launch, c.b)
    /\ Over(c) => at[c].pc = "next" /\ AllBlocks(c.b) <= at[c].n
    /\ kernel \in {"forward", "dot_do_o"} => at[c].pc = "next" /\ at[c].n = c.n

(* A D that is there is that of the query the row belongs to. *)
PlaceInv ==
  \A h \in Heads : \A r \in PaddedRows : dpsum[h][r] >= 0 =>
    \E b \in Batch(launch) : \E q \in Queries(b) :
      r = Pad(launch, b, q) /\ dpsum[h][r] = launch.cuQ[b] + q

(* dq_accum has the keys of the blocks that have gone over the query. *)
SumDQ(h, b, q) ==
  [row \in KRows(launch) |->
     IF Att(launch, b, q, row)
        /\ \E n \in 0 .. GridN(launch) - 1 :
             Holds(launch, b, n, row) /\ Passed(Main(n, b, h), q)
     THEN 1 ELSE 0]

SumsInv ==
  \A h \in Heads : \A b \in Batch(launch) : \A q \in Queries(b) : Ready(h, b, q) =>
    /\ dpsum[h][Pad(launch, b, q)] = launch.cuQ[b] + q
    /\ dqacc[h][Pad(launch, b, q)] = {SumDQ(h, b, q)}

(* acc_dk has the queries gone over. *)
SumDK(c, j) ==
  [r \in QRows(launch) |->
     IF \E q \in Queries(c.b) : /\ r = launch.cuQ[c.b] + q
                                /\ (at[c].m + 1) * BlockM <= q
                                /\ Unmasked(launch, c.b, c.n, q, j)
     THEN 1 ELSE 0]

TileInv == \A c \in MainGrid : at[c].pc = "loop" => dk[c] = [j \in Cols |-> SumDK(c, j)]

(* What a sequence adds to the gradient of a row. *)
Share(b, row) ==
  [r \in QRows(launch) |->
     IF \E q \in Queries(b) : r = launch.cuQ[b] + q /\ Att(launch, b, q, row) THEN 1 ELSE 0]

DecodedInv ==
  \A c \in MainGrid : Finished(c) => \A row \in DecRows :
    Holds(launch, c.b, c.n, row) => dec[c.h][row] = {Share(c.b, row)}

(* The gradient of the context has the queries of the finished CTAs. *)
InContext(h, row, r) ==
  \E b \in Batch(launch) : \E q \in Queries(b) :
    /\ r = launch.cuQ[b] + q /\ Att(launch, b, q, row)
    /\ \E n \in 0 .. GridN(launch) - 1 :
         Holds(launch, b, n, row) /\ Finished(Main(n, b, h))

SumCtx(h, row) == [r \in QRows(launch) |-> IF InContext(h, row, r) THEN 1 ELSE 0]

ContextInv == \A h \in Heads : \A row \in CtxRows : ctxacc[h][row] = SumCtx(h, row)

DQExact ==
  \A h \in Heads : \A r \in QRows(launch) :
    dq[h][r] = {[row \in KRows(launch) |-> IF AttendsRow(r, row) THEN 1 ELSE 0]}

DKExact ==
  \A g \in DOMAIN dK : \A row \in KRows(launch) :
    dK[g][row] = {h \in Heads : h \div launch.ratio = g} \X
                   {[r \in QRows(launch) |-> IF AttendsRow(r, row) THEN 1 ELSE 0]}

ConvertedInv == /\ kernel \in {"convert_dq", "done"} => DQExact
                /\ kernel = "done" => DKExact

BwdInv == /\ BwdTypes /\ CTAInv /\ PlaceInv /\ SumsInv
          /\ TileInv /\ DecodedInv /\ ContextInv /\ ConvertedInv

-----------------------------------------------------------------------------
(* CTAs.                                                                   *)

\* The grids of the kernels.
LEMMA Grids ==
  /\ MainGrid = [n : 0 .. GridN(launch) - 1, b : Batch(launch), h : Heads]
  /\ DotGrid = [m : 0 .. GridM(launch) - 1, b : Batch(launch), h : Heads]
BY DEF MainGrid, DotGrid, Grid, Heads

\* What a CTA of the main kernel knows.
LEMMA MainFacts ==
  ASSUME launch \in Launches, NEW c \in MainGrid
  PROVE  /\ c.n \in Nat /\ c.n < GridN(launch) /\ c.b \in Batch(launch) /\ c.h \in Heads
         /\ c = Main(c.n, c.b, c.h)
         /\ GridN(launch) \in Nat /\ AllBlocks(c.b) \in Nat /\ AllBlocks(c.b) <= GridN(launch)
<1>1. c \in [n : 0 .. GridN(launch) - 1, b : Batch(launch), h : Heads]
  BY Grids
<1>2. c.b \in Batch(launch) /\ c.n \in 0 .. GridN(launch) - 1 /\ c.h \in Heads
  BY <1>1
<1>3. GridN(launch) \in Nat /\ AllBlocks(c.b) \in Nat /\ AllBlocks(c.b) <= GridN(launch)
  BY <1>2, GridCovers, Blocks DEF AllBlocks
<1> QED
  BY <1>1, <1>2, <1>3 DEF Main

\* There is one for each block that holds a row.
LEMMA MainIn ==
  ASSUME launch \in Launches, NEW n \in 0 .. GridN(launch) - 1, NEW b \in Batch(launch), NEW h \in Heads
  PROVE  /\ Main(n, b, h) \in MainGrid /\ n \in Nat
         /\ Main(n, b, h).n = n /\ Main(n, b, h).b = b /\ Main(n, b, h).h = h
<1>1. GridN(launch) \in Nat
  BY GridCovers
<1> QED
  BY <1>1, Grids DEF Main

\* A query has a CTA in the preprocess kernel.
LEMMA DotIn ==
  ASSUME launch \in Launches, NEW h \in Heads, NEW b \in Batch(launch), NEW q \in Queries(b)
  PROVE  Dot(h, b, q) \in DotGrid
<1>1. q \div BlockM \in Nat /\ q \div BlockM < MBlockMax(launch, b)
  BY LaneOf DEF Queries
<1>2. MBlockMax(launch, b) <= GridM(launch) /\ GridM(launch) \in Nat /\ MBlockMax(launch, b) \in Nat
  BY GridCovers
<1>3. q \div BlockM \in 0 .. GridM(launch) - 1
  BY <1>1, <1>2
<1> QED
  BY <1>3, Grids DEF Dot

(* A CTA that has ended has stored its block, if there is one. *)
LEMMA OverFinished ==
  ASSUME BwdTypes, CTAInv, NEW c \in MainGrid, Over(c), c.n < AllBlocks(c.b)
  PROVE  Finished(c)
<1>1. AllBlocks(c.b) <= at[c].n
  BY DEF CTAInv
<1>2. at[c].n \in Nat /\ c.n \in Nat /\ AllBlocks(c.b) \in Nat
  BY MainFacts DEF BwdTypes
<1> QED
  BY <1>1, <1>2 DEF Finished

(* The CTA of a block that is there has it and not finished it: the second *)
(* block of a CTA would be behind the last.                                *)
LEMMA HasBlock ==
  ASSUME BwdTypes, CTAInv, NEW c \in MainGrid, at[c].n < AllBlocks(c.b)
  PROVE  at[c].n = c.n /\ ~Finished(c)
<1>1. at[c].n = c.n \/ at[c].n = c.n + GridN(launch)
  BY DEF CTAInv
<1>2. c.n \in Nat /\ GridN(launch) \in Nat /\ AllBlocks(c.b) \in Nat /\ AllBlocks(c.b) <= GridN(launch)
  BY MainFacts DEF BwdTypes
<1> QED
  BY <1>1, <1>2 DEF Finished

\* The domains of the accumulators.
LEMMA BwdInitTypes == ASSUME Init, BwdInit PROVE BwdTypes
<1>1. /\ launch \in Launches /\ kernel = "forward"
      /\ at = [c \in MainGrid |-> [pc |-> "next", n |-> c.n, m |-> 0]]
      /\ DOMAIN dk = MainGrid /\ DOMAIN dpsum = Heads /\ DOMAIN dqacc = Heads
      /\ DOMAIN ctxacc = Heads /\ DOMAIN dec = Heads
  BY DEF Init, BwdInit, MainGrid
<1>2. \A c \in MainGrid : [pc |-> "next", n |-> c.n, m |-> 0] \in [pc : {"next", "loop"}, n : Nat, m : Int]
  BY <1>1, MainFacts
<1> QED
  BY <1>1, <1>2 DEF BwdTypes

\* Nothing has been added to any gradient.
LEMMA BwdInitInv == ASSUME Init, BwdInit PROVE BwdInv
<1>1. BwdTypes
  BY BwdInitTypes
<1>2. /\ kernel = "forward" /\ launch \in Launches
      /\ at = [c \in MainGrid |-> [pc |-> "next", n |-> c.n, m |-> 0]]
      /\ dpsum = [h \in Heads |-> [r \in PaddedRows |-> Uninitialized]]
      /\ ctxacc = [h \in Heads |-> [row \in CtxRows |-> NoQueries]]
  BY DEF Init, BwdInit, MainGrid
<1>3. \A c \in MainGrid : at[c].pc = "next" /\ at[c].n = c.n
  BY <1>2
<1>4. CTAInv
  BY <1>2, <1>3 DEF CTAInv, Over
<1>5. PlaceInv
  BY <1>2 DEF PlaceInv, Uninitialized
<1>6. SumsInv
  BY <1>2 DEF SumsInv, Ready
<1>7. TileInv /\ DecodedInv
  BY <1>3 DEF TileInv, DecodedInv, Finished
<1>8. ContextInv
  <2> SUFFICES ASSUME NEW h \in Heads, NEW row \in CtxRows PROVE ctxacc[h][row] = SumCtx(h, row)
    BY DEF ContextInv
  <2>1. ASSUME NEW r PROVE ~InContext(h, row, r)
    <3>1. \A b \in Batch(launch) : \A n \in 0 .. GridN(launch) - 1 : ~Finished(Main(n, b, h))
      BY <1>2, <1>3, MainIn DEF Finished
    <3> QED
      BY <3>1 DEF InContext
  <2> QED
    BY <1>2, <2>1 DEF SumCtx, NoQueries
<1>9. ConvertedInv
  BY <1>2 DEF ConvertedInv
<1> QED
  BY <1>1, <1>4, <1>5, <1>6, <1>7, <1>8, <1>9 DEF BwdInv

-----------------------------------------------------------------------------
(* What depends on what.                                                   *)

\* The grid depends on the call.
LEMMA GridFrame ==
  ASSUME UNCHANGED launch
  PROVE  /\ MainGrid' = MainGrid /\ DotGrid' = DotGrid /\ Heads' = Heads
         /\ PaddedRows' = PaddedRows /\ CtxRows' = CtxRows /\ DecRows' = DecRows
         /\ \A b : Queries(b)' = Queries(b) /\ AllBlocks(b)' = AllBlocks(b)
         /\ \A b, row : Share(b, row)' = Share(b, row)
BY DEF MainGrid, DotGrid, Heads, PaddedRows, CtxRows, DecRows, Queries, AllBlocks, Share, Grid

\* The sums depend on where the CTAs are.
LEMMA SumFrame ==
  ASSUME UNCHANGED <<launch, at>>
  PROVE  /\ \A c : Finished(c)' = Finished(c)
         /\ \A h, b, q : SumDQ(h, b, q)' = SumDQ(h, b, q)
         /\ \A c, j : SumDK(c, j)' = SumDK(c, j)
         /\ \A h, row : SumCtx(h, row)' = SumCtx(h, row)
BY DEF Finished, Passed, SumDQ, SumDK, SumCtx, InContext, Queries

LEMMA PlaceFrame == ASSUME UNCHANGED <<launch, dpsum>>, PlaceInv PROVE PlaceInv'
BY GridFrame DEF PlaceInv

LEMMA SumsFrame ==
  ASSUME UNCHANGED <<launch, at, dpsum, dqacc>>, SumsInv,
         \A h \in Heads : \A b \in Batch(launch) : \A q \in Queries(b) :
           Ready(h, b, q)' => Ready(h, b, q)
  PROVE  SumsInv'
BY GridFrame, SumFrame DEF SumsInv

LEMMA TileFrame == ASSUME UNCHANGED <<launch, at, dk>>, TileInv PROVE TileInv'
BY GridFrame, SumFrame DEF TileInv

LEMMA DecodedFrame == ASSUME UNCHANGED <<launch, at, dec>>, DecodedInv PROVE DecodedInv'
BY GridFrame, SumFrame DEF DecodedInv

LEMMA ContextFrame == ASSUME UNCHANGED <<launch, at, ctxacc>>, ContextInv PROVE ContextInv'
BY GridFrame, SumFrame DEF ContextInv

LEMMA ConvertedFrame ==
  ASSUME UNCHANGED <<launch, kernel, dq, dK>>, ConvertedInv PROVE ConvertedInv'
BY GridFrame DEF ConvertedInv, DQExact, DKExact, AttendsRow, KeysOf

LEMMA TypesFrame ==
  ASSUME BwdTypes, UNCHANGED <<launch, at, dk, dpsum, dqacc, ctxacc, dec>>,
         kernel' \in {"forward", "dot_do_o", "main", "convert_dq", "done"}
  PROVE  BwdTypes'
BY GridFrame DEF BwdTypes

\* Nothing of the backward pass has changed.
LEMMA StutterKeeps == ASSUME BwdInv, UNCHANGED launch, UNCHANGED bwdVars PROVE BwdInv'
<1>1. UNCHANGED <<kernel, todo, at, dk, dpsum, dqacc, ctxacc, dec, dq, dK>>
  BY DEF bwdVars
<1>2. CTAInv'
  BY <1>1, GridFrame DEF BwdInv, CTAInv, Over
<1>3. SumsInv'
  BY <1>1, SumsFrame DEF BwdInv, Ready
<1>4. BwdTypes'
  BY <1>1, TypesFrame DEF BwdInv, BwdTypes
<1> QED
  BY <1>1, <1>2, <1>3, <1>4, PlaceFrame, TileFrame, DecodedFrame, ContextFrame, ConvertedFrame
     DEF BwdInv

-----------------------------------------------------------------------------
(* The kernels, one after the other.                                       *)

LEMMA BackwardKeeps == ASSUME BwdInv, Backward PROVE BwdInv'
<1>1. /\ kernel = "forward" /\ kernel' = "dot_do_o" /\ todo' = DotGrid
      /\ UNCHANGED <<launch, at, dk, dpsum, dqacc, ctxacc, dec, dq, dK>>
  BY DEF Backward, Launch, vars, DotGrid
<1>2. CTAInv'
  BY <1>1, GridFrame DEF BwdInv, CTAInv, Over
<1>3. SumsInv'
  <2>1. launch \in Launches
    BY DEF BwdInv, BwdTypes
  <2>2. ASSUME NEW h \in Heads, NEW b \in Batch(launch), NEW q \in Queries(b)
        PROVE  ~Ready(h, b, q)'
    BY <1>1, <2>1, DotIn DEF Ready, Dot
  <2> QED
    BY <1>1, <2>2, SumsFrame DEF BwdInv
<1>4. ConvertedInv'
  BY <1>1 DEF ConvertedInv
<1> QED
  BY <1>1, <1>2, <1>3, <1>4, TypesFrame, PlaceFrame, TileFrame, DecodedFrame, ContextFrame
     DEF BwdInv

LEMMA StartMainKeeps == ASSUME BwdInv, StartMain PROVE BwdInv'
<1>1. /\ kernel = "dot_do_o" /\ kernel' = "main" /\ todo = {} /\ todo' = MainGrid
      /\ UNCHANGED <<launch, at, dk, dpsum, dqacc, ctxacc, dec, dq, dK>>
  BY DEF StartMain, Launch, vars, MainGrid
<1>2. CTAInv'
  BY <1>1, GridFrame DEF BwdInv, CTAInv, Over
<1>3. SumsInv'
  BY <1>1, SumsFrame DEF BwdInv, Ready
<1>4. ConvertedInv'
  BY <1>1 DEF ConvertedInv
<1> QED
  BY <1>1, <1>2, <1>3, <1>4, TypesFrame, PlaceFrame, TileFrame, DecodedFrame, ContextFrame
     DEF BwdInv

\* Once all CTAs have ended every row of dq_accum is complete.
LEMMA SumComplete ==
  ASSUME BwdTypes, CTAInv, \A c \in MainGrid : Over(c),
         NEW h \in Heads, NEW b \in Batch(launch), NEW q \in Queries(b)
  PROVE  SumDQ(h, b, q) =
           [row \in KRows(launch) |-> IF AttendsRow(launch.cuQ[b] + q, row) THEN 1 ELSE 0]
<1>1. launch \in Launches
  BY DEF BwdTypes
<1>2. ASSUME NEW row \in KRows(launch), Att(launch, b, q, row)
      PROVE  \E n \in 0 .. GridN(launch) - 1 : Holds(launch, b, n, row) /\ Passed(Main(n, b, h), q)
  <2>1. q \in Int
    BY <1>1, Lengths DEF Queries
  <2>2. PICK n \in 0 .. GridN(launch) - 1 : Holds(launch, b, n, row)
    BY <1>1, <1>2, <2>1, AttHeld
  <2>3. /\ Main(n, b, h) \in MainGrid /\ n \in Nat
        /\ Main(n, b, h).n = n /\ Main(n, b, h).b = b
    BY <1>1, MainIn
  <2>4. n < AllBlocks(b)
    BY <1>1, <2>2, <2>3, HeldPart DEF AllBlocks
  <2>5. Finished(Main(n, b, h))
    BY <2>3, <2>4, OverFinished
  <2> QED
    BY <2>2, <2>5 DEF Passed
<1>3. \A row : AttendsRow(launch.cuQ[b] + q, row) <=> Att(launch, b, q, row)
  BY <1>1, AttendsAsQuery
<1> QED
  BY <1>2, <1>3 DEF SumDQ

LEMMA ConvertDQKeeps == ASSUME BwdInv, ConvertDQ PROVE BwdInv'
<1>1. /\ kernel = "main" /\ kernel' = "convert_dq" /\ todo = {}
      /\ UNCHANGED <<launch, at, dk, dpsum, dqacc, ctxacc, dec, dK>>
  BY DEF ConvertDQ, Launch, vars
<1>2. launch \in Launches /\ BwdTypes /\ CTAInv /\ SumsInv
  BY DEF BwdInv, BwdTypes
<1>3. \A c \in MainGrid : Over(c)
  BY <1>1 DEF Over
<1>4. CTAInv'
  <2>1. \A c : Over(c)' => kernel' = "convert_dq"
    BY <1>1 DEF Over
  <2> QED
    BY <1>1, <1>2, <1>3, GridFrame DEF CTAInv
<1>5. SumsInv'
  BY <1>1, <1>2, SumsFrame DEF Ready
<1>6. DQExact'
  <2> SUFFICES ASSUME NEW h \in Heads, NEW r \in QRows(launch)
               PROVE  dq'[h][r] = {[row \in KRows(launch) |-> IF AttendsRow(r, row) THEN 1 ELSE 0]}
    BY <1>1, GridFrame DEF DQExact, AttendsRow, KeysOf
  <2> DEFINE B == {b \in Batch(launch) : launch.cuQ[b] <= r /\ r < launch.cuQ[b + 1]}
             c == CHOOSE b \in Batch(launch) : launch.cuQ[b] <= r /\ r < launch.cuQ[b + 1]
             p == r - launch.cuQ[c]
  <2>1. dq'[h][r] = dqacc[h][r + RowPad * c]
    BY DEF ConvertDQ
  <2>2. c \in Batch(launch) /\ launch.cuQ[c] <= r /\ r < launch.cuQ[c + 1]
    <3>1. PICK b \in Batch(launch) : \E q \in Queries(b) : r = launch.cuQ[b] + q
      BY <1>2, EveryQuery
    <3>2. PICK q \in Queries(b) : r = launch.cuQ[b] + q
      BY <3>1
    <3>3. launch.cuQ[b] \in Nat /\ QLen(launch, b) \in Nat /\ QLen(launch, b) = launch.cuQ[b + 1] - launch.cuQ[b]
      BY <1>2, Lengths DEF QLen
    <3>4. launch.cuQ[b + 1] \in Nat
      <4>1. b \in 0 .. launch.batch - 1 /\ launch.batch \in Nat /\ launch.cuQ \in [0 .. launch.batch -> Nat]
        BY <1>2, Cumulated DEF Batch
      <4>2. b + 1 \in 0 .. launch.batch
        BY <4>1
      <4> QED
        BY <4>1, <4>2
    <3>5. launch.cuQ[b] <= r /\ r < launch.cuQ[b + 1]
      BY <3>2, <3>3, <3>4 DEF Queries
    <3> QED
      BY <3>5
  <2>3. p \in Queries(c) /\ r = launch.cuQ[c] + p /\ r + RowPad * c = Pad(launch, c, p)
    <3>1. launch.cuQ[c] \in Nat /\ QLen(launch, c) \in Nat /\ QLen(launch, c) = launch.cuQ[c + 1] - launch.cuQ[c]
      BY <1>2, <2>2, Lengths DEF QLen
    <3>2. r \in Int /\ RowPad * c \in Int
      <4>1. c \in Int /\ RowPad \in Int
        BY <1>2, <2>2, Cumulated, RowPadAssumption DEF Batch
      <4>2. r \in Int
        BY <1>2, Cumulated DEF QRows
      <4> QED
        BY <4>1, <4>2
    <3>3. launch.cuQ[c + 1] \in Nat
      <4>1. c \in 0 .. launch.batch - 1 /\ launch.batch \in Nat /\ launch.cuQ \in [0 .. launch.batch -> Nat]
        BY <1>2, <2>2, Cumulated DEF Batch
      <4>2. c + 1 \in 0 .. launch.batch
        BY <4>1
      <4> QED
        BY <4>1, <4>2
    <3> HIDE DEF c
    <3> QED
      BY <2>2, <3>1, <3>2, <3>3 DEF Queries, Pad
  <2> HIDE DEF c, p
  <2>4. dqacc[h][Pad(launch, c, p)] = {SumDQ(h, c, p)}
    BY <1>1, <1>2, <2>2, <2>3 DEF SumsInv, Ready
  <2> QED
    BY <1>2, <1>3, <2>1, <2>2, <2>3, <2>4, SumComplete
<1>7. ConvertedInv'
  BY <1>1, <1>6 DEF ConvertedInv
<1> QED
  BY <1>1, <1>2, <1>4, <1>5, <1>7, TypesFrame, PlaceFrame, TileFrame, DecodedFrame, ContextFrame
     DEF BwdInv

\* A row of the context has the queries of all sequences.
LEMMA ContextComplete ==
  ASSUME BwdTypes, CTAInv, \A c \in MainGrid : Over(c), NEW h \in Heads, NEW row \in CtxRows
  PROVE  SumCtx(h, row) = [r \in QRows(launch) |-> IF AttendsRow(r, row) THEN 1 ELSE 0]
<1>1. launch \in Launches /\ row \in KRows(launch)
  BY KRowsAre DEF BwdTypes
<1>2. ASSUME NEW b \in Batch(launch), NEW q \in Queries(b), Att(launch, b, q, row)
      PROVE  \E n \in 0 .. GridN(launch) - 1 : Holds(launch, b, n, row) /\ Finished(Main(n, b, h))
  <2>1. q \in Int
    BY <1>1, Lengths DEF Queries
  <2>2. PICK n \in 0 .. GridN(launch) - 1 : Holds(launch, b, n, row)
    BY <1>1, <1>2, <2>1, AttHeld
  <2>3. /\ Main(n, b, h) \in MainGrid /\ n \in Nat
        /\ Main(n, b, h).n = n /\ Main(n, b, h).b = b
    BY <1>1, MainIn
  <2>4. n < AllBlocks(b)
    BY <1>1, <2>2, <2>3, HeldPart DEF AllBlocks
  <2> QED
    BY <2>2, <2>3, <2>4, OverFinished
<1>3. ASSUME NEW r PROVE InContext(h, row, r) <=> AttendsRow(r, row)
  <2>1. InContext(h, row, r) <=>
          \E b \in Batch(launch) : \E q \in Queries(b) : r = launch.cuQ[b] + q /\ Att(launch, b, q, row)
    BY <1>2 DEF InContext
  <2> QED
    BY <2>1 DEF AttendsRow, Att, Queries
<1> QED
  BY <1>3 DEF SumCtx

\* A decoded row has those of its sequence.
LEMMA DecodedComplete ==
  ASSUME BwdTypes, CTAInv, DecodedInv, \A c \in MainGrid : Over(c), NEW h \in Heads, NEW row \in DecRows
  PROVE  dec[h][row] = {[r \in QRows(launch) |-> IF AttendsRow(r, row) THEN 1 ELSE 0]}
<1>1. launch \in Launches /\ row \in KRows(launch)
  BY KRowsAre DEF BwdTypes
<1>2. PICK b \in Batch(launch) : \E n \in 0 .. GridN(launch) - 1 : Holds(launch, b, n, row)
  BY <1>1, EveryDecoded
<1>3. PICK n \in 0 .. GridN(launch) - 1 : Holds(launch, b, n, row)
  BY <1>2
<1> DEFINE c == Main(n, b, h)
<1>4. c \in MainGrid /\ n \in Nat /\ c.n = n /\ c.b = b /\ c.h = h
  BY <1>1, MainIn
<1> HIDE DEF c
<1>5. n < AllBlocks(b)
  BY <1>1, <1>3, <1>4, HeldPart DEF AllBlocks
<1>6. Finished(c)
  BY <1>4, <1>5, OverFinished
<1>7. dec[h][row] = {Share(b, row)}
  BY <1>3, <1>4, <1>6 DEF DecodedInv
<1>8. \A r : AttendsRow(r, row) <=> \E q \in Queries(b) : r = launch.cuQ[b] + q /\ Att(launch, b, q, row)
  BY <1>1, <1>3, <1>4, AttendsDecoded
<1> QED
  BY <1>7, <1>8 DEF Share

LEMMA ConvertDKVKeeps == ASSUME BwdInv, ConvertDKV PROVE BwdInv'
<1>1. /\ kernel = "convert_dq" /\ kernel' = "done"
      /\ UNCHANGED <<launch, at, dk, dpsum, dqacc, ctxacc, dec, dq>>
  BY DEF ConvertDKV, Launch, vars
<1>2. launch \in Launches /\ BwdTypes /\ CTAInv /\ SumsInv /\ DecodedInv /\ ContextInv /\ DQExact
  BY <1>1 DEF BwdInv, BwdTypes, ConvertedInv
<1>3. \A c \in MainGrid : Over(c)
  BY <1>1 DEF Over
<1>4. CTAInv'
  <2>1. \A c : Over(c)' => kernel' = "done"
    BY <1>1 DEF Over
  <2> QED
    BY <1>1, <1>2, <1>3, GridFrame DEF CTAInv
<1>5. SumsInv'
  BY <1>1, <1>2, SumsFrame DEF Ready
<1>6. DKExact'
  <2> DEFINE terms(h, row) == IF row \in CtxRows THEN {ctxacc[h][row]} ELSE dec[h][row]
  <2>1. dK' = [g \in 0 .. (launch.heads \div launch.ratio) - 1 |->
                [row \in KRows(launch) |-> UNION {{h} \X terms(h, row) : h \in Group(g)}]]
    BY DEF ConvertDKV
  <2>2. ASSUME NEW h \in Heads, NEW row \in KRows(launch)
        PROVE  terms(h, row) = {[r \in QRows(launch) |-> IF AttendsRow(r, row) THEN 1 ELSE 0]}
    <3>1. CASE row \in CtxRows
      BY <1>2, <1>3, <3>1, ContextComplete DEF ContextInv
    <3>2. CASE row \notin CtxRows
      <4>1. row \in DecRows
        BY <1>2, <3>2, KRowsAre
      <4> QED
        BY <1>2, <1>3, <3>2, <4>1, DecodedComplete
    <3> QED
      BY <3>1, <3>2
  <2> HIDE DEF terms
  <2> SUFFICES ASSUME NEW g \in DOMAIN dK', NEW row \in KRows(launch)
               PROVE  dK'[g][row] = {h \in Heads : h \div launch.ratio = g} \X
                        {[r \in QRows(launch) |-> IF AttendsRow(r, row) THEN 1 ELSE 0]}
    BY <1>1, GridFrame DEF DKExact, AttendsRow, KeysOf
  <2> DEFINE v == [r \in QRows(launch) |-> IF AttendsRow(r, row) THEN 1 ELSE 0]
  <2>3. dK'[g][row] = UNION {{h} \X terms(h, row) : h \in Group(g)}
    BY <2>1
  <2>4. Group(g) = {h \in Heads : h \div launch.ratio = g}
    BY DEF Group
  <2>5. \A h \in Group(g) : terms(h, row) = {v}
    BY <2>2, <2>4
  <2> HIDE DEF v
  <2>6. UNION {{h} \X terms(h, row) : h \in Group(g)} = Group(g) \X {v}
    BY <2>5
  <2> QED
    BY <2>3, <2>4, <2>6 DEF v
<1>7. ConvertedInv'
  <2>1. DQExact'
    BY <1>1, <1>2, GridFrame DEF DQExact, AttendsRow, KeysOf
  <2> QED
    BY <1>6, <2>1 DEF ConvertedInv
<1> QED
  BY <1>1, <1>2, <1>4, <1>5, <1>7, TypesFrame, PlaceFrame, TileFrame, DecodedFrame, ContextFrame
     DEF BwdInv

-----------------------------------------------------------------------------
(* The preprocess kernel.                                                  *)

\* Lane i of a block of queries, in dq_accum and softmax_d.
LEMMA LaneRow ==
  ASSUME NEW b, NEW m, NEW i
  PROVE  /\ PaddedRow(b, m, i) = Pad(launch, b, m * BlockM + i)
         /\ QRow(b, m, i) = launch.cuQ[b] + (m * BlockM + i)
BY DEF PaddedRow, QRow, QueryOf, Pad

(* The rows of a block are its own: not of another sequence, although its  *)
(* last lanes may be behind the end of its sequence, and not of another    *)
(* block.                                                                  *)
LEMMA LanesApart ==
  ASSUME NEW L \in Launches, NEW b \in Batch(L), NEW m \in Nat, m * BlockM < QLen(L, b),
         NEW i \in Lanes, NEW c \in Batch(L), NEW q \in Nat, q < QLen(L, c) + RowPad,
         Pad(L, b, m * BlockM + i) = Pad(L, c, q)
  PROVE  b = c /\ q = m * BlockM + i
<1>1. BlockM \in Nat \ {0} /\ RowPad \in Nat /\ BlockM <= RowPad /\ QLen(L, b) \in Nat
  BY BlocksAssumption, RowPadAssumption, Lengths
<1>2. m * BlockM \in Nat /\ i \in Nat /\ i < BlockM
  BY <1>1 DEF Lanes
<1>3. m * BlockM + i \in Nat /\ m * BlockM + i < QLen(L, b) + RowPad
  BY <1>1, <1>2
<1> QED
  BY <1>3, PadUnique

\* What a CTA of flash_bwd_dot_do_o_kernel writes.
LEMMA DotWrites ==
  ASSUME BwdTypes, NEW c \in DotGrid, DotDoO(c), c.m * BlockM < QLen(launch, c.b)
  PROVE  /\ DOMAIN dpsum' = Heads /\ DOMAIN dqacc' = Heads
         /\ \A h \in Heads : h # c.h => dpsum'[h] = dpsum[h] /\ dqacc'[h] = dqacc[h]
         /\ \A r \in PaddedRows :
              (\A i \in Lanes : r # Pad(launch, c.b, c.m * BlockM + i))
                => dpsum'[c.h][r] = dpsum[c.h][r] /\ dqacc'[c.h][r] = dqacc[c.h][r]
         /\ \A i \in Lanes : Pad(launch, c.b, c.m * BlockM + i) \in PaddedRows =>
              /\ dqacc'[c.h][Pad(launch, c.b, c.m * BlockM + i)] = {NoKeys(launch)}
              /\ dpsum'[c.h][Pad(launch, c.b, c.m * BlockM + i)] =
                   IF c.m * BlockM + i < QLen(launch, c.b)
                   THEN launch.cuQ[c.b] + (c.m * BlockM + i) ELSE -1
<1> DEFINE lane(r) == {i \in Lanes : PaddedRow(c.b, c.m, i) = r}
           D == [r \in PaddedRows |->
                   IF lane(r) = {} THEN dpsum[c.h][r]
                   ELSE IF \E i \in lane(r) : QueryOf(c.m, i) < QLen(launch, c.b)
                        THEN launch.cuQ[c.b] + c.m * BlockM + (CHOOSE i \in lane(r) : TRUE)
                        ELSE -1]
           S == [r \in PaddedRows |->
                   IF lane(r) = {} THEN dqacc[c.h][r] ELSE {NoKeys(launch)}]
<1>1. launch \in Launches /\ c.m \in Nat /\ c.b \in Batch(launch) /\ c.h \in Heads
  <2>1. launch \in Launches
    BY DEF BwdTypes
  <2>2. c \in [m : 0 .. GridM(launch) - 1, b : Batch(launch), h : Heads]
    BY Grids
  <2>3. c.m \in 0 .. GridM(launch) - 1 /\ c.b \in Batch(launch) /\ c.h \in Heads
    BY <2>2
  <2> QED
    BY <2>1, <2>3, GridCovers
<1>2. /\ launch.cuQ[c.b] \in Nat /\ QLen(launch, c.b) \in Nat /\ c.m * BlockM \in Nat
      /\ BlockM \in Nat \ {0} /\ RowPad \in Nat /\ BlockM <= RowPad
  BY <1>1, Lengths, BlocksAssumption, RowPadAssumption
<1>3. ~(c.m * BlockM >= QLen(launch, c.b))
  BY <1>2
<1>4. dpsum' = [dpsum EXCEPT ![c.h] = D] /\ dqacc' = [dqacc EXCEPT ![c.h] = S]
  BY <1>3 DEF DotDoO
<1>5. ASSUME NEW i \in Lanes PROVE lane(Pad(launch, c.b, c.m * BlockM + i)) = {i}
  <2>1. ASSUME NEW k \in Lanes, Pad(launch, c.b, c.m * BlockM + k) = Pad(launch, c.b, c.m * BlockM + i)
        PROVE  k = i
    <3>1. i \in Nat /\ k \in Nat /\ i < BlockM
      BY <1>2 DEF Lanes
    <3>2. c.m * BlockM + i \in Nat /\ c.m * BlockM + i < QLen(launch, c.b) + RowPad
      BY <1>2, <3>1
    <3>3. c.m * BlockM + i = c.m * BlockM + k
      BY <1>1, <2>1, <3>2, LanesApart
    <3> QED
      BY <1>2, <3>1, <3>3
  <2> QED
    BY <2>1, LaneRow
<1>6. \A r \in PaddedRows : (\A i \in Lanes : r # Pad(launch, c.b, c.m * BlockM + i)) => lane(r) = {}
  BY LaneRow
<1>7. ASSUME NEW i \in Lanes, Pad(launch, c.b, c.m * BlockM + i) \in PaddedRows
      PROVE  /\ S[Pad(launch, c.b, c.m * BlockM + i)] = {NoKeys(launch)}
             /\ D[Pad(launch, c.b, c.m * BlockM + i)] =
                   IF c.m * BlockM + i < QLen(launch, c.b)
                   THEN launch.cuQ[c.b] + (c.m * BlockM + i) ELSE -1
  <2> DEFINE r == Pad(launch, c.b, c.m * BlockM + i)
  <2>1. lane(r) = {i} /\ r \in PaddedRows
    BY <1>5, <1>7
  <2>2. (CHOOSE k \in lane(r) : TRUE) = i
    BY <2>1
  <2> HIDE DEF r, lane
  <2>3. S[r] = {NoKeys(launch)}
    BY <2>1
  <2>4. D[r] = IF QueryOf(c.m, i) < QLen(launch, c.b) THEN launch.cuQ[c.b] + c.m * BlockM + i ELSE -1
    BY <2>1, <2>2
  <2>5. launch.cuQ[c.b] + c.m * BlockM + i = launch.cuQ[c.b] + (c.m * BlockM + i)
    BY <1>2 DEF Lanes
  <2> QED
    BY <2>3, <2>4, <2>5 DEF QueryOf, r
<1>8. \A r \in PaddedRows : lane(r) = {} => D[r] = dpsum[c.h][r] /\ S[r] = dqacc[c.h][r]
  BY DEF D, S
<1> HIDE DEF lane, D, S
<1>9. /\ DOMAIN dpsum' = Heads /\ DOMAIN dqacc' = Heads /\ dpsum'[c.h] = D /\ dqacc'[c.h] = S
      /\ \A h \in Heads : h # c.h => dpsum'[h] = dpsum[h] /\ dqacc'[h] = dqacc[h]
  BY <1>1, <1>4 DEF BwdTypes
<1> QED
  BY <1>6, <1>7, <1>8, <1>9

\* A CTA of the preprocess kernel: its block of queries.
LEMMA DotFacts ==
  ASSUME launch \in Launches, NEW c \in DotGrid
  PROVE  /\ c.m \in Nat /\ c.b \in Batch(launch) /\ c.h \in Heads /\ QLen(launch, c.b) \in Nat
         /\ c.m * BlockM \in Nat /\ launch.cuQ[c.b] \in Nat
         /\ \A i \in Lanes : c.m * BlockM + i \in Nat
         /\ \A h, b : \A q \in Nat : Dot(h, b, q) = c =>
              h = c.h /\ b = c.b /\ c.m * BlockM <= q /\ q - c.m * BlockM \in Lanes
<1>1. c \in [m : 0 .. GridM(launch) - 1, b : Batch(launch), h : Heads]
  BY Grids
<1>2. c.m \in Nat /\ c.b \in Batch(launch) /\ c.h \in Heads
  <2>1. c.m \in 0 .. GridM(launch) - 1 /\ c.b \in Batch(launch) /\ c.h \in Heads
    BY <1>1
  <2> QED
    BY <2>1, GridCovers
<1>3. QLen(launch, c.b) \in Nat /\ launch.cuQ[c.b] \in Nat /\ BlockM \in Nat \ {0}
  BY <1>2, Lengths, BlocksAssumption
<1>4. c.m * BlockM \in Nat /\ \A i \in Lanes : c.m * BlockM + i \in Nat
  BY <1>2, <1>3 DEF Lanes
<1>5. ASSUME NEW h, NEW b, NEW q \in Nat, Dot(h, b, q) = c
      PROVE  h = c.h /\ b = c.b /\ c.m * BlockM <= q /\ q - c.m * BlockM \in Lanes
  <2>1. h = c.h /\ b = c.b /\ c.m = q \div BlockM
    BY <1>5 DEF Dot
  <2>2. BlockM * c.m <= q /\ q < BlockM * c.m + BlockM
    BY <1>3, <2>1, DivBounds
  <2>3. BlockM * c.m = c.m * BlockM
    BY <1>2, <1>3
  <2> QED
    BY <1>3, <1>4, <2>1, <2>2, <2>3 DEF Lanes
<1> QED
  BY <1>2, <1>3, <1>4, <1>5

\* What the CTAs have computed stays as it is.
LEMMA DotStays ==
  ASSUME BwdTypes, PlaceInv, NEW c \in DotGrid, DotDoO(c),
         NEW h \in Heads, NEW r \in PaddedRows, dpsum[h][r] >= 0
  PROVE  dpsum'[h][r] = dpsum[h][r]
<1>1. launch \in Launches
  BY DEF BwdTypes
<1>2. /\ c.m \in Nat /\ c.b \in Batch(launch) /\ QLen(launch, c.b) \in Nat
      /\ c.m * BlockM \in Nat
  BY <1>1, DotFacts
<1>3. CASE c.m * BlockM >= QLen(launch, c.b)
  BY <1>3 DEF DotDoO
<1>4. CASE c.m * BlockM < QLen(launch, c.b)
  <2>1. PICK b \in Batch(launch) : \E q \in Queries(b) :
          r = Pad(launch, b, q) /\ dpsum[h][r] = launch.cuQ[b] + q
    BY DEF PlaceInv
  <2>2. PICK q \in Queries(b) : r = Pad(launch, b, q) /\ dpsum[h][r] = launch.cuQ[b] + q
    BY <2>1
  <2>3. q \in Nat /\ q < QLen(launch, b) /\ q < QLen(launch, b) + RowPad
    BY <1>1, Lengths, RowPadAssumption DEF Queries
  <2>4. CASE h = c.h /\ \E i \in Lanes : r = Pad(launch, c.b, c.m * BlockM + i)
    <3>1. PICK i \in Lanes : r = Pad(launch, c.b, c.m * BlockM + i)
      BY <2>4
    <3>2. b = c.b /\ q = c.m * BlockM + i
      <4>1. Pad(launch, c.b, c.m * BlockM + i) = Pad(launch, b, q)
        BY <2>2, <3>1
      <4> QED
        BY <1>1, <1>2, <1>4, <2>3, <4>1, LanesApart
    <3>3. dpsum'[c.h][Pad(launch, c.b, c.m * BlockM + i)] =
            IF c.m * BlockM + i < QLen(launch, c.b) THEN launch.cuQ[c.b] + (c.m * BlockM + i) ELSE -1
      BY <1>4, <3>1, DotWrites
    <3> QED
      BY <2>2, <2>3, <2>4, <3>1, <3>2, <3>3
  <2>5. CASE ~(h = c.h /\ \E i \in Lanes : r = Pad(launch, c.b, c.m * BlockM + i))
    <3>1. h # c.h => dpsum'[h] = dpsum[h]
      BY <1>4, DotWrites
    <3>2. h = c.h => dpsum'[c.h][r] = dpsum[c.h][r]
      BY <1>4, <2>5, DotWrites
    <3> QED
      BY <3>1, <3>2
  <2> QED
    BY <2>4, <2>5
<1> QED
  BY <1>2, <1>3, <1>4

LEMMA DotKeeps == ASSUME BwdInv, NEW c \in DotGrid, DotDoO(c) PROVE BwdInv'
<1>1. /\ kernel = "dot_do_o" /\ kernel' = kernel /\ c \in todo /\ todo' = todo \ {c}
      /\ UNCHANGED <<launch, at, dk, ctxacc, dec, dq, dK>>
  BY DEF DotDoO, End, vars
<1>2. launch \in Launches /\ BwdTypes /\ CTAInv /\ PlaceInv /\ SumsInv
  BY DEF BwdInv, BwdTypes
<1>3. /\ c.m \in Nat /\ c.b \in Batch(launch) /\ c.h \in Heads /\ QLen(launch, c.b) \in Nat
      /\ c.m * BlockM \in Nat /\ launch.cuQ[c.b] \in Nat
      /\ \A i \in Lanes : c.m * BlockM + i \in Nat
      /\ \A h, b : \A q \in Nat : Dot(h, b, q) = c =>
           h = c.h /\ b = c.b /\ c.m * BlockM <= q /\ q - c.m * BlockM \in Lanes
  BY <1>2, DotFacts
<1>4. CTAInv'
  BY <1>1, <1>2, GridFrame DEF CTAInv, Over
<1>5. \A h \in Heads : \A b \in Batch(launch) : \A q \in Queries(b) :
        Ready(h, b, q)' => Ready(h, b, q) \/ Dot(h, b, q) = c
  BY <1>1 DEF Ready, Dot
<1>6. BwdTypes' /\ PlaceInv' /\ SumsInv'
  <2>1. CASE c.m * BlockM >= QLen(launch, c.b)
    <3>1. UNCHANGED <<dpsum, dqacc>>
      BY <2>1 DEF DotDoO
    <3>2. ASSUME NEW h \in Heads, NEW b \in Batch(launch), NEW q \in Queries(b), Ready(h, b, q)'
          PROVE  Ready(h, b, q)
      <4>1. q \in Nat /\ q < QLen(launch, b)
        BY <1>2, Lengths DEF Queries
      <4>2. Dot(h, b, q) # c
        BY <1>3, <2>1, <4>1
      <4> QED
        BY <1>5, <3>2, <4>2
    <3> QED
      BY <1>1, <1>2, <3>1, <3>2, TypesFrame, PlaceFrame, SumsFrame DEF BwdTypes
  <2>2. CASE c.m * BlockM < QLen(launch, c.b)
    <3>1. BwdTypes'
      BY <1>1, <1>2, <2>2, DotWrites, GridFrame DEF BwdTypes
    <3>2. PlaceInv'
      <4> SUFFICES ASSUME NEW h \in Heads, NEW r \in PaddedRows, dpsum'[h][r] >= 0
                   PROVE  \E b \in Batch(launch) : \E q \in Queries(b) :
                            r = Pad(launch, b, q) /\ dpsum'[h][r] = launch.cuQ[b] + q
        BY <1>1, GridFrame DEF PlaceInv
      <4>1. CASE h = c.h /\ \E i \in Lanes : r = Pad(launch, c.b, c.m * BlockM + i)
        <5>1. PICK i \in Lanes : r = Pad(launch, c.b, c.m * BlockM + i)
          BY <4>1
        <5>2. dpsum'[h][r] = IF c.m * BlockM + i < QLen(launch, c.b)
                             THEN launch.cuQ[c.b] + (c.m * BlockM + i) ELSE -1
          BY <1>2, <2>2, <4>1, <5>1, DotWrites
        <5>3. c.m * BlockM + i < QLen(launch, c.b)
          BY <5>2
        <5>4. c.m * BlockM + i \in Queries(c.b)
          BY <1>3, <5>3 DEF Queries
        <5> QED
          BY <1>3, <5>1, <5>2, <5>3, <5>4
      <4>2. CASE ~(h = c.h /\ \E i \in Lanes : r = Pad(launch, c.b, c.m * BlockM + i))
        <5>1. h # c.h => dpsum'[h] = dpsum[h]
          BY <1>2, <2>2, DotWrites
        <5>2. h = c.h => dpsum'[c.h][r] = dpsum[c.h][r]
          BY <1>2, <2>2, <4>2, DotWrites
        <5>3. dpsum'[h][r] = dpsum[h][r]
          BY <5>1, <5>2
        <5> QED
          BY <1>2, <5>3 DEF PlaceInv
      <4> QED
        BY <4>1, <4>2
    <3>3. SumsInv'
      <4> SUFFICES ASSUME NEW h \in Heads, NEW b \in Batch(launch), NEW q \in Queries(b), Ready(h, b, q)'
                   PROVE  /\ dpsum'[h][Pad(launch, b, q)] = launch.cuQ[b] + q
                          /\ dqacc'[h][Pad(launch, b, q)] = {SumDQ(h, b, q)}
        BY <1>1, GridFrame, SumFrame DEF SumsInv
      <4> DEFINE r == Pad(launch, b, q)
      <4>1. q \in Nat /\ q < QLen(launch, b) /\ q < QLen(launch, b) + RowPad
        BY <1>2, Lengths, RowPadAssumption DEF Queries
      <4>2. r \in PaddedRows
        BY <1>2, PadIn DEF Queries
      <4>3. CASE h = c.h /\ \E i \in Lanes : r = Pad(launch, c.b, c.m * BlockM + i)
        <5>1. PICK i \in Lanes : r = Pad(launch, c.b, c.m * BlockM + i)
          BY <4>3
        <5>2. b = c.b /\ q = c.m * BlockM + i
          BY <1>2, <1>3, <2>2, <4>1, <5>1, LanesApart
        <5>3. /\ dqacc'[c.h][Pad(launch, c.b, c.m * BlockM + i)] = {NoKeys(launch)}
              /\ dpsum'[c.h][Pad(launch, c.b, c.m * BlockM + i)] =
                   IF c.m * BlockM + i < QLen(launch, c.b)
                   THEN launch.cuQ[c.b] + (c.m * BlockM + i) ELSE -1
          BY <1>2, <2>2, <4>2, <5>1, DotWrites
        <5>4. SumDQ(h, b, q) = NoKeys(launch)
          <6>1. ASSUME NEW n \in 0 .. GridN(launch) - 1 PROVE ~Passed(Main(n, b, h), q)
            <7>1. Main(n, b, h) \in MainGrid
              BY <1>2, MainIn
            <7> QED
              BY <1>1, <1>2, <7>1 DEF CTAInv, Passed, Finished
          <6> QED
            BY <6>1 DEF SumDQ, NoKeys
        <5> QED
          BY <4>1, <4>3, <5>2, <5>3, <5>4
      <4>4. CASE ~(h = c.h /\ \E i \in Lanes : r = Pad(launch, c.b, c.m * BlockM + i))
        <5>1. h # c.h => dpsum'[h] = dpsum[h] /\ dqacc'[h] = dqacc[h]
          BY <1>2, <2>2, DotWrites
        <5>2. h = c.h => dpsum'[c.h][r] = dpsum[c.h][r] /\ dqacc'[c.h][r] = dqacc[c.h][r]
          <6>1. h = c.h => \A i \in Lanes : r # Pad(launch, c.b, c.m * BlockM + i)
            BY <4>4
          <6> HIDE DEF r
          <6> QED
            BY <1>2, <2>2, <4>2, <6>1, DotWrites
        <5>3. Dot(h, b, q) # c
          <6> SUFFICES ASSUME Dot(h, b, q) = c PROVE FALSE
            OBVIOUS
          <6>1. h = c.h /\ b = c.b /\ c.m * BlockM <= q /\ q - c.m * BlockM \in Lanes
            BY <1>3, <4>1
          <6>2. c.m * BlockM + (q - c.m * BlockM) = q
            BY <1>3, <4>1
          <6> QED
            BY <4>4, <6>1, <6>2
        <5>4. Ready(h, b, q)
          BY <1>5, <5>3
        <5> QED
          BY <1>2, <5>1, <5>2, <5>4 DEF SumsInv
      <4> QED
        BY <4>3, <4>4
    <3> QED
      BY <3>1, <3>2, <3>3
  <2> QED
    BY <1>3, <2>1, <2>2
<1> QED
  BY <1>1, <1>4, <1>6, TileFrame, DecodedFrame, ContextFrame, ConvertedFrame DEF BwdInv

-----------------------------------------------------------------------------
(* The main kernel.                                                        *)

\* A step of a CTA moves that CTA.
LEMMA AtMoves ==
  ASSUME BwdTypes, NEW c \in MainGrid, NEW v \in [pc : {"next", "loop"}, n : Nat, m : Int],
         at' = [at EXCEPT ![c] = v]
  PROVE  /\ at' \in [MainGrid -> [pc : {"next", "loop"}, n : Nat, m : Int]]
         /\ at'[c] = v
         /\ \A d \in MainGrid : d # c => at'[d] = at[d]
BY DEF BwdTypes

LEMMA MoveKeepsCTAs ==
  ASSUME CTAInv, NEW c \in MainGrid, kernel = "main", c \in todo, UNCHANGED <<launch, kernel, todo>>,
         \A d \in MainGrid : d # c => at'[d] = at[d],
         at'[c].n = c.n \/ at'[c].n = c.n + GridN(launch),
         at'[c].pc = "loop" => at'[c].n = c.n /\ at'[c].m < MBlockMax(launch, c.b)
  PROVE  CTAInv'
<1> SUFFICES ASSUME NEW d \in MainGrid
             PROVE  /\ at'[d].n = d.n \/ at'[d].n = d.n + GridN(launch)
                    /\ at'[d].pc = "loop" => at'[d].n = d.n /\ at'[d].m < MBlockMax(launch, d.b)
                    /\ Over(d)' => at'[d].pc = "next" /\ AllBlocks(d.b) <= at'[d].n
  BY GridFrame DEF CTAInv
<1>1. Over(d)' => Over(d) /\ d # c
  BY DEF Over
<1>2. CASE d = c
  BY <1>1, <1>2
<1>3. CASE d # c
  BY <1>1, <1>3 DEF CTAInv
<1> QED
  BY <1>2, <1>3

LEMMA ExitKeeps == ASSUME BwdInv, NEW c \in MainGrid, Exit(c) PROVE BwdInv'
<1>1. /\ kernel = "main" /\ kernel' = kernel /\ c \in todo /\ todo' = todo \ {c}
      /\ at[c].pc = "next" /\ at[c].n >= AllBlocks(c.b)
      /\ UNCHANGED <<launch, at, dk, dpsum, dqacc, ctxacc, dec, dq, dK>>
  BY DEF Exit, End, vars, AllBlocks
<1>2. launch \in Launches /\ BwdTypes /\ CTAInv /\ SumsInv
  BY DEF BwdInv, BwdTypes
<1>3. AllBlocks(c.b) <= at[c].n
  BY <1>1, <1>2, MainFacts DEF BwdTypes
<1>4. CTAInv'
  <2> SUFFICES ASSUME NEW d \in MainGrid, Over(d)'
               PROVE  at[d].pc = "next" /\ AllBlocks(d.b) <= at[d].n
    BY <1>1, <1>2, GridFrame DEF CTAInv
  <2>1. d = c \/ Over(d)
    BY <1>1 DEF Over
  <2> QED
    BY <1>1, <1>2, <1>3, <2>1 DEF CTAInv
<1>5. SumsInv'
  BY <1>1, <1>2, SumsFrame DEF Ready
<1> QED
  BY <1>1, <1>2, <1>4, <1>5, TypesFrame, PlaceFrame, TileFrame, DecodedFrame, ContextFrame,
     ConvertedFrame DEF BwdInv

\* The sum of a query is the same if no block that has a key of it moved past it.
LEMMA SameSum ==
  ASSUME UNCHANGED launch, NEW h, NEW b, NEW q,
         \A n \in 0 .. GridN(launch) - 1 : \A row \in KRows(launch) :
           Holds(launch, b, n, row) /\ Att(launch, b, q, row) =>
             (Passed(Main(n, b, h), q)' <=> Passed(Main(n, b, h), q))
  PROVE  SumDQ(h, b, q)' = SumDQ(h, b, q)
<1>1. ASSUME NEW row \in KRows(launch), Att(launch, b, q, row)
      PROVE  (\E n \in 0 .. GridN(launch) - 1 : Holds(launch, b, n, row) /\ Passed(Main(n, b, h), q)')
               <=> \E n \in 0 .. GridN(launch) - 1 : Holds(launch, b, n, row) /\ Passed(Main(n, b, h), q)
  BY <1>1
<1>2. SumDQ(h, b, q)' = [row \in KRows(launch) |->
         IF Att(launch, b, q, row) /\ \E n \in 0 .. GridN(launch) - 1 :
              Holds(launch, b, n, row) /\ Passed(Main(n, b, h), q)'
         THEN 1 ELSE 0]
  BY DEF SumDQ
<1> QED
  BY <1>1, <1>2 DEF SumDQ

\* The CTAs that did not move have passed what they had.
LEMMA OthersPassed ==
  ASSUME NEW c, \A d \in MainGrid : d # c => at'[d] = at[d], NEW d \in MainGrid, d # c
  PROVE  /\ Finished(d)' <=> Finished(d)
         /\ \A q : Passed(d, q)' <=> Passed(d, q)
BY DEF Finished, Passed

\* No query before block MBlockMin attends to a row of the block.
LEMMA NoneBefore ==
  ASSUME NEW L \in Launches, NEW b \in Batch(L), NEW n \in Nat, NEW q \in Nat,
         q < MBlockMin(L, b, n) * BlockM, NEW row, Holds(L, b, n, row)
  PROVE  ~Att(L, b, q, row)
<1>1. PICK j \in 0 .. BlockN - 1 : j < ValidK(L, b, n) /\ RowAt(L, b, n, j) = row
  BY DEF Holds
<1>2. j \in Nat
  BY BlocksAssumption
<1>3. ~Unmasked(L, b, n, q, j)
  BY <1>2, NothingBefore
<1> QED
  BY <1>1, <1>3, UnmaskedIsAtt

(* From query lo on, a column of a block has the whole share of a sequence *)
(* if lo is not behind block MBlockMin.                                    *)
LEMMA ShareFrom ==
  ASSUME launch \in Launches, NEW b \in Batch(launch), NEW n \in Nat, NEW j \in Cols,
         j < ValidK(launch, b, n), NEW lo \in Int, lo <= MBlockMin(launch, b, n) * BlockM
  PROVE  Share(b, RowAt(launch, b, n, j)) =
           [r \in QRows(launch) |->
              IF \E q \in Queries(b) : /\ r = launch.cuQ[b] + q /\ lo <= q
                                       /\ Unmasked(launch, b, n, q, j)
              THEN 1 ELSE 0]
<1>1. j \in 0 .. BlockN - 1 /\ MBlockMin(launch, b, n) * BlockM \in Nat
  BY MinType, BlocksAssumption DEF Cols
<1>2. ASSUME NEW q \in Queries(b)
      PROVE  Att(launch, b, q, RowAt(launch, b, n, j)) <=> lo <= q /\ Unmasked(launch, b, n, q, j)
  <2>1. q \in Nat
    BY Lengths DEF Queries
  <2>2. Unmasked(launch, b, n, q, j) <=> Att(launch, b, q, RowAt(launch, b, n, j))
    BY <1>1, <2>1, UnmaskedIsAtt
  <2>3. Holds(launch, b, n, RowAt(launch, b, n, j))
    BY <1>1 DEF Holds
  <2>4. q < lo => ~Att(launch, b, q, RowAt(launch, b, n, j))
    BY <1>1, <2>1, <2>3, NoneBefore
  <2> QED
    BY <2>1, <2>2, <2>4
<1> QED
  BY <1>2 DEF Share

\* The rows of the block of a CTA that is in it.
LEMMA StoredHeld ==
  ASSUME launch \in Launches, NEW c \in MainGrid, at[c].n = c.n, NEW tile,
         \A j \in Cols : j < ValidK(launch, c.b, c.n) =>
           tile[j] = Share(c.b, RowAt(launch, c.b, c.n, j)),
         NEW row
  PROVE  /\ Stored(c, row) = {} <=> ~Holds(launch, c.b, c.n, row)
         /\ Stored(c, row) # {} => tile[CHOOSE j \in Stored(c, row) : TRUE] = Share(c.b, row)
<1>1. Stored(c, row) = {j \in Cols : j < ValidK(launch, c.b, c.n) /\ RowAt(launch, c.b, c.n, j) = row}
  BY DEF Stored
<1>2. Stored(c, row) = {} <=> ~Holds(launch, c.b, c.n, row)
  BY <1>1 DEF Holds, Cols
<1>3. ASSUME Stored(c, row) # {}
      PROVE  tile[CHOOSE j \in Stored(c, row) : TRUE] = Share(c.b, row)
  <2> DEFINE j == CHOOSE j \in Stored(c, row) : TRUE
  <2>1. j \in Stored(c, row)
    BY <1>3
  <2> HIDE DEF j
  <2>2. j \in Cols /\ j < ValidK(launch, c.b, c.n) /\ RowAt(launch, c.b, c.n, j) = row
    BY <1>1, <2>1
  <2>3. tile[j] = Share(c.b, row)
    BY <2>2
  <2> QED
    BY <2>3 DEF j
<1> QED
  BY <1>2, <1>3

(* What a CTA that stores its block does to the gradient of K.             *)
Added(c) ==
  /\ DOMAIN ctxacc' = Heads
  /\ \A h \in Heads : \A row \in CtxRows :
       ctxacc'[h][row] = IF h = c.h /\ Holds(launch, c.b, c.n, row)
                         THEN AtomicAdd(ctxacc[h][row], Share(c.b, row)) ELSE ctxacc[h][row]

Put(c) ==
  /\ DOMAIN dec' = Heads
  /\ \A h \in Heads : \A row \in DecRows :
       dec'[h][row] = IF h = c.h /\ Holds(launch, c.b, c.n, row)
                      THEN {Share(c.b, row)} ELSE dec[h][row]

\* The epilogue and the early exit store the share of the sequence.
LEMMA StoreDoes ==
  ASSUME BwdTypes, ContextInv, NEW c \in MainGrid, at[c].n = c.n, NEW tile,
         \A j \in Cols : j < ValidK(launch, c.b, c.n) =>
           tile[j] = Share(c.b, RowAt(launch, c.b, c.n, j)),
         \/ ~IsContext(launch, c.n) /\ StoreDecoded(c, tile) /\ UNCHANGED ctxacc
         \/ IsContext(launch, c.n) /\ AddContext(c, tile) /\ UNCHANGED dec
         \/ IsContext(launch, c.n) /\ UNCHANGED <<ctxacc, dec>> /\ tile = EmptyTile
  PROVE  Added(c) /\ Put(c)
<1>1. launch \in Launches /\ DOMAIN ctxacc = Heads /\ DOMAIN dec = Heads
  BY DEF BwdTypes
<1>2. c.n \in Nat /\ c.b \in Batch(launch) /\ c.h \in Heads
  BY <1>1, MainFacts
<1>3. /\ \A row \in CtxRows : Holds(launch, c.b, c.n, row) => IsContext(launch, c.n)
      /\ \A row \in DecRows : Holds(launch, c.b, c.n, row) => ~IsContext(launch, c.n)
  BY <1>1, <1>2, HeldPart, KRowsAre
<1>4. \A row : /\ Stored(c, row) = {} <=> ~Holds(launch, c.b, c.n, row)
               /\ Stored(c, row) # {} => tile[CHOOSE j \in Stored(c, row) : TRUE] = Share(c.b, row)
  BY <1>1, StoredHeld
<1>5. CASE ~IsContext(launch, c.n) /\ StoreDecoded(c, tile) /\ UNCHANGED ctxacc
  <2>1. Added(c)
    BY <1>1, <1>3, <1>5 DEF Added
  <2> DEFINE G == [row \in DecRows |-> IF Stored(c, row) = {} THEN dec[c.h][row]
                                       ELSE {tile[CHOOSE j \in Stored(c, row) : TRUE]}]
  <2>2. dec' = [dec EXCEPT ![c.h] = G]
    BY <1>5 DEF StoreDecoded
  <2>3. \A row \in DecRows : G[row] = IF Holds(launch, c.b, c.n, row)
                                      THEN {Share(c.b, row)} ELSE dec[c.h][row]
    BY <1>4
  <2> HIDE DEF G
  <2>4. DOMAIN dec' = Heads /\ dec'[c.h] = G /\ \A h \in Heads : h # c.h => dec'[h] = dec[h]
    BY <1>1, <1>2, <2>2
  <2> QED
    BY <2>1, <2>3, <2>4 DEF Put
<1>6. CASE IsContext(launch, c.n) /\ AddContext(c, tile) /\ UNCHANGED dec
  <2>1. Put(c)
    BY <1>1, <1>3, <1>6 DEF Put
  <2> DEFINE G == [row \in CtxRows |-> IF Stored(c, row) = {} THEN ctxacc[c.h][row]
                     ELSE AtomicAdd(ctxacc[c.h][row], tile[CHOOSE j \in Stored(c, row) : TRUE])]
  <2>2. ctxacc' = [ctxacc EXCEPT ![c.h] = G]
    BY <1>6 DEF AddContext
  <2>3. \A row \in CtxRows : G[row] = IF Holds(launch, c.b, c.n, row)
                                      THEN AtomicAdd(ctxacc[c.h][row], Share(c.b, row))
                                      ELSE ctxacc[c.h][row]
    BY <1>4
  <2> HIDE DEF G
  <2>4. /\ DOMAIN ctxacc' = Heads /\ ctxacc'[c.h] = G
        /\ \A h \in Heads : h # c.h => ctxacc'[h] = ctxacc[h]
    BY <1>1, <1>2, <2>2
  <2> QED
    BY <2>1, <2>3, <2>4 DEF Added
<1>7. CASE IsContext(launch, c.n) /\ UNCHANGED <<ctxacc, dec>> /\ tile = EmptyTile
  <2>1. Put(c)
    BY <1>1, <1>3, <1>7 DEF Put
  <2>2. ASSUME NEW row \in CtxRows, Holds(launch, c.b, c.n, row)
        PROVE  AtomicAdd(ctxacc[c.h][row], Share(c.b, row)) = ctxacc[c.h][row]
    <3>1. Share(c.b, row) = NoQueries
      <4>1. Stored(c, row) # {}
        BY <1>4, <2>2
      <4>2. (CHOOSE j \in Stored(c, row) : TRUE) \in Cols
        BY <4>1 DEF Stored
      <4> QED
        BY <1>4, <1>7, <4>1, <4>2 DEF EmptyTile
    <3>2. ctxacc[c.h][row] = SumCtx(c.h, row)
      BY <1>2 DEF ContextInv
    <3> QED
      BY <3>1, <3>2 DEF AtomicAdd, SumCtx, NoQueries
  <2>3. Added(c)
    BY <1>1, <1>7, <2>2 DEF Added
  <2> QED
    BY <2>1, <2>3
<1> QED
  BY <1>5, <1>6, <1>7

(* A CTA that stores its block: the gradient of the decoded rows has the   *)
(* share of its sequence, that of the context has it in addition to those  *)
(* of the other sequences.                                                 *)
LEMMA FinishKeeps ==
  ASSUME BwdInv, NEW c \in MainGrid, kernel = "main", c \in todo, at[c].n = c.n,
         NextBlock(c), Added(c), Put(c),
         UNCHANGED <<launch, kernel, todo, dk, dpsum, dqacc, dq, dK>>,
         \A q \in Queries(c.b) : Passed(c, q) \/ q < MBlockMin(launch, c.b, c.n) * BlockM
  PROVE  BwdInv'
<1>1. launch \in Launches /\ BwdTypes /\ CTAInv /\ SumsInv /\ TileInv /\ DecodedInv /\ ContextInv
  BY DEF BwdInv, BwdTypes
<1>2. /\ c.n \in Nat /\ c.n < GridN(launch) /\ c.b \in Batch(launch) /\ c.h \in Heads
      /\ c = Main(c.n, c.b, c.h) /\ GridN(launch) \in Nat
  BY <1>1, MainFacts
<1> DEFINE v == [pc |-> "next", n |-> at[c].n + GridN(launch), m |-> 0]
<1>3. /\ at' \in [MainGrid -> [pc : {"next", "loop"}, n : Nat, m : Int]]
      /\ at'[c] = v
      /\ \A d \in MainGrid : d # c => at'[d] = at[d]
  <2>1. at' = [at EXCEPT ![c] = v]
    BY DEF NextBlock
  <2>2. v \in [pc : {"next", "loop"}, n : Nat, m : Int]
    BY <1>2
  <2> HIDE DEF v
  <2> QED
    BY <1>1, <2>1, <2>2, AtMoves
<1>4. at'[c].pc = "next" /\ at'[c].n = c.n + GridN(launch) /\ at'[c].n # c.n
  BY <1>2, <1>3
<1>5. Finished(c)' /\ ~Finished(c)
  BY <1>4 DEF Finished
<1> HIDE DEF v
<1>6. \A d \in MainGrid : d # c => /\ Finished(d)' <=> Finished(d)
                                   /\ \A q : Passed(d, q)' <=> Passed(d, q)
  BY <1>3, OthersPassed
<1>7. BwdTypes'
  BY <1>1, <1>3, GridFrame DEF BwdTypes, Added, Put
<1>8. CTAInv'
  BY <1>1, <1>3, <1>4, MoveKeepsCTAs
<1>9. SumsInv'
  <2>1. ASSUME NEW h \in Heads, NEW b \in Batch(launch), NEW q \in Queries(b)
        PROVE  SumDQ(h, b, q)' = SumDQ(h, b, q)
    <3>1. ASSUME NEW n \in 0 .. GridN(launch) - 1, NEW row \in KRows(launch),
                 Holds(launch, b, n, row), Att(launch, b, q, row)
          PROVE  Passed(Main(n, b, h), q)' <=> Passed(Main(n, b, h), q)
      <4>1. /\ Main(n, b, h) \in MainGrid /\ n \in Nat
            /\ Main(n, b, h).n = n /\ Main(n, b, h).b = b /\ Main(n, b, h).h = h
        BY <1>1, MainIn
      <4>2. CASE Main(n, b, h) = c
        <5>1. c.n = n /\ c.b = b
          BY <4>1, <4>2
        <5>2. q \in Nat
          BY <1>1, Lengths DEF Queries
        <5>3. ~(q < MBlockMin(launch, b, n) * BlockM)
          BY <1>1, <3>1, <4>1, <5>2, NoneBefore
        <5>4. Passed(c, q)
          BY <5>1, <5>3
        <5> QED
          BY <1>5, <4>2, <5>4 DEF Passed
      <4>3. CASE Main(n, b, h) # c
        BY <1>6, <4>1, <4>3
      <4> QED
        BY <4>2, <4>3
    <3> QED
      BY <3>1, SameSum
  <2>2. \A h, b, q : Ready(h, b, q)
    BY DEF Ready
  <2> QED
    BY <1>1, <2>1, <2>2, GridFrame DEF SumsInv
<1>10. TileInv'
  <2> SUFFICES ASSUME NEW d \in MainGrid, at'[d].pc = "loop"
               PROVE  dk[d] = [j \in Cols |-> SumDK(d, j)']
    BY GridFrame DEF TileInv
  <2>1. d # c /\ at'[d] = at[d]
    BY <1>3, <1>4
  <2>2. \A j : SumDK(d, j)' = SumDK(d, j)
    BY <2>1 DEF SumDK, Queries
  <2> QED
    BY <1>1, <2>1, <2>2 DEF TileInv
<1>11. DecodedInv'
  <2> SUFFICES ASSUME NEW d \in MainGrid, Finished(d)', NEW row \in DecRows, Holds(launch, d.b, d.n, row)
               PROVE  dec'[d.h][row] = {Share(d.b, row)}
    BY GridFrame DEF DecodedInv
  <2>1. d.h \in Heads /\ d.b \in Batch(launch) /\ d.n \in Nat /\ d = Main(d.n, d.b, d.h)
    BY <1>1, MainFacts
  <2>2. CASE d.h = c.h /\ Holds(launch, c.b, c.n, row)
    <3>1. d.b = c.b
      <4>1. row \in KRows(launch) /\ ~(row < launch.ctx)
        BY <1>1, KRowsAre
      <4> QED
        BY <1>1, <1>2, <2>1, <2>2, <4>1, DecodedHeldByOne
    <3> QED
      BY <2>1, <2>2, <3>1 DEF Put
  <2>3. CASE ~(d.h = c.h /\ Holds(launch, c.b, c.n, row))
    <3>1. dec'[d.h][row] = dec[d.h][row]
      BY <2>1, <2>3 DEF Put
    <3>2. d # c
      BY <2>3
    <3>3. Finished(d)
      BY <1>6, <3>2
    <3> QED
      BY <1>1, <3>1, <3>3 DEF DecodedInv
  <2> QED
    BY <2>2, <2>3
<1>12. ContextInv'
  <2> SUFFICES ASSUME NEW h \in Heads, NEW row \in CtxRows
               PROVE  ctxacc'[h][row] = SumCtx(h, row)'
    BY GridFrame DEF ContextInv
  <2>1. ctxacc[h][row] = SumCtx(h, row)
    BY <1>1 DEF ContextInv
  <2>2. SumCtx(h, row)' = [r \in QRows(launch) |-> IF InContext(h, row, r)' THEN 1 ELSE 0]
    BY DEF SumCtx
  <2>3. ASSUME NEW b \in Batch(launch), NEW n \in 0 .. GridN(launch) - 1
        PROVE  Finished(Main(n, b, h))' <=> Finished(Main(n, b, h)) \/ (h = c.h /\ b = c.b /\ n = c.n)
    <3>1. /\ Main(n, b, h) \in MainGrid
          /\ Main(n, b, h).n = n /\ Main(n, b, h).b = b /\ Main(n, b, h).h = h
      BY <1>1, MainIn
    <3>2. CASE Main(n, b, h) = c
      BY <1>5, <3>1, <3>2
    <3>3. CASE Main(n, b, h) # c
      BY <1>2, <1>6, <3>1, <3>3
    <3> QED
      BY <3>2, <3>3
  <2> DEFINE mine(r) == \E q \in Queries(c.b) : r = launch.cuQ[c.b] + q /\ Att(launch, c.b, q, row)
  <2>4. CASE h = c.h /\ Holds(launch, c.b, c.n, row)
    <3>0. c.n \in 0 .. GridN(launch) - 1
      BY <1>2
    <3>1. ASSUME NEW r PROVE InContext(h, row, r)' <=> InContext(h, row, r) \/ mine(r)
      <4>1. InContext(h, row, r)' <=>
              \E b \in Batch(launch) : \E q \in Queries(b) :
                /\ r = launch.cuQ[b] + q /\ Att(launch, b, q, row)
                /\ \E n \in 0 .. GridN(launch) - 1 :
                     Holds(launch, b, n, row) /\ Finished(Main(n, b, h))'
        BY GridFrame DEF InContext
      <4>2. ASSUME NEW b \in Batch(launch)
            PROVE  (\E n \in 0 .. GridN(launch) - 1 : Holds(launch, b, n, row) /\ Finished(Main(n, b, h))')
                     <=> \/ \E n \in 0 .. GridN(launch) - 1 : Holds(launch, b, n, row) /\ Finished(Main(n, b, h))
                         \/ b = c.b
        BY <2>3, <2>4, <3>0
      <4> QED
        BY <1>2, <4>1, <4>2 DEF InContext
    <3>2. ASSUME NEW r PROVE ~(InContext(h, row, r) /\ mine(r))
      <4> SUFFICES ASSUME InContext(h, row, r), mine(r) PROVE FALSE
        OBVIOUS
      <4>1. PICK b \in Batch(launch) : \E q \in Queries(b) :
              /\ r = launch.cuQ[b] + q
              /\ \E n \in 0 .. GridN(launch) - 1 :
                   Holds(launch, b, n, row) /\ Finished(Main(n, b, h))
        BY DEF InContext
      <4>2. b = c.b
        <5>1. PICK q \in Queries(b) : r = launch.cuQ[b] + q
          BY <4>1
        <5>2. PICK p \in Queries(c.b) : r = launch.cuQ[c.b] + p
          OBVIOUS
        <5> QED
          BY <1>1, <1>2, <5>1, <5>2, RowUnique DEF Queries
      <4>3. PICK n \in 0 .. GridN(launch) - 1 : Holds(launch, b, n, row) /\ Finished(Main(n, b, h))
        BY <4>1
      <4>4. n = c.n
        <5>1. n \in Nat
          BY <1>2
        <5> QED
          BY <1>1, <1>2, <2>4, <4>2, <4>3, <5>1, HeldByOne
      <4> QED
        BY <1>2, <1>5, <2>4, <4>2, <4>3, <4>4
    <3>3. Share(c.b, row) = [r \in QRows(launch) |-> IF mine(r) THEN 1 ELSE 0]
      BY DEF Share
    <3>4. ctxacc'[h][row] = AtomicAdd(SumCtx(h, row), Share(c.b, row))
      BY <2>1, <2>4 DEF Added
    <3> HIDE DEF mine
    <3>5. AtomicAdd(SumCtx(h, row), Share(c.b, row)) =
            [r \in QRows(launch) |-> (IF InContext(h, row, r) THEN 1 ELSE 0) + (IF mine(r) THEN 1 ELSE 0)]
      BY <3>3 DEF AtomicAdd, SumCtx
    <3>6. \A r : (IF InContext(h, row, r) THEN 1 ELSE 0) + (IF mine(r) THEN 1 ELSE 0)
                   = IF InContext(h, row, r)' THEN 1 ELSE 0
      BY <3>1, <3>2
    <3> QED
      BY <2>2, <3>4, <3>5, <3>6
  <2>5. CASE ~(h = c.h /\ Holds(launch, c.b, c.n, row))
    <3>1. ASSUME NEW r PROVE InContext(h, row, r)' <=> InContext(h, row, r)
      <4>1. ASSUME NEW b \in Batch(launch), NEW n \in 0 .. GridN(launch) - 1, Holds(launch, b, n, row)
            PROVE  Finished(Main(n, b, h))' <=> Finished(Main(n, b, h))
        BY <2>3, <2>5, <4>1
      <4> QED
        BY <4>1, GridFrame DEF InContext
    <3>2. ctxacc'[h][row] = ctxacc[h][row]
      BY <2>5 DEF Added
    <3> QED
      BY <2>1, <2>2, <3>1, <3>2 DEF SumCtx
  <2> QED
    BY <2>4, <2>5
<1>13. PlaceInv' /\ ConvertedInv'
  BY PlaceFrame, ConvertedFrame DEF BwdInv
<1> QED
  BY <1>7, <1>8, <1>9, <1>10, <1>11, <1>12, <1>13 DEF BwdInv

\* Blocks no query attends to are zeros, as their share is.
LEMMA EarlyExitKeeps == ASSUME BwdInv, NEW c \in MainGrid, BwdEarlyExit(c) PROVE BwdInv'
<1>1. /\ kernel = "main" /\ c \in todo /\ at[c].n < AllBlocks(c.b)
      /\ MBlockMax(launch, c.b) <= MBlockMin(launch, c.b, at[c].n)
      /\ NextBlock(c)
      /\ UNCHANGED <<launch, kernel, todo, dk, dpsum, dqacc, ctxacc, dq, dK>>
  BY DEF BwdEarlyExit, vars, AllBlocks
<1>2. launch \in Launches /\ BwdTypes /\ CTAInv /\ ContextInv
  BY DEF BwdInv, BwdTypes
<1>3. at[c].n = c.n
  BY <1>1, <1>2, HasBlock
<1>4. c.n \in Nat /\ c.b \in Batch(launch)
  BY <1>2, MainFacts
<1> DEFINE lo == MBlockMin(launch, c.b, c.n) * BlockM
<1>5. lo \in Int /\ \A q \in Queries(c.b) : q \in Nat /\ q < lo
  <2>1. /\ MBlockMin(launch, c.b, c.n) \in Nat /\ MBlockMax(launch, c.b) \in Nat
        /\ BlockM \in Nat \ {0} /\ MBlockMax(launch, c.b) <= MBlockMin(launch, c.b, c.n)
    BY <1>1, <1>2, <1>3, <1>4, MinType, GridCovers, BlocksAssumption
  <2>2. MBlockMax(launch, c.b) * BlockM <= lo /\ lo \in Nat /\ MBlockMax(launch, c.b) * BlockM \in Nat
    BY <2>1
  <2>3. \A q \in Queries(c.b) : q \in Nat /\ q < MBlockMax(launch, c.b) * BlockM
    BY <1>2, <1>4, LaneOf, Lengths DEF Queries
  <2> HIDE DEF lo
  <2> QED
    BY <2>2, <2>3
<1>6. \A j \in Cols : j < ValidK(launch, c.b, c.n) =>
        EmptyTile[j] = Share(c.b, RowAt(launch, c.b, c.n, j))
  <2> TAKE j \in Cols
  <2> HAVE j < ValidK(launch, c.b, c.n)
  <2>1. Share(c.b, RowAt(launch, c.b, c.n, j)) =
          [r \in QRows(launch) |->
              IF \E q \in Queries(c.b) : /\ r = launch.cuQ[c.b] + q /\ lo <= q
                                         /\ Unmasked(launch, c.b, c.n, q, j)
              THEN 1 ELSE 0]
    BY <1>2, <1>4, <1>5, ShareFrom
  <2> HIDE DEF lo
  <2>2. \A q \in Queries(c.b) : ~(lo <= q)
    BY <1>5
  <2> QED
    BY <2>1, <2>2 DEF EmptyTile, NoQueries
<1>7. \/ ~IsContext(launch, c.n) /\ StoreDecoded(c, EmptyTile) /\ UNCHANGED ctxacc
      \/ IsContext(launch, c.n) /\ UNCHANGED <<ctxacc, dec>>
  BY <1>1, <1>3 DEF BwdEarlyExit
<1>8. Added(c) /\ Put(c)
  BY <1>2, <1>3, <1>6, <1>7, StoreDoes
<1> QED
  BY <1>1, <1>3, <1>5, <1>8, FinishKeeps

\* The end of the loop over the queries.
LEMMA EpilogueKeeps == ASSUME BwdInv, NEW c \in MainGrid, BwdEpilogue(c) PROVE BwdInv'
<1>1. /\ kernel = "main" /\ c \in todo /\ at[c].pc = "loop"
      /\ at[c].m < MBlockMin(launch, c.b, at[c].n)
      /\ NextBlock(c)
      /\ UNCHANGED <<launch, kernel, todo, dk, dpsum, dqacc, dq, dK>>
  BY DEF BwdEpilogue, vars
<1>2. launch \in Launches /\ BwdTypes /\ CTAInv /\ ContextInv /\ TileInv
  BY DEF BwdInv, BwdTypes
<1>3. at[c].n = c.n
  BY <1>1, <1>2 DEF CTAInv
<1>4. c.n \in Nat /\ c.b \in Batch(launch)
  BY <1>2, MainFacts
<1> DEFINE lo == (at[c].m + 1) * BlockM
<1>5. lo \in Int /\ lo <= MBlockMin(launch, c.b, c.n) * BlockM
  <2>1. at[c].m \in Int /\ MBlockMin(launch, c.b, c.n) \in Nat /\ BlockM \in Nat \ {0}
    BY <1>2, <1>4, MinType, BlocksAssumption DEF BwdTypes
  <2>2. at[c].m + 1 <= MBlockMin(launch, c.b, c.n)
    BY <1>1, <1>3, <2>1
  <2> QED
    BY <2>1, <2>2
<1>6. \A j \in Cols : j < ValidK(launch, c.b, c.n) =>
        dk[c][j] = Share(c.b, RowAt(launch, c.b, c.n, j))
  <2> TAKE j \in Cols
  <2> HAVE j < ValidK(launch, c.b, c.n)
  <2>1. Share(c.b, RowAt(launch, c.b, c.n, j)) =
          [r \in QRows(launch) |->
              IF \E q \in Queries(c.b) : /\ r = launch.cuQ[c.b] + q /\ lo <= q
                                         /\ Unmasked(launch, c.b, c.n, q, j)
              THEN 1 ELSE 0]
    <3> HIDE DEF lo
    <3> QED
      BY <1>2, <1>4, <1>5, ShareFrom
  <2>2. dk[c][j] = SumDK(c, j)
    BY <1>1, <1>2 DEF TileInv
  <2> QED
    BY <2>1, <2>2 DEF SumDK
<1>7. \/ ~IsContext(launch, c.n) /\ StoreDecoded(c, dk[c]) /\ UNCHANGED ctxacc
      \/ IsContext(launch, c.n) /\ AddContext(c, dk[c]) /\ UNCHANGED dec
  BY <1>1, <1>3 DEF BwdEpilogue
<1>8. Added(c) /\ Put(c)
  BY <1>2, <1>3, <1>6, <1>7, StoreDoes
<1>9. \A q \in Queries(c.b) : Passed(c, q) \/ q < MBlockMin(launch, c.b, c.n) * BlockM
  <2> TAKE q \in Queries(c.b)
  <2>1. q \in Int
    BY <1>2, <1>4, Lengths DEF Queries
  <2>2. lo <= q => Passed(c, q)
    BY <1>1 DEF Passed
  <2>3. MBlockMin(launch, c.b, c.n) * BlockM \in Int
    BY <1>2, <1>4, MinType, BlocksAssumption
  <2> HIDE DEF lo
  <2> QED
    BY <1>5, <2>1, <2>2, <2>3
<1> QED
  BY <1>1, <1>3, <1>8, <1>9, FinishKeeps

\* The loop over the queries starts behind the last.
LEMMA LoopStartKeeps == ASSUME BwdInv, NEW c \in MainGrid, BwdPrologue(c) PROVE BwdInv'
<1>1. /\ kernel = "main" /\ c \in todo /\ at[c].pc = "next" /\ at[c].n < AllBlocks(c.b)
      /\ at' = [at EXCEPT ![c].pc = "loop", ![c].m = MBlockMax(launch, c.b) - 1]
      /\ dk' = [dk EXCEPT ![c] = EmptyTile]
      /\ UNCHANGED <<launch, kernel, todo, dpsum, dqacc, ctxacc, dec, dq, dK>>
  BY DEF BwdPrologue, vars, AllBlocks
<1>2. launch \in Launches /\ BwdTypes /\ CTAInv /\ SumsInv /\ TileInv /\ DecodedInv /\ ContextInv
  BY DEF BwdInv, BwdTypes
<1>3. at[c].n = c.n /\ ~Finished(c)
  BY <1>1, <1>2, HasBlock
<1>4. /\ c.n \in Nat /\ c.b \in Batch(launch) /\ MBlockMax(launch, c.b) \in Nat /\ BlockM \in Nat \ {0}
      /\ c.h \in Heads
  BY <1>2, MainFacts, GridCovers, BlocksAssumption
<1> DEFINE max == MBlockMax(launch, c.b)
<1>5. /\ at' \in [MainGrid -> [pc : {"next", "loop"}, n : Nat, m : Int]]
      /\ at'[c].pc = "loop" /\ at'[c].n = c.n /\ at'[c].m = max - 1
      /\ \A d \in MainGrid : d # c => at'[d] = at[d]
  <2>1. at \in [MainGrid -> [pc : {"next", "loop"}, n : Nat, m : Int]] /\ max - 1 \in Int
    BY <1>2, <1>4 DEF BwdTypes
  <2> HIDE DEF max
  <2>2. at' = [at EXCEPT ![c].pc = "loop", ![c].m = max - 1]
    BY <1>1 DEF max
  <2> QED
    BY <1>3, <2>1, <2>2
<1>6. ~Finished(c)' /\ \A q \in Queries(c.b) : ~Passed(c, q) /\ ~Passed(c, q)'
  <2>1. ~Finished(c)'
    BY <1>5 DEF Finished
  <2>2. \A q \in Queries(c.b) : ~(((max - 1) + 1) * BlockM <= q)
    <3>1. \A q \in Queries(c.b) : q \in Nat /\ q < max * BlockM
      BY <1>2, <1>4, LaneOf, Lengths DEF Queries
    <3>2. (max - 1) + 1 = max /\ max * BlockM \in Nat
      BY <1>4
    <3> HIDE DEF max
    <3> QED
      BY <3>1, <3>2
  <2> QED
    BY <1>1, <1>3, <1>5, <2>1, <2>2 DEF Passed
<1>7. \A d \in MainGrid : d # c => /\ Finished(d)' <=> Finished(d)
                                   /\ \A q : Passed(d, q)' <=> Passed(d, q)
  BY <1>5, OthersPassed
<1>8. \A d \in MainGrid : Finished(d)' <=> Finished(d)
  BY <1>3, <1>6, <1>7
<1>9. BwdTypes'
  BY <1>1, <1>2, <1>5, GridFrame DEF BwdTypes
<1>10. CTAInv'
  <2>1. max - 1 < max
    BY <1>4
  <2> QED
    BY <1>1, <1>2, <1>5, <2>1, MoveKeepsCTAs
<1>11. SumsInv'
  <2>1. ASSUME NEW h \in Heads, NEW b \in Batch(launch), NEW q \in Queries(b)
        PROVE  SumDQ(h, b, q)' = SumDQ(h, b, q)
    <3>1. ASSUME NEW n \in 0 .. GridN(launch) - 1
          PROVE  Passed(Main(n, b, h), q)' <=> Passed(Main(n, b, h), q)
      <4>1. Main(n, b, h) \in MainGrid /\ Main(n, b, h).b = b
        BY <1>2, MainIn
      <4> QED
        BY <1>6, <1>7, <4>1
    <3> QED
      BY <1>1, <3>1, SameSum
  <2>2. \A h, b, q : Ready(h, b, q)
    BY <1>1 DEF Ready
  <2> QED
    BY <1>1, <1>2, <2>1, <2>2, GridFrame DEF SumsInv
<1>12. TileInv'
  <2> SUFFICES ASSUME NEW d \in MainGrid, at'[d].pc = "loop"
               PROVE  dk'[d] = [j \in Cols |-> SumDK(d, j)']
    BY <1>1, GridFrame DEF TileInv
  <2>1. CASE d = c
    <3>1. ASSUME NEW j PROVE SumDK(c, j)' = NoQueries
      <4>1. \A q \in Queries(c.b) : ~((at'[c].m + 1) * BlockM <= q)
        BY <1>5, <1>6 DEF Passed
      <4> QED
        BY <1>1, <4>1, GridFrame DEF SumDK, NoQueries
    <3>2. dk'[c] = EmptyTile
      BY <1>1, <1>2 DEF BwdTypes
    <3> QED
      BY <2>1, <3>1, <3>2 DEF EmptyTile
  <2>2. CASE d # c
    <3>1. at'[d] = at[d] /\ dk'[d] = dk[d]
      BY <1>1, <1>2, <1>5, <2>2 DEF BwdTypes
    <3>2. \A j : SumDK(d, j)' = SumDK(d, j)
      BY <1>1, <3>1 DEF SumDK, Queries
    <3> QED
      BY <1>2, <3>1, <3>2 DEF TileInv
  <2> QED
    BY <2>1, <2>2
<1>13. DecodedInv'
  BY <1>1, <1>2, <1>8, GridFrame DEF DecodedInv
<1>14. ContextInv'
  <2> SUFFICES ASSUME NEW h \in Heads, NEW row \in CtxRows PROVE SumCtx(h, row)' = SumCtx(h, row)
    BY <1>1, <1>2, GridFrame DEF ContextInv
  <2>1. \A b \in Batch(launch) : \A n \in 0 .. GridN(launch) - 1 :
          Finished(Main(n, b, h))' <=> Finished(Main(n, b, h))
    BY <1>2, <1>8, MainIn
  <2>2. \A r : InContext(h, row, r)' <=> InContext(h, row, r)
    BY <1>1, <2>1, GridFrame DEF InContext
  <2> QED
    BY <1>1, <2>2 DEF SumCtx
<1>15. PlaceInv' /\ ConvertedInv'
  BY <1>1, PlaceFrame, ConvertedFrame DEF BwdInv
<1> QED
  BY <1>9, <1>10, <1>11, <1>12, <1>13, <1>14, <1>15 DEF BwdInv

-----------------------------------------------------------------------------
(* One block of queries of the main loop.                                  *)

\* Where the loop of a CTA is.
LEMMA LoopAt ==
  ASSUME BwdInv, NEW c \in MainGrid, QTile(c)
  PROVE  /\ launch \in Launches /\ kernel = "main" /\ c \in todo
         /\ at[c].pc = "loop" /\ at[c].n = c.n /\ ~Finished(c)
         /\ at[c].m \in Nat /\ at[c].m * BlockM \in Nat
         /\ (at[c].m + 1) * BlockM = at[c].m * BlockM + BlockM
         /\ at[c].m < MBlockMax(launch, c.b) /\ at[c].m * BlockM < QLen(launch, c.b)
         /\ c.n \in Nat /\ c.n < GridN(launch) /\ c.b \in Batch(launch) /\ c.h \in Heads
         /\ c = Main(c.n, c.b, c.h)
         /\ launch.cuQ[c.b] \in Nat /\ QLen(launch, c.b) \in Nat
         /\ BlockM \in Nat \ {0} /\ \A i \in Lanes : i \in Nat /\ i < BlockM
<1>1. /\ launch \in Launches /\ BwdTypes /\ CTAInv
  BY DEF BwdInv, BwdTypes
<1>2. kernel = "main" /\ c \in todo /\ at[c].pc = "loop" /\ at[c].m >= MBlockMin(launch, c.b, at[c].n)
  BY DEF QTile
<1>3. at[c].n = c.n /\ at[c].m < MBlockMax(launch, c.b)
  BY <1>1, <1>2 DEF CTAInv
<1>4. /\ c.n \in Nat /\ c.n < GridN(launch) /\ c.b \in Batch(launch) /\ c.h \in Heads
      /\ c = Main(c.n, c.b, c.h)
  BY <1>1, MainFacts
<1>5. BlockM \in Nat \ {0} /\ launch.cuQ[c.b] \in Nat /\ QLen(launch, c.b) \in Nat
  BY <1>1, <1>4, BlocksAssumption, Lengths
<1>6. at[c].m \in Nat
  <2>1. MBlockMin(launch, c.b, c.n) \in Nat /\ at[c].m \in Int
    BY <1>1, <1>4, MinType DEF BwdTypes
  <2> QED
    BY <1>2, <1>3, <2>1
<1>7. at[c].m * BlockM < QLen(launch, c.b)
  BY <1>1, <1>3, <1>4, <1>6, GridCovers
<1>8. at[c].m * BlockM \in Nat /\ (at[c].m + 1) * BlockM = at[c].m * BlockM + BlockM
  BY <1>5, <1>6
<1>9. \A i \in Lanes : i \in Nat /\ i < BlockM
  BY <1>5 DEF Lanes
<1> QED
  BY <1>1, <1>2, <1>3, <1>4, <1>5, <1>6, <1>7, <1>8, <1>9 DEF Finished

(* With D in its place, dS is the term of the query where the mask lets it *)
(* through and zero elsewhere.                                             *)
LEMMA TermIs ==
  ASSUME BwdInv, NEW c \in MainGrid, QTile(c), NEW i \in Lanes, NEW j
  PROVE  Term(c, i, j) =
           IF /\ at[c].m * BlockM + i < QLen(launch, c.b)
              /\ Unmasked(launch, c.b, c.n, at[c].m * BlockM + i, j)
           THEN 1 ELSE 0
<1> DEFINE m == at[c].m
           q == m * BlockM + i
<1>1. /\ launch \in Launches /\ kernel = "main" /\ at[c].n = c.n /\ m \in Nat /\ m * BlockM \in Nat
      /\ c.b \in Batch(launch) /\ c.h \in Heads /\ QLen(launch, c.b) \in Nat /\ i \in Nat
  BY LoopAt
<1>2. q \in Nat
  BY <1>1
<1>3. q < QLen(launch, c.b) => dpsum[c.h][PaddedRow(c.b, m, i)] = QRow(c.b, m, i)
  <2> SUFFICES ASSUME q < QLen(launch, c.b)
               PROVE  dpsum[c.h][PaddedRow(c.b, m, i)] = QRow(c.b, m, i)
    OBVIOUS
  <2>1. q \in Queries(c.b)
    BY <1>1, <1>2 DEF Queries
  <2>2. dpsum[c.h][Pad(launch, c.b, q)] = launch.cuQ[c.b] + q
    BY <1>1, <2>1 DEF BwdInv, SumsInv, Ready
  <2> QED
    BY <2>2, LaneRow
<1>4. q >= QLen(launch, c.b) <=> ~(q < QLen(launch, c.b))
  BY <1>1, <1>2
<1> QED
  BY <1>1, <1>3, <1>4 DEF Term, QueryOf

(* What the tile adds to dQ of a query: its keys in the block.             *)
TileTerms(c, i) ==
  [row \in KRows(launch) |->
     IF \E j \in Cols : RowAt(launch, c.b, at[c].n, j) = row /\ Term(c, i, j) # 0
     THEN Term(c, i, CHOOSE j \in Cols : RowAt(launch, c.b, at[c].n, j) = row) ELSE 0]

LEMMA TileTermsAre ==
  ASSUME BwdInv, NEW c \in MainGrid, QTile(c), NEW i \in Lanes,
         at[c].m * BlockM + i < QLen(launch, c.b)
  PROVE  TileTerms(c, i) =
           [row \in KRows(launch) |->
              IF Holds(launch, c.b, c.n, row) /\ Att(launch, c.b, at[c].m * BlockM + i, row)
              THEN 1 ELSE 0]
<1> DEFINE q == at[c].m * BlockM + i
<1>1. /\ launch \in Launches /\ at[c].n = c.n /\ c.n \in Nat /\ c.b \in Batch(launch)
      /\ at[c].m * BlockM \in Nat /\ i \in Nat
  BY LoopAt
<1>2. q \in Nat
  BY <1>1
<1>3. \A j : Term(c, i, j) = IF Unmasked(launch, c.b, c.n, q, j) THEN 1 ELSE 0
  BY TermIs
<1>4. \A j, k \in Cols : RowAt(launch, c.b, c.n, j) = RowAt(launch, c.b, c.n, k) => j = k
  BY <1>1, ColumnUnique DEF Cols
<1>5. \A j \in Cols : /\ Unmasked(launch, c.b, c.n, q, j) => j < ValidK(launch, c.b, c.n)
                      /\ j < ValidK(launch, c.b, c.n) =>
                           (Unmasked(launch, c.b, c.n, q, j) <=>
                              Att(launch, c.b, q, RowAt(launch, c.b, c.n, j)))
  BY <1>1, <1>2, UnmaskedIsAtt DEF Unmasked, Cols
<1> HIDE DEF q
<1>6. ASSUME NEW row \in KRows(launch)
      PROVE  TileTerms(c, i)[row] =
               IF Holds(launch, c.b, c.n, row) /\ Att(launch, c.b, q, row) THEN 1 ELSE 0
  <2>1. TileTerms(c, i)[row] =
          IF \E j \in Cols : RowAt(launch, c.b, c.n, j) = row /\ Term(c, i, j) # 0
          THEN Term(c, i, CHOOSE j \in Cols : RowAt(launch, c.b, c.n, j) = row) ELSE 0
    BY <1>1 DEF TileTerms
  <2>2. Holds(launch, c.b, c.n, row) <=>
          \E j \in Cols : j < ValidK(launch, c.b, c.n) /\ RowAt(launch, c.b, c.n, j) = row
    BY DEF Holds, Cols
  <2>3. CASE \E j \in Cols : RowAt(launch, c.b, c.n, j) = row /\ Term(c, i, j) # 0
    <3>1. PICK j \in Cols : RowAt(launch, c.b, c.n, j) = row /\ Term(c, i, j) # 0
      BY <2>3
    <3>2. (CHOOSE k \in Cols : RowAt(launch, c.b, c.n, k) = row) = j
      BY <1>4, <3>1
    <3>3. Term(c, i, j) = 1 /\ Unmasked(launch, c.b, c.n, q, j)
      BY <1>3, <3>1
    <3>4. Holds(launch, c.b, c.n, row) /\ Att(launch, c.b, q, row)
      BY <1>5, <2>2, <3>1, <3>3
    <3> QED
      BY <2>1, <2>3, <3>2, <3>3, <3>4
  <2>4. CASE ~\E j \in Cols : RowAt(launch, c.b, c.n, j) = row /\ Term(c, i, j) # 0
    <3>1. ~(Holds(launch, c.b, c.n, row) /\ Att(launch, c.b, q, row))
      <4> SUFFICES ASSUME Holds(launch, c.b, c.n, row), Att(launch, c.b, q, row) PROVE FALSE
        OBVIOUS
      <4>1. PICK j \in Cols : j < ValidK(launch, c.b, c.n) /\ RowAt(launch, c.b, c.n, j) = row
        BY <2>2
      <4>2. Unmasked(launch, c.b, c.n, q, j)
        BY <1>5, <4>1
      <4>3. Term(c, i, j) = 1
        BY <1>3, <4>2
      <4> QED
        BY <2>4, <4>1, <4>3
    <3> QED
      BY <2>1, <2>4, <3>1
  <2> QED
    BY <2>3, <2>4
<1>7. TileTerms(c, i) = [row \in KRows(launch) |-> TileTerms(c, i)[row]]
  BY DEF TileTerms
<1> HIDE DEF TileTerms
<1>8. TileTerms(c, i) = [row \in KRows(launch) |->
              IF Holds(launch, c.b, c.n, row) /\ Att(launch, c.b, q, row) THEN 1 ELSE 0]
  BY <1>6, <1>7
<1> QED
  BY <1>8 DEF q

\* The CTA goes on to the block of queries before.
LEMMA TileMoves ==
  ASSUME BwdInv, NEW c \in MainGrid, QTile(c)
  PROVE  /\ at' \in [MainGrid -> [pc : {"next", "loop"}, n : Nat, m : Int]]
         /\ at'[c].pc = "loop" /\ at'[c].n = c.n /\ at'[c].m = at[c].m - 1
         /\ \A d \in MainGrid : d # c => at'[d] = at[d]
         /\ \A d \in MainGrid : Finished(d)' <=> Finished(d)
         /\ \A d \in MainGrid : d # c => \A q : Passed(d, q)' <=> Passed(d, q)
         /\ \A q : Passed(c, q) <=> at[c].m * BlockM + BlockM <= q
         /\ \A q : Passed(c, q)' <=> at[c].m * BlockM <= q
<1> DEFINE m == at[c].m
<1>1. /\ at[c].pc = "loop" /\ at[c].n = c.n /\ ~Finished(c) /\ m \in Nat
      /\ (m + 1) * BlockM = m * BlockM + BlockM
  BY LoopAt
<1>2. at \in [MainGrid -> [pc : {"next", "loop"}, n : Nat, m : Int]]
  BY DEF BwdInv, BwdTypes
<1>3. at' = [at EXCEPT ![c].m = m - 1]
  BY DEF QTile
<1>4. m - 1 \in Int /\ (m - 1) + 1 = m
  BY <1>1
<1> HIDE DEF m
<1>5. /\ at' \in [MainGrid -> [pc : {"next", "loop"}, n : Nat, m : Int]]
      /\ at'[c].pc = "loop" /\ at'[c].n = c.n /\ at'[c].m = m - 1
      /\ \A d \in MainGrid : d # c => at'[d] = at[d]
  BY <1>1, <1>2, <1>3, <1>4
<1>6. \A d \in MainGrid : d # c => /\ Finished(d)' <=> Finished(d)
                                   /\ \A q : Passed(d, q)' <=> Passed(d, q)
  BY <1>5, OthersPassed
<1>7. ~Finished(c)'
  BY <1>5 DEF Finished
<1>8. \A q : Passed(c, q) <=> m * BlockM + BlockM <= q
  BY <1>1 DEF Passed, m
<1>9. \A q : Passed(c, q)' <=> m * BlockM <= q
  BY <1>4, <1>5, <1>7 DEF Passed
<1> QED
  BY <1>1, <1>5, <1>6, <1>7, <1>8, <1>9 DEF m

\* What the tile writes of dq_accum.
LEMMA TileWrites ==
  ASSUME BwdInv, NEW c \in MainGrid, QTile(c)
  PROVE  /\ DOMAIN dqacc' = Heads
         /\ \A h \in Heads : h # c.h => dqacc'[h] = dqacc[h]
         /\ \A r \in PaddedRows :
              (\A i \in Lanes : r # Pad(launch, c.b, at[c].m * BlockM + i))
                => dqacc'[c.h][r] = dqacc[c.h][r]
         /\ \A i \in Lanes : Pad(launch, c.b, at[c].m * BlockM + i) \in PaddedRows =>
              dqacc'[c.h][Pad(launch, c.b, at[c].m * BlockM + i)] =
                {AtomicAdd(v, TileTerms(c, i)) :
                   v \in dqacc[c.h][Pad(launch, c.b, at[c].m * BlockM + i)]}
<1> DEFINE m == at[c].m
           S == [r \in PaddedRows |->
                   IF \E i \in Lanes : PaddedRow(c.b, m, i) = r
                   THEN {AtomicAdd(v, TileTerms(c, r - PaddedRow(c.b, m, 0))) : v \in dqacc[c.h][r]}
                   ELSE dqacc[c.h][r]]
<1>1. /\ launch \in Launches /\ c.h \in Heads /\ c.b \in Batch(launch) /\ m * BlockM \in Nat
      /\ launch.cuQ[c.b] \in Nat /\ \A i \in Lanes : i \in Nat
  BY LoopAt
<1>2. dqacc' = [dqacc EXCEPT ![c.h] = S]
  BY DEF QTile, TileTerms
<1>3. DOMAIN dqacc = Heads
  BY DEF BwdInv, BwdTypes
<1>4. \A r \in PaddedRows :
        (\A i \in Lanes : r # Pad(launch, c.b, m * BlockM + i)) => S[r] = dqacc[c.h][r]
  BY LaneRow
<1>5. ASSUME NEW i \in Lanes, Pad(launch, c.b, m * BlockM + i) \in PaddedRows
      PROVE  S[Pad(launch, c.b, m * BlockM + i)] =
               {AtomicAdd(v, TileTerms(c, i)) : v \in dqacc[c.h][Pad(launch, c.b, m * BlockM + i)]}
  <2> DEFINE r == Pad(launch, c.b, m * BlockM + i)
  <2>1. r = PaddedRow(c.b, m, i)
    BY LaneRow
  <2>2. r - PaddedRow(c.b, m, 0) = i
    <3>1. RowPad * c.b \in Nat
      BY <1>1, RowPadAssumption, Cumulated DEF Batch
    <3>2. PaddedRow(c.b, m, 0) = launch.cuQ[c.b] + (m * BlockM + 0) + RowPad * c.b
      BY LaneRow DEF Pad
    <3>3. r = launch.cuQ[c.b] + (m * BlockM + i) + RowPad * c.b
      BY DEF Pad
    <3> HIDE DEF r, m
    <3> QED
      BY <1>1, <3>1, <3>2, <3>3
  <2> HIDE DEF r, m
  <2>3. r \in PaddedRows
    BY <1>5 DEF r
  <2>4. S[r] = {AtomicAdd(v, TileTerms(c, r - PaddedRow(c.b, m, 0))) : v \in dqacc[c.h][r]}
    BY <2>1, <2>3
  <2> QED
    BY <2>2, <2>4 DEF r
<1> HIDE DEF S
<1>6. /\ DOMAIN dqacc' = Heads /\ dqacc'[c.h] = S
      /\ \A h \in Heads : h # c.h => dqacc'[h] = dqacc[h]
  BY <1>1, <1>2, <1>3
<1> QED
  BY <1>4, <1>5, <1>6

(* The tile adds to the sum of a query of its block the keys of the block, *)
(* and no other block of K has them.                                       *)
LEMMA TileAdds ==
  ASSUME BwdInv, NEW c \in MainGrid, QTile(c), NEW i \in Lanes,
         NEW q, q = at[c].m * BlockM + i, q < QLen(launch, c.b)
  PROVE  AtomicAdd(SumDQ(c.h, c.b, q), TileTerms(c, i)) = SumDQ(c.h, c.b, q)'
<1> DEFINE A(row) == Att(launch, c.b, q, row)
           P(row) == \E n \in 0 .. GridN(launch) - 1 :
                       Holds(launch, c.b, n, row) /\ Passed(Main(n, c.b, c.h), q)
           R(row) == \E n \in 0 .. GridN(launch) - 1 :
                       Holds(launch, c.b, n, row) /\ Passed(Main(n, c.b, c.h), q)'
           T(row) == Holds(launch, c.b, c.n, row)
<1>1. /\ launch \in Launches /\ c.b \in Batch(launch) /\ c.h \in Heads /\ c = Main(c.n, c.b, c.h)
      /\ at[c].m * BlockM \in Nat /\ i \in Nat /\ i < BlockM /\ BlockM \in Nat
      /\ c.n \in Nat /\ c.n < GridN(launch)
  BY LoopAt
<1>2. ~Passed(c, q) /\ Passed(c, q)'
  BY <1>1, TileMoves
<1>3. c.n \in 0 .. GridN(launch) - 1 /\ GridN(launch) \in Nat
  BY <1>1, GridCovers
<1>4. UNCHANGED launch
  BY DEF QTile, vars
<1>5. ASSUME NEW row PROVE R(row) <=> P(row) \/ T(row)
  <2>1. \A n \in 0 .. GridN(launch) - 1 : n # c.n =>
          (Passed(Main(n, c.b, c.h), q)' <=> Passed(Main(n, c.b, c.h), q))
    <3> SUFFICES ASSUME NEW n \in 0 .. GridN(launch) - 1, n # c.n
                 PROVE  Passed(Main(n, c.b, c.h), q)' <=> Passed(Main(n, c.b, c.h), q)
      OBVIOUS
    <3>1. Main(n, c.b, c.h) \in MainGrid /\ Main(n, c.b, c.h).n = n
      BY <1>1, MainIn
    <3>2. Main(n, c.b, c.h) # c
      BY <3>1
    <3> QED
      BY <3>1, <3>2, TileMoves
  <2> QED
    BY <1>1, <1>2, <1>3, <2>1
<1>6. ASSUME NEW row, T(row) PROVE ~P(row)
  <2> SUFFICES ASSUME NEW n \in 0 .. GridN(launch) - 1, Holds(launch, c.b, n, row),
                      Passed(Main(n, c.b, c.h), q)
               PROVE  FALSE
    OBVIOUS
  <2>1. n \in Nat
    BY <1>3
  <2>2. n = c.n
    BY <1>1, <1>6, <2>1, HeldByOne
  <2> QED
    BY <1>1, <1>2, <2>2
<1>7. TileTerms(c, i) = [row \in KRows(launch) |-> IF T(row) /\ A(row) THEN 1 ELSE 0]
  BY TileTermsAre
<1>8. SumDQ(c.h, c.b, q) = [row \in KRows(launch) |-> IF A(row) /\ P(row) THEN 1 ELSE 0]
  BY DEF SumDQ
<1>9. SumDQ(c.h, c.b, q)' = [row \in KRows(launch) |-> IF A(row) /\ R(row) THEN 1 ELSE 0]
  BY <1>4 DEF SumDQ
<1> HIDE DEF A, P, R, T
<1>10. AtomicAdd(SumDQ(c.h, c.b, q), TileTerms(c, i)) =
         [row \in KRows(launch) |->
            (IF A(row) /\ P(row) THEN 1 ELSE 0) + (IF T(row) /\ A(row) THEN 1 ELSE 0)]
  BY <1>7, <1>8 DEF AtomicAdd
<1> QED
  BY <1>5, <1>6, <1>9, <1>10

(* The tile adds to acc_dk the queries of its block. *)
LEMMA TileGoesOn ==
  ASSUME BwdInv, NEW c \in MainGrid, QTile(c), NEW j \in Cols, NEW r \in QRows(launch)
  PROVE  SumDK(c, j)[r] + (IF \E i \in Lanes : QRow(c.b, at[c].m, i) = r
                           THEN Term(c, r - QRow(c.b, at[c].m, 0), j) ELSE 0)
           = SumDK(c, j)'[r]
<1> DEFINE lo == at[c].m * BlockM
           len == QLen(launch, c.b)
           x == r - launch.cuQ[c.b]
           U(q) == Unmasked(launch, c.b, c.n, q, j)
           V == x \in 0 .. len - 1 /\ U(x)
           D == IF \E i \in Lanes : QRow(c.b, at[c].m, i) = r
                THEN Term(c, r - QRow(c.b, at[c].m, 0), j) ELSE 0
<1>1. /\ launch \in Launches /\ lo \in Nat /\ len \in Nat /\ launch.cuQ[c.b] \in Nat
      /\ (at[c].m + 1) * BlockM = lo + BlockM /\ BlockM \in Nat \ {0}
      /\ \A i \in Lanes : i \in Nat /\ i < BlockM
  BY LoopAt
<1>2. r \in Nat
  <2>1. launch.cuQ[launch.batch] \in Nat
    BY <1>1, Cumulated
  <2> QED
    BY <2>1 DEF QRows
<1>3. Lanes = 0 .. BlockM - 1
  BY DEF Lanes
<1>4. \A i \in Lanes : QRow(c.b, at[c].m, i) = launch.cuQ[c.b] + (lo + i)
  BY LaneRow
<1>5. 0 \in Lanes /\ QRow(c.b, at[c].m, 0) = launch.cuQ[c.b] + lo
  BY <1>1, <1>3, <1>4
<1>6. (\E i \in Lanes : QRow(c.b, at[c].m, i) = r) <=> lo <= x /\ x < lo + BlockM
  <2>1. ASSUME NEW i \in Lanes, QRow(c.b, at[c].m, i) = r PROVE lo <= x /\ x < lo + BlockM
    BY <1>1, <1>2, <1>4, <2>1
  <2>2. ASSUME lo <= x, x < lo + BlockM PROVE \E i \in Lanes : QRow(c.b, at[c].m, i) = r
    <3>1. x \in Int /\ launch.cuQ[c.b] + x = r
      BY <1>1, <1>2
    <3> HIDE DEF x, lo
    <3>2. x - lo \in Lanes /\ lo + (x - lo) = x
      BY <1>1, <1>3, <2>2, <3>1
    <3> QED
      BY <1>4, <3>1, <3>2
  <2> QED
    BY <2>1, <2>2
<1>7. ASSUME lo <= x, x < lo + BlockM
      PROVE  Term(c, r - QRow(c.b, at[c].m, 0), j) = IF x < len /\ U(x) THEN 1 ELSE 0
  <2>1. r - QRow(c.b, at[c].m, 0) = x - lo /\ x - lo \in Lanes /\ lo + (x - lo) = x
    <3>1. x \in Int /\ launch.cuQ[c.b] + x = r
      BY <1>1, <1>2
    <3> HIDE DEF x, lo
    <3>2. x - lo \in Lanes /\ lo + (x - lo) = x
      BY <1>1, <1>3, <1>7, <3>1
    <3>3. r - QRow(c.b, at[c].m, 0) = x - lo
      BY <1>1, <1>5, <3>1
    <3> QED
      BY <3>2, <3>3
  <2>2. Term(c, x - lo, j) = IF lo + (x - lo) < len /\ U(lo + (x - lo)) THEN 1 ELSE 0
    BY <2>1, TermIs
  <2> QED
    BY <2>1, <2>2
<1>8. SumDK(c, j)[r] = IF lo + BlockM <= x /\ V THEN 1 ELSE 0
  <2>1. (\E q \in Queries(c.b) : /\ r = launch.cuQ[c.b] + q
                                 /\ (at[c].m + 1) * BlockM <= q
                                 /\ Unmasked(launch, c.b, c.n, q, j))
          <=> lo + BlockM <= x /\ V
    <3>1. \A q \in 0 .. len - 1 : r = launch.cuQ[c.b] + q <=> q = x
      BY <1>1, <1>2
    <3> QED
      BY <1>1, <3>1 DEF Queries
  <2> QED
    BY <2>1 DEF SumDK
<1>9. SumDK(c, j)'[r] = IF lo <= x /\ V THEN 1 ELSE 0
  <2>1. at'[c].m = at[c].m - 1 /\ at[c].m \in Nat /\ UNCHANGED launch
    BY TileMoves, LoopAt DEF QTile, vars
  <2>2. (at'[c].m + 1) * BlockM = lo
    <3>1. at'[c].m + 1 = at[c].m
      BY <2>1
    <3> QED
      BY <3>1
  <2>3. (\E q \in Queries(c.b) : /\ r = launch.cuQ[c.b] + q
                                 /\ (at'[c].m + 1) * BlockM <= q
                                 /\ Unmasked(launch, c.b, c.n, q, j))
          <=> lo <= x /\ V
    <3>1. \A q \in 0 .. len - 1 : r = launch.cuQ[c.b] + q <=> q = x
      BY <1>1, <1>2
    <3> QED
      BY <2>2, <3>1 DEF Queries
  <2>4. SumDK(c, j)' = [s \in QRows(launch) |->
          IF \E q \in Queries(c.b) : /\ s = launch.cuQ[c.b] + q
                                     /\ (at'[c].m + 1) * BlockM <= q
                                     /\ Unmasked(launch, c.b, c.n, q, j)
          THEN 1 ELSE 0]
    BY <2>1, GridFrame DEF SumDK
  <2> QED
    BY <2>3, <2>4
<1>10. x \in Int
  BY <1>1, <1>2
<1>11. D = IF lo <= x /\ x < lo + BlockM /\ V THEN 1 ELSE 0
  <2> HIDE DEF x, lo, len, U
  <2>1. lo <= x => (V <=> x < len /\ U(x))
    BY <1>1, <1>10
  <2> QED
    BY <1>6, <1>7, <2>1
<1> HIDE DEF x, lo, len, U, V, D
<1>12. SumDK(c, j)[r] + D = SumDK(c, j)'[r]
  BY <1>1, <1>8, <1>9, <1>10, <1>11
<1> QED
  BY <1>12 DEF D

\* A block of queries: what it adds is in the sums.
LEMMA TileKeeps == ASSUME BwdInv, NEW c \in MainGrid, QTile(c) PROVE BwdInv'
<1> DEFINE m == at[c].m
<1>1. /\ launch \in Launches /\ kernel = "main" /\ c \in todo
      /\ m \in Nat /\ m * BlockM \in Nat /\ m < MBlockMax(launch, c.b)
      /\ m * BlockM < QLen(launch, c.b) /\ BlockM \in Nat
      /\ c.n \in Nat /\ c.b \in Batch(launch) /\ c.h \in Heads
      /\ \A i \in Lanes : i \in Nat /\ i < BlockM
  BY LoopAt
<1>2. UNCHANGED <<launch, kernel, todo, dpsum, ctxacc, dec, dq, dK>>
  BY DEF QTile, vars
<1>3. BwdTypes /\ CTAInv /\ SumsInv /\ TileInv /\ DecodedInv /\ ContextInv
  BY DEF BwdInv
<1>4. /\ at' \in [MainGrid -> [pc : {"next", "loop"}, n : Nat, m : Int]]
      /\ at'[c].pc = "loop" /\ at'[c].n = c.n /\ at'[c].m = m - 1
      /\ \A d \in MainGrid : d # c => at'[d] = at[d]
      /\ \A d \in MainGrid : Finished(d)' <=> Finished(d)
  BY TileMoves
<1>5. DOMAIN dqacc' = Heads
  BY TileWrites
<1>6. /\ DOMAIN dk' = MainGrid
      /\ \A d \in MainGrid : d # c => dk'[d] = dk[d]
      /\ dk'[c] = [j \in Cols |-> [r \in QRows(launch) |->
           dk[c][j][r] + (IF \E i \in Lanes : QRow(c.b, m, i) = r
                          THEN Term(c, r - QRow(c.b, m, 0), j) ELSE 0)]]
  BY <1>3 DEF QTile, BwdTypes
<1>7. BwdTypes'
  BY <1>2, <1>3, <1>4, <1>5, <1>6, GridFrame DEF BwdTypes
<1>8. CTAInv'
  <2>1. m - 1 < MBlockMax(launch, c.b)
    BY <1>1, GridCovers
  <2> QED
    BY <1>1, <1>2, <1>3, <1>4, <2>1, MoveKeepsCTAs
<1>9. SumsInv'
  <2> SUFFICES ASSUME NEW h \in Heads, NEW b \in Batch(launch), NEW q \in Queries(b)
               PROVE  dqacc'[h][Pad(launch, b, q)] = {SumDQ(h, b, q)'}
    <3>1. \A h, b, q : Ready(h, b, q)
      BY <1>1 DEF Ready
    <3> QED
      BY <1>2, <1>3, <3>1, GridFrame DEF SumsInv
  <2> DEFINE r == Pad(launch, b, q)
  <2>1. dqacc[h][r] = {SumDQ(h, b, q)}
    BY <1>1, <1>3 DEF SumsInv, Ready
  <2>2. q \in Nat /\ q < QLen(launch, b) /\ q < QLen(launch, b) + RowPad
    BY <1>1, Lengths, RowPadAssumption DEF Queries
  <2>3. r \in PaddedRows
    BY <1>1, PadIn DEF Queries
  <2>4. CASE h = c.h /\ \E i \in Lanes : r = Pad(launch, c.b, m * BlockM + i)
    <3>1. PICK i \in Lanes : r = Pad(launch, c.b, m * BlockM + i)
      BY <2>4
    <3>2. b = c.b /\ q = m * BlockM + i
      <4>1. Pad(launch, c.b, m * BlockM + i) = Pad(launch, b, q)
        BY <3>1
      <4>2. /\ launch \in Launches /\ c.b \in Batch(launch) /\ m \in Nat
            /\ m * BlockM < QLen(launch, c.b)
        BY <1>1
      <4> HIDE DEF m
      <4> QED
        BY <2>2, <4>1, <4>2, LanesApart
    <3>3. dqacc'[c.h][Pad(launch, c.b, m * BlockM + i)] =
            {AtomicAdd(v, TileTerms(c, i)) : v \in dqacc[c.h][Pad(launch, c.b, m * BlockM + i)]}
      BY <2>3, <3>1, TileWrites
    <3>4. dqacc'[h][r] = {AtomicAdd(v, TileTerms(c, i)) : v \in {SumDQ(h, b, q)}}
      BY <2>1, <2>4, <3>1, <3>3
    <3>5. AtomicAdd(SumDQ(c.h, c.b, q), TileTerms(c, i)) = SumDQ(c.h, c.b, q)'
      BY <2>2, <3>2, TileAdds
    <3> QED
      BY <2>4, <3>2, <3>4, <3>5
  <2>5. CASE ~(h = c.h /\ \E i \in Lanes : r = Pad(launch, c.b, m * BlockM + i))
    <3>1. dqacc'[h][r] = dqacc[h][r]
      <4>1. CASE h = c.h
        <5>1. \A i \in Lanes : r # Pad(launch, c.b, m * BlockM + i)
          BY <2>5, <4>1
        <5> HIDE DEF r
        <5> QED
          BY <2>3, <4>1, <5>1, TileWrites
      <4>2. CASE h # c.h
        BY <4>2, TileWrites
      <4> QED
        BY <4>1, <4>2
    <3>2. ASSUME NEW n \in 0 .. GridN(launch) - 1
          PROVE  Passed(Main(n, b, h), q)' <=> Passed(Main(n, b, h), q)
      <4>1. Main(n, b, h) \in MainGrid /\ Main(n, b, h).b = b /\ Main(n, b, h).h = h
        BY <1>1, MainIn
      <4>2. CASE Main(n, b, h) # c
        BY <4>1, <4>2, TileMoves
      <4>3. CASE Main(n, b, h) = c
        <5>1. h = c.h /\ b = c.b
          BY <4>1, <4>3
        <5>2. ~(m * BlockM <= q /\ q < m * BlockM + BlockM)
          <6> SUFFICES ASSUME m * BlockM <= q, q < m * BlockM + BlockM PROVE FALSE
            OBVIOUS
          <6>1. q - m * BlockM \in Lanes /\ m * BlockM + (q - m * BlockM) = q
            BY <1>1, <2>2 DEF Lanes
          <6> QED
            BY <2>5, <5>1, <6>1
        <5>3. m * BlockM <= q <=> m * BlockM + BlockM <= q
          BY <1>1, <2>2, <5>2
        <5>4. (Passed(c, q) <=> m * BlockM + BlockM <= q) /\ (Passed(c, q)' <=> m * BlockM <= q)
          BY TileMoves
        <5> QED
          BY <4>3, <5>3, <5>4
      <4> QED
        BY <4>2, <4>3
    <3>3. SumDQ(h, b, q)' = SumDQ(h, b, q)
      BY <1>2, <3>2, SameSum
    <3> QED
      BY <2>1, <3>1, <3>3
  <2> QED
    BY <2>4, <2>5
<1>10. TileInv'
  <2> SUFFICES ASSUME NEW d \in MainGrid, at'[d].pc = "loop"
               PROVE  dk'[d] = [j \in Cols |-> SumDK(d, j)']
    BY <1>2, GridFrame DEF TileInv
  <2>1. CASE d = c
    <3>1. dk[c] = [j \in Cols |-> SumDK(c, j)]
      BY <1>3, LoopAt DEF TileInv
    <3>2. \A j \in Cols : SumDK(c, j)' = [r \in QRows(launch) |-> SumDK(c, j)'[r]]
      BY <1>2, GridFrame DEF SumDK
    <3>3. \A j \in Cols : \A r \in QRows(launch) :
            SumDK(c, j)[r] + (IF \E i \in Lanes : QRow(c.b, m, i) = r
                              THEN Term(c, r - QRow(c.b, m, 0), j) ELSE 0) = SumDK(c, j)'[r]
      BY TileGoesOn
    <3> HIDE DEF m
    <3>4. \A j \in Cols : [r \in QRows(launch) |->
            dk[c][j][r] + (IF \E i \in Lanes : QRow(c.b, m, i) = r
                           THEN Term(c, r - QRow(c.b, m, 0), j) ELSE 0)] = SumDK(c, j)'
      BY <3>1, <3>2, <3>3
    <3> QED
      BY <1>6, <2>1, <3>4
  <2>2. CASE d # c
    <3>1. at'[d] = at[d] /\ dk'[d] = dk[d]
      BY <1>4, <1>6, <2>2
    <3>2. \A j : SumDK(d, j)' = SumDK(d, j)
      BY <1>2, <3>1 DEF SumDK, Queries
    <3> QED
      BY <1>3, <3>1, <3>2 DEF TileInv
  <2> QED
    BY <2>1, <2>2
<1>11. DecodedInv'
  BY <1>2, <1>3, <1>4, GridFrame DEF DecodedInv
<1>12. ContextInv'
  <2> SUFFICES ASSUME NEW h \in Heads, NEW row \in CtxRows PROVE SumCtx(h, row)' = SumCtx(h, row)
    BY <1>2, <1>3, GridFrame DEF ContextInv
  <2>1. \A b \in Batch(launch) : \A n \in 0 .. GridN(launch) - 1 :
          Finished(Main(n, b, h))' <=> Finished(Main(n, b, h))
    BY <1>1, <1>4, MainIn
  <2>2. \A s : InContext(h, row, s)' <=> InContext(h, row, s)
    BY <1>2, <2>1, GridFrame DEF InContext
  <2> QED
    BY <1>2, <2>2 DEF SumCtx
<1>13. PlaceInv' /\ ConvertedInv'
  BY <1>2, PlaceFrame, ConvertedFrame DEF BwdInv
<1> QED
  BY <1>7, <1>8, <1>9, <1>10, <1>11, <1>12, <1>13 DEF BwdInv

-----------------------------------------------------------------------------
(* The forward pass and the backward pass after it.                        *)

AutogradNext == (Next /\ UNCHANGED bwdVars) \/ BwdNext

\* No step of the backward pass moves the forward kernel or its output.
LEMMA BackwardFrame == ASSUME BwdNext PROVE UNCHANGED vars
BY DEF BwdNext, Backward, StartMain, ConvertDQ, ConvertDKV, Idle, DotDoO, MainCTA, Exit,
       BwdEarlyExit, BwdPrologue, QTile, BwdEpilogue

\* The call stays the same.
LEMMA CallStays == ASSUME AutogradNext PROVE UNCHANGED launch
<1>1. CASE Next
  BY <1>1 DEF Next, CTA, Return, EarlyExit, Prologue, Tile, Epilogue
<1>2. CASE BwdNext
  BY <1>2, BackwardFrame DEF vars
<1> QED
  BY <1>1, <1>2 DEF AutogradNext

\* Every step of the backward pass keeps the gradients right.
LEMMA BwdNextKeeps == ASSUME BwdInv, BwdNext PROVE BwdInv'
<1>1. CASE Backward
  BY <1>1, BackwardKeeps
<1>2. CASE StartMain
  BY <1>2, StartMainKeeps
<1>3. CASE ConvertDQ
  BY <1>3, ConvertDQKeeps
<1>4. CASE ConvertDKV
  BY <1>4, ConvertDKVKeeps
<1>5. CASE Idle
  <2>1. UNCHANGED launch /\ UNCHANGED bwdVars
    BY <1>5 DEF Idle, vars
  <2> QED
    BY <2>1, StutterKeeps
<1>6. ASSUME NEW c \in DotGrid, DotDoO(c) PROVE BwdInv'
  BY <1>6, DotKeeps
<1>7. ASSUME NEW c \in MainGrid, MainCTA(c) PROVE BwdInv'
  <2>1. CASE Exit(c)
    BY <2>1, ExitKeeps
  <2>2. CASE BwdEarlyExit(c)
    BY <2>2, EarlyExitKeeps
  <2>3. CASE BwdPrologue(c)
    BY <2>3, LoopStartKeeps
  <2>4. CASE QTile(c)
    BY <2>4, TileKeeps
  <2>5. CASE BwdEpilogue(c)
    BY <2>5, EpilogueKeeps
  <2> QED
    BY <1>7, <2>1, <2>2, <2>3, <2>4, <2>5 DEF MainCTA
<1> QED
  BY <1>1, <1>2, <1>3, <1>4, <1>5, <1>6, <1>7 DEF BwdNext, DotGrid, MainGrid

\* And so does every step of the pair.
LEMMA AutogradKeeps == ASSUME BwdInv, [AutogradNext]_<<vars, bwdVars>> PROVE BwdInv'
<1>1. CASE Next /\ UNCHANGED bwdVars
  BY <1>1, CallStays, StutterKeeps DEF AutogradNext
<1>2. CASE BwdNext
  BY <1>2, BwdNextKeeps
<1>3. CASE UNCHANGED <<vars, bwdVars>>
  <2>1. UNCHANGED launch /\ UNCHANGED bwdVars
    BY <1>3 DEF vars
  <2> QED
    BY <2>1, StutterKeeps
<1> QED
  BY <1>1, <1>2, <1>3 DEF AutogradNext

(***************************************************************************)
(* Whatever the lengths, the blocks, the heads and the order of the CTAs:  *)
(* when the stream is empty no term of dQ, of dK or of the gradient of the *)
(* shared context is lost or counted twice (convert_dkv, convert_dq).      *)
(***************************************************************************)
THEOREM GradientsAreExact == AutogradSpec => []GradientExact
<1>1. AutogradInit => BwdInv
  BY BwdInitInv DEF AutogradInit
<1>2. BwdInv /\ [AutogradNext]_<<vars, bwdVars>> => BwdInv'
  BY AutogradKeeps
<1>3. BwdInv => GradientExact
  BY DEF BwdInv, ConvertedInv, DQExact, DKExact, GradientExact
<1> QED
  BY <1>1, <1>2, <1>3, PTL DEF AutogradSpec, AutogradNext

\* No step writes over a D that is there.
LEMMA StepStays ==
  ASSUME BwdInv, [AutogradNext]_<<vars, bwdVars>>,
         NEW h \in Heads, NEW r \in PaddedRows, dpsum[h][r] >= 0
  PROVE  dpsum'[h][r] = dpsum[h][r]
<1>1. CASE UNCHANGED bwdVars
  BY <1>1 DEF bwdVars
<1>2. CASE \E c \in DotGrid : DotDoO(c)
  BY <1>2, DotStays DEF BwdInv
<1>3. CASE BwdNext /\ ~\E c \in DotGrid : DotDoO(c)
  <2>1. UNCHANGED dpsum
    BY <1>3 DEF BwdNext, Backward, StartMain, ConvertDQ, ConvertDKV, Idle, MainCTA, Exit,
         BwdEarlyExit, BwdPrologue, QTile, BwdEpilogue, bwdVars, DotGrid
  <2> QED
    BY <2>1
<1> QED
  BY <1>1, <1>2, <1>3 DEF AutogradNext

(***************************************************************************)
(* D of a query is not written over by the last CTA of the sequence before *)
(* in any interleaving: RowPad keeps softmax_d of two sequences apart.     *)
(***************************************************************************)
THEOREM DIsStable == AutogradSpec => DStaysRight
<1>1. AutogradInit => BwdInv
  BY BwdInitInv DEF AutogradInit
<1>2. BwdInv /\ [AutogradNext]_<<vars, bwdVars>> => BwdInv'
  BY AutogradKeeps
<1>3. BwdInv /\ [AutogradNext]_<<vars, bwdVars>> =>
        [\A h \in Heads : \A r \in PaddedRows :
           dpsum[h][r] >= 0 => dpsum'[h][r] = dpsum[h][r]]_bwdVars
  BY StepStays
<1> QED
  BY <1>1, <1>2, <1>3, PTL DEF AutogradSpec, AutogradNext, DStaysRight

(* The forward pass goes on to be the attention it computes: the backward  *)
(* pass writes none of its state.                                          *)
THEOREM AutogradImplements == AutogradSpec => []TypeOK /\ ImplementsAttention
<1>1. AutogradInit => IInv
  BY InitInv DEF AutogradInit
<1>2. [AutogradNext]_<<vars, bwdVars>> => [Next]_vars
  BY BackwardFrame DEF AutogradNext
<1>3. IInv /\ [Next]_vars => IInv'
  BY NextKeepsInv
<1>4. IInv => TypeOK
  BY DEF IInv
<1>5. AutogradInit => Attention!Init
  BY InitRefines DEF AutogradInit
<1>6. IInv /\ [Next]_vars => [Attention!Next]_<<launch, o>>
  BY NextRefines
<1> QED
  BY <1>1, <1>2, <1>3, <1>4, <1>5, <1>6, PTL
     DEF AutogradSpec, AutogradNext, ImplementsAttention, Attention!Spec
=============================================================================
