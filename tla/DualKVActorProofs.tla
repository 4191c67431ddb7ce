------------------------- MODULE DualKVActorProofs --------------------------
(***************************************************************************)
(* What TLAPS proves of the training step, for every number of prompts,    *)
(* rollouts and ranks and for every admitted batch size.                   *)
(***************************************************************************)
EXTENDS DualKVActor, DualKVPackProofs

-----------------------------------------------------------------------------
(* Where size divides n, a block of size numbers that starts at a multiple *)
(* of size never crosses a multiple of n.                                  *)
LEMMA BlockInGroup ==
  ASSUME NEW n \in Nat \ {0}, NEW size \in Nat \ {0}, n % size = 0, NEW q \in Nat
  PROVE  \E g \in Nat : n * g <= size * q /\ size * q + size <= n * g + n
<1> DEFINE d == n \div size
           g == q \div d
<1>1. d \in Nat /\ n = size * d
  BY DivBounds, Divides
<1>2. d # 0
  BY <1>1
<1>3. g \in Nat /\ d * g <= q /\ q < d * g + d
  BY <1>1, <1>2, DivBounds
<1> HIDE DEF d, g
<1>4. size * (d * g) <= size * q /\ size * q + size <= size * (d * g + d)
  <2>1. q + 1 <= d * g + d
    BY <1>1, <1>3
  <2>2. size * (d * g) <= size * q
    BY <1>1, <1>3
  <2>3. size * (q + 1) <= size * (d * g + d)
    BY <1>1, <1>3, <2>1
  <2>4. size * (q + 1) = size * q + size
    OBVIOUS
  <2> QED
    BY <2>2, <2>3, <2>4
<1>5. n * g = size * (d * g) /\ n * g + n = size * (d * g + d)
  BY <1>1, <1>3
<1> QED
  BY <1>3, <1>4, <1>5

-----------------------------------------------------------------------------
(* Slices of the batch and their pieces.                                   *)

\* The sizes of the loops are positive, and the ranks share the batch evenly.
LEMMA Sizes ==
  /\ N \in Nat \ {0} /\ DP \in Nat \ {0} /\ MicroBatch \in Nat \ {0}
  /\ LogProbMicroBatch \in Nat \ {0} /\ PpoEpochs \in Nat \ {0}
  /\ Mini \in Nat \ {0} /\ Chunk \in Nat \ {0}
  /\ TotalRows \in Nat /\ TotalRows = DP * Chunk /\ Chunk % N = 0
  /\ Ranks = 0 .. DP - 1
<1>1. /\ N \in Nat \ {0} /\ DP \in Nat \ {0} /\ MicroBatch \in Nat \ {0}
      /\ LogProbMicroBatch \in Nat \ {0} /\ PpoEpochs \in Nat \ {0}
      /\ NumPrompts \in Nat \ {0} /\ PpoMiniBatch \in Nat \ {0}
  BY SizesAssumption
<1>2. Mini \in Nat \ {0}
  <2>1. PpoMiniBatch * N \in Nat
    BY <1>1
  <2> QED
    BY <1>1, <2>1, DivBounds, DualKVAssumption DEF Mini, DualKVAsserts
<1>3. PICK k \in Nat : NumPrompts = DP * k
  BY <1>1, DivBounds, Divides, DualKVAssumption DEF DualKVAsserts
<1>4. TotalRows = DP * (k * N) /\ TotalRows \in Nat /\ k * N \in Nat
  BY <1>1, <1>3 DEF TotalRows
<1>5. Chunk = k * N
  BY <1>1, <1>4, DivUnique DEF Chunk
<1>6. k # 0
  BY <1>1, <1>3
<1>7. k * N # 0
  BY <1>1, <1>3, <1>6
<1>8. (k * N) % N = 0
  BY <1>1, <1>3
<1> QED
  BY <1>1, <1>2, <1>4, <1>5, <1>7, <1>8 DEF Ranks

(* A nonempty slice of the batch. *)
Nonempty == {s \in Slices : s.lo < s.hi}

\* Every rank has rows to train on.
LEMMA ChunkNonempty == ASSUME NEW r \in Ranks PROVE ChunkOf(r) \in Nonempty
<1>1. r \in Nat /\ r + 1 <= DP
  BY Sizes
<1>2. r * Chunk \in Nat /\ (r + 1) * Chunk \in Nat /\ r * Chunk < (r + 1) * Chunk
  BY <1>1, Sizes
<1>3. (r + 1) * Chunk <= TotalRows
  BY <1>1, Sizes
<1> QED
  BY <1>2, <1>3, Sizes DEF ChunkOf, Slice, Nonempty, Slices

\* A slice with rows is cut into at least one piece.
LEMMA PiecesPositive ==
  ASSUME NEW s \in Nonempty, NEW size \in Nat \ {0}
  PROVE  Pieces(s, size) \in Nat \ {0}
<1> DEFINE n == s.hi - s.lo
<1>1. n \in Nat \ {0}
  BY Sizes DEF Nonempty, Slices
<1>2. n + size - 1 \in Nat /\ n + size - 1 >= size
  BY <1>1
<1>3. (n + size - 1) \div size \in Nat \ {0}
  BY <1>2, DivBounds
<1> QED
  BY <1>3 DEF Pieces

(* Every piece split() yields is a nonempty slice. *)
LEMMA PieceNonempty ==
  ASSUME NEW s \in Nonempty, NEW size \in Nat \ {0},
         NEW k \in Nat, k < Pieces(s, size)
  PROVE  Piece(s, size, k) \in Nonempty
<1> DEFINE n == s.hi - s.lo
<1>1. n \in Nat \ {0} /\ s.lo \in Nat /\ s.hi \in 0 .. TotalRows
  BY Sizes DEF Nonempty, Slices
<1>2. Pieces(s, size) = (n + size - 1) \div size
  BY DEF Pieces
<1>3. Pieces(s, size) \in Nat /\ size * Pieces(s, size) <= n + size - 1
  BY SMTT(30), <1>1, <1>2, DivBounds
<1>4. k * size + size <= Pieces(s, size) * size
  BY <1>3, MulMono
<1>5. k * size \in Nat /\ k * size < n /\ (k + 1) * size = k * size + size
  BY <1>1, <1>3, <1>4
<1> DEFINE top == s.lo + (k + 1) * size
<1>6. Smaller(top, s.hi) \in s.lo + k * size + 1 .. s.hi
  BY <1>1, <1>5 DEF Smaller
<1> QED
  BY SMTT(30), <1>1, <1>5, <1>6, Sizes DEF Piece, Slice, Nonempty, Slices

-----------------------------------------------------------------------------
(***************************************************************************)
(* The inductive invariant.  Located: a rank starts at the first piece and *)
(* its loops never run past the pieces there are.  Accumulated: once the   *)
(* first micro-batch of a mini-batch is done, the gradient holds the rows  *)
(* up to the micro-batch the rank is at, once each, and no other row.      *)
(***************************************************************************)
LocatedAt(r) ==
  /\ phase = "generate" => at[r] = Start /\ pc[r] = "idle"
  /\ pc[r] = "log_prob" => at[r].micro < Pieces(ChunkOf(r), LogProbMicroBatch)
  /\ pc[r] \in {"update", "step"} =>
       at[r].ep < PpoEpochs /\ at[r].mini < Pieces(ChunkOf(r), Mini)
  /\ pc[r] = "update" =>
       at[r].micro < Pieces(MiniBatch(r, at[r].mini), MicroBatch)
  /\ pc[r] = "step" =>
       at[r].micro = Pieces(MiniBatch(r, at[r].mini), MicroBatch)

Located == \A r \in Ranks : LocatedAt(r)

(* The rows of s before its k-th piece. *)
Done(s, size, k) == {i \in RowsIn(s) : i < s.lo + k * size}

AccumulatedAt(r) ==
  (pc[r] = "update" /\ at[r].micro > 0) \/ pc[r] = "step" =>
    \A i \in Rows :
      grad[r][i] = IF i \in Done(MiniBatch(r, at[r].mini), MicroBatch, at[r].micro)
                   THEN 1 ELSE 0

Accumulated == \A r \in Ranks : AccumulatedAt(r)

IInv == TypeOK /\ Located /\ Accumulated

\* The invariant holds when the step begins.
LEMMA InitIInv == Init => IInv
<1> SUFFICES ASSUME Init PROVE IInv
  OBVIOUS
<1>1. Slice(0, 0) \in Slices
  BY Sizes DEF Slice, Slices
<1>2. TypeOK
  BY <1>1, SizesAssumption, Sizes DEF Init, TypeOK, NoGrad, Start
<1>3. Located
  BY DEF Init, Located, LocatedAt
<1>4. Accumulated
  BY DEF Init, Accumulated, AccumulatedAt
<1> QED
  BY <1>2, <1>3, <1>4 DEF IInv

(* What a rank at a micro-batch is about to run is a slice of the batch. *)
LEMMA UpdateSlice ==
  ASSUME IInv, NEW r \in Ranks, pc[r] = "update"
  PROVE  /\ MiniBatch(r, at[r].mini) \in Nonempty
         /\ Micro(r, at[r].mini, at[r].micro) \in Nonempty
<1>1. at[r].mini \in Nat /\ at[r].micro \in Nat
  BY DEF IInv, TypeOK
<1>2. MiniBatch(r, at[r].mini) \in Nonempty
  BY <1>1, ChunkNonempty, PieceNonempty, Sizes DEF IInv, Located, LocatedAt, MiniBatch
<1>3. Micro(r, at[r].mini, at[r].micro) \in Nonempty
  BY <1>1, <1>2, PieceNonempty, Sizes DEF IInv, Located, LocatedAt, Micro
<1> QED
  BY <1>2, <1>3

\* A rank in compute_log_prob is at a micro-batch that has rows.
LEMMA LogProbSlice ==
  ASSUME IInv, NEW r \in Ranks, pc[r] = "log_prob"
  PROVE  LogProbMicro(r, at[r].micro) \in Nonempty
<1>1. at[r].micro \in Nat
  BY DEF IInv, TypeOK
<1> QED
  BY <1>1, ChunkNonempty, PieceNonempty, Sizes DEF IInv, Located, LocatedAt, LogProbMicro

(* A piece adds its rows to those done, and the last one completes them.   *)
LEMMA DoneNext ==
  ASSUME NEW s \in Nonempty, NEW size \in Nat \ {0}, NEW k \in Nat
  PROVE  /\ Done(s, size, 0) = {}
         /\ Done(s, size, k + 1) = Done(s, size, k) \cup RowsIn(Piece(s, size, k))
         /\ Done(s, size, k) \cap RowsIn(Piece(s, size, k)) = {}
<1>1. s.lo \in Nat /\ s.hi \in Nat
  BY Sizes DEF Nonempty, Slices
<1>2. k * size \in Nat /\ (k + 1) * size = k * size + size /\ 0 * size = 0
  OBVIOUS
<1> DEFINE p == Piece(s, size, k)
<1>3. /\ p.lo = s.lo + k * size
      /\ p.hi = Smaller(s.lo + (k * size + size), s.hi)
  BY <1>2 DEF Piece, Slice
<1>4. Done(s, size, 0) = {}
  BY <1>1, <1>2 DEF Done, RowsIn
<1>5. \A i \in Int : i \in RowsIn(p) <=>
          s.lo + k * size <= i /\ i < s.lo + (k * size + size) /\ i < s.hi
  BY <1>1, <1>2, <1>3 DEF RowsIn, Smaller
<1>6. \A i : i \in Done(s, size, k) <=> i \in Int /\ s.lo <= i /\ i < s.hi /\ i < s.lo + k * size
  BY <1>1, <1>2 DEF Done, RowsIn
<1>7. \A i : i \in Done(s, size, k + 1) <=>
          i \in Int /\ s.lo <= i /\ i < s.hi /\ i < s.lo + (k * size + size)
  BY <1>1, <1>2 DEF Done, RowsIn
<1>8. RowsIn(p) \subseteq Int
  BY <1>1, <1>2, <1>3 DEF RowsIn, Smaller
<1> HIDE DEF p
<1>9. Done(s, size, k + 1) = Done(s, size, k) \cup RowsIn(p) /\ Done(s, size, k) \cap RowsIn(p) = {}
  BY <1>1, <1>2, <1>5, <1>6, <1>7, <1>8
<1> QED
  BY <1>4, <1>9 DEF p

\* After the last piece of a split every row of the slice is done.
LEMMA DoneAll ==
  ASSUME NEW s \in Nonempty, NEW size \in Nat \ {0}
  PROVE  Done(s, size, Pieces(s, size)) = RowsIn(s)
<1> DEFINE n == s.hi - s.lo
           k == (n + size - 1) \div size
<1>1. s.lo \in Nat /\ s.hi \in Nat /\ n \in Nat \ {0}
  BY Sizes DEF Nonempty, Slices
<1>2. k \in Nat /\ n + size - 1 < size * k + size
  <2>1. n + size - 1 \in Nat
    BY <1>1
  <2> QED
    BY <2>1, DivBounds
<1>3. size * k = k * size /\ k * size \in Nat
  BY <1>2
<1> HIDE DEF k
<1>4. s.hi <= s.lo + k * size
  BY <1>1, <1>2, <1>3
<1>5. Done(s, size, k) = RowsIn(s)
  BY <1>1, <1>3, <1>4 DEF Done, RowsIn
<1> QED
  BY <1>5 DEF Pieces, k

\* Every step of every rank keeps the invariant.
LEMMA NextIInv == IInv /\ [Next]_vars => IInv'
<1> SUFFICES ASSUME IInv, [Next]_vars PROVE IInv'
  OBVIOUS
<1> USE DEF IInv
<1>1. CASE Generate
  <2>1. TypeOK'
    <3>1. rlen' \in [Rows -> 0 .. RespLength]
      BY <1>1, SizesAssumption DEF Generate
    <3>2. pc' \in [Ranks -> {"idle", "log_prob", "update", "step"}]
      BY <1>1 DEF Generate
    <3>3. /\ phase' = "log_prob"
          /\ UNCHANGED <<at, joined, count, seen, grad, trained, norms, params>>
      BY <1>1 DEF Generate
    <3> QED
      BY <3>1, <3>2, <3>3 DEF TypeOK
  <2>2. Located'
    BY <1>1, ChunkNonempty, PiecesPositive, Sizes DEF Generate, Located, LocatedAt, Start
  <2>3. Accumulated'
    BY <1>1 DEF Generate, Accumulated, AccumulatedAt
  <2> QED
    BY <2>1, <2>2, <2>3
<1>2. CASE DispatchUpdate
  <2>1. TypeOK'
    <3>1. at' \in [Ranks -> [ep : 0 .. PpoEpochs, mini : Nat, micro : Nat]]
      BY <1>2, Sizes DEF DispatchUpdate, Start
    <3>2. pc' \in [Ranks -> {"idle", "log_prob", "update", "step"}]
      BY <1>2 DEF DispatchUpdate
    <3>3. /\ phase' = "update"
          /\ UNCHANGED <<rlen, joined, count, seen, grad, trained, norms, params>>
      BY <1>2 DEF DispatchUpdate
    <3> QED
      BY <3>1, <3>2, <3>3 DEF TypeOK
  <2>2. ASSUME NEW r \in Ranks
        PROVE  /\ 0 < Pieces(ChunkOf(r), Mini)
               /\ 0 < Pieces(MiniBatch(r, 0), MicroBatch)
    <3>1. Pieces(ChunkOf(r), Mini) \in Nat \ {0}
      BY ChunkNonempty, PiecesPositive, Sizes
    <3>2. MiniBatch(r, 0) \in Nonempty
      BY <3>1, ChunkNonempty, PieceNonempty, Sizes DEF MiniBatch
    <3> QED
      BY <3>1, <3>2, PiecesPositive, Sizes
  <2>3. Located'
    BY <1>2, <2>2, Sizes DEF DispatchUpdate, Located, LocatedAt, Start
  <2>4. Accumulated'
    BY <1>2 DEF DispatchUpdate, Accumulated, AccumulatedAt, Start
  <2> QED
    BY <2>1, <2>3, <2>4
<1>3. CASE Finish
  <2>1. TypeOK' /\ Located'
    BY <1>3 DEF Finish, TypeOK, Located, LocatedAt
  <2>2. Accumulated'
    BY <1>3 DEF Finish, Accumulated, AccumulatedAt
  <2> QED
    BY <2>1, <2>2
<1>4. ASSUME NEW r \in Ranks, Enter(r) PROVE IInv'
  <2>1. TypeOK' /\ Located'
    BY <1>4 DEF Enter, TypeOK, Located, LocatedAt
  <2>2. Accumulated'
    BY <1>4 DEF Enter, Accumulated, AccumulatedAt
  <2> QED
    BY <2>1, <2>2
<1>5. ASSUME NEW r \in Ranks, ComputeLogProb(r) PROVE IInv'
  <2> DEFINE k == at[r].micro
             pieces == Pieces(ChunkOf(r), LogProbMicroBatch)
  <2>1. /\ pc[r] = "log_prob" /\ k \in Nat /\ k < pieces /\ pieces \in Nat
        /\ LogProbMicro(r, k) \in Slices
    BY <1>5, LogProbSlice, ChunkNonempty, PiecesPositive, Sizes
       DEF ComputeLogProb, TypeOK, Located, LocatedAt, Nonempty
  <2>2. /\ at' = [at EXCEPT ![r].micro = k + 1]
        /\ pc' = [pc EXCEPT ![r] = IF k + 1 = pieces THEN "idle" ELSE @]
        /\ seen' = [seen EXCEPT ![r] = LogProbMicro(r, k)]
        /\ UNCHANGED <<phase, rlen, grad, trained, norms, params>>
        /\ joined' \in [Ranks -> BOOLEAN] /\ count' \in [Ranks -> Nat]
    BY <1>5 DEF ComputeLogProb, Complete, TypeOK
  <2> HIDE DEF pieces
  <2>3. TypeOK'
    <3>1. at' \in [Ranks -> [ep : 0 .. PpoEpochs, mini : Nat, micro : Nat]]
      <4>1. at \in [Ranks -> [ep : 0 .. PpoEpochs, mini : Nat, micro : Nat]]
        BY DEF TypeOK
      <4> QED
        BY <2>1, <2>2, <4>1
    <3>2. pc' \in [Ranks -> {"idle", "log_prob", "update", "step"}]
      BY <2>2 DEF TypeOK
    <3>3. seen' \in [Ranks -> Slices]
      BY <2>1, <2>2 DEF TypeOK
    <3> QED
      BY <2>2, <3>1, <3>2, <3>3 DEF TypeOK
  <2>4. Located'
    <3> SUFFICES ASSUME NEW q \in Ranks
                 PROVE  LocatedAt(q)'
      BY DEF Located
    <3>1. CASE q = r
      <4>1. at'[q].micro = k + 1
        BY <2>2, <3>1 DEF TypeOK
      <4>2. pc'[q] = IF k + 1 = pieces THEN "idle" ELSE "log_prob"
        BY <2>1, <2>2, <3>1 DEF TypeOK
      <4>3. phase # "generate"
        BY <2>1 DEF Located, LocatedAt
      <4> QED
        BY <2>1, <2>2, <3>1, <4>1, <4>2, <4>3 DEF LocatedAt, pieces
    <3>2. CASE q # r
      <4>1. at'[q] = at[q] /\ pc'[q] = pc[q]
        BY <2>2, <3>2 DEF TypeOK
      <4> QED
        BY <2>2, <4>1 DEF LocatedAt, Located
    <3> QED
      BY <3>1, <3>2
  <2>5. Accumulated'
    BY <2>1, <2>2 DEF TypeOK, Accumulated, AccumulatedAt
  <2> QED
    BY <2>3, <2>4, <2>5
<1>6. ASSUME NEW r \in Ranks, UpdateMicroBatch(r) PROVE IInv'
  <2> DEFINE k == at[r].micro
             mb == MiniBatch(r, at[r].mini)
             s == Piece(mb, MicroBatch, k)
             pieces == Pieces(mb, MicroBatch)
             plus(i) == IF i \in RowsIn(s) THEN 1 ELSE 0
  <2>1. /\ pc[r] = "update" /\ k \in Nat /\ mb \in Nonempty /\ s \in Slices
        /\ k < pieces /\ pieces \in Nat
    BY <1>6, UpdateSlice, PiecesPositive, Sizes
       DEF UpdateMicroBatch, TypeOK, Located, LocatedAt, Nonempty, Micro
  <2>2. /\ at' = [at EXCEPT ![r].micro = k + 1]
        /\ pc' = [pc EXCEPT ![r] = IF k + 1 = pieces THEN "step" ELSE @]
        /\ seen' = [seen EXCEPT ![r] = s]
        /\ grad' = [grad EXCEPT ![r] = [i \in Rows |-> GradBefore(r)[i] + plus(i)]]
        /\ UNCHANGED <<phase, rlen, trained, norms, params>>
        /\ joined' \in [Ranks -> BOOLEAN] /\ count' \in [Ranks -> Nat]
    BY <1>6 DEF UpdateMicroBatch, Complete, TypeOK, Micro
  <2> HIDE DEF mb, s, pieces
  <2>3. GradBefore(r) \in [Rows -> Nat]
    BY DEF GradBefore, NoGrad, TypeOK
  <2>4. TypeOK'
    <3>1. at' \in [Ranks -> [ep : 0 .. PpoEpochs, mini : Nat, micro : Nat]]
      <4>1. at \in [Ranks -> [ep : 0 .. PpoEpochs, mini : Nat, micro : Nat]]
        BY DEF TypeOK
      <4> QED
        BY <2>1, <2>2, <4>1
    <3>2. pc' \in [Ranks -> {"idle", "log_prob", "update", "step"}]
      BY <2>2 DEF TypeOK
    <3>3. seen' \in [Ranks -> Slices]
      BY <2>1, <2>2 DEF TypeOK
    <3>4. grad' \in [Ranks -> [Rows -> Nat]]
      <4>1. [i \in Rows |-> GradBefore(r)[i] + plus(i)] \in [Rows -> Nat]
        BY <2>3
      <4> QED
        BY <2>2, <4>1 DEF TypeOK
    <3> QED
      BY <2>2, <3>1, <3>2, <3>3, <3>4 DEF TypeOK
  <2>5. /\ at'[r] = [at[r] EXCEPT !.micro = k + 1] /\ at'[r].micro = k + 1
        /\ at'[r].mini = at[r].mini /\ at'[r].ep = at[r].ep
        /\ pc'[r] = IF k + 1 = pieces THEN "step" ELSE "update"
        /\ MiniBatch(r, at'[r].mini) = mb
    BY <2>1, <2>2 DEF TypeOK, mb
  <2>6. ASSUME NEW q \in Ranks, q # r
        PROVE  at'[q] = at[q] /\ pc'[q] = pc[q] /\ grad'[q] = grad[q]
    BY <2>2, <2>6 DEF TypeOK
  <2>7. Located'
    <3> SUFFICES ASSUME NEW q \in Ranks
                 PROVE  LocatedAt(q)'
      BY DEF Located
    <3>1. CASE q = r
      <4>1. phase # "generate" /\ LocatedAt(r)
        BY <2>1 DEF Located, LocatedAt
      <4> QED
        BY <2>1, <2>2, <2>5, <3>1, <4>1 DEF LocatedAt, pieces
    <3>2. CASE q # r
      BY <2>2, <2>6, <3>2 DEF LocatedAt, Located
    <3> QED
      BY <3>1, <3>2
  <2>8. Accumulated'
    <3> SUFFICES ASSUME NEW q \in Ranks
                 PROVE  AccumulatedAt(q)'
      BY DEF Accumulated
    <3>1. CASE q = r
      <4> SUFFICES ASSUME NEW i \in Rows
                   PROVE  grad'[r][i] = IF i \in Done(mb, MicroBatch, k + 1) THEN 1 ELSE 0
        BY <2>5, <3>1 DEF AccumulatedAt
      <4>1. grad'[r][i] = GradBefore(r)[i] + plus(i)
        BY <2>2 DEF TypeOK
      <4>2. GradBefore(r)[i] = IF i \in Done(mb, MicroBatch, k) THEN 1 ELSE 0
        <5>1. CASE k = 0
          BY <2>1, <5>1, DoneNext, Sizes DEF GradBefore, NoGrad
        <5>2. CASE k # 0
          BY <2>1, <5>2 DEF GradBefore, Accumulated, AccumulatedAt, mb
        <5> QED
          BY <5>1, <5>2
      <4>3. /\ Done(mb, MicroBatch, k + 1) = Done(mb, MicroBatch, k) \cup RowsIn(s)
            /\ Done(mb, MicroBatch, k) \cap RowsIn(s) = {}
        BY <2>1, DoneNext, Sizes DEF s
      <4> QED
        BY <4>1, <4>2, <4>3
    <3>2. CASE q # r
      BY <2>6, <3>2 DEF Accumulated, AccumulatedAt
    <3> QED
      BY <3>1, <3>2
  <2> QED
    BY <2>4, <2>7, <2>8
<1>7. ASSUME NEW r \in Ranks, OptimizerStep(r) PROVE IInv'
  <2> DEFINE n == NextMini(r)
  <2>1. /\ n \in [ep : 0 .. PpoEpochs, mini : Nat, micro : Nat]
        /\ n.micro = 0 /\ n.mini < Pieces(ChunkOf(r), Mini)
        /\ phase # "generate"
    <3>1. /\ at[r].ep \in Nat /\ at[r].ep < PpoEpochs /\ at[r].mini \in Nat
          /\ at[r].mini < Pieces(ChunkOf(r), Mini)
          /\ phase # "generate"
      BY <1>7 DEF OptimizerStep, TypeOK, Located, LocatedAt
    <3>2. Pieces(ChunkOf(r), Mini) \in Nat \ {0}
      BY ChunkNonempty, PiecesPositive, Sizes
    <3> DEFINE lastMini == at[r].mini + 1 = Pieces(ChunkOf(r), Mini)
    <3>3. n = [ep    |-> IF lastMini THEN at[r].ep + 1 ELSE at[r].ep,
               mini  |-> IF lastMini THEN 0 ELSE at[r].mini + 1,
               micro |-> 0]
      BY DEF NextMini
    <3> HIDE DEF n
    <3>4. /\ n.ep = IF lastMini THEN at[r].ep + 1 ELSE at[r].ep
          /\ n.mini = IF lastMini THEN 0 ELSE at[r].mini + 1
          /\ n.micro = 0
      BY <3>3
    <3>5. n.ep \in 0 .. PpoEpochs
      <4>1. PpoEpochs \in Nat
        BY Sizes
      <4> QED
        BY <3>1, <3>4, <4>1
    <3>6. n.mini \in Nat /\ n.mini < Pieces(ChunkOf(r), Mini)
      BY <3>1, <3>2, <3>4
    <3> QED
      BY <3>1, <3>3, <3>4, <3>5, <3>6
  <2>2. 0 < Pieces(MiniBatch(r, n.mini), MicroBatch)
    <3>1. MiniBatch(r, n.mini) \in Nonempty
      BY <2>1, ChunkNonempty, PieceNonempty, Sizes DEF MiniBatch
    <3> QED
      BY <3>1, PiecesPositive, Sizes
  <2>3. PICK finite \in BOOLEAN :
          /\ params' = [params EXCEPT ![r] =
               IF finite THEN Append(@, [ep |-> at[r].ep, mini |-> at[r].mini]) ELSE @]
          /\ grad' = [grad EXCEPT ![r] = IF finite /\ n.ep < PpoEpochs THEN @ ELSE NoGrad]
    <3>1. \E finite \in GradNorm(r) :
          /\ params' = [params EXCEPT ![r] =
               IF finite THEN Append(@, [ep |-> at[r].ep, mini |-> at[r].mini]) ELSE @]
          /\ grad' = [grad EXCEPT ![r] = IF finite /\ n.ep < PpoEpochs THEN @ ELSE NoGrad]
      BY <1>7 DEF OptimizerStep
    <3> QED
      BY <3>1
  <2>4. /\ at' = [at EXCEPT ![r] = n]
        /\ pc' = [pc EXCEPT ![r] = IF n.ep < PpoEpochs THEN "update" ELSE "idle"]
        /\ trained' = [trained EXCEPT ![r] = [i \in Rows |-> @[i] + grad[r][i]]]
        /\ UNCHANGED <<phase, rlen, seen>>
        /\ joined' \in [Ranks -> BOOLEAN] /\ count' \in [Ranks -> Nat]
    BY <1>7 DEF OptimizerStep, Complete, TypeOK
  <2> HIDE DEF n
  <2>5. TypeOK'
    <3>1. at' \in [Ranks -> [ep : 0 .. PpoEpochs, mini : Nat, micro : Nat]]
      BY <2>1, <2>4 DEF TypeOK
    <3>2. pc' \in [Ranks -> {"idle", "log_prob", "update", "step"}]
      BY <2>4 DEF TypeOK
    <3>3. grad' \in [Ranks -> [Rows -> Nat]]
      BY <2>3 DEF TypeOK, NoGrad
    <3>4. trained' \in [Ranks -> [Rows -> Nat]]
      <4>1. [i \in Rows |-> trained[r][i] + grad[r][i]] \in [Rows -> Nat]
        BY DEF TypeOK
      <4> QED
        BY <2>4, <4>1 DEF TypeOK
    <3>5. params' \in [Ranks -> Seq([ep : Nat, mini : Nat])]
      <4>1. [ep |-> at[r].ep, mini |-> at[r].mini] \in [ep : Nat, mini : Nat]
        BY DEF TypeOK
      <4>2. Append(params[r], [ep |-> at[r].ep, mini |-> at[r].mini])
              \in Seq([ep : Nat, mini : Nat])
        BY <4>1 DEF TypeOK
      <4> QED
        BY <2>3, <4>2 DEF TypeOK
    <3> QED
      BY <2>4, <3>1, <3>2, <3>3, <3>4, <3>5 DEF TypeOK
  <2>6. /\ at'[r] = n
        /\ pc'[r] = IF n.ep < PpoEpochs THEN "update" ELSE "idle"
    BY <2>4 DEF TypeOK
  <2>7. ASSUME NEW q \in Ranks, q # r
        PROVE  at'[q] = at[q] /\ pc'[q] = pc[q] /\ grad'[q] = grad[q]
    BY <2>3, <2>4, <2>7 DEF TypeOK
  <2>8. Located'
    <3> SUFFICES ASSUME NEW q \in Ranks
                 PROVE  LocatedAt(q)'
      BY DEF Located
    <3>1. CASE q = r
      BY <2>1, <2>2, <2>4, <2>6, <3>1 DEF LocatedAt
    <3>2. CASE q # r
      BY <2>4, <2>7, <3>2 DEF LocatedAt, Located
    <3> QED
      BY <3>1, <3>2
  <2>9. Accumulated'
    <3> SUFFICES ASSUME NEW q \in Ranks
                 PROVE  AccumulatedAt(q)'
      BY DEF Accumulated
    <3>1. CASE q = r
      BY <2>1, <2>6, <3>1 DEF AccumulatedAt
    <3>2. CASE q # r
      BY <2>7, <3>2 DEF Accumulated, AccumulatedAt
    <3> QED
      BY <3>1, <3>2
  <2> QED
    BY <2>5, <2>8, <2>9
<1>8. CASE UNCHANGED vars
  <2>1. TypeOK' /\ Located'
    BY <1>8 DEF vars, TypeOK, Located, LocatedAt
  <2>2. Accumulated'
    BY <1>8 DEF vars, Accumulated, AccumulatedAt
  <2> QED
    BY <2>1, <2>2
<1> QED
  BY <1>1, <1>2, <1>3, <1>4, <1>5, <1>6, <1>7, <1>8 DEF Next, Worker

\* The invariant holds in every reachable state.
LEMMA Invariant == Spec => []IInv
<1> QED
  BY InitIInv, NextIInv, PTL DEF Spec

-----------------------------------------------------------------------------
(* Every state of a training step has the types the code's variables have: *)
(* in particular no rank ever runs a slice that reaches past the batch.    *)
THEOREM TypeCorrect == Spec => []TypeOK
<1>1. IInv => TypeOK
  BY DEF IInv
<1> QED
  BY <1>1, Invariant, PTL

(* The pieces of a mini-batch are all done when a rank is at its step.     *)
LEMMA GradientNow == IInv => GradientIsMiniBatch
<1> SUFFICES ASSUME IInv, NEW r \in Ranks, pc[r] = "step", NEW i \in Rows
             PROVE  grad[r][i] = IF i \in RowsIn(MiniBatch(r, at[r].mini)) THEN 1 ELSE 0
  BY DEF GradientIsMiniBatch
<1> DEFINE mb == MiniBatch(r, at[r].mini)
<1>1. at[r].mini \in Nat /\ at[r].mini < Pieces(ChunkOf(r), Mini)
      /\ at[r].micro = Pieces(mb, MicroBatch)
  BY DEF IInv, TypeOK, Located, LocatedAt
<1>2. mb \in Nonempty
  BY <1>1, ChunkNonempty, PieceNonempty, Sizes DEF MiniBatch
<1>3. Done(mb, MicroBatch, at[r].micro) = RowsIn(mb)
  BY <1>1, <1>2, DoneAll, Sizes
<1> QED
  BY <1>3 DEF IInv, Accumulated, AccumulatedAt

(***************************************************************************)
(* _optimizer_step is only reached with a gradient that holds each row of  *)
(* the mini-batch exactly once and nothing of the step before, whatever    *)
(* the sizes and whether or not the last norm was finite.                  *)
(***************************************************************************)
THEOREM GradientCorrect == Spec => []GradientIsMiniBatch
BY GradientNow, Invariant, PTL

(***************************************************************************)
(* With micro-batches whose size divides rollout.n, in the update and in   *)
(* compute_log_prob, no micro-batch ever mixes prompts.  The trainer only  *)
(* asserts that one of the two divides the other, and only for the update. *)
(***************************************************************************)
MicroBatchesDivideN == N % MicroBatch = 0 /\ N % LogProbMicroBatch = 0

\* A piece that starts at a multiple of its size, a divisor of rollout.n, has
\* the rows of one prompt.
LEMMA PieceInGroup ==
  ASSUME NEW s \in Nonempty, NEW size \in Nat \ {0}, N % size = 0,
         NEW k \in Nat, \E q \in Nat : s.lo = size * q
  PROVE  \A i, j \in RowsIn(Piece(s, size, k)) : i \div N = j \div N
<1> TAKE i, j \in RowsIn(Piece(s, size, k))
<1> PICK q \in Nat : s.lo = size * q
  OBVIOUS
<1>1. s.lo \in Nat /\ s.hi \in Nat
  BY Sizes DEF Nonempty, Slices
<1>2. /\ k * size \in Nat /\ (k + 1) * size = k * size + size
      /\ s.lo + k * size = size * (q + k) /\ q + k \in Nat
  OBVIOUS
<1>3. /\ i \in Nat /\ size * (q + k) <= i /\ i < size * (q + k) + size
      /\ j \in Nat /\ size * (q + k) <= j /\ j < size * (q + k) + size
  BY <1>1, <1>2 DEF Piece, Slice, RowsIn, Smaller
<1>4. PICK g \in Nat : /\ N * g <= size * (q + k)
                       /\ size * (q + k) + size <= N * g + N
  BY <1>2, BlockInGroup, Sizes
<1>5. size * (q + k) \in Nat /\ N * g \in Nat
  BY <1>2, Sizes
<1>6. N * g <= i /\ i < N * g + N /\ N * g <= j /\ j < N * g + N
  BY <1>3, <1>4, <1>5, Sizes
<1> QED
  BY <1>3, <1>6, DivUnique, Sizes

(* The chunk of a rank starts at a prompt, so at a multiple of any divisor. *)
LEMMA ChunkAligned ==
  ASSUME NEW r \in Ranks, NEW size \in Nat \ {0}, N % size = 0
  PROVE  \E q \in Nat : ChunkOf(r).lo = size * q
<1>1. PICK c \in Nat : Chunk = N * c
  BY DivBounds, Divides, Sizes
<1>2. PICK d \in Nat : N = size * d
  BY DivBounds, Divides, Sizes
<1>3. r \in Nat
  BY Sizes
<1>4. ChunkOf(r).lo = r * ((size * d) * c)
  BY <1>1, <1>2 DEF ChunkOf, Slice
<1>5. r * ((size * d) * c) = size * (r * (d * c)) /\ r * (d * c) \in Nat
  BY <1>1, <1>2, <1>3
<1> QED
  BY <1>4, <1>5

\* With micro-batch sizes that divide rollout.n, every micro-batch that
\* _forward_micro_batch packs behind its first prompt has only rows of that prompt.
THEOREM OnePromptPerMicroBatch ==
  ASSUME MicroBatchesDivideN
  PROVE  Spec => []SamePromptMicroBatches
<1>1. Init => SamePromptMicroBatches
  BY DEF Init, SamePromptMicroBatches, RowsIn, Slice
<1>2. IInv /\ SamePromptMicroBatches /\ [Next]_vars => SamePromptMicroBatches'
  <2> SUFFICES ASSUME IInv, SamePromptMicroBatches, [Next]_vars
               PROVE  SamePromptMicroBatches'
    OBVIOUS
  <2>1. ASSUME NEW r \in Ranks, ComputeLogProb(r) PROVE SamePromptMicroBatches'
    <3> DEFINE s == LogProbMicro(r, at[r].micro)
    <3>1. seen' = [seen EXCEPT ![r] = s] /\ at[r].micro \in Nat
      BY <2>1 DEF ComputeLogProb, IInv, TypeOK
    <3>2. \A i, j \in RowsIn(s) : i \div N = j \div N
      <4>1. N % LogProbMicroBatch = 0
        BY DEF MicroBatchesDivideN
      <4>2. \E q \in Nat : ChunkOf(r).lo = LogProbMicroBatch * q
        BY <4>1, ChunkAligned, Sizes
      <4>3. ChunkOf(r) \in Nonempty
        BY ChunkNonempty
      <4>4. LogProbMicroBatch \in Nat \ {0} /\ at[r].micro \in Nat
        BY <3>1, Sizes
      <4>5. \A k \in Nat :
               \A i, j \in RowsIn(Piece(ChunkOf(r), LogProbMicroBatch, k)) : i \div N = j \div N
        BY <4>1, <4>2, <4>3, <4>4, PieceInGroup
      <4> QED
        BY <4>4, <4>5 DEF LogProbMicro
    <3> HIDE DEF s
    <3> QED
      BY <3>1, <3>2 DEF SamePromptMicroBatches, IInv, TypeOK
  <2>2. ASSUME NEW r \in Ranks, UpdateMicroBatch(r) PROVE SamePromptMicroBatches'
    <3> DEFINE mb == MiniBatch(r, at[r].mini)
               s == Piece(mb, MicroBatch, at[r].micro)
    <3>1. /\ seen' = [seen EXCEPT ![r] = s] /\ pc[r] = "update"
          /\ at[r].micro \in Nat /\ at[r].mini \in Nat
      BY <2>2 DEF UpdateMicroBatch, Micro, IInv, TypeOK
    <3>2. \A i, j \in RowsIn(s) : i \div N = j \div N
      <4>1. PICK q \in Nat : ChunkOf(r).lo = MicroBatch * q
        BY ChunkAligned, Sizes DEF MicroBatchesDivideN
      <4>2. PICK d \in Nat : Mini = MicroBatch * d
        <5>1. Mini \in Nat /\ MicroBatch \in Nat \ {0} /\ Mini % MicroBatch = 0
          BY DualKVAssumption, Sizes DEF DualKVAsserts
        <5>2. Mini = MicroBatch * (Mini \div MicroBatch)
          BY <5>1, Divides
        <5>3. Mini \div MicroBatch \in Nat
          BY <5>1, DivBounds
        <5> QED
          BY <5>2, <5>3
      <4>3. mb.lo = ChunkOf(r).lo + at[r].mini * Mini
        BY DEF MiniBatch, Piece, Slice
      <4>4. mb.lo = MicroBatch * (q + at[r].mini * d) /\ q + at[r].mini * d \in Nat
        <5>1. at[r].mini * (MicroBatch * d) = MicroBatch * (at[r].mini * d)
          BY <3>1, Sizes
        <5>2. MicroBatch * q + MicroBatch * (at[r].mini * d) = MicroBatch * (q + at[r].mini * d)
          BY <3>1, Sizes
        <5> QED
          BY <3>1, <4>1, <4>2, <4>3, <5>1, <5>2
      <4>5. mb \in Nonempty
        BY <3>1, UpdateSlice
      <4>6. N % MicroBatch = 0
        BY DEF MicroBatchesDivideN
      <4>7. MicroBatch \in Nat \ {0} /\ at[r].micro \in Nat
        BY <3>1, Sizes
      <4>8. \E b \in Nat : mb.lo = MicroBatch * b
        BY <4>4
      <4> HIDE DEF mb
      <4>9. \A t \in Nonempty, k \in Nat :
               (\E b \in Nat : t.lo = MicroBatch * b) =>
               \A i, j \in RowsIn(Piece(t, MicroBatch, k)) : i \div N = j \div N
        BY <4>6, <4>7, PieceInGroup
      <4> QED
        BY <4>5, <4>7, <4>8, <4>9
    <3> HIDE DEF s
    <3> QED
      BY <3>1, <3>2 DEF SamePromptMicroBatches, IInv, TypeOK
  <2>3. CASE seen' = seen
    BY <2>3 DEF SamePromptMicroBatches
  <2>4. (\E r \in Ranks : ComputeLogProb(r) \/ UpdateMicroBatch(r)) \/ seen' = seen
    BY DEF Next, Worker, Generate, DispatchUpdate, Finish, Enter, OptimizerStep, vars
  <2> QED
    BY <2>1, <2>2, <2>3, <2>4
<1> QED
  BY <1>1, <1>2, Invariant, PTL DEF Spec

(* A row of the batch has the prompt of its block of N rows.               *)
LEMMA RowFacts ==
  ASSUME IInv, NEW s \in Slices, NEW k \in 1 .. s.hi - s.lo
  PROVE  LET row == RowSeq(s)[k]
         IN  /\ s.lo + k - 1 \in RowsIn(s)
             /\ row.prompt = (s.lo + k - 1) \div N
             /\ row.plen = PromptLen((s.lo + k - 1) \div N)
             /\ row.plen \in Nat \ {0}
             /\ row.rlen \in Nat
<1> DEFINE i == s.lo + k - 1
<1>1. s.lo \in Nat /\ s.hi \in Nat /\ s.hi <= TotalRows /\ k \in Nat
  BY Sizes DEF Slices
<1>2. i \in Nat /\ i \in RowsIn(s) /\ i < TotalRows
  BY <1>1, Sizes DEF RowsIn
<1>3. RowSeq(s)[k] = Row(i)
  BY DEF RowSeq
<1> HIDE DEF i
<1>4. i \div N \in 0 .. NumPrompts - 1
  <2>1. i \div N \in Nat /\ N * (i \div N) <= i
    BY <1>2, DivBounds, Sizes
  <2> DEFINE q == i \div N
  <2>2. NumPrompts \in Nat \ {0} /\ N \in Nat \ {0} /\ q \in Nat
    BY <2>1, SizesAssumption
  <2>3. TotalRows = NumPrompts * N
    BY DEF TotalRows
  <2> HIDE DEF q
  <2>4. ~(q >= NumPrompts)
    <3> SUFFICES ASSUME NumPrompts < q \/ NumPrompts = q PROVE FALSE
      BY <2>2
    <3>1. NumPrompts * N <= q * N
      BY <2>2, MulMono
    <3>2. q * N = N * q /\ N * q <= i
      BY <2>1, <2>2 DEF q
    <3>3. NumPrompts * N \in Nat /\ q * N \in Nat
      BY <2>2
    <3> QED
      BY <1>2, <2>3, <3>1, <3>2, <3>3
  <2>5. q \in 0 .. NumPrompts - 1
    BY <2>2, <2>4
  <2> QED
    BY <2>5 DEF q
<1>5. rlen[i] \in Nat
  BY <1>2, Sizes DEF IInv, TypeOK, Rows
<1>6. PromptLen(i \div N) \in Nat \ {0}
  BY <1>4, PromptAssumption
<1> QED
  BY <1>2, <1>3, <1>5, <1>6 DEF Row, i

(* A micro-batch with the rows of one prompt is packed in one group.       *)
LEMMA StandardNow == IInv /\ SamePromptMicroBatches => StandardResults
<1> SUFFICES ASSUME IInv, SamePromptMicroBatches, NEW r \in Ranks, RowsIn(seen[r]) # {}
             PROVE  Forward(seen[r]) = Returns(StandardLogProbs(RowSeq(seen[r]), RespLength))
  BY DEF StandardResults
<1> DEFINE s == seen[r]
           rows == RowSeq(s)
           n == s.hi - s.lo
           sizes == GroupSizes(NoUid, Len(rows))
<1>1. s \in Slices
  BY DEF IInv, TypeOK
<1>2. n \in Nat \ {0}
  <2>1. s.lo \in Nat /\ s.hi \in Nat
    BY <1>1, Sizes DEF Slices
  <2>2. PICK i : i \in s.lo .. s.hi - 1
    BY DEF RowsIn
  <2> QED
    BY <2>1, <2>2
<1>3. Len(rows) = n
  BY <1>2 DEF RowSeq
<1>4. \A i, j \in RowsIn(s) : i \div N = j \div N
  BY DEF SamePromptMicroBatches
<1> HIDE DEF s
<1>5. ASSUME NEW k \in 1 .. n
      PROVE  /\ rows[k].plen \in Nat \ {0} /\ rows[k].rlen \in Nat
             /\ rows[k].prompt = rows[1].prompt /\ rows[k].plen = rows[1].plen
  <2>1. 1 \in 1 .. s.hi - s.lo /\ k \in 1 .. s.hi - s.lo
    BY <1>2
  <2>2. /\ s.lo + k - 1 \in RowsIn(s)
        /\ rows[k].prompt = (s.lo + k - 1) \div N
        /\ rows[k].plen = PromptLen((s.lo + k - 1) \div N)
        /\ rows[k].plen \in Nat \ {0}
        /\ rows[k].rlen \in Nat
    BY <1>1, <2>1, RowFacts
  <2>3. /\ s.lo + 1 - 1 \in RowsIn(s)
        /\ rows[1].prompt = (s.lo + 1 - 1) \div N
        /\ rows[1].plen = PromptLen((s.lo + 1 - 1) \div N)
    BY <1>1, <2>1, RowFacts
  <2>4. (s.lo + k - 1) \div N = (s.lo + 1 - 1) \div N
    BY <1>4, <2>2, <2>3
  <2> HIDE DEF rows
  <2> QED
    BY <2>2, <2>3, <2>4
<1> HIDE DEF n, rows
<1>6. IsBatch(rows)
  BY <1>2, <1>3, <1>5 DEF IsBatch
<1>7. /\ sizes = <<n>> /\ sizes \in Seq(Nat \ {0}) /\ Len(sizes) = 1
      /\ Before(sizes, 1) = 0 /\ Before(sizes, 2) = n
  BY <1>2, <1>3, OneGroup
<1>8. Grouped(rows, sizes)
  <2>1. Before(sizes, Len(sizes) + 1) = Len(rows)
    BY <1>3, <1>7
  <2>2. ASSUME NEW g \in 1 .. Len(sizes), NEW i \in 1 .. sizes[g]
        PROVE  /\ rows[Before(sizes, g) + i].prompt = rows[Before(sizes, g) + 1].prompt
               /\ rows[Before(sizes, g) + i].plen = rows[Before(sizes, g) + 1].plen
    <3>1. g = 1 /\ sizes[g] = n
      BY <1>7
    <3>2. i \in 1 .. n /\ 0 + i = i /\ 0 + 1 = 1
      BY <1>2, <3>1
    <3> HIDE DEF sizes
    <3> QED
      BY <1>5, <1>7, <3>1, <3>2
  <2> HIDE DEF sizes
  <2> QED
    BY <1>7, <2>1, <2>2 DEF Grouped
<1>9. RespLength \in Nat
  BY SizesAssumption
<1>10. ForwardMicroBatch(rows, NoUid, RespLength) = Returns(StandardLogProbs(rows, RespLength))
  BY <1>6, <1>8, <1>9, PackParity
<1> QED
  BY <1>10 DEF Forward, MicroBatchUids, rows, s

\* With such micro-batch sizes, every forward pass over a packed micro-batch returns,
\* row by row and token by token, the log-probs of the standard path.
THEOREM PackedIsStandard ==
  ASSUME MicroBatchesDivideN
  PROVE  Spec => []StandardResults
<1>1. Spec => []SamePromptMicroBatches
  BY OnePromptPerMicroBatch
<1> QED
  BY <1>1, Invariant, StandardNow, PTL

-----------------------------------------------------------------------------
(***************************************************************************)
(* How the ranks go through the loops of the training step: each row is    *)
(* trained on once per epoch, by one rank, and ranks that have run as many *)
(* collectives have the same parameters, although they run them at         *)
(* different times.                                                        *)
(***************************************************************************)
(* Every row once per epoch.                                               *)

(* A rank has trained on its chunk once for each epoch it has finished,    *)
(* and on the mini-batches before the one it is at once more.              *)
TrainedAt(r) ==
  \A i \in Rows :
    trained[r][i] =
      IF i \notin RowsIn(ChunkOf(r)) THEN 0
      ELSE IF i \in Done(ChunkOf(r), Mini, at[r].mini) THEN at[r].ep + 1 ELSE at[r].ep

(* Where the loops begin and where they have ended.                        *)
PhaseAt(r) ==
  /\ phase \in {"generate", "log_prob"} => at[r].ep = 0 /\ at[r].mini = 0
  /\ phase \in {"update", "done"} /\ pc[r] = "idle" => at[r].ep = PpoEpochs /\ at[r].mini = 0
  /\ pc[r] = "log_prob" => phase = "log_prob"
  /\ pc[r] \in {"update", "step"} => phase = "update"

EInv == \A r \in Ranks : TrainedAt(r) /\ PhaseAt(r)

(* Before the first piece of a mini-batch nothing of it is done. *)
LEMMA NothingDone ==
  ASSUME NEW r \in Ranks
  PROVE  Done(ChunkOf(r), Mini, 0) = {}
BY ChunkNonempty, Sizes, DoneNext

(* No rank has trained on anything at the start. *)
LEMMA InitEInv == Init => EInv
<1> SUFFICES ASSUME Init, NEW r \in Ranks PROVE TrainedAt(r) /\ PhaseAt(r)
  BY DEF EInv
<1>1. at[r].ep = 0 /\ at[r].mini = 0 /\ phase = "generate" /\ pc[r] = "idle"
  BY DEF Init, Start
<1>2. \A i \in Rows : trained[r][i] = 0
  BY DEF Init, NoGrad
<1> QED
  BY <1>1, <1>2, NothingDone DEF TrainedAt, PhaseAt

(* A step of the optimizer adds the mini-batch, which completes the chunk  *)
(* if it is the last.                                                      *)
LEMMA StepTrains ==
  ASSUME IInv, EInv, NEW r \in Ranks, OptimizerStep(r)
  PROVE  TrainedAt(r)' /\ PhaseAt(r)'
<1> DEFINE c == ChunkOf(r)
           m == at[r].mini
           e == at[r].ep
<1>1. /\ pc[r] = "step" /\ phase = "update" /\ phase' = phase
      /\ at'[r] = NextMini(r)
      /\ pc'[r] = IF NextMini(r).ep < PpoEpochs THEN "update" ELSE "idle"
      /\ trained'[r] = [i \in Rows |-> trained[r][i] + grad[r][i]]
  BY DEF OptimizerStep, IInv, TypeOK, EInv, PhaseAt
<1>2. m \in Nat /\ e \in 0 .. PpoEpochs /\ e < PpoEpochs /\ m < Pieces(c, Mini)
  BY <1>1 DEF IInv, TypeOK, Located, LocatedAt
<1>3. c \in Nonempty /\ Mini \in Nat \ {0} /\ PpoEpochs \in Nat /\ Pieces(c, Mini) \in Nat
  BY ChunkNonempty, PiecesPositive, Sizes
<1>4. \A i \in Rows : grad[r][i] = IF i \in RowsIn(MiniBatch(r, m)) THEN 1 ELSE 0
  BY <1>1, GradientNow DEF GradientIsMiniBatch
<1>5. /\ Done(c, Mini, 0) = {}
      /\ Done(c, Mini, m + 1) = Done(c, Mini, m) \cup RowsIn(MiniBatch(r, m))
      /\ Done(c, Mini, m) \cap RowsIn(MiniBatch(r, m)) = {}
      /\ Done(c, Mini, m + 1) \subseteq RowsIn(c)
  BY <1>2, <1>3, DoneNext DEF MiniBatch, Done
<1>6. \A i \in Rows :
        trained'[r][i] = IF i \notin RowsIn(c) THEN 0
                         ELSE IF i \in Done(c, Mini, m + 1) THEN e + 1 ELSE e
  <2> SUFFICES ASSUME NEW i \in Rows
               PROVE  trained'[r][i] = IF i \notin RowsIn(c) THEN 0
                                       ELSE IF i \in Done(c, Mini, m + 1) THEN e + 1 ELSE e
    OBVIOUS
  <2>1. trained'[r][i] = trained[r][i] + grad[r][i]
    BY <1>1
  <2>2. trained[r][i] = IF i \notin RowsIn(c) THEN 0
                        ELSE IF i \in Done(c, Mini, m) THEN e + 1 ELSE e
    BY DEF EInv, TrainedAt
  <2> HIDE DEF c, m, e
  <2>3. CASE i \in RowsIn(MiniBatch(r, m))
    BY <1>2, <1>4, <1>5, <2>1, <2>2, <2>3
  <2>4. CASE i \notin RowsIn(MiniBatch(r, m))
    BY <1>2, <1>4, <1>5, <2>1, <2>2, <2>4
  <2> QED
    BY <2>3, <2>4
<1>7. CASE m + 1 = Pieces(c, Mini)
  <2>1. at'[r].ep = e + 1 /\ at'[r].mini = 0
    BY <1>1, <1>7 DEF NextMini
  <2>2. Done(c, Mini, m + 1) = RowsIn(c)
    BY <1>3, <1>7, DoneAll
  <2>3. TrainedAt(r)'
    BY <1>5, <1>6, <2>1, <2>2 DEF TrainedAt
  <2> QED
    BY <1>1, <1>2, <1>3, <1>7, <2>1, <2>3 DEF PhaseAt, NextMini
<1>8. CASE m + 1 # Pieces(c, Mini)
  <2>1. at'[r].ep = e /\ at'[r].mini = m + 1 /\ pc'[r] = "update"
    BY <1>1, <1>2, <1>8 DEF NextMini
  <2>2. TrainedAt(r)'
    BY <1>6, <2>1 DEF TrainedAt
  <2> QED
    BY <1>1, <2>1, <2>2 DEF PhaseAt
<1> QED
  BY <1>7, <1>8

(* Every step keeps the count of the epochs each row was trained in. *)
LEMMA StepsKeepEInv ==
  ASSUME IInv, EInv, [Next]_vars
  PROVE  EInv'
<1> USE DEF EInv
<1>1. CASE Generate
  <2> SUFFICES ASSUME NEW r \in Ranks PROVE TrainedAt(r)' /\ PhaseAt(r)'
    OBVIOUS
  <2> QED
    BY <1>1 DEF Generate, TrainedAt, PhaseAt
<1>2. CASE DispatchUpdate
  <2> SUFFICES ASSUME NEW r \in Ranks PROVE TrainedAt(r)' /\ PhaseAt(r)'
    OBVIOUS
  <2>1. at[r].ep = 0 /\ at[r].mini = 0 /\ at'[r].ep = 0 /\ at'[r].mini = 0 /\ pc'[r] = "update"
        /\ trained'[r] = trained[r] /\ phase' = "update"
    BY <1>2 DEF DispatchUpdate, PhaseAt, Start
  <2> QED
    BY <2>1 DEF TrainedAt, PhaseAt
<1>3. CASE Finish \/ UNCHANGED vars
  BY <1>3 DEF Finish, vars, TrainedAt, PhaseAt
<1>4. ASSUME NEW r \in Ranks, Worker(r)
      PROVE  EInv'
  <2> SUFFICES ASSUME NEW q \in Ranks PROVE TrainedAt(q)' /\ PhaseAt(q)'
    OBVIOUS
  <2>1. CASE q # r
    <3>1. pc'[q] = pc[q] /\ at'[q] = at[q] /\ trained'[q] = trained[q] /\ phase' = phase
      BY <1>4, <2>1 DEF Worker, Enter, ComputeLogProb, UpdateMicroBatch, OptimizerStep,
                        IInv, TypeOK
    <3> QED
      BY <3>1 DEF TrainedAt, PhaseAt
  <2>2. CASE q = r /\ ~OptimizerStep(r)
    <3>1. at'[r].ep = at[r].ep /\ at'[r].mini = at[r].mini /\ trained'[r] = trained[r]
          /\ phase' = phase
      BY <1>4, <2>2 DEF Worker, Enter, ComputeLogProb, UpdateMicroBatch, IInv, TypeOK
    <3>2. \/ pc'[r] = pc[r]
          \/ pc[r] = "log_prob" /\ pc'[r] = "idle"
          \/ pc[r] = "update" /\ pc'[r] = "step"
      BY <1>4, <2>2 DEF Worker, Enter, ComputeLogProb, UpdateMicroBatch, IInv, TypeOK
    <3> QED
      BY <2>2, <3>1, <3>2 DEF TrainedAt, PhaseAt
  <2>3. CASE q = r /\ OptimizerStep(r)
    BY <2>3, StepTrains
  <2> QED
    BY <2>1, <2>2, <2>3
<1> QED
  BY <1>1, <1>2, <1>3, <1>4 DEF Next

(* The chunks of the ranks are the batch, each row in one of them.         *)
LEMMA OneChunk ==
  ASSUME NEW i \in Rows
  PROVE  \E r \in Ranks : i \in RowsIn(ChunkOf(r)) /\ \A q \in Ranks \ {r} : i \notin RowsIn(ChunkOf(q))
<1> DEFINE r == i \div Chunk
<1>1. i \in Nat /\ i < DP * Chunk /\ Chunk \in Nat \ {0} /\ DP \in Nat \ {0} /\ Ranks = 0 .. DP - 1
  BY Sizes DEF Rows
<1>2. r \in Nat /\ Chunk * r <= i /\ i < Chunk * r + Chunk
  BY <1>1, DivBounds
<1> HIDE DEF r
<1>3. \A q \in Nat : q * Chunk = Chunk * q /\ (q + 1) * Chunk = Chunk * q + Chunk /\ Chunk * q \in Nat
  BY <1>1
<1>4. r < DP
  <2>1. DP <= r => DP * Chunk <= r * Chunk
    BY <1>1, <1>2, <1>3, MulMono
  <2> QED
    BY <1>1, <1>2, <1>3, <2>1
<1>5. \A q \in Ranks : i \in RowsIn(ChunkOf(q)) <=> Chunk * q <= i /\ i < Chunk * q + Chunk
  BY <1>1, <1>3 DEF ChunkOf, RowsIn, Slice
<1>6. ASSUME NEW q \in Ranks, q # r
      PROVE  ~(Chunk * q <= i /\ i < Chunk * q + Chunk)
  <2>1. q < r => Chunk * q + Chunk <= Chunk * r
    BY <1>1, <1>2, <1>3, MulMono
  <2>2. r < q => Chunk * r + Chunk <= Chunk * q
    BY <1>1, <1>2, <1>3, MulMono
  <2>3. q \in Nat /\ Chunk * q \in Nat /\ Chunk * r \in Nat
    BY <1>1, <1>2, <1>3
  <2> QED
    BY <1>1, <1>2, <1>6, <2>1, <2>2, <2>3
<1>7. r \in Ranks
  BY <1>1, <1>2, <1>4
<1> QED
  BY <1>2, <1>5, <1>6, <1>7

(***************************************************************************)
(* The loops over epochs, mini-batches and micro-batches, on all ranks     *)
(* together, train on every row of the batch once per epoch: no rest of a  *)
(* chunk is forgotten and no row belongs to two ranks.                     *)
(***************************************************************************)
THEOREM EveryRowTrained == Spec => []EveryRowEveryEpoch
<1>1. Init => IInv /\ EInv
  BY InitIInv, InitEInv
<1>2. IInv /\ EInv /\ [Next]_vars => IInv' /\ EInv'
  BY NextIInv, StepsKeepEInv
<1>3. ASSUME IInv, EInv PROVE EveryRowEveryEpoch
  <2> SUFFICES ASSUME phase = "done", NEW i \in Rows
               PROVE  \E r \in Ranks : /\ trained[r][i] = PpoEpochs
                                       /\ \A q \in Ranks \ {r} : trained[q][i] = 0
    BY DEF EveryRowEveryEpoch
  <2>1. PICK r \in Ranks : /\ i \in RowsIn(ChunkOf(r))
                           /\ \A q \in Ranks \ {r} : i \notin RowsIn(ChunkOf(q))
    BY OneChunk
  <2>2. pc[r] = "idle"
    BY <1>3 DEF IInv, TypeOK, EInv, PhaseAt
  <2>3. at[r].ep = PpoEpochs /\ at[r].mini = 0
    BY <1>3, <2>2 DEF EInv, PhaseAt
  <2>4. trained[r][i] = PpoEpochs
    BY <1>3, <2>1, <2>3, NothingDone DEF EInv, TrainedAt
  <2>5. \A q \in Ranks \ {r} : trained[q][i] = 0
    BY <1>3, <2>1 DEF EInv, TrainedAt
  <2> QED
    BY <2>4, <2>5
<1> QED
  BY <1>1, <1>2, <1>3, PTL DEF Spec

-----------------------------------------------------------------------------
(* The replicas.                                                           *)

(* Where a collective takes a rank, by where the rank is and the norms.    *)
NextPc(r) ==
  IF pc[r] = "log_prob"
  THEN IF at[r].micro + 1 = Pieces(ChunkOf(r), LogProbMicroBatch) THEN "idle" ELSE "log_prob"
  ELSE IF pc[r] = "update"
  THEN IF at[r].micro + 1 = Pieces(MiniBatch(r, at[r].mini), MicroBatch) THEN "step" ELSE "update"
  ELSE IF NextMini(r).ep < PpoEpochs THEN "update" ELSE "idle"

NextAt(r) == IF pc[r] = "step" THEN NextMini(r)
             ELSE [ep |-> at[r].ep, mini |-> at[r].mini, micro |-> at[r].micro + 1]

NextParams(r) ==
  IF pc[r] = "step" /\ norms[count[r] + 1]
  THEN Append(params[r], [ep |-> at[r].ep, mini |-> at[r].mini]) ELSE params[r]

(* Ranks that have run the same collectives are at the same place; one     *)
(* that has run one more is a step ahead, and waits there.                 *)
Alike(q, r) ==
  count[q] = count[r] => pc[q] = pc[r] /\ at[q] = at[r] /\ params[q] = params[r]

Ahead(q, r) ==
  count[q] = count[r] + 1 =>
    /\ joined[r] /\ pc[r] # "idle"
    /\ pc[q] = NextPc(r) /\ at[q] = NextAt(r) /\ params[q] = NextParams(r)
    /\ pc[r] = "step" => count[q] \in DOMAIN norms

RInv == \A q, r \in Ranks : count[q] <= count[r] + 1 /\ Alike(q, r) /\ Ahead(q, r)

(* The loops of all ranks have the same lengths.                           *)
LEMMA SameLoops ==
  ASSUME NEW q \in Ranks, NEW r \in Ranks
  PROVE  /\ \A size : Pieces(ChunkOf(q), size) = Pieces(ChunkOf(r), size)
         /\ \A m \in Nat : Pieces(MiniBatch(q, m), MicroBatch) = Pieces(MiniBatch(r, m), MicroBatch)
<1>1. \A x \in Ranks : /\ ChunkOf(x).lo \in Nat
                       /\ ChunkOf(x).hi = ChunkOf(x).lo + Chunk
  <2> SUFFICES ASSUME NEW x \in Ranks
               PROVE  ChunkOf(x).lo \in Nat /\ ChunkOf(x).hi = ChunkOf(x).lo + Chunk
    OBVIOUS
  <2>1. x \in Nat /\ Chunk \in Nat
    BY Sizes
  <2>2. x * Chunk \in Nat /\ (x + 1) * Chunk = x * Chunk + Chunk
    BY <2>1
  <2> QED
    BY <2>2 DEF ChunkOf, Slice
<1>2. \A x \in Ranks : ChunkOf(x).hi - ChunkOf(x).lo = Chunk
  BY <1>1, Sizes
<1>3. \A x \in Ranks : \A m \in Nat :
        MiniBatch(x, m).hi - MiniBatch(x, m).lo = Smaller(Mini, Chunk - m * Mini)
  <2> SUFFICES ASSUME NEW x \in Ranks, NEW m \in Nat
               PROVE  MiniBatch(x, m).hi - MiniBatch(x, m).lo = Smaller(Mini, Chunk - m * Mini)
    OBVIOUS
  <2> DEFINE lo == ChunkOf(x).lo
             done == m * Mini
  <2>1. Mini \in Nat /\ Chunk \in Nat /\ lo \in Nat
    BY <1>1, Sizes
  <2>2. done \in Nat /\ (m + 1) * Mini = done + Mini
    BY <2>1
  <2>3. /\ MiniBatch(x, m).lo = lo + done
        /\ MiniBatch(x, m).hi = Smaller(lo + (done + Mini), lo + Chunk)
    BY <1>1, <2>2 DEF MiniBatch, Piece, Slice
  <2> HIDE DEF lo, done
  <2>4. Smaller(lo + (done + Mini), lo + Chunk) - (lo + done) = Smaller(Mini, Chunk - done)
    BY <2>1, <2>2 DEF Smaller
  <2> QED
    BY <2>3, <2>4 DEF done
<1> QED
  BY <1>2, <1>3 DEF Pieces

(* Ranks at the same place of their loops go to the same place. *)
LEMMA SameNext ==
  ASSUME IInv, NEW q \in Ranks, NEW r \in Ranks, pc[q] = pc[r], at[q] = at[r]
  PROVE  NextPc(q) = NextPc(r) /\ NextAt(q) = NextAt(r)
<1>1. at[r].mini \in Nat
  BY DEF IInv, TypeOK
<1>2. NextMini(q) = NextMini(r)
  BY SameLoops DEF NextMini
<1> QED
  BY <1>1, <1>2, SameLoops DEF NextPc, NextAt

(* What the three bodies of the loops have in common.                      *)
Advance(r) ==
  /\ Complete(r) /\ pc[r] # "idle"
  /\ pc' = [pc EXCEPT ![r] = NextPc(r)]
  /\ at' = [at EXCEPT ![r] = NextAt(r)]
  /\ params' = [params EXCEPT ![r] =
        IF pc[r] = "step" /\ norms'[count[r] + 1]
        THEN Append(params[r], [ep |-> at[r].ep, mini |-> at[r].mini]) ELSE params[r]]
  /\ pc[r] = "step" => count[r] + 1 \in DOMAIN norms'
  /\ \A c \in DOMAIN norms : c \in DOMAIN norms' /\ norms'[c] = norms[c]

(* Every loop body that is a collective joins it and advances its own rank
   alone. *)
LEMMA BodiesAdvance ==
  ASSUME IInv, NEW r \in Ranks, ComputeLogProb(r) \/ UpdateMicroBatch(r) \/ OptimizerStep(r)
  PROVE  Advance(r)
<1>1. at[r] = [ep |-> at[r].ep, mini |-> at[r].mini, micro |-> at[r].micro]
      /\ at[r] \in [ep : 0 .. PpoEpochs, mini : Nat, micro : Nat]
  BY DEF IInv, TypeOK
<1>2. params = [params EXCEPT ![r] = params[r]]
  BY DEF IInv, TypeOK
<1>3. CASE ComputeLogProb(r) \/ UpdateMicroBatch(r)
  <2>1. pc[r] \in {"log_prob", "update"} /\ Complete(r) /\ UNCHANGED <<norms, params>>
    BY <1>3 DEF ComputeLogProb, UpdateMicroBatch
  <2>2. pc' = [pc EXCEPT ![r] = NextPc(r)]
    BY <1>3 DEF ComputeLogProb, UpdateMicroBatch, NextPc
  <2>3. at' = [at EXCEPT ![r].micro = at[r].micro + 1]
    BY <1>3 DEF ComputeLogProb, UpdateMicroBatch
  <2>4. at' = [at EXCEPT ![r] = NextAt(r)]
    <3>1. [at[r] EXCEPT !.micro = at[r].micro + 1]
            = [ep |-> at[r].ep, mini |-> at[r].mini, micro |-> at[r].micro + 1]
      BY <1>1
    <3>2. pc[r] # "step"
      BY <2>1
    <3> QED
      BY <2>3, <3>1, <3>2, Zenon DEF NextAt
  <2> QED
    BY <1>2, <2>1, <2>2, <2>4 DEF Advance
<1>4. CASE OptimizerStep(r)
  <2>1. pc[r] = "step" /\ Complete(r) /\ at' = [at EXCEPT ![r] = NextAt(r)]
        /\ pc' = [pc EXCEPT ![r] = NextPc(r)]
    BY <1>4 DEF OptimizerStep, NextAt, NextPc
  <2>2. PICK finite \in GradNorm(r) :
          /\ norms' = [c \in {count[r] + 1} \cup DOMAIN norms |->
                        IF c = count[r] + 1 THEN finite ELSE norms[c]]
          /\ params' = [params EXCEPT ![r] =
               IF finite THEN Append(@, [ep |-> at[r].ep, mini |-> at[r].mini]) ELSE @]
    BY <1>4 DEF OptimizerStep
  <2>3. /\ DOMAIN norms' = {count[r] + 1} \cup DOMAIN norms
        /\ norms'[count[r] + 1] = finite
        /\ \A c \in DOMAIN norms : c # count[r] + 1 => norms'[c] = norms[c]
    BY <2>2
  <2>4. count[r] + 1 \in DOMAIN norms => norms[count[r] + 1] = finite
    BY <2>2 DEF GradNorm
  <2>5. params' = [params EXCEPT ![r] =
          IF norms'[count[r] + 1]
          THEN Append(params[r], [ep |-> at[r].ep, mini |-> at[r].mini]) ELSE params[r]]
    BY <2>2, <2>3
  <2> QED
    BY <2>1, <2>3, <2>4, <2>5 DEF Advance
<1> QED
  BY <1>3, <1>4

(* A rank that leaves a collective keeps the ranks alike: those as far as it
   is are where it is. *)
LEMMA AdvanceKeeps ==
  ASSUME IInv, RInv, NEW r \in Ranks, Advance(r)
  PROVE  RInv'
<1> DEFINE n == count[r]
<1>1. /\ \A q \in Ranks : count[q] \in Nat
      /\ joined[r] /\ n \in Nat
      /\ \A q \in Ranks : Entered(q) > n
      /\ count'[r] = n + 1 /\ joined'[r] = FALSE
      /\ \A q \in Ranks \ {r} : count'[q] = count[q] /\ joined'[q] = joined[q]
                               /\ pc'[q] = pc[q] /\ at'[q] = at[q] /\ params'[q] = params[q]
      /\ pc'[r] = NextPc(r) /\ at'[r] = NextAt(r)
      /\ params'[r] = IF pc[r] = "step" /\ norms'[n + 1]
           THEN Append(params[r], [ep |-> at[r].ep, mini |-> at[r].mini]) ELSE params[r]
  BY DEF Advance, Complete, IInv, TypeOK
<1>2. /\ pc[r] # "idle"
      /\ pc[r] = "step" => n + 1 \in DOMAIN norms'
      /\ \A c \in DOMAIN norms : c \in DOMAIN norms' /\ norms'[c] = norms[c]
  BY DEF Advance
<1> HIDE DEF n
<1>3. \A q \in Ranks \ {r} : \/ count[q] = n /\ joined[q]
                             \/ count[q] = n + 1
  <2> SUFFICES ASSUME NEW q \in Ranks \ {r}
               PROVE  (count[q] = n /\ joined[q]) \/ count[q] = n + 1
    OBVIOUS
  <2>1. count[q] <= n + 1 /\ n <= count[q] + 1
    BY DEF RInv, n
  <2>2. Entered(q) > n
    BY <1>1
  <2> QED
    BY <1>1, <2>1, <2>2 DEF Entered
<1>4. ASSUME NEW q \in Ranks \ {r}, count[q] = n + 1
      PROVE  Alike(q, r)' /\ Alike(r, q)'
  <2>1. pc[q] = NextPc(r) /\ at[q] = NextAt(r) /\ params[q] = NextParams(r)
        /\ (pc[r] = "step" => n + 1 \in DOMAIN norms)
    BY <1>4 DEF RInv, Ahead, n
  <2>2. params'[r] = NextParams(r)
    BY <1>1, <1>2, <2>1 DEF NextParams, n
  <2> QED
    BY <1>1, <2>1, <2>2 DEF Alike
<1>5. ASSUME NEW q \in Ranks \ {r}, count[q] = n, joined[q]
      PROVE  Ahead(r, q)'
  <2>1. pc[q] = pc[r] /\ at[q] = at[r] /\ params[q] = params[r]
    BY <1>5 DEF RInv, Alike, n
  <2>2. NextPc(q) = NextPc(r) /\ NextAt(q) = NextAt(r)
    BY <2>1, SameNext
  <2>3. NextPc(q)' = NextPc(q) /\ NextAt(q)' = NextAt(q)
    BY <1>1 DEF NextPc, NextAt, NextMini
  <2>4. NextParams(q)' = params'[r]
    BY <1>1, <1>5, <2>1 DEF NextParams
  <2> QED
    BY <1>1, <1>2, <1>5, <2>1, <2>2, <2>3, <2>4 DEF Ahead
<1>6. ASSUME NEW q \in Ranks \ {r}, NEW x \in Ranks \ {r}
      PROVE  Alike(q, x)' /\ Ahead(q, x)'
  <2>1. Alike(q, x)'
    BY <1>1 DEF RInv, Alike
  <2>2. ASSUME count[q] = count[x] + 1
        PROVE  Ahead(q, x)'
    <3>1. NextPc(x)' = NextPc(x) /\ NextAt(x)' = NextAt(x)
      BY <1>1 DEF NextPc, NextAt, NextMini
    <3>2. pc[x] = "step" => count[q] \in DOMAIN norms
      BY <2>2 DEF RInv, Ahead
    <3>3. NextParams(x)' = NextParams(x)
      BY <1>1, <1>2, <2>2, <3>2 DEF NextParams
    <3> QED
      BY <1>1, <1>2, <2>2, <3>1, <3>2, <3>3 DEF RInv, Ahead
  <2>3. count[q] # count[x] + 1 => Ahead(q, x)'
    BY <1>1 DEF Ahead
  <2> QED
    BY <2>1, <2>2, <2>3
<1>7. ASSUME NEW q \in Ranks, NEW x \in Ranks
      PROVE  (count[q] <= count[x] + 1 /\ Alike(q, x) /\ Ahead(q, x))'
  <2>1. (count[q] <= count[x] + 1)'
    BY <1>1, <1>3, <1>7
  <2>2. Alike(q, x)'
    BY <1>1, <1>3, <1>4, <1>6 DEF Alike
  <2>3. Ahead(q, x)'
    <3>1. CASE x = r
      <4>1. count'[q] # count'[x] + 1
        BY <1>1, <1>3, <3>1
      <4> QED
        BY <4>1 DEF Ahead
    <3>2. CASE x # r /\ q = r /\ count[x] = n
      <4>1. joined[x]
        BY <1>1, <1>3, <3>2
      <4> QED
        BY <1>5, <3>2, <4>1
    <3>3. CASE x # r /\ q = r /\ count[x] # n
      <4>1. count'[q] # count'[x] + 1
        BY <1>1, <1>3, <3>3
      <4> QED
        BY <4>1 DEF Ahead
    <3>4. CASE x # r /\ q # r
      BY <1>6, <3>4
    <3> QED
      BY <3>1, <3>2, <3>3, <3>4
  <2> QED
    BY <2>1, <2>2, <2>3
<1> QED
  BY <1>7 DEF RInv

(* Idle ranks have all run the same collectives. *)
LEMMA IdleAgree ==
  ASSUME IInv, RInv, \A r \in Ranks : pc[r] = "idle"
  PROVE  \A q, r \in Ranks : count[q] = count[r] /\ params[q] = params[r] /\ at[q] = at[r]
<1> SUFFICES ASSUME NEW q \in Ranks, NEW r \in Ranks
             PROVE  count[q] = count[r] /\ params[q] = params[r] /\ at[q] = at[r]
  OBVIOUS
<1>1. count[q] \in Nat /\ count[r] \in Nat
  BY DEF IInv, TypeOK
<1>2. count[q] # count[r] + 1 /\ count[r] # count[q] + 1
  BY DEF RInv, Ahead
<1>3. count[q] = count[r]
  BY <1>1, <1>2 DEF RInv
<1> QED
  BY <1>3 DEF RInv, Alike

(* Every step keeps the ranks alike. *)
LEMMA StepsKeepRInv ==
  ASSUME IInv, RInv, [Next]_vars
  PROVE  RInv'
<1>1. CASE Generate \/ DispatchUpdate
  <2>1. \A r \in Ranks : pc[r] = "idle"
    BY <1>1 DEF Generate, DispatchUpdate, IInv, Located, LocatedAt
  <2>2. UNCHANGED <<count, params>> /\ \A q, r \in Ranks : pc'[q] = pc'[r]
    BY <1>1 DEF Generate, DispatchUpdate
  <2>3. \A q, r \in Ranks : at[q] = at[r] => at'[q] = at'[r]
    BY <1>1 DEF Generate, DispatchUpdate
  <2>4. \A q \in Ranks : count[q] \in Nat
    BY DEF IInv, TypeOK
  <2> QED
    BY <2>1, <2>2, <2>3, <2>4, IdleAgree DEF RInv, Alike, Ahead
<1>2. CASE \/ Finish \/ UNCHANGED vars \/ \E r \in Ranks : Enter(r)
  <2>1. UNCHANGED <<pc, at, count, params, norms>>
        /\ \A r \in Ranks : joined[r] => joined'[r]
    BY <1>2 DEF Finish, vars, Enter, IInv, TypeOK
  <2> QED
    BY <2>1 DEF RInv, Alike, Ahead, NextPc, NextAt, NextParams, NextMini
<1>3. ASSUME NEW r \in Ranks, ComputeLogProb(r) \/ UpdateMicroBatch(r) \/ OptimizerStep(r)
      PROVE  RInv'
  BY <1>3, BodiesAdvance, AdvanceKeeps
<1> QED
  BY <1>1, <1>2, <1>3 DEF Next, Worker

(***************************************************************************)
(* Replicas that have been through as many collectives have applied the    *)
(* gradients of the same mini-batches in the same order, whatever norms    *)
(* were not finite and whoever learned of it first.                        *)
(***************************************************************************)
THEOREM ReplicasStayEqual == Spec => []ReplicasAgree
<1>1. Init => IInv /\ RInv
  <2> SUFFICES ASSUME Init PROVE RInv
    BY InitIInv
  <2> QED
    BY DEF Init, RInv, Alike, Ahead
<1>2. IInv /\ RInv /\ [Next]_vars => IInv' /\ RInv'
  BY NextIInv, StepsKeepRInv
<1>3. RInv => ReplicasAgree
  BY DEF RInv, Alike, ReplicasAgree
<1> QED
  BY <1>1, <1>2, <1>3, PTL DEF Spec
=============================================================================
