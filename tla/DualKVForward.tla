--------------------------- MODULE DualKVForward ----------------------------
(***************************************************************************)
(* The forward kernel, for one head: a thread block (CTA) per block of     *)
(* queries of each sequence goes backwards over the blocks of K and V the  *)
(* queries may attend to and accumulates their output.  A grid has as many *)
(* query blocks as the longest sequence needs; CTAs run in any order.      *)
(***************************************************************************)
EXTENDS DualKVTiles

VARIABLES
  launch,   \* the parameters of the launch
  pc,       \* per CTA: "start", "loop", "exit"
  nblk,     \* per CTA: n_block
  acc,      \* per CTA and query of its block: the keys in acc_o
  o         \* by row of the output: {} or the set of the value written to it

vars == <<launch, pc, nblk, acc, o>>

GridMBug(L) == L.maxQ \div BlockM
GridM(L) == CeilDiv(L.maxQ, BlockM)
CTAs(L) == [m : 0 .. GridM(L) - 1, b : Batch(L)]
Lanes == 0 .. BlockM - 1

(* How many blocks of K the queries of block m may attend to. *)
NBlockMaxBug(L, b, m) ==
  IF L.causal
  THEN MinOf(CtxBlocks(L) + DecBlocks(L, b),
             CeilDiv(KLen(L, b) - QLen(L, b) + (m + 1) * BlockM, BlockN))
  ELSE CtxBlocks(L) + DecBlocks(L, b)
NBlockMax(L, b, m) ==
  LET all    == CtxBlocks(L) + DecBlocks(L, b)
      needed == KLen(L, b) - QLen(L, b) + (m + 1) * BlockM   \* causal_k_needed
      causal == IF needed <= L.ctx THEN CeilDiv(needed, BlockN)
                ELSE CtxBlocks(L) + CeilDiv(needed - L.ctx, BlockN)
  IN  IF L.causal THEN MinOf(all, causal) ELSE all

Nothing == [i \in Lanes |-> NoKeys(launch)]

Init ==
  /\ launch \in Launches
  /\ pc = [c \in CTAs(launch) |-> "start"]
  /\ nblk = [c \in CTAs(launch) |-> 0]
  /\ acc = [c \in CTAs(launch) |-> Nothing]
  /\ o = [r \in QRows(launch) |-> {}]

(* Lane i of a CTA holds query m * BlockM + i of its sequence. *)
Query(c, i) == c.m * BlockM + i

(* The copy of a tile of the output drops what is behind the sequence. *)
Stores(c, i) == Query(c, i) < QLen(launch, c.b)

Written(c, tile) ==
  [r \in QRows(launch) |->
     IF \E i \in Lanes : Stores(c, i) /\ r = launch.cuQ[c.b] + Query(c, i)
     THEN {tile[r - launch.cuQ[c.b] - c.m * BlockM]} ELSE o[r]]

(* Nothing to do: the block of queries is behind the end of the sequence. *)
Return(c) ==
  /\ pc[c] = "start"
  /\ c.m * BlockM >= QLen(launch, c.b)
  /\ pc' = [pc EXCEPT ![c] = "exit"]
  /\ UNCHANGED <<launch, nblk, acc, o>>

(* No key to attend to: the CTA writes zeros. *)
EarlyExit(c) ==
  /\ pc[c] = "start"
  /\ c.m * BlockM < QLen(launch, c.b)
  /\ NBlockMax(launch, c.b, c.m) <= 0
  /\ o' = Written(c, Nothing)
  /\ pc' = [pc EXCEPT ![c] = "exit"]
  /\ UNCHANGED <<launch, nblk, acc>>

Prologue(c) ==
  /\ pc[c] = "start"
  /\ c.m * BlockM < QLen(launch, c.b)
  /\ NBlockMax(launch, c.b, c.m) > 0
  /\ nblk' = [nblk EXCEPT ![c] = NBlockMax(launch, c.b, c.m) - 1]
  /\ pc' = [pc EXCEPT ![c] = "loop"]
  /\ UNCHANGED <<launch, acc, o>>

(* One iteration of the main loop: S = QK^T, the masks, O += PV. *)
Tile(c) ==
  /\ pc[c] = "loop"
  /\ nblk[c] >= 0
  /\ acc' = [acc EXCEPT ![c] = [i \in Lanes |->
       [row \in KRows(launch) |->
          acc[c][i][row] + TileKeys(launch, c.b, nblk[c], Query(c, i))[row]]]]
  /\ nblk' = [nblk EXCEPT ![c] = @ - 1]
  /\ UNCHANGED <<launch, pc, o>>

Epilogue(c) ==
  /\ pc[c] = "loop"
  /\ nblk[c] < 0
  /\ o' = Written(c, acc[c])
  /\ pc' = [pc EXCEPT ![c] = "exit"]
  /\ UNCHANGED <<launch, nblk, acc>>

CTA(c) == Return(c) \/ EarlyExit(c) \/ Prologue(c) \/ Tile(c) \/ Epilogue(c)

Next == \E c \in CTAs(launch) : CTA(c)

(* The device runs every CTA of the grid to its end. *)
Spec == Init /\ [][Next]_vars /\ WF_vars(Next)

-----------------------------------------------------------------------------
TypeOK ==
  /\ launch \in Launches
  /\ pc \in [CTAs(launch) -> {"start", "loop", "exit"}]
  /\ nblk \in [CTAs(launch) -> Int]
  /\ acc \in [CTAs(launch) -> [Lanes -> [KRows(launch) -> {0, 1}]]]
  /\ o \in [QRows(launch) -> SUBSET [KRows(launch) -> {0, 1}]]

(***************************************************************************)
(* Cutting the keys into tiles changes nothing: the kernel writes a row of *)
(* the output once, with each key its query attends to exactly once and no *)
(* other, in whatever order the CTAs run.                                  *)
(***************************************************************************)
Attention == INSTANCE DualKVAttention
ImplementsAttention == Attention!Spec

(* No row of the output stays as torch.empty_like made it. *)
AllWritten == <>(\A r \in QRows(launch) : o[r] # {})
=============================================================================
