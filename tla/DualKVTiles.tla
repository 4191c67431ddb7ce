---------------------------- MODULE DualKVTiles -----------------------------
(***************************************************************************)
(* How the DualKV kernels cut a call into tiles.  K is cut into blocks of  *)
(* BlockN rows, the context and the decoded part of a sequence each for    *)
(* itself, so that the last block of either may be partly empty; Q is cut  *)
(* into blocks of BlockM rows.  i is a query of a sequence, j a column of  *)
(* a block n of its keys.                                                  *)
(***************************************************************************)
EXTENDS DualKVLaunch

CONSTANTS BlockM, BlockN   \* kBlockM, kBlockN

ASSUME BlocksAssumption == BlockM \in Nat \ {0} /\ BlockN \in Nat \ {0}

MinOf(a, b) == IF a <= b THEN a ELSE b

(* Below zero C++ rounds the other way, to what is at most zero as well. *)
CeilDiv(a, b) == (a + b - 1) \div b

CtxBlocks(L)    == CeilDiv(L.ctx, BlockN)
DecBlocks(L, b) == CeilDiv(DecLen(L, b), BlockN)
IsContext(L, n) == n < CtxBlocks(L)

(* get_k_pos: the position in the sequence of the first row of block n. *)
KPos(L, n) == IF IsContext(L, n) THEN n * BlockN
              ELSE L.ctx + (n - CtxBlocks(L)) * BlockN

(* get_valid_k: the rows of block n that are rows of the sequence. *)
ValidKBug(L, b, n) == BlockN
ValidK(L, b, n) ==
  IF IsContext(L, n) THEN MinOf(BlockN, L.ctx - n * BlockN)
  ELSE MinOf(BlockN, DecLen(L, b) - (n - CtxBlocks(L)) * BlockN)

(* get_k_ptr: the row of K that column j of block n points to. *)
RowAt(L, b, n, j) ==
  IF IsContext(L, n) THEN n * BlockN + j
  ELSE L.ctx + L.cuK[b] + (n - CtxBlocks(L)) * BlockN + j

(* Mask::apply_mask, apply_mask_causal: col_idx_limit_right. *)
ColLimit(L, b, i) ==
  MinOf(KLen(L, b),
        IF L.causal THEN i + 1 + KLen(L, b) - QLen(L, b) ELSE KLen(L, b))

(* The masks by position and by the rows of the block, together. *)
Unmasked(L, b, n, i, j) == KPos(L, n) + j < ColLimit(L, b, i) /\ j < ValidK(L, b, n)

(* The keys of block n that query i attends to, by row. *)
TileKeys(L, b, n, i) ==
  [row \in KRows(L) |->
     IF \E j \in 0 .. BlockN - 1 : Unmasked(L, b, n, i, j) /\ RowAt(L, b, n, j) = row
     THEN 1 ELSE 0]
=============================================================================
