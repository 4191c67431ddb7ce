---------------------------- MODULE DualKVLaunch ----------------------------
(***************************************************************************)
(* What a call of flash_attn_dualkv_varlen_func is given: the lengths of   *)
(* the sequences, and where their rows lie in the packed tensors.  Rows of *)
(* K (and V) are numbered through: first the context, shared by all the    *)
(* sequences, then the packed decoded rows.                                *)
(***************************************************************************)
EXTENDS Integers

CONSTANT Launches   \* the calls: see IsLaunch

(***************************************************************************)
(* batch sequences; ctx rows of context; cuQ and cuK are cu_seqlens_q and  *)
(* cu_seqlens_k_decoded, maxQ and maxK the maximal lengths.                *)
(***************************************************************************)
IsLaunch(L) ==
  /\ L.batch \in Nat /\ L.ctx \in Nat /\ L.causal \in BOOLEAN
  /\ L.maxQ \in Nat /\ L.maxK \in Nat
  /\ L.cuQ \in [0 .. L.batch -> Nat] /\ L.cuK \in [0 .. L.batch -> Nat]
  /\ L.cuQ[0] = 0 /\ L.cuK[0] = 0
  /\ \A b, c \in 0 .. L.batch :
       b <= c => L.cuQ[b] <= L.cuQ[c] /\ L.cuK[b] <= L.cuK[c]
  /\ \A b \in 0 .. L.batch - 1 : /\ L.cuQ[b + 1] - L.cuQ[b] <= L.maxQ
                                 /\ L.cuK[b + 1] - L.cuK[b] <= L.maxK

ASSUME LaunchesAssumption == \A L \in Launches : IsLaunch(L)

Batch(L)     == 0 .. L.batch - 1
QLen(L, b)   == L.cuQ[b + 1] - L.cuQ[b]      \* actual_seqlen_q
DecLen(L, b) == L.cuK[b + 1] - L.cuK[b]      \* actual_seqlen_k_decoded
KLen(L, b)   == L.ctx + DecLen(L, b)         \* actual_seqlen_k
QRows(L)     == 0 .. L.cuQ[L.batch] - 1
KRows(L)     == 0 .. L.ctx + L.cuK[L.batch] - 1

-----------------------------------------------------------------------------
(* Reference: attention on one sequence, whose keys are the context and    *)
(* then its own decoded rows.  "causal" is aligned to the bottom right.    *)

KeyRow(L, b, k) == IF k < L.ctx THEN k ELSE L.cuK[b] + k

Attends(L, b, i, k) == L.causal => k <= i + KLen(L, b) - QLen(L, b)

(* How often each row of K is in the output of query i of sequence b. *)
KeysOf(L, b, i) ==
  [row \in KRows(L) |->
     IF \E k \in 0 .. KLen(L, b) - 1 : Attends(L, b, i, k) /\ KeyRow(L, b, k) = row
     THEN 1 ELSE 0]

NoKeys(L) == [row \in KRows(L) |-> 0]
=============================================================================
