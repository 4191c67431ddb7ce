--------------------------- MODULE DualKVBackward ---------------------------
(***************************************************************************)
(* The backward pass of flash_attn_dualkv_varlen_func: four kernels, one   *)
(* after the other on a stream, and a sum over the heads that share a KV   *)
(* head.  In the main kernel a thread block (CTA) per block of K goes over *)
(* the blocks of queries that attend to it.  Many CTAs add to the same     *)
(* rows of dQ and, since the context is shared by all the sequences, of    *)
(* the gradient of the context; each decoded row belongs to one of them.   *)
(*                                                                         *)
(* A gradient is represented by how often each term is in it: dK of a row  *)
(* by the queries it came from, dQ of a query by the rows of K.  dV has    *)
(* the terms of dK.                                                        *)
(***************************************************************************)
EXTENDS DualKVForward

CONSTANTS
  RowPad,    \* 128: the rows dq_accum and softmax_d are padded by
  Backwards  \* the launches whose backward pass follows

ASSUME RowPadAssumption == RowPad \in Nat /\ BlockM <= RowPad

(* A launch also has "heads" query heads, "ratio" of them per KV head. *)
ASSUME HeadsAssumption ==
  /\ Backwards \subseteq Launches
  /\ \A L \in Launches : /\ L.heads \in Nat /\ L.ratio \in Nat \ {0}
                         /\ L.heads % L.ratio = 0

VARIABLES
  kernel,   \* the kernel that runs
  todo,     \* its CTAs that have not ended
  at,       \* per CTA of the main kernel: "next" or "loop", n_block, m_blk
  dk,       \* per CTA: acc_dk, by column of the block
  dpsum,    \* softmax_d, per head: the query whose D is there
  dqacc,    \* dq_accum, per head: {} if never written, or the set of the sum
  ctxacc,   \* dk_context_accum, per head and row of the context
  dec,      \* dk_decoded_expanded, per head and decoded row: {} or {terms}
  dq,       \* the gradient of Q
  dK        \* the gradient of K, per KV head and row

bwdVars == <<kernel, todo, at, dk, dpsum, dqacc, ctxacc, dec, dq, dK>>

Heads == 0 .. launch.heads - 1
Cols  == 0 .. BlockN - 1

PaddedRows == 0 .. launch.cuQ[launch.batch] + RowPad * launch.batch - 1
CtxRows == 0 .. launch.ctx - 1
DecRows == launch.ctx .. launch.ctx + launch.cuK[launch.batch] - 1

GridN(L) == CtxBlocks(L) + CeilDiv(L.maxK, BlockN)

Grid(L, k) ==
  CASE k = "dot_do_o" -> [m : 0 .. GridM(L) - 1, b : Batch(L), h : 0 .. L.heads - 1]
    [] k = "main" -> [n : 0 .. GridN(L) - 1, b : Batch(L), h : 0 .. L.heads - 1]
    [] OTHER -> {}

Uninitialized == -2   \* of softmax_d; -1 is the D of a row that is not there
NoQueries == [r \in QRows(launch) |-> 0]
EmptyTile == [j \in Cols |-> NoQueries]

BwdInit ==
  /\ kernel = "forward"
  /\ todo = {}
  /\ at = [c \in Grid(launch, "main") |-> [pc |-> "next", n |-> c.n, m |-> 0]]
  /\ dk = [c \in Grid(launch, "main") |-> EmptyTile]
  /\ dpsum = [h \in Heads |-> [r \in PaddedRows |-> Uninitialized]]
  /\ dqacc = [h \in Heads |-> [r \in PaddedRows |-> {}]]
  /\ ctxacc = [h \in Heads |-> [row \in CtxRows |-> NoQueries]]
  /\ dec = [h \in Heads |-> [row \in DecRows |-> {}]]
  /\ dq = <<>>
  /\ dK = <<>>

(* The next kernel on the stream starts when the one before has ended. *)
Launch(next) == /\ kernel' = next
                /\ todo' = Grid(launch, next)

End(c) == todo' = todo \ {c} /\ UNCHANGED kernel

(***************************************************************************)
(* The backward pass of a call starts once its forward pass has returned.  *)
(***************************************************************************)
Returned == \A c \in CTAs(launch) : pc[c] = "exit"

Backward ==
  /\ kernel = "forward" /\ Returned /\ launch \in Backwards
  /\ Launch("dot_do_o")
  /\ UNCHANGED <<vars, at, dk, dpsum, dqacc, ctxacc, dec, dq, dK>>

(***************************************************************************)
(* Query m * BlockM + i of sequence b: its row in dq_accum and softmax_d,  *)
(* where every sequence is followed by RowPad rows more, and in Q.         *)
(***************************************************************************)
QueryOf(m, i) == m * BlockM + i
QRow(b, m, i) == launch.cuQ[b] + QueryOf(m, i)
PaddedRowBug(b, m, i) == QRow(b, m, i)
PaddedRow(b, m, i) == QRow(b, m, i) + RowPad * b

-----------------------------------------------------------------------------
(* flash_bwd_dot_do_o_kernel: D of the queries of a block, zero behind the *)
(* end of the sequence, and zeros in the tile of dq_accum.                 *)
DotDoO(c) ==
  /\ kernel = "dot_do_o" /\ c \in todo
  /\ IF c.m * BlockM >= QLen(launch, c.b) THEN UNCHANGED <<dpsum, dqacc>>
     ELSE LET lane(r) == {i \in Lanes : PaddedRow(c.b, c.m, i) = r}
          IN  /\ dpsum' = [dpsum EXCEPT ![c.h] = [r \in PaddedRows |->
                   IF lane(r) = {} THEN @[r]
                   ELSE IF \E i \in lane(r) : QueryOf(c.m, i) < QLen(launch, c.b)
                        THEN launch.cuQ[c.b] + c.m * BlockM + (CHOOSE i \in lane(r) : TRUE)
                        ELSE -1]]
              /\ dqacc' = [dqacc EXCEPT ![c.h] = [r \in PaddedRows |->
                   IF lane(r) = {} THEN @[r] ELSE {NoKeys(launch)}]]
  /\ End(c)
  /\ UNCHANGED <<vars, at, dk, ctxacc, dec, dq, dK>>

StartMain ==
  /\ kernel = "dot_do_o" /\ todo = {}
  /\ Launch("main")
  /\ UNCHANGED <<vars, at, dk, dpsum, dqacc, ctxacc, dec, dq, dK>>

-----------------------------------------------------------------------------
(* The main kernel.                                                        *)

MBlockMax(L, b) == CeilDiv(QLen(L, b), BlockM)

(* The first query that may attend to block n of K is in block MBlockMin. *)
MBlockMin(L, b, n) ==
  LET first == KPos(L, n) + QLen(L, b) - KLen(L, b)
  IN  IF L.causal /\ first > 0 THEN first \div BlockM ELSE 0

(* The column of the block of CTA c that is row "row" of K and is stored. *)
Stored(c, row) ==
  {j \in Cols : j < ValidK(launch, c.b, at[c].n) /\ RowAt(launch, c.b, at[c].n, j) = row}

(* The rows of the block go to memory: plain stores for a decoded block. *)
StoreDecoded(c, tile) ==
  dec' = [dec EXCEPT ![c.h] = [row \in DecRows |->
            IF Stored(c, row) = {} THEN @[row]
            ELSE {tile[CHOOSE j \in Stored(c, row) : TRUE]}]]

(* atomicAdd: nothing of what other CTAs add is lost. *)
AtomicAddBug(old, new) == new
AtomicAdd(old, new) == [r \in DOMAIN old |-> old[r] + new[r]]

AddContext(c, tile) ==
  ctxacc' = [ctxacc EXCEPT ![c.h] = [row \in CtxRows |->
               IF Stored(c, row) = {} THEN @[row]
               ELSE AtomicAdd(@[row], tile[CHOOSE j \in Stored(c, row) : TRUE])]]

NextBlock(c) ==
  at' = [at EXCEPT ![c] = [pc |-> "next", n |-> @.n + GridN(launch), m |-> 0]]

(* The loop over n_block ends. *)
Exit(c) ==
  /\ kernel = "main" /\ c \in todo
  /\ at[c].pc = "next"
  /\ at[c].n >= CtxBlocks(launch) + DecBlocks(launch, c.b)
  /\ End(c)
  /\ UNCHANGED <<vars, at, dk, dpsum, dqacc, ctxacc, dec, dq, dK>>

(* A block no query attends to: zeros, which the context is already. *)
BwdEarlyExit(c) ==
  /\ kernel = "main" /\ c \in todo
  /\ at[c].pc = "next"
  /\ at[c].n < CtxBlocks(launch) + DecBlocks(launch, c.b)
  /\ MBlockMax(launch, c.b) <= MBlockMin(launch, c.b, at[c].n)
  /\ IF IsContext(launch, at[c].n) THEN UNCHANGED dec ELSE StoreDecoded(c, EmptyTile)
  /\ NextBlock(c)
  /\ UNCHANGED <<vars, kernel, todo, dk, dpsum, dqacc, ctxacc, dq, dK>>

BwdPrologue(c) ==
  /\ kernel = "main" /\ c \in todo
  /\ at[c].pc = "next"
  /\ at[c].n < CtxBlocks(launch) + DecBlocks(launch, c.b)
  /\ MBlockMax(launch, c.b) > MBlockMin(launch, c.b, at[c].n)
  /\ at' = [at EXCEPT ![c].pc = "loop", ![c].m = MBlockMax(launch, c.b) - 1]
  /\ dk' = [dk EXCEPT ![c] = EmptyTile]
  /\ UNCHANGED <<vars, kernel, todo, dpsum, dqacc, ctxacc, dec, dq, dK>>

(***************************************************************************)
(* P = exp(S - LSE) is zero behind the end of the sequence, where LSE is   *)
(* infinite.  dS = P * (dP - D) is the term of the query only with the     *)
(* query's own D, and another number (counted as two) with another.        *)
(***************************************************************************)
Term(c, i, j) ==
  LET m == at[c].m
  IN  IF QueryOf(m, i) >= QLen(launch, c.b) \/ ~Unmasked(launch, c.b, at[c].n, QueryOf(m, i), j)
      THEN 0
      ELSE IF dpsum[c.h][PaddedRow(c.b, m, i)] = QRow(c.b, m, i) THEN 1 ELSE 2

(* One block of queries: dQ += dS K, added atomically, and dK += dS^T Q. *)
QTile(c) ==
  LET m == at[c].m
      terms(i) == [row \in KRows(launch) |->
        IF \E j \in Cols : RowAt(launch, c.b, at[c].n, j) = row /\ Term(c, i, j) # 0
        THEN Term(c, i, CHOOSE j \in Cols : RowAt(launch, c.b, at[c].n, j) = row) ELSE 0]
  IN  /\ kernel = "main" /\ c \in todo
      /\ at[c].pc = "loop" /\ m >= MBlockMin(launch, c.b, at[c].n)
      /\ dqacc' = [dqacc EXCEPT ![c.h] = [r \in PaddedRows |->
           IF \E i \in Lanes : PaddedRow(c.b, m, i) = r
           THEN {AtomicAdd(v, terms(r - PaddedRow(c.b, m, 0))) : v \in @[r]} ELSE @[r]]]
      /\ dk' = [dk EXCEPT ![c] = [j \in Cols |-> [r \in QRows(launch) |->
           @[j][r] + (IF \E i \in Lanes : QRow(c.b, m, i) = r
                      THEN Term(c, r - QRow(c.b, m, 0), j) ELSE 0)]]]
      /\ at' = [at EXCEPT ![c].m = m - 1]
      /\ UNCHANGED <<vars, kernel, todo, dpsum, ctxacc, dec, dq, dK>>

BwdEpilogue(c) ==
  /\ kernel = "main" /\ c \in todo
  /\ at[c].pc = "loop" /\ at[c].m < MBlockMin(launch, c.b, at[c].n)
  /\ IF IsContext(launch, at[c].n) THEN AddContext(c, dk[c]) /\ UNCHANGED dec
                                   ELSE StoreDecoded(c, dk[c]) /\ UNCHANGED ctxacc
  /\ NextBlock(c)
  /\ UNCHANGED <<vars, kernel, todo, dk, dpsum, dqacc, dq, dK>>

-----------------------------------------------------------------------------
(* flash_bwd_convert_dq_kernel: its CTAs write rows of their own. *)
ConvertDQ ==
  /\ kernel = "main" /\ todo = {}
  /\ dq' = [h \in Heads |-> [r \in QRows(launch) |->
       LET b == CHOOSE b \in Batch(launch) : launch.cuQ[b] <= r /\ r < launch.cuQ[b + 1]
       IN  dqacc[h][r + RowPad * b]]]
  /\ Launch("convert_dq")
  /\ UNCHANGED <<vars, at, dk, dpsum, dqacc, ctxacc, dec, dK>>

(***************************************************************************)
(* flash_bwd_convert_dkv_context_kernel, and the sum over the query heads  *)
(* of a KV head (at::sum_out): a term is now a head and a query.           *)
(***************************************************************************)
Group(g) == {h \in Heads : h \div launch.ratio = g}

ConvertDKV ==
  LET terms(h, row) == IF row \in CtxRows THEN {ctxacc[h][row]} ELSE dec[h][row]
  IN  /\ kernel = "convert_dq"
      /\ dK' = [g \in 0 .. (launch.heads \div launch.ratio) - 1 |->
           [row \in KRows(launch) |-> UNION {{h} \X terms(h, row) : h \in Group(g)}]]
      /\ Launch("done")
      /\ UNCHANGED <<vars, at, dk, dpsum, dqacc, ctxacc, dec, dq>>

(* The stream is empty. *)
Idle == /\ Returned /\ (kernel = "done" \/ launch \notin Backwards)
        /\ UNCHANGED <<vars, bwdVars>>

MainCTA(c) == Exit(c) \/ BwdEarlyExit(c) \/ BwdPrologue(c) \/ QTile(c) \/ BwdEpilogue(c)

BwdNext == \/ Backward \/ StartMain \/ ConvertDQ \/ ConvertDKV \/ Idle
           \/ \E c \in Grid(launch, "dot_do_o") : DotDoO(c)
           \/ \E c \in Grid(launch, "main") : MainCTA(c)

(* The forward pass, and the backward pass after it. *)
AutogradInit == Init /\ BwdInit

AutogradSpec ==
  /\ AutogradInit
  /\ [][(Next /\ UNCHANGED bwdVars) \/ BwdNext]_<<vars, bwdVars>>
  /\ WF_vars(Next)

-----------------------------------------------------------------------------
(* Whether query row r attends to row "row" of K. *)
AttendsRow(r, row) ==
  \E b \in Batch(launch) : \E i \in 0 .. QLen(launch, b) - 1 :
    r = launch.cuQ[b] + i /\ KeysOf(launch, b, i)[row] = 1

(***************************************************************************)
(* In whatever order the CTAs run, no term is lost and none is counted     *)
(* twice: dQ of a query has each key it attends to, dK of a row each query *)
(* of each head of its group that attends to it, context rows those of all *)
(* the sequences, and no row is left as torch.empty made it.               *)
(***************************************************************************)
GradientExact ==
  kernel = "done" =>
    /\ \A h \in Heads : \A r \in QRows(launch) :
         dq[h][r] = {[row \in KRows(launch) |-> IF AttendsRow(r, row) THEN 1 ELSE 0]}
    /\ \A g \in DOMAIN dK : \A row \in KRows(launch) :
         dK[g][row] = {h \in Heads : h \div launch.ratio = g} \X
                        {[r \in QRows(launch) |-> IF AttendsRow(r, row) THEN 1 ELSE 0]}

(***************************************************************************)
(* D is read by CTAs of all the blocks of K: once it is there, no CTA that *)
(* handles the end of another sequence writes over it.                     *)
(***************************************************************************)
DStaysRight ==
  [][\A h \in Heads : \A r \in PaddedRows :
       dpsum[h][r] >= 0 => dpsum'[h][r] = dpsum[h][r]]_bwdVars
=============================================================================
