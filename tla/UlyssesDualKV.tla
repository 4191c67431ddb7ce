--------------------------- MODULE UlyssesDualKV ----------------------------
(***************************************************************************)
(* Ulysses sequence parallelism around one attention layer of the actor,   *)
(* forward and backward, for the three paths of _forward_micro_batch: the  *)
(* standard one, the packed one ("dualkv") and the packed one with a fused *)
(* loss ("fused").  Each rank holds a slice of the tokens with all heads;  *)
(* all-to-alls turn it into all tokens with a slice of the heads and back. *)
(*                                                                         *)
(* Tensors are sequences of rows, one per token, of sequences of heads.    *)
(* Entries are symbolic: <<"q", t, h>> is the query of token t for head h, *)
(* an output names the query, keys and values it is computed from.         *)
(*                                                                         *)
(* All ranks run the same operations, and each but the local ones waits    *)
(* for all ranks: a step of the model is one operation on every rank.      *)
(***************************************************************************)
EXTENDS DualKVPack

CONSTANTS
  Jobs,        \* what may be run: [path, sp, heads, kv, rows]
  RespLength   \* the padded response length

Paths == {"standard", "dualkv", "fused"}
Packs(j) == j.path # "standard"

(* The asserts of apply_monkey_patch on the numbers of heads. *)
HeadAsserts(j) == /\ j.heads % j.sp = 0
                  /\ j.kv % j.sp = 0 \/ j.sp % j.kv = 0

(***************************************************************************)
(* A KV head serves as many query heads as any other; a micro-batch has    *)
(* rows, whose prompts are not empty; a packed one has rows of one prompt, *)
(* as DualKVActor shows.                                                   *)
(***************************************************************************)
ASSUME JobsAssumption ==
  /\ RespLength \in Nat
  /\ \A j \in Jobs :
       /\ j.path \in Paths /\ HeadAsserts(j)
       /\ j.sp \in Nat \ {0} /\ j.heads \in Nat \ {0} /\ j.kv \in Nat \ {0}
       /\ j.heads % j.kv = 0
       /\ Len(j.rows) \in Nat \ {0}
       /\ \A i \in 1 .. Len(j.rows) :
            /\ j.rows[i].plen \in Nat \ {0} /\ j.rows[i].rlen \in Nat
            /\ Packs(j) => /\ j.rows[i].prompt = j.rows[1].prompt
                           /\ j.rows[i].plen = j.rows[1].plen

VARIABLES
  job,    \* the micro-batch being run and the layout of the ranks
  input,  \* what the model is called with, before it is sliced
  pc,     \* the operation the ranks run next
  x,      \* per rank: its tensors, by name
  res,    \* per rank: the log_probs _forward_micro_batch returned
  grads   \* per rank: its part of the gradients of the projections

vars == <<job, input, pc, x, res, grads>>

Ranks == 0 .. job.sp - 1

-----------------------------------------------------------------------------
(* The input of the model, and the slice of it a rank gets.                *)

Segments(j) ==
  IF Packs(j) THEN Repack(j.rows, GroupSizes(NoUid, Len(j.rows)))
  ELSE [i \in 1 .. Len(j.rows) |->
          [grp |-> i, seg |-> 0, row |-> i, toks |-> Tokens(j.rows[i])]]

(* position_ids of the unpadded rows count from 0 in each. *)
PositionIds(j) ==
  FlattenSeq([i \in 1 .. Len(j.rows) |->
                [k \in 1 .. Len(Tokens(j.rows[i])) |-> k - 1]])

(* The token whose logit scores token k of the response of row i. *)
ScoredAt(j, segs, i, k) ==
  IF ~Packs(j) THEN Offset(segs, i) + j.rows[i].plen + k - 1
  ELSE IF k = 1 THEN SharedPosition(segs, 1)
  ELSE Offset(segs, i + 1) + k - 1

(* A row of "attended" lists the tokens a token attends to.  DualKV: the   *)
(* prompt up to a prompt token; the prompt and the own response up to a    *)
(* response token.                                                         *)
AttendedPacked(segs) ==
  FlattenSeq([s \in 1 .. Len(segs) |->
    LET own == Offset(segs, s)
        p == PromptSegment(segs, segs[s].grp)
        prompt == [k \in 1 .. Len(segs[p].toks) |-> Offset(segs, p) + k]
    IN  [k \in 1 .. Len(segs[s].toks) |->
           (IF segs[s].seg = 0 THEN <<>> ELSE prompt)
             \o [i \in 1 .. k |-> own + i]]])

(* Standard: a sequence starts where position_ids is 0. *)
AttendedByPosition(pos) ==
  [t \in 1 .. Len(pos) |->
     LET start == Max({k \in 1 .. t : pos[k] = 0})
     IN  [k \in 1 .. t - start + 1 |-> start + k - 1]]

Attended(j, packed, pos) == IF Packs(j) THEN packed ELSE AttendedByPosition(pos)

(* input_ids, its roll, and what _dualkv_repack returns beside them. *)
Inputs(j) ==
  LET segs == Segments(j)
      ids == Packed(segs)
  IN  [ids |-> ids, rolled |-> Rolled(ids), pos |-> PositionIds(j),
       shared |-> IF Packs(j) THEN SharedPosition(segs, 1) ELSE 0,
       scored |-> [i \in 1 .. Len(j.rows) |-> [k \in 1 .. RespLength |->
                     ScoredAt(j, segs, i, k)]],
       attended |-> IF Packs(j) THEN AttendedPacked(segs) ELSE <<>>]

Total == Len(input.ids)
PadSize == (job.sp - (Total % job.sp)) % job.sp
LocalSize == (Total + PadSize) \div job.sp
Global(r, t) == r * LocalSize + t

(* ulysses_pad: tokens are padded with zeros, position_ids with arange. *)
Pad(s)    == s \o [k \in 1 .. PadSize |-> <<>>]
PadPos(s) == s \o [k \in 1 .. PadSize |-> k - 1]

(* slice_input_tensor: the slice of a padded sequence that rank r gets. *)
SliceOf(s, r) == SubSeq(s, r * LocalSize + 1, (r + 1) * LocalSize)

(* The projections of the local tokens of rank r. *)
Projection(r, name, heads) ==
  [t \in 1 .. LocalSize |-> [h \in 1 .. heads |-> <<name, Global(r, t), h>>]]

(***************************************************************************)
(* The labels: input_ids rolled by one, padded and sliced; the fused loss  *)
(* rolls the input_ids it is given, which are sliced already.              *)
(***************************************************************************)
LabelsBug(r) == Rolled(SliceOf(Pad(input.ids), r))
Labels(r) == IF job.path = "fused" THEN Rolled(SliceOf(Pad(input.ids), r))
             ELSE SliceOf(Pad(input.rolled), r)

(***************************************************************************)
(* KV heads are repeated when there are more ranks than KV heads: each in  *)
(* place (repeat_kv) on the standard path, all of them one after the other *)
(* (Tensor.repeat) in the DualKV wrapper.                                  *)
(***************************************************************************)
Repeats(j) == Max({j.sp \div j.kv, 1})

(* The KV head the g-th of the repeated heads is a copy of. *)
CopyOf(j, g) == IF Packs(j) THEN ((g - 1) % j.kv) + 1
                ELSE ((g - 1) \div Repeats(j)) + 1

Repeated(j, s) == [t \in 1 .. Len(s) |->
                     [g \in 1 .. j.kv * Repeats(j) |-> s[t][CopyOf(j, g)]]]

-----------------------------------------------------------------------------
(* Query head h of nq uses KV head h \div (nq \div nkv), counted from 0. *)
KVHead(h, nq, nkv) == ((h - 1) \div (nq \div nkv)) + 1

Attention(q, k, v, attended) ==
  [t \in 1 .. Len(attended) |->
     [h \in 1 .. Len(q[t]) |->
        LET g == KVHead(h, Len(q[t]), Len(k[t]))
        IN  [q |-> q[t][h],
             k |-> [i \in 1 .. Len(attended[t]) |-> k[attended[t][i]][g]],
             v |-> [i \in 1 .. Len(attended[t]) |-> v[attended[t][i]][g]]]]]

(* The gradient of an entry of K or V: those of the outputs it went into. *)
AttentionBackward(dout, k, attended) ==
  [t \in 1 .. Len(k) |->
     [g \in 1 .. Len(k[t]) |->
        {dout[a[1]][a[2]] : a \in
           {uh \in (1 .. Len(attended)) \X (1 .. Len(dout[1])) :
              t \in Range(attended[uh[1]]) /\ KVHead(uh[2], Len(dout[1]), Len(k[t])) = g}}]]

-----------------------------------------------------------------------------
(* From outputs to log-probs.                                              *)

ResponseTokens == {ik \in (1 .. Len(job.rows)) \X (1 .. RespLength) :
                     ik[2] <= job.rows[ik[1]].rlen}

(* The first token of every response is scored by the shared logit. *)
Shared(k) == Packs(job) /\ k = 1

(* log_probs from the gathered per-token values and the shared logit. *)
Extract(perToken, shared) ==
  [i \in 1 .. Len(job.rows) |-> [k \in 1 .. RespLength |->
     IF <<i, k>> \notin ResponseTokens THEN Zero
     ELSE IF Shared(k) THEN LogProb(shared, <<job.rows[i].prompt, job.rows[i].roll, 1>>)
     ELSE perToken[input.scored[i][k]]]]

(* How many log-probs the per-token value of token t is in, and its shared *)
(* logit.                                                                  *)
Uses(t, shared) ==
  Cardinality({ik \in ResponseTokens :
                 Shared(ik[2]) = shared /\ input.scored[ik[1]][ik[2]] = t})

(***************************************************************************)
(* Gather.backward multiplies the local slice of the gradient by sp_size,  *)
(* which the mean FSDP takes over the ranks undoes.  The fused loss has    *)
(* its shared logits from its own slice, not through Gather.               *)
(***************************************************************************)
GradScalerBug(j) == 1
GradScaler(j) == j.sp

(* The gradient of the local output t, the same for every head. *)
OutputGrad(r, t) ==
  IF job.path = "fused"
  THEN GradScaler(job) * Uses(Global(r, t), FALSE) + Uses(t, TRUE)
  ELSE GradScaler(job) * (Uses(Global(r, t), FALSE) + Uses(Global(r, t), TRUE))

-----------------------------------------------------------------------------
Init ==
  /\ job \in Jobs
  /\ input = Inputs(job)
  /\ pc = "gather_seq_scatter_heads"
  /\ x = [r \in Ranks |->
            [q |-> Projection(r, "q", job.heads),
             k |-> Repeated(job, Projection(r, "k", job.kv)),
             v |-> Repeated(job, Projection(r, "v", job.kv)),
             pos |-> IF Packs(job) THEN <<>>
                     ELSE SliceOf(PadPos(input.pos), r)]]
  /\ res = [r \in Ranks |-> <<>>]
  /\ grads = [r \in Ranks |-> <<>>]

Step(op, next) == pc = op /\ pc' = next /\ UNCHANGED <<job, input>>

(* The tensors of rank r with those named in "tensors" set. *)
Put(r, tensors) ==
  [name \in DOMAIN x[r] \cup DOMAIN tensors |->
     IF name \in DOMAIN tensors THEN tensors[name] ELSE x[r][name]]

(***************************************************************************)
(* all_to_all_tensor on tensor "name": a rank passes its c-th chunk of     *)
(* heads (or tokens) to rank c and concatenates what it gets along the     *)
(* other dimension, in the order of the ranks.                             *)
(***************************************************************************)
SeqFromAll(r, name) ==
  LET rows == Len(x[r][name])  w == Len(x[r][name][1]) \div job.sp
  IN  [t \in 1 .. rows * job.sp |->
         SubSeq(x[(t - 1) \div rows][name][((t - 1) % rows) + 1], r * w + 1, (r + 1) * w)]

HeadsFromAll(r, name) ==
  LET rows == Len(x[r][name]) \div job.sp  w == Len(x[r][name][1])
  IN  [t \in 1 .. rows |-> [h \in 1 .. w * job.sp |->
         x[(h - 1) \div w][name][r * rows + t][((h - 1) % w) + 1]]]

(* all_gather along the tokens. *)
Gathered(name) ==
  LET rows == Len(x[0][name])
  IN  [t \in 1 .. rows * job.sp |-> x[(t - 1) \div rows][name][((t - 1) % rows) + 1]]

(* Q, K and V for all tokens and a slice of the heads; position_ids too on *)
(* the standard path.                                                      *)
GatherSeqScatterHeads ==
  /\ Step("gather_seq_scatter_heads", "flash_attention")
  /\ x' = [r \in Ranks |-> Put(r,
       [q |-> SeqFromAll(r, "q"), k |-> SeqFromAll(r, "k"), v |-> SeqFromAll(r, "v"),
        pos |-> Gathered("pos"),
        attended |-> Attended(job, input.attended, Gathered("pos"))])]
  /\ UNCHANGED <<res, grads>>

(* gather_heads_scatter_seq pads an output without rows for the padding. *)
PadOutput(out, n) ==
  out \o [t \in 1 .. n - Len(out) |-> [h \in 1 .. job.heads \div job.sp |-> <<>>]]

(* The attention calls on all tokens and the heads of this rank. *)
FlashAttention ==
  /\ Step("flash_attention", "gather_heads_scatter_seq")
  /\ x' = [r \in Ranks |->
       LET out == Attention(x[r].q, x[r].k, x[r].v, x[r].attended)
       IN  Put(r, [out |-> PadOutput(out, Len(x[r].q))])]
  /\ UNCHANGED <<res, grads>>

GatherHeadsScatterSeq ==
  /\ Step("gather_heads_scatter_seq", "loss_head")
  /\ x' = [r \in Ranks |-> Put(r, [out |-> HeadsFromAll(r, "out")])]
  /\ UNCHANGED <<res, grads>>

(* dualkv_shared_positions index the hidden states the loss is given. *)
SharedIndexBug == input.shared < LocalSize
SharedIndex == input.shared <= LocalSize

(***************************************************************************)
(* The head of the model: log-probs of the local tokens on the standard    *)
(* and the fused path, logits on the DualKV one.  The fused loss indexes   *)
(* its slice of the hidden states with the positions in the whole.         *)
(***************************************************************************)
LossHeadRaises == job.path = "fused" /\ ~SharedIndex

LossHead ==
  /\ Step("loss_head", IF LossHeadRaises THEN "raised" ELSE "gather_outputs")
  /\ x' = IF LossHeadRaises THEN x ELSE
       [r \in Ranks |-> Put(r,
          [token |-> [t \in 1 .. LocalSize |->
                        IF job.path = "dualkv" THEN x[r].out[t]
                        ELSE LogProb(x[r].out[t], Labels(r)[t])],
           shared |-> IF job.path = "fused" THEN x[r].out[input.shared] ELSE <<>>])]
  /\ UNCHANGED <<res, grads>>

(* gather_outputs_and_unpad and the extraction of the response log-probs. *)
GatherOutputs ==
  LET all == SubSeq(Gathered("token"), 1, Total)
      perToken == IF job.path = "dualkv"
                  THEN [t \in 1 .. Total |-> LogProb(all[t], input.rolled[t])]
                  ELSE all
      shared(r) == IF job.path = "dualkv" THEN all[input.shared]
                   ELSE x[r].shared
  IN  /\ Step("gather_outputs", "backward")
      /\ res' = [r \in Ranks |-> Extract(perToken, shared(r))]
      /\ UNCHANGED <<x, grads>>

(* Every rank has the loss of its copy of log_probs; SeqAllToAll.backward  *)
(* exchanges the two dimensions of the forward pass.                       *)
LossBackward ==
  /\ Step("backward", "out_backward")
  /\ x' = [r \in Ranks |-> Put(r,
       [dout |-> [t \in 1 .. LocalSize |-> [h \in 1 .. job.heads |->
          [from |-> <<Global(r, t), h>>, c |-> OutputGrad(r, t)]]]])]
  /\ UNCHANGED <<res, grads>>

OutBackward ==
  /\ Step("out_backward", "attention_backward")
  /\ x' = [r \in Ranks |-> Put(r, [dout |-> SeqFromAll(r, "dout")])]
  /\ UNCHANGED <<res, grads>>

FlashAttentionBackward ==
  /\ Step("attention_backward", "projection_backward")
  /\ x' = [r \in Ranks |->
       LET d == AttentionBackward(x[r].dout, x[r].k, x[r].attended)
       IN  Put(r, [dq |-> x[r].dout, dk |-> d])]
  /\ UNCHANGED <<res, grads>>

(* The gradient of a repeated head is the sum of those of its copies. *)
RepeatBackward(s) ==
  [t \in 1 .. Len(s) |-> [g \in 1 .. job.kv |->
     {e \in UNION {s[t][i] : i \in {i \in 1 .. Len(s[t]) : CopyOf(job, i) = g}} : e.c # 0}]]

ProjectionBackward ==
  /\ Step("projection_backward", "done")
  /\ grads' = [r \in Ranks |->
       [dq |-> HeadsFromAll(r, "dq"), dk |-> RepeatBackward(HeadsFromAll(r, "dk"))]]
  /\ UNCHANGED <<x, res>>

Next ==
  \/ GatherSeqScatterHeads \/ FlashAttention \/ GatherHeadsScatterSeq
  \/ LossHead \/ GatherOutputs
  \/ LossBackward \/ OutBackward \/ FlashAttentionBackward \/ ProjectionBackward

Spec == Init /\ [][Next]_vars /\ WF_vars(Next)

-----------------------------------------------------------------------------
(***************************************************************************)
(* The layouts on which splitting changes nothing: where K and V are       *)
(* repeated with Tensor.repeat, there is one KV head to repeat, if any;    *)
(* the fused loss has the whole sequence.                                  *)
(***************************************************************************)
SupportedLayout(j) == /\ Packs(j) => j.kv % j.sp = 0 \/ j.kv = 1
                      /\ j.path = "fused" => j.sp = 1

(***************************************************************************)
(* What the same path computes on one device: all tokens, all heads, every *)
(* query head with the KV head of its group.                               *)
(***************************************************************************)
OneDeviceAttended == Attended(job, input.attended, input.pos)

OneDevice ==
  LET all(name, heads) == [t \in 1 .. Total |-> [h \in 1 .. heads |-> <<name, t, h>>]]
      out == Attention(all("q", job.heads), all("k", job.kv), all("v", job.kv),
                       OneDeviceAttended)
  IN  Extract([t \in 1 .. Total |-> LogProb(out[t], input.rolled[t])],
              IF Packs(job) THEN out[input.shared] ELSE <<>>)

(***************************************************************************)
(* Splitting tokens and heads over ranks changes nothing: every rank gets  *)
(* the log-probs one device computes, so the ranks also agree on the loss. *)
(***************************************************************************)
SameAsOneDevice == \A r \in Ranks : res[r] # <<>> => res[r] = OneDevice

(* The gradient of head g of token t: that of each output it went into,    *)
(* once, weighted by the log-probs that output is in.                      *)
OneDeviceGradient(t, g) ==
  LET uses(u) == Uses(u, TRUE) + Uses(u, FALSE)
      outputs == {uh \in (1 .. Total) \X (1 .. job.heads) :
                    /\ uses(uh[1]) > 0 /\ KVHead(uh[2], job.heads, job.kv) = g
                    /\ t \in Range(OneDeviceAttended[uh[1]])}
  IN  {[from |-> a, c |-> job.sp * uses(a[1])] : a \in outputs}

(***************************************************************************)
(* Averaged over the ranks, the gradient of the K (and V) projection is    *)
(* the one of one device, for every head of every token, and the padding   *)
(* has none.                                                               *)
(***************************************************************************)
GradientAsOneDevice ==
  pc = "done" =>
    \A r \in Ranks : \A t \in 1 .. LocalSize : \A g \in 1 .. job.kv :
      grads[r].dk[t][g] = IF Global(r, t) <= Total THEN OneDeviceGradient(Global(r, t), g)
                          ELSE {}

(* The forward and the backward pass end on every rank. *)
Finishes == <>(pc = "done")
=============================================================================
