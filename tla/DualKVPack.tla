----------------------------- MODULE DualKVPack -----------------------------
(***************************************************************************)
(* The pure part of the DualKV actor: how the unpadded sequences of a      *)
(* micro-batch are grouped by prompt, repacked so that a group's prompt    *)
(* appears once, run through the model, and unpacked into one row of       *)
(* log-probs per sequence.                                                 *)
(*                                                                         *)
(* A token is a name: <<p, k>> is token k of prompt p, <<p, j, k>> token k *)
(* of the j-th response to p.  A logit is represented by what it is a      *)
(* function of, the sequence of tokens its position attends to; a log-prob *)
(* by that context and the label whose probability it is.  Two log-probs   *)
(* are therefore equal here only when the code computes the same number.   *)
(***************************************************************************)
EXTENDS Integers, Sequences, SequencesExt, FiniteSetsExt

NoUid == <<>>                              \* uids is None
LogProb(ctx, label) == [ctx |-> ctx, label |-> label]
Zero == LogProb(<<>>, <<>>)  \* an entry of log_probs never written

(***************************************************************************)
(* A row of a micro-batch: a prompt, the index of the rollout, and the     *)
(* numbers of tokens attention_mask marks in the two halves of input_ids.  *)
(***************************************************************************)
Tokens(row) ==
  [k \in 1 .. row.plen + row.rlen |->
     IF k <= row.plen THEN <<row.prompt, k>>
                      ELSE <<row.prompt, row.roll, k - row.plen>>]

(***************************************************************************)
(* The lengths of the runs of equal uids, one group without uids.  runs[i] *)
(* is what the loop has counted after i uids: the groups that are complete *)
(* and the length of the one it is in.                                     *)
(***************************************************************************)
GroupSizes(uids, bs) ==
  IF uids = NoUid THEN <<bs>>
  ELSE LET runs[i \in 1 .. Len(uids)] ==
             IF i = 1 THEN [groups |-> <<>>, count |-> 1]
             ELSE LET before == runs[i - 1]
                  IN  IF uids[i] = uids[i - 1]
                      THEN [before EXCEPT !.count = @ + 1]
                      ELSE [groups |-> Append(before.groups, before.count), count |-> 1]
           all == runs[Len(uids)]
       IN  Append(all.groups, all.count)

(* The sum of the sizes before the g-th: where part g of a whole starts. *)
Before(sizes, g) ==
  LET sum[k \in 0 .. Len(sizes)] == IF k = 0 THEN 0 ELSE sum[k - 1] + sizes[k]
  IN  sum[g - 1]

(* The prompt length of a group is that of the first sequence in it. *)
PromptLensBug(rows, sizes) == [g \in 1 .. Len(sizes) |-> rows[1].plen]
PromptLens(rows, sizes) ==
  [g \in 1 .. Len(sizes) |-> rows[Before(sizes, g) + 1].plen]

(***************************************************************************)
(* _dualkv_repack: the segments of the packed tensor, in order.  Segment 0 *)
(* of a group holds its prompt tokens, segment i the tokens of its i-th    *)
(* sequence after the first P.                                             *)
(***************************************************************************)
GroupSegments(rows, sizes, P, g) ==
  LET first == Before(sizes, g) + 1
      prompt == [grp |-> g, seg |-> 0, row |-> first,
                 toks |-> SubSeq(Tokens(rows[first]), 1, P)]
      response(i) == [grp |-> g, seg |-> i, row |-> first + i - 1,
                      toks |-> LET t == Tokens(rows[first + i - 1])
                               IN  SubSeq(t, P + 1, Len(t))]
  IN  <<prompt>> \o [i \in 1 .. sizes[g] |-> response(i)]

Repack(rows, sizes) ==
  LET P == PromptLens(rows, sizes)
  IN  FlattenSeq([g \in 1 .. Len(sizes) |->
                    GroupSegments(rows, sizes, P[g], g)])

(* torch.arange(P, P + R_i) raises when R_i = e - s - P is negative. *)
ForwardRaises(rows, uids) ==
  LET sizes == GroupSizes(uids, Len(rows))
  IN  \E g \in 1 .. Len(sizes) : \E i \in 1 .. sizes[g] :
        LET first == Before(sizes, g) + 1
        IN  Len(Tokens(rows[first + i - 1])) < rows[first].plen

Packed(segs) == FlattenSeq([s \in 1 .. Len(segs) |-> segs[s].toks])

(* packed_offset when segment s is appended. *)
Offset(segs, s) == Before([i \in 1 .. Len(segs) |-> Len(segs[i].toks)], s)

PromptSegment(segs, g) ==
  CHOOSE s \in 1 .. Len(segs) : segs[s].grp = g /\ segs[s].seg = 0

(***************************************************************************)
(* What each packed position attends to: within the prompt, the prompt up  *)
(* to it (flash_attn_varlen_func on q_ctx, causal); within a response, the *)
(* whole prompt of its group and its own response up to it                 *)
(* (flash_attn_dualkv_varlen_func, causal).                                *)
(***************************************************************************)
SegmentContexts(segs, s) ==
  LET prompt == segs[PromptSegment(segs, segs[s].grp)].toks
      own    == segs[s].toks
  IN  [k \in 1 .. Len(own) |->
         IF segs[s].seg = 0 THEN SubSeq(own, 1, k)
                            ELSE prompt \o SubSeq(own, 1, k)]

Logits(segs) == FlattenSeq([s \in 1 .. Len(segs) |-> SegmentContexts(segs, s)])

(* The position of the group's last prompt token. *)
SharedPositionBug(segs, g) == Offset(segs, PromptSegment(segs, g)) + 1
SharedPosition(segs, g) ==
  LET p == PromptSegment(segs, g) IN Offset(segs, p) + Len(segs[p].toks)

(* torch.roll(input_ids, -1): the label of position t is token t + 1. *)
Rolled(ids) == [t \in 1 .. Len(ids) |-> ids[(t % Len(ids)) + 1]]

(***************************************************************************)
(* _dualkv_extract_logprobs: the first response token of every sequence    *)
(* of a group is scored by the logit of the group's last prompt token,     *)
(* token k > 1 by the packed position of token k - 1.                      *)
(***************************************************************************)
ExtractLogProbs(segs, logits, ids, respLen, bs) ==
  LET rolled == Rolled(ids)
      all == [t \in 1 .. Len(ids) |-> LogProb(logits[t], rolled[t])]
      row(s) ==
        LET R  == Min({Len(segs[s].toks), respLen})
            shared == SharedPosition(segs, segs[s].grp)
            ds == Offset(segs, s)
        IN  [k \in 1 .. respLen |->
               IF k > R THEN Zero
               ELSE IF k = 1 THEN LogProb(logits[shared], segs[s].toks[1])
               ELSE all[ds + k - 1]]
      response(i) == CHOOSE s \in 1 .. Len(segs) : segs[s].seg # 0 /\ segs[s].row = i
  IN  [i \in 1 .. bs |-> row(response(i))]

(* What a forward pass ends with: it raises, or returns log_probs. *)
Returns(rows) == [raised |-> FALSE, rows |-> rows]
Raises        == [raised |-> TRUE, rows |-> <<>>]

(* _forward_micro_batch with use_dualkv, on one rank without Ulysses. *)
ForwardMicroBatch(rows, uids, respLen) ==
  LET sizes == GroupSizes(uids, Len(rows))
      segs  == Repack(rows, sizes)
  IN  IF ForwardRaises(rows, uids) THEN Raises
      ELSE Returns(ExtractLogProbs(segs, Logits(segs), Packed(segs), respLen, Len(rows)))

(***************************************************************************)
(* Reference: the standard path.  Every sequence runs alone, and response  *)
(* token k is scored by the position before it.                            *)
(***************************************************************************)
StandardLogProbs(rows, respLen) ==
  [i \in 1 .. Len(rows) |->
     [k \in 1 .. respLen |->
        LET t == Tokens(rows[i])  P == rows[i].plen
        IN  IF k > rows[i].rlen THEN Zero
            ELSE LogProb(SubSeq(t, 1, P + k - 1), t[P + k])]]
=============================================================================
