---------------------------- MODULE DualKVActor -----------------------------
(***************************************************************************)
(* One training step of the DualKV actor.  The trainer builds the batch,   *)
(* every prompt repeated N times in place, and dispatches an equal chunk   *)
(* of it to each data-parallel rank, first to compute_log_prob and then to *)
(* update_policy.  A rank cuts its chunk into mini-batches and these into  *)
(* micro-batches; every forward pass and every gradient norm is a          *)
(* collective of all the ranks (FSDP).                                     *)
(*                                                                         *)
(* Rows of the batch are numbered from 0 in batch order, so row i is       *)
(* rollout i % N of prompt i \div N.                                       *)
(***************************************************************************)
EXTENDS DualKVPack

CONSTANTS
  NumPrompts,        \* prompts in the batch
  N,                 \* rollout.n
  DP,                \* data-parallel ranks
  PpoMiniBatch,      \* actor.ppo_mini_batch_size, in prompts, as configured
  MicroBatch,        \* actor.ppo_micro_batch_size_per_gpu, in rows
  LogProbMicroBatch, \* rollout.log_prob_micro_batch_size_per_gpu, in rows
  PpoEpochs,
  RespLength,        \* the padded response length
  PromptLen(_),      \* the number of tokens of a prompt
  RespLens           \* the response lengths a rollout may have

ASSUME SizesAssumption ==
  /\ NumPrompts \in Nat \ {0} /\ N \in Nat \ {0} /\ DP \in Nat \ {0}
  /\ PpoMiniBatch \in Nat \ {0} /\ MicroBatch \in Nat \ {0}
  /\ LogProbMicroBatch \in Nat \ {0} /\ PpoEpochs \in Nat \ {0}
  /\ RespLength \in Nat /\ RespLens \subseteq 0 .. RespLength

(* The chat template leaves no prompt empty. *)
ASSUME PromptAssumption == \A p \in 0 .. NumPrompts - 1 : PromptLen(p) \in Nat \ {0}

TotalRows == NumPrompts * N
Rows      == 0 .. TotalRows - 1
Ranks     == 0 .. DP - 1
Chunk     == TotalRows \div DP              \* DataProto.chunk
Mini      == (PpoMiniBatch * N) \div DP     \* "normalize config" of the worker

(* The asserts of the trainer (use_dualkv) and of the worker. *)
DualKVAsserts ==
  /\ NumPrompts % DP = 0
  /\ MicroBatch % N = 0 \/ N % MicroBatch = 0
  /\ Mini > 0
  /\ Mini % MicroBatch = 0

ASSUME DualKVAssumption == DualKVAsserts

Smaller(a, b) == IF a <= b THEN a ELSE b

(***************************************************************************)
(* A slice lo .. hi-1 of the batch.  Piece(s, size, k) is the k-th element *)
(* of DataProto.split(size), of which there are Pieces(s, size).           *)
(***************************************************************************)
Slice(lo, hi)        == [lo |-> lo, hi |-> hi]
RowsIn(s)            == s.lo .. s.hi - 1
PieceBug(s, size, k) == Slice(s.lo + k * size, s.lo + (k + 1) * size)
Piece(s, size, k)    == Slice(s.lo + k * size, Smaller(s.lo + (k + 1) * size, s.hi))
PiecesBug(s, size)   == (s.hi - s.lo) \div size
Pieces(s, size)      == (s.hi - s.lo + size - 1) \div size

ChunkOfBug(r)      == Slice(r * (Chunk - 1), IF r = DP - 1 THEN TotalRows ELSE (r + 1) * (Chunk - 1))
ChunkOf(r)         == Slice(r * Chunk, (r + 1) * Chunk)
MiniBatch(r, m)    == Piece(ChunkOf(r), Mini, m)
Micro(r, m, k)     == Piece(MiniBatch(r, m), MicroBatch, k)
LogProbMicroBug(r, k) == Piece(Slice(ChunkOf(r).lo, TotalRows), LogProbMicroBatch + 1, k)
LogProbMicro(r, k) == Piece(ChunkOf(r), LogProbMicroBatch, k)

VARIABLES
  phase,    \* the trainer: "generate", "log_prob", "update", "done"
  rlen,     \* response lengths of the generated rows
  pc,       \* per rank: what it runs next
  at,       \* per rank: the epoch, mini-batch and micro-batch it is at
  joined,   \* per rank: whether it has entered the collective it runs next
  count,    \* per rank: collectives it has completed
  seen,     \* per rank: the micro-batch of its last forward pass
  grad,     \* per rank: how often each row is in the accumulated gradient
  trained,  \* per rank: how often each row was in a gradient at _optimizer_step
  norms,    \* by collective: whether the gradient norm it computed is finite
  params    \* per rank: the mini-batches whose gradient the optimizer applied

vars == <<phase, rlen, pc, at, joined, count, seen, grad, trained, norms, params>>

NoGrad == [i \in Rows |-> 0]
Start  == [ep |-> 0, mini |-> 0, micro |-> 0]

(* Row i as the model sees it. *)
Row(i) == [prompt |-> i \div N, roll |-> i % N,
           plen |-> PromptLen(i \div N), rlen |-> rlen[i]]
RowSeq(s) == [k \in 1 .. s.hi - s.lo |-> Row(s.lo + k - 1)]

(***************************************************************************)
(* compute_log_prob and update_policy select the keys they need, and "uid" *)
(* is not one of them: micro_batch.get("uid") is None.                     *)
(***************************************************************************)
MicroBatchUids(s) == NoUid

(* What a forward pass over slice s of the batch ends with. *)
Forward(s) == ForwardMicroBatch(RowSeq(s), MicroBatchUids(s), RespLength)
Raised(s)  == ForwardRaises(RowSeq(s), MicroBatchUids(s))

Init ==
  /\ phase = "generate"
  /\ rlen = [i \in Rows |-> 0]
  /\ pc = [r \in Ranks |-> "idle"]
  /\ at = [r \in Ranks |-> Start]
  /\ joined = [r \in Ranks |-> FALSE]
  /\ count = [r \in Ranks |-> 0]
  /\ seen = [r \in Ranks |-> Slice(0, 0)]
  /\ grad = [r \in Ranks |-> NoGrad]
  /\ trained = [r \in Ranks |-> NoGrad]
  /\ norms = <<>>
  /\ params = [r \in Ranks |-> <<>>]

(* The trainer generates N responses per prompt and dispatches log_prob. *)
Generate ==
  /\ phase = "generate"
  /\ rlen' \in [Rows -> RespLens]
  /\ phase' = "log_prob"
  /\ pc' = [r \in Ranks |-> "log_prob"]
  /\ UNCHANGED <<at, joined, count, seen, grad, trained, norms, params>>

(* It collects old_log_probs from every rank and dispatches update_actor. *)
DispatchUpdate ==
  /\ phase = "log_prob"
  /\ \A r \in Ranks : pc[r] = "idle"
  /\ phase' = "update"
  /\ pc' = [r \in Ranks |-> "update"]
  /\ at' = [r \in Ranks |-> Start]
  /\ UNCHANGED <<rlen, joined, count, seen, grad, trained, norms, params>>

(* Every rank has returned from update_actor. *)
Finish ==
  /\ phase = "update"
  /\ \A r \in Ranks : pc[r] = "idle"
  /\ phase' = "done"
  /\ UNCHANGED <<rlen, pc, at, joined, count, seen, grad, trained, norms, params>>

-----------------------------------------------------------------------------
(***************************************************************************)
(* A rank enters a collective, and completes it when every rank has        *)
(* entered as many.  A rank whose forward pass raised enters none.         *)
(***************************************************************************)
Enter(r) ==
  /\ pc[r] # "idle"
  /\ ~Raised(seen[r])
  /\ ~joined[r]
  /\ joined' = [joined EXCEPT ![r] = TRUE]
  /\ UNCHANGED <<phase, rlen, pc, at, count, seen, grad, trained, norms, params>>

Entered(q) == IF joined[q] THEN count[q] + 1 ELSE count[q]

Complete(r) ==
  /\ joined[r]
  /\ \A q \in Ranks : Entered(q) > count[r]
  /\ joined' = [joined EXCEPT ![r] = FALSE]
  /\ count' = [count EXCEPT ![r] = @ + 1]

(* The next micro-batch of compute_log_prob; after the last, it returns. *)
ComputeLogProb(r) ==
  LET k == at[r].micro
      last == k + 1 = Pieces(ChunkOf(r), LogProbMicroBatch)
  IN  /\ pc[r] = "log_prob"
      /\ Complete(r)
      /\ seen' = [seen EXCEPT ![r] = LogProbMicro(r, k)]
      /\ at' = [at EXCEPT ![r].micro = k + 1]
      /\ pc' = [pc EXCEPT ![r] = IF last THEN "idle" ELSE @]
      /\ UNCHANGED <<phase, rlen, grad, trained, norms, params>>

(* optimizer.zero_grad() before the first micro-batch of a mini-batch. *)
GradBeforeBug(r) == grad[r]
GradBefore(r) == IF at[r].micro = 0 THEN NoGrad ELSE grad[r]

(***************************************************************************)
(* The next micro-batch of update_policy: the first of a mini-batch zeroes *)
(* the gradient, each adds the loss of its rows to it.                     *)
(***************************************************************************)
UpdateMicroBatch(r) ==
  LET s == Micro(r, at[r].mini, at[r].micro)
      last == at[r].micro + 1 = Pieces(MiniBatch(r, at[r].mini), MicroBatch)
  IN  /\ pc[r] = "update"
      /\ Complete(r)
      /\ seen' = [seen EXCEPT ![r] = s]
      /\ grad' = [grad EXCEPT ![r] =
                    [i \in Rows |-> GradBefore(r)[i] + (IF i \in RowsIn(s) THEN 1 ELSE 0)]]
      /\ at' = [at EXCEPT ![r].micro = @ + 1]
      /\ pc' = [pc EXCEPT ![r] = IF last THEN "step" ELSE @]
      /\ UNCHANGED <<phase, rlen, trained, norms, params>>

(* Where the loops over epochs and mini-batches go after a step. *)
NextMini(r) ==
  LET lastMini == at[r].mini + 1 = Pieces(ChunkOf(r), Mini)
  IN  [ep    |-> IF lastMini THEN at[r].ep + 1 ELSE at[r].ep,
       mini  |-> IF lastMini THEN 0 ELSE at[r].mini + 1,
       micro |-> 0]

(***************************************************************************)
(* clip_grad_norm_ reduces the norm over all the ranks: the first to learn *)
(* it learns what every other will.                                        *)
(***************************************************************************)
GradNormBug(r) == BOOLEAN
GradNorm(r) == IF count[r] + 1 \in DOMAIN norms THEN {norms[count[r] + 1]} ELSE BOOLEAN

(***************************************************************************)
(* _optimizer_step, then the loop head.  A norm that is not finite zeroes  *)
(* the gradient and leaves the parameters.  After the last step of the     *)
(* last epoch update_policy zeroes the gradient and returns.               *)
(***************************************************************************)
OptimizerStep(r) ==
  /\ pc[r] = "step"
  /\ Complete(r)
  /\ \E finite \in GradNorm(r) :
       /\ norms' = [c \in {count[r] + 1} \cup DOMAIN norms |->
                      IF c = count[r] + 1 THEN finite ELSE norms[c]]
       /\ params' = [params EXCEPT ![r] =
            IF finite THEN Append(@, [ep |-> at[r].ep, mini |-> at[r].mini]) ELSE @]
       /\ grad' = [grad EXCEPT ![r] =
            IF finite /\ NextMini(r).ep < PpoEpochs THEN @ ELSE NoGrad]
  /\ trained' = [trained EXCEPT ![r] = [i \in Rows |-> @[i] + grad[r][i]]]
  /\ at' = [at EXCEPT ![r] = NextMini(r)]
  /\ pc' = [pc EXCEPT ![r] = IF NextMini(r).ep < PpoEpochs THEN "update" ELSE "idle"]
  /\ UNCHANGED <<phase, rlen, seen>>

Worker(r) == Enter(r) \/ ComputeLogProb(r) \/ UpdateMicroBatch(r) \/ OptimizerStep(r)

Next == Generate \/ DispatchUpdate \/ Finish \/ \E r \in Ranks : Worker(r)

(* Each rank is a process of its own, and the trainer waits for all. *)
Fairness ==
  /\ WF_vars(Generate) /\ WF_vars(DispatchUpdate) /\ WF_vars(Finish)
  /\ \A r \in Ranks : WF_vars(Worker(r))

Spec == Init /\ [][Next]_vars /\ Fairness

-----------------------------------------------------------------------------
Slices == [lo : 0 .. TotalRows, hi : 0 .. TotalRows]

TypeOK ==
  /\ phase \in {"generate", "log_prob", "update", "done"}
  /\ rlen \in [Rows -> 0 .. RespLength]
  /\ pc \in [Ranks -> {"idle", "log_prob", "update", "step"}]
  /\ at \in [Ranks -> [ep : 0 .. PpoEpochs, mini : Nat, micro : Nat]]
  /\ joined \in [Ranks -> BOOLEAN]
  /\ count \in [Ranks -> Nat]
  /\ seen \in [Ranks -> Slices]
  /\ grad \in [Ranks -> [Rows -> Nat]]
  /\ trained \in [Ranks -> [Rows -> Nat]]
  /\ params \in [Ranks -> Seq([ep : Nat, mini : Nat])]

(***************************************************************************)
(* Every micro-batch a rank has run holds rollouts of a single prompt: it  *)
(* is what the trainer's assertion on the micro-batch size promises, and   *)
(* what grouping without uids takes for granted.                           *)
(***************************************************************************)
SamePromptMicroBatches ==
  \A r \in Ranks : \A i, j \in RowsIn(seen[r]) : i \div N = j \div N

(***************************************************************************)
(* Packing the prompt once changes nothing: each forward pass returns, row *)
(* by row and token by token, the log-probs the standard path computes.    *)
(***************************************************************************)
StandardResults ==
  \A r \in Ranks : RowsIn(seen[r]) # {} =>
    Forward(seen[r]) = Returns(StandardLogProbs(RowSeq(seen[r]), RespLength))

(***************************************************************************)
(* When the optimizer steps, the gradient holds each row of the mini-batch *)
(* exactly once and no other row: none is left from the step before,       *)
(* finite or not.                                                          *)
(***************************************************************************)
GradientIsMiniBatch ==
  \A r \in Ranks : pc[r] = "step" =>
    \A i \in Rows :
      grad[r][i] = IF i \in RowsIn(MiniBatch(r, at[r].mini)) THEN 1 ELSE 0

(* When training ends, each row was trained on once per epoch, by one rank. *)
EveryRowEveryEpoch ==
  phase = "done" =>
    \A i \in Rows : \E r \in Ranks :
      /\ trained[r][i] = PpoEpochs
      /\ \A q \in Ranks \ {r} : trained[q][i] = 0

(* Ranks that have run the same collectives have the same parameters. *)
ReplicasAgree ==
  \A q, r \in Ranks : count[q] = count[r] => params[q] = params[r]

(* The step ends: the ranks always have a collective they all come to. *)
StepEnds == <>(phase = "done")
=============================================================================
