---------------------------- MODULE DataDispatch ----------------------------
(***************************************************************************)
(* One call of the single controller on a worker group, for the methods    *)
(* that return a value per row of a batch: compute_log_prob,               *)
(* compute_ref_log_prob, compute_values, compute_rm_score, and             *)
(* generate_sequences of a padded batch.  The batch may first be reordered *)
(* (_balance_batch); it is split over the ranks, in one of two dispatch    *)
(* modes; each rank runs the model on micro-batches, with collectives over *)
(* all ranks; the controller puts the results together.                    *)
(*                                                                         *)
(* "nd": a share per data-parallel rank, the same for the ranks of a       *)
(* sequence-parallel group (make_nd_compute_dataproto_dispatch_fn).        *)
(* "dp": a share per worker, padded if need be, which the group gathers    *)
(* and divides again (DP_COMPUTE_PROTO, FSDPUlyssesShardingManager).       *)
(***************************************************************************)
EXTENDS SeqlenBalancing

CONSTANTS
  World,         \* ranks of the worker group
  SP,            \* ulysses_sequence_parallel_size
  MaxTokenLen,   \* max_token_len of a micro-batch, times SP
  MicroBatchSize,
  Lengths,       \* bound: of rows, in tokens
  Sizes          \* bound: of batches, in rows

ASSUME DispatchAssumption ==
  /\ World \in Nat \ {0} /\ SP \in Nat \ {0} /\ World % SP = 0
  /\ MaxTokenLen \in Nat \ {0} /\ Lengths \subseteq 1 .. MaxTokenLen
  /\ MicroBatchSize \in Nat \ {0}
  /\ Sizes \subseteq Nat \ {0}

VARIABLES
  batch,    \* the controller's batch: rows [id, len]
  call,     \* what is asked, and how many rows are padding
  status,   \* of the call: "idle", "batch", "balanced", "sent", "returned"
  data,     \* per rank: its rows
  at,       \* per rank: where it is in the method
  count,    \* per rank: num_micro_batches
  plan,     \* per rank: the rows of each micro-batch
  values,   \* per rank: what the micro-batches so far returned
  result    \* of the call

dispatchVars == <<batch, call, status, data, at, count, plan, values, result>>
rankVars == <<data, at, count, plan, values>>

Rank == 0 .. World - 1

(* dp_rank and is_collect of _register_dispatch_collect_info.              *)
DpRankBug(r) == r % (World \div SP)
DpRank(r) == r \div SP
SpRank(r) == r % SP
IsCollect(r) == SpRank(r) = 0
DpSize == World \div SP
SpGroup(r) == {q \in Rank : q \div SP = r \div SP}

NoCall == [mode |-> "none", dynamic |-> FALSE, pad |-> 0]

DispatchInit ==
  /\ batch = <<>> /\ call = NoCall /\ status = "idle" /\ result = <<>>
  /\ data = [r \in Rank |-> <<>>] /\ at = [r \in Rank |-> "idle"]
  /\ count = [r \in Rank |-> 0] /\ plan = [r \in Rank |-> <<>>]
  /\ values = [r \in Rank |-> <<>>]

(* A batch of the rollouts. *)
NewBatch(lens) ==
  /\ status = "idle"
  /\ batch' = [i \in DOMAIN lens |-> [id |-> i, len |-> lens[i]]]
  /\ status' = "batch"
  /\ UNCHANGED <<call, result, rankVars>>

Workloads(rows) == [i \in DOMAIN rows |-> Workload(rows[i].len)]

(* _balance_batch. *)
BalanceBatch ==
  /\ status = "batch"
  /\ Len(batch) % DpSize = 0
  /\ batch' = Once(Workloads(batch), LAMBDA w : Once(BalancedOrder(w, DpSize), LAMBDA order :
                  [i \in DOMAIN order |-> batch[order[i]]]))
  /\ status' = "balanced"
  /\ UNCHANGED <<call, result, rankVars>>

-----------------------------------------------------------------------------
(* DataProto.chunk, for equal chunks, from 0.                              *)
Share(rows, chunks, c) ==
  LET n == Len(rows) \div chunks IN SubSeq(rows, c * n + 1, (c + 1) * n)

(* Rows missing to the next multiple.                                      *)
PadSize(n, divisor) == IF n % divisor > 0 THEN divisor - (n % divisor) ELSE 0

(* DataProto.padding: the last row, again and again.  In place: the batch  *)
(* of the caller has the padding from now on.                              *)
AutoPadded(rows) ==
  rows \o [i \in 1 .. PadSize(Len(rows), World) |-> rows[Len(rows)]]

(* pad_dataproto_to_divisor: the first rows, again and again.              *)
Padded(rows) ==
  rows \o [i \in 1 .. PadSize(Len(rows), World) |-> rows[((i - 1) % Len(rows)) + 1]]

Send(mode, dynamic, pad, share) ==
  /\ status' = "sent"
  /\ call' = [mode |-> mode, dynamic |-> dynamic, pad |-> pad]
  /\ data' = share
  /\ at' = [r \in Rank |-> IF mode = "dp" THEN "gather" ELSE "split"]
  /\ UNCHANGED <<count, plan, values, result>>

Ready == status \in {"batch", "balanced"}

(* dispatch_lazy_compute_data_proto; chunk asserts equal shares. *)
DispatchNd(dynamic) ==
  /\ Ready /\ Len(batch) % DpSize = 0
  /\ Send("nd", dynamic, 0, [r \in Rank |-> Share(batch, DpSize, DpRank(r))])
  /\ UNCHANGED batch

(* dispatch_dp_compute_data_proto with auto padding.  *)
DispatchAutoPadded(dynamic) ==
  /\ Ready
  /\ batch' = AutoPadded(batch)
  /\ Send("dp", dynamic, PadSize(Len(batch), World),
          [r \in Rank |-> Share(batch', World, r)])

(* generate_sequences of what pad_dataproto_to_divisor returned.           *)
DispatchPadded ==
  /\ status = "batch"
  /\ Send("nd", FALSE, PadSize(Len(batch), World),
          [r \in Rank |-> Share(Padded(batch), DpSize, DpRank(r))])
  /\ UNCHANGED batch

-----------------------------------------------------------------------------
(* preprocess_data: all_gather_data_proto over the group.                  *)
Gather(r) ==
  /\ status = "sent" /\ r % SP = 0
  /\ \A q \in SpGroup(r) : at[q] = "gather"
  /\ data' = [q \in Rank |-> IF q \in SpGroup(r)
                THEN FlattenSeq([s \in 1 .. SP |-> data[r + s - 1]]) ELSE data[q]]
  /\ at' = [q \in Rank |-> IF q \in SpGroup(r) THEN "split" ELSE at[q]]
  /\ UNCHANGED <<batch, call, status, count, plan, values, result>>

Lens(rows) == [i \in DOMAIN rows |-> rows[i].len]

(* data.split(micro_batch_size): the rows of each piece.                   *)
FixedPlan(n) ==
  [m \in 1 .. CeilDiv(n, MicroBatchSize) |->
     LET first == (m - 1) * MicroBatchSize
     IN  [i \in 1 .. Min({MicroBatchSize, n - first}) |-> first + i]]

(* A rank splits its rows, or counts the micro-batches it needs.           *)
Split(r) ==
  /\ at[r] = "split"
  /\ IF call.dynamic
     THEN /\ count' = [count EXCEPT ![r] = MicroBatchCount(Lens(data[r]), MaxTokenLen)]
          /\ at' = [at EXCEPT ![r] = "reduce"]
          /\ UNCHANGED plan
     ELSE /\ plan' = [plan EXCEPT ![r] = FixedPlan(Len(data[r]))]
          /\ at' = [at EXCEPT ![r] = "run"]
          /\ UNCHANGED count
  /\ UNCHANGED <<batch, call, status, data, values, result>>

(* all_reduce(MAX) of the number, then the partition or an AssertionError. *)
AgreedBug(r) == count[r]
Agreed(r) == Max({count[q] : q \in Rank})

MicroBatchesOf(r, num) ==
  Once(Workloads(data[r]), LAMBDA w :
    IF PartitionAsserts(w, num, FALSE) THEN MicroBatches(w, num) ELSE <<>>)

AllReduce ==
  /\ \A r \in Rank : at[r] = "reduce"
  /\ count' = [r \in Rank |-> Agreed(r)]
  /\ plan' = [r \in Rank |-> Once(Agreed(r), LAMBDA num : MicroBatchesOf(r, num))]
  /\ at' = [r \in Rank |-> IF plan'[r] = <<>> THEN "raised" ELSE "run"]
  /\ UNCHANGED <<batch, call, status, data, values, result>>

(* The next micro-batch of a rank. *)
Ran(r) == Len(values[r])
MicroRows(r) == [i \in DOMAIN plan[r][Ran(r) + 1] |-> data[r][plan[r][Ran(r) + 1][i]]]

(* The model, on all ranks at once: each layer's parameters are gathered   *)
(* from all of them, and each row's tokens are spread over its group.      *)
(* (0 is a value computed from pieces of different rows.)                  *)
Forward ==
  /\ \A r \in Rank : at[r] = "run" /\ Ran(r) < Len(plan[r])
  /\ values' = [r \in Rank |-> Append(values[r],
       LET same == \A q \in SpGroup(r) : MicroRows(q) = MicroRows(r)
       IN  [i \in DOMAIN MicroRows(r) |-> IF same THEN MicroRows(r)[i].id ELSE 0])]
  /\ UNCHANGED <<batch, call, status, data, at, count, plan, result>>

(* restore_dynamic_batch, and postprocess_data's share of the group's rows. *)
Output(r) ==
  LET all == FlattenSeq(values[r])
      own == IF call.dynamic THEN Restored(all, plan[r]) ELSE all
  IN  IF call.mode = "dp" THEN Share(own, SP, SpRank(r)) ELSE own

(* ray.get on all the ranks, each of which has returned after its last     *)
(* micro-batch; collect_nd_compute, or all the outputs; concat; the        *)
(* padding taken off.                                                      *)
Unpadded(rows) == SubSeq(rows, 1, Len(rows) - call.pad)

Collect ==
  /\ status = "sent"
  /\ \A r \in Rank : at[r] = "run" /\ Ran(r) = Len(plan[r])
  /\ result' = Unpadded(FlattenSeq(
       [i \in 1 .. World |-> IF call.mode = "dp" \/ IsCollect(i - 1) THEN Output(i - 1)
                             ELSE <<>>]))
  /\ status' = "returned"
  /\ UNCHANGED <<batch, call, rankVars>>

CallStep ==
  \/ AllReduce \/ Forward \/ Collect
  \/ \E r \in Rank : Gather(r) \/ Split(r)

DispatchNext ==
  \/ \E n \in Sizes : \E lens \in [1 .. n -> Lengths] : NewBatch(lens)
  \/ BalanceBatch
  \/ DispatchPadded
  \/ \E dynamic \in BOOLEAN : DispatchNd(dynamic) \/ DispatchAutoPadded(dynamic)
  \/ CallStep

-----------------------------------------------------------------------------
(***************************************************************************)
(* Whatever the order of the rows, the padding, the split over the ranks   *)
(* and the micro-batches: value i of the result was computed from row i of *)
(* the caller's batch, by all the ranks that share it, and the padding is  *)
(* gone.                                                                   *)
(***************************************************************************)
RowsReturned ==
  status = "returned" =>
    /\ Len(result) = Cardinality({batch[i].id : i \in DOMAIN batch})
    /\ \A i \in DOMAIN result : result[i] = batch[i].id

(* No rank ever fails an assertion of the partitioning: another rank's     *)
(* larger number of micro-batches never exceeds its rows, and no           *)
(* micro-batch is empty.                                                   *)
NoRankRaises == \A r \in Rank : at[r] # "raised"

(***************************************************************************)
(* After _balance_batch the work of two data-parallel ranks differs by no  *)
(* more than that of two rows next to each other in order of length do, in *)
(* one of the groups of DpSize rows that order is cut into.                *)
(***************************************************************************)
RanksBalanced ==
  status = "balanced" =>
    LET w == Workloads(batch)
        rows == Ascending(w)
        all == [i \in DOMAIN batch |-> i]
        work(d) == Total(w, Share(all, DpSize, d))
    IN  \A d, e \in 0 .. DpSize - 1 :
          \E g \in 0 .. Len(batch) \div DpSize - 1 :
            work(d) - work(e) <= w[rows[(g + 1) * DpSize]] - w[rows[g * DpSize + 1]]

(***************************************************************************)
(* The work of two micro-batches of a rank differs by at most its longest  *)
(* row: the total over max_token_len gives their number, but nothing keeps *)
(* one of them under max_token_len.                                        *)
(***************************************************************************)
MicroBatchesBalanced ==
  \A r \in Rank : call.dynamic /\ plan[r] # <<>> =>
    LET w == Workloads(data[r])
    IN  \A p, q \in DOMAIN plan[r] :
          Total(w, plan[r][p]) - Total(w, plan[r][q]) <= Max(Range(w))

(* A call that was sent returns: the ranks, which enter the collectives of *)
(* the model once per micro-batch, all have the same number of them.       *)
CallReturns == (status = "sent") ~> (status = "returned")
=============================================================================
