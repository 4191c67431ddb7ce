-------------------------- MODULE SeqlenBalancing ---------------------------
(***************************************************************************)
(* verl/utils/seqlen_balancing.py: how rows of different lengths are       *)
(* spread over ranks or over micro-batches of about the same work, by the  *)
(* largest differencing method of Karmarkar and Karp, and how the results  *)
(* of the micro-batches are put back into the order of the rows.           *)
(*                                                                         *)
(* Rows are numbered from 1.  "w" is a sequence of workloads, one per row. *)
(***************************************************************************)
EXTENDS Integers, Sequences, SequencesExt, FiniteSetsExt, Sums

Workload(len) == 24576 * len + len * len

Total(w, part) == SumOf([j \in DOMAIN part |-> w[part[j]]], Len(part))

-----------------------------------------------------------------------------
(* "x", which TLC evaluates once here, and else wherever a parameter or a  *)
(* LET that stands for it is used.                                         *)
Once(x, Op(_)) == CHOOSE y \in {Op(v) : v \in {x}} : TRUE

(* The place of each element of s in the order of Precedes; of two that    *)
(* are equal in it the one that is first in s is first.                    *)
Places(s, Precedes(_, _)) ==
  [i \in 1 .. Len(s) |->
     1 + Cardinality({j \in 1 .. Len(s) : \/ Precedes(s[j], s[i])
                                          \/ j < i /\ ~Precedes(s[i], s[j])})]

(* sorted(). *)
SortedBy(s, Precedes(_, _)) ==
  Once(s, LAMBDA v : Once(Places(v, Precedes), LAMBDA place :
    [k \in 1 .. Len(v) |-> v[CHOOSE i \in 1 .. Len(v) : place[i] = k]]))

-----------------------------------------------------------------------------
(* A Set is a part of the partition to be; no two of them that are not     *)
(* empty have the same first item.                                         *)

Joined(a, b) == [sum |-> a.sum + b.sum, items |-> a.items \o b.items]

Larger(a, b) ==
  \/ a.sum > b.sum
  \/ a.sum = b.sum /\ Len(a.items) > Len(b.items)
  \/ /\ a.sum = b.sum /\ Len(a.items) = Len(b.items) /\ a.items # <<>>
     /\ Head(a.items) > Head(b.items)

(* A State is a partition of some of the rows into k Sets, largest first.  *)
State(w, rows, k) ==
  SortedBy([i \in 1 .. k |-> IF i <= Len(rows)
                            THEN [sum |-> w[rows[i]], items |-> <<rows[i]>>]
                            ELSE [sum |-> 0, items |-> <<>>]], Larger)

Spread(s) == s[1].sum - s[Len(s)].sum

(* The order of the heap. *)
PoppedBefore(s, t) == \/ Spread(s) > Spread(t)
                      \/ Spread(s) = Spread(t) /\ Larger(s[1], t[1])

(* The largest Set of one State goes to the smallest of the other.         *)
MergeBug(s, t) == SortedBy([i \in DOMAIN s |-> Joined(s[i], t[i])], Larger)
Merge(s, t) == SortedBy([i \in DOMAIN s |-> Joined(s[i], t[Len(t) + 1 - i])], Larger)

Popped(states) == CHOOSE s \in states : \A t \in states : ~PoppedBefore(t, s)

(* One round of the loop on the heap. *)
MergeTwo(heap) ==
  Once(Popped(heap), LAMBDA s :
    Once(Popped(heap \ {s}), LAMBDA t : (heap \ {s, t}) \cup {Merge(s, t)}))

(* Rows by workload, then number.                                          *)
Sorted(w, rows) == SortedBy(rows, LAMBDA i, j : w[i] < w[j] \/ (w[i] = w[j] /\ i < j))
Ascending(w) == Sorted(w, [i \in DOMAIN w |-> i])

InitialStates(w, k, equal_size) ==
  Once(Ascending(w), LAMBDA rows :
    IF equal_size
    THEN {State(w, SubSeq(rows, g * k + 1, g * k + k), k) : g \in 0 .. Len(w) \div k - 1}
    ELSE {State(w, <<rows[i]>>, k) : i \in DOMAIN rows})

ConsecutiveBug(w, k, equal_size) ==
  LET n == Len(w) \div k
  IN  [p \in 1 .. k |-> SubSeq(Ascending(w), (p - 1) * n + 1, IF p = k THEN Len(w) ELSE p * n)]
karmarkar_karp(w, k, equal_size) ==
  Once(InitialStates(w, k, equal_size), LAMBDA states :
    LET rounds == Cardinality(states) - 1
        heap[i \in 0 .. rounds] == IF i = 0 THEN states ELSE Once(heap[i - 1], MergeTwo)
    IN  CHOOSE parts \in {[p \in 1 .. k |-> s[p].items] : s \in heap[rounds]} : TRUE)

(* get_seqlen_balanced_partitions: each part in the order of the rows.     *)
Partitions(w, k, equal_size) ==
  Once(karmarkar_karp(w, k, equal_size),
       LAMBDA parts : [p \in 1 .. k |-> SortedBy(parts[p], <)])

(* Its assertions, and those of karmarkar_karp.                            *)
PartitionAsserts(w, k, equal_size) ==
  /\ Len(w) >= k
  /\ equal_size => Len(w) % k = 0
  /\ \A parts \in {Partitions(w, k, equal_size)} :
         /\ \A p \in 1 .. k : parts[p] # <<>>
         /\ equal_size => \A p \in 1 .. k : Len(parts[p]) * k = Len(w)
         /\ UNION {Range(parts[p]) : p \in 1 .. k} = DOMAIN w

-----------------------------------------------------------------------------
(* s[::2] and s[1::2].                                                     *)
Evens(s) == [i \in 1 .. (Len(s) + 1) \div 2 |-> s[2 * i - 1]]
Odds(s)  == [i \in 1 .. Len(s) \div 2 |-> s[2 * i]]

(* ceildiv.                                                                *)
CeilDiv(a, b) == (a + b - 1) \div b

(* The number of micro-batches one rank would like for rows of lengths ls. *)
MicroBatchCountBug(ls, max_token_len) ==
  SumOf(ls, Len(ls)) \div max_token_len + 1
MicroBatchCount(ls, max_token_len) ==
  Min({Len(ls), CeilDiv(SumOf(ls, Len(ls)), max_token_len)})

(* rearrange_micro_batches, once the ranks agree on the number.            *)
MoreWork(w, p, q) ==
  Total(w, p) > Total(w, q) \/ (Total(w, p) = Total(w, q) /\ Head(p) > Head(q))
MostWorkFirst(w, num) ==
  SortedBy(Partitions(w, num, FALSE), LAMBDA p, q : MoreWork(w, p, q))
MicroBatches(w, num) ==
  Once(MostWorkFirst(w, num), LAMBDA s : Reverse(Evens(s)) \o Odds(s))

(* get_reverse_idx.                                                        *)
ReverseIdx(idx) == [j \in DOMAIN idx |-> CHOOSE i \in DOMAIN idx : idx[i] = j]

(* restore_dynamic_batch: "values" are in the order of the micro-batches.  *)
Restored(values, batch_idx_list) ==
  LET revert == ReverseIdx(FlattenSeq(batch_idx_list))
  IN  [j \in DOMAIN values |-> values[revert[j]]]

(* The row order of _balance_batch: each rank's share has the longest rows *)
(* in the middle; the shares follow each other.                            *)
BalancedOrder(w, dp_size) ==
  Once(Partitions(w, dp_size, TRUE), LAMBDA parts :
    FlattenSeq([p \in 1 .. dp_size |->
      Once(Sorted(w, parts[p]), LAMBDA s : Evens(s) \o Reverse(Odds(s)))]))
=============================================================================
