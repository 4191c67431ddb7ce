-------------------------- MODULE MCDualKVKernels ---------------------------
EXTENDS DualKVBackward, Sequences, SequencesExt

(* A call with decoded lengths "dec" and query lengths "qs". *)
MaxOf(s) == CHOOSE m \in {s[k] : k \in DOMAIN s} : \A k \in DOMAIN s : s[k] <= m
Cumulated(s) == [b \in 0 .. Len(s) |-> FoldLeft(+, 0, SubSeq(s, 1, b))]
Call(ctx, ds, qs, heads, ratio, causal) ==
  [batch |-> Len(ds), ctx |-> ctx, cuQ |-> Cumulated(qs), cuK |-> Cumulated(ds),
   maxQ |-> MaxOf(qs), maxK |-> MaxOf(ds), heads |-> heads, ratio |-> ratio,
   causal |-> causal]

(* Queries for the responses alone ("SplitQ", as the actor calls it), or   *)
(* for context and response, as the tests of the kernel do.                *)
SplitQ(ctx, ds, heads, ratio, causal) == Call(ctx, ds, ds, heads, ratio, causal)
FullQ(ctx, ds, heads, ratio, causal) ==
  Call(ctx, ds, [b \in 1 .. Len(ds) |-> ctx + ds[b]], heads, ratio, causal)

(* Calls that are differentiated: sequences of different lengths, several  *)
(* query heads per KV head, blocks that end in the middle of a sequence.   *)
MCBackwards ==
  {SplitQ(1, <<3, 1>>, 1, 1, TRUE), SplitQ(1, <<1, 3>>, 1, 1, FALSE), SplitQ(3, <<1, 1>>, 1, 1, TRUE),
   SplitQ(2, <<0, 3>>, 1, 1, TRUE), FullQ(1, <<1, 2>>, 1, 1, TRUE),
   SplitQ(1, <<2>>, 2, 2, TRUE), FullQ(2, <<1>>, 2, 1, TRUE),
   Call(1, <<2, 1>>, <<0, 1>>, 1, 1, TRUE), Call(1, <<1>>, <<3>>, 1, 1, TRUE)}

(***************************************************************************)
(* The forward pass is run for one sequence of every length around the     *)
(* block size too, and two sequences of different lengths, so that a block *)
(* that is not full is followed by rows of another sequence.  The last     *)
(* call has more queries than keys.                                        *)
(***************************************************************************)
MCLaunches ==
  {SplitQ(ctx, <<d>>, 1, 1, TRUE) : ctx \in 0 .. 3, d \in 0 .. 3}
    \cup {FullQ(ctx, <<d>>, 1, 1, TRUE) : ctx \in 0 .. 3, d \in 0 .. 3}
    \cup {SplitQ(3, <<3, 2>>, 1, 1, TRUE), SplitQ(3, <<1, 3>>, 1, 1, FALSE),
          Call(1, <<0, 1>>, <<3, 1>>, 1, 1, TRUE)}
    \cup MCBackwards
=============================================================================
