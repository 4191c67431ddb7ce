-------------------------- MODULE MCUlyssesDualKV ---------------------------
EXTENDS UlyssesDualKV

(* Two rollouts of a prompt of two tokens, the first of one token. *)
Row(roll, n) == [prompt |-> 1, roll |-> roll, plen |-> 2, rlen |-> n]
Batches == {<<Row(1, 1), Row(2, 2)>>, <<Row(1, 2), Row(2, 0)>>, <<Row(1, 0), Row(2, 0)>>}

(***************************************************************************)
(* As many KV heads as ranks, one for all of them, more of them; and, on   *)
(* the standard path, fewer than ranks.                                    *)
(***************************************************************************)
Layouts(path) ==
  {[path |-> path, sp |-> 1, heads |-> 2, kv |-> 1],
   [path |-> path, sp |-> 2, heads |-> 4, kv |-> 2],
   [path |-> path, sp |-> 2, heads |-> 2, kv |-> 1]}

With(layout, rows) == ("rows" :> rows) @@ layout

MCJobs ==
  {With(l, b) : l \in Layouts("dualkv") \cup Layouts("standard"), b \in Batches}
    \cup {With([path |-> "standard", sp |-> 4, heads |-> 4, kv |-> 2], <<Row(1, 1), Row(2, 2)>>)}
    \cup {With([path |-> "fused", sp |-> 1, heads |-> 2, kv |-> 1], b) : b \in Batches}

(* The layouts of which the equality with one device is proved. *)
ASSUME LayoutsSupported == \A j \in MCJobs : SupportedLayout(j)

(* More ranks than KV heads, as num_key_value_heads = 2 and sp = 4. *)
FewKVHeads == {With([path |-> "dualkv", sp |-> 4, heads |-> 4, kv |-> 2], <<Row(1, 1), Row(2, 2)>>)}

FusedJobs == {With([path |-> "fused", sp |-> 2, heads |-> 2, kv |-> 2], <<Row(1, 1), Row(2, 2)>>)}
=============================================================================
