--------------------------- MODULE DualKVAttention --------------------------
(***************************************************************************)
(* What the forward kernel promises, without blocks, grids or loops: every *)
(* row of the output is written once, with the attention of its query over *)
(* exactly the keys it attends to, each once.                              *)
(***************************************************************************)
EXTENDS DualKVLaunch

VARIABLES
  launch,   \* the call
  o         \* per row of the output: {} or the set of the value written to it

Init == /\ launch \in Launches
        /\ o = [r \in QRows(launch) |-> {}]

(* Some queries I of sequence b get their output. *)
Write(b, I) ==
  /\ \A i \in I : o[launch.cuQ[b] + i] = {}
  /\ o' = [r \in QRows(launch) |->
             IF \E i \in I : r = launch.cuQ[b] + i
             THEN {KeysOf(launch, b, r - launch.cuQ[b])} ELSE o[r]]
  /\ UNCHANGED launch

Next == \E b \in Batch(launch) : \E I \in SUBSET (0 .. QLen(launch, b) - 1) : Write(b, I)

Spec == Init /\ [][Next]_<<launch, o>>
=============================================================================
