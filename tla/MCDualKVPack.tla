--------------------------- MODULE MCDualKVPack -----------------------------
(***************************************************************************)
(* What happens to the rows of a batch between the controller and the      *)
(* packed forward pass, in two parts that share no state.                  *)
(*                                                                         *)
(* Micro-batches with uids, as the parity test builds them: one row after  *)
(* another, each of a new prompt or of one already there, the rows of a    *)
(* prompt not always next to each other (prepare_dynamic_batch and         *)
(* _balance_batch reorder rows).                                           *)
(*                                                                         *)
(* Batches of rows of every length, in every order, that are sent to a     *)
(* worker group (DataDispatch).                                            *)
(***************************************************************************)
EXTENDS DualKVPack, DataDispatch

CONSTANTS Prompts, MaxRows, RespLength, PromptLens_

(* The chat template leaves no prompt empty. *)
ASSUME BatchAssumption == PromptLens_ \subseteq Nat \ {0} /\ RespLength \in Nat

VARIABLES rows, plen

packVars == <<rows, plen>>
vars == <<packVars, dispatchVars>>

Uids == [i \in 1 .. Len(rows) |-> rows[i].prompt]

Init ==
  /\ rows = <<>>
  /\ plen \in [Prompts -> PromptLens_]
  /\ DispatchInit

(* The rollouts of a prompt are told apart by their place in the batch. *)
AddRow(p, n) ==
  /\ status = "idle"
  /\ Len(rows) < MaxRows
  /\ rows' = Append(rows, [prompt |-> p, roll |-> Len(rows), plen |-> plen[p], rlen |-> n])
  /\ UNCHANGED <<plen, dispatchVars>>

(* The prompts play no part in a call: one choice of them is enough. *)
Alone == rows = <<>> /\ \A p \in Prompts : plen[p] = Min(PromptLens_)

Next == \/ \E p \in Prompts, n \in 0 .. RespLength : AddRow(p, n)
        \/ Alone /\ DispatchNext /\ UNCHANGED packVars

(* Ray runs a call that was submitted, and a collective ends once all the  *)
(* ranks have entered it.                                                  *)
Spec == Init /\ [][Next]_vars /\ WF_vars(Alone /\ CallStep /\ UNCHANGED packVars)

Segments == Repack(rows, GroupSizes(Uids, Len(rows)))

(***************************************************************************)
(* With its uids, a micro-batch of any prompts in any order gets from      *)
(* _dualkv_repack, the two attention calls and _dualkv_extract_logprobs    *)
(* the log-probs the standard path gives it.                               *)
(***************************************************************************)
MultiGroupParity ==
  rows # <<>> =>
    ForwardMicroBatch(rows, Uids, RespLength) =
      Returns(StandardLogProbs(rows, RespLength))

=============================================================================
