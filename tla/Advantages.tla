----------------------------- MODULE Advantages -----------------------------
(***************************************************************************)
(* What the trainer makes of the score of a row: the advantages of GAE and *)
(* the returns of REINFORCE++, both by a loop from the last position of    *)
(* the response to the first.  Whitening, which shifts and scales them,    *)
(* and the penalty for the KL divergence are left out; numbers are         *)
(* integers.                                                               *)
(***************************************************************************)
EXTENDS Integers, Sequences, Sums

CONSTANTS Gamma, Lambda   \* gamma and lam of the algorithm

ASSUME AdvantageAssumption == Gamma \in Nat /\ Lambda \in Nat

(* rm_scores, which are the token_level_rewards: the score is on the last  *)
(* position that is not padding.                                           *)
RewardsAt(length, last, score) == [t \in 1 .. length |-> IF t = last THEN score ELSE 0]

-----------------------------------------------------------------------------
(* compute_gae_advantage_return.  acc has nextvalues and lastgaelam of the *)
(* position behind.                                                        *)

GaeStepBug(rewards, values, mask, t, acc) ==
  LET delta == rewards[t] + Gamma * acc.nextvalues - values[t]
      lastgaelam == delta + Gamma * Lambda * acc.lastgaelam
  IN  [nextvalues |-> values[t],
       lastgaelam |-> lastgaelam * mask[t] + (1 - mask[t]) * acc.lastgaelam]
GaeStep(rewards, values, mask, t, acc) ==
  LET delta == rewards[t] + Gamma * acc.nextvalues - values[t]
      lastgaelam == delta + Gamma * Lambda * acc.lastgaelam
  IN  [nextvalues |-> values[t] * mask[t] + (1 - mask[t]) * acc.nextvalues,
       lastgaelam |-> lastgaelam * mask[t] + (1 - mask[t]) * acc.lastgaelam]

(* The last i positions, from the last one on. *)
Gae(rewards, values, mask) ==
  LET n == Len(rewards)
      acc[i \in 0 .. n] == IF i = 0 THEN [nextvalues |-> 0, lastgaelam |-> 0]
                           ELSE GaeStep(rewards, values, mask, n + 1 - i, acc[i - 1])
  IN  [t \in 1 .. n |-> acc[n + 1 - t].lastgaelam]

(* compute_reinforce_plus_plus_outcome_advantage: running_return after i   *)
(* positions, reset where the mask is 0.                                   *)
ReinforceReturns(rewards, mask) ==
  LET n == Len(rewards)
      running[i \in 0 .. n] ==
        IF i = 0 THEN 0
        ELSE (rewards[n + 1 - i] + Gamma * running[i - 1]) * mask[n + 1 - i]
  IN  [t \in 1 .. n |-> rewards[t] + Gamma * running[n - t]]

-----------------------------------------------------------------------------
(* Reference: generalized advantage estimation of a trajectory without     *)
(* gaps, by its definition as a sum of temporal differences.               *)

Power(b, k) == LET p[i \in 0 .. k] == IF i = 0 THEN 1 ELSE b * p[i - 1] IN p[k]

TemporalDifference(rewards, values, u) ==
  rewards[u] + Gamma * (IF u < Len(values) THEN values[u + 1] ELSE 0) - values[u]

GaeDefinition(rewards, values, t) ==
  LET n == Len(rewards) - t + 1
  IN  SumOf([i \in 1 .. n |-> Power(Gamma * Lambda, i - 1)
                               * TemporalDifference(rewards, values, t + i - 1)], n)

(* The positions of a response that a server generated, in order.          *)
GeneratedAt(mask) ==
  LET upto[t \in 0 .. Len(mask)] ==
        IF t = 0 THEN <<>>
        ELSE IF mask[t] = 1 THEN Append(upto[t - 1], t) ELSE upto[t - 1]
  IN  upto[Len(mask)]
=============================================================================
