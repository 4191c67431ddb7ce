------------------------------ MODULE Training ------------------------------
(***************************************************************************)
(* The trainer with the agent loops that generate its batches.  A          *)
(* generation begins when the driver asks for it and is over when all of   *)
(* its conversations are; in one_step_off the driver goes on meanwhile.    *)
(***************************************************************************)
EXTENDS PPOTrainer, AgentLoop, Advantages

(***************************************************************************)
(* A configuration also has the rows of a batch and the set-up of the      *)
(* rollout.  The dataset leaves out the prompts that are longer than       *)
(* prompt_length, and the rows are an equal number for each worker.        *)
(***************************************************************************)
ASSUME RolloutAssumption ==
  \A c \in Configs :
    /\ c.rows \in Seq([agent : {"tool_agent", "single_turn_agent"}, prompt : 0 .. PromptLength])
    /\ c.setup \in [workers : Nat \ {0}, interaction : BOOLEAN, log_probs : BOOLEAN,
                    max_assistant_turns : Nat, max_user_turns : Nat]
    /\ Len(c.rows) % c.setup.workers = 0

trainingVars == <<trainerVars, loopVars>>

TrainingInit == TrainerInit /\ LoopInit(config.setup)

Generating == pc = "generate" \/ future.state = "running"

(* generate_sequences is called. *)
Begin ==
  /\ WakeUp \/ FirstTask \/ Sync
  /\ IF Generating' THEN StartLoops(config.rows) ELSE UNCHANGED loopVars

(* It returns. *)
End ==
  /\ Generated \/ GenerationEnds
  /\ LoopsDone
  /\ UNCHANGED loopVars

Loop == Generating /\ LoopStep /\ UNCHANGED trainerVars

Step == \/ Begin \/ End \/ Loop
        \/ /\ \/ LoadCheckpoint \/ LoadFails \/ ValBeforeTrain \/ NextBatch \/ AwaitBatch
              \/ UpdateCritic \/ UpdateActor \/ Validate \/ Save \/ Saving \/ EndStep
           /\ UNCHANGED loopVars

(* The workers die with the job. *)
Restart ==
  /\ Crash
  /\ rows' = <<>> /\ conv' = <<>>
  /\ requests' = [w \in DOMAIN requests |-> [v \in 1 .. Servers |-> 0]]
  /\ sessions' = [w \in DOMAIN sessions |-> <<>>]
  /\ UNCHANGED setup

(* An exception of a conversation ends the job where its result is awaited. *)
Finished == Ended \/ (Generating /\ LoopFailed)

Stopped == Finished /\ UNCHANGED trainingVars

TrainingSpec ==
  /\ TrainingInit
  /\ [][Step \/ Restart \/ Stopped]_trainingVars
  /\ WF_trainingVars(Step)

(* The job ends, also when it crashes as often as it may. *)
Ends == <>Finished

-----------------------------------------------------------------------------
(***************************************************************************)
(* What the tokens of a conversation learn from its score, for critics     *)
(* that give a value to any one position.  GAE: the tokens the model       *)
(* generated have the advantages of a trajectory of just these tokens, as  *)
(* if no tool had answered in between.  REINFORCE++, which takes what is   *)
(* masked for the padding behind the end: only the tokens behind the last  *)
(* answer of a tool have a return, the turns before it have none.  The     *)
(* score is on the last token, which a simulated user may have written:    *)
(* then no token learns from it.                                           *)
(***************************************************************************)
AdvantagesOfGenerated ==
  \A i \in Row : conv[i].state = "terminated" =>
    LET out == Output(conv[i])
        mask == out.response_mask
        rewards == RewardsAt(ResponseLength, out.score_at, 1)
        generated == GeneratedAt(mask)
        of(s) == [k \in DOMAIN generated |-> s[generated[k]]]
        returns == ReinforceReturns(rewards, mask)
    IN  /\ \A at \in 0 .. ResponseLength :
             LET values == RewardsAt(ResponseLength, at, 1)
             IN  \A k \in DOMAIN generated :
                   of(Gae(rewards, values, mask))[k] =
                     GaeDefinition(of(rewards), of(values), k)
        /\ \A t \in Range(generated) :
             returns[t] = IF \A u \in t .. out.score_at : mask[u] = 1
                          THEN Power(Gamma, out.score_at - t) ELSE 0
=============================================================================
