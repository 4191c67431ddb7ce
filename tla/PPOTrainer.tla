----------------------------- MODULE PPOTrainer -----------------------------
(***************************************************************************)
(* The driver of PPO training, in its two forms: RayPPOTrainer.fit, where  *)
(* a batch is generated, trained on and forgotten, and                     *)
(* OneStepOffRayTrainer.fit, where the next batch is generated with the    *)
(* weights of before while the last one is trained on.  The job may die at *)
(* any point and is then started again.                                    *)
(*                                                                         *)
(* A batch is known by its number: the dataloader hands out 1, 2, ... and  *)
(* its state in data.pt is how many.  Weights are the batches they were    *)
(* updated with, their version is how many.                                *)
(***************************************************************************)
EXTENDS Checkpoint, FiniteSets

CONSTANTS
  Batches,      \* len(train_dataloader)
  TotalEpochs,
  MaxCrashes    \* bound

ASSUME TrainerAssumption ==
  /\ Batches \in Nat \ {0} /\ TotalEpochs \in Nat \ {0} /\ MaxCrashes \in Nat
  /\ \A c \in Configs : /\ c.total <= Batches * TotalEpochs
                        /\ c.total + MaxCrashes <= MaxStep
                        /\ c.save_freq \in Nat /\ c.test_freq \in Nat

VARIABLES
  pc,         \* of the driver
  epochs,     \* passes of the loop over epochs not begun
  last,       \* the last batch of the current pass
  restored,   \* the dataloader was restored and iter() not yet called
  batch,      \* the batch that is trained on, and the version it is from:
  future,     \* batch_data_future of one_step_off
  rollout,    \* the version of the rollout engine's weights
  val,        \* the last validation: after which step, of which version
  crashes,    \* ghost: crashes so far
  resumed     \* ghost: global_steps when this process started

driver == <<pc, epochs, last, restored, batch, future, rollout, val>>
trainerVars == <<ckptVars, driver, crashes, resumed>>

NoBatch == [id |-> 0, version |-> 0]
NoFuture == [state |-> "none", id |-> 0, version |-> 0]
Version == Len(model["actor"])

TrainerInit ==
  /\ CkptInit
  /\ pc = "load"
  /\ epochs = 0 /\ last = 0 /\ restored = FALSE
  /\ batch = NoBatch /\ future = NoFuture
  /\ rollout = 0 /\ val = [step |-> -1, version |-> 0]
  /\ crashes = 0 /\ resumed = 0

Goto(to) == pc' = to

(***************************************************************************)
(* The beginning of fit: the checkpoint, the weights of the rollout (by    *)
(* sync_rollout_weights, or by wake_up for the validation before           *)
(* training), and the epoch to go on with.                                 *)
(***************************************************************************)
LoadCheckpoint ==
  /\ pc = "load" /\ Load
  /\ Goto("validate_first")
  /\ restored' = (tracker \in Steps)
  /\ resumed' = global_steps'
  /\ last' = taken'
  /\ UNCHANGED <<epochs, batch, future, rollout, val, crashes>>

LoadFails ==
  /\ pc = "load" /\ Unreadable
  /\ Goto("unreadable")
  /\ UNCHANGED <<ckptVars, epochs, last, restored, batch, future, rollout, val,
                 crashes, resumed>>

ValBeforeTrain ==
  /\ pc = "validate_first"
  /\ rollout' = Version
  /\ val' = [step |-> global_steps, version |-> Version]
  /\ global_steps' = global_steps + 1
  /\ epochs' = IF config.mode = "ppo" THEN TotalEpochs - global_steps \div Batches
                                      ELSE TotalEpochs
  /\ Goto("next")
  /\ UNCHANGED <<config, model, taken, caller, disk, last, restored, batch, future,
                 crashes, resumed>>

-----------------------------------------------------------------------------
(***************************************************************************)
(* The next batch of the loops over epochs and batches; after the last one *)
(* "out" happens.  When the dataloader was saved with the last batch of a  *)
(* pass handed out, the first pass after the restart is either a new one   *)
(* or an empty one: both are allowed to the library.                       *)
(***************************************************************************)
EmptyPasses == IF restored /\ taken % Batches = 0 THEN {0, 1} ELSE {0}

PassesLeft(empty) == IF taken < last THEN epochs ELSE epochs - 1 - empty

Draw(got, out) ==
  \E empty \in EmptyPasses :
    /\ restored' = FALSE
    /\ IF PassesLeft(empty) < 0
       THEN epochs' = 0 /\ out /\ UNCHANGED <<taken, last>>
       ELSE /\ taken' = taken + 1
            /\ epochs' = PassesLeft(empty)
            /\ last' = (taken \div Batches + 1) * Batches
            /\ got

is_last_stepBug == global_steps > config.total
is_last_step == global_steps >= config.total

(* RayPPOTrainer.fit: the next batch; the servers wake up with the weights *)
(* of the actor, and generate.                                             *)
NextBatch ==
  /\ config.mode = "ppo" /\ pc = "next"
  /\ Draw(batch' = [id |-> taken + 1, version |-> 0] /\ Goto("wake_up"),
          Goto("done") /\ UNCHANGED batch)
  /\ UNCHANGED <<config, global_steps, model, caller, disk, future, rollout, val,
                 crashes, resumed>>

WakeUpBug ==
  /\ config.mode = "ppo" /\ pc = "wake_up"
  /\ Goto("generate")
  /\ UNCHANGED <<ckptVars, epochs, last, restored, batch, future, rollout, val,
                 crashes, resumed>>
WakeUp ==
  /\ config.mode = "ppo" /\ pc = "wake_up"
  /\ rollout' = Version
  /\ Goto("generate")
  /\ UNCHANGED <<ckptVars, epochs, last, restored, batch, future, val, crashes, resumed>>

Generated ==
  /\ pc = "generate"
  /\ batch' = [batch EXCEPT !.version = rollout]
  /\ Goto("update_critic")
  /\ UNCHANGED <<ckptVars, epochs, last, restored, future, rollout, val, crashes, resumed>>

-----------------------------------------------------------------------------
(* OneStepOffRayTrainer.fit.                                               *)

(* create_task(_async_gen_next_batch) and its first step, which takes a    *)
(* batch and sends it to the rollout workers.                              *)
StartTask(version) ==
  Draw(future' = [state |-> "running", id |-> taken + 1, version |-> version],
       future' = [state |-> "none", id |-> 0, version |-> 0])

FirstTask ==
  /\ config.mode = "one_step_off" /\ pc = "next" /\ future.state = "none"
  /\ StartTask(rollout)
  /\ Goto("await")
  /\ UNCHANGED <<config, global_steps, model, caller, disk, batch, rollout, val,
                 crashes, resumed>>

(* The rollout workers have finished. *)
GenerationEnds ==
  /\ future.state = "running"
  /\ future' = [future EXCEPT !.state = "ready"]
  /\ UNCHANGED <<ckptVars, pc, epochs, last, restored, batch, rollout, val, crashes, resumed>>

(* await batch_data_future; the task returns None after the last batch, of *)
(* which five values are unpacked.                                         *)
AwaitBatchBug ==
  /\ pc = "await" /\ future.state # "running"
  /\ IF future.state = "none"
     THEN Goto("await") /\ UNCHANGED batch
     ELSE /\ batch' = [id |-> future.id, version |-> future.version]
          /\ Goto("sync_rollout_weights")
  /\ UNCHANGED <<ckptVars, epochs, last, restored, future, rollout, val, crashes, resumed>>
AwaitBatch ==
  /\ pc = "await" /\ future.state # "running"
  /\ IF future.state = "none"
     THEN Goto("exhausted") /\ UNCHANGED batch
     ELSE /\ batch' = [id |-> future.id, version |-> future.version]
          /\ Goto("sync_rollout_weights")
  /\ UNCHANGED <<ckptVars, epochs, last, restored, future, rollout, val, crashes, resumed>>

(* sync_rollout_weights, and the task for the next batch. *)
Sync ==
  /\ pc = "sync_rollout_weights"
  /\ rollout' = Version
  /\ IF is_last_step THEN UNCHANGED <<taken, last, epochs, restored, future>>
                     ELSE StartTask(Version)
  /\ Goto("update_critic")
  /\ UNCHANGED <<config, global_steps, model, caller, disk, batch, val, crashes, resumed>>

-----------------------------------------------------------------------------
(* The rest of a step is the same for both.                                *)

UpdateCritic ==
  /\ pc = "update_critic"
  /\ model' = IF config.use_critic THEN [model EXCEPT !["critic"] = Append(@, batch.id)]
              ELSE model
  /\ Goto("update_actor")
  /\ UNCHANGED <<config, global_steps, taken, caller, disk, epochs, last, restored, batch,
                 future, rollout, val, crashes, resumed>>

UpdateActor ==
  /\ pc = "update_actor"
  /\ model' = IF config.critic_warmup <= global_steps
              THEN [model EXCEPT !["actor"] = Append(@, batch.id)] ELSE model
  /\ Goto("validate")
  /\ UNCHANGED <<config, global_steps, taken, caller, disk, epochs, last, restored, batch,
                 future, rollout, val, crashes, resumed>>

(* generate_sequences wakes the servers of a hybrid engine with the actor's *)
(* weights; rollout_wg of one_step_off has what it was last sent.           *)
ValidateBug ==
  /\ pc = "validate"
  /\ IF config.test_freq > 0 /\ (is_last_step \/ global_steps % config.test_freq = 0)
     THEN val' = [step |-> global_steps, version |-> rollout]
     ELSE UNCHANGED val
  /\ Goto("save")
  /\ UNCHANGED <<ckptVars, epochs, last, restored, batch, future, rollout, crashes, resumed>>
Validate ==
  /\ pc = "validate"
  /\ IF config.test_freq > 0 /\ (is_last_step \/ global_steps % config.test_freq = 0)
     THEN /\ rollout' = IF config.mode = "ppo" THEN Version ELSE rollout
          /\ val' = [step |-> global_steps, version |-> rollout']
     ELSE UNCHANGED <<rollout, val>>
  /\ Goto("save")
  /\ UNCHANGED <<ckptVars, epochs, last, restored, batch, future, crashes, resumed>>

(* should_save_ckpt_esi may be true after any step. *)
MaySave == \/ /\ pc = "save" /\ config.save_freq > 0
              /\ SaveCheckpoint
              /\ Goto("saving")
           \/ /\ pc = "save"
              /\ ~(config.save_freq > 0
                   /\ (is_last_step \/ global_steps % config.save_freq = 0))
              /\ UNCHANGED ckptVars
              /\ Goto("end_step")

Save == MaySave /\ UNCHANGED <<epochs, last, restored, batch, future, rollout, val,
                               crashes, resumed>>

Saving == /\ pc = "saving" /\ SaveNext
          /\ Goto(IF saving' = "idle" THEN "end_step" ELSE "saving")
          /\ UNCHANGED <<epochs, last, restored, batch, future, rollout, val, crashes, resumed>>

EndStep ==
  /\ pc = "end_step"
  /\ global_steps' = global_steps + 1
  /\ batch' = NoBatch
  /\ Goto(IF is_last_step THEN "done"
          ELSE IF config.mode = "ppo" THEN "next" ELSE "await")
  /\ UNCHANGED <<config, model, taken, caller, disk, epochs, last, restored, future,
                 rollout, val, crashes, resumed>>

-----------------------------------------------------------------------------
Ended == pc \in {"done", "exhausted", "unreadable"}

(* The job dies, and is submitted again. *)
Crash ==
  /\ ~Ended /\ crashes < MaxCrashes
  /\ Stop
  /\ pc' = "load"
  /\ epochs' = 0 /\ last' = 0 /\ restored' = FALSE
  /\ batch' = NoBatch /\ future' = NoFuture
  /\ rollout' = 0 /\ val' = [step |-> -1, version |-> 0]
  /\ crashes' = crashes + 1 /\ resumed' = 0

Idle == Ended /\ UNCHANGED trainerVars

FitStep == \/ LoadCheckpoint \/ LoadFails \/ ValBeforeTrain
           \/ NextBatch \/ WakeUp \/ Generated
           \/ FirstTask \/ GenerationEnds \/ AwaitBatch \/ Sync
           \/ UpdateCritic \/ UpdateActor \/ Validate \/ Save \/ Saving \/ EndStep

TrainerNext == FitStep \/ Crash \/ Idle

TrainerSpec == TrainerInit /\ [][TrainerNext]_trainerVars

-----------------------------------------------------------------------------
(***************************************************************************)
(* Between two steps the weights are what an undisturbed run would have:   *)
(* every batch from the first in order, those of the warmup for the critic *)
(* alone, through any number of crashes.  Not in one_step_off: there the   *)
(* position of the dataloader is saved with a batch already on its way,    *)
(* and a restart goes on behind it, so each restart may lose one.          *)
(***************************************************************************)
Updates(x, n) ==
  IF x = "critic" \/ config.critic_warmup <= 1 THEN n
  ELSE IF n < config.critic_warmup THEN 0 ELSE n - config.critic_warmup + 1

BatchesInOrder ==
  pc \in {"next", "await"} =>
    \A x \in Used :
      LET seen == model[x]
          n == Len(seen)
      IN  /\ n = Updates(x, global_steps - 1)
          /\ \A i \in 1 .. n - 1 : seen[i] < seen[i + 1]
          /\ n > 0 => seen[n] - (global_steps - 1) \in
                        0 .. (IF config.mode = "ppo" THEN 0 ELSE crashes)

(***************************************************************************)
(* A batch is trained on by the policy that generated it or, in            *)
(* one_step_off, by that policy's successor.                               *)
(***************************************************************************)
OffPolicyLag ==
  pc = "update_actor" =>
    Version - batch.version \in (IF config.mode = "ppo" THEN {0} ELSE {0, 1})

(***************************************************************************)
(* What a validation is logged for: the weights after the step or, in      *)
(* one_step_off, those before it.                                          *)
(***************************************************************************)
ValidatedWeights ==
  val.step = global_steps /\ pc = "save" =>
    Version - val.version \in
      (IF config.mode = "ppo" \/ global_steps < config.critic_warmup THEN {0} ELSE {1})

(***************************************************************************)
(* Training ends with its last step.  The exceptions all begin with a      *)
(* restart: the end of a pass was saved (then a pass may be missing), the  *)
(* last step was saved (then one more follows), or one_step_off lost a     *)
(* batch in the first epoch (then it fails for want of one).               *)
(***************************************************************************)
EndsAtLastStep ==
  /\ pc = "done" =>
       \/ global_steps = config.total + 1
       \/ config.mode = "ppo" /\ resumed > 0 /\ resumed % Batches = 0
       \/ resumed >= config.total
  /\ pc = "exhausted" => config.mode = "one_step_off" /\ resumed > 0
  /\ global_steps > config.total + 1 => resumed >= config.total

(***************************************************************************)
(* keep checkpoints at most, again after each restart: what an earlier     *)
(* process saved is never removed.                                         *)
(***************************************************************************)
KeepBound ==
  \A x \in Used : config.keep[x] > 0 =>
    Cardinality(dirs[x]) <= config.keep[x] * (crashes + 1)
=============================================================================
