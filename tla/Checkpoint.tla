----------------------------- MODULE Checkpoint -----------------------------
(***************************************************************************)
(* Checkpoints of the PPO trainer.  RayPPOTrainer._save_checkpoint has the *)
(* ranks of the actor and then of the critic write their shards, writes    *)
(* the position of the dataloader, and at last names the step in a tracker *)
(* file; _load_checkpoint goes the other way.  The process may stop        *)
(* between any two of these writes, and in the middle of one.              *)
(***************************************************************************)
EXTENDS Integers, Sequences

CONSTANTS
  Ranks,      \* of the workers; each writes a shard
  MaxStep,    \* bound: no configuration trains longer
  Configs     \* the configurations

Roles == {"actor", "critic"}
Steps == 1 .. MaxStep

ASSUME RanksAssumption == Ranks # {}

(* keep: max_actor_ckpt_to_keep and max_critic_ckpt_to_keep, 0 for None. *)
ASSUME ConfigAssumption ==
  /\ MaxStep \in Nat
  /\ \A c \in Configs : /\ c.mode \in {"ppo", "one_step_off"}
                        /\ c.use_critic \in BOOLEAN
                        /\ c.keep \in [Roles -> Nat]
                        /\ c.total \in Steps
                        /\ c.critic_warmup \in Nat

VARIABLES
  config,
  global_steps,
  model,      \* per role: the batches its weights were updated with
  taken,      \* how many batches the train_dataloader has handed out
  saving,     \* where _save_checkpoint is; "idle" outside
  role,       \* the worker group that is saving
  shard,      \* per rank: its part of the call
  paths,      \* per role: previous_saved_paths, in the memory of rank 0
  dirs,       \* per role: the global_step folders that have its directory
  files,      \* per role, step and rank: {} or the set of the saved weights
  data,       \* per step: data.pt
  tracker     \* latest_checkpointed_iteration.txt

memory == <<global_steps, model, taken>>
caller == <<saving, role, shard, paths>>
disk   == <<dirs, files, data, tracker>>
ckptVars == <<config, memory, caller, disk>>

Used == IF config.use_critic THEN Roles ELSE {"actor"}

(* Values of data and tracker that are not a number. *)
Absent == -2
Torn   == -1    \* opened with "w", not yet written

NoShards == [r \in Ranks |-> {}]

CkptInit ==
  /\ config \in Configs
  /\ global_steps = 0 /\ taken = 0
  /\ model = [x \in Roles |-> <<>>]
  /\ saving = "idle" /\ role = "actor"
  /\ shard = [r \in Ranks |-> "todo"]
  /\ paths = [x \in Roles |-> <<>>]
  /\ dirs = [x \in Roles |-> {}]
  /\ files = [x \in Roles |-> [s \in Steps |-> NoShards]]
  /\ data = [s \in Steps |-> Absent]
  /\ tracker = Absent

-----------------------------------------------------------------------------
(* _save_checkpoint.                                                       *)

SaveCheckpoint ==
  /\ saving = "idle"
  /\ saving' = "clean" /\ role' = "actor"
  /\ UNCHANGED <<config, memory, shard, paths, disk>>

(* keep_start: how many of the saved paths go. *)
KeepStartBug(saved, max) == IF max > 0 /\ Len(saved) >= max THEN Len(saved) ELSE 0
KeepStartLate(saved, max) == IF max > 0 /\ Len(saved) > max THEN Len(saved) - max + 1 ELSE 0
KeepStart(saved, max) == IF max > 0 /\ Len(saved) >= max THEN Len(saved) - max + 1 ELSE 0

(* Rank 0 removes old directories, then all the ranks have the new one. *)
Clean ==
  LET drop == KeepStart(paths[role], config.keep[role])
      gone == {paths[role][i] : i \in 1 .. drop}
  IN  /\ saving = "clean"
      /\ dirs' = [dirs EXCEPT ![role] = (@ \ gone) \cup {global_steps}]
      /\ files' = [files EXCEPT ![role] =
                     [s \in Steps |-> IF s \in gone THEN NoShards ELSE @[s]]]
      /\ paths' = [paths EXCEPT ![role] = SubSeq(@, drop + 1, Len(@))]
      /\ saving' = "write"
      /\ shard' = [r \in Ranks |-> "todo"]
      /\ UNCHANGED <<config, memory, role, data, tracker>>

OpenShard(r) ==
  /\ saving = "write" /\ shard[r] = "todo"
  /\ shard' = [shard EXCEPT ![r] = "open"]
  /\ files' = [files EXCEPT ![role][global_steps][r] = {}]
  /\ UNCHANGED <<config, memory, saving, role, paths, dirs, data, tracker>>

CloseShard(r) ==
  /\ saving = "write" /\ shard[r] = "open"
  /\ shard' = [shard EXCEPT ![r] = "done"]
  /\ files' = [files EXCEPT ![role][global_steps][r] = {model[role]}]
  /\ UNCHANGED <<config, memory, saving, role, paths, dirs, data, tracker>>

(* The barrier after the shards; then the critic's turn, or data.pt. *)
Saved ==
  /\ saving = "write" /\ \A r \in Ranks : shard[r] = "done"
  /\ paths' = [paths EXCEPT ![role] = Append(@, global_steps)]
  /\ IF role = "actor" /\ config.use_critic
     THEN saving' = "clean" /\ role' = "critic"
     ELSE saving' = "data" /\ UNCHANGED role
  /\ UNCHANGED <<config, memory, shard, disk>>

OpenData ==
  /\ saving = "data" /\ saving' = "open_data"
  /\ data' = [data EXCEPT ![global_steps] = Torn]
  /\ UNCHANGED <<config, memory, role, shard, paths, dirs, files, tracker>>

CloseData ==
  /\ saving = "open_data" /\ saving' = "tracker"
  /\ data' = [data EXCEPT ![global_steps] = taken]
  /\ UNCHANGED <<config, memory, role, shard, paths, dirs, files, tracker>>

OpenTracker ==
  /\ saving = "tracker" /\ saving' = "open_tracker"
  /\ tracker' = Torn
  /\ UNCHANGED <<config, memory, role, shard, paths, dirs, files, data>>

CloseTracker ==
  /\ saving = "open_tracker" /\ saving' = "idle"
  /\ tracker' = global_steps
  /\ UNCHANGED <<config, memory, role, shard, paths, dirs, files, data>>

SaveNext ==
  \/ Clean \/ Saved \/ OpenData \/ CloseData \/ OpenTracker \/ CloseTracker
  \/ \E r \in Ranks : OpenShard(r) \/ CloseShard(r)

-----------------------------------------------------------------------------
(* _load_checkpoint with resume_mode "auto".                               *)

(* find_latest_ckpt_path, or a rank's torch.load, raises. *)
Unreadable ==
  \/ tracker = Torn
  \/ /\ tracker \in Steps
     /\ \/ \E x \in Used : \E r \in Ranks : files[x][tracker][r] = {}
        \/ data[tracker] = Torn

LoadBug ==
  /\ ~Unreadable
  /\ IF tracker \notin Steps
     THEN UNCHANGED memory
     ELSE /\ global_steps' = tracker
          /\ model' = [x \in Roles |-> IF x \in Used
                         THEN CHOOSE v \in UNION {files[x][tracker][r] : r \in Ranks} : TRUE
                         ELSE model[x]]
          /\ UNCHANGED taken
  /\ UNCHANGED <<config, caller, disk>>
Load ==
  /\ ~Unreadable
  /\ IF tracker \notin Steps
     THEN UNCHANGED memory       \* "Training from scratch"
     ELSE /\ global_steps' = tracker
          /\ model' = [x \in Roles |-> IF x \in Used
                         THEN CHOOSE v \in UNION {files[x][tracker][r] : r \in Ranks} : TRUE
                         ELSE model[x]]
          /\ taken' = IF data[tracker] = Absent THEN 0 ELSE data[tracker]
  /\ UNCHANGED <<config, caller, disk>>

(* The job dies with whatever is in memory. *)
Stop ==
  /\ global_steps' = 0 /\ taken' = 0
  /\ model' = [x \in Roles |-> <<>>]
  /\ saving' = "idle" /\ role' = "actor"
  /\ shard' = [r \in Ranks |-> "todo"]
  /\ paths' = [x \in Roles |-> <<>>]
  /\ UNCHANGED <<config, disk>>

-----------------------------------------------------------------------------
(* A checkpoint that can be loaded: each rank's shard, all of one save.    *)
Complete(n) ==
  /\ \A x \in Used : \A r, q \in Ranks :
       files[x][n][r] # {} /\ files[x][n][r] = files[x][n][q]
  /\ data[n] \in Nat

(***************************************************************************)
(* Whatever write a crash interrupts, and however many crashes there were  *)
(* before, the step the tracker names can be loaded.  Not so with a limit  *)
(* of one, where the only complete checkpoint is removed before the next   *)
(* is written.                                                             *)
(***************************************************************************)
KeepsAnother == \A x \in Used : config.keep[x] # 1

ResumeSafe == KeepsAnother /\ tracker \in Steps => Complete(tracker)
=============================================================================
