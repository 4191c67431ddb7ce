--------------------------- MODULE TrainingProofs ---------------------------
(***************************************************************************)
(* A restart finds the checkpoint its tracker names complete, for every    *)
(* number of ranks, limit of checkpoints, frequency and length of the      *)
(* training, and any number of crashes at any write.                       *)
(*                                                                         *)
(* The argument: the tracker is behind global_steps wherever something is  *)
(* written under global_steps, and Clean, which removes all but the last   *)
(* paths it remembers, remembers the tracker's step as the last one, if at *)
(* all.  The second part holds between two saves and breaks for the actor  *)
(* while the critic is still to be saved, but then the actor is not        *)
(* cleaned again.                                                          *)
(*                                                                         *)
(* And the directories stay within the limits: those a process does not    *)
(* remember are at most keep for each process before it.                   *)
(*                                                                         *)
(* Then the driver, the agent loops composed with it, and the advantages   *)
(* that the finished conversations get.                                    *)
(***************************************************************************)
EXTENDS Training, Division, SequenceTheorems

Pcs == {"load", "validate_first", "next", "wake_up", "generate", "await",
        "sync_rollout_weights", "update_critic", "update_actor", "validate", "save",
        "saving", "end_step", "done", "exhausted", "unreadable"}

Late == {"data", "open_data", "tracker", "open_tracker"}

(* The worker group of x has saved its part of this call. *)
HasSaved(x) ==
  \/ saving \in Late
  \/ saving \in {"clean", "write"} /\ role = "critic" /\ x = "actor"

Types ==
  /\ config \in Configs
  /\ global_steps \in Nat /\ taken \in Nat /\ crashes \in 0 .. MaxCrashes
  /\ saving \in {"idle", "clean", "write"} \cup Late
  /\ role \in Used
  /\ paths \in [Roles -> Seq(Nat)]
  /\ DOMAIN files = Roles
  /\ \A x \in Roles : DOMAIN files[x] = Steps
  /\ \A x \in Roles : \A s \in Steps : DOMAIN files[x][s] = Ranks
  /\ data \in [Steps -> Nat \cup {Absent, Torn}]
  /\ tracker \in Steps \cup {Absent, Torn}
  /\ DOMAIN shard = Ranks
  /\ pc \in Pcs
  /\ (saving # "idle") = (pc = "saving")

(* Where the driver is, and so how far the training can have come. *)
Counted ==
  /\ pc = "load" => global_steps = 0 /\ (tracker \in Steps => tracker < config.total + crashes)
  /\ pc = "validate_first" =>
       /\ global_steps < config.total + crashes
       /\ tracker \in Steps => tracker = global_steps
  /\ pc \notin {"load", "validate_first"} \cup {"done", "exhausted", "unreadable"} =>
       global_steps \in 1 .. config.total + crashes

(* The tracker is behind, until CloseTracker.  *)
Behind ==
  tracker \in Steps =>
    /\ pc \notin {"load", "unreadable"} => tracker <= global_steps
    /\ pc \notin {"load", "unreadable", "validate_first", "end_step"} => tracker < global_steps

(* So are the paths saved by this process. *)
PathsBehind ==
  \A x \in Used :
    /\ pc \in {"load", "validate_first", "unreadable"} => paths[x] = <<>>
    /\ \A i \in 1 .. Len(paths[x]) : paths[x][i] <= global_steps
    /\ pc # "end_step" /\ ~HasSaved(x) =>
         \A i \in 1 .. Len(paths[x]) : paths[x][i] < global_steps

(* The tracker's step is the last of the paths, if it is one of them. *)
TrackerLast ==
  \A x \in Used :
    /\ ~HasSaved(x) => \A i \in 1 .. Len(paths[x]) - 1 : paths[x][i] # tracker
    /\ HasSaved(x) => \A i \in 1 .. Len(paths[x]) - 1 : paths[x][i] < global_steps

(* What the current save has written so far. *)
Written ==
  /\ \A x \in Used : HasSaved(x) =>
       \A r \in Ranks : files[x][global_steps][r] = {model[x]}
  /\ saving = "write" =>
       \A r \in Ranks : shard[r] = "done" => files[role][global_steps][r] = {model[role]}
  /\ saving \in {"tracker", "open_tracker"} => data[global_steps] \in Nat

IInv == Types /\ Counted /\ Behind /\ PathsBehind /\ TrackerLast /\ Written /\ ResumeSafe

-----------------------------------------------------------------------------
(* The roles in use do not change, and config.total steps fit the bound.   *)
LEMMA Constants ==
  ASSUME Types
  PROVE  /\ Used \subseteq Roles /\ "actor" \in Used
         /\ config.total \in Nat /\ 1 <= config.total
         /\ config.total + MaxCrashes <= MaxStep /\ MaxStep \in Nat /\ MaxCrashes \in Nat
         /\ \A x \in Roles : config.keep[x] \in Nat
<1>1. config \in Configs
  BY DEF Types
<1>2. Used \subseteq Roles /\ "actor" \in Used
  BY DEF Used, Roles
<1>3. config.total \in Steps /\ config.keep \in [Roles -> Nat] /\ MaxStep \in Nat
  BY <1>1, ConfigAssumption
<1>4. config.total + MaxCrashes <= MaxStep /\ MaxCrashes \in Nat
  BY <1>1, TrainerAssumption
<1>5. config.total \in Nat /\ 1 <= config.total
  BY <1>3 DEF Steps
<1>6. \A x \in Roles : config.keep[x] \in Nat
  BY <1>3
<1> QED
  BY <1>2, <1>3, <1>4, <1>5, <1>6

(* While something is saved, global_steps is a step and the tracker is behind. *)
LEMMA WhileSaving ==
  ASSUME IInv, pc = "saving"
  PROVE  /\ global_steps \in Steps
         /\ tracker # global_steps
         /\ saving # "idle"
         /\ \A x \in Used : ~HasSaved(x) =>
              \A i \in 1 .. Len(paths[x]) : paths[x][i] < global_steps
<1>1. global_steps \in 1 .. config.total + crashes
  BY DEF IInv, Counted
<1>2. global_steps \in Steps
  BY <1>1, Constants DEF IInv, Types, Steps
<1>3. tracker \in Steps => tracker < global_steps
  BY DEF IInv, Behind
<1>4. tracker # global_steps
  BY <1>2, <1>3 DEF Steps
<1>5. saving # "idle"
  BY DEF IInv, Types
<1>6. \A x \in Used : ~HasSaved(x) =>
        \A i \in 1 .. Len(paths[x]) : paths[x][i] < global_steps
  BY DEF IInv, PathsBehind
<1> QED
  BY <1>2, <1>4, <1>5, <1>6

(* Nothing the invariant is about changes. *)
LEMMA Stutter ==
  ASSUME IInv, UNCHANGED <<ckptVars, pc, crashes>>
  PROVE  IInv'
<1> USE DEF ckptVars, memory, caller, disk
<1>1. Used' = Used /\ \A x : HasSaved(x)' = HasSaved(x)
  BY DEF Used, HasSaved
<1>2. Types' /\ Counted'
  BY <1>1 DEF IInv, Types, Counted
<1>3. Behind' /\ PathsBehind' /\ TrackerLast'
  BY <1>1 DEF IInv, Behind, PathsBehind, TrackerLast
<1>4. Written' /\ ResumeSafe'
  BY <1>1 DEF IInv, Written, ResumeSafe, KeepsAnother, Complete
<1> QED
  BY <1>2, <1>3, <1>4 DEF IInv

Middle == {"next", "wake_up", "generate", "await", "sync_rollout_weights",
           "update_critic", "update_actor", "validate", "save"}

(* The driver goes on within a step, without touching a checkpoint. *)
LEMMA Move ==
  ASSUME IInv, pc \in Middle, pc' \in Middle \cup {"done", "exhausted"},
         UNCHANGED <<config, global_steps, caller, disk, crashes>>, taken' \in Nat
  PROVE  IInv'
<1> USE DEF caller, disk
<1>1. Used' = Used /\ saving = "idle" /\ saving' = "idle"
  BY DEF Used, IInv, Types, Middle
<1>2. \A x : ~HasSaved(x) /\ ~HasSaved(x)'
  BY <1>1 DEF HasSaved, Late
<1>3. Types'
  BY <1>1 DEF IInv, Types, Middle, Pcs
<1>4. Counted'
  BY DEF IInv, Counted, Middle
<1>5. Behind'
  BY DEF IInv, Behind, Middle
<1>6. PathsBehind' /\ TrackerLast'
  BY <1>1, <1>2 DEF IInv, PathsBehind, TrackerLast, Middle
<1>7. Written'
  BY <1>1, <1>2 DEF Written
<1>8. ResumeSafe'
  BY <1>1 DEF IInv, ResumeSafe, KeepsAnother, Complete
<1> QED
  BY <1>3, <1>4, <1>5, <1>6, <1>7, <1>8 DEF IInv

-----------------------------------------------------------------------------
(* The beginning of a process, and its end.                                *)

LEMMA Begins ==
  ASSUME TrainerInit
  PROVE  IInv
<1> USE DEF TrainerInit, CkptInit
<1>1. Types
  BY TrainerAssumption DEF Types, Used, Roles, Steps, Absent, Torn, NoShards, Pcs, Late
<1>2. tracker \notin Steps
  BY DEF Steps, Absent
<1>3. Counted /\ Behind
  BY <1>2 DEF Counted, Behind
<1>4. \A x \in Used : paths[x] = <<>> /\ ~HasSaved(x)
  BY DEF HasSaved, Late, Used, Roles
<1>5. PathsBehind /\ TrackerLast
  BY <1>4 DEF PathsBehind, TrackerLast
<1>6. Written /\ ResumeSafe
  BY <1>2, <1>4 DEF Written, ResumeSafe
<1> QED
  BY <1>1, <1>3, <1>5, <1>6 DEF IInv

LEMMA Crashes ==
  ASSUME IInv, Crash
  PROVE  IInv'
<1> USE DEF Crash, Stop, disk
<1>1. Used' = Used
  BY DEF Used
<1>2. crashes' = crashes + 1 /\ crashes \in Nat /\ config.total \in Nat /\ global_steps \in Nat
  BY Constants DEF IInv, Types
<1>3. Types'
  BY <1>1, <1>2, Constants DEF IInv, Types, Roles, Pcs, Late
<1>4. tracker \in Steps => tracker < config.total + crashes'
  BY <1>2 DEF IInv, Counted, Behind, Ended, Steps, Types, Pcs
<1>5. Counted' /\ Behind'
  BY <1>4 DEF Counted, Behind
<1>6. \A x \in Used : paths'[x] = <<>> /\ ~HasSaved(x)'
  BY Constants DEF IInv, HasSaved, Late
<1>7. PathsBehind' /\ TrackerLast'
  BY <1>1, <1>6 DEF PathsBehind, TrackerLast
<1>8. Written' /\ ResumeSafe'
  BY <1>1, <1>6 DEF IInv, Written, ResumeSafe, KeepsAnother, Complete
<1> QED
  BY <1>3, <1>5, <1>7, <1>8 DEF IInv

-----------------------------------------------------------------------------
(* Loading.                                                                *)

LEMMA Loads ==
  ASSUME IInv, LoadCheckpoint
  PROVE  IInv'
<1> USE DEF LoadCheckpoint, Load, caller, disk, memory, Goto
<1>1. Used' = Used /\ saving = "idle" /\ saving' = "idle"
  BY DEF Used, IInv, Types
<1>2. \A x : ~HasSaved(x) /\ ~HasSaved(x)'
  BY <1>1 DEF HasSaved, Late
<1>3. global_steps' \in Nat /\ taken' \in Nat
  <2>1. CASE tracker \in Steps
    BY <2>1 DEF IInv, Types, Unreadable, Steps, Absent, Torn
  <2>2. CASE tracker \notin Steps
    BY <2>2 DEF IInv, Types
  <2> QED
    BY <2>1, <2>2
<1>4. Types'
  BY <1>1, <1>3 DEF IInv, Types, Pcs
<1>5. global_steps' = IF tracker \in Steps THEN tracker ELSE 0
  BY DEF IInv, Counted
<1>6. 0 < config.total + crashes
  BY Constants DEF IInv, Types
<1>7. Counted' /\ Behind'
  BY <1>5, <1>6 DEF IInv, Counted, Behind, Steps
<1>8. \A x \in Used : paths[x] = <<>>
  BY DEF IInv, PathsBehind
<1>9. PathsBehind' /\ TrackerLast'
  BY <1>1, <1>2, <1>8 DEF PathsBehind, TrackerLast
<1>10. Written' /\ ResumeSafe'
  BY <1>1, <1>2 DEF IInv, Written, ResumeSafe, KeepsAnother, Complete
<1> QED
  BY <1>4, <1>7, <1>9, <1>10 DEF IInv

LEMMA FailsToLoad ==
  ASSUME IInv, LoadFails
  PROVE  IInv'
<1> USE DEF LoadFails, ckptVars, caller, disk, memory, Goto
<1>1. Used' = Used /\ saving = "idle" /\ saving' = "idle"
  BY DEF Used, IInv, Types
<1>2. \A x : ~HasSaved(x) /\ ~HasSaved(x)'
  BY <1>1 DEF HasSaved, Late
<1>3. Types'
  BY <1>1 DEF IInv, Types, Pcs
<1>4. Counted' /\ Behind'
  BY DEF Counted, Behind
<1>5. PathsBehind' /\ TrackerLast'
  BY <1>1, <1>2 DEF IInv, PathsBehind, TrackerLast
<1>6. Written' /\ ResumeSafe'
  BY <1>1, <1>2 DEF IInv, Written, ResumeSafe, KeepsAnother, Complete
<1> QED
  BY <1>3, <1>4, <1>5, <1>6 DEF IInv

LEMMA ValidatesFirst ==
  ASSUME IInv, ValBeforeTrain
  PROVE  IInv'
<1> USE DEF ValBeforeTrain, caller, disk, Goto
<1>1. Used' = Used /\ saving = "idle" /\ saving' = "idle"
  BY DEF Used, IInv, Types
<1>2. \A x : ~HasSaved(x) /\ ~HasSaved(x)'
  BY <1>1 DEF HasSaved, Late
<1>3. Types'
  BY <1>1 DEF IInv, Types, Pcs
<1>4. Counted' /\ Behind'
  <2>1. /\ pc = "validate_first" /\ config \in Configs /\ crashes \in 0 .. MaxCrashes
        /\ config.total \in Nat /\ global_steps \in Nat
    BY Constants DEF IInv, Types
  <2>2. /\ global_steps < config.total + crashes
        /\ tracker \in Steps => tracker = global_steps
    BY <2>1 DEF IInv, Counted
  <2>3. global_steps' \in 1 .. config.total + crashes
    BY <2>1, <2>2
  <2>4. tracker \in Steps => tracker < global_steps' /\ tracker <= global_steps'
    BY <2>1, <2>2 DEF Steps
  <2>5. pc' = "next" /\ tracker' = tracker
    OBVIOUS
  <2> QED
    BY <2>3, <2>4, <2>5 DEF Counted, Behind
<1>5. \A x \in Used : paths[x] = <<>>
  BY DEF IInv, PathsBehind
<1>6. PathsBehind' /\ TrackerLast'
  BY <1>1, <1>2, <1>5 DEF PathsBehind, TrackerLast
<1>7. Written' /\ ResumeSafe'
  BY <1>1, <1>2 DEF IInv, Written, ResumeSafe, KeepsAnother, Complete
<1> QED
  BY <1>3, <1>4, <1>6, <1>7 DEF IInv

-----------------------------------------------------------------------------
(* The end of a step, and the steps of the driver that change no file.     *)

LEMMA EndsStep ==
  ASSUME IInv, EndStep
  PROVE  IInv'
<1> USE DEF EndStep, caller, disk, Goto
<1>1. Used' = Used /\ saving = "idle" /\ saving' = "idle"
  BY DEF Used, IInv, Types
<1>2. \A x : ~HasSaved(x) /\ ~HasSaved(x)'
  BY <1>1 DEF HasSaved, Late
<1>3. Types'
  BY <1>1 DEF IInv, Types, Pcs
<1>4. /\ global_steps \in 1 .. config.total + crashes
      /\ config.total \in Nat /\ crashes \in Nat
      /\ tracker \in Steps => tracker \in Nat /\ tracker <= global_steps
  <2>1. pc = "end_step" /\ config \in Configs /\ crashes \in 0 .. MaxCrashes
    BY DEF IInv, Types
  <2>2. config.total \in Nat /\ crashes \in Nat
    BY <2>1, Constants DEF IInv
  <2>3. global_steps \in 1 .. config.total + crashes
    BY <2>1 DEF IInv, Counted
  <2>4. tracker \in Steps => tracker \in Nat /\ tracker <= global_steps
    BY <2>1 DEF IInv, Behind, Steps
  <2> QED
    BY <2>2, <2>3, <2>4
<1>5. pc' \in {"next", "await"} => global_steps' \in 1 .. config.total + crashes
  BY <1>4 DEF is_last_step
<1>6. Counted'
  BY <1>5 DEF Counted
<1>7. Behind'
  BY <1>4 DEF Behind
<1>8. \A x \in Used : \A i \in 1 .. Len(paths[x]) :
        paths[x][i] \in Nat /\ paths[x][i] <= global_steps
  <2>1. \A x \in Used : paths[x] \in Seq(Nat)
    BY Constants DEF IInv, Types
  <2> QED
    BY <2>1 DEF IInv, PathsBehind
<1>9. PathsBehind'
  BY <1>1, <1>4, <1>8 DEF PathsBehind
<1>10. TrackerLast'
  BY <1>1, <1>2 DEF IInv, TrackerLast
<1>11. Written' /\ ResumeSafe'
  BY <1>1, <1>2 DEF IInv, Written, ResumeSafe, KeepsAnother, Complete
<1> QED
  BY <1>3, <1>6, <1>7, <1>9, <1>10, <1>11 DEF IInv

LEMMA Draws ==
  ASSUME IInv, NextBatch \/ FirstTask \/ Sync
  PROVE  IInv'
<1>1. taken \in Nat /\ pc \in Middle
  BY DEF IInv, Types, NextBatch, FirstTask, Sync, Middle
<1>2. UNCHANGED <<config, global_steps, caller, disk, crashes>>
  BY DEF NextBatch, FirstTask, Sync
<1>3. CASE NextBatch
  BY <1>1, <1>2, <1>3, Move DEF NextBatch, Draw, Goto, Middle
<1>4. CASE FirstTask
  BY <1>1, <1>2, <1>4, Move DEF FirstTask, StartTask, Draw, Goto, Middle
<1>5. CASE Sync
  BY <1>1, <1>2, <1>5, Move DEF Sync, StartTask, Draw, Goto, Middle
<1> QED
  BY <1>3, <1>4, <1>5

LEMMA Trains ==
  ASSUME IInv, \/ WakeUp \/ Generated \/ AwaitBatch
               \/ UpdateCritic \/ UpdateActor \/ Validate
  PROVE  IInv'
<1> USE DEF ckptVars, memory, Goto, Middle
<1>1. taken \in Nat
  BY DEF IInv, Types
<1>2. CASE WakeUp
  BY <1>1, <1>2, Move DEF WakeUp
<1>3. CASE Generated
  BY <1>1, <1>3, Move DEF Generated
<1>4. CASE AwaitBatch
  BY <1>1, <1>4, Move DEF AwaitBatch
<1>5. CASE UpdateCritic
  BY <1>1, <1>5, Move DEF UpdateCritic
<1>6. CASE UpdateActor
  BY <1>1, <1>6, Move DEF UpdateActor
<1>7. CASE Validate
  BY <1>1, <1>7, Move DEF Validate
<1> QED
  BY <1>2, <1>3, <1>4, <1>5, <1>6, <1>7

-----------------------------------------------------------------------------
(* Saving.                                                                 *)

LEMMA MaySaves ==
  ASSUME IInv, Save
  PROVE  IInv'
<1> USE DEF Save, MaySave, SaveCheckpoint, ckptVars, caller, disk, memory, Goto
<1>1. Used' = Used /\ saving = "idle" /\ saving' \in {"idle", "clean"}
  BY DEF Used, IInv, Types
<1>2. saving' = "clean" => pc' = "saving" /\ role' = "actor"
  BY <1>1
<1>3. saving' = "idle" => pc' = "end_step" /\ role' = role
  BY <1>1
<1>4. \A x : ~HasSaved(x) /\ ~HasSaved(x)'
  BY <1>1, <1>2 DEF HasSaved, Late
<1>5. UNCHANGED <<config, memory, shard, paths, disk, crashes>> /\ pc = "save"
  OBVIOUS
<1>6. Types'
  BY <1>1, <1>2, <1>3, <1>5, Constants DEF IInv, Types, Pcs
<1>7. Counted' /\ Behind'
  BY <1>1, <1>2, <1>3, <1>5 DEF IInv, Counted, Behind
<1>8. PathsBehind' /\ TrackerLast'
  BY <1>1, <1>2, <1>3, <1>4, <1>5 DEF IInv, PathsBehind, TrackerLast
<1>9. Written' /\ ResumeSafe'
  BY <1>1, <1>4, <1>5 DEF IInv, Written, ResumeSafe, KeepsAnother, Complete
<1> QED
  BY <1>6, <1>7, <1>8, <1>9 DEF IInv

(* What the actions below share: the driver stays where it is, and so do   *)
(* the counts.                                                             *)
InSave == /\ pc = "saving" /\ pc' = "saving"
          /\ UNCHANGED <<config, memory, tracker, crashes>>

LEMMA SaveTypes ==
  ASSUME IInv, InSave
  PROVE  /\ Used' = Used /\ Counted' /\ Behind'
         /\ global_steps' = global_steps /\ model' = model /\ tracker' = tracker
         /\ KeepsAnother' = KeepsAnother
BY DEF IInv, InSave, memory, Used, Counted, Behind, KeepsAnother

(* The tracker's checkpoint stays complete if its files stay what they are. *)
LEMMA KeepsSafe ==
  ASSUME IInv, InSave,
         KeepsAnother /\ tracker \in Steps =>
           /\ \A x \in Used : \A r \in Ranks : files'[x][tracker][r] = files[x][tracker][r]
           /\ data'[tracker] = data[tracker]
  PROVE  ResumeSafe'
<1>1. SUFFICES ASSUME KeepsAnother, tracker \in Steps
               PROVE  Complete(tracker)'
  BY SaveTypes DEF ResumeSafe
<1>2. Complete(tracker)
  BY <1>1 DEF IInv, ResumeSafe
<1>3. \A x \in Used : \A r, q \in Ranks :
        files'[x][tracker][r] # {} /\ files'[x][tracker][r] = files'[x][tracker][q]
  <2> TAKE x \in Used
  <2> TAKE r, q \in Ranks
  <2>1. files[x][tracker][r] # {} /\ files[x][tracker][r] = files[x][tracker][q]
    BY <1>2 DEF Complete
  <2> QED
    BY <1>1, <2>1
<1>4. data'[tracker] \in Nat
  BY <1>1, <1>2 DEF Complete
<1> QED
  BY <1>3, <1>4, SaveTypes DEF Complete

LEMMA Cleans ==
  ASSUME IInv, InSave, Clean
  PROVE  IInv'
<1> DEFINE drop == KeepStart(paths[role], config.keep[role])
           gone == {paths[role][i] : i \in 1 .. drop}
<1>1. /\ saving = "clean" /\ saving' = "write" /\ role' = role
      /\ shard' = [r \in Ranks |-> "todo"] /\ data' = data
      /\ paths' = [paths EXCEPT ![role] = SubSeq(@, drop + 1, Len(@))]
      /\ files' = [files EXCEPT ![role] =
                     [s \in Steps |-> IF s \in gone THEN NoShards ELSE @[s]]]
  BY DEF Clean
<1>2. role \in Roles /\ role \in Used /\ paths[role] \in Seq(Nat) /\ config.keep[role] \in Nat
  BY Constants DEF IInv, Types
<1>3. drop \in 0 .. Len(paths[role]) /\ (config.keep[role] # 1 =>
        drop = 0 \/ drop \in 1 .. Len(paths[role]) - 1)
  <2> DEFINE saved == paths[role]
             max == config.keep[role]
  <2>1. drop = IF max > 0 /\ Len(saved) >= max THEN Len(saved) - max + 1 ELSE 0
    BY DEF KeepStart
  <2>2. Len(saved) \in Nat /\ max \in Nat
    BY <1>2
  <2> HIDE DEF saved, max, drop
  <2>3. drop \in 0 .. Len(saved) /\ (max # 1 => drop = 0 \/ drop \in 1 .. Len(saved) - 1)
    BY <2>1, <2>2
  <2> QED
    BY <2>3 DEF saved, max
<1> HIDE DEF drop, gone
<1>4. /\ paths'[role] \in Seq(Nat) /\ Len(paths'[role]) = Len(paths[role]) - drop
      /\ \A i \in 1 .. Len(paths'[role]) :
           paths'[role][i] = paths[role][i + drop] /\ i + drop \in 1 .. Len(paths[role])
  BY <1>1, <1>2, <1>3 DEF IInv, Types
<1>5. \A x \in Used : HasSaved(x)' = HasSaved(x)
  BY <1>1 DEF HasSaved, Late
<1>6. ~HasSaved(role)
  BY <1>1 DEF HasSaved, Late
<1>7. Types'
  <2>1. paths' \in [Roles -> Seq(Nat)]
    BY <1>1, <1>2, <1>4 DEF IInv, Types
  <2>2. /\ DOMAIN files' = Roles
        /\ \A x \in Roles : DOMAIN files'[x] = Steps
        /\ \A x \in Roles : \A s \in Steps : DOMAIN files'[x][s] = Ranks
    BY <1>1, <1>2 DEF IInv, Types, NoShards
  <2> QED
    BY <1>1, <2>1, <2>2, SaveTypes DEF IInv, Types, InSave, memory, Pcs
<1>8. \A x \in Used : x # role => paths'[x] = paths[x]
  BY <1>1, Constants DEF IInv, Types
<1>9. /\ \A x \in Used : x # role => \A i \in 1 .. Len(paths[x]) : paths[x][i] <= global_steps
      /\ \A i \in 1 .. Len(paths[role]) : paths[role][i] < global_steps
  BY <1>2, <1>6, WhileSaving DEF IInv, PathsBehind, InSave
<1>10. PathsBehind'
  <2>1. \A i \in 1 .. Len(paths'[role]) : paths'[role][i] < global_steps
    BY <1>4, <1>9
  <2>2. \A i \in 1 .. Len(paths'[role]) :
          paths'[role][i] \in Nat /\ paths'[role][i] <= global_steps
    <3> TAKE i \in 1 .. Len(paths'[role])
    <3>1. paths'[role][i] \in Nat /\ global_steps \in Nat
      BY <1>4 DEF IInv, Types
    <3> QED
      BY <2>1, <3>1
  <2>3. pc' = "saving"
    BY DEF InSave
  <2>4. \A x \in Used : \A i \in 1 .. Len(paths'[x]) : paths'[x][i] <= global_steps
    BY <1>8, <1>9, <2>2
  <2>5. \A x \in Used : ~HasSaved(x) =>
          \A i \in 1 .. Len(paths'[x]) : paths'[x][i] < global_steps
    BY <1>8, <2>1, WhileSaving DEF InSave
  <2> QED
    BY <1>5, <2>3, <2>4, <2>5, SaveTypes DEF PathsBehind
<1>11. TrackerLast'
  <2>1. \A i \in 1 .. Len(paths[role]) - 1 : paths[role][i] # tracker
    BY <1>2, <1>6 DEF IInv, TrackerLast
  <2>2. \A i \in 1 .. Len(paths'[role]) - 1 : paths'[role][i] # tracker
    <3> TAKE i \in 1 .. Len(paths'[role]) - 1
    <3>1. Len(paths[role]) \in Nat /\ drop \in Nat
      BY <1>2, <1>3
    <3>2. i \in 1 .. Len(paths'[role]) /\ i + drop \in 1 .. Len(paths[role]) - 1
      BY <1>4, <3>1
    <3> QED
      BY <1>4, <2>1, <3>2
  <2>3. \A x \in Used : x # role => paths'[x] = paths[x] /\ HasSaved(x)' = HasSaved(x)
    BY <1>5, <1>8
  <2> QED
    BY <1>5, <1>6, <2>2, <2>3, SaveTypes DEF IInv, TrackerLast
<1>12. Written'
  <2>1. \A x \in Used : HasSaved(x) => x # role
    BY <1>6
  <2> QED
    BY <1>1, <1>5, <2>1, SaveTypes DEF IInv, Written, Types
<1>13. ResumeSafe'
  <2>1. SUFFICES ASSUME KeepsAnother, tracker \in Steps
                 PROVE  \A x \in Used : \A r \in Ranks :
                          files'[x][tracker][r] = files[x][tracker][r]
    BY <1>1, KeepsSafe
  <2>2. config.keep[role] # 1
    BY <1>2, <2>1 DEF KeepsAnother
  <2>3. tracker \notin gone
    <3>1. \A i \in 1 .. Len(paths[role]) - 1 : paths[role][i] # tracker
      BY <1>2, <1>6 DEF IInv, TrackerLast
    <3>2. \A i \in 1 .. drop : i \in 1 .. Len(paths[role]) - 1
      BY <1>2, <1>3, <2>2
    <3> QED
      BY <3>1, <3>2 DEF gone
  <2>4. files'[role][tracker] = files[role][tracker]
    BY <1>1, <1>2, <2>1, <2>3 DEF IInv, Types
  <2>5. \A x \in Used : x # role => files'[x] = files[x]
    BY <1>1, Constants DEF IInv, Types
  <2> QED
    BY <2>4, <2>5
<1> QED
  BY <1>7, <1>10, <1>11, <1>12, <1>13, SaveTypes DEF IInv

(* An action that leaves the paths alone, and who has saved. *)
LEMMA PathsStay ==
  ASSUME IInv, InSave, UNCHANGED paths, \A x \in Used : HasSaved(x)' = HasSaved(x)
  PROVE  PathsBehind' /\ TrackerLast'
<1>1. PathsBehind'
  BY SaveTypes DEF IInv, PathsBehind, InSave
<1>2. TrackerLast'
  BY SaveTypes DEF IInv, TrackerLast
<1> QED
  BY <1>1, <1>2

(* A rank opens its shard: nothing it could be told of is written yet. *)
LEMMA Opens ==
  ASSUME IInv, InSave, NEW r \in Ranks, OpenShard(r)
  PROVE  IInv'
<1>1. /\ saving = "write" /\ saving' = "write" /\ role' = role
      /\ shard' = [shard EXCEPT ![r] = "open"] /\ data' = data /\ paths' = paths
      /\ files' = [files EXCEPT ![role][global_steps][r] = {}]
  BY DEF OpenShard
<1>2. role \in Roles /\ role \in Used /\ global_steps \in Steps /\ tracker # global_steps
  BY Constants, WhileSaving DEF IInv, InSave, Types
<1>3. \A x : HasSaved(x)' = HasSaved(x)
  BY <1>1 DEF HasSaved
<1>4. ~HasSaved(role)
  BY <1>1 DEF HasSaved, Late
<1>5. \A x \in Roles : \A s \in Steps : \A q \in Ranks :
        x # role \/ s # global_steps \/ q # r => files'[x][s][q] = files[x][s][q]
  BY <1>1, <1>2 DEF IInv, Types
<1>6. Types'
  <2>1. /\ DOMAIN files' = Roles
        /\ \A x \in Roles : DOMAIN files'[x] = Steps
        /\ \A x \in Roles : \A s \in Steps : DOMAIN files'[x][s] = Ranks
    BY <1>1, <1>2 DEF IInv, Types
  <2> QED
    BY <1>1, <2>1, SaveTypes DEF IInv, Types, InSave, memory
<1>7. Written'
  <2>1. \A x \in Used : HasSaved(x) =>
          \A q \in Ranks : files'[x][global_steps][q] = {model[x]}
    BY <1>2, <1>4, <1>5, Constants DEF IInv, Written
  <2>2. \A q \in Ranks : shard'[q] = "done" => files'[role][global_steps][q] = {model[role]}
    <3> SUFFICES ASSUME NEW q \in Ranks, shard'[q] = "done"
                 PROVE  files'[role][global_steps][q] = {model[role]}
      OBVIOUS
    <3>1. q # r /\ shard[q] = "done"
      BY <1>1 DEF IInv, Types
    <3> QED
      BY <1>1, <1>2, <1>5, <3>1 DEF IInv, Written
  <2> QED
    BY <1>1, <1>3, <2>1, <2>2, SaveTypes DEF Written
<1>8. ResumeSafe'
  BY <1>1, <1>2, <1>5, Constants, KeepsSafe DEF IInv
<1> QED
  BY <1>3, <1>1, <1>6, <1>7, <1>8, PathsStay, SaveTypes DEF IInv

(* A rank has written its shard. *)
LEMMA Closes ==
  ASSUME IInv, InSave, NEW r \in Ranks, CloseShard(r)
  PROVE  IInv'
<1>1. /\ saving = "write" /\ saving' = "write" /\ role' = role
      /\ shard' = [shard EXCEPT ![r] = "done"] /\ data' = data /\ paths' = paths
      /\ files' = [files EXCEPT ![role][global_steps][r] = {model[role]}]
  BY DEF CloseShard
<1>2. role \in Roles /\ role \in Used /\ global_steps \in Steps /\ tracker # global_steps
  BY Constants, WhileSaving DEF IInv, InSave, Types
<1>3. \A x : HasSaved(x)' = HasSaved(x)
  BY <1>1 DEF HasSaved
<1>4. ~HasSaved(role)
  BY <1>1 DEF HasSaved, Late
<1>5. \A x \in Roles : \A s \in Steps : \A q \in Ranks :
        x # role \/ s # global_steps \/ q # r => files'[x][s][q] = files[x][s][q]
  BY <1>1, <1>2 DEF IInv, Types
<1>6. Types'
  <2>1. /\ DOMAIN files' = Roles
        /\ \A x \in Roles : DOMAIN files'[x] = Steps
        /\ \A x \in Roles : \A s \in Steps : DOMAIN files'[x][s] = Ranks
    BY <1>1, <1>2 DEF IInv, Types
  <2> QED
    BY <1>1, <2>1, SaveTypes DEF IInv, Types, InSave, memory
<1>7. Written'
  <2>1. \A x \in Used : HasSaved(x) =>
          \A q \in Ranks : files'[x][global_steps][q] = {model[x]}
    BY <1>2, <1>4, <1>5, Constants DEF IInv, Written
  <2>2. \A q \in Ranks : shard'[q] = "done" => files'[role][global_steps][q] = {model[role]}
    <3> SUFFICES ASSUME NEW q \in Ranks, shard'[q] = "done"
                 PROVE  files'[role][global_steps][q] = {model[role]}
      OBVIOUS
    <3>1. CASE q = r
      BY <1>1, <1>2, <3>1 DEF IInv, Types
    <3>2. CASE q # r
      <4>1. shard[q] = "done"
        BY <1>1, <3>2 DEF IInv, Types
      <4> QED
        BY <1>1, <1>2, <1>5, <3>2, <4>1 DEF IInv, Written
    <3> QED
      BY <3>1, <3>2
  <2> QED
    BY <1>1, <1>3, <2>1, <2>2, SaveTypes DEF Written
<1>8. ResumeSafe'
  BY <1>1, <1>2, <1>5, Constants, KeepsSafe DEF IInv
<1> QED
  BY <1>3, <1>1, <1>6, <1>7, <1>8, PathsStay, SaveTypes DEF IInv

(* A worker group is done, and remembers the path. *)
LEMMA Saves ==
  ASSUME IInv, InSave, Saved
  PROVE  IInv'
<1>1. /\ saving = "write" /\ \A r \in Ranks : shard[r] = "done"
      /\ paths' = [paths EXCEPT ![role] = Append(@, global_steps)]
      /\ UNCHANGED <<files, data, shard>>
  BY DEF Saved, disk
<1>2. role \in Roles /\ role \in Used /\ paths[role] \in Seq(Nat) /\ global_steps \in Nat
  BY Constants DEF IInv, Types
<1>3. \/ role = "actor" /\ config.use_critic /\ saving' = "clean" /\ role' = "critic"
      \/ ~(role = "actor" /\ config.use_critic) /\ saving' = "data" /\ role' = role
  BY DEF Saved
<1>4. \A x \in Used : HasSaved(x)' <=> HasSaved(x) \/ x = role
  BY <1>1, <1>2, <1>3 DEF HasSaved, Late, Used, Roles
<1>5. /\ paths'[role] \in Seq(Nat) /\ Len(paths'[role]) = Len(paths[role]) + 1
      /\ \A i \in 1 .. Len(paths[role]) : paths'[role][i] = paths[role][i]
      /\ paths'[role][Len(paths[role]) + 1] = global_steps
      /\ \A x \in Used : x # role => paths'[x] = paths[x]
  BY <1>1, <1>2, Constants DEF IInv, Types
<1>6. ~HasSaved(role)
  BY <1>1 DEF HasSaved, Late
<1>7. /\ \A x \in Used : x # role => \A i \in 1 .. Len(paths[x]) : paths[x][i] <= global_steps
      /\ \A i \in 1 .. Len(paths[role]) : paths[role][i] < global_steps
  BY <1>2, <1>6, WhileSaving DEF IInv, PathsBehind, InSave
<1>8. Types'
  <2>1. paths' \in [Roles -> Seq(Nat)]
    BY <1>1, <1>2, <1>5 DEF IInv, Types
  <2>2. role' \in Used
    BY <1>2, <1>3 DEF Used, Roles
  <2> QED
    BY <1>1, <1>3, <2>1, <2>2, SaveTypes DEF IInv, Types, InSave, memory, Late
<1>9. PathsBehind'
  <2>1. \A i \in 1 .. Len(paths'[role]) : paths'[role][i] <= global_steps
    <3> TAKE i \in 1 .. Len(paths'[role])
    <3>1. CASE i = Len(paths[role]) + 1
      BY <1>2, <1>5, <3>1
    <3>2. CASE i # Len(paths[role]) + 1
      <4>1. i \in 1 .. Len(paths[role])
        BY <1>2, <1>5, <3>2
      <4>2. paths'[role][i] = paths[role][i] /\ paths[role][i] < global_steps
        BY <1>5, <1>7, <4>1
      <4>3. paths[role][i] \in Nat
        BY <1>2, <4>1
      <4> QED
        BY <1>2, <4>2, <4>3
    <3> QED
      BY <3>1, <3>2
  <2>2. \A x \in Used : \A i \in 1 .. Len(paths'[x]) : paths'[x][i] <= global_steps
    BY <1>5, <1>7, <2>1
  <2>3. pc' = "saving"
    BY DEF InSave
  <2>4. \A x \in Used : ~HasSaved(x)' =>
          \A i \in 1 .. Len(paths'[x]) : paths'[x][i] < global_steps
    BY <1>4, <1>5, WhileSaving DEF InSave
  <2> QED
    BY <2>2, <2>3, <2>4, SaveTypes DEF PathsBehind
<1>10. TrackerLast'
  <2>1. \A i \in 1 .. Len(paths'[role]) - 1 : paths'[role][i] < global_steps
    <3> TAKE i \in 1 .. Len(paths'[role]) - 1
    <3>1. i \in 1 .. Len(paths[role])
      BY <1>2, <1>5
    <3> QED
      BY <1>5, <1>7, <3>1
  <2>2. \A x \in Used : x # role => paths'[x] = paths[x] /\ (HasSaved(x)' <=> HasSaved(x))
    BY <1>4, <1>5
  <2>3. \A x \in Used : x = role => HasSaved(x)'
    BY <1>4
  <2> QED
    BY <2>1, <2>2, <2>3, SaveTypes DEF IInv, TrackerLast
<1>11. Written'
  <2>1. \A x \in Used : HasSaved(x) \/ x = role =>
          \A r \in Ranks : files[x][global_steps][r] = {model[x]}
    BY <1>1 DEF IInv, Written
  <2>2. saving' \in {"clean", "data"}
    BY <1>3
  <2> QED
    BY <1>1, <1>4, <2>1, <2>2, SaveTypes DEF Written
<1>12. ResumeSafe'
  BY <1>1, KeepsSafe
<1> QED
  BY <1>8, <1>9, <1>10, <1>11, <1>12, SaveTypes DEF IInv

(* data.pt. *)
LEMMA WritesData ==
  ASSUME IInv, InSave, OpenData \/ CloseData
  PROVE  IInv'
<1>1. /\ saving \in Late /\ saving' \in {"open_data", "tracker"}
      /\ UNCHANGED <<role, shard, paths, files>>
      /\ \/ data' = [data EXCEPT ![global_steps] = Torn] /\ saving' = "open_data"
         \/ data' = [data EXCEPT ![global_steps] = taken] /\ saving' = "tracker"
  BY DEF OpenData, CloseData, Late
<1>2. global_steps \in Steps /\ tracker # global_steps /\ taken \in Nat
  BY WhileSaving DEF IInv, InSave, Types
<1>3. \A x : HasSaved(x)' = HasSaved(x)
  BY <1>1 DEF HasSaved, Late
<1>4. /\ data' \in [Steps -> Nat \cup {Absent, Torn}]
      /\ saving' = "tracker" => data'[global_steps] \in Nat
      /\ tracker \in Steps => data'[tracker] = data[tracker]
  BY <1>1, <1>2 DEF IInv, Types
<1>5. Types'
  BY <1>1, <1>4, SaveTypes DEF IInv, Types, InSave, memory, Late
<1>6. Written'
  BY <1>1, <1>3, <1>4, SaveTypes DEF IInv, Written
<1>7. ResumeSafe'
  BY <1>1, <1>4, KeepsSafe
<1> QED
  BY <1>1, <1>3, <1>5, <1>6, <1>7, PathsStay, SaveTypes DEF IInv

(* The tracker is opened: no step is named. *)
LEMMA OpensTracker ==
  ASSUME IInv, OpenTracker, pc = "saving", pc' = "saving", crashes' = crashes
  PROVE  IInv'
<1>1. /\ saving = "tracker" /\ saving' = "open_tracker" /\ tracker' = Torn
      /\ UNCHANGED <<config, global_steps, model, taken, role, shard, paths, files, data>>
  BY DEF OpenTracker, memory
<1>2. Used' = Used /\ \A x : HasSaved(x) /\ HasSaved(x)'
  BY <1>1 DEF Used, HasSaved, Late
<1>3. tracker' \notin Steps
  BY <1>1 DEF Torn, Steps
<1>4. Types'
  BY <1>1, <1>2 DEF IInv, Types, Late
<1>5. Counted' /\ Behind'
  BY <1>1, <1>3 DEF IInv, Counted, Behind
<1>6. PathsBehind' /\ TrackerLast'
  BY <1>1, <1>2 DEF IInv, PathsBehind, TrackerLast
<1>7. Written' /\ ResumeSafe'
  BY <1>1, <1>2, <1>3 DEF IInv, Written, ResumeSafe
<1> QED
  BY <1>4, <1>5, <1>6, <1>7 DEF IInv

(* The tracker names the step, all of which is written. *)
LEMMA ClosesTracker ==
  ASSUME IInv, CloseTracker, pc = "saving", pc' = "end_step", crashes' = crashes
  PROVE  IInv'
<1>1. /\ saving = "open_tracker" /\ saving' = "idle" /\ tracker' = global_steps
      /\ UNCHANGED <<config, global_steps, model, taken, role, shard, paths, files, data>>
  BY DEF CloseTracker, memory
<1>2. Used' = Used /\ \A x : HasSaved(x) /\ ~HasSaved(x)'
  BY <1>1 DEF Used, HasSaved, Late
<1>3. global_steps \in Steps /\ global_steps \in Nat
  BY WhileSaving DEF IInv, Types
<1>4. Types'
  BY <1>1, <1>2, <1>3 DEF IInv, Types, Pcs
<1>5. Counted' /\ Behind'
  BY <1>1, <1>3 DEF IInv, Counted, Behind
<1>6. PathsBehind'
  BY <1>1, <1>2 DEF IInv, PathsBehind
<1>7. \A x \in Used : \A i \in 1 .. Len(paths[x]) - 1 : paths[x][i] # global_steps
  <2> TAKE x \in Used
  <2> TAKE i \in 1 .. Len(paths[x]) - 1
  <2>1. paths[x] \in Seq(Nat)
    BY Constants DEF IInv, Types
  <2>2. paths[x][i] < global_steps
    BY <1>2 DEF IInv, TrackerLast
  <2>3. paths[x][i] \in Nat
    BY <2>1
  <2> QED
    BY <1>3, <2>2, <2>3
<1>8. TrackerLast'
  BY <1>1, <1>2, <1>7 DEF TrackerLast
<1>9. Written'
  BY <1>1, <1>2 DEF Written
<1>10. ResumeSafe'
  <2>1. \A x \in Used : \A r \in Ranks : files[x][global_steps][r] = {model[x]}
    BY <1>2 DEF IInv, Written
  <2>2. data[global_steps] \in Nat
    BY <1>1 DEF IInv, Written
  <2>3. \A x \in Used : \A r, q \in Ranks :
          files[x][global_steps][r] # {} /\ files[x][global_steps][r] = files[x][global_steps][q]
    BY <2>1
  <2>4. Complete(tracker)'
    BY <1>1, <1>2, <2>2, <2>3 DEF Complete
  <2> QED
    BY <2>4 DEF ResumeSafe
<1> QED
  BY <1>4, <1>5, <1>6, <1>8, <1>9, <1>10 DEF IInv

LEMMA Savings ==
  ASSUME IInv, Saving
  PROVE  IInv'
<1>1. /\ pc = "saving" /\ crashes' = crashes /\ saving # "idle"
      /\ pc' = IF saving' = "idle" THEN "end_step" ELSE "saving"
  BY DEF Saving, Goto, IInv, Types
<1>2. CASE Clean
  BY <1>1, <1>2, Cleans DEF Clean, InSave
<1>3. CASE Saved
  BY <1>1, <1>3, Saves DEF Saved, InSave, disk
<1>4. CASE OpenData \/ CloseData
  BY <1>1, <1>4, WritesData DEF OpenData, CloseData, InSave
<1>5. CASE OpenTracker
  BY <1>1, <1>5, OpensTracker DEF OpenTracker
<1>6. CASE CloseTracker
  BY <1>1, <1>6, ClosesTracker DEF CloseTracker
<1>7. CASE \E r \in Ranks : OpenShard(r)
  BY <1>1, <1>7, Opens DEF OpenShard, InSave
<1>8. CASE \E r \in Ranks : CloseShard(r)
  BY <1>1, <1>8, Closes DEF CloseShard, InSave
<1> QED
  BY <1>2, <1>3, <1>4, <1>5, <1>6, <1>7, <1>8 DEF Saving, SaveNext

-----------------------------------------------------------------------------
LEMMA StepsKeepIInv ==
  ASSUME IInv, [TrainerNext]_trainerVars
  PROVE  IInv'
<1>1. CASE UNCHANGED trainerVars
  BY <1>1, Stutter DEF trainerVars, driver
<1>2. CASE Idle
  BY <1>2, Stutter DEF Idle, trainerVars, driver
<1>3. CASE GenerationEnds
  BY <1>3, Stutter DEF GenerationEnds
<1>4. CASE Crash
  BY <1>4, Crashes
<1>5. CASE LoadCheckpoint \/ LoadFails \/ ValBeforeTrain
  BY <1>5, Loads, FailsToLoad, ValidatesFirst
<1>6. CASE NextBatch \/ FirstTask \/ Sync
  BY <1>6, Draws
<1>7. CASE \/ WakeUp \/ Generated \/ AwaitBatch
           \/ UpdateCritic \/ UpdateActor \/ Validate
  BY <1>7, Trains
<1>8. CASE Save \/ Saving \/ EndStep
  BY <1>8, MaySaves, Savings, EndsStep
<1> QED
  BY <1>1, <1>2, <1>3, <1>4, <1>5, <1>6, <1>7, <1>8 DEF TrainerNext, FitStep

(***************************************************************************)
(* Whatever step of _save_checkpoint the job dies in, and however often,   *)
(* _load_checkpoint finds the step that the tracker names complete, of one *)
(* save and of every rank, unless only one checkpoint is kept.             *)
(***************************************************************************)
THEOREM ResumeCorrect == TrainerSpec => []ResumeSafe
<1>1. TrainerInit => IInv
  BY Begins
<1>2. IInv /\ [TrainerNext]_trainerVars => IInv'
  BY StepsKeepIInv
<1>3. IInv => ResumeSafe
  BY DEF IInv
<1> QED
  BY <1>1, <1>2, <1>3, PTL DEF TrainerSpec

-----------------------------------------------------------------------------
(* How many directories there are.                                         *)

Writing(x) == saving = "write" /\ role = x

(* The directories this process knows of. *)
Known(x) == {paths[x][i] : i \in 1 .. Len(paths[x])}
              \cup (IF Writing(x) THEN {global_steps} ELSE {})

(* Of those before it there are at most keep for each process that died. *)
Kept(x) ==
  /\ Len(paths[x]) + (IF Writing(x) THEN 1 ELSE 0) <= config.keep[x]
  /\ \E old \in SUBSET Steps : /\ Cardinality(old) <= config.keep[x] * crashes
                               /\ dirs[x] \subseteq old \cup Known(x)

KInv == /\ dirs \in [Roles -> SUBSET Steps]
        /\ \A x \in Used : config.keep[x] > 0 => Kept(x)

LEMMA SubsetsOfSteps ==
  ASSUME Types, NEW S \in SUBSET Steps
  PROVE  IsFiniteSet(S) /\ Cardinality(S) \in Nat
<1>1. IsFiniteSet(Steps)
  BY Constants, FS_Interval DEF Steps
<1> QED
  BY <1>1, FS_Subset, FS_CardinalityType

LEMMA PathsCount ==
  ASSUME NEW p \in Seq(Nat)
  PROVE  LET S == {p[i] : i \in 1 .. Len(p)}
         IN  IsFiniteSet(S) /\ Cardinality(S) <= Len(p) /\ Cardinality(S) \in Nat
<1> DEFINE S == {p[i] : i \in 1 .. Len(p)}
           f == [i \in 1 .. Len(p) |-> p[i]]
<1>1. f \in Surjection(1 .. Len(p), S)
  BY DEF Surjection
<1>2. IsFiniteSet(1 .. Len(p)) /\ Cardinality(1 .. Len(p)) = Len(p)
  <2> DEFINE n == Len(p)
  <2>1. n \in Nat
    OBVIOUS
  <2> HIDE DEF n
  <2>2. IsFiniteSet(1 .. n) /\ Cardinality(1 .. n) = IF 1 > n THEN 0 ELSE n - 1 + 1
    BY <2>1, FS_Interval
  <2> QED
    BY <2>1, <2>2 DEF n
<1> DEFINE D == 1 .. Len(p)
<1>3. IsFiniteSet(D) /\ Cardinality(D) = Len(p) /\ f \in Surjection(D, S)
  BY <1>1, <1>2
<1> HIDE DEF S, D, f
<1>4. IsFiniteSet(S) /\ Cardinality(S) <= Cardinality(D)
  BY <1>3, FS_Surjection
<1> QED
  BY <1>3, <1>4, FS_CardinalityType DEF S

(* Whatever is in use and kept: keep directories for each process so far. *)
LEMMA KeptIsFew ==
  ASSUME Types, KInv, NEW x \in Used, config.keep[x] > 0
  PROVE  /\ dirs[x] \in SUBSET Steps
         /\ Cardinality(dirs[x]) <= config.keep[x] * (crashes + 1)
<1> DEFINE keep == config.keep[x]
           p == paths[x]
           S == {p[i] : i \in 1 .. Len(p)}
<1>1. keep \in Nat /\ crashes \in Nat /\ x \in Roles /\ p \in Seq(Nat)
  BY Constants DEF Types
<1>2. dirs[x] \in SUBSET Steps
  BY <1>1 DEF KInv
<1>3. Len(p) + (IF Writing(x) THEN 1 ELSE 0) <= keep
  BY DEF KInv, Kept
<1>4. PICK old \in SUBSET Steps : /\ Cardinality(old) <= keep * crashes
                                 /\ dirs[x] \subseteq old \cup Known(x)
  BY DEF KInv, Kept
<1> HIDE DEF keep, p
<1>5. IsFiniteSet(old) /\ Cardinality(old) \in Nat
  BY SubsetsOfSteps
<1>6. IsFiniteSet(S) /\ Cardinality(S) <= Len(p) /\ Cardinality(S) \in Nat
  BY <1>1, PathsCount
<1>7. /\ IsFiniteSet(Known(x)) /\ Cardinality(Known(x)) \in Nat
      /\ Cardinality(Known(x)) <= Len(p) + (IF Writing(x) THEN 1 ELSE 0)
  <2>1. Len(p) \in Nat
    BY <1>1
  <2>2. CASE Writing(x)
    <3>1. Known(x) = S \cup {global_steps}
      BY <2>2 DEF Known, p
    <3> HIDE DEF S
    <3>2. /\ IsFiniteSet(S \cup {global_steps})
          /\ Cardinality(S \cup {global_steps})
               = IF global_steps \in S THEN Cardinality(S) ELSE Cardinality(S) + 1
      BY <1>6, FS_AddElement
    <3>3. Cardinality(S \cup {global_steps}) \in Nat
      BY <3>2, FS_CardinalityType
    <3> QED
      BY <1>6, <2>1, <2>2, <3>1, <3>2, <3>3
  <2>3. CASE ~Writing(x)
    <3>1. Known(x) = S
      BY <2>3 DEF Known, p
    <3> QED
      BY <1>6, <2>1, <2>3, <3>1
  <2> QED
    BY <2>2, <2>3
<1>8. /\ IsFiniteSet(old \cup Known(x))
      /\ Cardinality(old \cup Known(x)) <= Cardinality(old) + Cardinality(Known(x))
  <2>1. IsFiniteSet(old \cap Known(x)) /\ Cardinality(old \cap Known(x)) \in Nat
    BY <1>5, FS_Subset, FS_CardinalityType
  <2>2. /\ IsFiniteSet(old \cup Known(x))
        /\ Cardinality(old \cup Known(x))
             = Cardinality(old) + Cardinality(Known(x)) - Cardinality(old \cap Known(x))
    BY <1>5, <1>7, FS_Union
  <2> QED
    BY <1>5, <1>7, <2>1, <2>2
<1>9. Cardinality(dirs[x]) <= Cardinality(old \cup Known(x))
  BY <1>4, <1>8, FS_Subset
<1>10. Cardinality(dirs[x]) \in Nat /\ Cardinality(old \cup Known(x)) \in Nat
  BY <1>2, <1>8, SubsetsOfSteps, FS_CardinalityType
<1> DEFINE most == keep * crashes
<1>11. keep * (crashes + 1) = most + keep /\ most \in Nat
  BY <1>1
<1>12. Len(p) \in Nat
  BY <1>1
<1> HIDE DEF most
<1>13. Cardinality(dirs[x]) <= most + keep
  <2>1. Cardinality(old) <= most
    BY <1>4 DEF most
  <2>2. Cardinality(Known(x)) <= keep
    BY <1>1, <1>3, <1>7, <1>12
  <2> QED
    BY <1>1, <1>5, <1>7, <1>8, <1>9, <1>10, <1>11, <2>1, <2>2
<1> QED
  BY <1>2, <1>11, <1>13 DEF keep

LEMMA SameKept ==
  ASSUME IInv, KInv, UNCHANGED <<config, crashes, dirs, paths>>,
         \/ saving # "write" /\ saving' # "write"
         \/ UNCHANGED <<saving, role, global_steps>>
  PROVE  KInv'
<1>1. Used' = Used
  BY DEF Used
<1>2. \A x : Known(x)' = Known(x) /\ Writing(x)' = Writing(x)
  BY DEF Known, Writing
<1>3. \A x \in Used : Kept(x)' = Kept(x)
  BY <1>2 DEF Kept
<1> QED
  BY <1>1, <1>3 DEF KInv

(* What this process wrote is from now on of an earlier one. *)
LEMMA CrashKept ==
  ASSUME IInv, KInv, Crash
  PROVE  KInv'
<1>1. Used' = Used /\ config' = config /\ dirs' = dirs /\ crashes' = crashes + 1
  BY DEF Crash, Stop, Used, disk
<1>2. \A x \in Used : paths'[x] = <<>> /\ ~Writing(x)'
  BY Constants DEF Crash, Stop, Writing, IInv
<1>3. \A x \in Used : config.keep[x] > 0 => Kept(x)'
  <2> SUFFICES ASSUME NEW x \in Used, config.keep[x] > 0
               PROVE  Kept(x)'
    OBVIOUS
  <2>1. dirs[x] \in SUBSET Steps /\ Cardinality(dirs[x]) <= config.keep[x] * (crashes + 1)
    BY KeptIsFew DEF IInv
  <2>2. Len(paths'[x]) = 0 /\ (IF Writing(x)' THEN 1 ELSE 0) = 0
    BY <1>2
  <2>3. config.keep[x] \in Nat
    BY Constants DEF IInv
  <2>4. Len(paths'[x]) + (IF Writing(x)' THEN 1 ELSE 0) <= config.keep[x]
    BY <2>2, <2>3
  <2> QED
    BY <1>1, <2>1, <2>4 DEF Kept
<1> QED
  BY <1>1, <1>3 DEF KInv

(* Those that are too many go before the new one comes. *)
LEMMA CleanKept ==
  ASSUME IInv, KInv, pc = "saving", Clean, UNCHANGED crashes
  PROVE  KInv'
<1> DEFINE p == paths[role]
           keep == config.keep[role]
           drop == KeepStart(p, keep)
           gone == {p[i] : i \in 1 .. drop}
<1>1. Used' = Used /\ UNCHANGED <<config, crashes, global_steps, role>>
  BY DEF Clean, Used, memory
<1>2. /\ role \in Used /\ role \in Roles /\ Used \subseteq Roles
      /\ keep \in Nat /\ p \in Seq(Nat) /\ paths \in [Roles -> Seq(Nat)]
      /\ global_steps \in Steps /\ crashes \in Nat
  BY Constants, WhileSaving DEF IInv, Types
<1>3. /\ saving = "clean" /\ saving' = "write"
      /\ dirs' = [dirs EXCEPT ![role] = (dirs[role] \ gone) \cup {global_steps}]
      /\ paths' = [paths EXCEPT ![role] = SubSeq(p, drop + 1, Len(p))]
  BY DEF Clean
<1>4. dirs' \in [Roles -> SUBSET Steps]
  BY <1>2, <1>3 DEF KInv
<1>5. \A x \in Used \ {role} : config.keep[x] > 0 => Kept(x)'
  <2> SUFFICES ASSUME NEW x \in Used \ {role}, config.keep[x] > 0
               PROVE  Kept(x)'
    OBVIOUS
  <2>1. dirs'[x] = dirs[x] /\ paths'[x] = paths[x] /\ ~Writing(x) /\ ~Writing(x)'
    BY <1>1, <1>2, <1>3 DEF Writing, KInv
  <2>2. Known(x)' = Known(x)
    BY <2>1 DEF Known
  <2> QED
    BY <1>1, <2>1, <2>2 DEF KInv, Kept
<1>6. ASSUME keep > 0 PROVE Kept(role)'
  <2>1. dirs'[role] = (dirs[role] \ gone) \cup {global_steps}
    BY <1>2, <1>3 DEF KInv
  <2>2. paths'[role] = SubSeq(p, drop + 1, Len(p))
    BY <1>2, <1>3
  <2>3. Writing(role)' /\ ~Writing(role)
    BY <1>1, <1>3 DEF Writing
  <2>4. Kept(role)
    BY <1>2, <1>6 DEF KInv
  <2>5. PICK old \in SUBSET Steps : /\ Cardinality(old) <= keep * crashes
                                   /\ dirs[role] \subseteq old \cup Known(role)
    BY <2>4 DEF Kept
  <2>6. Known(role) = {p[i] : i \in 1 .. Len(p)}
    BY <2>3 DEF Known
  <2>7. Len(p) \in Nat /\ Len(p) <= keep
    BY <1>2, <2>3, <2>4 DEF Kept
  <2> HIDE DEF p, keep
  <2>8. drop \in 0 .. Len(p) /\ Len(p) - drop <= keep - 1
    BY <1>2, <1>6, <2>7 DEF KeepStart
  <2> HIDE DEF drop
  <2> DEFINE q == SubSeq(p, drop + 1, Len(p))
  <2>9. Len(q) = Len(p) - drop /\ \A i \in 1 .. Len(q) : q[i] = p[i + drop]
    BY <1>2, <2>7, <2>8
  <2> HIDE DEF q
  <2>10. {p[i] : i \in 1 .. Len(p)} \ gone \subseteq {q[i] : i \in 1 .. Len(q)}
    <3> SUFFICES ASSUME NEW i \in 1 .. Len(p), p[i] \notin gone
                 PROVE  \E j \in 1 .. Len(q) : p[i] = q[j]
      OBVIOUS
    <3>1. i \notin 1 .. drop
      OBVIOUS
    <3>2. i - drop \in 1 .. Len(q) /\ q[i - drop] = p[i]
      BY <2>7, <2>8, <2>9, <3>1
    <3> QED
      BY <3>2
  <2> HIDE DEF gone
  <2>11. Known(role)' = {q[i] : i \in 1 .. Len(q)} \cup {global_steps}
    BY <1>1, <2>2, <2>3 DEF Known, q
  <2>12. dirs'[role] \subseteq old \cup Known(role)'
    BY <2>1, <2>5, <2>6, <2>10, <2>11
  <2>13. Len(q) + 1 <= keep
    BY <1>2, <2>7, <2>8, <2>9
  <2>14. config.keep[role]' = keep /\ Len(paths'[role]) = Len(q)
    BY <1>1, <2>2 DEF keep, q
  <2> QED
    BY <1>1, <2>3, <2>5, <2>12, <2>13, <2>14 DEF Kept
<1> QED
  BY <1>1, <1>4, <1>5, <1>6 DEF KInv

LEMMA SavedKept ==
  ASSUME IInv, KInv, pc = "saving", Saved, UNCHANGED crashes
  PROVE  KInv'
<1>1. /\ Used' = Used /\ UNCHANGED <<config, crashes, global_steps, dirs>>
      /\ saving = "write" /\ saving' # "write"
      /\ paths' = [paths EXCEPT ![role] = Append(paths[role], global_steps)]
  BY DEF Saved, Used, memory, disk
<1>2. /\ role \in Used /\ Used \subseteq Roles
      /\ paths \in [Roles -> Seq(Nat)] /\ global_steps \in Nat
      /\ \A x \in Roles : config.keep[x] \in Nat
  BY Constants DEF IInv, Types
<1>3. \A x \in Used : Known(x)' = Known(x)
  <2> SUFFICES ASSUME NEW x \in Used PROVE Known(x)' = Known(x)
    OBVIOUS
  <2>1. CASE x = role
    <3> DEFINE p == paths[role]
               q == Append(p, global_steps)
    <3>1. paths'[x] = q /\ p \in Seq(Nat)
      BY <1>1, <1>2, <2>1
    <3>2. Known(x) = {p[i] : i \in 1 .. Len(p)} \cup {global_steps}
      BY <1>1, <2>1 DEF Known, Writing
    <3>3. Known(x)' = {q[i] : i \in 1 .. Len(q)}
      BY <1>1, <3>1 DEF Known, Writing
    <3> HIDE DEF p
    <3>4. /\ Len(p) \in Nat /\ Len(q) = Len(p) + 1 /\ q[Len(p) + 1] = global_steps
          /\ \A i \in 1 .. Len(p) : q[i] = p[i]
      BY <1>2, <3>1
    <3> HIDE DEF q
    <3>5. 1 .. Len(q) = (1 .. Len(p)) \cup {Len(p) + 1}
      BY <3>4
    <3>6. {q[i] : i \in 1 .. Len(q)} = {p[i] : i \in 1 .. Len(p)} \cup {global_steps}
      BY <3>4, <3>5
    <3> QED
      BY <3>2, <3>3, <3>6
  <2>2. CASE x # role
    BY <1>1, <1>2, <2>2 DEF Known, Writing
  <2> QED
    BY <2>1, <2>2
<1>4. \A x \in Used : Len(paths'[x]) + (IF Writing(x)' THEN 1 ELSE 0)
                      = Len(paths[x]) + (IF Writing(x) THEN 1 ELSE 0)
  <2> SUFFICES ASSUME NEW x \in Used
               PROVE  Len(paths'[x]) + (IF Writing(x)' THEN 1 ELSE 0)
                        = Len(paths[x]) + (IF Writing(x) THEN 1 ELSE 0)
    OBVIOUS
  <2>1. ~Writing(x)' /\ (Writing(x) <=> x = role) /\ paths[x] \in Seq(Nat)
    BY <1>1, <1>2 DEF Writing
  <2>2. CASE x = role
    <3>1. Len(paths'[x]) = Len(paths[x]) + 1 /\ Len(paths[x]) \in Nat
      BY <1>1, <1>2, <2>1, <2>2
    <3> QED
      BY <2>1, <2>2, <3>1
  <2>3. CASE x # role
    BY <1>1, <1>2, <2>1, <2>3
  <2> QED
    BY <2>2, <2>3
<1>5. \A x \in Used : Kept(x) => Kept(x)'
  BY <1>1, <1>3, <1>4 DEF Kept
<1> QED
  BY <1>1, <1>5 DEF KInv

LEMMA StepsKeepKInv ==
  ASSUME IInv, KInv, [TrainerNext]_trainerVars
  PROVE  KInv'
<1>1. CASE UNCHANGED trainerVars \/ Idle \/ GenerationEnds
  BY <1>1, SameKept DEF Idle, GenerationEnds, trainerVars, ckptVars, memory, caller, disk
<1>2. CASE Crash
  BY <1>2, CrashKept
<1>3. CASE LoadCheckpoint \/ LoadFails \/ ValBeforeTrain
  <2>1. UNCHANGED <<config, crashes, dirs, paths, saving>> /\ saving = "idle"
    BY <1>3 DEF IInv, Types, LoadCheckpoint, Load, LoadFails, ValBeforeTrain, ckptVars, caller, disk
  <2> QED
    BY <2>1, SameKept
<1>4. CASE \/ NextBatch \/ WakeUp \/ Generated \/ FirstTask \/ AwaitBatch \/ Sync
           \/ UpdateCritic \/ UpdateActor \/ Validate \/ EndStep
  <2>1. UNCHANGED <<config, crashes, dirs, paths, saving>> /\ saving = "idle"
    BY <1>4 DEF IInv, Types, NextBatch, WakeUp, Generated, FirstTask, AwaitBatch, Sync,
       UpdateCritic, UpdateActor, Validate, EndStep, ckptVars, caller, disk
  <2> QED
    BY <2>1, SameKept
<1>5. CASE Save
  <2>1. UNCHANGED <<config, crashes, dirs, paths>> /\ saving = "idle" /\ saving' \in {"idle", "clean"}
    BY <1>5 DEF IInv, Types, Save, MaySave, SaveCheckpoint, ckptVars, caller, disk
  <2> QED
    BY <2>1, SameKept
<1>6. CASE Saving
  <2>1. pc = "saving" /\ UNCHANGED crashes
    BY <1>6 DEF Saving
  <2>2. CASE Clean
    BY <2>1, <2>2, CleanKept
  <2>3. CASE Saved
    BY <2>1, <2>3, SavedKept
  <2>4. CASE OpenData \/ CloseData \/ OpenTracker \/ CloseTracker
    <3>1. UNCHANGED <<config, dirs, paths>> /\ saving # "write" /\ saving' # "write"
      BY <2>4 DEF OpenData, CloseData, OpenTracker, CloseTracker
    <3> QED
      BY <2>1, <3>1, SameKept
  <2>5. CASE \E r \in Ranks : OpenShard(r) \/ CloseShard(r)
    <3>1. UNCHANGED <<config, dirs, paths, saving, role, global_steps>>
      BY <2>5 DEF OpenShard, CloseShard, memory
    <3> QED
      BY <2>1, <3>1, SameKept
  <2> QED
    BY <1>6, <2>2, <2>3, <2>4, <2>5 DEF Saving, SaveNext
<1> QED
  BY <1>1, <1>2, <1>3, <1>4, <1>5, <1>6 DEF TrainerNext, FitStep

(***************************************************************************)
(* At most keep checkpoints of each worker group are on the disk for each  *)
(* process that wrote any: the limit counts what a process has in          *)
(* previous_saved_paths, which a restart begins anew.                      *)
(***************************************************************************)
THEOREM KeepCorrect == TrainerSpec => []KeepBound
<1>1. TrainerInit => IInv /\ KInv
  <2> SUFFICES ASSUME TrainerInit PROVE IInv /\ KInv
    OBVIOUS
  <2>1. IInv /\ Used \subseteq Roles
    BY Begins, Constants DEF IInv
  <2>2. /\ dirs = [x \in Roles |-> {}] /\ paths = [x \in Roles |-> <<>>]
        /\ crashes = 0 /\ saving = "idle"
    BY DEF TrainerInit, CkptInit
  <2>3. \A x \in Used : config.keep[x] > 0 => Kept(x)
    <3> SUFFICES ASSUME NEW x \in Used, config.keep[x] > 0 PROVE Kept(x)
      OBVIOUS
    <3>1. dirs[x] = {} /\ Len(paths[x]) = 0 /\ config.keep[x] \in Nat
      BY <2>1, <2>2, Constants DEF IInv
    <3>2. Cardinality({}) <= config.keep[x] * crashes
      BY <2>2, <3>1, FS_EmptySet
    <3>3. ~Writing(x)
      BY <2>2 DEF Writing
    <3>4. Len(paths[x]) + (IF Writing(x) THEN 1 ELSE 0) <= config.keep[x]
      BY <3>1, <3>3
    <3> QED
      BY <3>1, <3>2, <3>4 DEF Kept
  <2> QED
    BY <2>1, <2>2, <2>3 DEF KInv
<1>2. IInv /\ KInv /\ [TrainerNext]_trainerVars => IInv' /\ KInv'
  BY StepsKeepIInv, StepsKeepKInv
<1>3. IInv /\ KInv => KeepBound
  BY KeptIsFew DEF IInv, KeepBound
<1> QED
  BY <1>1, <1>2, <1>3, PTL DEF TrainerSpec

-----------------------------------------------------------------------------
(***************************************************************************)
(* Which batches the weights have seen, and how old the policy of a batch  *)
(* is, for every configuration and any number of crashes: the weights are  *)
(* those of an undisturbed run, up to the batches that one_step_off skips  *)
(* at restarts.                                                            *)
(*                                                                         *)
(* The argument: weights are in order wherever they are, in memory or in a *)
(* file of step n (Learned, Files); the step the tracker names has the     *)
(* weights and the position of the dataloader of one save, and the         *)
(* position is not behind the weights (DataAt, Named); and the driver has  *)
(* one batch at a time between the dataloader and the weights, or two in   *)
(* one_step_off (InFlight, Below).                                         *)
(*                                                                         *)
(* And training ends where it should: the passes of the loops begun and    *)
(* left are TotalEpochs (Position), so there is a batch for each step.     *)
(***************************************************************************)

Before == {"wake_up", "generate", "sync_rollout_weights", "update_critic"}
Trained == {"validate", "save", "saving", "end_step"}
Running == {"validate_first", "next", "await", "update_actor"} \cup Before \cup Trained

(* How many batches may have been skipped after c restarts. *)
Slack(c) == IF config.mode = "ppo" THEN 0 ELSE c

(* Weights of x after step n. *)
Increasing(v) == \A i, j \in 1 .. Len(v) : i < j => v[i] < v[j]
Under(v, k) == \A i \in 1 .. Len(v) : v[i] < k

InOrder(v, x, n) ==
  /\ v \in Seq(Nat)
  /\ Len(v) = Updates(x, n)
  /\ Increasing(v)
  /\ Len(v) > 0 => v[Len(v)] - n \in 0 .. Slack(crashes)

(* The last step whose batch x has been updated with. *)
LearnedStep(x) ==
  IF pc \in {"validate_first"} \cup Trained \/ (pc = "update_actor" /\ x = "critic")
  THEN global_steps ELSE global_steps - 1

Learned ==
  /\ DOMAIN model = Roles
  /\ pc = "load" => taken = 0 /\ \A x \in Roles : model[x] = <<>>
  /\ pc \in Running => \A x \in Used : InOrder(model[x], x, LearnedStep(x))

(* The batches between the dataloader and the weights. *)
InFlight ==
  /\ batch.id \in Nat /\ future.id \in Nat
  /\ pc = "validate_first" => taken - global_steps \in 0 .. Slack(crashes)
  /\ pc = "next" => taken - (global_steps - 1) \in 0 .. Slack(crashes)
  /\ pc = "await" /\ future.state # "none" =>
       future.id = taken /\ taken - global_steps \in 0 .. Slack(crashes)
  /\ pc \in {"wake_up", "generate", "sync_rollout_weights"} =>
       batch.id = taken /\ taken - global_steps \in 0 .. Slack(crashes)
  /\ pc \in {"update_critic", "update_actor"} \cup Trained =>
       /\ batch.id - global_steps \in 0 .. Slack(crashes)
       /\ taken - batch.id \in 0 .. Slack(1)
       /\ future.state # "none" /\ ~is_last_step /\ config.mode = "one_step_off" =>
            future.id = taken /\ taken = batch.id + 1

(* The weights are behind the batch they wait for. *)
Below ==
  \A x \in Used :
    /\ pc \in {"validate_first", "next"} => Under(model[x], taken + 1)
    /\ pc = "await" /\ future.state # "none" => Under(model[x], taken)
    /\ pc \in Before \/ (pc = "update_actor" /\ x = "actor") => Under(model[x], batch.id)
    /\ pc \in Trained \/ (pc = "update_actor" /\ x = "critic") => Under(model[x], batch.id + 1)

(* The disk. *)
Files ==
  \A x \in Used : \A n \in Steps : \A r \in Ranks : \A v \in files[x][n][r] : InOrder(v, x, n)

DataAt ==
  /\ \A n \in Steps : data[n] \in Nat =>
       data[n] - n \in 0 .. Slack(IF pc = "load" THEN crashes ELSE crashes + 1)
  /\ saving \in {"tracker", "open_tracker"} => data[global_steps] = taken

Named ==
  tracker \in Steps =>
    /\ data[tracker] \in Nat
    /\ \A x \in Used : \A r \in Ranks : \A v \in files[x][tracker][r] : Under(v, data[tracker] + 1)

OInv == Learned /\ InFlight /\ Below /\ Files /\ DataAt /\ Named

(* The versions of the weights, in memory and in the rollout engine. *)
Synchronous ==
  config.mode = "ppo" =>
    /\ pc \notin {"await", "sync_rollout_weights"}
    /\ pc = "generate" => rollout = Version
    /\ pc \in {"update_critic", "update_actor"} => batch.version = Version
    /\ pc = "save" /\ val.step = global_steps => val.version = Version

Gain == IF config.critic_warmup <= global_steps THEN 1 ELSE 0

OneStepOff ==
  config.mode = "one_step_off" =>
    /\ pc \notin {"wake_up", "generate"}
    /\ pc = "next" => rollout = Version
    /\ pc = "await" => Version - rollout \in {0, 1}
    /\ pc = "sync_rollout_weights" => Version - batch.version \in {0, 1}
    /\ pc \in {"update_critic", "update_actor"} =>
         rollout = Version /\ Version - batch.version \in {0, 1}
    /\ pc \in Trained => Version - rollout = Gain
    /\ pc = "save" /\ val.step = global_steps => val.version = rollout
    /\ future.state # "none" /\ (pc = "await" \/
         (pc \in {"update_critic", "update_actor"} \cup Trained /\ ~is_last_step)) =>
           future.version = rollout

Validated ==
  /\ val.step \in Int /\ rollout \in Nat
  /\ pc \in Running \ {"validate_first"} => val.step <= global_steps
  /\ pc \in Running \ ({"validate_first"} \cup Trained) => val.step < global_steps
  /\ pc = "validate" => val.step < global_steps

VInv == Synchronous /\ OneStepOff /\ Validated
-----------------------------------------------------------------------------
LEMMA Numbers ==
  ASSUME IInv
  PROVE  /\ Used \subseteq Roles /\ "actor" \in Used /\ Roles = {"actor", "critic"}
         /\ global_steps \in Nat /\ taken \in Nat /\ crashes \in Nat
         /\ config.critic_warmup \in Nat /\ config.mode \in {"ppo", "one_step_off"}
         /\ pc \in Pcs /\ role \in Used
         /\ pc \in Running \ {"validate_first"} => global_steps >= 1
<1>1. config \in Configs /\ crashes \in 0 .. MaxCrashes /\ role \in Used /\ pc \in Pcs
      /\ global_steps \in Nat /\ taken \in Nat
  BY DEF IInv, Types
<1>2. crashes \in Nat /\ Used \subseteq Roles /\ "actor" \in Used
  BY <1>1, Constants DEF IInv
<1>3. config.critic_warmup \in Nat /\ config.mode \in {"ppo", "one_step_off"}
  BY <1>1, ConfigAssumption
<1>4. pc \in Running \ {"validate_first"} => global_steps \in 1 .. config.total + crashes
  BY DEF IInv, Counted, Running, Before, Trained
<1>5. pc \in Running \ {"validate_first"} => global_steps >= 1
  BY <1>1, <1>4, Constants DEF IInv
<1> QED
  BY <1>1, <1>2, <1>3, <1>5 DEF Roles

(* A batch more. *)
LEMMA Appended ==
  ASSUME NEW v, NEW x \in Roles, NEW n \in Nat \ {0}, NEW id \in Nat,
         config.critic_warmup \in Nat, crashes \in Nat,
         InOrder(v, x, n - 1), Under(v, id), id - n \in 0 .. Slack(crashes),
         x = "critic" \/ config.critic_warmup <= n
  PROVE  InOrder(Append(v, id), x, n) /\ Under(Append(v, id), id + 1)
<1> DEFINE w == Append(v, id)
<1>1. v \in Seq(Nat) /\ Len(v) = Updates(x, n - 1) /\ Increasing(v)
  BY DEF InOrder
<1>2. w \in Seq(Nat) /\ Len(w) = Len(v) + 1 /\ w[Len(w)] = id /\ Len(v) \in Nat
      /\ \A i \in 1 .. Len(v) : w[i] = v[i] /\ v[i] \in Nat
  <2>1. v \in Seq(Nat) /\ Len(v) \in Nat
    BY <1>1
  <2>2. w \in Seq(Nat) /\ Len(w) = Len(v) + 1
    BY <2>1
  <2>3. w[Len(w)] = id
    BY <2>1, <2>2
  <2>4. ASSUME NEW i \in 1 .. Len(v) PROVE w[i] = v[i] /\ v[i] \in Nat
    <3>1. v[i] \in Nat
      BY <2>1
    <3>2. w[i] = v[i]
      BY <2>1
    <3> QED
      BY <3>1, <3>2
  <2> QED
    BY <2>1, <2>2, <2>3, <2>4
<1>3. Updates(x, n) = Updates(x, n - 1) + 1
  BY DEF Updates
<1>4. \A i \in 1 .. Len(w) : i = Len(w) \/ i \in 1 .. Len(v)
  BY <1>2
<1> HIDE DEF w
<1>5. Increasing(w)
  <2> SUFFICES ASSUME NEW i \in 1 .. Len(w), NEW j \in 1 .. Len(w), i < j
               PROVE  w[i] < w[j]
    BY DEF Increasing
  <2>1. i \in 1 .. Len(v)
    BY <1>2
  <2>2. CASE j \in 1 .. Len(v)
    BY <1>1, <1>2, <2>1, <2>2 DEF Increasing
  <2>3. CASE j = Len(w)
    <3>1. v[i] < id /\ w[i] = v[i]
      BY <1>2, <2>1 DEF Under
    <3>2. w[j] = id
      BY <1>2, <2>3
    <3> QED
      BY <3>1, <3>2
  <2> QED
    BY <1>4, <2>2, <2>3
<1>6. Under(w, id + 1)
  <2> SUFFICES ASSUME NEW i \in 1 .. Len(w) PROVE w[i] < id + 1
    BY DEF Under
  <2>1. CASE i = Len(w)
    BY <1>2, <2>1
  <2>2. CASE i \in 1 .. Len(v)
    <3>1. v[i] < id /\ w[i] = v[i] /\ v[i] \in Nat
      BY <1>2, <2>2 DEF Under
    <3> QED
      BY <3>1
  <2> QED
    BY <1>4, <2>1, <2>2
<1>7. InOrder(w, x, n)
  BY <1>1, <1>2, <1>3, <1>5 DEF InOrder
<1> QED
  BY <1>6, <1>7 DEF w

(* A step of the warmup of the critic. *)
LEMMA WarmedUp ==
  ASSUME NEW v, NEW n \in Nat \ {0}, config.critic_warmup \in Nat,
         InOrder(v, "actor", n - 1), ~(config.critic_warmup <= n)
  PROVE  InOrder(v, "actor", n) /\ v = <<>>
<1>1. Updates("actor", n) = 0 /\ Updates("actor", n - 1) = 0
  BY DEF Updates
<1>2. v \in Seq(Nat) /\ Len(v) = 0
  BY <1>1 DEF InOrder
<1> QED
  BY <1>1, <1>2 DEF InOrder

(* The disk stays, through a restart too. *)
LEMMA DiskStays ==
  ASSUME IInv, Files, DataAt, Named, UNCHANGED <<config, disk>>, crashes' \in Nat,
         \/ crashes' = crashes /\ (pc' = "load" => pc = "load")
         \/ crashes' = crashes + 1,
         saving' \notin {"tracker", "open_tracker"}
  PROVE  Files' /\ DataAt' /\ Named'
<1> USE DEF disk
<1>1. Used' = Used /\ crashes <= crashes' /\ crashes \in Nat
  BY Numbers DEF Used
<1>2. Files'
  <2> SUFFICES ASSUME NEW x \in Used, NEW n \in Steps, NEW r \in Ranks, NEW v \in files[x][n][r]
               PROVE  InOrder(v, x, n)'
    BY <1>1 DEF Files
  <2>1. InOrder(v, x, n)
    BY DEF Files
  <2>2. v \in Seq(Nat) /\ Len(v) = Updates(x, n)' /\ Increasing(v)
    BY <2>1 DEF InOrder, Updates
  <2>3. Slack(crashes)' \in Nat /\ Slack(crashes) \in Nat /\ Slack(crashes) <= Slack(crashes)'
    BY <1>1 DEF Slack
  <2>4. Len(v) > 0 => v[Len(v)] - n \in 0 .. Slack(crashes)'
    <3>1. Len(v) > 0 => v[Len(v)] \in Nat
      BY <2>2
    <3>2. Len(v) > 0 => v[Len(v)] - n \in 0 .. Slack(crashes)
      BY <2>1 DEF InOrder
    <3>3. n \in Nat
      BY DEF Steps
    <3> QED
      BY <2>3, <3>1, <3>2, <3>3
  <2> QED
    BY <2>2, <2>4 DEF InOrder, Increasing
<1>3. DataAt'
  BY <1>1 DEF DataAt, Slack, Steps
<1>4. Named'
  BY <1>1 DEF Named, Under
<1> QED
  BY <1>2, <1>3, <1>4
-----------------------------------------------------------------------------
(* The beginning of a process, and its end.                                *)

LEMMA EmptyFiles ==
  ASSUME files = [x \in Roles |-> [s \in Steps |-> NoShards]]
  PROVE  \A x \in Roles : \A n \in Steps : \A r \in Ranks : files[x][n][r] = {}
<1> SUFFICES ASSUME NEW x \in Roles, NEW n \in Steps, NEW r \in Ranks
             PROVE  files[x][n][r] = {}
  OBVIOUS
<1>1. files[x][n] = NoShards
  OBVIOUS
<1> QED
  BY <1>1 DEF NoShards

LEMMA Starts ==
  ASSUME TrainerInit
  PROVE  OInv /\ VInv
<1>1. Used \subseteq Roles /\ IInv
  BY Begins, Numbers
<1>2. \A x \in Used : \A n \in Steps : \A r \in Ranks : files[x][n][r] = {}
  <2>1. files = [x \in Roles |-> [s \in Steps |-> NoShards]]
    BY DEF TrainerInit, CkptInit
  <2>2. \A x \in Roles : \A n \in Steps : \A r \in Ranks : files[x][n][r] = {}
    BY <2>1, EmptyFiles
  <2> QED
    BY <1>1, <2>2, Zenon
<1> USE DEF TrainerInit, CkptInit, Before, Trained, Running
<1>3. tracker \notin Steps /\ \A n \in Steps : data[n] \notin Nat
  BY DEF Steps, Absent
<1>4. Learned /\ InFlight /\ Below
  BY DEF Learned, InFlight, Below, NoBatch, NoFuture
<1>5. Files /\ DataAt /\ Named
  BY <1>2, <1>3 DEF Files, DataAt, Named
<1>6. Synchronous /\ OneStepOff /\ Validated
  BY DEF Synchronous, OneStepOff, Validated, NoFuture
<1> QED
  BY <1>4, <1>5, <1>6 DEF OInv, VInv

LEMMA StartsAgain ==
  ASSUME IInv, OInv, VInv, Crash
  PROVE  OInv' /\ VInv'
<1> USE DEF Crash, Stop, Before, Trained, Running
<1>1. crashes \in Nat /\ crashes' = crashes + 1 /\ Used' = Used /\ Used \subseteq Roles
  BY Numbers DEF Used
<1>2. Files' /\ DataAt' /\ Named'
  BY <1>1, DiskStays DEF OInv
<1>3. Learned' /\ InFlight' /\ Below'
  BY <1>1 DEF Learned, InFlight, Below, NoBatch, NoFuture
<1>4. Synchronous' /\ OneStepOff' /\ Validated'
  BY DEF Synchronous, OneStepOff, Validated, NoFuture
<1> QED
  BY <1>2, <1>3, <1>4 DEF OInv, VInv

(* The weights of one save, of the step the tracker names.                 *)
LEMMA Resumes ==
  ASSUME IInv, OInv, LoadCheckpoint
  PROVE  OInv'
<1> USE DEF LoadCheckpoint, Goto, Before, Trained, Running
<1>1. /\ pc = "load" /\ pc' = "validate_first" /\ ~Unreadable
      /\ UNCHANGED <<config, caller, disk, crashes, batch, future>>
      /\ Used' = Used /\ Used \subseteq Roles /\ crashes \in Nat
  BY Numbers DEF Load, Used
<1>2. saving = "idle" /\ global_steps = 0 /\ taken = 0 /\ \A x \in Roles : model[x] = <<>>
  BY <1>1 DEF IInv, Types, Counted, OInv, Learned
<1>3. Files' /\ DataAt' /\ Named'
  BY <1>1, <1>2, DiskStays DEF OInv, caller
<1>4. \A x \in Used :
        InOrder(model'[x], x, global_steps') /\ Under(model'[x], taken' + 1)
  <2>1. CASE tracker \notin Steps
    <3>1. UNCHANGED <<global_steps, model, taken>>
      BY <2>1 DEF Load, memory
    <3>2. \A x \in Roles : Updates(x, 0) = 0
      BY Numbers DEF Updates, Roles
    <3>3. \A x \in Used : InOrder(<<>>, x, 0) /\ Under(<<>>, 1)
      BY <1>1, <3>2 DEF InOrder, Under, Increasing
    <3> QED
      BY <1>1, <1>2, <3>1, <3>3
  <2>2. CASE tracker \in Steps
    <3> TAKE x \in Used
    <3>1. model'[x] = CHOOSE v \in UNION {files[x][tracker][r] : r \in Ranks} : TRUE
      BY <1>1, <2>2 DEF Load
    <3>2. PICK r \in Ranks : model'[x] \in files[x][tracker][r]
      <4>1. PICK r \in Ranks : files[x][tracker][r] # {}
        BY <1>1, <2>2, RanksAssumption DEF Unreadable
      <4> QED
        BY <3>1, <4>1
    <3>3. InOrder(model'[x], x, tracker) /\ Under(model'[x], data[tracker] + 1)
      BY <2>2, <3>2 DEF OInv, Files, Named
    <3>4. global_steps' = tracker /\ taken' = data[tracker]
      BY <2>2 DEF OInv, Named, Load, Absent
    <3> QED
      BY <3>3, <3>4
  <2> QED
    BY <2>1, <2>2
<1>5. taken' - global_steps' \in 0 .. Slack(crashes)
  <2>1. CASE tracker \notin Steps
    BY <1>1, <1>2, <2>1 DEF Load, memory, Slack
  <2>2. CASE tracker \in Steps
    BY <1>1, <2>2 DEF OInv, Named, DataAt, Load, Absent
  <2> QED
    BY <2>1, <2>2
<1>6. Learned'
  <2>1. DOMAIN model' = Roles
    BY DEF OInv, Learned, Load, memory
  <2> QED
    BY <1>1, <1>4, <2>1 DEF Learned, LearnedStep, InOrder, Increasing, Updates, Slack
<1>7. InFlight'
  BY <1>1, <1>5 DEF InFlight, OInv, Slack
<1>8. Below'
  BY <1>1, <1>4 DEF Below, Under
<1> QED
  BY <1>3, <1>6, <1>7, <1>8 DEF OInv

LEMMA Fails ==
  ASSUME IInv, OInv, VInv, LoadFails
  PROVE  OInv' /\ VInv'
<1> USE DEF LoadFails, ckptVars, memory, caller, Goto, Before, Trained, Running
<1>1. Used' = Used /\ crashes \in Nat /\ saving = "idle"
  BY Numbers DEF Used, IInv, Types
<1>2. Files' /\ DataAt' /\ Named'
  BY <1>1, DiskStays DEF OInv
<1>3. Learned' /\ InFlight' /\ Below'
  BY <1>1 DEF OInv, Learned, InFlight, Below
<1>4. Synchronous' /\ OneStepOff' /\ Validated'
  <2>1. pc' = "unreadable" /\ UNCHANGED <<config, rollout, val>>
    OBVIOUS
  <2>2. Synchronous' /\ OneStepOff'
    BY <2>1 DEF Synchronous, OneStepOff
  <2> QED
    BY <2>1, <2>2 DEF VInv, Validated
<1> QED
  BY <1>2, <1>3, <1>4 DEF OInv, VInv

LEMMA ResumesVersions ==
  ASSUME VInv, LoadCheckpoint
  PROVE  VInv'
<1> USE DEF LoadCheckpoint, Goto, Before, Trained, Running
<1>1. pc' = "validate_first" /\ UNCHANGED <<config, rollout, val>>
  BY DEF Load
<1>2. Synchronous' /\ OneStepOff'
  BY <1>1 DEF Synchronous, OneStepOff
<1> QED
  BY <1>1, <1>2 DEF VInv, Validated

LEMMA ValidatesBefore ==
  ASSUME IInv, OInv, VInv, ValBeforeTrain
  PROVE  OInv' /\ VInv'
<1> USE DEF ValBeforeTrain, caller, Goto, Before, Trained, Running
<1>1. Used' = Used /\ crashes \in Nat /\ saving = "idle" /\ "actor" \in Used
      /\ global_steps \in Nat /\ global_steps' = global_steps + 1
  BY Numbers DEF Used, IInv, Types
<1>2. Files' /\ DataAt' /\ Named'
  BY <1>1, DiskStays DEF OInv
<1>3. Learned'
  BY <1>1 DEF OInv, Learned, LearnedStep, InOrder, Updates, Increasing, Slack
<1>4. InFlight' /\ Below'
  BY <1>1 DEF OInv, InFlight, Below, Slack, Under
<1>5. Version \in Nat
  BY <1>1 DEF OInv, Learned, InOrder, Version
<1>6. Synchronous' /\ OneStepOff' /\ Validated'
  BY <1>1, <1>5 DEF VInv, Synchronous, OneStepOff, Validated, Version
<1> QED
  BY <1>2, <1>3, <1>4, <1>6 DEF OInv, VInv

-----------------------------------------------------------------------------
(* A batch is drawn, generated and awaited.                                *)

(* The weights are not touched, nor the disk. *)
Still == UNCHANGED <<config, global_steps, model, caller, disk, crashes>>

LEMMA StillDisk ==
  ASSUME IInv, OInv, Still, pc \in Running \ {"saving"}, pc' # "load"
  PROVE  /\ Files' /\ DataAt' /\ Named'
         /\ Used' = Used /\ "actor" \in Used /\ Used \subseteq Roles
         /\ crashes \in Nat /\ taken \in Nat /\ global_steps \in Nat /\ Version \in Nat
         /\ config.mode \in {"ppo", "one_step_off"}
<1>1. saving = "idle" /\ saving' = "idle"
  BY DEF IInv, Types, Still, caller, Running, Before, Trained
<1>2. crashes \in Nat /\ crashes' = crashes /\ UNCHANGED <<config, disk>>
  BY Numbers DEF Still
<1>3. Files' /\ DataAt' /\ Named'
  BY <1>1, <1>2, DiskStays DEF OInv
<1>4. Used' = Used
  BY DEF Still, Used
<1>5. Version \in Nat
  BY Numbers DEF OInv, Learned, InOrder, Version
<1> QED
  BY <1>3, <1>4, <1>5, Numbers

LEMMA StillLearned ==
  ASSUME OInv, Still, pc \in Running, Used' = Used,
         pc' \in Running => \A x \in Used : LearnedStep(x)' = LearnedStep(x),
         pc' # "load"
  PROVE  Learned'
BY DEF OInv, Still, Learned, InOrder, Increasing, Updates, Slack

LEMMA NextBatches ==
  ASSUME IInv, OInv, VInv, NextBatch
  PROVE  OInv' /\ VInv'
<1> USE DEF Goto, Before, Trained, Running
<1>1. /\ Still /\ pc = "next" /\ config.mode = "ppo"
      /\ UNCHANGED <<future, rollout, val>>
      /\ \/ pc' = "wake_up" /\ taken' = taken + 1 /\ batch' = [id |-> taken + 1, version |-> 0]
         \/ pc' = "done" /\ UNCHANGED <<taken, batch>>
  BY DEF NextBatch, Draw, Still
<1>2. /\ Files' /\ DataAt' /\ Named' /\ Used' = Used /\ "actor" \in Used
      /\ crashes \in Nat /\ taken \in Nat /\ global_steps \in Nat
  BY <1>1, StillDisk
<1>3. Learned'
  BY <1>1, <1>2, StillLearned DEF LearnedStep, Still
<1>4. InFlight'
  <2>1. taken - (global_steps - 1) = 0 /\ batch.id \in Nat /\ future.id \in Nat
    BY <1>1 DEF OInv, InFlight, Slack
  <2>2. taken + 1 - global_steps = 0
    BY <1>2, <2>1
  <2>3. CASE pc' = "wake_up"
    BY <1>1, <1>2, <2>1, <2>2, <2>3 DEF Still, InFlight, Slack
  <2>4. CASE pc' = "done"
    BY <1>1, <2>1, <2>4 DEF InFlight
  <2> QED
    BY <1>1, <2>3, <2>4
<1>5. Below'
  <2>1. \A x \in Used : Under(model[x], taken + 1)
    BY <1>1 DEF OInv, Below
  <2> QED
    BY <1>1, <1>2, <2>1 DEF Still, Below, Under
<1>6. Synchronous' /\ OneStepOff' /\ Validated'
  BY <1>1, <1>2 DEF VInv, Still, Synchronous, OneStepOff, Validated
<1> QED
  BY <1>2, <1>3, <1>4, <1>5, <1>6 DEF OInv, VInv

LEMMA WakesUp ==
  ASSUME IInv, OInv, VInv, WakeUp \/ Generated
  PROVE  OInv' /\ VInv'
<1> USE DEF Goto, Before, Trained, Running
<1>1. /\ Still /\ UNCHANGED <<taken, future, val>> /\ batch'.id = batch.id
      /\ \/ pc = "wake_up" /\ pc' = "generate" /\ rollout' = Version /\ config.mode = "ppo"
         \/ /\ pc = "generate" /\ pc' = "update_critic" /\ rollout' = rollout
            /\ batch'.version = rollout /\ config.mode # "one_step_off"
  <2>1. batch' = [batch EXCEPT !.version = rollout] => batch'.id = batch.id
    OBVIOUS
  <2>2. CASE WakeUp
    BY <2>2 DEF WakeUp, Still, ckptVars, memory
  <2>3. CASE Generated
    BY <2>1, <2>3 DEF Generated, Still, ckptVars, memory, VInv, OneStepOff
  <2> QED
    BY <2>2, <2>3
<1>2. /\ Files' /\ DataAt' /\ Named' /\ Used' = Used /\ "actor" \in Used
      /\ crashes \in Nat /\ taken \in Nat /\ global_steps \in Nat /\ Version \in Nat
  BY <1>1, StillDisk
<1>3. Learned'
  BY <1>1, <1>2, StillLearned DEF LearnedStep, Still
<1>4. InFlight' /\ Below'
  BY <1>1, <1>2 DEF OInv, Still, InFlight, Below, Slack, Under
<1>5. Synchronous' /\ OneStepOff' /\ Validated'
  BY <1>1, <1>2 DEF VInv, Still, Synchronous, OneStepOff, Validated, Version
<1> QED
  BY <1>2, <1>3, <1>4, <1>5 DEF OInv, VInv

(* create_task: what becomes of the future. *)
LEMMA Tasks ==
  ASSUME NEW version, StartTask(version), taken \in Nat
  PROVE  \/ taken' = taken + 1 /\ future' = [state |-> "running", id |-> taken', version |-> version]
         \/ taken' = taken /\ future' = [state |-> "none", id |-> 0, version |-> 0]
BY DEF StartTask, Draw

LEMMA FirstTasks ==
  ASSUME IInv, OInv, VInv, FirstTask
  PROVE  OInv' /\ VInv'
<1> USE DEF Goto, Before, Trained, Running
<1>1. /\ Still /\ pc = "next" /\ pc' = "await" /\ config.mode = "one_step_off"
      /\ UNCHANGED <<batch, rollout, val>> /\ StartTask(rollout)
  BY DEF FirstTask, Still
<1>2. /\ Files' /\ DataAt' /\ Named' /\ Used' = Used /\ "actor" \in Used
      /\ crashes \in Nat /\ taken \in Nat /\ global_steps \in Nat /\ Version \in Nat
  BY <1>1, StillDisk
<1>3. \/ /\ taken' = taken + 1 /\ future'.id = taken' /\ future'.version = rollout
      \/ taken' = taken /\ future'.state = "none" /\ future'.id = 0
  BY <1>1, <1>2, Tasks
<1>4. Learned'
  BY <1>1, <1>2, StillLearned DEF LearnedStep, Still
<1>5. InFlight'
  <2>1. taken - (global_steps - 1) \in 0 .. Slack(crashes) /\ batch.id \in Nat
    BY <1>1 DEF OInv, InFlight
  <2>2. taken + 1 - global_steps \in 0 .. Slack(crashes)
    BY <1>2, <2>1
  <2> QED
    BY <1>1, <1>2, <1>3, <2>1, <2>2 DEF Still, InFlight, Slack
<1>6. Below'
  <2>1. \A x \in Used : Under(model[x], taken + 1)
    BY <1>1 DEF OInv, Below
  <2> QED
    BY <1>1, <1>2, <1>3, <2>1 DEF Still, Below, Under
<1>7. Synchronous' /\ OneStepOff' /\ Validated'
  BY <1>1, <1>2, <1>3 DEF VInv, Still, Synchronous, OneStepOff, Validated, Version
<1> QED
  BY <1>2, <1>4, <1>5, <1>6, <1>7 DEF OInv, VInv

LEMMA Generations ==
  ASSUME IInv, OInv, VInv, GenerationEnds
  PROVE  OInv' /\ VInv'
<1> USE DEF GenerationEnds, ckptVars, memory, caller, disk
<1>1. /\ future'.id = future.id /\ future'.version = future.version
      /\ future.state # "none" /\ Used' = Used
  BY DEF Used, InFlight, OInv
<1>2. Learned' /\ Below'
  BY <1>1 DEF OInv, Learned, LearnedStep, InOrder, Increasing, Updates, Slack, Below, Under
<1>3. InFlight'
  BY <1>1 DEF OInv, InFlight, Slack, is_last_step
<1>4. Files' /\ DataAt' /\ Named'
  BY <1>1 DEF OInv, Files, InOrder, Increasing, Updates, Slack, DataAt, Named, Under
<1>5. Synchronous' /\ OneStepOff' /\ Validated'
  BY <1>1 DEF VInv, Synchronous, OneStepOff, Validated, Version, Gain, is_last_step
<1> QED
  BY <1>2, <1>3, <1>4, <1>5 DEF OInv, VInv

LEMMA Awaits ==
  ASSUME IInv, OInv, VInv, AwaitBatch
  PROVE  OInv' /\ VInv'
<1> USE DEF Goto, Before, Trained, Running
<1>1. /\ Still /\ pc = "await" /\ config.mode # "ppo"
      /\ UNCHANGED <<taken, future, rollout, val>>
      /\ \/ pc' = "exhausted" /\ batch' = batch
         \/ /\ pc' = "sync_rollout_weights" /\ future.state # "none"
            /\ batch' = [id |-> future.id, version |-> future.version]
  BY DEF AwaitBatch, Still, ckptVars, memory, VInv, Synchronous
<1>2. /\ Files' /\ DataAt' /\ Named' /\ Used' = Used /\ "actor" \in Used
      /\ crashes \in Nat /\ taken \in Nat /\ global_steps \in Nat /\ Version \in Nat
  BY <1>1, StillDisk
<1>3. Learned'
  BY <1>1, <1>2, StillLearned DEF LearnedStep, Still
<1>4. InFlight' /\ Below'
  <2>1. InFlight'
    BY <1>1, <1>2 DEF OInv, Still, InFlight, Slack
  <2>2. /\ future.state # "none" => future.id = taken /\ \A x \in Used : Under(model[x], taken)
        /\ pc' = "sync_rollout_weights" => future.state # "none" /\ batch'.id = future.id
    BY <1>1 DEF OInv, InFlight, Below
  <2>3. Below'
    BY <1>1, <1>2, <2>2 DEF Still, Below, Under
  <2> QED
    BY <2>1, <2>3
<1>5. Synchronous' /\ OneStepOff' /\ Validated'
  BY <1>1, <1>2 DEF VInv, Still, Synchronous, OneStepOff, Validated, Version
<1> QED
  BY <1>2, <1>3, <1>4, <1>5 DEF OInv, VInv

LEMMA Syncs ==
  ASSUME IInv, OInv, VInv, Sync
  PROVE  OInv' /\ VInv'
<1> USE DEF Goto, Before, Trained, Running
<1>1. /\ Still /\ pc = "sync_rollout_weights" /\ pc' = "update_critic"
      /\ config.mode # "ppo" /\ rollout' = Version /\ UNCHANGED <<batch, val>>
      /\ is_last_step' = is_last_step
      /\ \/ is_last_step /\ UNCHANGED <<taken, future>>
         \/ StartTask(Version)
  BY DEF Sync, Still, VInv, Synchronous, is_last_step
<1>2. /\ Files' /\ DataAt' /\ Named' /\ Used' = Used /\ "actor" \in Used
      /\ crashes \in Nat /\ taken \in Nat /\ global_steps \in Nat /\ Version \in Nat
      /\ config.mode = "one_step_off"
  BY <1>1, StillDisk
<1>3. \/ taken' = taken + 1 /\ future'.id = taken' /\ future'.version = Version
      \/ taken' = taken /\ future'.state = "none" /\ future'.id = 0
      \/ is_last_step /\ UNCHANGED <<taken, future>>
  BY <1>1, <1>2, Tasks
<1>4. Learned'
  BY <1>1, <1>2, StillLearned DEF LearnedStep, Still
<1>5. InFlight'
  <2>1. /\ batch.id = taken /\ taken - global_steps \in 0 .. Slack(crashes)
        /\ future.id \in Nat
    BY <1>1 DEF OInv, InFlight
  <2>2. taken' \in {taken, taken + 1} /\ taken' - taken \in 0 .. Slack(1)
    BY <1>2, <1>3 DEF Slack
  <2>3. /\ batch'.id = batch.id /\ batch.id \in Nat /\ global_steps' = global_steps
        /\ Slack(crashes)' = Slack(crashes) /\ Slack(1)' = Slack(1)
    BY <1>1, <1>2, <2>1 DEF Still, Slack
  <2>4. /\ future'.id \in Nat
        /\ future'.state # "none" /\ ~is_last_step =>
             future'.id = taken' /\ taken' = batch.id + 1
    BY <1>2, <1>3, <2>1
  <2> QED
    BY <1>1, <2>1, <2>2, <2>3, <2>4 DEF InFlight
<1>6. Below'
  BY <1>1, <1>2 DEF OInv, Still, Below, Under
<1>7. Synchronous' /\ OneStepOff' /\ Validated'
  BY <1>1, <1>2, <1>3 DEF VInv, Still, Synchronous, OneStepOff, Validated, Version
<1> QED
  BY <1>2, <1>4, <1>5, <1>6, <1>7 DEF OInv, VInv

-----------------------------------------------------------------------------
(* The weights learn from the batch.                                       *)

LEMMA UpdatesCritic ==
  ASSUME IInv, OInv, VInv, UpdateCritic
  PROVE  OInv' /\ VInv'
<1> USE DEF Goto, Before, Trained, Running
<1>1. /\ UNCHANGED <<config, global_steps, taken, caller, disk, batch, future, rollout, val, crashes>>
      /\ pc = "update_critic" /\ pc' = "update_actor"
      /\ saving = "idle" /\ Used' = Used /\ is_last_step' = is_last_step
      /\ Used \subseteq Roles /\ Roles = {"actor", "critic"} /\ "actor" \in Used
      /\ crashes \in Nat /\ global_steps \in Nat \ {0} /\ taken \in Nat
      /\ config.critic_warmup \in Nat
  BY Numbers DEF UpdateCritic, Used, is_last_step, IInv, Types
<1>2. Files' /\ DataAt' /\ Named'
  BY <1>1, DiskStays DEF OInv, caller
<1>3. \A x \in Used : InOrder(model[x], x, global_steps - 1) /\ Under(model[x], batch.id)
  BY <1>1 DEF OInv, Learned, LearnedStep, Below
<1>4. batch.id \in Nat /\ batch.id - global_steps \in 0 .. Slack(crashes)
  BY <1>1 DEF OInv, InFlight
<1>5. model'["actor"] = model["actor"]
  BY <1>1 DEF UpdateCritic, OInv, Learned
<1>6. ASSUME "critic" \in Used
      PROVE  /\ model'["critic"] = Append(model["critic"], batch.id)
             /\ InOrder(model'["critic"], "critic", global_steps)
             /\ Under(model'["critic"], batch.id + 1)
  <2>1. config.use_critic /\ "critic" \in Roles
    BY <1>1, <1>6 DEF Used
  <2>2. model'["critic"] = Append(model["critic"], batch.id)
    BY <2>1 DEF UpdateCritic, OInv, Learned
  <2>3. /\ InOrder(model["critic"], "critic", global_steps - 1)
        /\ Under(model["critic"], batch.id)
    BY <1>3, <1>6
  <2> QED
    BY <1>1, <1>4, <2>1, <2>2, <2>3, Appended
<1>7. Learned'
  <2>1. ASSUME NEW x \in Used PROVE InOrder(model[x], x, LearnedStep(x))'
    <3>1. CASE x = "critic"
      <4>1. LearnedStep(x)' = global_steps
        BY <1>1, <3>1 DEF LearnedStep
      <4>2. InOrder(model'[x], x, global_steps)
        BY <1>6, <2>1, <3>1
      <4> QED
        BY <1>1, <4>1, <4>2 DEF InOrder, Increasing, Updates, Slack
    <3>2. CASE x = "actor"
      <4>1. LearnedStep(x)' = global_steps - 1
        BY <1>1, <3>2 DEF LearnedStep
      <4>2. InOrder(model'[x], x, global_steps - 1)
        BY <1>1, <1>3, <1>5, <3>2
      <4> QED
        BY <1>1, <4>1, <4>2 DEF InOrder, Increasing, Updates, Slack
    <3> QED
      BY <1>1, <3>1, <3>2
  <2>2. DOMAIN model' = Roles
    BY DEF UpdateCritic, OInv, Learned
  <2> QED
    BY <1>1, <2>1, <2>2 DEF Learned
<1>8. Below'
  BY <1>1, <1>3, <1>5, <1>6 DEF Below, Under
<1>9. InFlight'
  BY <1>1 DEF OInv, InFlight, Slack
<1>10. Synchronous' /\ OneStepOff' /\ Validated'
  BY <1>1, <1>5 DEF VInv, Synchronous, OneStepOff, Validated, Version
<1> QED
  BY <1>2, <1>7, <1>8, <1>9, <1>10 DEF OInv, VInv

LEMMA UpdatesActor ==
  ASSUME IInv, OInv, VInv, UpdateActor
  PROVE  OInv' /\ VInv'
<1> USE DEF Goto, Before, Trained, Running
<1>1. /\ UNCHANGED <<config, global_steps, taken, caller, disk, batch, future, rollout, val, crashes>>
      /\ pc = "update_actor" /\ pc' = "validate"
      /\ saving = "idle" /\ Used' = Used /\ is_last_step' = is_last_step
      /\ Used \subseteq Roles /\ Roles = {"actor", "critic"} /\ "actor" \in Used
      /\ crashes \in Nat /\ global_steps \in Nat \ {0} /\ taken \in Nat
      /\ config.critic_warmup \in Nat
  BY Numbers DEF UpdateActor, Used, is_last_step, IInv, Types
<1>2. Files' /\ DataAt' /\ Named'
  BY <1>1, DiskStays DEF OInv, caller
<1>3. /\ InOrder(model["actor"], "actor", global_steps - 1) /\ Under(model["actor"], batch.id)
      /\ "critic" \in Used => /\ InOrder(model["critic"], "critic", global_steps)
                              /\ Under(model["critic"], batch.id + 1)
  BY <1>1 DEF OInv, Learned, LearnedStep, Below
<1>4. batch.id \in Nat /\ batch.id - global_steps \in 0 .. Slack(crashes)
  BY <1>1 DEF OInv, InFlight
<1>5. model'["critic"] = model["critic"] /\ DOMAIN model' = Roles
  BY <1>1 DEF UpdateActor, OInv, Learned
<1>6. /\ InOrder(model'["actor"], "actor", global_steps)
      /\ Under(model'["actor"], batch.id + 1)
      /\ Len(model'["actor"]) = Version + Gain /\ Version \in Nat
  <2>1. model["actor"] \in Seq(Nat) /\ Version \in Nat
    BY <1>3 DEF InOrder, Version
  <2>2. CASE config.critic_warmup <= global_steps
    <3>1. model'["actor"] = Append(model["actor"], batch.id)
      BY <1>1, <2>2 DEF UpdateActor, OInv, Learned
    <3>2. Len(model'["actor"]) = Version + 1
      BY <1>4, <2>1, <3>1 DEF Version
    <3> QED
      BY <1>1, <1>3, <1>4, <2>1, <2>2, <3>1, <3>2, Appended DEF Gain
  <2>3. CASE ~(config.critic_warmup <= global_steps)
    <3>1. model' = model
      BY <2>3 DEF UpdateActor
    <3>2. InOrder(model["actor"], "actor", global_steps) /\ model["actor"] = <<>>
      BY <1>1, <1>3, <2>3, WarmedUp
    <3> QED
      BY <2>1, <2>3, <3>1, <3>2 DEF Gain, Under, Version
  <2> QED
    BY <2>2, <2>3
<1>7. Learned'
  <2>1. ASSUME NEW x \in Used PROVE InOrder(model[x], x, LearnedStep(x))'
    <3>1. CASE x = "critic"
      <4>1. LearnedStep(x)' = global_steps
        BY <1>1, <3>1 DEF LearnedStep
      <4>2. InOrder(model'[x], x, global_steps)
        BY <1>3, <1>5, <2>1, <3>1
      <4> QED
        BY <1>1, <4>1, <4>2 DEF InOrder, Increasing, Updates, Slack
    <3>2. CASE x = "actor"
      <4>1. LearnedStep(x)' = global_steps
        BY <1>1, <3>2 DEF LearnedStep
      <4>2. InOrder(model'[x], x, global_steps)
        BY <1>6, <3>2
      <4> QED
        BY <1>1, <4>1, <4>2 DEF InOrder, Increasing, Updates, Slack
    <3> QED
      BY <1>1, <3>1, <3>2
  <2>2. DOMAIN model' = Roles
    BY DEF UpdateActor, OInv, Learned
  <2> QED
    BY <1>1, <2>1, <2>2 DEF Learned
<1>8. Below'
  BY <1>1, <1>3, <1>5, <1>6 DEF Below, Under
<1>9. InFlight'
  BY <1>1 DEF OInv, InFlight, Slack
<1>10. Synchronous' /\ OneStepOff' /\ Validated'
  <2>1. Synchronous'
    BY <1>1 DEF VInv, Synchronous, Validated
  <2>2. rollout = Version /\ Gain' = Gain /\ Gain \in Nat /\ Version' = Version + Gain
        => Version' - rollout = Gain'
    BY <1>6
  <2>3. Version' = Version + Gain /\ Gain' = Gain /\ Gain \in Nat
    BY <1>1, <1>6 DEF Version, Gain
  <2>4. OneStepOff'
    BY <1>1, <2>2, <2>3 DEF VInv, OneStepOff, Validated
  <2>5. Validated'
    BY <1>1 DEF VInv, Validated
  <2> QED
    BY <2>1, <2>4, <2>5
<1> QED
  BY <1>2, <1>7, <1>8, <1>9, <1>10 DEF OInv, VInv

-----------------------------------------------------------------------------
(* The rest of a step.                                                     *)

LEMMA Validates ==
  ASSUME IInv, OInv, VInv, Validate
  PROVE  OInv' /\ VInv'
<1> USE DEF Goto, Before, Trained, Running
<1>1. /\ Still /\ pc = "validate" /\ pc' = "save" /\ UNCHANGED <<taken, batch, future>>
      /\ is_last_step' = is_last_step
      /\ \/ /\ rollout' = IF config.mode = "ppo" THEN Version ELSE rollout
            /\ val' = [step |-> global_steps, version |-> rollout']
         \/ UNCHANGED <<rollout, val>>
  BY DEF Validate, Still, ckptVars, memory, is_last_step
<1>2. /\ Files' /\ DataAt' /\ Named' /\ Used' = Used /\ "actor" \in Used
      /\ crashes \in Nat /\ taken \in Nat /\ global_steps \in Nat /\ Version \in Nat
  BY <1>1, StillDisk
<1>3. Learned'
  BY <1>1, <1>2, StillLearned DEF LearnedStep, Still
<1>4. InFlight' /\ Below'
  BY <1>1, <1>2 DEF OInv, Still, InFlight, Below, Slack, Under
<1>5. Synchronous' /\ OneStepOff' /\ Validated'
  BY <1>1, <1>2 DEF VInv, Still, Synchronous, OneStepOff, Validated, Version, Gain
<1> QED
  BY <1>2, <1>3, <1>4, <1>5 DEF OInv, VInv

LEMMA MaybeSaves ==
  ASSUME IInv, OInv, VInv, Save
  PROVE  OInv' /\ VInv'
<1> USE DEF Goto, Before, Trained, Running
<1>1. /\ UNCHANGED <<config, global_steps, model, taken, disk, batch, future, rollout, val, crashes>>
      /\ pc = "save" /\ pc' \in {"saving", "end_step"} /\ saving' \in {"idle", "clean"}
      /\ Used' = Used /\ is_last_step' = is_last_step /\ crashes \in Nat
      /\ global_steps \in Nat
  BY Numbers DEF Save, MaySave, SaveCheckpoint, ckptVars, memory, caller, Used, is_last_step,
                 IInv, Types
<1>2. Files' /\ DataAt' /\ Named'
  BY <1>1, DiskStays DEF OInv
<1>3. Learned'
  BY <1>1 DEF OInv, Learned, LearnedStep, InOrder, Increasing, Updates, Slack
<1>4. InFlight'
  BY <1>1 DEF OInv, InFlight, Slack
<1>5. Below'
  BY <1>1 DEF OInv, Below, Under
<1>6. Synchronous' /\ OneStepOff' /\ Validated'
  BY <1>1 DEF VInv, Synchronous, OneStepOff, Validated, Version, Gain
<1> QED
  BY <1>2, <1>3, <1>4, <1>5, <1>6 DEF OInv, VInv

LEMMA EndsAStep ==
  ASSUME IInv, OInv, VInv, EndStep
  PROVE  OInv' /\ VInv'
<1> USE DEF Goto, Before, Trained, Running
<1>1. /\ UNCHANGED <<config, model, taken, caller, disk, future, rollout, val, crashes>>
      /\ pc = "end_step" /\ saving = "idle" /\ batch' = NoBatch
      /\ global_steps' = global_steps + 1
      /\ \/ pc' = "done"
         \/ pc' = "next" /\ config.mode = "ppo"
         \/ pc' = "await" /\ config.mode = "one_step_off" /\ ~is_last_step
      /\ Used' = Used /\ crashes \in Nat /\ global_steps \in Nat /\ taken \in Nat
  BY Numbers DEF EndStep, Used, IInv, Types
<1>2. Files' /\ DataAt' /\ Named'
  BY <1>1, DiskStays DEF OInv, caller
<1>3. Learned'
  BY <1>1 DEF OInv, Learned, LearnedStep, InOrder, Increasing, Updates, Slack
<1>4. /\ batch.id \in Nat /\ future.id \in Nat
      /\ batch.id - global_steps \in 0 .. Slack(crashes)
      /\ taken - batch.id \in 0 .. Slack(1)
      /\ future.state # "none" /\ ~is_last_step /\ config.mode = "one_step_off" =>
           future.id = taken /\ taken = batch.id + 1
  BY <1>1 DEF OInv, InFlight
<1>5. InFlight'
  <2>1. batch'.id \in Nat /\ future'.id \in Nat
    BY <1>1, <1>4 DEF NoBatch
  <2>2. CASE pc' = "next" /\ config.mode = "ppo"
    <3>1. taken = batch.id /\ batch.id = global_steps
      BY <1>1, <1>4, <2>2 DEF Slack
    <3> QED
      BY <1>1, <2>1, <2>2, <3>1 DEF InFlight, Slack
  <2>3. CASE pc' = "await"
    <3>1. future.state # "none" =>
            future.id = taken /\ taken - (global_steps + 1) \in 0 .. Slack(crashes)
      BY <1>1, <1>4, <2>3
    <3> QED
      BY <1>1, <2>1, <2>3, <3>1 DEF InFlight, Slack
  <2>4. CASE pc' = "done"
    BY <2>1, <2>4 DEF InFlight
  <2> QED
    BY <1>1, <2>2, <2>3, <2>4
<1>6. Below'
  <2>1. \A x \in Used : Under(model[x], batch.id + 1)
    BY <1>1 DEF OInv, Below
  <2>2. pc' = "next" => taken = batch.id
    BY <1>1, <1>4 DEF Slack
  <2>3. pc' = "await" /\ future.state # "none" => taken = batch.id + 1
    BY <1>1, <1>4
  <2>4. \A x \in Used : /\ pc' = "next" => Under(model[x], taken + 1)
                        /\ pc' = "await" /\ future.state # "none" => Under(model[x], taken)
    BY <2>1, <2>2, <2>3
  <2> QED
    BY <1>1, <2>4 DEF Below, Under
<1>7. Synchronous' /\ OneStepOff' /\ Validated'
  <2>1. Synchronous'
    BY <1>1 DEF VInv, Synchronous
  <2>2. config.mode = "one_step_off" => Version - rollout = Gain /\ Gain \in {0, 1}
    BY <1>1 DEF VInv, OneStepOff, Gain
  <2>3. OneStepOff'
    BY <1>1, <2>2 DEF VInv, OneStepOff, Version
  <2>4. Validated'
    BY <1>1 DEF VInv, Validated
  <2> QED
    BY <2>1, <2>3, <2>4
<1> QED
  BY <1>2, <1>3, <1>5, <1>6, <1>7 DEF OInv, VInv

-----------------------------------------------------------------------------
(* Saving.                                                                 *)

LEMMA FewerFiles ==
  ASSUME Files, Named, Used' = Used, UNCHANGED <<config, data, tracker, crashes>>,
         \A x \in Used : \A n \in Steps : \A r \in Ranks : files'[x][n][r] \subseteq files[x][n][r]
  PROVE  Files' /\ Named'
<1>1. Files'
  <2> SUFFICES ASSUME NEW x \in Used, NEW n \in Steps, NEW r \in Ranks,
                      NEW v \in files'[x][n][r]
               PROVE  InOrder(v, x, n)'
    BY DEF Files
  <2>1. InOrder(v, x, n)
    BY DEF Files
  <2> QED
    BY <2>1 DEF InOrder, Increasing, Updates, Slack
<1>2. Named'
  <2> SUFFICES ASSUME tracker \in Steps, NEW x \in Used, NEW r \in Ranks,
                      NEW v \in files'[x][tracker][r]
               PROVE  Under(v, data[tracker] + 1)'
    BY DEF Named
  <2>1. Under(v, data[tracker] + 1)
    BY DEF Named
  <2> QED
    BY <2>1 DEF Under
<1> QED
  BY <1>1, <1>2

LEMMA SameFiles ==
  ASSUME Files, Used' = Used, UNCHANGED <<config, files, crashes>>
  PROVE  Files'
<1> SUFFICES ASSUME NEW x \in Used, NEW n \in Steps, NEW r \in Ranks, NEW v \in files[x][n][r]
             PROVE  InOrder(v, x, n)'
  BY DEF Files
<1>1. InOrder(v, x, n)
  BY DEF Files
<1> QED
  BY <1>1 DEF InOrder, Increasing, Updates, Slack

(* Another value of data.pt, of a step the tracker does not name. *)
LEMMA NewData ==
  ASSUME Files, DataAt, Named, global_steps \in Steps, tracker # global_steps,
         NEW value, data' = [data EXCEPT ![global_steps] = value], data \in [Steps -> Nat \cup {Absent, Torn}],
         UNCHANGED <<config, files, tracker, crashes, pc, global_steps, taken>>, Used' = Used,
         value \in Nat => value - global_steps \in 0 .. Slack(crashes + 1),
         saving' \in {"tracker", "open_tracker"} => value = taken,
         pc # "load"
  PROVE  Files' /\ DataAt' /\ Named'
<1>1. Files'
  BY SameFiles
<1>2. \A n \in Steps : data'[n] = IF n = global_steps THEN value ELSE data[n]
  OBVIOUS
<1>3. DataAt'
  BY <1>2 DEF DataAt, Slack
<1>4. Named'
  BY <1>2 DEF Named, Under
<1> QED
  BY <1>1, <1>3, <1>4

LEMMA SavingFacts ==
  ASSUME IInv, OInv, Saving
  PROVE  /\ UNCHANGED <<config, global_steps, model, taken, batch, future, rollout, val, crashes>>
         /\ pc = "saving" /\ pc' \in {"saving", "end_step"} /\ SaveNext
         /\ Used' = Used /\ Used \subseteq Roles /\ crashes \in Nat /\ role \in Used
         /\ global_steps \in Steps /\ global_steps \in Nat /\ taken \in Nat
         /\ tracker # global_steps
         /\ data \in [Steps -> Nat \cup {Absent, Torn}]
         /\ taken - global_steps \in 0 .. Slack(crashes + 1)
         /\ \A x \in Used : InOrder(model[x], x, global_steps) /\ Under(model[x], taken + 1)
<1> USE DEF Before, Trained, Running
<1>1. /\ UNCHANGED <<batch, future, rollout, val, crashes>>
      /\ pc = "saving" /\ pc' \in {"saving", "end_step"} /\ SaveNext
  BY DEF Saving, Goto
<1>2. UNCHANGED <<config, global_steps, model, taken>>
  BY <1>1 DEF SaveNext, Clean, OpenShard, CloseShard, Saved, OpenData, CloseData,
              OpenTracker, CloseTracker, memory
<1>3. /\ Used' = Used /\ Used \subseteq Roles /\ crashes \in Nat /\ role \in Used
      /\ global_steps \in Nat /\ taken \in Nat
  BY <1>2, Numbers DEF Used
<1>4. global_steps \in Steps /\ tracker # global_steps
  BY <1>1, WhileSaving
<1>5. data \in [Steps -> Nat \cup {Absent, Torn}]
  BY DEF IInv, Types
<1>6. /\ batch.id \in Nat /\ batch.id - global_steps \in 0 .. Slack(crashes)
      /\ taken - batch.id \in 0 .. Slack(1)
  BY <1>1 DEF OInv, InFlight
<1>7. taken - global_steps \in 0 .. Slack(crashes + 1) /\ batch.id <= taken
  BY <1>3, <1>6 DEF Slack
<1>8. ASSUME NEW x \in Used
      PROVE  InOrder(model[x], x, global_steps) /\ Under(model[x], taken + 1)
  <2>1. InOrder(model[x], x, global_steps) /\ Under(model[x], batch.id + 1)
    BY <1>1 DEF OInv, Learned, LearnedStep, Below
  <2>2. \A i \in 1 .. Len(model[x]) : model[x][i] \in Nat
    BY <2>1 DEF InOrder
  <2>3. ASSUME NEW i \in 1 .. Len(model[x]) PROVE model[x][i] < taken + 1
    <3>1. model[x][i] \in Nat /\ model[x][i] < batch.id + 1
      BY <2>1, <2>2 DEF Under
    <3>2. \A m, b, t \in Nat : m < b + 1 /\ b <= t => m < t + 1
      OBVIOUS
    <3> HIDE DEF Before, Trained, Running
    <3> QED
      BY <1>3, <1>6, <1>7, <3>1, <3>2, Zenon
  <2> QED
    BY <2>1, <2>3 DEF Under
<1> QED
  BY <1>1, <1>2, <1>3, <1>4, <1>5, <1>7, <1>8

LEMMA SavingDisk ==
  ASSUME IInv, OInv, Saving
  PROVE  Files' /\ DataAt' /\ Named'
<1>1. /\ UNCHANGED <<config, global_steps, model, taken, crashes>>
      /\ pc # "load" /\ pc' # "load"
      /\ Used' = Used /\ Used \subseteq Roles /\ crashes \in Nat /\ role \in Used
      /\ global_steps \in Steps /\ tracker # global_steps /\ SaveNext
      /\ Files /\ DataAt /\ Named
  BY SavingFacts DEF OInv
<1>2. ASSUME UNCHANGED data, saving' \notin {"tracker", "open_tracker"} \/ saving \in {"tracker", "open_tracker"}
      PROVE  DataAt'
  BY <1>1, <1>2 DEF DataAt, Slack
<1>3. CASE \/ Clean \/ \E r \in Ranks : OpenShard(r)
  <2>1. UNCHANGED <<data, tracker>> /\ saving' = "write"
    BY <1>3 DEF Clean, OpenShard
  <2>2. \A x \in Used : \A n \in Steps : \A r \in Ranks : files'[x][n][r] \subseteq files[x][n][r]
    <3> SUFFICES ASSUME NEW x \in Used, NEW n \in Steps, NEW q \in Ranks
                 PROVE  files'[x][n][q] \subseteq files[x][n][q]
      OBVIOUS
    <3>0. DOMAIN files = Roles /\ DOMAIN files[x] = Steps /\ DOMAIN files[x][n] = Ranks
      BY <1>1 DEF IInv, Types
    <3>1. CASE Clean
      <4>1. files'[x][n] \in {NoShards, files[x][n]}
        BY <1>1, <3>0, <3>1 DEF Clean
      <4>2. NoShards[q] = {}
        BY DEF NoShards
      <4> QED
        BY <4>1, <4>2
    <3>2. CASE \E r \in Ranks : OpenShard(r)
      <4>1. PICK r \in Ranks : files' = [files EXCEPT ![role][global_steps][r] = {}]
        BY <3>2 DEF OpenShard
      <4>2. files'[x][n][q] \in {{}, files[x][n][q]}
        BY <1>1, <3>0, <4>1
      <4> QED
        BY <4>2
    <3> QED
      BY <1>3, <3>1, <3>2
  <2> QED
    BY <1>1, <1>2, <2>1, <2>2, FewerFiles
<1>4. CASE \E r \in Ranks : CloseShard(r)
  <2>1. PICK r \in Ranks : files' = [files EXCEPT ![role][global_steps][r] = {model[role]}]
    BY <1>4 DEF CloseShard
  <2>2. UNCHANGED <<data, tracker, saving>>
    BY <1>4 DEF CloseShard
  <2>3. ASSUME NEW x \in Used, NEW n \in Steps, NEW q \in Ranks, NEW v \in files'[x][n][q]
        PROVE  v \in files[x][n][q] \/ (v = model[role] /\ x = role /\ n = global_steps)
    <3>1. DOMAIN files = Roles /\ DOMAIN files[x] = Steps /\ DOMAIN files[x][n] = Ranks
      BY <1>1 DEF IInv, Types
    <3>2. files'[x][n][q] = IF x = role /\ n = global_steps /\ q = r THEN {model[role]} ELSE files[x][n][q]
      BY <1>1, <2>1, <3>1
    <3> QED
      BY <3>2, <2>3
  <2>4. Files'
    <3> SUFFICES ASSUME NEW x \in Used, NEW n \in Steps, NEW q \in Ranks,
                        NEW v \in files'[x][n][q]
                 PROVE  InOrder(v, x, n)'
      BY <1>1 DEF Files
    <3>1. InOrder(v, x, n)
      BY <1>1, <2>3, SavingFacts DEF Files
    <3> QED
      BY <1>1, <3>1 DEF InOrder, Increasing, Updates, Slack
  <2>5. Named'
    <3> SUFFICES ASSUME tracker \in Steps
                 PROVE  /\ data[tracker] \in Nat
                        /\ \A x \in Used : \A q \in Ranks : \A v \in files'[x][tracker][q] :
                             Under(v, data[tracker] + 1)
      BY <1>1, <2>2 DEF Named, Under
    <3> QED
      BY <1>1, <2>3 DEF Named
  <2> QED
    BY <1>1, <1>2, <2>2, <2>4, <2>5
<1>5. CASE Saved
  BY <1>1, <1>2, <1>5, FewerFiles DEF Saved, disk
<1>6. CASE OpenData
  <2>1. saving' = "open_data" /\ files' = files /\ tracker' = tracker
        /\ data' = [data EXCEPT ![global_steps] = Torn]
    BY <1>6 DEF OpenData
  <2>2. pc' = pc
    BY <2>1, SavingFacts DEF Saving, Goto
  <2>3. Torn \notin Nat
    BY DEF Torn
  <2>4. data \in [Steps -> Nat \cup {Absent, Torn}]
    BY SavingFacts
  <2> QED
    BY <1>1, <2>1, <2>2, <2>3, <2>4, NewData
<1>7. CASE CloseData
  <2>1. saving' = "tracker" /\ files' = files /\ tracker' = tracker
        /\ data' = [data EXCEPT ![global_steps] = taken]
    BY <1>7 DEF CloseData
  <2>2. pc' = pc
    BY <2>1, SavingFacts DEF Saving, Goto
  <2>3. /\ data \in [Steps -> Nat \cup {Absent, Torn}]
        /\ taken - global_steps \in 0 .. Slack(crashes + 1)
    BY SavingFacts
  <2> QED
    BY <1>1, <2>1, <2>2, <2>3, NewData
<1>8. CASE OpenTracker
  <2>1. UNCHANGED <<files, data>> /\ saving = "tracker" /\ tracker' = Torn
    BY <1>8 DEF OpenTracker
  <2>2. Files'
    BY <1>1, <2>1, SameFiles
  <2>3. Named'
    BY <2>1 DEF Named, Torn, Steps
  <2> QED
    BY <1>1, <1>2, <2>1, <2>2, <2>3
<1>9. CASE CloseTracker
  <2>1. UNCHANGED <<files, data>> /\ saving = "open_tracker" /\ tracker' = global_steps
    BY <1>9 DEF CloseTracker
  <2>2. Files'
    BY <1>1, <2>1, SameFiles
  <2>3. data[global_steps] = taken /\ taken \in Nat
    BY <1>1, <2>1, SavingFacts DEF DataAt
  <2>4. \A x \in Used : \A r \in Ranks : files[x][global_steps][r] = {model[x]}
    BY <2>1 DEF IInv, Written, HasSaved, Late
  <2>5. Named'
    BY <1>1, <2>1, <2>3, <2>4, SavingFacts DEF Named, Under
  <2> QED
    BY <1>1, <1>2, <2>1, <2>2, <2>5
<1> QED
  BY <1>1, <1>3, <1>4, <1>5, <1>6, <1>7, <1>8, <1>9 DEF SaveNext

LEMMA SavesOn ==
  ASSUME IInv, OInv, VInv, Saving
  PROVE  OInv' /\ VInv'
<1> USE DEF Before, Trained, Running
<1>1. /\ UNCHANGED <<config, global_steps, model, taken, batch, future, rollout, val, crashes>>
      /\ pc = "saving" /\ pc' \in {"saving", "end_step"} /\ Used' = Used
      /\ is_last_step' = is_last_step
  BY SavingFacts DEF is_last_step
<1>2. Files' /\ DataAt' /\ Named'
  BY SavingDisk
<1>3. Learned'
  BY <1>1 DEF OInv, Learned, LearnedStep, InOrder, Increasing, Updates, Slack
<1>4. InFlight'
  BY <1>1 DEF OInv, InFlight, Slack
<1>5. Below'
  BY <1>1 DEF OInv, Below, Under
<1>6. Synchronous' /\ OneStepOff' /\ Validated'
  BY <1>1 DEF VInv, Synchronous, OneStepOff, Validated, Version, Gain
<1> QED
  BY <1>2, <1>3, <1>4, <1>5, <1>6 DEF OInv, VInv

-----------------------------------------------------------------------------
LEMMA StaysStill ==
  ASSUME OInv, VInv, UNCHANGED trainerVars
  PROVE  OInv' /\ VInv'
<1> USE DEF trainerVars, ckptVars, driver, memory, caller, disk
<1>1. Used' = Used /\ UNCHANGED <<is_last_step, Version, Gain>>
  BY DEF Used, is_last_step, Version, Gain
<1>2. Files'
  BY <1>1, SameFiles DEF OInv
<1>3. DataAt' /\ Named'
  BY <1>1 DEF OInv, DataAt, Named, Under, Slack
<1>4. Learned'
  BY <1>1 DEF OInv, Learned, LearnedStep, InOrder, Increasing, Updates, Slack
<1>5. InFlight' /\ Below'
  BY <1>1 DEF OInv, InFlight, Below, Under, Slack
<1>6. Synchronous' /\ OneStepOff' /\ Validated'
  BY <1>1 DEF VInv, Synchronous, OneStepOff, Validated
<1> QED
  BY <1>2, <1>3, <1>4, <1>5, <1>6 DEF OInv, VInv

LEMMA StepsKeepOrder ==
  ASSUME IInv, OInv, VInv, [TrainerNext]_trainerVars
  PROVE  OInv' /\ VInv'
<1>1. CASE UNCHANGED trainerVars \/ Idle
  BY <1>1, StaysStill DEF Idle
<1>2. CASE Crash
  BY <1>2, StartsAgain
<1>3. CASE LoadCheckpoint \/ LoadFails
  BY <1>3, Resumes, ResumesVersions, Fails
<1>4. CASE ValBeforeTrain
  BY <1>4, ValidatesBefore
<1>5. CASE NextBatch \/ WakeUp \/ Generated
  BY <1>5, NextBatches, WakesUp
<1>6. CASE FirstTask \/ GenerationEnds \/ AwaitBatch \/ Sync
  BY <1>6, FirstTasks, Generations, Awaits, Syncs
<1>7. CASE UpdateCritic \/ UpdateActor \/ Validate
  BY <1>7, UpdatesCritic, UpdatesActor, Validates
<1>8. CASE Save \/ Saving \/ EndStep
  BY <1>8, MaybeSaves, SavesOn, EndsAStep
<1> QED
  BY <1>1, <1>2, <1>3, <1>4, <1>5, <1>6, <1>7, <1>8 DEF TrainerNext, FitStep

LEMMA OrderAlways == TrainerSpec => [](IInv /\ OInv /\ VInv)
<1>1. TrainerInit => IInv /\ OInv /\ VInv
  BY Begins, Starts
<1>2. IInv /\ OInv /\ VInv /\ [TrainerNext]_trainerVars => IInv' /\ OInv' /\ VInv'
  BY StepsKeepIInv, StepsKeepOrder
<1> QED
  BY <1>1, <1>2, PTL DEF TrainerSpec

(***************************************************************************)
(* Whatever crashes came before, between two steps of fit the weights have *)
(* seen every batch from the first once and in order; in one_step_off at   *)
(* most one batch for each restart is left out, and none is seen twice.    *)
(***************************************************************************)
THEOREM WeightsInOrder == TrainerSpec => []BatchesInOrder
<1>1. ASSUME IInv, OInv PROVE BatchesInOrder
  <2> SUFFICES ASSUME pc \in {"next", "await"}, NEW x \in Used
               PROVE  LET seen == model[x]
                          n == Len(seen)
                      IN  /\ n = Updates(x, global_steps - 1)
                          /\ \A i \in 1 .. n - 1 : seen[i] < seen[i + 1]
                          /\ n > 0 => seen[n] - (global_steps - 1) \in
                                        0 .. (IF config.mode = "ppo" THEN 0 ELSE crashes)
    BY DEF BatchesInOrder
  <2>1. InOrder(model[x], x, global_steps - 1)
    BY <1>1 DEF OInv, Learned, LearnedStep, Running, Trained, Before
  <2>2. Len(model[x]) \in Nat /\ Increasing(model[x])
    BY <2>1 DEF InOrder
  <2>3. \A i \in 1 .. Len(model[x]) - 1 : model[x][i] < model[x][i + 1]
    BY <2>2 DEF Increasing
  <2> QED
    BY <2>1, <2>3 DEF InOrder, Slack
<1> QED
  BY <1>1, OrderAlways, PTL

(***************************************************************************)
(* The actor is updated with a batch of its own weights or, in             *)
(* one_step_off, of the weights one update before.                         *)
(***************************************************************************)
THEOREM LagBounded == TrainerSpec => []OffPolicyLag
<1>1. ASSUME IInv, VInv PROVE OffPolicyLag
  <2> SUFFICES ASSUME pc = "update_actor"
               PROVE  Version - batch.version \in (IF config.mode = "ppo" THEN {0} ELSE {0, 1})
    BY DEF OffPolicyLag
  <2>1. CASE config.mode = "ppo"
    BY <1>1, <2>1 DEF VInv, Synchronous, Version, IInv, Types
  <2>2. CASE config.mode = "one_step_off"
    BY <1>1, <2>2 DEF VInv, OneStepOff
  <2> QED
    BY <1>1, <2>1, <2>2, Numbers
<1> QED
  BY <1>1, OrderAlways, PTL

(***************************************************************************)
(* A validation of step n reports the weights after step n or, in          *)
(* one_step_off once the warmup of the critic is over, those of one update *)
(* before.                                                                 *)
(***************************************************************************)
THEOREM ValidatesWhatItLogs == TrainerSpec => []ValidatedWeights
<1>1. ASSUME IInv, OInv, VInv PROVE ValidatedWeights
  <2> SUFFICES ASSUME val.step = global_steps, pc = "save"
               PROVE  Version - val.version \in
                        (IF config.mode = "ppo" \/ global_steps < config.critic_warmup
                         THEN {0} ELSE {1})
    BY DEF ValidatedWeights
  <2>1. model["actor"] \in Seq(Nat)
    BY <1>1, Numbers DEF OInv, Learned, InOrder, Running, Trained
  <2>2. Version \in Nat
    BY <2>1 DEF Version
  <2>3. CASE config.mode = "ppo"
    BY <1>1, <2>2, <2>3 DEF VInv, Synchronous
  <2>4. CASE config.mode = "one_step_off"
    BY <1>1, <2>2, <2>4, Numbers DEF VInv, OneStepOff, Trained, Gain
  <2> QED
    BY <1>1, <2>3, <2>4, Numbers
<1> QED
  BY <1>1, OrderAlways, PTL

-----------------------------------------------------------------------------
(* How far the driver comes.                                               *)

(* What is left of the loops is known: this process began at the first     *)
(* batch or, in fit, within a pass of the dataloader.                      *)
Tracks ==
  /\ resumed < config.total
  /\ resumed = 0 \/ (config.mode = "ppo" /\ resumed % Batches # 0)

Goes == Running \ {"validate_first"}
Updating == {"update_critic", "update_actor"} \cup Trained

Reached ==
  /\ resumed \in Nat
  /\ pc = "load" => resumed = 0 /\ taken = 0 /\ ~restored
  /\ pc = "validate_first" => resumed = global_steps
  /\ pc \in Goes => global_steps <= config.total \/ global_steps = resumed + 1
  /\ EndsAtLastStep

(* The passes begun and the passes left are TotalEpochs. *)
Passes(t, l, e) ==
  /\ e + t \div Batches + (IF t < l THEN 1 ELSE 0) = TotalEpochs
  /\ t < l => l = (t \div Batches + 1) * Batches

Position ==
  Tracks =>
    /\ pc = "validate_first" => last = taken /\ taken = resumed
    /\ pc \in Goes => epochs \in Nat /\ last \in Nat /\ Passes(taken, last, epochs)
    /\ pc \in Running /\ restored => taken % Batches # 0

(* one_step_off that began at the first batch is one ahead, exactly. *)
Exact ==
  Tracks /\ config.mode = "one_step_off" =>
    /\ pc = "next" => taken = global_steps - 1
    /\ pc \in {"await", "sync_rollout_weights"} => taken = global_steps
    /\ pc = "await" => future.state # "none"
    /\ pc \in Updating /\ ~is_last_step =>
         taken = global_steps + 1 /\ future.state # "none"

PInv == Reached /\ Position /\ Exact

LEMMA Lengths ==
  ASSUME IInv
  PROVE  /\ Batches \in Nat \ {0} /\ TotalEpochs \in Nat \ {0}
         /\ config.total \in Nat /\ config.total >= 1
         /\ config.total <= Batches * TotalEpochs /\ Batches * TotalEpochs \in Nat
<1>1. config \in Configs /\ config.total \in Nat /\ config.total >= 1
  BY Constants DEF IInv, Types
<1>2. Batches \in Nat \ {0} /\ TotalEpochs \in Nat \ {0} /\ config.total <= Batches * TotalEpochs
  BY <1>1, TrainerAssumption
<1> QED
  BY <1>1, <1>2

(* The arithmetic of the next batch. *)
LEMMA NextOfPass ==
  ASSUME NEW b \in Nat \ {0}, NEW t \in Nat
  PROVE  LET l == (t \div b + 1) * b
         IN  /\ l \in Nat /\ t \div b \in Nat
             /\ t + 1 < l => (t + 1) \div b = t \div b
             /\ ~(t + 1 < l) => (t + 1) \div b = t \div b + 1
<1> DEFINE q == t \div b
<1>1. q \in Nat /\ b * q <= t /\ t < b * q + b
  BY DivBounds
<1> HIDE DEF q
<1>2. (q + 1) * b = b * q + b /\ b * q \in Nat /\ b * (q + 1) = b * q + b
  BY <1>1
<1>3. ASSUME t + 1 < b * q + b PROVE (t + 1) \div b = q
  BY <1>1, <1>2, <1>3, DivUnique
<1>4. ASSUME ~(t + 1 < b * q + b) PROVE (t + 1) \div b = q + 1
  <2>1. b * (q + 1) <= t + 1 /\ t + 1 < b * (q + 1) + b
    BY <1>1, <1>2, <1>4
  <2> QED
    BY <1>1, <2>1, DivUnique
<1> QED
  BY <1>1, <1>2, <1>3, <1>4 DEF q

LEMMA OneMore ==
  ASSUME IInv, Tracks, Position, pc \in Goes, taken < Batches * TotalEpochs,
         NEW empty \in EmptyPasses
  PROVE  /\ PassesLeft(empty) \in Nat
         /\ (taken \div Batches + 1) * Batches \in Nat
         /\ Passes(taken + 1, (taken \div Batches + 1) * Batches, PassesLeft(empty))
<1> DEFINE q == taken \div Batches
           l == (q + 1) * Batches
<1>1. /\ epochs \in Nat /\ last \in Nat /\ Passes(taken, last, epochs)
      /\ restored => taken % Batches # 0
  BY DEF Position, Goes
<1>2. empty = 0
  BY <1>1 DEF EmptyPasses
<1>3. Batches \in Nat \ {0} /\ TotalEpochs \in Nat /\ taken \in Nat
  BY Lengths, Numbers
<1>4. /\ l \in Nat /\ q \in Nat
      /\ taken + 1 < l => (taken + 1) \div Batches = q
      /\ ~(taken + 1 < l) => (taken + 1) \div Batches = q + 1
  BY <1>3, NextOfPass
<1>5. /\ epochs + q + (IF taken < last THEN 1 ELSE 0) = TotalEpochs
      /\ taken < last => last = l
  BY <1>1 DEF Passes
<1>6. q < TotalEpochs
  <2>1. Batches * q <= taken
    BY <1>3, DivBounds
  <2> HIDE DEF q
  <2>2. SUFFICES ASSUME TotalEpochs <= q PROVE FALSE
    BY <1>3, <1>4
  <2>3. Batches * TotalEpochs <= Batches * q
    BY <1>3, <1>4, <2>2
  <2>4. Batches * TotalEpochs \in Nat /\ Batches * q \in Nat
    BY <1>3, <1>4
  <2> QED
    BY <1>3, <2>1, <2>3, <2>4
<1>7. taken < l
  <2>1. taken < Batches * q + Batches
    BY <1>3, DivBounds
  <2> HIDE DEF q
  <2> QED
    BY <1>3, <1>4, <2>1
<1> DEFINE e == PassesLeft(empty)
<1>8. e = IF taken < last THEN epochs ELSE epochs - 1
  BY <1>1, <1>2 DEF PassesLeft
<1> HIDE DEF q, l, e
<1>9. e \in Nat /\ e + q + 1 = TotalEpochs
  BY <1>1, <1>3, <1>4, <1>5, <1>6, <1>8
<1>10. Passes(taken + 1, l, e)
  <2>1. CASE taken + 1 < l
    <3>1. (taken + 1) \div Batches = q
      BY <1>4, <2>1
    <3>2. l = ((taken + 1) \div Batches + 1) * Batches
      BY <3>1 DEF l
    <3> QED
      BY <1>9, <2>1, <3>1, <3>2 DEF Passes
  <2>2. CASE ~(taken + 1 < l)
    <3>1. (taken + 1) \div Batches = q + 1
      BY <1>4, <2>2
    <3>2. e + (q + 1) + 0 = TotalEpochs
      BY <1>4, <1>9
    <3> QED
      BY <2>2, <3>1, <3>2 DEF Passes
  <2> QED
    BY <2>1, <2>2
<1> QED
  BY <1>4, <1>9, <1>10 DEF e, l, q

LEMMA TaskTakes ==
  ASSUME IInv, Tracks, Position, pc \in Goes, taken < Batches * TotalEpochs,
         NEW version, StartTask(version)
  PROVE  /\ future'.state = "running" /\ taken' = taken + 1 /\ ~restored'
         /\ epochs' \in Nat /\ last' \in Nat /\ Passes(taken', last', epochs')
BY OneMore DEF StartTask, Draw

(* A move within the step, by which no batch is taken. *)
LEMMA MovesOn ==
  ASSUME IInv, PInv, pc \in Goes, pc' \in Goes,
         UNCHANGED <<config, global_steps, taken, epochs, last, restored, future, resumed>>,
         config.mode = "ppo" \/ (pc \in Updating /\ pc' \in Updating)
  PROVE  PInv'
<1> USE DEF Goes, Running, Before, Trained, Updating
<1>1. Tracks' = Tracks /\ is_last_step' = is_last_step
  BY DEF Tracks, is_last_step
<1>2. Reached'
  <2>1. global_steps <= config.total \/ global_steps = resumed + 1
    BY DEF PInv, Reached
  <2>2. EndsAtLastStep'
    BY DEF PInv, Reached, EndsAtLastStep
  <2> QED
    BY <2>1, <2>2 DEF PInv, Reached
<1>3. Position'
  BY <1>1 DEF PInv, Position, Passes
<1>4. Exact'
  BY <1>1, Lengths DEF PInv, Exact
<1> QED
  BY <1>2, <1>3, <1>4 DEF PInv

LEMMA SamePlace ==
  ASSUME IInv, PInv, UNCHANGED <<config, global_steps, taken, epochs, last, restored, resumed, pc>>,
         (future'.state # "none") = (future.state # "none")
  PROVE  PInv'
<1>1. Tracks' = Tracks /\ is_last_step' = is_last_step
  BY DEF Tracks, is_last_step
<1>2. Reached'
  BY DEF PInv, Reached, EndsAtLastStep
<1>3. Position'
  BY <1>1 DEF PInv, Position, Passes
<1>4. Exact'
  BY <1>1 DEF PInv, Exact
<1> QED
  BY <1>2, <1>3, <1>4 DEF PInv

LEMMA LoadsPlace ==
  ASSUME IInv, OInv, OInv', PInv, LoadCheckpoint
  PROVE  PInv'
<1> USE DEF Goes, Running, Before, Trained, Updating
<1>1. /\ pc = "load" /\ pc' = "validate_first" /\ config' = config
      /\ resumed' = global_steps' /\ last' = taken' /\ (restored' <=> tracker \in Steps)
      /\ taken = 0 /\ global_steps = 0 /\ config'.total = config.total
  BY DEF LoadCheckpoint, Goto, Load, PInv, Reached, IInv, Counted
<1>2. CASE tracker \notin Steps
  <2>1. global_steps' = 0 /\ taken' = 0 /\ ~restored'
    BY <1>1, <1>2 DEF LoadCheckpoint, Load, memory
  <2>2. Reached'
    BY <1>1, <2>1, Lengths DEF Reached, EndsAtLastStep
  <2> QED
    BY <1>1, <2>1, <2>2 DEF PInv, Position, Exact
<1>3. CASE tracker \in Steps
  <2>1. global_steps' = tracker /\ tracker \in Nat /\ tracker > 0
    BY <1>3 DEF LoadCheckpoint, Load, Steps
  <2>2. config.mode = "ppo" => taken' - global_steps' = 0
    BY <1>1 DEF OInv, InFlight, Slack
  <2>3. taken' \in Nat
    BY <1>3 DEF LoadCheckpoint, Load, OInv, Named, Absent
  <2>4. config.mode = "ppo" => taken' = resumed'
    <3>1. \A a, b \in Nat : a - b = 0 => a = b
      OBVIOUS
    <3>2. global_steps' \in Nat
      BY <2>1
    <3> QED
      BY <1>1, <2>2, <2>3, <3>1, <3>2
  <2>5. resumed' # 0
    BY <1>1, <2>1
  <2>6. Reached'
    BY <1>1, <2>1, Lengths DEF Reached, EndsAtLastStep
  <2>7. Tracks' => config.mode = "ppo" /\ taken' = resumed' /\ resumed' % Batches # 0
    BY <1>1, <2>4, <2>5 DEF Tracks
  <2>8. Position' /\ Exact'
    BY <1>1, <2>7 DEF Position, Exact
  <2> QED
    BY <2>6, <2>8 DEF PInv
<1> QED
  BY <1>2, <1>3

LEMMA BeginsPlace ==
  ASSUME IInv, OInv, PInv, ValBeforeTrain
  PROVE  PInv'
<1> USE DEF ValBeforeTrain, Goto, Goes, Running, Before, Trained, Updating
<1>1. /\ pc = "validate_first" /\ pc' = "next" /\ Tracks' = Tracks
      /\ UNCHANGED <<config, taken, last, restored, resumed>>
      /\ global_steps' = global_steps + 1 /\ resumed = global_steps /\ resumed \in Nat
  BY DEF PInv, Reached, Tracks
<1>2. Reached'
  <2>1. global_steps' > config.total + 1 => resumed >= config.total
    BY <1>1, Lengths
  <2> QED
    BY <1>1, <2>1 DEF Reached, EndsAtLastStep
<1>3. ASSUME Tracks
      PROVE  /\ last = taken /\ taken = resumed
             /\ epochs' \in Nat /\ last' \in Nat /\ Passes(taken', last', epochs')
  <2>1. last = taken /\ taken = resumed /\ resumed < config.total
    BY <1>1, <1>3 DEF PInv, Position, Tracks
  <2> DEFINE q == resumed \div Batches
  <2>2. Batches \in Nat \ {0} /\ TotalEpochs \in Nat /\ config.total \in Nat
        /\ config.total <= Batches * TotalEpochs
    BY Lengths
  <2>3. q \in Nat /\ Batches * q <= resumed
    BY <1>1, <2>2, DivBounds
  <2>4. resumed = 0 => q = 0
    BY <2>2
  <2>5. epochs' = TotalEpochs - q
    <3>1. config.mode = "ppo" => epochs' = TotalEpochs - q
      BY <1>1
    <3>2. config.mode # "ppo" => epochs' = TotalEpochs /\ resumed = 0
      BY <1>3 DEF Tracks
    <3> QED
      BY <2>2, <2>4, <3>1, <3>2
  <2> HIDE DEF q
  <2>6. q <= TotalEpochs
    <3>1. SUFFICES ASSUME TotalEpochs < q PROVE FALSE
      BY <2>2, <2>3
    <3>2. Batches * TotalEpochs <= Batches * q /\ Batches * TotalEpochs \in Nat /\ Batches * q \in Nat
      BY <2>2, <2>3, <3>1
    <3> QED
      BY <1>1, <2>1, <2>2, <2>3, <3>2
  <2>7. epochs' \in Nat /\ epochs' + q + 0 = TotalEpochs
    BY <2>2, <2>3, <2>5, <2>6
  <2>8. taken' \div Batches = q /\ ~(taken' < last') /\ last' \in Nat
    BY <1>1, <2>1 DEF q
  <2> QED
    BY <2>1, <2>7, <2>8 DEF Passes
<1>4. Position'
  BY <1>1, <1>3 DEF PInv, Position
<1>5. Exact'
  BY <1>1, <1>3 DEF Exact
<1> QED
  BY <1>2, <1>4, <1>5 DEF PInv

(* fit only runs out of batches if it does not know what is left. *)
LEMMA NextPlace ==
  ASSUME IInv, OInv, PInv, NextBatch
  PROVE  PInv'
<1> USE DEF NextBatch, Goto, Goes, Running, Before, Trained, Updating
<1>1. /\ pc = "next" /\ config.mode = "ppo" /\ pc' \in {"wake_up", "done"} /\ Tracks' = Tracks
      /\ UNCHANGED <<config, global_steps, resumed>>
  BY DEF Draw, Tracks
<1>2. /\ global_steps <= config.total \/ global_steps = resumed + 1
      /\ resumed \in Nat /\ global_steps \in Nat /\ taken \in Nat
  BY <1>1, Numbers DEF PInv, Reached
<1>3. Tracks => /\ pc' = "wake_up" /\ ~restored'
                /\ epochs' \in Nat /\ last' \in Nat /\ Passes(taken', last', epochs')
  <2> SUFFICES ASSUME Tracks
               PROVE  /\ pc' = "wake_up" /\ ~restored'
                      /\ epochs' \in Nat /\ last' \in Nat /\ Passes(taken', last', epochs')
    OBVIOUS
  <2>1. taken - (global_steps - 1) = 0
    BY <1>1 DEF OInv, InFlight, Slack
  <2>2. global_steps <= config.total
    BY <1>2, Lengths DEF Tracks
  <2>3. taken < Batches * TotalEpochs
    BY <1>2, <2>1, <2>2, Lengths
  <2>4. PICK empty \in EmptyPasses :
          /\ restored' = FALSE
          /\ IF PassesLeft(empty) < 0
             THEN TRUE
             ELSE /\ taken' = taken + 1
                  /\ epochs' = PassesLeft(empty)
                  /\ last' = (taken \div Batches + 1) * Batches
                  /\ pc' = "wake_up"
    BY DEF Draw
  <2>5. /\ PassesLeft(empty) \in Nat
        /\ (taken \div Batches + 1) * Batches \in Nat
        /\ Passes(taken + 1, (taken \div Batches + 1) * Batches, PassesLeft(empty))
    BY <1>1, <2>3, OneMore DEF PInv
  <2>6. ~(PassesLeft(empty) < 0)
    BY <2>5
  <2> QED
    BY <2>4, <2>5, <2>6
<1>4. Reached'
  <2>1. pc' = "done" => (resumed > 0 /\ resumed % Batches = 0) \/ resumed >= config.total
    <3>1. pc' = "done" => ~Tracks
      BY <1>3
    <3> QED
      BY <1>1, <1>2, <3>1, Lengths DEF Tracks
  <2>2. global_steps > config.total + 1 => resumed >= config.total
    BY <1>2, Lengths
  <2> QED
    BY <1>1, <1>2, <2>1, <2>2 DEF Reached, EndsAtLastStep
<1>5. Position' /\ Exact'
  BY <1>1, <1>3 DEF Position, Exact
<1> QED
  BY <1>4, <1>5 DEF PInv

LEMMA FirstPlace ==
  ASSUME IInv, PInv, FirstTask
  PROVE  PInv'
<1> USE DEF FirstTask, Goto, Goes, Running, Before, Trained, Updating
<1>1. /\ pc = "next" /\ config.mode = "one_step_off" /\ pc' = "await" /\ Tracks' = Tracks
      /\ UNCHANGED <<config, global_steps, resumed>>
  BY DEF Tracks
<1>2. /\ global_steps <= config.total \/ global_steps = resumed + 1
      /\ resumed \in Nat /\ global_steps \in Nat /\ taken \in Nat
  BY <1>1, Numbers DEF PInv, Reached
<1>3. Tracks => /\ future'.state = "running" /\ taken' = global_steps' /\ ~restored'
                /\ epochs' \in Nat /\ last' \in Nat /\ Passes(taken', last', epochs')
  <2> SUFFICES ASSUME Tracks
               PROVE  /\ future'.state = "running" /\ taken' = global_steps' /\ ~restored'
                      /\ epochs' \in Nat /\ last' \in Nat /\ Passes(taken', last', epochs')
    OBVIOUS
  <2>1. taken = global_steps - 1
    BY <1>1 DEF PInv, Exact
  <2>2. global_steps <= config.total
    BY <1>2, Lengths DEF Tracks
  <2>3. taken < Batches * TotalEpochs
    BY <1>2, <2>1, <2>2, Lengths
  <2>4. StartTask(rollout)
    OBVIOUS
  <2>5. pc \in Goes /\ Position
    BY <1>1 DEF PInv
  <2>6. /\ future'.state = "running" /\ taken' = taken + 1 /\ ~restored'
        /\ epochs' \in Nat /\ last' \in Nat /\ Passes(taken', last', epochs')
    BY <2>3, <2>4, <2>5, TaskTakes
  <2> QED
    BY <1>1, <1>2, <2>1, <2>6
<1>4. Reached'
  <2>1. global_steps > config.total + 1 => resumed >= config.total
    BY <1>2, Lengths
  <2> QED
    BY <1>1, <1>2, <2>1 DEF Reached, EndsAtLastStep
<1>5. Position' /\ Exact'
  BY <1>1, <1>3 DEF Position, Exact
<1> QED
  BY <1>4, <1>5 DEF PInv

LEMMA AwaitPlace ==
  ASSUME IInv, PInv, VInv, AwaitBatch
  PROVE  PInv'
<1> USE DEF AwaitBatch, Goto, Goes, Running, Before, Trained, Updating
<1>1. /\ pc = "await" /\ config.mode = "one_step_off" /\ Tracks' = Tracks
      /\ pc' = IF future.state = "none" THEN "exhausted" ELSE "sync_rollout_weights"
      /\ UNCHANGED <<config, global_steps, taken, epochs, last, restored, future, resumed>>
  BY Numbers DEF Tracks, ckptVars, memory, VInv, Synchronous
<1>2. /\ global_steps <= config.total \/ global_steps = resumed + 1
      /\ resumed \in Nat /\ global_steps \in Nat
  BY <1>1, Numbers DEF PInv, Reached
<1>3. pc' = "exhausted" => resumed > 0
  <2>1. pc' = "exhausted" => ~Tracks
    BY <1>1 DEF PInv, Exact
  <2> QED
    BY <1>2, <2>1, Lengths DEF Tracks
<1>4. Reached'
  <2>1. global_steps > config.total + 1 => resumed >= config.total
    BY <1>2, Lengths
  <2> QED
    BY <1>1, <1>2, <1>3, <2>1 DEF Reached, EndsAtLastStep
<1>5. Position' /\ Exact'
  BY <1>1 DEF PInv, Position, Exact, Passes
<1> QED
  BY <1>4, <1>5 DEF PInv

LEMMA SyncPlace ==
  ASSUME IInv, PInv, VInv, Sync
  PROVE  PInv'
<1> USE DEF Sync, Goto, Goes, Running, Before, Trained, Updating
<1>1. /\ pc = "sync_rollout_weights" /\ pc' = "update_critic" /\ Tracks' = Tracks
      /\ UNCHANGED <<config, global_steps, resumed>> /\ is_last_step' = is_last_step
      /\ config.mode = "one_step_off"
  BY Numbers DEF Tracks, is_last_step, VInv, Synchronous
<1>2. /\ global_steps <= config.total \/ global_steps = resumed + 1
      /\ resumed \in Nat /\ global_steps \in Nat /\ taken \in Nat
  BY <1>1, Numbers DEF PInv, Reached
<1>3. Tracks => /\ ~is_last_step => future'.state # "none" /\ taken' = global_steps + 1
                /\ restored' => taken' % Batches # 0
                /\ epochs' \in Nat /\ last' \in Nat /\ Passes(taken', last', epochs')
  <2> SUFFICES ASSUME Tracks
               PROVE  /\ ~is_last_step => future'.state # "none" /\ taken' = global_steps + 1
                      /\ restored' => taken' % Batches # 0
                      /\ epochs' \in Nat /\ last' \in Nat /\ Passes(taken', last', epochs')
    OBVIOUS
  <2>1. CASE is_last_step
    BY <1>1, <2>1 DEF PInv, Position, Passes
  <2>2. CASE ~is_last_step
    <3>1. taken = global_steps /\ pc \in Goes /\ Position
      BY <1>1 DEF PInv, Exact
    <3>2. taken < Batches * TotalEpochs
      BY <1>2, <2>2, <3>1, Lengths DEF is_last_step
    <3>3. StartTask(Version)
      BY <2>2
    <3>4. /\ future'.state = "running" /\ taken' = taken + 1 /\ ~restored'
          /\ epochs' \in Nat /\ last' \in Nat /\ Passes(taken', last', epochs')
      BY <3>1, <3>2, <3>3, TaskTakes
    <3> QED
      BY <3>1, <3>4
  <2> QED
    BY <2>1, <2>2
<1>4. Reached'
  <2>1. global_steps > config.total + 1 => resumed >= config.total
    BY <1>2, Lengths
  <2> QED
    BY <1>1, <1>2, <2>1 DEF Reached, EndsAtLastStep
<1>5. Position' /\ Exact'
  BY <1>1, <1>3 DEF Position, Exact
<1> QED
  BY <1>4, <1>5 DEF PInv

LEMMA EndPlace ==
  ASSUME IInv, PInv, EndStep
  PROVE  PInv'
<1> USE DEF EndStep, Goto, Goes, Running, Before, Trained, Updating
<1>1. /\ pc = "end_step" /\ Tracks' = Tracks /\ global_steps' = global_steps + 1
      /\ pc' = IF is_last_step THEN "done" ELSE IF config.mode = "ppo" THEN "next" ELSE "await"
      /\ UNCHANGED <<config, taken, epochs, last, restored, future, resumed>>
  BY DEF Tracks
<1>2. /\ global_steps <= config.total \/ global_steps = resumed + 1
      /\ resumed \in Nat /\ global_steps \in Nat
  BY <1>1, Numbers DEF PInv, Reached
<1>3. CASE is_last_step
  <2>1. global_steps >= config.total
    BY <1>3 DEF is_last_step
  <2>2. global_steps' = config.total + 1 \/ resumed >= config.total
    BY <1>1, <1>2, <2>1, Lengths
  <2>3. Reached'
    BY <1>1, <1>2, <1>3, <2>2, Lengths DEF Reached, EndsAtLastStep
  <2> QED
    BY <1>1, <1>3, <2>3 DEF PInv, Position, Exact
<1>4. CASE ~is_last_step
  <2>1. global_steps' <= config.total
    BY <1>1, <1>2, <1>4, Lengths DEF is_last_step
  <2>2. Reached'
    BY <1>1, <1>2, <1>4, <2>1, Lengths DEF Reached, EndsAtLastStep
  <2>3. Position'
    BY <1>1, <1>4 DEF PInv, Position, Passes
  <2>4. Exact'
    BY <1>1, <1>2, <1>4 DEF PInv, Exact
  <2> QED
    BY <2>2, <2>3, <2>4 DEF PInv
<1> QED
  BY <1>3, <1>4

(* future is always a record with a state. *)
HasState == "state" \in DOMAIN future

LEMMA StepsKeepState ==
  ASSUME HasState, [TrainerNext]_trainerVars
  PROVE  HasState'
<1>1. CASE FirstTask \/ Sync
  BY <1>1 DEF HasState, FirstTask, Sync, StartTask, Draw
<1>2. CASE GenerationEnds \/ Crash
  BY <1>2 DEF HasState, GenerationEnds, Crash, NoFuture
<1>3. CASE ~(FirstTask \/ Sync \/ GenerationEnds \/ Crash)
  <2>1. future' = future
    BY <1>3 DEF TrainerNext, FitStep, Idle, trainerVars, driver, LoadCheckpoint, LoadFails,
       ValBeforeTrain, NextBatch, WakeUp, Generated, AwaitBatch, UpdateCritic, UpdateActor,
       Validate, Save, Saving, EndStep
  <2> QED
    BY <2>1 DEF HasState
<1> QED
  BY <1>1, <1>2, <1>3

LEMMA StepsKeepPlace ==
  ASSUME IInv, OInv, OInv', VInv, PInv, HasState, [TrainerNext]_trainerVars
  PROVE  PInv'
<1> USE DEF Goes, Running, Before, Trained, Updating
<1>1. CASE UNCHANGED trainerVars \/ Idle \/ GenerationEnds
  <2>1. /\ UNCHANGED <<config, global_steps, taken, epochs, last, restored, resumed, pc>>
        /\ (future'.state # "none") = (future.state # "none")
    BY <1>1 DEF Idle, GenerationEnds, HasState, trainerVars, driver, ckptVars, memory
  <2> QED
    BY <2>1, SamePlace
<1>2. CASE Crash
  <2>1. /\ pc' = "load" /\ resumed' = 0 /\ taken' = 0 /\ ~restored' /\ global_steps' = 0
        /\ config' = config
    BY <1>2 DEF Crash, Stop
  <2> QED
    BY <2>1, Lengths DEF PInv, Reached, Position, Exact, EndsAtLastStep
<1>3. CASE LoadFails
  <2>1. pc' = "unreadable" /\ UNCHANGED <<config, global_steps, resumed>> /\ global_steps = 0
    BY <1>3 DEF LoadFails, Goto, ckptVars, memory, IInv, Counted
  <2> QED
    BY <2>1, Lengths DEF PInv, Reached, Position, Exact, EndsAtLastStep
<1>4. CASE WakeUp \/ Generated
  <2>1. /\ pc \in Goes /\ pc' \in Goes /\ config.mode = "ppo"
        /\ UNCHANGED <<config, global_steps, taken, epochs, last, restored, future, resumed>>
    BY <1>4, Numbers DEF WakeUp, Generated, Goto, ckptVars, memory, VInv, OneStepOff
  <2> QED
    BY <2>1, MovesOn
<1>5. CASE UpdateCritic \/ UpdateActor \/ Validate \/ Save \/ Saving
  <2>1. /\ pc \in Updating /\ pc' \in Updating
        /\ UNCHANGED <<epochs, last, restored, future, resumed>>
    BY <1>5 DEF UpdateCritic, UpdateActor, Validate, Save, MaySave, Saving, Goto
  <2>2. UNCHANGED <<config, global_steps, taken>>
    BY <1>5 DEF UpdateCritic, UpdateActor, Validate, Save, MaySave, SaveCheckpoint, Saving,
       SaveNext, Clean, Saved, OpenData, CloseData, OpenTracker, CloseTracker, OpenShard,
       CloseShard, ckptVars, memory
  <2> QED
    BY <2>1, <2>2, MovesOn
<1>6. CASE LoadCheckpoint \/ ValBeforeTrain \/ NextBatch
  BY <1>6, LoadsPlace, BeginsPlace, NextPlace
<1>7. CASE FirstTask \/ AwaitBatch \/ Sync \/ EndStep
  BY <1>7, FirstPlace, AwaitPlace, SyncPlace, EndPlace
<1> QED
  BY <1>1, <1>2, <1>3, <1>4, <1>5, <1>6, <1>7 DEF TrainerNext, FitStep

(***************************************************************************)
(* Training that began at the first batch ends with step config.total, in  *)
(* both recipes, and so does fit when it resumes within a pass; it runs    *)
(* out of batches, or into more steps, only after the restarts that the    *)
(* property names.                                                         *)
(***************************************************************************)
THEOREM LastStepCorrect == TrainerSpec => []EndsAtLastStep
<1>1. TrainerInit => IInv /\ OInv /\ VInv /\ PInv /\ HasState
  <2> SUFFICES ASSUME TrainerInit PROVE IInv /\ OInv /\ VInv /\ PInv /\ HasState
    OBVIOUS
  <2>1. IInv /\ OInv /\ VInv
    BY Begins, Starts
  <2>2. /\ pc = "load" /\ resumed = 0 /\ taken = 0 /\ ~restored /\ global_steps = 0
        /\ future = NoFuture
    BY DEF TrainerInit, CkptInit
  <2>3. PInv /\ HasState
    BY <2>1, <2>2, Lengths DEF PInv, Reached, Position, Exact, EndsAtLastStep, Goes, Running,
       Before, Trained, Updating, HasState, NoFuture
  <2> QED
    BY <2>1, <2>3
<1>2. IInv /\ OInv /\ VInv /\ PInv /\ HasState /\ [TrainerNext]_trainerVars
        => IInv' /\ OInv' /\ VInv' /\ PInv' /\ HasState'
  BY StepsKeepIInv, StepsKeepOrder, StepsKeepPlace, StepsKeepState
<1>3. PInv => EndsAtLastStep
  BY DEF PInv, Reached
<1> QED
  BY <1>1, <1>2, <1>3, PTL DEF TrainerSpec

-----------------------------------------------------------------------------
(***************************************************************************)
(* The trainer keeps its properties when agent loops generate its batches: *)
(* Training only delays the steps of PPOTrainer until the conversations    *)
(* are over, and adds steps of conversations which the trainer does not    *)
(* see.  The rows of a batch are exact whatever turns those take, none     *)
(* asks a server for nothing, and each keeps to its server.                *)
(***************************************************************************)

(* What the composition does is a step of the trainer, or nothing to it. *)
LEMMA StepOfTheTrainer ==
  ASSUME [Step \/ Restart \/ Stopped]_trainingVars
  PROVE  [TrainerNext]_trainerVars
<1>1. ASSUME Step PROVE TrainerNext \/ UNCHANGED trainerVars
  BY <1>1 DEF Step, Begin, End, Loop, TrainerNext, FitStep
<1>2. ASSUME Restart PROVE TrainerNext
  BY <1>2 DEF Restart, TrainerNext
<1>3. ASSUME Stopped \/ UNCHANGED trainingVars PROVE UNCHANGED trainerVars
  BY <1>3 DEF Stopped, trainingVars
<1> QED
  BY <1>1, <1>2, <1>3

(* Every run of the composition is one of the trainer alone. *)
THEOREM TrainsLikeTheTrainer == TrainingSpec => TrainerSpec
<1>1. TrainingInit => TrainerInit
  BY DEF TrainingInit
<1>2. [Step \/ Restart \/ Stopped]_trainingVars => [TrainerNext]_trainerVars
  BY StepOfTheTrainer
<1> QED
  BY <1>1, <1>2, PTL DEF TrainingSpec, TrainerSpec

(* What the driver promises, with its rollouts: a crash leaves a checkpoint *)
(* that can be loaded and not too many others, the weights have seen the    *)
(* batches in order, by a policy at most one update old, and training ends  *)
(* with its last step.                                                      *)
THEOREM TrainingCorrect ==
  TrainingSpec => [](/\ ResumeSafe /\ KeepBound
                     /\ BatchesInOrder /\ OffPolicyLag /\ ValidatedWeights /\ EndsAtLastStep)
BY TrainsLikeTheTrainer, ResumeCorrect, KeepCorrect, WeightsInOrder, LagBounded,
   ValidatesWhatItLogs, LastStepCorrect, PTL

-----------------------------------------------------------------------------
(***************************************************************************)
(* The conversations.  LoopInv is the invariant of their steps: what a     *)
(* conversation is made of, which turn it is at, and what the caches of    *)
(* the workers know of it.                                                 *)
(***************************************************************************)
(* What AgentData, and an entry of the cache, are made of. *)
States == {"pending", "generating", "waiting", "processing_tools", "interacting",
           "terminated", "failed"}
Kinds == {"p", "g", "o"}
Bits == {0, 1}
Logprobs == {"lp", "zero"}

Conversation ==
  [state : States, ids : Seq(Kinds), mask : Seq(Bits), logprobs : Seq(Logprobs),
   assistant_turns : Nat, user_turns : Nat, max_tokens : Nat, servers : Seq(1 .. Servers)]

Entries == [row : Nat, server : 1 .. Servers]

LoopTypes ==
  /\ config \in Configs /\ setup = config.setup /\ rows \in {<<>>, config.rows}
  /\ conv \in [Row -> Conversation]
  /\ requests \in [1 .. setup.workers -> [1 .. Servers -> Nat]]
  /\ sessions \in [1 .. setup.workers -> Seq(Entries)]

(* The tokens "d" has: a prompt of "n", and then those of the mask. *)
TokensMatch(d, n) ==
  /\ Len(d.ids) = n + Len(d.mask)
  /\ \A j \in 1 .. n : d.ids[j] = "p"
  /\ \A j \in 1 .. Len(d.mask) : d.ids[n + j] # "p" /\ (d.mask[j] = 1 <=> d.ids[n + j] = "g")

(* The log_probs are there if asked for, on the model's tokens. *)
LogprobsMatch(d) ==
  IF setup.log_probs
  THEN /\ Len(d.logprobs) = Len(d.mask)
       /\ \A j \in 1 .. Len(d.mask) : d.logprobs[j] = "lp" <=> d.mask[j] = 1
  ELSE d.logprobs = <<>>

(* Where a conversation is, and what it has by then. *)
TurnsMatch(d) ==
  /\ d.state = "pending" => d.ids = <<>> /\ d.mask = <<>>
  /\ d.state \in {"processing_tools", "interacting", "terminated"} => d.mask # <<>>
  /\ d.state \in {"interacting", "failed"} => setup.interaction
  /\ d.state \in {"generating", "waiting", "processing_tools"} /\ ~setup.interaction =>
       Len(d.mask) < ResponseLength

(* All of this, for the conversation of every row. *)
Conversing ==
  \A i \in Row : /\ conv[i].state # "pending" => TokensMatch(conv[i], rows[i].prompt)
                 /\ LogprobsMatch(conv[i])
                 /\ TurnsMatch(conv[i])

(* n tokens of a kind. *)
LEMMA TokensFacts ==
  ASSUME NEW S, NEW kind \in S, NEW n \in Nat
  PROVE  /\ Tokens(kind, n) \in Seq(S)
         /\ Len(Tokens(kind, n)) = n
         /\ \A j \in 1 .. n : Tokens(kind, n)[j] = kind
BY DEF Tokens

(* More tokens of the model, or of others after them. *)
LEMMA WithTokensMatch ==
  ASSUME NEW d \in Conversation, NEW m \in Nat, NEW n \in Nat, NEW kind \in {"g", "o"},
         TokensMatch(d, m), LogprobsMatch(d), setup.log_probs \in BOOLEAN,
         kind = "o" => d.mask # <<>>
  PROVE  LET e == WithTokens(d, kind, n)
         IN  /\ e \in Conversation
             /\ TokensMatch(e, m) /\ LogprobsMatch(e)
             /\ Len(e.mask) = Len(d.mask) + n
             /\ e.servers = d.servers /\ e.assistant_turns = d.assistant_turns
             /\ e.user_turns = d.user_turns
<1> DEFINE e == WithTokens(d, kind, n)
           bit == IF kind = "g" THEN 1 ELSE 0
           word == IF kind = "g" THEN "lp" ELSE "zero"
<1>1. /\ d.ids \in Seq(Kinds) /\ d.mask \in Seq(Bits)
      /\ d.logprobs \in Seq(Logprobs)
      /\ Len(d.ids) \in Nat /\ Len(d.mask) \in Nat /\ Len(d.logprobs) \in Nat
  BY DEF Conversation
<1>2. /\ e.ids = d.ids \o Tokens(kind, n)
      /\ e.mask = d.mask \o Tokens(bit, n)
      /\ e.logprobs = d.logprobs \o
           (IF kind = "g" THEN IF setup.log_probs THEN Tokens("lp", n) ELSE <<>>
            ELSE IF d.logprobs # <<>> THEN Tokens("zero", n) ELSE <<>>)
      /\ e = [d EXCEPT !.ids = e.ids, !.mask = e.mask, !.logprobs = e.logprobs]
  BY DEF WithTokens, Conversation
<1> HIDE DEF e, bit
<1>3. /\ e.ids \in Seq(Kinds)
      /\ Len(e.ids) = Len(d.ids) + n
      /\ \A j \in 1 .. Len(d.ids) : e.ids[j] = d.ids[j]
      /\ \A j \in Len(d.ids) + 1 .. Len(d.ids) + n : e.ids[j] = kind
  <2>1. kind \in Kinds
    BY DEF Kinds
  <2>2. e.ids = d.ids \o Tokens(kind, n)
    BY <1>2
  <2> QED
    BY <1>1, <2>1, <2>2 DEF Tokens
<1>4. /\ e.mask \in Seq(Bits)
      /\ Len(e.mask) = Len(d.mask) + n
      /\ \A j \in 1 .. Len(d.mask) : e.mask[j] = d.mask[j]
      /\ \A j \in Len(d.mask) + 1 .. Len(d.mask) + n : e.mask[j] = bit
  <2>1. bit \in Bits
    BY DEF Bits, bit
  <2>2. e.mask = d.mask \o Tokens(bit, n)
    BY <1>2
  <2> QED
    BY <1>1, <2>1, <2>2 DEF Tokens
<1>5. IF setup.log_probs
      THEN /\ e.logprobs \in Seq(Logprobs)
           /\ Len(e.logprobs) = Len(d.logprobs) + n
           /\ \A j \in 1 .. Len(d.logprobs) : e.logprobs[j] = d.logprobs[j]
           /\ \A j \in Len(d.logprobs) + 1 .. Len(d.logprobs) + n : e.logprobs[j] = word
      ELSE e.logprobs = <<>>
  <2>1. CASE setup.log_probs
    <3>1. kind = "o" => d.logprobs # <<>>
      <4>1. d.mask # <<>> => Len(d.mask) # 0
        BY <1>1
      <4>2. Len(d.logprobs) = Len(d.mask)
        BY <2>1 DEF LogprobsMatch
      <4>3. Len(<<>>) = 0
        OBVIOUS
      <4> QED
        BY <4>1, <4>2, <4>3
    <3>2. e.logprobs = d.logprobs \o Tokens(word, n)
      BY <1>2, <2>1, <3>1
    <3>3. word \in Logprobs
      BY DEF Logprobs
    <3> HIDE DEF word
    <3> QED
      BY <1>1, <2>1, <3>2, <3>3 DEF Tokens
  <2>2. CASE ~setup.log_probs
    <3>1. d.logprobs = <<>>
      BY <2>2 DEF LogprobsMatch
    <3>2. e.logprobs = <<>> \o <<>>
      BY <1>2, <2>2, <3>1
    <3> QED
      BY <2>2, <3>2
  <2> QED
    BY <2>1, <2>2
<1>6. e \in Conversation
  <2>1. e.logprobs \in Seq(Logprobs)
    <3>1. <<>> \in Seq(Logprobs)
      OBVIOUS
    <3> QED
      BY <1>5, <3>1
  <2> QED
    BY <1>2, <1>3, <1>4, <2>1 DEF Conversation
<1>7. TokensMatch(e, m)
  <2>1. Len(e.ids) = m + Len(e.mask)
    BY <1>1, <1>3, <1>4 DEF TokensMatch
  <2>2. ASSUME NEW j \in 1 .. m PROVE e.ids[j] = "p"
    <3>1. j \in 1 .. Len(d.ids) /\ d.ids[j] = "p"
      BY <1>1 DEF TokensMatch
    <3> QED
      BY <1>3, <3>1
  <2>3. ASSUME NEW j \in 1 .. Len(e.mask)
        PROVE  e.ids[m + j] # "p" /\ (e.mask[j] = 1 <=> e.ids[m + j] = "g")
    <3>1. CASE j <= Len(d.mask)
      <4>1. j \in 1 .. Len(d.mask) /\ m + j \in 1 .. Len(d.ids)
        BY <1>1, <3>1 DEF TokensMatch
      <4> QED
        BY <1>3, <1>4, <4>1 DEF TokensMatch
    <3>2. CASE j > Len(d.mask)
      <4>1. /\ j \in Len(d.mask) + 1 .. Len(d.mask) + n
            /\ m + j \in Len(d.ids) + 1 .. Len(d.ids) + n
        BY <1>1, <1>4, <3>2 DEF TokensMatch
      <4>2. e.ids[m + j] = kind /\ e.mask[j] = bit
        BY <1>3, <1>4, <4>1
      <4> QED
        BY <4>2 DEF bit
    <3> QED
      BY <1>1, <3>1, <3>2
  <2> QED
    BY <2>1, <2>2, <2>3 DEF TokensMatch
<1>8. LogprobsMatch(e)
  <2>1. CASE setup.log_probs
    <3>1. /\ Len(d.logprobs) = Len(d.mask)
          /\ \A j \in 1 .. Len(d.mask) : d.logprobs[j] = "lp" <=> d.mask[j] = 1
      BY <2>1 DEF LogprobsMatch
    <3>2. ASSUME NEW j \in 1 .. Len(e.mask) PROVE e.logprobs[j] = "lp" <=> e.mask[j] = 1
      <4>1. CASE j <= Len(d.mask)
        <5>1. j \in 1 .. Len(d.mask)
          BY <1>1, <4>1
        <5>2. e.logprobs[j] = d.logprobs[j] /\ e.mask[j] = d.mask[j]
          BY <1>4, <1>5, <2>1, <3>1, <5>1
        <5> QED
          BY <3>1, <5>1, <5>2
      <4>2. CASE j > Len(d.mask)
        <5>1. j \in Len(d.mask) + 1 .. Len(d.mask) + n
          BY <1>1, <1>4, <4>2
        <5>2. e.logprobs[j] = word /\ e.mask[j] = bit
          BY <1>4, <1>5, <2>1, <3>1, <5>1
        <5> QED
          BY <5>2 DEF bit
      <4> QED
        BY <1>1, <4>1, <4>2
    <3> QED
      BY <1>1, <1>4, <1>5, <2>1, <3>1, <3>2 DEF LogprobsMatch
  <2>2. CASE ~setup.log_probs
    BY <1>5, <2>2 DEF LogprobsMatch
  <2> QED
    BY <2>1, <2>2
<1> QED
  BY <1>2, <1>4, <1>6, <1>7, <1>8 DEF e, Conversation

(* A sequence cut or filled up to n places. *)
LEMMA PadRightFacts ==
  ASSUME NEW S, NEW s \in Seq(S), NEW pad, NEW n \in Nat
  PROVE  \A j \in 1 .. n : PadRight(UpTo(s, n), pad, n)[j] = IF j <= Len(s) THEN s[j] ELSE pad
<1> DEFINE m == IF n < Len(s) THEN n ELSE Len(s)
           t == UpTo(s, n)
<1>1. Len(s) \in Nat /\ m \in Nat /\ m <= n /\ m <= Len(s)
  OBVIOUS
<1>2. t = SubSeq(s, 1, m)
  BY DEF UpTo
<1> HIDE DEF m, t
<1>3. t \in Seq(S) /\ Len(t) = m /\ \A j \in 1 .. m : t[j] = s[j]
  BY <1>1, <1>2
<1>4. PadRight(t, pad, n) = t \o [j \in 1 .. n - m |-> pad]
  BY <1>3 DEF PadRight, Tokens
<1>5. ASSUME NEW j \in 1 .. n
      PROVE  (t \o [k \in 1 .. n - m |-> pad])[j] = IF j <= Len(s) THEN s[j] ELSE pad
  <2>1. (t \o [k \in 1 .. n - m |-> pad])[j] = IF j <= m THEN t[j] ELSE pad
    BY <1>1, <1>3
  <2> QED
    BY <1>1, <1>3, <2>1 DEF m
<1> QED
  BY <1>4, <1>5 DEF t

(* What becomes of a conversation that is over. *)
LEMMA OutputExact ==
  ASSUME NEW d \in Conversation, NEW m \in 0 .. PromptLength,
         TokensMatch(d, m), LogprobsMatch(d), d.mask # <<>>
  PROVE  LET out == Output(d)
         IN  /\ out.prompts = PadLeft(Tokens("p", m), PromptLength)
             /\ \A j \in 1 .. ResponseLength :
                  /\ out.responses[j] # "p"
                  /\ (out.response_mask[j] = 1) = (out.responses[j] = "g")
                  /\ setup.log_probs => (out.log_probs[j] = "lp") = (out.response_mask[j] = 1)
                  /\ out.response_mask[j] \in Bits
                  /\ out.response_mask[j] = 1 => j <= out.score_at
             /\ Len(out.response_mask) = ResponseLength
             /\ out.score_at \in 1 .. ResponseLength
<1> DEFINE n == Len(d.mask)
           ids == ResponseIds(d)
           out == Output(d)
<1>1. /\ d.ids \in Seq(Kinds) /\ d.mask \in Seq(Bits) /\ d.logprobs \in Seq(Logprobs)
      /\ n \in Nat \ {0} /\ ResponseLength \in Nat \ {0}
  <2>1. d.ids \in Seq(Kinds) /\ d.mask \in Seq(Bits) /\ d.logprobs \in Seq(Logprobs)
    BY DEF Conversation
  <2> QED
    BY <2>1, AgentLoopAssumption
<1>2. /\ Len(d.ids) = m + n
      /\ \A j \in 1 .. n : d.ids[m + j] # "p" /\ (d.mask[j] = 1 <=> d.ids[m + j] = "g")
  BY DEF TokensMatch
<1> HIDE DEF n
<1>3. ids \in Seq(Kinds) /\ Len(ids) = n /\ \A j \in 1 .. n : ids[j] = d.ids[m + j]
  <2>1. ids = SubSeq(d.ids, m + 1, m + n)
    BY <1>2, <1>1 DEF ResponseIds, n
  <2>2. m + 1 \in 1 .. Len(d.ids) + 1 /\ m + n \in m .. Len(d.ids)
    BY <1>1, <1>2
  <2>3. /\ ids \in Seq(Kinds)
        /\ Len(ids) = (m + n) - (m + 1) + 1
        /\ \A j \in 1 .. (m + n) - (m + 1) + 1 : ids[j] = d.ids[(m + 1) + j - 1]
    BY <1>1, <2>1, <2>2, SubSeqProperties
  <2>4. (m + n) - (m + 1) + 1 = n /\ \A j \in 1 .. n : (m + 1) + j - 1 = m + j
    BY <1>1
  <2> QED
    BY <2>3, <2>4
<1> HIDE DEF ids
<1>4. /\ out.responses = PadRight(UpTo(ids, ResponseLength), "pad", ResponseLength)
      /\ out.response_mask = PadRight(UpTo(d.mask, ResponseLength), 0, ResponseLength)
      /\ d.logprobs # <<>> =>
           out.log_probs = PadRight(UpTo(d.logprobs, ResponseLength), "zero", ResponseLength)
      /\ out.prompts = PadLeft(PromptIds(d), PromptLength)
      /\ out.score_at = Cardinality({j \in 1 .. ResponseLength : out.responses[j] # "pad"})
  BY DEF Output, ids
<1> HIDE DEF out
<1>5. \A j \in 1 .. ResponseLength : out.responses[j] = IF j <= n THEN ids[j] ELSE "pad"
  <2>1. ResponseLength \in Nat
    BY <1>1
  <2>2. \A j \in 1 .. ResponseLength :
          PadRight(UpTo(ids, ResponseLength), "pad", ResponseLength)[j] =
            IF j <= Len(ids) THEN ids[j] ELSE "pad"
    BY <1>3, <2>1, PadRightFacts
  <2> QED
    BY <1>3, <1>4, <2>2
<1>6. \A j \in 1 .. ResponseLength : out.response_mask[j] = IF j <= n THEN d.mask[j] ELSE 0
  BY <1>1, <1>4, PadRightFacts DEF n
<1>7. ASSUME setup.log_probs
      PROVE  \A j \in 1 .. ResponseLength :
               out.log_probs[j] = IF j <= n THEN d.logprobs[j] ELSE "zero"
  <2>1. Len(d.logprobs) = n
    BY <1>7 DEF LogprobsMatch, n
  <2>2. d.logprobs # <<>>
    BY <1>1, <2>1
  <2> QED
    BY <1>1, <1>4, <2>1, <2>2, PadRightFacts
<1>8. ASSUME NEW j \in 1 .. ResponseLength
      PROVE  /\ out.responses[j] # "p"
             /\ (out.response_mask[j] = 1) = (out.responses[j] = "g")
             /\ setup.log_probs => (out.log_probs[j] = "lp") = (out.response_mask[j] = 1)
  <2>1. CASE j <= n
    <3>1. /\ out.responses[j] = d.ids[m + j] /\ out.response_mask[j] = d.mask[j]
          /\ j \in 1 .. n
      BY <1>1, <1>3, <1>5, <1>6, <2>1
    <3>2. setup.log_probs =>
            out.log_probs[j] = d.logprobs[j] /\ (d.logprobs[j] = "lp" <=> d.mask[j] = 1)
      BY <1>1, <1>7, <2>1, <3>1 DEF LogprobsMatch, n
    <3> QED
      BY <1>2, <3>1, <3>2
  <2>2. CASE ~(j <= n)
    BY <1>5, <1>6, <1>7, <2>2
  <2> QED
    BY <2>1, <2>2
<1>9. out.prompts = PadLeft(Tokens("p", m), PromptLength)
  <2>1. PromptIds(d) = SubSeq(d.ids, 1, m)
    BY <1>1, <1>2 DEF PromptIds, n
  <2>2. /\ PromptIds(d) \in Seq(Kinds) /\ Len(PromptIds(d)) = m
        /\ \A j \in 1 .. m : PromptIds(d)[j] = d.ids[j]
    BY <1>1, <1>2, <2>1
  <2>3. "p" \in Kinds
    BY DEF Kinds
  <2>4. /\ Tokens("p", m) \in Seq(Kinds) /\ Len(Tokens("p", m)) = m
        /\ \A j \in 1 .. m : Tokens("p", m)[j] = "p"
    BY <2>3, TokensFacts
  <2>5. \A j \in 1 .. m : PromptIds(d)[j] = Tokens("p", m)[j]
    BY <2>2, <2>4 DEF TokensMatch
  <2>6. PromptIds(d) = Tokens("p", m)
    BY <2>2, <2>4, <2>5, SeqEqual
  <2> QED
    BY <1>4, <2>6
<1> DEFINE full == {j \in 1 .. ResponseLength : out.responses[j] # "pad"}
\* The tokens are in front, the padding behind: score_at is the last token.
<1>10. ASSUME NEW j \in 1 .. ResponseLength, j <= n PROVE 1 .. j \subseteq full
  <2>1. ASSUME NEW k \in 1 .. j PROVE k \in full
    <3>1. k \in 1 .. ResponseLength /\ k \in 1 .. n /\ k <= n
      BY <1>1, <1>10
    <3>2. ids[k] \in Kinds
      BY <1>3, <3>1
    <3>3. out.responses[k] = ids[k]
      BY <1>5, <3>1
    <3>4. out.responses[k] # "pad"
      BY <3>2, <3>3 DEF Kinds
    <3> QED
      BY <3>1, <3>4
  <2> QED
    BY <2>1
<1>11. out.score_at = Cardinality(full)
  BY <1>4
<1> HIDE DEF full
<1>12. IsFiniteSet(full) /\ Cardinality(full) \in Nat /\ Cardinality(full) <= ResponseLength
  <2>1. full \subseteq 1 .. ResponseLength
    BY DEF full
  <2>2. IsFiniteSet(1 .. ResponseLength) /\ Cardinality(1 .. ResponseLength) = ResponseLength
    BY <1>1, FS_Interval
  <2> QED
    BY <2>1, <2>2, FS_Subset, FS_CardinalityType
<1>13. ASSUME NEW j \in 1 .. ResponseLength, j <= n PROVE j <= out.score_at
  <2>1. Cardinality(1 .. j) = j
    BY <1>1, FS_Interval
  <2>2. Cardinality(1 .. j) <= Cardinality(full)
    BY <1>10, <1>12, <1>13, FS_Subset
  <2> QED
    BY <1>11, <2>1, <2>2
<1>14. out.score_at \in 1 .. ResponseLength
  <2>1. 1 \in 1 .. ResponseLength /\ 1 <= n
    BY <1>1
  <2>2. 1 <= out.score_at
    BY <1>13, <2>1
  <2> QED
    BY <1>1, <1>11, <1>12, <2>2
<1>15. ASSUME NEW j \in 1 .. ResponseLength
       PROVE  /\ out.response_mask[j] \in Bits
              /\ out.response_mask[j] = 1 => j <= out.score_at
  <2>1. CASE j <= n
    <3>1. j \in 1 .. n
      BY <1>1, <2>1
    <3>2. d.mask[j] \in Bits
      BY <1>1, <3>1 DEF n
    <3> QED
      BY <1>6, <1>13, <2>1, <3>2
  <2>2. CASE ~(j <= n)
    BY <1>6, <2>2 DEF Bits
  <2> QED
    BY <2>1, <2>2
<1>16. Len(out.response_mask) = ResponseLength
  <2> DEFINE mask == UpTo(d.mask, ResponseLength)
             padding == [j \in 1 .. ResponseLength - Len(mask) |-> 0]
  <2>1. mask \in Seq(Bits) /\ Len(mask) \in 0 .. ResponseLength
    BY <1>1 DEF UpTo
  <2>2. out.response_mask = mask \o padding
    BY <1>4 DEF PadRight, Tokens
  <2> HIDE DEF mask
  <2>3. padding \in Seq({0}) /\ Len(padding) = ResponseLength - Len(mask)
    BY <1>1, <2>1
  <2> HIDE DEF padding
  <2>4. Len(mask \o padding) = Len(mask) + Len(padding)
    BY <2>1, <2>3
  <2> QED
    BY <1>1, <2>1, <2>2, <2>3, <2>4
<1> QED
  BY <1>8, <1>9, <1>14, <1>15, <1>16 DEF out

-----------------------------------------------------------------------------
(* The rows of a worker's chunk. *)
RowsOf(w) == {k \in Row : WorkerOf(k) = w}

(* The entries of a worker's cache are of its rows, one for each; where the *)
(* rows are no more than the cache holds, the servers of a conversation are *)
(* those of its entry.                                                      *)
CacheMatches(w) ==
  /\ \A k \in DOMAIN sessions[w] : sessions[w][k].row \in RowsOf(w)
  /\ \A k, l \in DOMAIN sessions[w] : sessions[w][k].row = sessions[w][l].row => k = l

Remembered(i) ==
  \A m \in DOMAIN conv[i].servers :
    \E k \in DOMAIN sessions[WorkerOf(i)] :
      sessions[WorkerOf(i)][k] = [row |-> i, server |-> conv[i].servers[m]]

SessionsMatch ==
  /\ \A w \in 1 .. setup.workers : CacheMatches(w)
  /\ \A i \in Row : Cardinality(RowsOf(WorkerOf(i))) <= CacheSize => Remembered(i)

(* What the assumption on configurations says of the batch and its set-up. *)
LEMMA SetupFacts ==
  ASSUME LoopTypes
  PROVE  /\ setup \in [workers : Nat \ {0}, interaction : BOOLEAN, log_probs : BOOLEAN,
                       max_assistant_turns : Nat, max_user_turns : Nat]
         /\ rows \in Seq([agent : {"tool_agent", "single_turn_agent"}, prompt : 0 .. PromptLength])
         /\ Len(rows) \in Nat /\ Row = 1 .. Len(rows)
         /\ Len(rows) % setup.workers = 0
<1>1. /\ config.rows \in
           Seq([agent : {"tool_agent", "single_turn_agent"}, prompt : 0 .. PromptLength])
      /\ setup \in [workers : Nat \ {0}, interaction : BOOLEAN, log_probs : BOOLEAN,
                    max_assistant_turns : Nat, max_user_turns : Nat]
      /\ Len(config.rows) % setup.workers = 0
  BY RolloutAssumption DEF LoopTypes
<1>2. 0 % setup.workers = 0
  BY <1>1
<1> QED
  BY <1>1, <1>2 DEF LoopTypes, Row

(* The prompts are those the dataset let through. *)
LEMMA RowFacts ==
  ASSUME LoopTypes, NEW i \in Row
  PROVE  rows[i].prompt \in 0 .. PromptLength /\ rows[i].prompt \in Nat
<1> DEFINE S == [agent : {"tool_agent", "single_turn_agent"}, prompt : 0 .. PromptLength]
<1>1. /\ rows \in Seq([agent : {"tool_agent", "single_turn_agent"}, prompt : 0 .. PromptLength])
      /\ Row = 1 .. Len(rows)
  BY SetupFacts
<1>2. rows[i] \in S
  <2>1. rows \in Seq(S) /\ i \in 1 .. Len(rows)
    BY <1>1
  <2> HIDE DEF S
  <2> QED
    BY <2>1
<1> QED
  BY <1>2, AgentLoopAssumption

(* Every row has a worker. *)
LEMMA WorkerFacts ==
  ASSUME LoopTypes, NEW i \in Row
  PROVE  WorkerOf(i) \in 1 .. setup.workers
<1> DEFINE q == Len(rows) \div setup.workers
           d == (i - 1) \div q
<1>1. setup.workers \in Nat \ {0} /\ Len(rows) \in Nat /\ i \in 1 .. Len(rows)
  BY SetupFacts
<1>2. Len(rows) % setup.workers = 0
  BY SetupFacts
<1>3. Len(rows) = setup.workers * q
  BY <1>1, <1>2, Divides
<1>4. q \in Nat
  BY <1>1, DivBounds
<1> HIDE DEF q
<1>5. q # 0
  BY <1>1, <1>3, <1>4
<1>6. d \in Nat /\ q * d <= i - 1
  BY <1>1, <1>4, <1>5, DivBounds
<1> HIDE DEF d
<1>7. ~(d >= setup.workers)
  <2> SUFFICES ASSUME d >= setup.workers PROVE FALSE
    OBVIOUS
  <2>1. q * d >= q * setup.workers /\ q * setup.workers = setup.workers * q /\ q * d \in Nat
    BY <1>1, <1>4, <1>6
  <2>2. q * d >= Len(rows) /\ q * d <= i - 1 /\ i <= Len(rows)
    BY <1>1, <1>3, <1>6, <2>1
  <2> QED
    BY <1>1, <2>1, <2>2
<1> QED
  BY <1>1, <1>6, <1>7 DEF WorkerOf, d, q

(* The heap has a root: the least count, and of those the first server. *)
LEMMA LeastFacts ==
  ASSUME LoopTypes, NEW w \in 1 .. setup.workers
  PROVE  Least(w) \in 1 .. Servers
<1> DEFINE T == {requests[w][v] : v \in 1 .. Servers}
<1>1. requests[w] \in [1 .. Servers -> Nat] /\ Servers \in Nat \ {0}
  BY AgentLoopAssumption DEF LoopTypes
<1>2. T \subseteq Nat /\ requests[w][1] \in T
  BY <1>1
<1>3. PICK x \in T : \A y \in T : x <= y
  <2> HIDE DEF T
  <2> QED
    BY <1>2, LeastNumber
<1> DEFINE V == {v \in 1 .. Servers : requests[w][v] = x}
<1>4. V \subseteq Nat /\ V # {}
  BY <1>1
<1>5. PICK v \in V : \A u \in V : v <= u
  <2> HIDE DEF V
  <2> QED
    BY <1>4, LeastNumber
<1>6. \A u \in 1 .. Servers :
        requests[w][v] < requests[w][u] \/ (requests[w][v] = requests[w][u] /\ v <= u)
  <2> SUFFICES ASSUME NEW u \in 1 .. Servers
               PROVE  requests[w][v] < requests[w][u] \/ (requests[w][v] = requests[w][u] /\ v <= u)
    OBVIOUS
  <2>1. x <= requests[w][u] /\ requests[w][v] = x /\ x \in Nat /\ requests[w][u] \in Nat
    BY <1>1, <1>2, <1>3, <1>5
  <2>2. CASE requests[w][u] = x
    BY <1>5, <2>1, <2>2
  <2>3. CASE requests[w][u] # x
    BY <2>1, <2>3
  <2> QED
    BY <2>2, <2>3
<1>7. v \in 1 .. Servers
  BY <1>5
<1> HIDE DEF T, V
<1> QED
  BY <1>6, <1>7 DEF Least

(* A server is chosen, and the entry it may be from is one of this row. *)
LEMMA ChosenFacts ==
  ASSUME LoopTypes, NEW w \in 1 .. setup.workers, NEW i
  PROVE  /\ Chosen(w, i) \in 1 .. Servers
         /\ Session(w, i) # {} => Entry(w, i) \in Session(w, i)
<1>1. sessions[w] \in Seq(Entries)
  BY DEF LoopTypes
<1>2. Session(w, i) # {} => Entry(w, i) \in Session(w, i)
  BY DEF Entry
<1>3. CASE Session(w, i) = {}
  BY <1>3, LeastFacts DEF Chosen
<1>4. CASE Session(w, i) # {}
  <2>1. Entry(w, i) \in DOMAIN sessions[w]
    BY <1>2, <1>4 DEF Session
  <2>2. sessions[w][Entry(w, i)] \in Entries
    BY <1>1, <2>1
  <2> QED
    BY <1>2, <1>4, <2>2 DEF Chosen, Entries
<1> QED
  BY <1>2, <1>3, <1>4

(* There are n places. *)
LEMMA UpToCardinality ==
  ASSUME NEW n \in Nat
  PROVE  IsFiniteSet(1 .. n) /\ Cardinality(1 .. n) = n
BY FS_Interval

(* A sequence without one of its elements. *)
LEMMA RemoveAtFacts ==
  ASSUME NEW S, NEW s \in Seq(S), NEW e \in DOMAIN s
  PROVE  /\ RemoveAt(s, e) \in Seq(S)
         /\ Len(RemoveAt(s, e)) = Len(s) - 1
         /\ \A k \in 1 .. Len(s) - 1 : RemoveAt(s, e)[k] = IF k < e THEN s[k] ELSE s[k + 1]
<1> DEFINE a == SubSeq(s, 1, e - 1)
           b == SubSeq(s, e + 1, Len(s))
<1>1. Len(s) \in Nat /\ e \in 1 .. Len(s)
  OBVIOUS
<1>2. a \in Seq(S) /\ Len(a) = e - 1 /\ \A k \in 1 .. e - 1 : a[k] = s[k]
  BY <1>1
<1>3. b \in Seq(S) /\ Len(b) = Len(s) - e /\ \A k \in 1 .. Len(s) - e : b[k] = s[e + k]
  BY <1>1
<1>4. RemoveAt(s, e) = a \o b
  BY DEF RemoveAt
<1> HIDE DEF a, b
<1>5. a \o b \in Seq(S) /\ Len(a \o b) = Len(s) - 1
  <2>1. a \in Seq(S) /\ b \in Seq(S)
    BY <1>2, <1>3
  <2>2. a \o b \in Seq(S) /\ Len(a \o b) = Len(a) + Len(b)
    BY <2>1, ConcatProperties
  <2> QED
    BY <1>1, <1>2, <1>3, <2>2
<1>6. ASSUME NEW k \in 1 .. Len(s) - 1 PROVE (a \o b)[k] = IF k < e THEN s[k] ELSE s[k + 1]
  <2>1. (a \o b)[k] = IF k <= Len(a) THEN a[k] ELSE b[k - Len(a)]
    <3>1. k \in 1 .. Len(a) + Len(b)
      BY <1>1, <1>2, <1>3
    <3>2. a \in Seq(S) /\ b \in Seq(S)
      BY <1>2, <1>3
    <3> QED
      BY <3>1, <3>2, ConcatProperties
  <2>2. CASE k < e
    BY <1>1, <1>2, <2>1, <2>2
  <2>3. CASE ~(k < e)
    <3>1. k - Len(a) \in 1 .. Len(s) - e /\ e + (k - Len(a)) = k + 1 /\ ~(k <= Len(a))
      BY <1>1, <1>2, <2>3
    <3> QED
      BY <1>3, <2>1, <2>3, <3>1
  <2> QED
    BY <2>2, <2>3
<1> QED
  BY <1>4, <1>5, <1>6

(* A cache after _choose_server: no row twice, the row's entry at the end,  *)
(* and, with rows enough, all of the others.                                *)
LEMMA RememberFacts ==
  ASSUME LoopTypes, NEW i \in Row, CacheMatches(WorkerOf(i))
  PROVE  LET w == WorkerOf(i)
             r == Remember(w, i)
         IN  /\ r \in Seq(Entries)
             /\ r[Len(r)] = [row |-> i, server |-> Chosen(w, i)] /\ Len(r) \in DOMAIN r
             /\ \A k \in DOMAIN r : r[k].row \in RowsOf(w)
             /\ \A k, l \in DOMAIN r : r[k].row = r[l].row => k = l
             /\ Cardinality(RowsOf(w)) <= CacheSize =>
                  \A k \in DOMAIN sessions[w] : sessions[w][k].row # i =>
                    \E l \in DOMAIN r : r[l] = sessions[w][k]
<1> DEFINE w == WorkerOf(i)
           s == sessions[w]
           o == IF Session(w, i) = {} THEN s ELSE RemoveAt(s, Entry(w, i))
           kept == IF Len(o) < CacheSize THEN o ELSE Tail(o)
           new == [row |-> i, server |-> Chosen(w, i)]
           r == Remember(w, i)
<1>1. w \in 1 .. setup.workers /\ CacheSize \in Nat \ {0}
  BY WorkerFacts, AgentLoopAssumption
<1>2. s \in Seq(Entries) /\ Len(s) \in Nat /\ DOMAIN s = 1 .. Len(s)
  BY <1>1 DEF LoopTypes
<1>3. /\ \A k \in 1 .. Len(s) : s[k].row \in RowsOf(w)
      /\ \A k, l \in 1 .. Len(s) : s[k].row = s[l].row => k = l
  BY <1>2 DEF CacheMatches
<1>4. new \in Entries
  <2>1. i \in Nat
    BY SetupFacts
  <2> QED
    BY <1>1, <2>1, ChosenFacts DEF Entries
<1>5. r = Append(kept, new)
  BY DEF Remember
<1>6. /\ o \in Seq(Entries) /\ Len(o) \in Nat
      /\ \A k \in 1 .. Len(o) : o[k].row \in RowsOf(w) \ {i}
      /\ \A k, l \in 1 .. Len(o) : o[k].row = o[l].row => k = l
      /\ \A k \in 1 .. Len(s) : s[k].row # i => \E l \in 1 .. Len(o) : o[l] = s[k]
  <2>1. CASE Session(w, i) = {}
    BY <1>2, <1>3, <2>1 DEF Session
  <2>2. CASE Session(w, i) # {}
    <3> DEFINE e == Entry(w, i)
    <3>1. e \in 1 .. Len(s) /\ s[e].row = i
      BY <1>1, <1>2, <2>2, ChosenFacts DEF Session
    <3>2. o = RemoveAt(s, e)
      BY <2>2
    <3> HIDE DEF e, o, s
    <3>3. /\ o \in Seq(Entries) /\ Len(o) = Len(s) - 1
          /\ \A k \in 1 .. Len(s) - 1 : o[k] = IF k < e THEN s[k] ELSE s[k + 1]
      BY <1>2, <3>1, <3>2, RemoveAtFacts
    <3>4. ASSUME NEW k \in 1 .. Len(o) PROVE o[k].row \in RowsOf(w) \ {i}
      <4>1. CASE k < e
        BY <1>2, <1>3, <3>1, <3>3, <4>1
      <4>2. CASE ~(k < e)
        <5>1. k + 1 \in 1 .. Len(s) /\ k + 1 # e /\ o[k] = s[k + 1]
          BY <1>2, <3>1, <3>3, <4>2
        <5> QED
          BY <1>3, <3>1, <5>1
      <4> QED
        BY <4>1, <4>2
    <3>5. ASSUME NEW k \in 1 .. Len(o), NEW l \in 1 .. Len(o), o[k].row = o[l].row PROVE k = l
      <4> DEFINE at(x) == IF x < e THEN x ELSE x + 1
      <4>1. at(k) \in 1 .. Len(s) /\ at(l) \in 1 .. Len(s) /\ o[k] = s[at(k)] /\ o[l] = s[at(l)]
        BY <1>2, <3>1, <3>3
      <4>2. at(k) = at(l)
        BY <1>3, <3>5, <4>1
      <4> QED
        BY <1>2, <3>1, <3>3, <4>2
    <3>6. ASSUME NEW k \in 1 .. Len(s), s[k].row # i PROVE \E l \in 1 .. Len(o) : o[l] = s[k]
      <4>1. CASE k < e
        BY <1>2, <3>1, <3>3, <4>1
      <4>2. CASE k > e
        <5>1. k - 1 \in 1 .. Len(o) /\ o[k - 1] = s[k]
          BY <1>2, <3>1, <3>3, <4>2
        <5> QED
          BY <5>1
      <4> QED
        BY <1>2, <3>1, <3>6, <4>1, <4>2
    <3> QED
      BY <1>2, <3>1, <3>3, <3>4, <3>5, <3>6
  <2> QED
    BY <2>1, <2>2
<1>7. ASSUME Cardinality(RowsOf(w)) <= CacheSize PROVE Len(o) < CacheSize
  <2> DEFINE f == [k \in 1 .. Len(o) |-> o[k].row]
  <2>1. RowsOf(w) \subseteq Row /\ i \in RowsOf(w)
    BY DEF RowsOf
  <2>2. IsFiniteSet(RowsOf(w))
    <3>1. Row = 1 .. Len(rows) /\ Len(rows) \in Nat
      BY SetupFacts
    <3>2. IsFiniteSet(Row)
      BY <3>1, FS_Interval
    <3> QED
      BY <2>1, <3>2, FS_Subset
  <2>3. /\ IsFiniteSet(RowsOf(w) \ {i})
        /\ Cardinality(RowsOf(w) \ {i}) = Cardinality(RowsOf(w)) - 1
        /\ Cardinality(RowsOf(w)) \in Nat
    BY <2>1, <2>2, FS_RemoveElement, FS_CardinalityType
  <2>4. f \in Injection(1 .. Len(o), RowsOf(w) \ {i})
    <3> HIDE DEF o
    <3>1. f \in [1 .. Len(o) -> RowsOf(w) \ {i}]
      BY <1>6
    <3>2. \A k, l \in 1 .. Len(o) : f[k] = f[l] => k = l
      BY <1>6
    <3> QED
      BY <3>1, <3>2 DEF Injection, IsInjective
  <2>5. /\ Cardinality(1 .. Len(o)) = Len(o)
        /\ Cardinality(1 .. Len(o)) <= Cardinality(RowsOf(w) \ {i})
    <3> HIDE DEF o, f
    <3>1. Cardinality(1 .. Len(o)) = Len(o)
      BY <1>6, UpToCardinality
    <3> QED
      BY <2>3, <2>4, <3>1, FS_Injection
  <2> HIDE DEF o
  <2> QED
    BY <1>1, <1>6, <1>7, <2>3, <2>5
<1> HIDE DEF o
<1>8. /\ kept \in Seq(Entries) /\ Len(kept) \in Nat
      /\ \A k \in 1 .. Len(kept) : kept[k].row \in RowsOf(w) \ {i}
      /\ \A k, l \in 1 .. Len(kept) : kept[k].row = kept[l].row => k = l
  <2>1. CASE Len(o) < CacheSize
    BY <1>6, <2>1
  <2>2. CASE ~(Len(o) < CacheSize)
    <3>1. o # <<>>
      BY <1>1, <1>6, <2>2
    <3>2. /\ Tail(o) \in Seq(Entries) /\ Len(Tail(o)) = Len(o) - 1
          /\ \A k \in 1 .. Len(o) - 1 : Tail(o)[k] = o[k + 1]
      BY <1>6, <3>1
    <3>3. kept = Tail(o)
      BY <2>2
    <3> HIDE DEF kept
    <3>4. \A k \in 1 .. Len(kept) : k + 1 \in 1 .. Len(o) /\ kept[k] = o[k + 1]
      BY <1>6, <3>2, <3>3
    <3>5. ASSUME NEW k \in 1 .. Len(kept), NEW l \in 1 .. Len(kept), kept[k].row = kept[l].row
          PROVE  k = l
      <4>1. k + 1 \in 1 .. Len(o) /\ l + 1 \in 1 .. Len(o) /\ o[k + 1].row = o[l + 1].row
        BY <3>4, <3>5
      <4>2. k + 1 = l + 1
        BY <1>6, <4>1
      <4> QED
        BY <4>2
    <3> QED
      BY <1>1, <1>6, <2>2, <3>2, <3>3, <3>4, <3>5
  <2> QED
    BY <2>1, <2>2
<1>9. Cardinality(RowsOf(w)) <= CacheSize => kept = o
  BY <1>7
<1> HIDE DEF kept, s, new
<1>10. /\ r \in Seq(Entries) /\ Len(r) = Len(kept) + 1 /\ DOMAIN r = 1 .. Len(r)
       /\ r[Len(r)] = new /\ \A k \in 1 .. Len(kept) : r[k] = kept[k]
  <2> HIDE DEF r
  <2> QED
    BY <1>4, <1>5, <1>8
<1>11. new.row = i
  BY DEF new
<1> HIDE DEF r
<1>12. \A k \in DOMAIN r : r[k].row \in RowsOf(w)
  <2>1. i \in RowsOf(w)
    BY DEF RowsOf
  <2> QED
    BY <1>8, <1>10, <1>11, <2>1
<1>13. ASSUME NEW k \in DOMAIN r, NEW l \in DOMAIN r, r[k].row = r[l].row PROVE k = l
  <2>1. k \in 1 .. Len(kept) + 1 /\ l \in 1 .. Len(kept) + 1
    BY <1>10
  <2>2. CASE k \in 1 .. Len(kept) /\ l \in 1 .. Len(kept)
    BY <1>8, <1>10, <1>13, <2>2
  <2>3. CASE k = Len(kept) + 1 /\ l \in 1 .. Len(kept)
    BY <1>8, <1>10, <1>11, <1>13, <2>3
  <2>4. CASE k \in 1 .. Len(kept) /\ l = Len(kept) + 1
    BY <1>8, <1>10, <1>11, <1>13, <2>4
  <2> QED
    BY <1>8, <2>1, <2>2, <2>3, <2>4
<1>14. ASSUME Cardinality(RowsOf(w)) <= CacheSize, NEW k \in 1 .. Len(s), s[k].row # i
       PROVE  \E l \in DOMAIN r : r[l] = s[k]
  <2>1. PICK l \in 1 .. Len(o) : o[l] = s[k]
    BY <1>6, <1>14
  <2>2. l \in DOMAIN r /\ r[l] = o[l]
    BY <1>8, <1>9, <1>10, <1>14, <2>1
  <2> QED
    BY <2>1, <2>2
<1>15. Len(r) \in DOMAIN r
  BY <1>8, <1>10
<1> QED
  BY <1>2, <1>10, <1>12, <1>13, <1>14, <1>15 DEF r, s, new

-----------------------------------------------------------------------------
(* The invariant of the agent loops. *)
LoopInv == LoopTypes /\ Conversing /\ SessionsMatch

(* A conversation with another turn, or in another state. *)
LEMMA TurnFacts ==
  ASSUME NEW d \in Conversation, NEW to \in States
  PROVE  /\ LET e == [d EXCEPT !.assistant_turns = @ + 1]
            IN  /\ e \in Conversation /\ e.ids = d.ids /\ e.mask = d.mask
                /\ e.logprobs = d.logprobs /\ e.servers = d.servers
         /\ LET e == [d EXCEPT !.user_turns = @ + 1]
            IN  /\ e \in Conversation /\ e.ids = d.ids /\ e.mask = d.mask
                /\ e.logprobs = d.logprobs /\ e.servers = d.servers
         /\ LET e == [d EXCEPT !.state = to]
            IN  /\ e \in Conversation /\ e.ids = d.ids /\ e.mask = d.mask /\ e.state = to
                /\ e.logprobs = d.logprobs /\ e.servers = d.servers
<1>1. d.assistant_turns \in Nat /\ d.user_turns \in Nat
  BY DEF Conversation
<1>2. PICK a, b : a = d.assistant_turns + 1 /\ b = d.user_turns + 1
  OBVIOUS
<1>3. a \in Nat /\ b \in Nat
  BY <1>1, <1>2
<1>4. /\ LET e == [d EXCEPT !.assistant_turns = a]
         IN  /\ e \in Conversation /\ e.ids = d.ids /\ e.mask = d.mask
             /\ e.logprobs = d.logprobs /\ e.servers = d.servers
      /\ LET e == [d EXCEPT !.user_turns = b]
         IN  /\ e \in Conversation /\ e.ids = d.ids /\ e.mask = d.mask
             /\ e.logprobs = d.logprobs /\ e.servers = d.servers
      /\ LET e == [d EXCEPT !.state = to]
         IN  /\ e \in Conversation /\ e.ids = d.ids /\ e.mask = d.mask /\ e.state = to
             /\ e.logprobs = d.logprobs /\ e.servers = d.servers
  BY <1>3 DEF Conversation
<1> QED
  BY <1>2, <1>4

(* What one conversation does is of no concern to the others. *)
LEMMA OneConversation ==
  ASSUME LoopInv, NEW i \in Row, NEW e \in Conversation,
         conv' = [conv EXCEPT ![i] = e], config' = config, UNCHANGED <<rows, setup>>,
         e.state # "pending" => TokensMatch(e, rows[i].prompt),
         LogprobsMatch(e), TurnsMatch(e)
  PROVE  conv' \in [Row' -> Conversation] /\ Conversing'
<1>1. conv \in [Row -> Conversation] /\ Row' = Row /\ rows' = rows /\ setup' = setup
  BY DEF LoopInv, LoopTypes, Row
<1>2. conv' \in [Row' -> Conversation]
  BY <1>1
<1>3. ASSUME NEW k \in Row'
      PROVE  /\ conv'[k].state # "pending" => TokensMatch(conv'[k], rows'[k].prompt)
             /\ LogprobsMatch(conv[k])' /\ TurnsMatch(conv[k])'
  <2>1. CASE k = i
    <3>1. conv'[k] = e
      BY <1>1, <2>1
    <3> QED
      BY <1>1, <2>1, <3>1 DEF LogprobsMatch, TurnsMatch
  <2>2. CASE k # i
    <3>1. conv'[k] = conv[k] /\ k \in Row
      BY <1>1, <2>2
    <3> QED
      BY <1>1, <3>1 DEF LoopInv, Conversing, LogprobsMatch, TurnsMatch
  <2> QED
    BY <2>1, <2>2
<1>4. \A k \in Row' :
        TokensMatch(conv'[k], rows'[k].prompt) <=> TokensMatch(conv[k], rows[k].prompt)'
  BY DEF TokensMatch
<1> QED
  BY <1>2, <1>3, <1>4 DEF Conversing

(* Only a request makes the caches and the servers of conversations change. *)
LEMMA SessionsKept ==
  ASSUME LoopInv, NEW i \in Row, NEW e \in Conversation,
         conv' = [conv EXCEPT ![i] = e], UNCHANGED <<rows, setup, sessions>>,
         e.servers = conv[i].servers
  PROVE  SessionsMatch'
<1>1. /\ conv \in [Row -> Conversation] /\ Row' = Row
      /\ rows' = rows /\ setup' = setup /\ sessions' = sessions
  BY DEF LoopInv, LoopTypes, Row
<1>2. \A k : WorkerOf(k)' = WorkerOf(k)
  BY <1>1 DEF WorkerOf
<1>3. \A w : RowsOf(w)' = RowsOf(w)
  BY <1>1, <1>2 DEF RowsOf
<1>4. \A w : CacheMatches(w)' <=> CacheMatches(w)
  BY <1>1, <1>3 DEF CacheMatches
<1>5. \A k \in Row : conv'[k].servers = conv[k].servers
  BY <1>1
<1>6. \A k \in Row : Remembered(k)' <=> Remembered(k)
  BY <1>1, <1>2, <1>5 DEF Remembered
<1> QED
  BY <1>1, <1>2, <1>3, <1>4, <1>6 DEF LoopInv, SessionsMatch

(* One lemma for each handler of a conversation. *)
LEMMA PendingKeeps ==
  ASSUME LoopInv, NEW i \in Row, Pending(i), config' = config
  PROVE  LoopInv'
<1> DEFINE d == conv[i]
           m == rows[i].prompt
           e == [d EXCEPT !.state = "generating", !.ids = Tokens("p", m)]
<1>1. d \in Conversation /\ d.state = "pending" /\ conv' = [conv EXCEPT ![i] = e]
  BY DEF Pending, LoopInv, LoopTypes
<1>2. m \in Nat
  BY RowFacts DEF LoopInv
<1>3. d.mask = <<>> /\ LogprobsMatch(d)
  BY <1>1 DEF LoopInv, Conversing, TurnsMatch
<1>4. "p" \in Kinds
  BY DEF Kinds
<1>5. /\ Tokens("p", m) \in Seq(Kinds) /\ Len(Tokens("p", m)) = m
      /\ \A j \in 1 .. m : Tokens("p", m)[j] = "p"
  BY <1>2, <1>4, TokensFacts
<1> HIDE DEF m
<1>6. e \in Conversation
  BY <1>1, <1>5 DEF Conversation, States
<1>7. /\ e.state = "generating" /\ e.ids = Tokens("p", m) /\ e.mask = <<>>
      /\ e.logprobs = d.logprobs /\ e.servers = d.servers
  BY <1>1, <1>3 DEF Conversation
<1> HIDE DEF d, e
<1>8. TokensMatch(e, m)
  BY <1>2, <1>5, <1>7 DEF TokensMatch
<1>9. LogprobsMatch(e)
  BY <1>3, <1>7 DEF LogprobsMatch
<1>10. TurnsMatch(e)
  BY <1>7, AgentLoopAssumption DEF TurnsMatch
<1>11. UNCHANGED <<rows, setup, requests, sessions>>
  BY DEF Pending
<1>12. conv' \in [Row' -> Conversation] /\ Conversing'
  BY <1>1, <1>6, <1>8, <1>9, <1>10, <1>11, OneConversation DEF m
<1>13. SessionsMatch'
  BY <1>1, <1>6, <1>7, <1>11, SessionsKept DEF d
<1> QED
  BY <1>11, <1>12, <1>13 DEF LoopInv, LoopTypes

LEMMA AnswerKeeps ==
  ASSUME LoopInv, NEW i \in Row, Answer(i), config' = config
  PROVE  LoopInv'
<1> DEFINE d == conv[i]
           m == rows[i].prompt
<1>1. d \in Conversation /\ d.state = "waiting" /\ m \in Nat
  <2>1. d \in Conversation /\ d.state = "waiting"
    BY DEF Answer, LoopInv, LoopTypes
  <2> QED
    BY <2>1, RowFacts DEF LoopInv
<1>2. PICK n \in 1 .. d.max_tokens, calls \in BOOLEAN :
        conv' = [conv EXCEPT ![i] =
          [[WithTokens(d, "g", n) EXCEPT !.assistant_turns = @ + 1] EXCEPT
             !.state = IF rows[i].agent = "tool_agent"
                       THEN After([WithTokens(d, "g", n) EXCEPT !.assistant_turns = @ + 1], calls)
                       ELSE "terminated"]]
  BY DEF Answer
<1> DEFINE f == WithTokens(d, "g", n)
           g == [f EXCEPT !.assistant_turns = @ + 1]
           to == IF rows[i].agent = "tool_agent" THEN After(g, calls) ELSE "terminated"
           e == [g EXCEPT !.state = to]
<1>3. n \in Nat \ {0}
  BY <1>1 DEF Conversation
<1>4. TokensMatch(d, m) /\ LogprobsMatch(d) /\ TurnsMatch(d)
  BY <1>1 DEF LoopInv, Conversing
<1>5. setup.log_probs \in BOOLEAN
  BY SetupFacts DEF LoopInv
<1> HIDE DEF d, m
<1>6. /\ f \in Conversation /\ TokensMatch(f, m) /\ LogprobsMatch(f)
      /\ Len(f.mask) = Len(d.mask) + n /\ f.servers = d.servers
  BY <1>1, <1>3, <1>4, <1>5, WithTokensMatch
<1> HIDE DEF f
<1>7. to \in {"processing_tools", "interacting", "terminated"}
  BY DEF After
<1>8. /\ g \in Conversation /\ g.ids = f.ids /\ g.mask = f.mask /\ g.logprobs = f.logprobs
      /\ g.servers = f.servers
  <2>1. f \in Conversation /\ "terminated" \in States
    BY <1>6 DEF States
  <2> QED
    BY <2>1, TurnFacts
<1>9. /\ to = "interacting" => setup.interaction
      /\ to = "processing_tools" => ~(Len(f.mask) >= ResponseLength)
  BY <1>8 DEF After, AtLimit
<1> HIDE DEF to, g
<1>10. /\ e \in Conversation /\ e.state = to /\ e.ids = f.ids /\ e.mask = f.mask
       /\ e.logprobs = f.logprobs /\ e.servers = d.servers
  <2>1. g \in Conversation /\ to \in States
    BY <1>7, <1>8 DEF States
  <2>2. /\ e \in Conversation /\ e.state = to /\ e.ids = g.ids /\ e.mask = g.mask
        /\ e.logprobs = g.logprobs /\ e.servers = g.servers
    BY <2>1, TurnFacts
  <2> QED
    BY <1>6, <1>8, <2>2
<1>11. conv' = [conv EXCEPT ![i] = e]
  BY <1>2 DEF e, g, f, to, d
<1> HIDE DEF e, g
<1>12. TokensMatch(e, m) /\ LogprobsMatch(e)
  BY <1>6, <1>10 DEF TokensMatch, LogprobsMatch
<1>13. TurnsMatch(e)
  <2>1. d.mask \in Seq(Bits) /\ f.mask \in Seq(Bits)
    BY <1>1, <1>6 DEF Conversation
  <2>2. Len(f.mask) \in Nat /\ f.mask # <<>>
    BY <1>3, <1>6, <2>1
  <2> QED
    BY <1>7, <1>9, <1>10, <2>2, AgentLoopAssumption DEF TurnsMatch
<1>14. UNCHANGED <<rows, setup, requests, sessions>>
  BY DEF Answer
<1>15. conv' \in [Row' -> Conversation] /\ Conversing'
  BY <1>10, <1>11, <1>12, <1>13, <1>14, OneConversation DEF m
<1>16. SessionsMatch'
  BY <1>10, <1>11, <1>14, SessionsKept DEF d
<1> QED
  BY <1>14, <1>15, <1>16 DEF LoopInv, LoopTypes

(* A message is added to a conversation. *)
LEMMA MessageKeeps ==
  ASSUME LoopInv, NEW i \in Row, NEW n \in Nat \ {0}, NEW to \in {"generating", "terminated"},
         conv[i].state \in {"processing_tools", "interacting"},
         ~setup.interaction => Fits(conv[i], n),
         conv' = [conv EXCEPT ![i] =
           [[WithTokens(conv[i], "o", n) EXCEPT !.user_turns = @ + 1] EXCEPT !.state = to]],
         UNCHANGED <<config, rows, setup, requests, sessions>>
  PROVE  LoopInv'
<1> DEFINE d == conv[i]
           m == rows[i].prompt
           f == WithTokens(d, "o", n)
           g == [f EXCEPT !.user_turns = @ + 1]
           e == [g EXCEPT !.state = to]
<1>1. d \in Conversation /\ m \in Nat
  <2>1. d \in Conversation
    BY DEF LoopInv, LoopTypes
  <2> QED
    BY <2>1, RowFacts DEF LoopInv
<1>2. TokensMatch(d, m) /\ LogprobsMatch(d) /\ d.mask # <<>>
  BY DEF LoopInv, Conversing, TurnsMatch
<1>3. setup.log_probs \in BOOLEAN
  BY SetupFacts DEF LoopInv
<1>4. ~setup.interaction => Len(d.mask) + n < ResponseLength
  BY DEF Fits
<1>5. conv' = [conv EXCEPT ![i] = e]
  OBVIOUS
<1> HIDE DEF d, m
<1>6. /\ f \in Conversation /\ TokensMatch(f, m) /\ LogprobsMatch(f)
      /\ Len(f.mask) = Len(d.mask) + n /\ f.servers = d.servers
  BY <1>1, <1>2, <1>3, WithTokensMatch
<1> HIDE DEF f
<1>7. to \in States
  BY DEF States
<1>8. /\ g \in Conversation /\ g.ids = f.ids /\ g.mask = f.mask /\ g.logprobs = f.logprobs
      /\ g.servers = f.servers
  BY <1>6, <1>7, TurnFacts
<1> HIDE DEF g
<1>9. /\ e \in Conversation /\ e.ids = g.ids /\ e.mask = g.mask /\ e.logprobs = g.logprobs
      /\ e.servers = g.servers /\ e.state = to
  BY <1>7, <1>8, TurnFacts
<1> HIDE DEF e
<1>10. TokensMatch(e, m) /\ LogprobsMatch(e)
  BY <1>6, <1>8, <1>9 DEF TokensMatch, LogprobsMatch
<1>11. TurnsMatch(e)
  <2>1. d.mask \in Seq(Bits) /\ f.mask \in Seq(Bits)
    BY <1>1, <1>6 DEF Conversation
  <2>2. Len(f.mask) \in Nat /\ f.mask # <<>>
    BY <1>6, <2>1
  <2> QED
    BY <1>4, <1>6, <1>8, <1>9, <2>2 DEF TurnsMatch
<1>12. conv' \in [Row' -> Conversation] /\ Conversing'
  BY <1>5, <1>9, <1>10, <1>11, OneConversation DEF m
<1>13. SessionsMatch'
  <2>1. e.servers = conv[i].servers
    BY <1>6, <1>8, <1>9 DEF d
  <2> QED
    BY <1>5, <1>9, <2>1, SessionsKept
<1> QED
  BY <1>12, <1>13 DEF LoopInv, LoopTypes

LEMMA ProcessToolsKeeps ==
  ASSUME LoopInv, NEW i \in Row, ProcessTools(i), config' = config
  PROVE  LoopInv'
<1> DEFINE d == conv[i]
<1>1. PICK n \in ObservationLengths :
        conv' = [conv EXCEPT ![i] =
          IF Fits(d, n)
          THEN [[WithTokens(d, "o", n) EXCEPT !.user_turns = @ + 1] EXCEPT !.state = "generating"]
          ELSE [d EXCEPT !.state = "terminated"]]
  BY DEF ProcessTools
<1>2. n \in Nat \ {0}
  BY AgentLoopAssumption
<1>3. /\ d \in Conversation /\ d.state = "processing_tools"
      /\ UNCHANGED <<rows, setup, requests, sessions>>
  BY DEF ProcessTools, LoopInv, LoopTypes
<1>4. CASE Fits(d, n)
  BY <1>1, <1>2, <1>3, <1>4, MessageKeeps
<1>5. CASE ~Fits(d, n)
  <2> DEFINE e == [d EXCEPT !.state = "terminated"]
  <2>1. conv' = [conv EXCEPT ![i] = e]
    BY <1>1, <1>5
  <2>2. "terminated" \in States
    BY DEF States
  <2>3. /\ e \in Conversation /\ e.ids = d.ids /\ e.mask = d.mask /\ e.logprobs = d.logprobs
        /\ e.servers = d.servers /\ e.state = "terminated"
    <3> HIDE DEF d
    <3> QED
      BY <1>3, <2>2, TurnFacts
  <2> HIDE DEF e
  <2>4. TokensMatch(d, rows[i].prompt) /\ LogprobsMatch(d) /\ d.mask # <<>>
    BY <1>3 DEF LoopInv, Conversing, TurnsMatch
  <2>5. TokensMatch(e, rows[i].prompt) /\ LogprobsMatch(e) /\ TurnsMatch(e)
    BY <2>3, <2>4 DEF TokensMatch, LogprobsMatch, TurnsMatch
  <2>6. conv' \in [Row' -> Conversation] /\ Conversing'
    BY <1>3, <2>1, <2>3, <2>5, OneConversation
  <2>7. SessionsMatch'
    BY <1>3, <2>1, <2>3, SessionsKept
  <2> QED
    BY <1>3, <2>6, <2>7 DEF LoopInv, LoopTypes
<1> QED
  BY <1>4, <1>5

LEMMA InteractKeeps ==
  ASSUME LoopInv, NEW i \in Row, Interact(i), config' = config
  PROVE  LoopInv'
<1>1. PICK n \in ObservationLengths, should_terminate \in BOOLEAN :
        conv' = [conv EXCEPT ![i] =
          [[WithTokens(conv[i], "o", n) EXCEPT !.user_turns = @ + 1] EXCEPT
             !.state = IF should_terminate THEN "terminated" ELSE "generating"]]
  BY DEF Interact
<1>2. n \in Nat \ {0}
  BY AgentLoopAssumption
<1>3. conv[i].state = "interacting" /\ UNCHANGED <<rows, setup, requests, sessions>>
  BY DEF Interact
<1>4. setup.interaction
  BY <1>3 DEF LoopInv, Conversing, TurnsMatch
<1> DEFINE to == IF should_terminate THEN "terminated" ELSE "generating"
<1>5. to \in {"generating", "terminated"}
  OBVIOUS
<1>6. conv' = [conv EXCEPT ![i] =
        [[WithTokens(conv[i], "o", n) EXCEPT !.user_turns = @ + 1] EXCEPT !.state = to]]
  BY <1>1
<1> HIDE DEF to
<1> QED
  BY <1>2, <1>3, <1>4, <1>5, <1>6, MessageKeeps

LEMMA GenerateKeeps ==
  ASSUME LoopInv, NEW i \in Row, Generate(i), config' = config
  PROVE  LoopInv'
<1> DEFINE d == conv[i]
           w == WorkerOf(i)
           m == rows[i].prompt
           max == MaxTokens(d.ids)
           c == Chosen(w, i)
           to == IF max = 0 THEN "failed" ELSE "waiting"
           e == [d EXCEPT !.state = to, !.max_tokens = max, !.servers = Append(@, c)]
<1>1. d \in Conversation /\ d.state = "generating"
  BY DEF Generate, LoopInv, LoopTypes
<1>2. /\ conv' = [conv EXCEPT ![i] = e]
      /\ sessions' = [sessions EXCEPT ![w] = Remember(w, i)]
      /\ requests' = [requests EXCEPT ![w][c] = IF Session(w, i) = {} THEN @ + 1 ELSE @]
      /\ rows' = rows /\ setup' = setup
  BY DEF Generate
<1>3. w \in 1 .. setup.workers
  BY WorkerFacts DEF LoopInv
<1>4. c \in 1 .. Servers
  BY <1>3, ChosenFacts DEF LoopInv
<1>5. m \in 0 .. PromptLength /\ m \in Nat
  BY RowFacts DEF LoopInv
<1>6. TokensMatch(d, m) /\ LogprobsMatch(d) /\ TurnsMatch(d)
  BY <1>1 DEF LoopInv, Conversing
<1> HIDE DEF d, m
<1>7. /\ d.ids \in Seq(Kinds) /\ d.mask \in Seq(Bits) /\ d.servers \in Seq(1 .. Servers)
      /\ Len(d.ids) \in Nat /\ Len(d.mask) \in Nat
  <2>1. d.ids \in Seq(Kinds) /\ d.mask \in Seq(Bits) /\ d.servers \in Seq(1 .. Servers)
    BY <1>1 DEF Conversation
  <2> QED
    BY <2>1
<1>8. max \in Nat /\ (~setup.interaction => max # 0)
  <2>1. Len(d.ids) = m + Len(d.mask)
    BY <1>6 DEF TokensMatch
  <2>2. ~setup.interaction => Len(d.mask) < ResponseLength
    BY <1>1, <1>6 DEF TurnsMatch
  <2>3. /\ Len(d.ids) \in Nat /\ Len(d.mask) \in Nat
        /\ PromptLength \in Nat /\ ResponseLength \in Nat /\ m <= PromptLength
    BY <1>5, <1>7, AgentLoopAssumption
  <2> DEFINE left == ResponseLength + PromptLength - Len(d.ids)
  <2>4. left \in Int /\ (~setup.interaction => left > 0)
    <3>1. left \in Int
      BY <2>3
    <3>2. ASSUME ~setup.interaction PROVE left > 0
      <4>1. Len(d.mask) < ResponseLength
        BY <2>2, <3>2
      <4>2. \A a, b, p, r \in Nat : a = m + b /\ b < r /\ m <= p => r + p - a > 0
        BY <1>5
      <4> QED
        BY <2>1, <2>3, <4>1, <4>2
    <3> QED
      BY <3>1, <3>2
  <2>5. max = IF left > 0 THEN left ELSE 0
    BY DEF MaxTokens
  <2> HIDE DEF left, max
  <2> QED
    BY <2>4, <2>5
<1> HIDE DEF max, c, w
<1>9. /\ to \in States /\ to \in {"failed", "waiting"} /\ (to = "failed" => setup.interaction)
  BY <1>8 DEF States
<1> HIDE DEF to
<1> DEFINE servers == Append(d.servers, c)
<1>10. /\ servers \in Seq(1 .. Servers) /\ DOMAIN servers = 1 .. Len(d.servers) + 1
       /\ \A k \in 1 .. Len(d.servers) : servers[k] = d.servers[k]
       /\ servers[Len(d.servers) + 1] = c
       /\ DOMAIN d.servers = 1 .. Len(d.servers) /\ Len(d.servers) \in Nat
  <2>1. Len(d.servers) \in Nat /\ DOMAIN d.servers = 1 .. Len(d.servers)
    BY <1>7
  <2> QED
    BY <1>4, <1>7, <2>1
<1>11. e = [d EXCEPT !.state = to, !.max_tokens = max, !.servers = servers]
  OBVIOUS
<1> HIDE DEF servers, e
<1>12. /\ e \in Conversation /\ e.state = to /\ e.ids = d.ids /\ e.mask = d.mask
       /\ e.logprobs = d.logprobs /\ e.servers = servers
  BY <1>1, <1>8, <1>9, <1>10, <1>11 DEF Conversation
<1>13. TokensMatch(e, m) /\ LogprobsMatch(e)
  BY <1>6, <1>12 DEF TokensMatch, LogprobsMatch
<1>14. TurnsMatch(e)
  BY <1>1, <1>6, <1>9, <1>12 DEF TurnsMatch
<1>15. conv' \in [Row' -> Conversation] /\ Conversing'
  BY <1>2, <1>12, <1>13, <1>14, OneConversation DEF m
<1>16. requests' \in [1 .. setup.workers -> [1 .. Servers -> Nat]]
  <2>1. requests \in [1 .. setup.workers -> [1 .. Servers -> Nat]]
    BY DEF LoopInv, LoopTypes
  <2> DEFINE count == IF Session(w, i) = {} THEN requests[w][c] + 1 ELSE requests[w][c]
  <2>2. requests[w] \in [1 .. Servers -> Nat] /\ count \in Nat
    <3>1. requests[w] \in [1 .. Servers -> Nat]
      BY <1>3, <2>1
    <3>2. requests[w][c] \in Nat
      BY <1>4, <3>1
    <3> QED
      BY <3>1, <3>2
  <2>3. requests' = [requests EXCEPT ![w] = [requests[w] EXCEPT ![c] = count]]
    BY <1>2
  <2> HIDE DEF count
  <2>4. [requests[w] EXCEPT ![c] = count] \in [1 .. Servers -> Nat]
    BY <1>4, <2>2
  <2> QED
    BY <1>3, <2>1, <2>3, <2>4
<1>17. CacheMatches(w)
  BY <1>3 DEF LoopInv, SessionsMatch
<1> DEFINE r == Remember(w, i)
<1>18. /\ r \in Seq(Entries)
       /\ r[Len(r)] = [row |-> i, server |-> c] /\ Len(r) \in DOMAIN r
       /\ \A k \in DOMAIN r : r[k].row \in RowsOf(w)
       /\ \A k, l \in DOMAIN r : r[k].row = r[l].row => k = l
       /\ Cardinality(RowsOf(w)) <= CacheSize =>
            \A k \in DOMAIN sessions[w] : sessions[w][k].row # i =>
              \E l \in DOMAIN r : r[l] = sessions[w][k]
  BY <1>17, RememberFacts DEF LoopInv, w, c
<1> HIDE DEF r
<1>19. sessions \in [1 .. setup.workers -> Seq(Entries)]
  BY DEF LoopInv, LoopTypes
<1>20. /\ sessions' \in [1 .. setup.workers -> Seq(Entries)] /\ sessions'[w] = r
       /\ \A v \in 1 .. setup.workers : v # w => sessions'[v] = sessions[v]
  BY <1>2, <1>3, <1>18, <1>19 DEF r
<1>21. LoopTypes'
  BY <1>2, <1>15, <1>16, <1>20 DEF LoopInv, LoopTypes
<1>22. Row' = Row /\ \A k : WorkerOf(k)' = WorkerOf(k) /\ \A v : RowsOf(v)' = RowsOf(v)
  <2>1. Row' = Row
    BY <1>2 DEF Row
  <2>2. \A k : WorkerOf(k)' = WorkerOf(k)
    BY <1>2 DEF WorkerOf
  <2> QED
    BY <2>1, <2>2 DEF RowsOf
<1>23. ASSUME NEW v \in 1 .. setup.workers PROVE CacheMatches(v)'
  <2>1. CASE v = w
    BY <1>18, <1>20, <1>22, <2>1 DEF CacheMatches
  <2>2. CASE v # w
    <3>1. CacheMatches(v) /\ sessions'[v] = sessions[v]
      BY <1>20, <2>2 DEF LoopInv, SessionsMatch
    <3> QED
      BY <1>22, <3>1 DEF CacheMatches
  <2> QED
    BY <2>1, <2>2
<1>24. ASSUME NEW k \in Row, Cardinality(RowsOf(WorkerOf(k))) <= CacheSize
       PROVE  Remembered(k)'
  <2>1. Remembered(k)
    BY <1>24 DEF LoopInv, SessionsMatch
  <2>2. CASE k = i
    <3>1. conv'[i].servers = servers
      BY <1>2, <1>12 DEF LoopInv, LoopTypes
    <3>2. ASSUME NEW j \in DOMAIN d.servers PROVE d.servers[j] = c
      <4>1. PICK l \in DOMAIN sessions[w] : sessions[w][l] = [row |-> i, server |-> d.servers[j]]
        BY <2>1, <2>2 DEF Remembered, d, w
      <4>2. l \in Session(w, i)
        BY <4>1 DEF Session
      <4>3. Entry(w, i) \in Session(w, i)
        BY <1>3, <4>2, ChosenFacts DEF LoopInv
      <4>4. Entry(w, i) = l
        BY <1>17, <4>2, <4>3 DEF CacheMatches, Session
      <4> QED
        BY <4>1, <4>2, <4>4 DEF Chosen, c
    <3>3. \A j \in DOMAIN servers : servers[j] = c
      BY <1>10, <3>2
    <3> QED
      BY <1>18, <1>20, <1>22, <2>2, <3>1, <3>3 DEF Remembered, w
  <2>3. CASE k # i
    <3>1. conv'[k] = conv[k]
      BY <1>2, <2>3 DEF LoopInv, LoopTypes
    <3>2. WorkerOf(k) \in 1 .. setup.workers
      BY WorkerFacts DEF LoopInv
    <3>3. ASSUME NEW l \in DOMAIN sessions[WorkerOf(k)], sessions[WorkerOf(k)][l].row = k
          PROVE  \E l2 \in DOMAIN sessions'[WorkerOf(k)] :
                   sessions'[WorkerOf(k)][l2] = sessions[WorkerOf(k)][l]
      <4>1. CASE WorkerOf(k) = w
        BY <1>18, <1>20, <1>24, <2>3, <3>3, <4>1
      <4>2. CASE WorkerOf(k) # w
        BY <1>20, <3>2, <4>2
      <4> QED
        BY <4>1, <4>2
    <3>4. ASSUME NEW j \in DOMAIN conv[k].servers
          PROVE  \E l2 \in DOMAIN sessions'[WorkerOf(k)] :
                   sessions'[WorkerOf(k)][l2] = [row |-> k, server |-> conv[k].servers[j]]
      <4>1. PICK l \in DOMAIN sessions[WorkerOf(k)] :
              sessions[WorkerOf(k)][l] = [row |-> k, server |-> conv[k].servers[j]]
        BY <2>1 DEF Remembered
      <4> QED
        BY <3>3, <4>1
    <3> QED
      BY <1>22, <3>1, <3>4 DEF Remembered
  <2> QED
    BY <2>2, <2>3
<1>25. SessionsMatch'
  BY <1>2, <1>22, <1>23, <1>24 DEF SessionsMatch
<1> QED
  BY <1>15, <1>21, <1>25 DEF LoopInv

-----------------------------------------------------------------------------
(* A job has one configuration, which a crash does not change. *)
LEMMA ConfigKept ==
  ASSUME TrainerNext \/ UNCHANGED trainerVars
  PROVE  config' = config
<1>1. ASSUME UNCHANGED ckptVars PROVE config' = config
  BY <1>1 DEF ckptVars
<1>2. ASSUME LoadCheckpoint PROVE config' = config
  BY <1>2 DEF LoadCheckpoint, Load
<1>3. ASSUME Save PROVE config' = config
  BY <1>1, <1>3 DEF Save, MaySave, SaveCheckpoint
<1>4. ASSUME Saving PROVE config' = config
  BY <1>4 DEF Saving, SaveNext, Clean, OpenShard, CloseShard, Saved, OpenData, CloseData,
       OpenTracker, CloseTracker
<1>5. ASSUME Crash PROVE config' = config
  BY <1>5 DEF Crash, Stop
<1>6. ASSUME \/ LoadFails \/ WakeUp \/ Generated \/ GenerationEnds \/ AwaitBatch \/ Validate \/ Idle
             \/ UNCHANGED trainerVars
      PROVE  config' = config
  BY <1>1, <1>6 DEF LoadFails, WakeUp, Generated, GenerationEnds, AwaitBatch, Validate, Idle,
       trainerVars
<1>7. ASSUME \/ ValBeforeTrain \/ NextBatch \/ FirstTask \/ Sync
             \/ UpdateCritic \/ UpdateActor \/ EndStep
      PROVE  config' = config
  BY <1>7 DEF ValBeforeTrain, NextBatch, FirstTask, Sync, UpdateCritic, UpdateActor, EndStep
<1> QED
  BY <1>2, <1>3, <1>4, <1>5, <1>6, <1>7 DEF TrainerNext, FitStep

(* Nothing has been generated. *)
LEMMA LoopInitially ==
  ASSUME TrainingInit
  PROVE  LoopInv
<1>1. config \in Configs /\ LoopInit(config.setup)
  BY DEF TrainingInit, TrainerInit, CkptInit
<1>2. /\ setup = config.setup /\ rows = <<>> /\ conv = <<>>
      /\ requests = [w \in 1 .. setup.workers |-> [v \in 1 .. Servers |-> 0]]
      /\ sessions = [w \in 1 .. setup.workers |-> <<>>]
  BY <1>1 DEF LoopInit
<1>3. Row = {} /\ conv \in [Row -> Conversation]
  BY <1>2 DEF Row
<1>4. \A w \in 1 .. setup.workers : sessions[w] = <<>>
  BY <1>2
<1>5. LoopTypes
  BY <1>1, <1>2, <1>3 DEF LoopTypes
<1>6. SessionsMatch
  BY <1>3, <1>4 DEF SessionsMatch, CacheMatches
<1> QED
  BY <1>3, <1>5, <1>6 DEF LoopInv, Conversing

(* A new batch, or none after a crash: no request has been made for it. *)
LEMMA FreshKeeps ==
  ASSUME LoopInv, config' = config, setup' = setup,
         rows' \in {<<>>, config.rows}, DOMAIN conv' = DOMAIN rows',
         \A i \in DOMAIN rows' : conv'[i] =
           [state |-> "pending", ids |-> <<>>, mask |-> <<>>, logprobs |-> <<>>,
            assistant_turns |-> 0, user_turns |-> 0, max_tokens |-> 0, servers |-> <<>>],
         conv' = [i \in DOMAIN rows' |-> conv'[i]],
         requests' \in [1 .. setup.workers -> [1 .. Servers -> Nat]],
         sessions' = [w \in DOMAIN sessions |-> <<>>]
  PROVE  LoopInv'
<1> DEFINE new == [state |-> "pending", ids |-> <<>>, mask |-> <<>>, logprobs |-> <<>>,
                   assistant_turns |-> 0, user_turns |-> 0, max_tokens |-> 0, servers |-> <<>>]
<1>1. Row' = DOMAIN rows'
  BY DEF Row
<1>2. new \in Conversation /\ new.state = "pending" /\ new.ids = <<>> /\ new.mask = <<>>
      /\ new.logprobs = <<>> /\ new.servers = <<>>
  BY DEF Conversation, States
<1>3. \A i \in Row' : conv'[i] = new
  BY <1>1
<1> HIDE DEF new
<1>4. conv' \in [Row' -> Conversation]
  BY <1>1, <1>2, <1>3
<1>5. ASSUME NEW i \in Row'
      PROVE  /\ conv'[i].state = "pending" /\ LogprobsMatch(conv[i])' /\ TurnsMatch(conv[i])'
             /\ DOMAIN conv'[i].servers = {}
  <2>1. conv'[i] = new
    BY <1>3
  <2>2. Len(<<>>) = 0 /\ 1 .. 0 = {} /\ DOMAIN <<>> = {}
    OBVIOUS
  <2> QED
    BY <1>2, <2>1, <2>2 DEF LogprobsMatch, TurnsMatch
<1>6. Conversing'
  BY <1>5 DEF Conversing
<1>7. DOMAIN sessions = 1 .. setup.workers
  BY DEF LoopInv, LoopTypes
<1>8. /\ sessions' \in [1 .. setup.workers -> Seq(Entries)]
      /\ \A w \in 1 .. setup.workers : sessions'[w] = <<>>
  <2>1. <<>> \in Seq(Entries)
    OBVIOUS
  <2> QED
    BY <1>7, <2>1
<1>9. SessionsMatch'
  <2>1. \A w \in 1 .. setup.workers : DOMAIN sessions'[w] = {}
    BY <1>8
  <2> QED
    BY <1>5, <2>1 DEF SessionsMatch, CacheMatches, Remembered
<1>10. LoopTypes'
  BY <1>4, <1>8 DEF LoopInv, LoopTypes
<1> QED
  BY <1>6, <1>9, <1>10 DEF LoopInv

(* The trainer's other steps do not touch the agent loops. *)
LEMMA LoopInvKept ==
  ASSUME LoopInv, UNCHANGED <<config, loopVars>>
  PROVE  LoopInv'
<1>1. /\ config' = config /\ rows' = rows /\ setup' = setup /\ conv' = conv
      /\ requests' = requests /\ sessions' = sessions
  BY DEF loopVars
<1>2. LoopTypes' /\ Row' = Row
  BY <1>1 DEF LoopInv, LoopTypes, Row
<1>3. Conversing'
  BY <1>1, <1>2 DEF LoopInv, Conversing, TokensMatch, LogprobsMatch, TurnsMatch
<1>4. \A k : WorkerOf(k)' = WorkerOf(k)
  BY <1>1 DEF WorkerOf
<1>5. \A w : RowsOf(w)' = RowsOf(w)
  BY <1>2, <1>4 DEF RowsOf
<1>6. \A w : CacheMatches(w)' <=> CacheMatches(w)
  BY <1>1, <1>5 DEF CacheMatches
<1>7. \A k : Remembered(k)' <=> Remembered(k)
  BY <1>1, <1>4 DEF Remembered
<1>8. SessionsMatch'
  BY <1>1, <1>2, <1>4, <1>5, <1>6, <1>7 DEF LoopInv, SessionsMatch
<1> QED
  BY <1>2, <1>3, <1>8 DEF LoopInv

(* Every step, also a crash in the middle of a conversation. *)
LEMMA LoopInvStep ==
  ASSUME LoopInv, [Step \/ Restart \/ Stopped]_trainingVars
  PROVE  LoopInv'
<1>1. config' = config
  BY StepOfTheTrainer, ConfigKept
<1>2. ASSUME UNCHANGED loopVars PROVE LoopInv'
  BY <1>1, <1>2, LoopInvKept
<1>3. ASSUME Begin PROVE LoopInv'
  <2>1. CASE UNCHANGED loopVars
    BY <1>2, <2>1
  <2>2. CASE StartLoops(config.rows)
    <3>1. /\ rows' = config.rows /\ setup' = setup /\ requests' = requests
          /\ sessions' = [w \in DOMAIN sessions |-> <<>>]
          /\ conv' = [i \in DOMAIN config.rows |->
               [state |-> "pending", ids |-> <<>>, mask |-> <<>>, logprobs |-> <<>>,
                assistant_turns |-> 0, user_turns |-> 0, max_tokens |-> 0, servers |-> <<>>]]
      BY <2>2 DEF StartLoops
    <3>2. requests \in [1 .. setup.workers -> [1 .. Servers -> Nat]]
      BY DEF LoopInv, LoopTypes
    <3> QED
      BY <1>1, <3>1, <3>2, FreshKeeps
  <2> QED
    BY <1>3, <2>1, <2>2 DEF Begin
<1>4. ASSUME Restart PROVE LoopInv'
  <2>1. /\ rows' = <<>> /\ conv' = <<>> /\ setup' = setup
        /\ requests' = [w \in DOMAIN requests |-> [v \in 1 .. Servers |-> 0]]
        /\ sessions' = [w \in DOMAIN sessions |-> <<>>]
    BY <1>4 DEF Restart
  <2>2. requests' \in [1 .. setup.workers -> [1 .. Servers -> Nat]]
    BY <2>1 DEF LoopInv, LoopTypes
  <2>3. DOMAIN rows' = {} /\ DOMAIN conv' = {} /\ conv' = [i \in DOMAIN rows' |-> conv'[i]]
    BY <2>1
  <2> QED
    BY <1>1, <2>1, <2>2, <2>3, FreshKeeps
<1>5. ASSUME Loop PROVE LoopInv'
  <2>1. PICK i \in Row : Pending(i) \/ Generate(i) \/ Answer(i) \/ ProcessTools(i) \/ Interact(i)
    BY <1>5 DEF Loop, LoopStep
  <2> QED
    BY <1>1, <2>1, PendingKeeps, GenerateKeeps, AnswerKeeps, ProcessToolsKeeps, InteractKeeps
<1>6. ASSUME Stopped \/ UNCHANGED trainingVars PROVE UNCHANGED loopVars
  BY <1>6 DEF Stopped, trainingVars
<1>7. ASSUME Step PROVE Begin \/ Loop \/ UNCHANGED loopVars
  BY <1>7 DEF Step, End
<1> QED
  BY <1>2, <1>3, <1>4, <1>5, <1>6, <1>7

(* The invariant holds from the start of the job to its end. *)
LEMMA LoopInvAlways == TrainingSpec => []LoopInv
<1>1. TrainingInit => LoopInv
  BY LoopInitially
<1>2. LoopInv /\ [Step \/ Restart \/ Stopped]_trainingVars => LoopInv'
  BY LoopInvStep
<1> QED
  BY <1>1, <1>2, PTL DEF TrainingSpec

(* Whatever turns a conversation takes, with which tools and users: its     *)
(* row of the batch has the prompt on the left, a response whose mask and   *)
(* log_probs are on exactly the tokens of the model, and a place for the    *)
(* score.                                                                   *)
THEOREM RowsCorrect == TrainingSpec => []RowsExact
<1>1. LoopInv => RowsExact
  <2> SUFFICES ASSUME LoopInv, NEW i \in Row, conv[i].state = "terminated"
               PROVE  LET out == Output(conv[i])
                      IN  /\ out.prompts = PadLeft(Tokens("p", rows[i].prompt), PromptLength)
                          /\ \A j \in 1 .. ResponseLength :
                               /\ out.responses[j] # "p"
                               /\ (out.response_mask[j] = 1) = (out.responses[j] = "g")
                               /\ setup.log_probs =>
                                    (out.log_probs[j] = "lp") = (out.response_mask[j] = 1)
                          /\ out.score_at \in 1 .. ResponseLength
    BY DEF RowsExact
  <2>1. /\ conv[i] \in Conversation /\ rows[i].prompt \in 0 .. PromptLength
        /\ TokensMatch(conv[i], rows[i].prompt) /\ LogprobsMatch(conv[i]) /\ conv[i].mask # <<>>
    BY RowFacts DEF LoopInv, LoopTypes, Conversing, TurnsMatch
  <2> QED
    BY <2>1, OutputExact
<1> QED
  BY <1>1, LoopInvAlways, PTL

(* Only a simulated user can make a conversation ask for no tokens, which   *)
(* would end the training.                                                  *)
THEOREM RequestsCorrect == TrainingSpec => []NoEmptyRequest
<1>1. LoopInv => NoEmptyRequest
  BY DEF LoopInv, Conversing, TurnsMatch, NoEmptyRequest, LoopFailed
<1> QED
  BY <1>1, LoopInvAlways, PTL

(* The turns of a conversation meet the same server, and its prefix cache,  *)
(* as long as the worker has no more rows than its cache has places.        *)
THEOREM SessionsCorrect == TrainingSpec => []StickySession
<1>1. LoopInv => StickySession
  <2> SUFFICES ASSUME LoopInv, NEW i \in Row, Cardinality(Range(conv[i].servers)) > 1,
                      ~(Cardinality({k \in Row : WorkerOf(k) = WorkerOf(i)}) > CacheSize)
               PROVE  FALSE
    BY DEF StickySession
  <2> DEFINE w == WorkerOf(i)
             S == Range(conv[i].servers)
  <2>1. w \in 1 .. setup.workers
    BY WorkerFacts DEF LoopInv
  <2>2. Cardinality(RowsOf(w)) <= CacheSize
    <3>1. Row = 1 .. Len(rows) /\ Len(rows) \in Nat /\ RowsOf(w) \subseteq Row
      BY SetupFacts DEF LoopInv, RowsOf
    <3>2. IsFiniteSet(RowsOf(w))
      <4>1. IsFiniteSet(Row)
        BY <3>1, FS_Interval
      <4> QED
        BY <3>1, <4>1, FS_Subset
    <3>3. Cardinality(RowsOf(w)) \in Nat /\ CacheSize \in Nat
      BY <3>2, FS_CardinalityType, AgentLoopAssumption
    <3> QED
      BY <3>3 DEF RowsOf
  <2>3. Remembered(i) /\ CacheMatches(w)
    BY <2>1, <2>2 DEF LoopInv, SessionsMatch
  <2>4. ASSUME NEW a \in DOMAIN conv[i].servers, NEW b \in DOMAIN conv[i].servers
        PROVE  conv[i].servers[a] = conv[i].servers[b]
    <3>1. PICK k \in DOMAIN sessions[w] :
            sessions[w][k] = [row |-> i, server |-> conv[i].servers[a]]
      BY <2>3 DEF Remembered
    <3>2. PICK l \in DOMAIN sessions[w] :
            sessions[w][l] = [row |-> i, server |-> conv[i].servers[b]]
      BY <2>3 DEF Remembered
    <3>3. k = l
      BY <2>3, <3>1, <3>2 DEF CacheMatches
    <3> QED
      BY <3>1, <3>2, <3>3
  <2>5. \A x, y \in S : x = y
    BY <2>4 DEF Range
  <2>6. S = {} \/ \E x : S = {x}
    <3> HIDE DEF S
    <3>1. ASSUME NEW x \in S PROVE S = {x}
      BY <2>5
    <3> QED
      BY <3>1
  <2>7. Cardinality(S) = 0 \/ Cardinality(S) = 1
    <3> HIDE DEF S
    <3>1. CASE S = {}
      BY <3>1, FS_EmptySet
    <3>2. CASE \E x : S = {x}
      BY <3>2, FS_Singleton
    <3> QED
      BY <2>6, <3>1, <3>2
  <2> QED
    BY <2>7
<1> QED
  BY <1>1, LoopInvAlways, PTL

-----------------------------------------------------------------------------
(* Powers, which the definition of the advantages is made of.              *)

(* The powers up to b ^ k, as the recursion has them. *)
LEMMA PowersOf ==
  ASSUME NEW b \in Int, NEW k \in Nat
  PROVE  \E p \in [0 .. k -> Int] :
           p[0] = 1 /\ (\A i \in 1 .. k : p[i] = b * p[i - 1]) /\ Power(b, k) = p[k]
<1> DEFINE Op == [i \in 1 .. k |-> [x \in Int |-> b * x]]
           Is(f) == f = [i \in 0 .. k |-> IF i = 0 THEN 1 ELSE b * f[i - 1]]
           p == CHOOSE f : Is(f)
<1>1. Op \in [1 .. k -> [Int -> Int]] /\ \A i \in 1 .. k, y \in Int : Op[i][y] = b * y
  OBVIOUS
<1> HIDE DEF Op
<1>2. PICK f \in [0 .. k -> Int] : f[0] = 1 /\ \A i \in 1 .. k : f[i] = Op[i][f[i - 1]]
  <2>1. Computed(k, Int, 1, Op)
    <3>1. 1 \in Int /\ Op \in [1 .. k -> [Int -> Int]]
      BY <1>1
    <3> QED
      BY <3>1, Recursion
  <2> QED
    BY <2>1 DEF Computed
<1>3. ASSUME NEW i \in 1 .. k PROVE f[i] = b * f[i - 1]
  <2>1. f[i - 1] \in Int
    BY <1>2
  <2> QED
    BY <1>1, <1>2, <2>1
<1>4. Is(f)
  BY <1>2, <1>3
<1>5. Is(p)
  <2> HIDE DEF Is
  <2> QED
    BY <1>4
<1>6. Power(b, k) = p[k]
  BY DEF Power
<1> HIDE DEF p
<1>7. p[0] = 1 /\ \A i \in 1 .. k : p[i] = b * p[i - 1]
  BY <1>5
<1>8. \A i \in 0 .. k : p[i] \in Int
  <2>1. p[0] \in Int /\ \A i \in 1 .. k : p[i - 1] \in Int => p[i] \in Int
    BY <1>7
  <2> QED
    BY <2>1, ValuesIn
<1>9. p \in [0 .. k -> Int]
  <2>1. p = [i \in 0 .. k |-> p[i]]
    BY <1>5
  <2> HIDE DEF Is
  <2> QED
    BY <1>8, <2>1
<1> QED
  BY <1>6, <1>7, <1>9

(* A power is an integer, b times the one before. *)
LEMMA PowerFacts ==
  ASSUME NEW b \in Int
  PROVE  /\ Power(b, 0) = 1
         /\ \A k \in Nat : Power(b, k) \in Int /\ Power(b, k + 1) = b * Power(b, k)
<1>1. Power(b, 0) = 1
  BY PowersOf
<1>2. ASSUME NEW k \in Nat
      PROVE  Power(b, k) \in Int /\ Power(b, k + 1) = b * Power(b, k)
  <2>1. PICK p \in [0 .. k -> Int] :
          p[0] = 1 /\ (\A i \in 1 .. k : p[i] = b * p[i - 1]) /\ Power(b, k) = p[k]
    BY PowersOf
  <2>2. PICK q \in [0 .. k + 1 -> Int] :
          q[0] = 1 /\ (\A i \in 1 .. k + 1 : q[i] = b * q[i - 1]) /\ Power(b, k + 1) = q[k + 1]
    <3>1. k + 1 \in Nat
      OBVIOUS
    <3> QED
      BY <3>1, PowersOf
  <2> DEFINE G == {i \in 0 .. k : p[i] = q[i]}
  <2>3. 0 \in G
    BY <2>1, <2>2
  <2>4. ASSUME NEW i \in 0 .. k - 1, i \in G PROVE i + 1 \in G
    <3>1. i + 1 \in 1 .. k /\ i + 1 \in 1 .. k + 1 /\ (i + 1) - 1 = i /\ i + 1 \in 0 .. k
      OBVIOUS
    <3>2. p[i + 1] = b * p[i] /\ q[i + 1] = b * q[i]
      BY <2>1, <2>2, <3>1
    <3> QED
      BY <2>4, <3>1, <3>2
  <2> HIDE DEF G
  <2>5. 0 .. k \subseteq G
    BY <2>3, <2>4, Induction
  <2>6. p[k] = q[k]
    BY <2>5 DEF G
  <2>7. k + 1 \in 1 .. k + 1 /\ (k + 1) - 1 = k
    OBVIOUS
  <2>8. q[k + 1] = b * q[k]
    BY <2>2, <2>7
  <2> QED
    BY <2>1, <2>2, <2>6, <2>8
<1> QED
  BY <1>1, <1>2

-----------------------------------------------------------------------------
(* The advantages.                                                         *)

(* The definition as a recursion: a temporal difference and the discounted
   advantage of the next position. *)
LEMMA GaeByDefinition ==
  ASSUME NEW n \in Nat, NEW r, NEW v, Len(r) = n, Len(v) = n,
         \A u \in 1 .. n : r[u] \in Int /\ v[u] \in Int
  PROVE  /\ GaeDefinition(r, v, n + 1) = 0
         /\ \A t \in 1 .. n + 1 : GaeDefinition(r, v, t) \in Int
         /\ \A t \in 1 .. n :
              GaeDefinition(r, v, t) = TemporalDifference(r, v, t)
                                         + Gamma * Lambda * GaeDefinition(r, v, t + 1)
<1> DEFINE c == Gamma * Lambda
           D(u) == TemporalDifference(r, v, u)
           F(t) == [i \in 1 .. n - t + 1 |-> Power(c, i - 1) * D(t + i - 1)]
           A(t) == GaeDefinition(r, v, t)
<1>1. c \in Int
  BY AdvantageAssumption
<1>2. \A t : A(t) = SumOf(F(t), n - t + 1)
  BY DEF GaeDefinition
<1>3. ASSUME NEW u \in 1 .. n PROVE D(u) \in Int
  <2> DEFINE next == IF u < n THEN v[u + 1] ELSE 0
  <2>1. next \in Int
    <3>1. CASE u < n
      <4>1. u + 1 \in 1 .. n
        BY <3>1
      <4> QED
        BY <4>1
    <3> QED
      BY <3>1
  <2>2. D(u) = r[u] + Gamma * next - v[u]
    BY DEF TemporalDifference
  <2> HIDE DEF next
  <2>3. Gamma * next \in Int
    BY <2>1, AdvantageAssumption
  <2> QED
    BY <2>2, <2>3
<1> HIDE DEF D, c, A
<1>4. /\ Power(c, 0) = 1
      /\ \A k \in Nat : Power(c, k) \in Int /\ Power(c, k + 1) = c * Power(c, k)
  BY <1>1, PowerFacts
<1>5. ASSUME NEW t \in 1 .. n + 1, NEW i \in 1 .. n - t + 1
      PROVE  F(t)[i] = Power(c, i - 1) * D(t + i - 1) /\ F(t)[i] \in Int
  <2>1. i - 1 \in Nat /\ t + i - 1 \in 1 .. n
    OBVIOUS
  <2>2. Power(c, i - 1) \in Int /\ D(t + i - 1) \in Int
    BY <1>3, <1>4, <2>1
  <2>3. F(t)[i] = Power(c, i - 1) * D(t + i - 1)
    OBVIOUS
  <2> HIDE DEF F
  <2> QED
    BY <2>2, <2>3
<1> HIDE DEF F
<1>6. ASSUME NEW t \in 1 .. n + 1
      PROVE  /\ n - t + 1 \in Nat
             /\ SumOf(F(t), 0) = 0 /\ \A k \in 0 .. n - t + 1 : SumOf(F(t), k) \in Int
             /\ \A k \in 1 .. n - t + 1 : SumOf(F(t), k) = SumOf(F(t), k - 1) + F(t)[k]
  <2> DEFINE m == n - t + 1
             f == F(t)
  <2>1. m \in Nat /\ \A i \in 1 .. m : f[i] \in Int
    BY <1>5
  <2>2. /\ SumOf(f, 0) = 0 /\ \A k \in 0 .. m : SumOf(f, k) \in Int
        /\ \A k \in 1 .. m : SumOf(f, k) = SumOf(f, k - 1) + f[k]
    <3> HIDE DEF m, f
    <3> QED
      BY <2>1, SumFacts
  <2> QED
    BY <2>1, <2>2
<1>7. ASSUME NEW t \in 1 .. n + 1 PROVE A(t) \in Int
  BY <1>2, <1>6
<1>8. A(n + 1) = 0
  <2>1. n + 1 \in 1 .. n + 1 /\ n - (n + 1) + 1 = 0
    OBVIOUS
  <2>2. A(n + 1) = SumOf(F(n + 1), 0)
    BY <1>2, <2>1
  <2> QED
    BY <1>6, <2>1, <2>2
<1>9. ASSUME NEW t \in 1 .. n PROVE A(t) = D(t) + c * A(t + 1)
  <2> DEFINE m == n - t
             S(k) == SumOf(F(t), k)
             T(k) == SumOf(F(t + 1), k)
  <2>1. m \in Nat /\ t \in 1 .. n + 1 /\ t + 1 \in 1 .. n + 1 /\ n - t + 1 = m + 1
        /\ n - (t + 1) + 1 = m
    OBVIOUS
  <2>2. /\ S(0) = 0
        /\ \A k \in 1 .. m + 1 : S(k) = S(k - 1) + Power(c, k - 1) * D(t + k - 1)
    BY <1>5, <1>6, <2>1
  <2>3. /\ T(0) = 0 /\ \A k \in 0 .. m : T(k) \in Int
        /\ \A k \in 1 .. m : T(k) = T(k - 1) + Power(c, k - 1) * D(t + 1 + k - 1)
    BY <1>5, <1>6, <2>1
  <2>4. A(t) = S(m + 1) /\ A(t + 1) = T(m)
    BY <1>2, <2>1
  <2>5. D(t) \in Int /\ \A k \in 1 .. m : D(t + k) \in Int /\ t + 1 + k - 1 = t + k
    BY <1>3, <2>1
  <2> HIDE DEF S, T
  <2> DEFINE G == {k \in 0 .. m : S(k + 1) = D(t) + c * T(k)}
  <2>6. 0 \in G
    <3>1. 1 \in 1 .. m + 1 /\ 1 - 1 = 0 /\ t + 1 - 1 = t
      BY <2>1
    <3>2. S(1) = S(0) + Power(c, 0) * D(t)
      BY <2>2, <3>1
    <3>3. S(1) = D(t)
      BY <1>4, <2>2, <2>5, <3>2
    <3>4. c * T(0) = 0
      BY <1>1, <2>3
    <3> QED
      BY <2>1, <2>5, <3>3, <3>4
  <2>7. ASSUME NEW k \in 0 .. m - 1, k \in G PROVE k + 1 \in G
    <3> DEFINE d == D(t + (k + 1))
               q == Power(c, k)
               x == T(k)
    <3>1. /\ k + 1 \in 1 .. m /\ k + 1 \in 0 .. m /\ (k + 1) + 1 \in 1 .. m + 1
          /\ (k + 1) - 1 = k /\ ((k + 1) + 1) - 1 = k + 1
          /\ t + ((k + 1) + 1) - 1 = t + (k + 1) /\ t + 1 + (k + 1) - 1 = t + (k + 1)
          /\ k \in Nat
      BY <2>1
    <3>2. S((k + 1) + 1) = S(k + 1) + Power(c, k + 1) * d
      BY <2>2, <3>1
    <3>3. T(k + 1) = x + q * d
      BY <2>3, <3>1
    <3>4. Power(c, k + 1) = c * q /\ q \in Int
      BY <1>4, <3>1
    <3>5. d \in Int /\ x \in Int
      <4>1. \A j \in 1 .. m : D(t + j) \in Int
        BY <2>5
      <4>2. D(t + (k + 1)) \in Int
        BY <3>1, <4>1
      <4>3. k \in 0 .. m
        BY <2>1
      <4> QED
        BY <2>3, <4>2, <4>3
    <3>6. S(k + 1) = D(t) + c * x
      BY <2>7
    <3> HIDE DEF d, q, x
    <3>7. (c * q) * d = c * (q * d) /\ c * (x + q * d) = c * x + c * (q * d)
      BY <1>1, <3>4, <3>5
    <3>8. c * x \in Int /\ q * d \in Int /\ c * (q * d) \in Int
      BY <1>1, <3>4, <3>5
    <3>9. S((k + 1) + 1) = D(t) + c * T(k + 1)
      <4> DEFINE y == c * x  z == c * (q * d)
      <4>1. S((k + 1) + 1) = (D(t) + y) + z
        BY <3>2, <3>4, <3>6, <3>7
      <4>2. c * T(k + 1) = y + z
        BY <3>3, <3>7
      <4>3. y \in Int /\ z \in Int
        BY <3>8
      <4> HIDE DEF y, z
      <4> QED
        BY <2>5, <4>1, <4>2, <4>3
    <3> QED
      BY <3>1, <3>9
  <2> HIDE DEF G
  <2>8. 0 .. m \subseteq G
    BY <2>1, <2>6, <2>7, Induction
  <2>9. m \in G
    BY <2>1, <2>8
  <2> QED
    BY <2>4, <2>9 DEF G
<1> QED
  BY <1>7, <1>8, <1>9 DEF A, D, c

(* A pass of compute_gae_advantage_return: acc is what it has after i
   positions. *)
IsGaePass(r, v, m, acc) ==
  /\ acc[0] = [nextvalues |-> 0, lastgaelam |-> 0]
  /\ \A i \in 1 .. Len(r) : acc[i] = GaeStep(r, v, m, Len(r) + 1 - i, acc[i - 1])

GaeInput(n, r, v, m) ==
  Len(r) = n /\ \A t \in 1 .. n : r[t] \in Int /\ v[t] \in Int /\ m[t] \in Int

(* Gae is read off such a pass. *)
LEMMA GaePass ==
  ASSUME NEW n \in Nat, NEW r, NEW v, NEW m, GaeInput(n, r, v, m)
  PROVE  \E acc : /\ IsGaePass(r, v, m, acc)
                  /\ Gae(r, v, m) = [t \in 1 .. n |-> acc[n + 1 - t].lastgaelam]
<1> DEFINE Pair == [nextvalues : Int, lastgaelam : Int]
           Op == [i \in 1 .. n |-> [x \in Pair |-> GaeStep(r, v, m, n + 1 - i, x)]]
           base == [nextvalues |-> 0, lastgaelam |-> 0]
           Is(f) == f = [i \in 0 .. n |-> IF i = 0 THEN base
                                          ELSE GaeStep(r, v, m, n + 1 - i, f[i - 1])]
           acc == CHOOSE f : Is(f)
<1>0. Len(r) = n /\ \A t \in 1 .. n : r[t] \in Int /\ v[t] \in Int /\ m[t] \in Int
  BY DEF GaeInput
<1>1. ASSUME NEW i \in 1 .. n, NEW x \in Pair PROVE GaeStep(r, v, m, n + 1 - i, x) \in Pair
  <2> DEFINE t == n + 1 - i
  <2>1. t \in 1 .. n
    OBVIOUS
  <2>2. r[t] \in Int /\ v[t] \in Int /\ m[t] \in Int
    BY <1>0, <2>1
  <2>3. x.nextvalues \in Int /\ x.lastgaelam \in Int /\ Gamma \in Int /\ Lambda \in Int
    BY AdvantageAssumption
  <2> HIDE DEF t
  <2> DEFINE a == r[t] + Gamma * x.nextvalues - v[t]
             b == a + Gamma * Lambda * x.lastgaelam
  <2>4. a \in Int
    BY <2>2, <2>3
  <2>5. b \in Int
    <3> HIDE DEF a
    <3> QED
      BY <2>3, <2>4
  <2>6. /\ v[t] * m[t] + (1 - m[t]) * x.nextvalues \in Int
        /\ b * m[t] + (1 - m[t]) * x.lastgaelam \in Int
    <3> HIDE DEF b
    <3> QED
      BY <2>2, <2>3, <2>5
  <2> QED
    BY <2>6 DEF GaeStep, t
<1>2. base \in Pair
  OBVIOUS
<1>3. /\ Op \in [1 .. n -> [Pair -> Pair]]
      /\ \A i \in 1 .. n, x \in Pair : Op[i][x] = GaeStep(r, v, m, n + 1 - i, x)
  <2> HIDE DEF Pair
  <2> QED
    BY <1>1
<1> HIDE DEF Op, Pair, base
<1>4. PICK f \in [0 .. n -> Pair] : f[0] = base /\ \A i \in 1 .. n : f[i] = Op[i][f[i - 1]]
  <2>1. Op \in [1 .. n -> [Pair -> Pair]]
    BY <1>3
  <2>2. Computed(n, Pair, base, Op)
    BY <1>2, <2>1, Recursion
  <2> QED
    BY <2>2 DEF Computed
<1>5. ASSUME NEW i \in 1 .. n PROVE f[i] = GaeStep(r, v, m, n + 1 - i, f[i - 1])
  <2>1. f[i - 1] \in Pair
    BY <1>4
  <2> QED
    BY <1>3, <1>4, <2>1
<1>6. Is(f)
  BY <1>4, <1>5
<1>7. Is(acc)
  <2> HIDE DEF Is
  <2> QED
    BY <1>6
<1>8. Gae(r, v, m) = [t \in 1 .. n |-> acc[n + 1 - t].lastgaelam]
  BY <1>0 DEF Gae, base
<1> HIDE DEF acc
<1>9. IsGaePass(r, v, m, acc)
  <2>1. acc[0] = base
    BY <1>7
  <2>2. ASSUME NEW i \in 1 .. n PROVE acc[i] = GaeStep(r, v, m, n + 1 - i, acc[i - 1])
    <3>1. i \in 0 .. n /\ i # 0
      OBVIOUS
    <3> QED
      BY <1>7, <3>1
  <2> QED
    BY <1>0, <2>1, <2>2 DEF IsGaePass, base
<1> QED
  BY <1>8, <1>9

(* The generated positions, and how many there are up to each position. *)
Counts(mask, c) ==
  LET G == GeneratedAt(mask)
  IN  /\ c \in [0 .. Len(mask) -> Nat] /\ c[0] = 0 /\ c[Len(mask)] = Len(G)
      /\ \A t \in 1 .. Len(mask) :
           /\ mask[t] = 1 => c[t] = c[t - 1] + 1 /\ c[t] \in 1 .. Len(G) /\ G[c[t]] = t
           /\ mask[t] # 1 => c[t] = c[t - 1]
      /\ \A k \in 1 .. Len(G) : G[k] \in 1 .. Len(mask) /\ mask[G[k]] = 1 /\ c[G[k]] = k
(* The positions that are generated are counted so. *)
LEMMA GeneratedCounts ==
  ASSUME NEW n \in Nat, NEW mask, Len(mask) = n
  PROVE  GeneratedAt(mask) \in Seq(1 .. n) /\ \E c : Counts(mask, c)
<1> DEFINE S == Seq(1 .. n)
           Op == [t \in 1 .. n |-> [s \in S |-> IF mask[t] = 1 THEN Append(s, t) ELSE s]]
           Is(f) == f = [t \in 0 .. n |->
                           IF t = 0 THEN <<>>
                           ELSE IF mask[t] = 1 THEN Append(f[t - 1], t) ELSE f[t - 1]]
           u == CHOOSE f : Is(f)
           G == GeneratedAt(mask)
           c == [t \in 0 .. n |-> Len(u[t])]
<1>1. ASSUME NEW t \in 1 .. n, NEW s \in S
      PROVE  /\ Append(s, t) \in S /\ Len(Append(s, t)) = Len(s) + 1 /\ Len(s) \in Nat
             /\ Append(s, t)[Len(s) + 1] = t
             /\ \A k \in 1 .. Len(s) : Append(s, t)[k] = s[k]
  OBVIOUS
<1>2. <<>> \in S /\ Len(<<>>) = 0
  OBVIOUS
<1>3. /\ Op \in [1 .. n -> [S -> S]]
      /\ \A t \in 1 .. n, s \in S : Op[t][s] = IF mask[t] = 1 THEN Append(s, t) ELSE s
  <2> HIDE DEF S
  <2> QED
    BY <1>1
<1>4. \A s \in S : Len(s) \in Nat
  OBVIOUS
<1> HIDE DEF Op, S
<1>5. PICK f \in [0 .. n -> S] : f[0] = <<>> /\ \A t \in 1 .. n : f[t] = Op[t][f[t - 1]]
  <2>1. Op \in [1 .. n -> [S -> S]]
    BY <1>3
  <2>2. Computed(n, S, <<>>, Op)
    BY <1>2, <2>1, Recursion
  <2> QED
    BY <2>2 DEF Computed
<1>6. ASSUME NEW t \in 1 .. n
      PROVE  f[t] = IF mask[t] = 1 THEN Append(f[t - 1], t) ELSE f[t - 1]
  <2>1. f[t - 1] \in S
    BY <1>5
  <2> QED
    BY <1>3, <1>5, <2>1
<1>7. Is(f)
  <2>1. \A t \in 0 .. n :
          f[t] = IF t = 0 THEN <<>>
                 ELSE IF mask[t] = 1 THEN Append(f[t - 1], t) ELSE f[t - 1]
    <3>1. ASSUME NEW t \in 0 .. n, t # 0 PROVE t \in 1 .. n
      BY <3>1
    <3> QED
      BY <1>5, <1>6, <3>1
  <2>2. f = [t \in 0 .. n |-> f[t]]
    BY <1>5
  <2> QED
    BY <2>1, <2>2
<1>8. Is(u)
  <2> HIDE DEF Is
  <2> QED
    BY <1>7
<1>9. G = u[n]
  BY DEF GeneratedAt
<1> HIDE DEF u
<1>10. /\ u[0] = <<>>
       /\ \A t \in 1 .. n : u[t] = IF mask[t] = 1 THEN Append(u[t - 1], t) ELSE u[t - 1]
  <2>1. ASSUME NEW t \in 1 .. n
        PROVE  u[t] = IF mask[t] = 1 THEN Append(u[t - 1], t) ELSE u[t - 1]
    <3>1. t \in 0 .. n /\ t # 0
      OBVIOUS
    <3> QED
      BY <1>8, <3>1
  <2>2. 0 \in 0 .. n
    OBVIOUS
  <2> QED
    BY <1>8, <2>1, <2>2
<1> HIDE DEF Is, G
<1>11. \A t \in 0 .. n : u[t] \in S
  <2>1. ASSUME NEW t \in 1 .. n, u[t - 1] \in S PROVE u[t] \in S
    BY <1>1, <1>10, <2>1
  <2>2. u[0] \in S
    BY <1>2, <1>10
  <2> QED
    BY <2>1, <2>2, ValuesIn
<1>12. ASSUME NEW t \in 1 .. n
       PROVE  /\ u[t - 1] \in S /\ u[t] \in S /\ Len(u[t - 1]) \in Nat /\ Len(u[t]) \in Nat
              /\ mask[t] = 1 => /\ Len(u[t]) = Len(u[t - 1]) + 1 /\ u[t][Len(u[t])] = t
                                /\ \A k \in 1 .. Len(u[t - 1]) : u[t][k] = u[t - 1][k]
              /\ mask[t] # 1 => u[t] = u[t - 1]
  <2>1. t - 1 \in 0 .. n /\ t \in 0 .. n
    OBVIOUS
  <2>2. u[t - 1] \in S /\ u[t] \in S
    BY <1>11, <2>1
  <2>3. Len(u[t - 1]) \in Nat /\ Len(u[t]) \in Nat
    BY <1>4, <2>2
  <2>4. ASSUME mask[t] = 1
        PROVE  /\ Len(u[t]) = Len(u[t - 1]) + 1 /\ u[t][Len(u[t])] = t
               /\ \A k \in 1 .. Len(u[t - 1]) : u[t][k] = u[t - 1][k]
    <3>1. u[t] = Append(u[t - 1], t)
      BY <1>10, <2>4
    <3> DEFINE w == u[t - 1]
    <3>2. /\ Len(Append(w, t)) = Len(w) + 1 /\ Append(w, t)[Len(w) + 1] = t
          /\ \A k \in 1 .. Len(w) : Append(w, t)[k] = w[k]
      BY <1>1, <2>2
    <3> QED
      BY <3>1, <3>2
  <2>5. mask[t] # 1 => u[t] = u[t - 1]
    BY <1>10
  <2> QED
    BY <2>2, <2>3, <2>4, <2>5
\* Nothing of a prefix changes later.
<1>13. ASSUME NEW t \in 0 .. n, NEW e \in t .. n
       PROVE  Len(u[t]) <= Len(u[e]) /\ \A k \in 1 .. Len(u[t]) : u[e][k] = u[t][k]
  <2> DEFINE Same(x) == Len(u[t]) <= Len(u[x]) /\ \A k \in 1 .. Len(u[t]) : u[x][k] = u[t][k]
             H == {x \in t .. n : Same(x)}
  <2>1. Len(u[t]) \in Nat
    BY <1>4, <1>11
  <2>2. t \in H
    BY <2>1
  <2>3. ASSUME NEW x \in t .. n - 1, x \in H PROVE x + 1 \in H
    <3>1. x + 1 \in 1 .. n /\ (x + 1) - 1 = x /\ x + 1 \in t .. n
      OBVIOUS
    <3>2. Same(x)
      BY <2>3
    <3>3. /\ Len(u[x]) \in Nat /\ Len(u[x + 1]) \in Nat
          /\ mask[x + 1] = 1 => /\ Len(u[x + 1]) = Len(u[x]) + 1
                                /\ \A k \in 1 .. Len(u[x]) : u[x + 1][k] = u[x][k]
          /\ mask[x + 1] # 1 => u[x + 1] = u[x]
      BY <1>12, <3>1
    <3>4. Same(x + 1)
      <4>1. CASE mask[x + 1] = 1
        <5>1. \A k \in 1 .. Len(u[t]) : k \in 1 .. Len(u[x]) /\ u[x][k] = u[t][k]
          BY <2>1, <3>2, <3>3
        <5>2. Len(u[t]) <= Len(u[x + 1])
          BY <2>1, <3>2, <3>3, <4>1
        <5> QED
          BY <3>3, <4>1, <5>1, <5>2
      <4>2. CASE mask[x + 1] # 1
        BY <3>2, <3>3, <4>2
      <4> QED
        BY <4>1, <4>2
    <3> QED
      BY <3>1, <3>4
  <2> HIDE DEF H
  <2>4. t .. n \subseteq H
    <3>1. t \in Nat
      OBVIOUS
    <3> QED
      BY <2>2, <2>3, <3>1, Induction
  <2> QED
    BY <2>4 DEF H
<1>14. G \in Seq(1 .. n) /\ G = u[n] /\ Len(G) \in Nat
  BY <1>4, <1>9, <1>11 DEF S
<1>15. ASSUME NEW t \in 1 .. n
       PROVE  /\ mask[t] = 1 => c[t] = c[t - 1] + 1 /\ c[t] \in 1 .. Len(G) /\ G[c[t]] = t
              /\ mask[t] # 1 => c[t] = c[t - 1]
  <2>1. t - 1 \in 0 .. n /\ t \in 0 .. n /\ n \in t .. n
    OBVIOUS
  <2>2. c[t] = Len(u[t]) /\ c[t - 1] = Len(u[t - 1])
    BY <2>1
  <2>3. Len(u[t]) <= Len(u[n]) /\ \A k \in 1 .. Len(u[t]) : u[n][k] = u[t][k]
    BY <1>13, <2>1
  <2> HIDE DEF c
  <2> DEFINE l == Len(u[t])
             l0 == Len(u[t - 1])
  <2>4. /\ l \in Nat /\ l0 \in Nat
        /\ mask[t] = 1 => l = l0 + 1 /\ u[t][l] = t
        /\ mask[t] # 1 => l = l0
    BY <1>12
  <2>5. ASSUME mask[t] = 1 PROVE l \in 1 .. Len(G) /\ G[l] = t
    <3> HIDE DEF l0
    <3>1. l >= 1 /\ l <= Len(u[n]) /\ l \in 1 .. l
      BY <2>3, <2>4, <2>5
    <3>2. u[n][l] = u[t][l]
      BY <2>3, <3>1
    <3> QED
      BY <1>14, <2>4, <2>5, <3>1, <3>2
  <2> HIDE DEF l, l0
  <2>6. c[t] = l /\ c[t - 1] = l0
    BY <2>2 DEF l, l0
  <2> QED
    BY <2>4, <2>5, <2>6
<1>16. c \in [0 .. n -> Nat] /\ c[0] = 0 /\ c[n] = Len(G)
  <2>1. \A t \in 0 .. n : Len(u[t]) \in Nat
    BY <1>4, <1>11
  <2> QED
    BY <1>2, <1>10, <1>14, <2>1
\* Every element was added at its position.
<1>17. ASSUME NEW t \in 0 .. n, NEW k \in 1 .. Len(u[t])
       PROVE  u[t][k] \in 1 .. n /\ mask[u[t][k]] = 1 /\ c[u[t][k]] = k
  <2> DEFINE Good(x) == \A j \in 1 .. Len(u[x]) :
                          u[x][j] \in 1 .. n /\ mask[u[x][j]] = 1 /\ c[u[x][j]] = j
             H == {x \in 0 .. n : Good(x)}
  <2>1. 0 \in H
    BY <1>2, <1>10
  <2>2. ASSUME NEW x \in 0 .. n - 1, x \in H PROVE x + 1 \in H
    <3>1. x + 1 \in 1 .. n /\ (x + 1) - 1 = x /\ x + 1 \in 0 .. n
      OBVIOUS
    <3>2. Good(x)
      BY <2>2
    <3>3. /\ Len(u[x]) \in Nat /\ Len(u[x + 1]) \in Nat
          /\ mask[x + 1] = 1 => /\ Len(u[x + 1]) = Len(u[x]) + 1
                                /\ u[x + 1][Len(u[x + 1])] = x + 1
                                /\ \A j \in 1 .. Len(u[x]) : u[x + 1][j] = u[x][j]
          /\ mask[x + 1] # 1 => u[x + 1] = u[x]
      BY <1>12, <3>1
    <3>4. c[x + 1] = Len(u[x + 1])
      BY <3>1
    <3> HIDE DEF c
    <3>5. ASSUME mask[x + 1] = 1, NEW j \in 1 .. Len(u[x + 1])
          PROVE  u[x + 1][j] \in 1 .. n /\ mask[u[x + 1][j]] = 1 /\ c[u[x + 1][j]] = j
      <4>1. CASE j \in 1 .. Len(u[x])
        BY <3>2, <3>3, <3>5, <4>1
      <4>2. CASE j = Len(u[x + 1])
        BY <3>1, <3>3, <3>4, <3>5, <4>2
      <4> QED
        BY <3>3, <3>5, <4>1, <4>2
    <3>6. Good(x + 1)
      BY <3>2, <3>3, <3>5
    <3> QED
      BY <3>1, <3>6
  <2> HIDE DEF H
  <2>3. 0 .. n \subseteq H
    BY <2>1, <2>2, Induction
  <2>4. Good(t)
    BY <2>3 DEF H
  <2> QED
    BY <2>4
<1>18. \A k \in 1 .. Len(G) : G[k] \in 1 .. n /\ mask[G[k]] = 1 /\ c[G[k]] = k
  <2>1. n \in 0 .. n
    OBVIOUS
  <2> QED
    BY <1>14, <1>17, <2>1
<1> HIDE DEF c
<1>19. Counts(mask, c)
  BY <1>15, <1>16, <1>18 DEF Counts, G
<1> QED
  BY <1>14, <1>19 DEF G

(* No more positions are generated than there are in the end. *)
LEMMA CountsBounded ==
  ASSUME NEW mask, NEW c, Counts(mask, c), Len(mask) \in Nat, NEW t \in 1 .. Len(mask)
  PROVE  c[t] <= Len(GeneratedAt(mask))
<1> DEFINE n == Len(mask)
           H == {x \in t .. n : c[t] <= c[x]}
<1>1. /\ n \in Nat /\ t \in 1 .. n /\ c[n] = Len(GeneratedAt(mask))
      /\ \A x \in 0 .. n : c[x] \in Nat
      /\ \A x \in 1 .. n : c[x] = c[x - 1] + 1 \/ c[x] = c[x - 1]
  BY DEF Counts
<1> HIDE DEF n
<1>2. t \in H
  BY <1>1
<1>3. ASSUME NEW x \in t .. n - 1, x \in H PROVE x + 1 \in H
  <2>1. x + 1 \in 1 .. n /\ (x + 1) - 1 = x /\ x + 1 \in t .. n /\ x \in 0 .. n /\ t \in 0 .. n
    BY <1>1
  <2>2. (c[x + 1] = c[x] + 1 \/ c[x + 1] = c[x]) /\ c[x] \in Nat /\ c[t] \in Nat /\ c[t] <= c[x]
    BY <1>1, <1>3, <2>1
  <2> QED
    BY <2>1, <2>2
<1> HIDE DEF H
<1>4. t .. n \subseteq H
  <2>1. t \in Nat
    BY <1>1
  <2> QED
    BY <1>1, <1>2, <1>3, <2>1, Induction
<1>5. n \in H
  BY <1>1, <1>4
<1> QED
  BY <1>1, <1>5 DEF H

(* The values of s at the generated positions. *)
OfGenerated(mask, s) == [k \in DOMAIN GeneratedAt(mask) |-> s[GeneratedAt(mask)[k]]]

(* compute_gae_advantage_return gives the generated tokens the advantages of
   the trajectory that has nothing else, whatever stands between them. *)
LEMMA GaeOfGenerated ==
  ASSUME NEW n \in Nat, NEW r, NEW v, NEW mask, Len(r) = n, Len(mask) = n,
         \A t \in 1 .. n : r[t] \in Int /\ v[t] \in Int /\ mask[t] \in {0, 1}
  PROVE  \A k \in DOMAIN GeneratedAt(mask) :
           OfGenerated(mask, Gae(r, v, mask))[k] =
             GaeDefinition(OfGenerated(mask, r), OfGenerated(mask, v), k)
<1> DEFINE G == GeneratedAt(mask)
           K == Len(G)
           R == OfGenerated(mask, r)
           V == OfGenerated(mask, v)
           A(k) == GaeDefinition(R, V, k)
           N(k) == IF k <= K THEN V[k] ELSE 0
<1>1. G \in Seq(1 .. n) /\ K \in Nat /\ DOMAIN G = 1 .. K
  BY GeneratedCounts
<1>2. PICK c : Counts(mask, c)
  BY GeneratedCounts
<1>3. /\ c[0] = 0 /\ c[n] = K
      /\ \A t \in 1 .. n : /\ mask[t] = 1 => c[t] = c[t - 1] + 1 /\ c[t] \in 1 .. K /\ G[c[t]] = t
                           /\ mask[t] # 1 => c[t] = c[t - 1]
      /\ \A k \in 1 .. K : G[k] \in 1 .. n /\ mask[G[k]] = 1 /\ c[G[k]] = k
  BY <1>2 DEF Counts
<1>4. \A t \in 0 .. n : c[t] \in Nat
  BY <1>2 DEF Counts
<1>5. PICK acc : /\ IsGaePass(r, v, mask, acc)
                 /\ Gae(r, v, mask) = [t \in 1 .. n |-> acc[n + 1 - t].lastgaelam]
  <2>1. GaeInput(n, r, v, mask)
    BY DEF GaeInput
  <2> QED
    BY <2>1, GaePass
<1> HIDE DEF G, K
<1>6. /\ R = [k \in 1 .. K |-> r[G[k]]] /\ V = [k \in 1 .. K |-> v[G[k]]]
      /\ Len(R) = K /\ Len(V) = K
  <2>1. R = [k \in 1 .. K |-> r[G[k]]] /\ V = [k \in 1 .. K |-> v[G[k]]]
    BY <1>1 DEF OfGenerated, G
  <2> HIDE DEF R, V
  <2> QED
    BY <1>1, <2>1
<1> HIDE DEF R, V
<1>7. \A k \in 1 .. K : R[k] = r[G[k]] /\ V[k] = v[G[k]] /\ R[k] \in Int /\ V[k] \in Int
  BY <1>3, <1>6
<1>8. /\ A(K + 1) = 0
      /\ \A k \in 1 .. K + 1 : A(k) \in Int
      /\ \A k \in 1 .. K : A(k) = TemporalDifference(R, V, k) + Gamma * Lambda * A(k + 1)
  <2> HIDE DEF A
  <2>1. \A k \in 1 .. K : R[k] \in Int /\ V[k] \in Int
    BY <1>7
  <2> QED
    BY <1>1, <1>6, <2>1, GaeByDefinition DEF A
<1>9. \A k \in 1 .. K : TemporalDifference(R, V, k) = R[k] + Gamma * N(k + 1) - V[k]
  <2>1. ASSUME NEW k \in 1 .. K
        PROVE  (IF k < Len(V) THEN V[k + 1] ELSE 0) = N(k + 1)
    BY <1>1, <1>6
  <2> QED
    BY <2>1 DEF TemporalDifference
<1>10. \A k \in 1 .. K + 1 : N(k) \in Int
  BY <1>1, <1>7
<1>11. N(K + 1) = 0 /\ \A k \in 1 .. K : N(k) = V[k]
  BY <1>1
<1> HIDE DEF A, N
<1> DEFINE H == {i \in 0 .. n : acc[i].lastgaelam = A(c[n - i] + 1)
                                /\ acc[i].nextvalues = N(c[n - i] + 1)}
<1>12. 0 \in H
  <2>1. acc[0].lastgaelam = 0 /\ acc[0].nextvalues = 0 /\ n - 0 = n
    BY <1>5 DEF IsGaePass
  <2> QED
    BY <1>3, <1>8, <1>11, <2>1
<1>13. ASSUME NEW i \in 0 .. n - 1, i \in H PROVE i + 1 \in H
  <2> DEFINE t == n - i
             k == c[t]
             a == A(k + 1)
             x == N(k + 1)
  <2>1. /\ t \in 1 .. n /\ i + 1 \in 1 .. n /\ (i + 1) - 1 = i /\ n - (i + 1) = t - 1
        /\ n + 1 - (i + 1) = t /\ t - 1 \in 0 .. n /\ t \in 0 .. n /\ i + 1 \in 0 .. n
    OBVIOUS
  <2>2. acc[i].lastgaelam = a /\ acc[i].nextvalues = x
    BY <1>13
  <2>3. k \in Nat /\ k <= K
    <3>1. CASE mask[t] = 1
      BY <1>1, <1>3, <2>1, <3>1
    <3>2. CASE mask[t] # 1
      <4>1. c[t] \in Nat /\ t \in 1 .. Len(mask) /\ Len(mask) \in Nat
        BY <1>4, <2>1
      <4> HIDE DEF t
      <4>2. c[t] <= Len(GeneratedAt(mask))
        BY <1>2, <4>1, CountsBounded
      <4> QED
        BY <4>1, <4>2 DEF K, G
    <3> QED
      BY <3>1, <3>2
  <2>4. a \in Int /\ x \in Int /\ r[t] \in Int /\ v[t] \in Int /\ Gamma \in Int /\ Lambda \in Int
    <3>1. k + 1 \in 1 .. K + 1
      BY <1>1, <2>3
    <3> QED
      BY <1>8, <1>10, <2>1, <3>1, AdvantageAssumption
  <2>5. acc[i + 1] = GaeStep(r, v, mask, t, acc[i])
    <3> HIDE DEF t
    <3> QED
      BY <1>5, <2>1 DEF IsGaePass
  <2> DEFINE d == r[t] + Gamma * x - v[t]
             l == d + Gamma * Lambda * a
  <2>6. /\ acc[i + 1].nextvalues = v[t] * mask[t] + (1 - mask[t]) * x
        /\ acc[i + 1].lastgaelam = l * mask[t] + (1 - mask[t]) * a
    <3> HIDE DEF a, x, t
    <3> QED
      BY <2>2, <2>5 DEF GaeStep
  <2>7. l \in Int
    <3>1. d \in Int
      <4> HIDE DEF x, t
      <4> QED
        BY <2>4
    <3>2. Gamma * Lambda * a \in Int
      <4> HIDE DEF a
      <4> QED
        BY <2>4
    <3> HIDE DEF d, a
    <3> QED
      BY <3>1, <3>2
  <2> HIDE DEF l, a, x, t
  <2>8. CASE mask[t] = 1
    <3>1. c[t - 1] + 1 = k /\ k \in 1 .. K /\ G[k] = t
      <4>1. c[t] = c[t - 1] + 1 /\ c[t] \in 1 .. K /\ G[c[t]] = t
        BY <1>3, <2>1, <2>8
      <4> QED
        BY <4>1
    <3>2. acc[i + 1].nextvalues = v[t] /\ acc[i + 1].lastgaelam = l
      BY <2>4, <2>6, <2>7, <2>8
    <3>3. V[k] = v[t] /\ R[k] = r[t]
      BY <1>7, <3>1
    <3>4. l = A(k)
      BY <1>8, <1>9, <3>1, <3>3 DEF l, a, x
    <3>5. v[t] = N(k)
      BY <1>11, <3>1, <3>3
    <3> HIDE DEF k
    <3> QED
      BY <2>1, <3>1, <3>2, <3>4, <3>5
  <2>9. CASE mask[t] # 1
    <3>1. mask[t] = 0 /\ c[t - 1] = k
      BY <1>3, <2>1, <2>9
    <3>2. acc[i + 1].nextvalues = x /\ acc[i + 1].lastgaelam = a
      BY <2>4, <2>6, <2>7, <3>1
    <3> QED
      BY <2>1, <3>1, <3>2 DEF a, x
  <2> QED
    BY <2>8, <2>9
<1> HIDE DEF H
<1>14. 0 .. n \subseteq H
  BY <1>12, <1>13, Induction
<1>15. ASSUME NEW k \in 1 .. K PROVE Gae(r, v, mask)[G[k]] = A(k)
  <2> DEFINE t == G[k]
             i == n + 1 - t
  <2>1. t \in 1 .. n /\ mask[t] = 1 /\ c[t] = k
    BY <1>3
  <2> HIDE DEF t
  <2>2. i \in 0 .. n /\ n - i = t - 1 /\ t - 1 \in 0 .. n
    BY <2>1
  <2>3. c[t - 1] + 1 = k
    <3>1. c[t] = c[t - 1] + 1
      BY <1>3, <2>1
    <3> QED
      BY <2>1, <3>1
  <2>4. acc[i].lastgaelam = A(c[n - i] + 1)
    <3> HIDE DEF i
    <3> QED
      BY <1>14, <2>2 DEF H
  <2>5. Gae(r, v, mask)[t] = acc[i].lastgaelam
    BY <1>5, <2>1
  <2> QED
    BY <2>2, <2>3, <2>4, <2>5 DEF t
<1>16. ASSUME NEW k \in 1 .. K PROVE OfGenerated(mask, Gae(r, v, mask))[k] = A(k)
  BY <1>1, <1>15 DEF OfGenerated, G
<1> QED
  BY <1>1, <1>16 DEF A, R, V, G

(* compute_reinforce_plus_plus_outcome_advantage with one reward of 1, at
   "place": a generated token before it gets the discounted reward unless
   something in between was not generated. *)
LEMMA ReturnsOfGenerated ==
  ASSUME NEW n \in Nat, NEW mask, \A u \in 1 .. n : mask[u] \in {0, 1},
         NEW place \in 1 .. n, NEW t \in 1 .. place, mask[t] = 1
  PROVE  ReinforceReturns(RewardsAt(n, place, 1), mask)[t] =
           IF \A u \in t .. place : mask[u] = 1 THEN Power(Gamma, place - t) ELSE 0
<1> DEFINE r == RewardsAt(n, place, 1)
           B == Nat
           Op == [i \in 1 .. n |-> [x \in B |-> (r[n + 1 - i] + Gamma * x) * mask[n + 1 - i]]]
           Is(f) == f = [i \in 0 .. n |->
                           IF i = 0 THEN 0
                           ELSE (r[n + 1 - i] + Gamma * f[i - 1]) * mask[n + 1 - i]]
           run == CHOOSE f : Is(f)
           Whole(u) == \A w \in u .. place : mask[w] = 1
           Return(u) == IF u <= place /\ Whole(u) THEN Power(Gamma, place - u) ELSE 0
<1>1. /\ Len(r) = n
      /\ \A u \in 1 .. n : r[u] = IF u = place THEN 1 ELSE 0
      /\ \A u \in 1 .. n : r[u] \in Nat /\ mask[u] \in Nat
  BY DEF RewardsAt
<1>2. Gamma \in Nat
  BY AdvantageAssumption
<1> HIDE DEF r
<1>3. ASSUME NEW i \in 1 .. n, NEW x \in B
      PROVE  (r[n + 1 - i] + Gamma * x) * mask[n + 1 - i] \in B
  <2> DEFINE u == n + 1 - i
             y == Gamma * x
             z == r[u] + y
  <2>1. u \in 1 .. n
    OBVIOUS
  <2>2. r[u] \in Nat /\ mask[u] \in Nat
    BY <1>1, <2>1
  <2>3. y \in Nat
    BY <1>2
  <2> HIDE DEF u, y
  <2>4. z \in Nat
    BY <2>2, <2>3
  <2> HIDE DEF z
  <2>5. z * mask[u] \in Nat
    BY <2>2, <2>4
  <2> QED
    BY <2>5 DEF u, y, z
<1>4. /\ Op \in [1 .. n -> [B -> B]]
      /\ \A i \in 1 .. n, x \in B : Op[i][x] = (r[n + 1 - i] + Gamma * x) * mask[n + 1 - i]
  <2> HIDE DEF B
  <2> QED
    BY <1>3
<1>5. 0 \in B
  OBVIOUS
<1> HIDE DEF Op, B
<1>6. PICK f \in [0 .. n -> B] : f[0] = 0 /\ \A i \in 1 .. n : f[i] = Op[i][f[i - 1]]
  <2>1. Op \in [1 .. n -> [B -> B]]
    BY <1>4
  <2>2. Computed(n, B, 0, Op)
    BY <1>5, <2>1, Recursion
  <2> QED
    BY <2>2 DEF Computed
<1>7. ASSUME NEW i \in 1 .. n
      PROVE  f[i] = (r[n + 1 - i] + Gamma * f[i - 1]) * mask[n + 1 - i]
  <2>1. f[i - 1] \in B
    BY <1>6
  <2> QED
    BY <1>4, <1>6, <2>1
<1>8. Is(f)
  BY <1>6, <1>7
<1>9. Is(run)
  <2> HIDE DEF Is
  <2> QED
    BY <1>8
<1>10. ReinforceReturns(r, mask) = [u \in 1 .. n |-> r[u] + Gamma * run[n - u]]
  BY <1>1 DEF ReinforceReturns
<1> HIDE DEF run
<1>11. /\ run[0] = 0
       /\ \A i \in 1 .. n : run[i] = (r[n + 1 - i] + Gamma * run[i - 1]) * mask[n + 1 - i]
  <2>1. ASSUME NEW i \in 1 .. n
        PROVE  run[i] = (r[n + 1 - i] + Gamma * run[i - 1]) * mask[n + 1 - i]
    <3>1. i \in 0 .. n /\ i # 0
      OBVIOUS
    <3> QED
      BY <1>9, <3>1
  <2>2. 0 \in 0 .. n
    OBVIOUS
  <2>3. run[0] = 0
    BY <1>9, <2>2
  <2> QED
    BY <2>1, <2>3
<1> HIDE DEF Is
\* One position more.
<1>12. ASSUME NEW u \in 1 .. n, mask[u] = 1
       PROVE  Return(u) = r[u] + Gamma * Return(u + 1) /\ Return(u + 1) \in Int
  <2>1. \A k \in Nat : Power(Gamma, k) \in Int /\ Power(Gamma, k + 1) = Gamma * Power(Gamma, k)
    <3>1. Gamma \in Int
      BY <1>2
    <3> QED
      BY <3>1, PowerFacts
  <2>2. Power(Gamma, 0) = 1
    BY <1>2, PowerFacts
  <2>3. CASE u > place
    <3>1. Return(u) = 0 /\ Return(u + 1) = 0 /\ r[u] = 0
      BY <1>1, <2>3
    <3> QED
      BY <1>2, <3>1
  <2>4. CASE u = place
    <3>1. Return(u + 1) = 0 /\ r[u] = 1 /\ place - u = 0
      BY <1>1, <2>4
    <3>2. Whole(u)
      BY <1>12, <2>4
    <3>3. Return(u) = 1
      BY <2>2, <2>4, <3>1, <3>2
    <3> QED
      BY <1>2, <3>1, <3>3
  <2>5. CASE u < place
    <3>1. r[u] = 0 /\ u + 1 <= place /\ u <= place
      BY <1>1, <2>5
    <3>2. Whole(u) <=> Whole(u + 1)
      <4>1. \A w \in Int : w \in u .. place <=> w = u \/ w \in u + 1 .. place
        BY <2>5
      <4> QED
        BY <1>12, <4>1
    <3>3. place - (u + 1) \in Nat /\ place - u = (place - (u + 1)) + 1
      BY <2>5
    <3> DEFINE k == place - (u + 1)
    <3>4. Power(Gamma, k) \in Int /\ Power(Gamma, k + 1) = Gamma * Power(Gamma, k)
      BY <2>1, <3>3
    <3>5. CASE Whole(u)
      <4>1. Return(u) = Power(Gamma, k + 1) /\ Return(u + 1) = Power(Gamma, k)
        BY <3>1, <3>2, <3>3, <3>5
      <4> HIDE DEF Return, k
      <4> QED
        BY <1>2, <3>1, <3>4, <4>1
    <3>6. CASE ~Whole(u)
      <4>1. Return(u) = 0 /\ Return(u + 1) = 0
        BY <3>2, <3>6
      <4> HIDE DEF Return
      <4> QED
        BY <1>2, <3>1, <4>1
    <3> QED
      BY <3>5, <3>6
  <2> QED
    BY <2>3, <2>4, <2>5
\* A reset happens where nothing was generated, and it ends the trajectory.
<1> DEFINE H == {i \in 0 .. n : run[i] = Return(n + 1 - i)}
<1>13. 0 \in H
  <2>1. Return(n + 1 - 0) = 0
    OBVIOUS
  <2> QED
    BY <1>11, <2>1
<1>14. ASSUME NEW i \in 0 .. n - 1, i \in H PROVE i + 1 \in H
  <2> DEFINE u == n - i
  <2>1. /\ u \in 1 .. n /\ i + 1 \in 1 .. n /\ i + 1 \in 0 .. n /\ (i + 1) - 1 = i
        /\ n + 1 - (i + 1) = u /\ n + 1 - i = u + 1
    OBVIOUS
  <2>2. run[i] = Return(u + 1)
    BY <1>14, <2>1
  <2>3. run[i + 1] = (r[u] + Gamma * run[i]) * mask[u]
    BY <1>11, <2>1
  <2>4. mask[u] \in {0, 1} /\ r[u] \in Int
    BY <1>1, <2>1
  <2>5. Return(u + 1) \in Int
    <3>1. \A k \in Nat : Power(Gamma, k) \in Int
      BY <1>2, PowerFacts
    <3> QED
      BY <2>1, <3>1
  <2>6. run[i + 1] = Return(u)
    <3>1. CASE mask[u] = 1
      <4>1. Return(u) = r[u] + Gamma * Return(u + 1)
        BY <1>12, <2>1, <3>1
      <4> HIDE DEF Return, u
      <4>2. Gamma * Return(u + 1) \in Int
        BY <1>2, <2>5
      <4> QED
        BY <2>2, <2>3, <2>4, <3>1, <4>1, <4>2
    <3>2. CASE mask[u] = 0
      <4>1. Return(u) = 0
        <5>1. u <= place => ~Whole(u)
          <6>1. u <= place => u \in u .. place
            BY <2>1
          <6> QED
            BY <3>2, <6>1
        <5> QED
          BY <5>1
      <4> HIDE DEF Return, u
      <4>2. Gamma * Return(u + 1) \in Int
        BY <1>2, <2>5
      <4> QED
        BY <2>2, <2>3, <2>4, <3>2, <4>1, <4>2
    <3> QED
      BY <2>4, <3>1, <3>2
  <2> QED
    BY <2>1, <2>6
<1> HIDE DEF H
<1>15. 0 .. n \subseteq H
  BY <1>13, <1>14, Induction
<1>16. ReinforceReturns(r, mask)[t] = Return(t)
  <2>1. t \in 1 .. n /\ n - t \in 0 .. n /\ n + 1 - (n - t) = t + 1
    OBVIOUS
  <2>2. run[n - t] = Return(t + 1)
    BY <1>15, <2>1 DEF H
  <2>3. Return(t) = r[t] + Gamma * Return(t + 1)
    BY <1>12, <2>1
  <2> HIDE DEF Return
  <2> QED
    BY <1>10, <2>1, <2>2, <2>3
<1>17. t <= place
  OBVIOUS
<1> QED
  BY <1>16, <1>17 DEF r
(* Whatever a conversation looked like: the tokens that the model generated *)
(* have the advantages of GAE that its definition gives to a trajectory of  *)
(* just them, for every critic that values one position; and a return of    *)
(* REINFORCE++ where nothing but the model spoke from there to the score.   *)
THEOREM AdvantagesCorrect == TrainingSpec => []AdvantagesOfGenerated
<1>1. LoopInv => AdvantagesOfGenerated
  <2> SUFFICES ASSUME LoopInv, NEW i \in Row, conv[i].state = "terminated"
               PROVE  LET out == Output(conv[i])
                          mask == out.response_mask
                          rewards == RewardsAt(ResponseLength, out.score_at, 1)
                          generated == GeneratedAt(mask)
                          of(s) == [k \in DOMAIN generated |-> s[generated[k]]]
                          returns == ReinforceReturns(rewards, mask)
                      IN  /\ \A at \in 0 .. ResponseLength :
                               LET values == RewardsAt(ResponseLength, at, 1)
                               IN  \A k \in DOMAIN generated :
                                     of(Gae(rewards, values, mask))[k] =
                                       GaeDefinition(of(rewards), of(values), k)
                          /\ \A t \in Range(generated) :
                               returns[t] = IF \A u \in t .. out.score_at : mask[u] = 1
                                            THEN Power(Gamma, out.score_at - t) ELSE 0
    BY DEF AdvantagesOfGenerated
  <2> DEFINE out == Output(conv[i])
             n == ResponseLength
             mask == out.response_mask
             score_at == out.score_at
             G == GeneratedAt(mask)
             r == RewardsAt(n, score_at, 1)
  <2>1. /\ conv[i] \in Conversation /\ rows[i].prompt \in 0 .. PromptLength
        /\ TokensMatch(conv[i], rows[i].prompt) /\ LogprobsMatch(conv[i]) /\ conv[i].mask # <<>>
    BY RowFacts DEF LoopInv, LoopTypes, Conversing, TurnsMatch
  <2>2. /\ Len(mask) = n /\ score_at \in 1 .. n
        /\ \A j \in 1 .. n : mask[j] \in {0, 1} /\ (mask[j] = 1 => j <= score_at)
    BY <2>1, OutputExact DEF Bits
  <2>3. n \in Nat
    BY AgentLoopAssumption
  <2> HIDE DEF out, n
  <2>4. ASSUME NEW at
        PROVE  /\ Len(RewardsAt(n, at, 1)) = n
               /\ \A t \in 1 .. n : RewardsAt(n, at, 1)[t] \in Int
    BY <2>3 DEF RewardsAt
  <2>5. ASSUME NEW at \in 0 .. n, NEW k \in DOMAIN G
        PROVE  OfGenerated(mask, Gae(r, RewardsAt(n, at, 1), mask))[k] =
                 GaeDefinition(OfGenerated(mask, r), OfGenerated(mask, RewardsAt(n, at, 1)), k)
    <3> DEFINE v == RewardsAt(n, at, 1)
    <3>1. Len(r) = n /\ \A t \in 1 .. n : r[t] \in Int /\ v[t] \in Int
      BY <2>4
    <3> HIDE DEF r, v
    <3>2. \A l \in DOMAIN GeneratedAt(mask) :
            OfGenerated(mask, Gae(r, v, mask))[l] =
              GaeDefinition(OfGenerated(mask, r), OfGenerated(mask, v), l)
      BY <2>2, <2>3, <3>1, GaeOfGenerated
    <3> QED
      BY <3>2 DEF r, v
  <2>6. ASSUME NEW t \in Range(G)
        PROVE  ReinforceReturns(r, mask)[t] =
                 IF \A u \in t .. score_at : mask[u] = 1 THEN Power(Gamma, score_at - t) ELSE 0
    <3>1. t \in 1 .. n /\ mask[t] = 1
      <4>1. PICK c : Counts(mask, c)
        BY <2>2, <2>3, GeneratedCounts
      <4>2. DOMAIN G = 1 .. Len(G)
        BY <2>2, <2>3, GeneratedCounts
      <4>3. PICK k \in 1 .. Len(G) : t = G[k]
        BY <4>2 DEF Range
      <4> QED
        BY <2>2, <4>1, <4>3 DEF Counts
    <3>2. t \in 1 .. score_at
      BY <2>2, <2>3, <3>1
    <3>3. \A u \in 1 .. n : mask[u] \in {0, 1}
      BY <2>2
    <3> HIDE DEF mask, score_at
    <3> QED
      BY <2>2, <2>3, <3>1, <3>2, <3>3, ReturnsOfGenerated
  <2> QED
    BY <2>5, <2>6 DEF out, n, OfGenerated
<1> QED
  BY <1>1, LoopInvAlways, PTL

=============================================================================
