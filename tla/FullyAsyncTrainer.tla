------------------------- MODULE FullyAsyncTrainer -------------------------
(***************************************************************************)
(* The trainer actor of the fully-async recipe and the parameter           *)
(* synchronizer it calls.  The trainer waits for each of its remote calls  *)
(* except update_param_version and resume, which sync_weights starts and   *)
(* only the next wait_last_valid waits for.                                *)
(***************************************************************************)
EXTENDS FullyAsyncRollouter

CONSTANTS
    RequiredSamples,           \* ppo_mini_batch_size * require_batches
    TriggerParameterSyncStep,
    TestFreq                   \* rollout.test_freq

ASSUME TrainerAssumption ==
    /\ RequiredSamples \in Nat \ {0}
    /\ TriggerParameterSyncStep \in Nat \ {0}
    /\ TestFreq \in Nat \ {0}

VARIABLES
    trainPc,
    batch,             \* queue_samples, as a set
    trained,           \* samples an update has used
    localTriggerStep,
    trainVersion,      \* the trainer's current_param_version
    syncVersion,       \* the synchronizer's current_version, which its calls carry
    final              \* the closing synchronization, with validate=True

trainVars == <<trainPc, batch, trained, localTriggerStep, trainVersion, syncVersion, final>>

TrainInit ==
    /\ trainPc = "collect" /\ batch = {} /\ trained = {}
    /\ localTriggerStep = 1 /\ trainVersion = 0 /\ syncVersion = 0 /\ final = FALSE

\* wait_last_valid: the last update_param_version and resume have returned.
LastValid == pc["update"] = "off" /\ pc["resume"] = "off"

\* _get_samples_from_queue, one get_sample per step; the end signal throws
\* away the samples collected so far.
CollectSample ==
    /\ trainPc = "collect"
    /\ GetSample
    /\ IF Head(queue) = EndSignal
       THEN batch' = {} /\ trainPc' = "lastValid"
       ELSE /\ batch' = batch \cup {Head(queue)}
            /\ trainPc' = IF Cardinality(batch') = RequiredSamples
                          THEN "train" ELSE "collect"
    /\ UNCHANGED <<trained, localTriggerStep, trainVersion, syncVersion, final, rolloutVars>>

\* The update of the model and _trigger_parameter_sync_after_step up to the
\* call of the synchronizer.
TrainStep ==
    /\ trainPc = "train"
    /\ trained' = trained \cup batch /\ batch' = {}
    /\ IF localTriggerStep < TriggerParameterSyncStep
       THEN /\ localTriggerStep' = localTriggerStep + 1
            /\ trainPc' = "collect"
            /\ UNCHANGED trainVersion
       ELSE /\ localTriggerStep' = 1
            /\ trainVersion' = trainVersion + 1
            /\ trainPc' = "waitValid"
    /\ UNCHANGED <<syncVersion, final, rolloutVars, mqVars>>

\* The end of fit: one more synchronization for what is not yet validated.
FinalSync ==
    /\ trainPc = "lastValid" /\ LastValid
    /\ IF trainVersion % TestFreq # 0 \/ localTriggerStep > 1
       THEN /\ trainVersion' = trainVersion + 1
            /\ localTriggerStep' = 1 /\ final' = TRUE
            /\ trainPc' = "waitValid"
       ELSE /\ trainPc' = "ended"
            /\ UNCHANGED <<trainVersion, localTriggerStep, final>>
    /\ UNCHANGED <<batch, trained, syncVersion, rolloutVars, mqVars>>

SyncFrame ==
    /\ UNCHANGED <<batch, trained, localTriggerStep, trainVersion, final, mqVars>>
    /\ UNCHANGED <<cpu, lock, procVars, taskVars, flagVars, countVars>>

\* sync_weights: take the version, pause the rollouter, ...
SyncPause ==
    /\ trainPc = "waitValid" /\ LastValid
    /\ syncVersion' = trainVersion
    /\ Goto("pause", "called")
    /\ trainPc' = "pause"
    /\ SyncFrame

\* ... once it has, broadcast the weights, ...
SyncStart ==
    /\ trainPc = "pause" /\ pc["pause"] = "off"
    /\ trainPc' = "copy"
    /\ UNCHANGED <<pc, syncVersion>> /\ SyncFrame

\* ... then tell the rollouter the version and to go on, without waiting.
SyncEnd ==
    /\ trainPc = "copy"
    /\ pc' = [pc EXCEPT !["update"] = "called", !["resume"] = "called"]
    /\ trainPc' = IF final THEN "finalWait" ELSE "collect"
    /\ UNCHANGED syncVersion /\ SyncFrame

TrainEnd ==
    /\ trainPc = "finalWait" /\ LastValid
    /\ trainPc' = "ended"
    /\ UNCHANGED <<batch, trained, localTriggerStep, trainVersion, syncVersion, final>>
    /\ UNCHANGED <<rolloutVars, mqVars>>

SyncWeights == SyncPause \/ SyncStart \/ SyncEnd
Trainer == CollectSample \/ TrainStep \/ FinalSync \/ SyncWeights \/ TrainEnd

=============================================================================
