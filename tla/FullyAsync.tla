----------------------------- MODULE FullyAsync -----------------------------
(***************************************************************************)
(* The fully-async recipe: rollouter, message queue, trainer and parameter *)
(* synchronizer together, and what they promise each other.                *)
(***************************************************************************)
EXTENDS FullyAsyncTrainer

\* set_max_required_samples: max_queue_size = max_required_samples.
ASSUME QueueSizeAssumption == MaxQueueSize = MaxRequiredSamples

vars == <<rolloutVars, mqVars, trainVars>>

Init == MQInit /\ RolloutInit /\ TrainInit

Rollouter ==
    \/ Feed \/ Processor \/ Monitor
    \/ Pause \/ Update(syncVersion) \/ Resume
    \/ \E s \in Samples : Task(s)

\* fit of both actors has returned and no call is outstanding.
Ended ==
    /\ trainPc = "ended" /\ pc["proc"] = "ended" /\ pc["monitor"] = "ended"
    /\ UNCHANGED vars

Next ==
    \/ Rollouter /\ UNCHANGED trainVars
    \/ Trainer
    \/ Ended

\* The event loop runs every callback that is ready, first come first served,
\* generation ends, and the trainer and the synchronizer are processes.
Fairness ==
    /\ SF_vars(Feed /\ UNCHANGED trainVars)
    /\ SF_vars(Processor /\ UNCHANGED trainVars)
    /\ SF_vars(Monitor /\ UNCHANGED trainVars)
    /\ SF_vars((Pause \/ Update(syncVersion) \/ Resume) /\ UNCHANGED trainVars)
    /\ \A s \in Samples : SF_vars(Task(s) /\ UNCHANGED trainVars)
    /\ WF_vars(Trainer)

Spec == Init /\ [][Next]_vars /\ Fairness

\* The same with an event loop that is faster than everything around it: a
\* ready coroutine runs before the next call, timer or answer arrives.  Each
\* of its behaviours is one of Spec, and one the first come first served
\* ready queue of asyncio really has.
PromptNext == Next /\ (Busy => Internal(syncVersion))

PromptSpec == Init /\ [][PromptNext]_vars /\ Fairness

-----------------------------------------------------------------------------
InQueue == {queue[i] : i \in DOMAIN queue} \ {EndSignal}
Interrupted == {cancelQueue[i] : i \in DOMAIN cancelQueue}
InHand == {hand} \cap Samples
Underway == {s \in Live : task[s] # "put"}   \* not yet in the message queue
Taken == 1..taken \cap Samples
EndSeen == final \/ trainPc \in {"lastValid", "finalWait", "ended"}

\* The variables take the values they should; the message queue never exceeds
\* its size, nor the unreaped tasks the limit on concurrent samples.
TypeOK ==
    /\ queue \in Seq(Samples \cup {EndSignal}) /\ Len(queue) <= MaxQueueSize
    /\ task \in [Samples -> {"none", "start", "sent", "generating", "interrupted",
                             "putting", "put"}]
    /\ \A i \in 1..Len(lock) :
         /\ lock[i] \in {"proc", "monitor", "pause", "update", "resume"}
         /\ \A j \in 1..(i - 1) : lock[i] # lock[j]
    /\ hand \in 0..Done /\ taken <= fed /\ fed <= taken + PendingSize
    /\ ActiveTasks <= MaxConcurrentSamples

\* Interruption, resubmission and the drop of a full queue never duplicate a
\* sample and never lose one that is not accounted for: what the processor has
\* taken is in one place, until the trainer throws an incomplete batch away.
OnePlace ==
    /\ \A s \in Taken :
         \/ EndSeen
         \/ s \in InHand \cup Underway \cup Interrupted \cup InQueue
                  \cup batch \cup trained \cup dropped
    /\ Cardinality(InHand) + Cardinality(Underway) + Len(cancelQueue)
         + Cardinality(InQueue) + Cardinality(batch) + Cardinality(trained \cup dropped)
       = Cardinality(InHand \cup Underway \cup Interrupted \cup InQueue
                     \cup batch \cup trained \cup dropped)

\* Samples one version of the parameters consumes.
SamplesPerVersion == RequiredSamples * TriggerParameterSyncStep

\* A sample is trained at most 1 + ceil(1 + staleness_threshold) versions
\* after the one it was generated with: what a full queue holds ahead of it,
\* and the one version that wait_last_valid lets the rollouter be behind.
LagBound ==
    \A s \in batch :
      (trainVersion - version[s] - 2) * SamplesPerVersion < MaxRequiredSamples

\* The weights are broadcast into rollout servers that generate nothing: the
\* drain in pause, the lock and the recovery by the monitor (recipe README.md:228).
NoGenerationDuringSync == trainPc = "copy" => Underway = {}

\* The processor never runs into a done_tasks that was never assigned.
ProcessorSurvives == pc["proc"] = "finish" => hand = Done

\* Both actors return from fit: nobody waits for ever, whatever the order of
\* pauses, recoveries and synchronizations.
Terminates == <>(trainPc = "ended" /\ pc["proc"] = "ended" /\ pc["monitor"] = "ended")

\* ... and every sample is trained, but those too few for a last batch.
TrainsEverySample ==
    <>[](Cardinality(trained) = TotalRolloutSteps - (TotalRolloutSteps % RequiredSamples))

\* The rounds of the abstract specification: what was trained since the last
\* change of parameters, and what is spent.
UsedNow == {s \in trained : version[s] = paramVersion}
Generating == Underway \cup Interrupted
Ready == InQueue \cup batch

Pipeline == INSTANCE RolloutPipeline WITH
    AllSamples <- Samples,
    RoundSize <- SamplesPerVersion,
    BatchSize <- RequiredSamples,
    round <- paramVersion,
    generating <- Generating,
    ready <- Ready,
    used <- UsedNow,
    past <- (Taken \ (InHand \cup Generating \cup Ready)) \ UsedNow

\* With staleness_threshold = 0 the recipe is the on-policy pipeline: rounds
\* of exactly the samples the trainer needs, none of which crosses a change
\* of parameters.
ImplementsPipeline == Pipeline!PipelineSpec

=============================================================================
