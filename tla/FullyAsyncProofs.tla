-------------------------- MODULE FullyAsyncProofs --------------------------
(***************************************************************************)
(* What holds of the fully-async recipe for every size: the discipline of  *)
(* the rollouter's lock, the limits on its queues and its tasks, where the *)
(* samples are, how far the trainer's version is ahead of them, when the   *)
(* processor's done_tasks is assigned, and, with staleness_threshold = 0,  *)
(* that the recipe is a pipeline of rounds.                                *)
(***************************************************************************)
EXTENDS FullyAsync, FiniteSetTheorems, TLAPS

Coroutines == {"proc", "monitor", "pause", "update", "resume"}

\* Where a coroutine holds self.lock or waits for it.
InLock == {"mark", "reapLock", "reapWait", "idleLock", "submit", "stop", "topLock",
           "recover", "lock", "cancel", "gather", "clear", "size", "sized", "servers"}

Labels == InLock \cup {"top", "reap", "get", "idle", "notified", "finish", "ended",
                       "off", "called", "sleep"}

TaskStates == {"none", "start", "sent", "generating", "interrupted", "putting", "put"}

\* The queues hold what they should, and not more than they can.
Queued ==
    /\ queue \in Seq(Samples \cup {EndSignal}) /\ Len(queue) <= MaxQueueSize
    /\ cancelQueue \in Seq(Samples)

Fed ==
    /\ fed \in 0..Done /\ taken \in 0..Done /\ hand \in 0..Done
    /\ taken <= fed /\ fed <= taken + PendingSize

\* A coroutine is at most once in the queue of the lock, and only where its
\* code says so.
Locked ==
    /\ lock \in Seq(Coroutines)
    /\ pc \in [Coroutines -> Labels]
    /\ \A i \in 1..Len(lock) :
         /\ pc[lock[i]] \in InLock
         /\ \A j \in 1..(i - 1) : lock[i] # lock[j]

\* The processor holds a sample it has not submitted yet, and is past the
\* loop that waits for room.
Submits ==
    \/ pc["proc"] = "submit"
    \/ pc["proc"] \in {"idle", "notified"} /\ hand # NoSample

Tasks == task \in [Samples -> TaskStates] /\ finished \in Nat

Limited ==
    /\ ActiveTasks <= MaxConcurrentSamples
    /\ Submits => ActiveTasks < MaxConcurrentSamples

\* Where the processor goes to sleep for a pause without a sample in hand.
Handed ==
    /\ pc["proc"] \in {"top", "mark", "idleLock"} => hand = NoSample
    /\ pc["proc"] \in {"reap", "reapLock", "reapWait"} /\ loop = "drain" => hand = NoSample

\* The synchronizer calls a method of the rollouter only when the last call
\* of it has returned.
Called ==
    /\ trainPc # "pause" => pc["pause"] = "off"
    /\ trainPc \in {"pause", "copy"} => LastValid

\* The invariant of the lock, the queues and the tasks.
IInv == Queued /\ Fed /\ Locked /\ Tasks /\ Limited /\ Handed /\ Called

-----------------------------------------------------------------------------
\* What the assumptions say of the sizes.
LEMMA Sizes ==
    /\ Samples = 1..TotalRolloutSteps /\ TotalRolloutSteps \in Nat \ {0}
    /\ Done = TotalRolloutSteps + 1 /\ PendingSize \in Nat \ {0}
    /\ MaxConcurrentSamples \in Nat \ {0} /\ MaxQueueSize \in Nat \ {0}
    /\ EndSignal = 0 /\ NoSample = 0
BY RollouterAssumption, MaxQueueSizeAssumption DEF Samples, Done, EndSignal, NoSample

-----------------------------------------------------------------------------
(* The lock: what its three kinds of steps leave of Locked.                *)

\* A coroutine that is elsewhere joins the queue.
LEMMA LockedAcquire ==
    ASSUME Locked, NEW c \in Coroutines, NEW l \in InLock,
           pc[c] \notin InLock, Acquires(c, l)
    PROVE  Locked'
<1>1. /\ lock' = Append(lock, c) /\ pc' = [pc EXCEPT ![c] = l]
      /\ lock \in Seq(Coroutines) /\ pc \in [Coroutines -> Labels]
  BY DEF Acquires, Goto, Locked
<1>2. /\ lock' \in Seq(Coroutines) /\ Len(lock') = Len(lock) + 1
      /\ lock'[Len(lock) + 1] = c
      /\ \A i \in 1..Len(lock) : lock'[i] = lock[i]
  BY <1>1
<1>3. /\ pc' \in [Coroutines -> Labels] /\ pc'[c] = l
      /\ \A d \in Coroutines \ {c} : pc'[d] = pc[d]
  <2>1. l \in Labels
    BY DEF Labels
  <2> QED
    BY <1>1, <2>1
<1>4. \A i \in 1..Len(lock) : lock[i] \in Coroutines \ {c}
  BY <1>1 DEF Locked
<1>5. ASSUME NEW i \in 1..Len(lock')
      PROVE  pc'[lock'[i]] \in InLock /\ \A j \in 1..(i - 1) : lock'[i] # lock'[j]
  <2>0. Len(lock) \in Nat
    BY <1>1
  <2>1. CASE i = Len(lock) + 1
    BY <2>0, <2>1, <1>2, <1>3, <1>4
  <2>2. CASE i \in 1..Len(lock)
    BY <2>0, <2>2, <1>2, <1>3, <1>4 DEF Locked
  <2> QED
    BY <2>0, <2>1, <2>2, <1>2
<1> QED
  BY <1>2, <1>3, <1>5 DEF Locked

\* The holder leaves; wherever it goes, and whoever it wakes.
LEMMA LockedRelease ==
    ASSUME Locked, NEW c \in Coroutines, lock # <<>>, Head(lock) = c,
           lock' = Tail(lock), pc' \in [Coroutines -> Labels],
           \A d \in Coroutines \ {c} : pc[d] \in InLock => pc'[d] = pc[d]
    PROVE  Locked'
<1>1. /\ lock \in Seq(Coroutines) /\ Len(lock) \in Nat \ {0} /\ lock[1] = c
      /\ lock' \in Seq(Coroutines) /\ Len(lock') = Len(lock) - 1
      /\ \A i \in 1..Len(lock') : lock'[i] = lock[i + 1]
  BY DEF Locked
<1>2. \A i \in 1..Len(lock') :
        /\ i + 1 \in 1..Len(lock) /\ lock[i + 1] \in Coroutines \ {c}
        /\ pc[lock[i + 1]] \in InLock
        /\ \A j \in 1..(i - 1) : j + 1 \in 1..((i + 1) - 1)
  BY <1>1 DEF Locked
<1>3. ASSUME NEW i \in 1..Len(lock')
      PROVE  pc'[lock'[i]] \in InLock /\ \A j \in 1..(i - 1) : lock'[i] # lock'[j]
  <2>1. pc'[lock'[i]] \in InLock
    BY <1>1, <1>2
  <2>2. ASSUME NEW j \in 1..(i - 1)
        PROVE  lock'[i] # lock'[j]
    <3>1. j \in 1..Len(lock') /\ i + 1 \in 1..Len(lock) /\ j + 1 \in 1..((i + 1) - 1)
      BY <1>1, <1>2
    <3>2. lock[i + 1] # lock[j + 1]
      BY <3>1 DEF Locked
    <3> QED
      BY <3>1, <3>2, <1>1
  <2> QED
    BY <2>1, <2>2
<1> QED
  BY <1>1, <1>3 DEF Locked

\* Nobody joins or leaves.
LEMMA LockedStay ==
    ASSUME Locked, UNCHANGED lock, pc' \in [Coroutines -> Labels],
           \A d \in Coroutines : pc[d] \in InLock => pc'[d] \in InLock
    PROVE  Locked'
<1>1. \A i \in 1..Len(lock) : lock[i] \in Coroutines
  BY DEF Locked
<1> QED
  BY <1>1 DEF Locked

-----------------------------------------------------------------------------
(* The tasks                                                               *)

\* Sets of tasks are finite.
LEMMA LiveFinite ==
    ASSUME NEW S \in SUBSET Samples
    PROVE  IsFiniteSet(S) /\ Cardinality(S) \in Nat
<1>1. IsFiniteSet(Samples)
  BY FS_Interval, Sizes
<1> QED
  BY <1>1, FS_Subset, FS_CardinalityType

\* A task that goes on, or is over and waits to be reaped, still counts.
LEMMA BecomesCounts ==
    ASSUME Tasks, NEW s \in Samples, task[s] # "none",
           NEW state \in TaskStates, Becomes(s, state)
    PROVE  Tasks' /\ ActiveTasks' = ActiveTasks
<1>1. /\ task \in [Samples -> TaskStates] /\ finished \in Nat
      /\ task' = [task EXCEPT ![s] = state]
      /\ finished' = finished + (IF state = "none" THEN 1 ELSE 0)
  BY DEF Tasks, Becomes
<1>2. Tasks'
  BY <1>1 DEF Tasks
<1>3. s \in Live /\ Live \in SUBSET Samples
  BY DEF Live
<1>4. CASE state = "none"
  <2>1. Live' = Live \ {s} /\ finished' = finished + 1
    BY <1>1, <1>4 DEF Live
  <2>2. Cardinality(Live \ {s}) = Cardinality(Live) - 1
    BY <1>3, LiveFinite, FS_RemoveElement
  <2> QED
    BY <1>1, <1>2, <1>3, <2>1, <2>2, LiveFinite DEF ActiveTasks
<1>5. CASE state # "none"
  <2>1. Live' = Live /\ finished' = finished
    BY <1>1, <1>3, <1>5 DEF Live
  <2> QED
    BY <1>2, <2>1 DEF ActiveTasks
<1> QED
  BY <1>4, <1>5

\* The processor adds one task, unless the one it names is there already.
LEMMA SubmitCounts ==
    ASSUME Tasks, task' = [task EXCEPT ![hand] = "start"], UNCHANGED finished
    PROVE  Tasks' /\ ActiveTasks' <= ActiveTasks + 1
<1>1. task \in [Samples -> TaskStates] /\ finished \in Nat
  BY DEF Tasks
<1>2. Tasks'
  BY <1>1 DEF Tasks, TaskStates
<1>3. Live \in SUBSET Samples /\ Live' \in SUBSET Samples
  BY DEF Live
<1>4. Live' \in {Live, Live \cup {hand}}
  BY <1>1 DEF Live
<1>5. Cardinality(Live \cup {hand}) <= Cardinality(Live) + 1
  <2>1. IsFiniteSet(Live) /\ Cardinality(Live) \in Nat
    BY <1>3, LiveFinite
  <2>2. Cardinality(Live \cup {hand}) \in {Cardinality(Live), Cardinality(Live) + 1}
    BY <2>1, FS_AddElement
  <2> QED
    BY <2>1, <2>2
<1>6. Cardinality(Live') <= Cardinality(Live) + 1
  BY <1>3, <1>4, <1>5, LiveFinite
<1> QED
  BY <1>1, <1>2, <1>3, <1>6, LiveFinite DEF ActiveTasks

-----------------------------------------------------------------------------
(* The queues                                                              *)

\* put_sample, whether or not it drops, leaves a queue within its size.
LEMMA PutQueued ==
    ASSUME Queued, NEW s \in Samples \cup {EndSignal}, PutSample(s)
    PROVE  queue' \in Seq(Samples \cup {EndSignal}) /\ Len(queue') <= MaxQueueSize
<1>1. /\ queue \in Seq(Samples \cup {EndSignal}) /\ Len(queue) \in Nat
      /\ Len(queue) <= MaxQueueSize /\ MaxQueueSize \in Nat \ {0}
  BY Sizes DEF Queued
<1>2. CASE Len(queue) >= MaxQueueSize
  <2>1. queue' = Append(Tail(queue), s)
    BY <1>2 DEF PutSample
  <2>2. Tail(queue) \in Seq(Samples \cup {EndSignal}) /\ Len(Tail(queue)) = Len(queue) - 1
    BY <1>1, <1>2
  <2> QED
    BY <1>1, <2>1, <2>2
<1>3. CASE ~(Len(queue) >= MaxQueueSize)
  BY <1>1, <1>3 DEF PutSample
<1> QED
  BY <1>2, <1>3

-----------------------------------------------------------------------------
(* Steps that leave the processor alone                                    *)

\* What a step of another coroutine may change: the lock, its own place, the
\* sleep of the processor, and finished tasks, which pause clears.
LEMMA OtherCoroutine ==
    ASSUME IInv, Locked',
           UNCHANGED <<queue, cancelQueue, fed, taken, hand, loop, task, trainPc>>,
           finished' \in {finished, 0},
           \/ pc'["proc"] = pc["proc"]
           \/ pc["proc"] = "idle" /\ pc'["proc"] = "notified",
           \A c \in {"pause", "update", "resume"} : pc[c] = "off" => pc'[c] = "off"
    PROVE  IInv'
<1>1. Queued' /\ Fed'
  BY DEF IInv, Queued, Fed
<1>2. Tasks' /\ ActiveTasks' <= ActiveTasks /\ ActiveTasks \in Nat /\ ActiveTasks' \in Nat
  <2>1. Live \in SUBSET Samples /\ Live' = Live
    BY DEF Live
  <2> QED
    BY <2>1, LiveFinite DEF IInv, Tasks, ActiveTasks
<1>3. Submits' => Submits
  BY DEF Submits
<1>4. Limited'
  BY <1>2, <1>3, Sizes DEF IInv, Limited
<1>5. Handed'
  BY DEF IInv, Handed
<1>6. Called'
  BY DEF IInv, Called, LastValid
<1> QED
  BY <1>1, <1>2, <1>4, <1>5, <1>6 DEF IInv

\* The feeder stops at maxsize of pending_queue.
LEMMA FeedStep == ASSUME IInv, Feed, UNCHANGED trainVars PROVE IInv'
<1>1. Locked'
  <2>1. UNCHANGED <<lock, pc>>
    BY DEF Feed, loopVars
  <2> QED
    BY <2>1 DEF IInv, Locked
<1>2. Fed'
  <2>1. fed < FeedLimit /\ fed' = FeedLimit /\ UNCHANGED <<taken, hand>>
    BY DEF Feed
  <2>2. fed \in 0..Done /\ taken \in 0..Done /\ taken <= fed /\ hand \in 0..Done
    BY DEF IInv, Fed
  <2> QED
    BY <2>1, <2>2, Sizes DEF Fed, FeedLimit
<1>3. UNCHANGED <<queue, cancelQueue, hand, loop, task, finished, pc, trainPc>>
  BY DEF Feed, loopVars, taskVars, mqVars, trainVars
<1>4. Queued' /\ Tasks' /\ Handed' /\ Called'
  BY <1>3 DEF IInv, Queued, Tasks, Handed, Called, LastValid
<1>5. Limited'
  <2>1. ActiveTasks' = ActiveTasks /\ Submits' = Submits
    BY <1>3 DEF ActiveTasks, Live, Submits
  <2> QED
    BY <2>1 DEF IInv, Limited
<1> QED
  BY <1>1, <1>2, <1>4, <1>5 DEF IInv

\* pause takes the lock, drains and gives it up; the tasks it clears are over.
LEMMA PauseStep == ASSUME IInv, Pause, UNCHANGED trainVars PROVE IInv'
<1> USE DEF IInv
<1>1. CASE PauseLock
  <2>1. Acquires("pause", "lock") /\ pc["pause"] \notin InLock
    BY <1>1 DEF PauseLock, At, InLock
  <2>2. Locked'
    BY <2>1, LockedAcquire DEF Coroutines, InLock
  <2>3. /\ UNCHANGED <<queue, cancelQueue, fed, taken, hand, loop, task, trainPc>>
        /\ finished' \in {finished, 0}
    BY <1>1 DEF PauseLock, procVars, taskVars, mqVars, trainVars
  <2> QED
    BY <2>1, <2>2, <2>3, <1>1, OtherCoroutine DEF Locked, Coroutines, Acquires, Goto, At, PauseLock
<1>2. CASE PauseSet
  <2>1. /\ lock' = lock /\ pc["pause"] # "off"
        /\ pc' = [pc EXCEPT !["pause"] = (IF PartialRollout THEN "cancel" ELSE "gather")]
        /\ (pc["pause"] \in InLock => (IF PartialRollout THEN "cancel" ELSE "gather") \in InLock)
    BY <1>2 DEF PauseSet, At, Within, Holds, Goto, Suspends, Continues, InLock
  <2>2. Locked'
    BY <2>1, LockedStay DEF Locked, Coroutines, Labels, InLock
  <2>3. /\ UNCHANGED <<queue, cancelQueue, fed, taken, hand, loop, task, trainPc>>
        /\ finished' \in {finished, 0}
    BY <1>2 DEF PauseSet, procVars, taskVars, mqVars, trainVars
  <2> QED
    BY <2>1, <2>2, <2>3, OtherCoroutine DEF Locked, Coroutines
<1>3. CASE PauseCancel
  <2>1. lock' = lock /\ pc' = [pc EXCEPT !["pause"] = "gather"] /\ pc["pause"] # "off"
        /\ (pc["pause"] \in InLock => "gather" \in InLock)
    BY <1>3 DEF PauseCancel, At, Within, Holds, Goto, Suspends, Continues, InLock
  <2>2. Locked'
    BY <2>1, LockedStay DEF Locked, Coroutines, Labels, InLock
  <2>3. /\ UNCHANGED <<queue, cancelQueue, fed, taken, hand, loop, task, trainPc>>
        /\ finished' \in {finished, 0}
    BY <1>3 DEF PauseCancel, procVars, taskVars, mqVars, trainVars
  <2> QED
    BY <2>1, <2>2, <2>3, OtherCoroutine DEF Locked, Coroutines
<1>4. CASE PauseGather
  <2>1. lock' = lock /\ pc' = [pc EXCEPT !["pause"] = "clear"] /\ pc["pause"] # "off"
        /\ (pc["pause"] \in InLock => "clear" \in InLock)
    BY <1>4 DEF PauseGather, At, Within, Holds, Goto, Suspends, Continues, InLock
  <2>2. Locked'
    BY <2>1, LockedStay DEF Locked, Coroutines, Labels, InLock
  <2>3. /\ UNCHANGED <<queue, cancelQueue, fed, taken, hand, loop, task, trainPc>>
        /\ finished' \in {finished, 0}
    BY <1>4 DEF PauseGather, procVars, taskVars, mqVars, trainVars
  <2> QED
    BY <2>1, <2>2, <2>3, OtherCoroutine DEF Locked, Coroutines
<1>5. CASE PauseReturn
  <2>1. /\ lock # <<>> /\ Head(lock) = "pause" /\ lock' = Tail(lock)
        /\ pc' = [pc EXCEPT !["pause"] = "off"] /\ pc["pause"] # "off"
    BY <1>5 DEF PauseReturn, Within, Holds, Releases, Goto
  <2>2. Locked'
    BY <2>1, LockedRelease DEF Locked, Coroutines, Labels, InLock
  <2>3. /\ UNCHANGED <<queue, cancelQueue, fed, taken, hand, loop, task, trainPc>>
        /\ finished' \in {finished, 0}
    BY <1>5 DEF PauseReturn, procVars, taskVars, mqVars, trainVars
  <2> QED
    BY <2>1, <2>2, <2>3, OtherCoroutine DEF Locked, Coroutines
<1> QED
  BY <1>1, <1>2, <1>3, <1>4, <1>5 DEF Pause

\* resume wakes the processor, nothing else.
LEMMA ResumeStep == ASSUME IInv, Resume, UNCHANGED trainVars PROVE IInv'
<1> USE DEF IInv
<1>1. CASE ResumeLock
  <2>1. Acquires("resume", "lock") /\ pc["resume"] \notin InLock
    BY <1>1 DEF ResumeLock, At, InLock
  <2>2. Locked'
    BY <2>1, LockedAcquire DEF Coroutines, InLock
  <2>3. /\ UNCHANGED <<queue, cancelQueue, fed, taken, hand, loop, task, trainPc>>
        /\ finished' \in {finished, 0}
    BY <1>1 DEF ResumeLock, procVars, taskVars, mqVars, trainVars
  <2> QED
    BY <2>1, <2>2, <2>3, <1>1, OtherCoroutine DEF Locked, Coroutines, Acquires, Goto, At, ResumeLock
<1>2. CASE ResumeServers
  <2>1. lock' = lock /\ pc' = [pc EXCEPT !["resume"] = "servers"] /\ pc["resume"] # "off"
        /\ (pc["resume"] \in InLock => "servers" \in InLock)
    BY <1>2 DEF ResumeServers, At, Within, Holds, Goto, Suspends, Continues, InLock
  <2>2. Locked'
    BY <2>1, LockedStay DEF Locked, Coroutines, Labels, InLock
  <2>3. /\ UNCHANGED <<queue, cancelQueue, fed, taken, hand, loop, task, trainPc>>
        /\ finished' \in {finished, 0}
    BY <1>2 DEF ResumeServers, procVars, taskVars, mqVars, trainVars
  <2> QED
    BY <2>1, <2>2, <2>3, OtherCoroutine DEF Locked, Coroutines
<1>3. CASE ResumeReturn
  <2>1. /\ lock # <<>> /\ Head(lock) = "resume" /\ lock' = Tail(lock)
        /\ pc' = [Notified(pc) EXCEPT !["resume"] = "off"] /\ pc["resume"] # "off"
    BY <1>3 DEF ResumeReturn, Within, Holds, Releases, Goto
  <2>2. Locked'
    BY <2>1, LockedRelease DEF Locked, Coroutines, Labels, InLock, Notified
  <2>3. /\ UNCHANGED <<queue, cancelQueue, fed, taken, hand, loop, task, trainPc>>
        /\ finished' \in {finished, 0}
    BY <1>3 DEF ResumeReturn, procVars, taskVars, mqVars, trainVars
  <2> QED
    BY <2>1, <2>2, <2>3, OtherCoroutine DEF Locked, Coroutines, Notified
<1> QED
  BY <1>1, <1>2, <1>3 DEF Resume

\* The monitor clears paused and wakes the processor, nothing else.
LEMMA MonitorStep == ASSUME IInv, Monitor, UNCHANGED trainVars PROVE IInv'
<1> USE DEF IInv
<1>1. CASE MonitorTop
  <2>1. Acquires("monitor", "topLock") /\ pc["monitor"] \notin InLock
    BY <1>1 DEF MonitorTop, At, InLock
  <2>2. Locked'
    BY <2>1, LockedAcquire DEF Coroutines, InLock
  <2>3. /\ UNCHANGED <<queue, cancelQueue, fed, taken, hand, loop, task, trainPc>>
        /\ finished' \in {finished, 0}
    BY <1>1 DEF MonitorTop, procVars, taskVars, mqVars, trainVars
  <2> QED
    BY <2>1, <2>2, <2>3, <1>1, OtherCoroutine DEF Locked, Coroutines, Acquires, Goto, At, MonitorTop
<1>2. CASE MonitorCheckRunning
  <2>1. /\ lock # <<>> /\ Head(lock) = "monitor" /\ lock' = Tail(lock)
        /\ pc' = [pc EXCEPT !["monitor"] = (IF running THEN "sleep" ELSE "ended")]
        /\ pc["monitor"] # "off"
    BY <1>2 DEF MonitorCheckRunning, Within, Holds, Releases, Goto
  <2>2. Locked'
    BY <2>1, LockedRelease DEF Locked, Coroutines, Labels, InLock
  <2>3. /\ UNCHANGED <<queue, cancelQueue, fed, taken, hand, loop, task, trainPc>>
        /\ finished' \in {finished, 0}
    BY <1>2 DEF MonitorCheckRunning, procVars, taskVars, mqVars, trainVars
  <2> QED
    BY <2>1, <2>2, <2>3, OtherCoroutine DEF Locked, Coroutines
<1>3. CASE MonitorWake
  <2>1. CASE trigger /\ ~ShouldPauseGeneration
    <3>1. Acquires("monitor", "recover") /\ pc["monitor"] \notin InLock
      BY <1>3, <2>1 DEF MonitorWake, At, InLock
    <3>2. Locked'
      BY <3>1, LockedAcquire DEF Coroutines, InLock
    <3>3. /\ UNCHANGED <<queue, cancelQueue, fed, taken, hand, loop, task, trainPc>>
          /\ finished' \in {finished, 0} /\ pc' = [pc EXCEPT !["monitor"] = "recover"]
      BY <1>3, <3>1 DEF MonitorWake, Acquires, Goto, procVars, taskVars, mqVars, trainVars
    <3> QED
      BY <3>2, <3>3, OtherCoroutine DEF Locked, Coroutines
  <2>2. CASE ~(trigger /\ ~ShouldPauseGeneration)
    <3>1. /\ lock' = lock /\ pc' = [pc EXCEPT !["monitor"] = "top"]
          /\ pc["monitor"] \notin InLock
      BY <1>3, <2>2 DEF MonitorWake, At, Continues, Goto, InLock
    <3>2. Locked'
      BY <3>1, LockedStay DEF Locked, Coroutines, Labels
    <3>3. /\ UNCHANGED <<queue, cancelQueue, fed, taken, hand, loop, task, trainPc>>
          /\ finished' \in {finished, 0}
      BY <1>3 DEF MonitorWake, procVars, taskVars, mqVars, trainVars
    <3> QED
      BY <3>1, <3>2, <3>3, OtherCoroutine DEF Locked, Coroutines
  <2> QED
    BY <2>1, <2>2
<1>4. CASE MonitorRecover
  <2>1. /\ lock # <<>> /\ Head(lock) = "monitor" /\ lock' = Tail(lock)
        /\ pc' = [Notified(pc) EXCEPT !["monitor"] = "top"] /\ pc["monitor"] # "off"
    BY <1>4 DEF MonitorRecover, Within, Holds, Releases, Goto
  <2>2. Locked'
    BY <2>1, LockedRelease DEF Locked, Coroutines, Labels, InLock, Notified
  <2>3. /\ UNCHANGED <<queue, cancelQueue, fed, taken, hand, loop, task, trainPc>>
        /\ finished' \in {finished, 0}
    BY <1>4 DEF MonitorRecover, procVars, taskVars, mqVars, trainVars
  <2> QED
    BY <2>1, <2>2, <2>3, OtherCoroutine DEF Locked, Coroutines, Notified
<1> QED
  BY <1>1, <1>2, <1>3, <1>4 DEF Monitor

\* update_param_version only counts.
LEMMA UpdateStep == ASSUME IInv, Update(syncVersion), UNCHANGED trainVars PROVE IInv'
<1> USE DEF IInv
<1>1. CASE UpdateLock
  <2>1. Acquires("update", "lock") /\ pc["update"] \notin InLock
    BY <1>1 DEF UpdateLock, At, InLock
  <2>2. Locked'
    BY <2>1, LockedAcquire DEF Coroutines, InLock
  <2>3. /\ UNCHANGED <<queue, cancelQueue, fed, taken, hand, loop, task, trainPc>>
        /\ finished' \in {finished, 0}
    BY <1>1 DEF UpdateLock, procVars, taskVars, mqVars, trainVars
  <2> QED
    BY <2>1, <2>2, <2>3, <1>1, OtherCoroutine DEF Locked, Coroutines, Acquires, Goto, At, UpdateLock
<1>2. CASE UpdateCount(syncVersion)
  <2>1. lock' = lock /\ pc' = [pc EXCEPT !["update"] = "size"] /\ pc["update"] # "off"
        /\ (pc["update"] \in InLock => "size" \in InLock)
    BY <1>2 DEF UpdateCount, CountTasks, At, Within, Holds, Goto, Suspends, Continues, InLock
  <2>2. Locked'
    BY <2>1, LockedStay DEF Locked, Coroutines, Labels, InLock
  <2>3. /\ UNCHANGED <<queue, cancelQueue, fed, taken, hand, loop, task, trainPc>>
        /\ finished' \in {finished, 0}
    BY <1>2 DEF UpdateCount, CountTasks, procVars, taskVars, mqVars, trainVars
  <2> QED
    BY <2>1, <2>2, <2>3, OtherCoroutine DEF Locked, Coroutines
<1>3. CASE UpdateSize
  <2>1. lock' = lock /\ pc' = [pc EXCEPT !["update"] = "sized"] /\ pc["update"] # "off"
        /\ (pc["update"] \in InLock => "sized" \in InLock)
    BY <1>3 DEF UpdateSize, At, Within, Holds, Goto, Suspends, Continues, InLock
  <2>2. Locked'
    BY <2>1, LockedStay DEF Locked, Coroutines, Labels, InLock
  <2>3. /\ UNCHANGED <<queue, cancelQueue, fed, taken, hand, loop, task, trainPc>>
        /\ finished' \in {finished, 0}
    BY <1>3 DEF UpdateSize, procVars, taskVars, mqVars, trainVars
  <2> QED
    BY <2>1, <2>2, <2>3, OtherCoroutine DEF Locked, Coroutines
<1>4. CASE UpdateReturn
  <2>1. /\ lock # <<>> /\ Head(lock) = "update" /\ lock' = Tail(lock)
        /\ pc' = [pc EXCEPT !["update"] = "off"] /\ pc["update"] # "off"
    BY <1>4 DEF UpdateReturn, UpdateEnds, Within, Holds, Releases, Goto
  <2>2. Locked'
    BY <2>1, LockedRelease DEF Locked, Coroutines, Labels, InLock
  <2>3. /\ UNCHANGED <<queue, cancelQueue, fed, taken, hand, loop, task, trainPc>>
        /\ finished' \in {finished, 0}
    BY <1>4 DEF UpdateReturn, UpdateEnds, procVars, taskVars, mqVars, trainVars
  <2> QED
    BY <2>1, <2>2, <2>3, OtherCoroutine DEF Locked, Coroutines
<1> QED
  BY <1>1, <1>2, <1>3, <1>4 DEF Update

-----------------------------------------------------------------------------
(* The tasks                                                               *)

\* A task that moves is unfinished, and goes to another of its states.
LEMMA TaskBecomes ==
    ASSUME NEW s \in Samples, Task(s)
    PROVE  task[s] # "none" /\ \E state \in TaskStates : Becomes(s, state)
<1>1. CASE TaskStart(s)
  BY <1>1 DEF TaskStart, TaskStates
<1>2. CASE TaskArrive(s)
  BY <1>2 DEF TaskArrive, TaskStates
<1>3. CASE TaskInterrupt(s)
  BY <1>3 DEF TaskInterrupt, TaskStates
<1>4. CASE TaskGenerated(s)
  BY <1>4 DEF TaskGenerated, TaskStates
<1>5. CASE TaskPut(s)
  BY <1>5 DEF TaskPut, TaskStates
<1>6. CASE TaskReturn(s)
  BY <1>6 DEF TaskReturn, TaskStates
<1>7. CASE TaskCancelled(s)
  BY <1>7 DEF TaskCancelled, TaskStates
<1> QED
  BY <1>1, <1>2, <1>3, <1>4, <1>5, <1>6, <1>7 DEF Task

\* Tasks fill the message queue and the cancel queue, and end, but none begins.
LEMMA TaskStep ==
    ASSUME IInv, NEW s \in Samples, Task(s), UNCHANGED trainVars
    PROVE  IInv'
<1>1. task[s] # "none"
  BY TaskBecomes
<1>2. PICK state \in TaskStates : Becomes(s, state)
  BY TaskBecomes
<1>3. UNCHANGED <<lock, pc, fed, taken, hand, loop, trainPc>>
  BY <1>2 DEF Becomes, loopVars, procVars, trainVars
<1>4. Queued'
  <2>1. CASE TaskPut(s)
    <3>1. PutSample(s) /\ UNCHANGED cancelQueue
      BY <2>1 DEF TaskPut
    <3> QED
      BY <3>1, PutQueued DEF IInv, Queued
  <2>2. CASE TaskCancelled(s)
    <3>1. cancelQueue' = Append(cancelQueue, s) /\ UNCHANGED queue
      BY <2>2 DEF TaskCancelled, mqVars
    <3> QED
      BY <3>1 DEF IInv, Queued
  <2>3. CASE TaskStart(s) \/ TaskArrive(s) \/ TaskInterrupt(s) \/ TaskGenerated(s) \/ TaskReturn(s)
    <3>1. UNCHANGED <<cancelQueue, queue>>
      BY <2>3 DEF TaskStart, TaskArrive, TaskInterrupt, TaskGenerated, TaskReturn, mqVars
    <3> QED
      BY <3>1 DEF IInv, Queued
  <2> QED
    BY <2>1, <2>2, <2>3 DEF Task
<1>5. Tasks' /\ ActiveTasks' = ActiveTasks
  BY <1>1, <1>2, BecomesCounts DEF IInv
<1>6. Limited'
  BY <1>3, <1>5 DEF IInv, Limited, Submits
<1>7. Fed' /\ Locked' /\ Handed' /\ Called'
  BY <1>3 DEF IInv, Fed, Locked, Handed, Called, LastValid
<1> QED
  BY <1>4, <1>5, <1>6, <1>7 DEF IInv

-----------------------------------------------------------------------------
(* The trainer and the synchronizer                                        *)

\* A step that touches nothing of the rollouter.
LEMMA TrainerAlone ==
    ASSUME IInv, Queued', UNCHANGED rolloutVars,
           trainPc \notin {"pause", "copy"}, trainPc' \notin {"pause", "copy"}
    PROVE  IInv'
<1>1. UNCHANGED <<lock, pc, fed, taken, hand, loop, task, finished>>
  BY DEF rolloutVars, loopVars, procVars, taskVars
<1>2. Fed' /\ Locked' /\ Tasks' /\ Handed' /\ Called'
  BY <1>1 DEF IInv, Fed, Locked, Tasks, Handed, Called
<1>3. Limited'
  BY <1>1 DEF IInv, Limited, ActiveTasks, Live, Submits
<1> QED
  BY <1>2, <1>3 DEF IInv

\* The queues keep within their sizes while nobody touches them.
LEMMA QueuedStays ==
    ASSUME IInv, UNCHANGED <<rolloutVars, queue>> PROVE Queued'
BY DEF IInv, Queued, rolloutVars, taskVars

\* A call of methods none of which is running.
LEMMA SyncCalls ==
    ASSUME IInv, SyncFrame, Called', pc' \in [Coroutines -> Labels],
           \A c \in Coroutines : pc'[c] # pc[c] => pc[c] = "off" /\ c # "proc"
    PROVE  IInv'
<1>1. UNCHANGED <<queue, cancelQueue, lock, fed, taken, hand, loop, task, finished>>
  BY DEF SyncFrame, procVars, taskVars, mqVars
<1>2. pc'["proc"] = pc["proc"]
  BY DEF Coroutines
<1>3. Queued' /\ Fed' /\ Tasks' /\ Handed'
  BY <1>1, <1>2 DEF IInv, Queued, Fed, Tasks, Handed
<1>4. Limited'
  BY <1>1, <1>2 DEF IInv, Limited, ActiveTasks, Live, Submits
<1>5. Locked'
  <2>1. \A c \in Coroutines : pc[c] \in InLock => pc'[c] \in InLock
    BY DEF InLock
  <2> QED
    BY <1>1, <2>1, LockedStay DEF IInv
<1> QED
  BY <1>3, <1>4, <1>5 DEF IInv

\* The trainer empties the queue, and the synchronizer calls only methods that
\* have returned.
LEMMA TrainerStep == ASSUME IInv, Trainer PROVE IInv'
<1>1. CASE CollectSample
  <2>1. /\ UNCHANGED rolloutVars /\ queue # <<>> /\ queue' = Tail(queue)
        /\ trainPc = "collect" /\ trainPc' \in {"lastValid", "train", "collect"}
    BY <1>1 DEF CollectSample, GetSample
  <2>2. Queued'
    <3>1. queue' \in Seq(Samples \cup {EndSignal}) /\ Len(queue') = Len(queue) - 1
      BY <2>1 DEF IInv, Queued
    <3>2. UNCHANGED cancelQueue
      BY <2>1 DEF rolloutVars, taskVars
    <3> QED
      BY <3>1, <3>2, Sizes DEF IInv, Queued
  <2> QED
    BY <2>1, <2>2, TrainerAlone
<1>2. CASE TrainStep
  <2>1. /\ UNCHANGED <<rolloutVars, queue>>
        /\ trainPc = "train" /\ trainPc' \in {"collect", "waitValid"}
    BY <1>2 DEF TrainStep, mqVars
  <2> QED
    BY <2>1, TrainerAlone, QueuedStays
<1>3. CASE FinalSync
  <2>1. /\ UNCHANGED <<rolloutVars, queue>>
        /\ trainPc = "lastValid" /\ trainPc' \in {"ended", "waitValid"}
    BY <1>3 DEF FinalSync, mqVars
  <2> QED
    BY <2>1, TrainerAlone, QueuedStays
<1>4. CASE TrainEnd
  <2>1. UNCHANGED <<rolloutVars, queue>> /\ trainPc = "finalWait" /\ trainPc' = "ended"
    BY <1>4 DEF TrainEnd, mqVars
  <2> QED
    BY <2>1, TrainerAlone, QueuedStays
<1>5. CASE SyncPause
  <2>1. /\ trainPc = "waitValid" /\ trainPc' = "pause" /\ LastValid
        /\ pc' = [pc EXCEPT !["pause"] = "called"] /\ SyncFrame
    BY <1>5 DEF SyncPause, Goto
  <2>2. pc["pause"] = "off"
    BY <2>1 DEF IInv, Called
  <2>3. Called'
    BY <2>1 DEF IInv, Called, LastValid, Locked, Coroutines
  <2> QED
    BY <2>1, <2>2, <2>3, SyncCalls DEF Coroutines, IInv, Locked, Labels, InLock
<1>6. CASE SyncStart
  <2>1. /\ trainPc = "pause" /\ trainPc' = "copy" /\ pc["pause"] = "off"
        /\ UNCHANGED pc /\ SyncFrame
    BY <1>6 DEF SyncStart
  <2>2. Called'
    BY <2>1 DEF IInv, Called, LastValid
  <2> QED
    BY <2>1, <2>2, SyncCalls DEF IInv, Locked
<1>7. CASE SyncEnd
  <2>1. /\ trainPc = "copy" /\ trainPc' \in {"finalWait", "collect"} /\ SyncFrame
        /\ pc' = [pc EXCEPT !["update"] = "called", !["resume"] = "called"]
    BY <1>7 DEF SyncEnd
  <2>2. LastValid
    BY <2>1 DEF IInv, Called
  <2>3. Called'
    BY <2>1 DEF IInv, Called, Locked, Coroutines
  <2> QED
    BY <2>1, <2>2, <2>3, SyncCalls DEF LastValid, Coroutines, IInv, Locked, Labels, InLock
<1> QED
  BY <1>1, <1>2, <1>3, <1>4, <1>5, <1>6, <1>7 DEF Trainer, SyncWeights

-----------------------------------------------------------------------------
(* The processor                                                           *)

\* It goes from one place to another without taking or giving a sample.
LEMMA ProcessorMove ==
    ASSUME IInv, Locked', Handed', NEW l \in Labels, pc' = [pc EXCEPT !["proc"] = l],
           UNCHANGED <<queue, cancelQueue, fed, taken, hand, task, trainPc>>,
           finished' \in {finished, 0},
           Submits' => Submits \/ ActiveTasks < MaxConcurrentSamples
    PROVE  IInv'
<1>1. Queued' /\ Fed'
  BY DEF IInv, Queued, Fed
<1>2. Tasks' /\ ActiveTasks' <= ActiveTasks /\ ActiveTasks \in Nat /\ ActiveTasks' \in Nat
  <2>1. Live \in SUBSET Samples /\ Live' = Live
    BY DEF Live
  <2> QED
    BY <2>1, LiveFinite DEF IInv, Tasks, ActiveTasks
<1>3. Limited'
  BY <1>2, Sizes DEF IInv, Limited
<1>4. Called'
  BY DEF IInv, Called, LastValid, Locked, Coroutines
<1> QED
  BY <1>1, <1>2, <1>3, <1>4 DEF IInv

\* What a step of it leaves alone.
LEMMA ProcessorCalls ==
    ASSUME IInv, NEW l \in Labels, pc' = [pc EXCEPT !["proc"] = l], UNCHANGED trainPc
    PROVE  Called'
BY DEF IInv, Called, LastValid, Locked, Coroutines

\* The processor takes a sample only from the cancel queue here, and none to a pause.
LEMMA ProcTopStep == ASSUME IInv, ProcTop, UNCHANGED trainVars PROVE IInv'
<1> USE DEF IInv
<1>1. /\ pc["proc"] = "top" /\ hand = NoSample
      /\ UNCHANGED <<queue, fed, taken, task, finished, trainPc>>
  BY DEF ProcTop, At, Handed, mqVars, trainVars
<1>2. CASE Acquires("proc", "mark") /\ UNCHANGED <<hand, cancelQueue>>
  <2>1. Locked'
    BY <1>1, <1>2, LockedAcquire DEF Coroutines, InLock
  <2>2. pc' = [pc EXCEPT !["proc"] = "mark"]
    BY <1>2 DEF Acquires, Goto
  <2>3. Handed' /\ ~Submits'
    BY <1>1, <1>2, <2>2 DEF Handed, Submits, Locked, Coroutines
  <2> QED
    BY <1>1, <1>2, <2>1, <2>2, <2>3, ProcessorMove DEF Labels, InLock
<1>4. CASE /\ Continues("proc", "get") \/ Suspends("proc", "get")
           /\ UNCHANGED <<hand, cancelQueue>>
  <2>1. pc' = [pc EXCEPT !["proc"] = "get"] /\ lock' = lock
    BY <1>4 DEF Continues, Suspends, Goto
  <2>2. Locked'
    BY <1>1, <2>1, LockedStay DEF Locked, Labels, InLock, Coroutines
  <2>3. Handed' /\ ~Submits'
    BY <2>1 DEF Handed, Submits, Locked, Coroutines
  <2> QED
    BY <1>1, <1>4, <2>1, <2>2, <2>3, ProcessorMove DEF Labels
<1>3. CASE /\ cancelQueue # <<>> /\ hand' = Head(cancelQueue)
           /\ cancelQueue' = Tail(cancelQueue)
           /\ loop' = "limit" /\ Continues("proc", "reap")
  <2>1. pc' = [pc EXCEPT !["proc"] = "reap"] /\ lock' = lock
    BY <1>3 DEF Continues, Goto
  <2>2. Locked'
    BY <1>1, <2>1, LockedStay DEF Locked, Labels, InLock, Coroutines
  <2>3. hand' \in Samples /\ cancelQueue' \in Seq(Samples)
    BY <1>3 DEF Queued
  <2>4. Queued' /\ Fed' /\ Tasks'
    BY <1>1, <2>3, Sizes DEF Queued, Fed, Tasks
  <2>5. Handed' /\ ~Submits'
    BY <1>3, <2>1 DEF Handed, Submits, Locked, Coroutines
  <2>6. Limited'
    BY <1>1, <2>5 DEF Limited, ActiveTasks, Live
  <2> QED
    BY <1>1, <2>1, <2>2, <2>4, <2>5, <2>6, ProcessorCalls DEF Labels
<1> QED
  BY <1>2, <1>3, <1>4 DEF ProcTop

\* It takes the next of the pending queue.
LEMMA ProcGetStep == ASSUME IInv, ProcGet, UNCHANGED trainVars PROVE IInv'
<1> USE DEF IInv
<1>1. /\ pc["proc"] = "get" /\ taken < fed /\ taken' = taken + 1 /\ hand' = taken + 1
      /\ loop' \in {"end", "limit"} /\ Continues("proc", "reap")
      /\ UNCHANGED <<fed, queue, cancelQueue, task, finished, trainPc>>
  BY DEF ProcGet, Take, At, taskVars, mqVars, trainVars
<1>2. pc' = [pc EXCEPT !["proc"] = "reap"] /\ lock' = lock
  BY <1>1 DEF Continues, Goto
<1>3. Locked'
  BY <1>1, <1>2, LockedStay DEF Locked, Labels, InLock, Coroutines
<1>4. Queued' /\ Fed' /\ Tasks'
  BY <1>1, Sizes DEF Queued, Fed, Tasks
<1>5. Handed' /\ ~Submits'
  BY <1>1, <1>2 DEF Handed, Submits, Locked, Coroutines
<1>6. Limited'
  BY <1>1, <1>5 DEF Limited, ActiveTasks, Live
<1> QED
  BY <1>1, <1>2, <1>3, <1>4, <1>5, <1>6, ProcessorCalls DEF Labels

\* Submission: the loop before it has made room, and while the processor
\* waits for the lock, or asleep, nobody else takes that room.
LEMMA ProcSubmitStep == ASSUME IInv, ProcSubmit, UNCHANGED trainVars PROVE IInv'
<1> USE DEF IInv
<1>1. /\ pc["proc"] = "submit" /\ lock # <<>> /\ Head(lock) = "proc"
      /\ UNCHANGED <<fed, taken, loop, finished, queue, cancelQueue, trainPc>>
  BY DEF ProcSubmit, Within, Holds, mqVars, trainVars
<1>2. CASE Releases("proc", "idle", "none") /\ UNCHANGED <<hand, task>>
  <2>1. lock' = Tail(lock) /\ pc' = [pc EXCEPT !["proc"] = "idle"]
    BY <1>2 DEF Releases, Goto
  <2>2. Locked'
    BY <1>1, <2>1, LockedRelease DEF Locked, Coroutines, Labels
  <2>3. Handed'
    BY <2>1 DEF Handed, Locked, Coroutines
  <2>4. Submits
    BY <1>1 DEF Submits
  <2> QED
    BY <1>1, <1>2, <2>1, <2>2, <2>3, <2>4, ProcessorMove DEF Labels
<1>3. CASE /\ Releases("proc", "top", "proc") /\ hand' = NoSample
           /\ task' = [task EXCEPT ![hand] = "start"]
  <2>1. lock' = Tail(lock) /\ pc' = [pc EXCEPT !["proc"] = "top"]
    BY <1>3 DEF Releases, Goto
  <2>2. Locked'
    BY <1>1, <2>1, LockedRelease DEF Locked, Coroutines, Labels
  <2>3. Handed' /\ ~Submits'
    BY <1>3, <2>1 DEF Handed, Submits, Locked, Coroutines
  <2>4. Queued' /\ Fed'
    BY <1>1, <1>3, Sizes DEF Queued, Fed
  <2>5. Tasks' /\ ActiveTasks' <= ActiveTasks + 1
    BY <1>1, <1>3, SubmitCounts
  <2>6. ActiveTasks \in Nat /\ ActiveTasks' \in Nat
    <3>1. Live \in SUBSET Samples /\ Live' \in SUBSET Samples
      BY DEF Live
    <3> QED
      BY <2>5, <3>1, LiveFinite DEF Tasks, ActiveTasks
  <2>7. ActiveTasks < MaxConcurrentSamples
    BY <1>1 DEF Limited, Submits
  <2>8. Limited'
    BY <2>3, <2>5, <2>6, <2>7, Sizes DEF Limited
  <2> QED
    BY <1>1, <2>1, <2>2, <2>3, <2>4, <2>5, <2>8, ProcessorCalls DEF Labels
<1> QED
  BY <1>2, <1>3 DEF ProcSubmit

\* The end signal goes into the message queue like a sample.
LEMMA FinishStep == ASSUME IInv, Finish, UNCHANGED trainVars PROVE IInv'
<1> USE DEF IInv
<1>1. /\ pc["proc"] = "finish" /\ PutSample(EndSignal) /\ Acquires("proc", "stop")
      /\ UNCHANGED <<fed, taken, hand, loop, cancelQueue, task, finished, trainPc>>
  BY DEF Finish, At, procVars, taskVars, trainVars
<1>2. Locked'
  BY <1>1, LockedAcquire DEF Coroutines, InLock
<1>3. pc' = [pc EXCEPT !["proc"] = "stop"]
  BY <1>1 DEF Acquires, Goto
<1>4. Queued' /\ Fed' /\ Tasks'
  BY <1>1, PutQueued DEF Queued, Fed, Tasks
<1>5. Handed' /\ ~Submits'
  BY <1>3 DEF Handed, Submits, Locked, Coroutines
<1>6. Limited'
  BY <1>1, <1>5 DEF Limited, ActiveTasks, Live
<1> QED
  BY <1>1, <1>2, <1>3, <1>4, <1>5, <1>6, ProcessorCalls DEF Labels, InLock

\* The loop that makes room ends when there is some.
LEMMA ReapEnds ==
    ASSUME Tasks, ~KeepsReaping, loop = "limit"
    PROVE  ActiveTasks < MaxConcurrentSamples
<1>1. Live \in SUBSET Samples
  BY DEF Live
<1>2. ActiveTasks \in Nat
  BY <1>1, LiveFinite DEF ActiveTasks, Tasks
<1> QED
  BY <1>2, Sizes DEF KeepsReaping

\* Nothing but its place, and what asyncio.wait has left in active_tasks.
ProcFrame ==
    /\ UNCHANGED <<queue, cancelQueue, fed, taken, hand, task, trainPc>>
    /\ finished' \in {finished, 0}

\* What the place it goes to asks for.
Arrives(l) ==
    /\ l \in {"top", "mark", "idleLock"} => hand = NoSample
    /\ l \in {"reap", "reapLock", "reapWait"} /\ loop' = "drain" => hand = NoSample
    /\ l = "submit" \/ (l \in {"idle", "notified"} /\ hand # NoSample)
         => Submits \/ ActiveTasks < MaxConcurrentSamples

\* The processor only moves: the invariant needs what its new place asks for.
LEMMA ProcessorArrives ==
    ASSUME IInv, Locked', NEW l \in Labels, Goto("proc", l), Arrives(l), ProcFrame
    PROVE  IInv'
<1>1. pc' = [pc EXCEPT !["proc"] = l] /\ pc'["proc"] = l
  BY DEF IInv, Locked, Coroutines, Goto
<1>2. Handed' /\ (Submits' => Submits \/ ActiveTasks < MaxConcurrentSamples)
  BY <1>1 DEF Handed, Submits, Arrives, ProcFrame
<1> QED
  BY <1>1, <1>2, ProcessorMove DEF ProcFrame

\* It moves and asks for the lock.
LEMMA ProcessorAcquires ==
    ASSUME IInv, NEW l \in InLock, pc["proc"] \notin InLock, Acquires("proc", l),
           Arrives(l), ProcFrame
    PROVE  IInv'
<1>1. Locked'
  BY LockedAcquire DEF IInv, Coroutines
<1> QED
  BY <1>1, ProcessorArrives DEF Acquires, Labels

\* It moves and gives the lock up.
LEMMA ProcessorReleases ==
    ASSUME IInv, NEW l \in Labels, NEW next, Holds("proc"), Releases("proc", l, next),
           Arrives(l), ProcFrame
    PROVE  IInv'
<1>1. Locked'
  BY LockedRelease DEF IInv, Locked, Coroutines, Holds, Releases, Goto
<1> QED
  BY <1>1, ProcessorArrives DEF Releases

\* It moves and leaves the lock as it is.
LEMMA ProcessorSuspends ==
    ASSUME IInv, NEW l \in Labels, pc["proc"] \in InLock => l \in InLock,
           Suspends("proc", l), Arrives(l), ProcFrame
    PROVE  IInv'
<1>1. Locked'
  BY LockedStay DEF IInv, Locked, Coroutines, Suspends, Goto
<1> QED
  BY <1>1, ProcessorArrives DEF Suspends

\* Each of its remaining steps is such a move, and room is found before submission.
LEMMA ProcessorMoves ==
    ASSUME IInv, UNCHANGED trainVars,
           \/ ProcMarkPaused \/ ProcReap \/ ProcReapLocked \/ ProcReapWait
           \/ ProcIdle \/ ProcNotified \/ Stop
    PROVE  IInv'
<1> USE DEF IInv, Handed, Submits, Arrives, InLock, Labels
<1>1. CASE ProcMarkPaused
  <2>1. pc["proc"] = "mark" /\ Holds("proc") /\ ProcFrame
    BY <1>1 DEF ProcMarkPaused, At, Within, ProcFrame, procVars, taskVars, mqVars, trainVars
  <2>2. CASE Releases("proc", "reap", "proc")
    BY <2>1, <2>2, ProcessorReleases
  <2> QED
    BY <1>1, <2>2 DEF ProcMarkPaused
<1>2. CASE ProcReap
  <2>1. pc["proc"] = "reap" /\ UNCHANGED loop /\ ProcFrame
    BY <1>2 DEF ProcReap, At, Within, ProcFrame, procVars, taskVars, mqVars, trainVars
  <2>2. CASE Acquires("proc", "reapLock")
    BY <2>1, <2>2, ProcessorAcquires
  <2>3. CASE Acquires("proc", "idleLock") /\ loop = "drain"
    BY <2>1, <2>3, ProcessorAcquires
  <2>4. CASE Acquires("proc", "submit") /\ ActiveTasks < MaxConcurrentSamples
    BY <2>1, <2>4, ProcessorAcquires
  <2>5. CASE Suspends("proc", "finish")
    BY <2>1, <2>5, ProcessorSuspends
  <2> QED
    BY <1>2, <2>2, <2>3, <2>4, <2>5, ReapEnds DEF ProcReap
<1>3. CASE ProcReapLocked
  <2>1. pc["proc"] = "reapLock" /\ Holds("proc") /\ UNCHANGED loop /\ ProcFrame
    BY <1>3 DEF ProcReapLocked, At, Within, ProcFrame, procVars, taskVars, mqVars, trainVars
  <2>2. CASE Suspends("proc", "reapWait")
    BY <2>1, <2>2, ProcessorSuspends
  <2>3. CASE Releases("proc", "reap", "proc")
    BY <2>1, <2>3, ProcessorReleases
  <2>4. CASE Releases("proc", "finish", "none")
    BY <2>1, <2>4, ProcessorReleases
  <2> QED
    BY <1>3, <2>2, <2>3, <2>4 DEF ProcReapLocked
<1>4. CASE ProcReapWait
  <2>1. pc["proc"] = "reapWait" /\ Holds("proc") /\ UNCHANGED loop /\ ProcFrame
    BY <1>4 DEF ProcReapWait, Reap, At, Within, ProcFrame, procVars, taskVars, mqVars, trainVars
  <2>2. CASE Releases("proc", "reap", "proc")
    BY <2>1, <2>2, ProcessorReleases
  <2> QED
    BY <1>4, <2>2 DEF ProcReapWait, Reap
<1>5. CASE ProcIdle
  <2>1. pc["proc"] = "idleLock" /\ Holds("proc") /\ UNCHANGED loop /\ ProcFrame
    BY <1>5 DEF ProcIdle, At, Within, ProcFrame, procVars, taskVars, mqVars, trainVars
  <2>2. CASE Releases("proc", "idle", "none")
    BY <2>1, <2>2, ProcessorReleases
  <2>3. CASE Releases("proc", "top", "proc")
    BY <2>1, <2>3, ProcessorReleases
  <2> QED
    BY <1>5, <2>2, <2>3 DEF ProcIdle
<1>6. CASE ProcNotified
  <2>1. pc["proc"] = "notified" /\ UNCHANGED loop /\ ProcFrame
    BY <1>6 DEF ProcNotified, At, Within, ProcFrame, procVars, taskVars, mqVars, trainVars
  <2>2. CASE Acquires("proc", "idleLock") /\ hand = NoSample
    BY <2>1, <2>2, ProcessorAcquires
  <2>3. CASE Acquires("proc", "submit") /\ hand # NoSample
    BY <2>1, <2>3, ProcessorAcquires
  <2> QED
    BY <1>6, <2>2, <2>3 DEF ProcNotified
<1>7. CASE Stop
  <2>1. pc["proc"] = "stop" /\ Holds("proc") /\ UNCHANGED loop /\ ProcFrame
    BY <1>7 DEF Stop, At, Within, ProcFrame, procVars, taskVars, mqVars, trainVars
  <2>2. CASE Releases("proc", "ended", "none")
    BY <2>1, <2>2, ProcessorReleases
  <2> QED
    BY <1>7, <2>2 DEF Stop
<1> QED
  BY <1>1, <1>2, <1>3, <1>4, <1>5, <1>6, <1>7

\* Every step of the processor keeps the invariant.
LEMMA ProcessorStep == ASSUME IInv, Processor, UNCHANGED trainVars PROVE IInv'
BY ProcTopStep, ProcGetStep, ProcSubmitStep, FinishStep, ProcessorMoves DEF Processor

-----------------------------------------------------------------------------
\* The invariant holds when both actors start.
LEMMA InitIInv == Init => IInv
<1> SUFFICES ASSUME Init PROVE IInv
  OBVIOUS
<1> USE DEF Init, RolloutInit
<1>1. Queued
  BY Sizes DEF Queued, MQInit
<1>2. Fed
  BY Sizes DEF Fed
<1>3. Locked
  BY DEF Locked, Coroutines, Labels
<1>4. Tasks
  BY DEF Tasks, TaskStates
<1>5. Limited
  <2>1. Live = {} /\ ~Submits
    BY DEF Live, Submits
  <2>2. ActiveTasks = 0
    BY <2>1, FS_EmptySet DEF ActiveTasks
  <2> QED
    BY <2>1, <2>2, Sizes DEF Limited
<1>6. Handed /\ Called
  BY DEF Handed, Called, TrainInit, LastValid
<1> QED
  BY <1>1, <1>2, <1>3, <1>4, <1>5, <1>6 DEF IInv

\* Every step of every process keeps it.
LEMMA NextIInv == IInv /\ [Next]_vars => IInv'
<1> SUFFICES ASSUME IInv, [Next]_vars PROVE IInv'
  OBVIOUS
<1>1. CASE Rollouter /\ UNCHANGED trainVars
  <2>1. CASE Feed
    BY <1>1, <2>1, FeedStep
  <2>2. CASE Processor
    BY <1>1, <2>2, ProcessorStep
  <2>3. CASE Monitor
    BY <1>1, <2>3, MonitorStep
  <2>4. CASE Pause
    BY <1>1, <2>4, PauseStep
  <2>5. CASE Update(syncVersion)
    BY <1>1, <2>5, UpdateStep
  <2>6. CASE Resume
    BY <1>1, <2>6, ResumeStep
  <2>7. CASE \E s \in Samples : Task(s)
    BY <1>1, <2>7, TaskStep
  <2> QED
    BY <1>1, <2>1, <2>2, <2>3, <2>4, <2>5, <2>6, <2>7 DEF Rollouter
<1>2. CASE Trainer
  BY <1>2, TrainerStep
<1>3. CASE UNCHANGED vars
  <2>1. UNCHANGED <<rolloutVars, queue, trainPc>>
    BY <1>3 DEF vars, mqVars, trainVars
  <2>2. UNCHANGED <<lock, pc, fed, taken, hand, loop, cancelQueue, task, finished>>
    BY <2>1 DEF rolloutVars, loopVars, procVars, taskVars
  <2>3. Queued' /\ Fed' /\ Locked' /\ Tasks' /\ Handed' /\ Called'
    BY <2>1, <2>2 DEF IInv, Queued, Fed, Locked, Tasks, Handed, Called, LastValid
  <2>4. Limited'
    BY <2>2 DEF IInv, Limited, ActiveTasks, Live, Submits
  <2> QED
    BY <2>3, <2>4 DEF IInv
<1> QED
  BY <1>1, <1>2, <1>3 DEF Next, Ended

-----------------------------------------------------------------------------
(***************************************************************************)
(* For every size of queue, budget and limit, and whether or not tasks are *)
(* interrupted: put_sample keeps the queue within its size, the unreaped   *)
(* tasks never exceed max_concurrent_samples although the processor tests  *)
(* the limit before it waits for the lock, and no coroutine is in the      *)
(* queue of the lock twice.                                                *)
(***************************************************************************)
THEOREM TypeCorrect == Spec => []TypeOK
<1>1. IInv => TypeOK
  <2> SUFFICES ASSUME IInv PROVE TypeOK
    OBVIOUS
  <2>1. \A i \in 1..Len(lock) : lock[i] \in Coroutines
    BY DEF IInv, Locked
  <2> QED
    BY <2>1 DEF IInv, Queued, Fed, Locked, Tasks, TaskStates, Limited, TypeOK, Coroutines
<1> QED
  BY <1>1, InitIInv, NextIInv, PTL DEF Spec

-----------------------------------------------------------------------------
(* Where the samples are                                                   *)

Spent == trained \cup dropped

\* The samples among the entries of a queue, and that none is there twice.
Entries(q) == {q[i] : i \in DOMAIN q} \ {EndSignal}
Unrepeated(q) == \A i, j \in 1..Len(q) : i # j => q[i] # q[j] \/ q[i] = EndSignal

\* The places a sample can be in have nothing in common.
Apart ==
    /\ InHand \cap (Underway \cup Interrupted \cup InQueue \cup batch \cup Spent) = {}
    /\ Underway \cap (Interrupted \cup InQueue \cup batch \cup Spent) = {}
    /\ Interrupted \cap (InQueue \cup batch \cup Spent) = {}
    /\ InQueue \cap (batch \cup Spent) = {}
    /\ batch \cap Spent = {}

\* What the processor has not taken is nowhere yet.
OnlyTaken ==
    /\ InHand \cup Underway \cup Interrupted \cup InQueue \cup batch \cup trained
         \subseteq Taken
    /\ dropped \subseteq Taken \cup {EndSignal}

Covered ==
    EndSeen \/ Taken \subseteq InHand \cup Underway \cup Interrupted \cup InQueue
                                 \cup batch \cup Spent

\* The processor asks for a sample only with empty hands.
Placed ==
    /\ Apart /\ OnlyTaken /\ Covered
    /\ Unrepeated(queue) /\ Unrepeated(cancelQueue)
    /\ pc["proc"] = "get" => hand = NoSample

\* An entry that goes to the end of a queue.
LEMMA AppendEntries ==
    ASSUME NEW S, NEW q \in Seq(S), NEW e \in S, Unrepeated(q),
           e \notin Entries(q)
    PROVE  Unrepeated(Append(q, e)) /\ Entries(Append(q, e)) = Entries(q) \cup ({e} \ {EndSignal})
<1> DEFINE r == Append(q, e)
<1>1. /\ r \in Seq(S) /\ Len(q) \in Nat /\ Len(r) = Len(q) + 1 /\ r[Len(q) + 1] = e
      /\ \A i \in 1..Len(q) : r[i] = q[i]
  OBVIOUS
<1>2. DOMAIN q = 1..Len(q) /\ DOMAIN r = 1..Len(r)
  BY <1>1
<1> HIDE DEF r
<1>3. 1..Len(r) = 1..Len(q) \cup {Len(q) + 1}
  BY <1>1
<1>4. {r[i] : i \in DOMAIN r} = {q[i] : i \in DOMAIN q} \cup {e}
  BY <1>1, <1>2, <1>3
<1>5. Unrepeated(r)
  BY <1>1, <1>2, <1>3 DEF Unrepeated, Entries
<1>6. Entries(r) = Entries(q) \cup ({e} \ {EndSignal})
  BY <1>4 DEF Entries
<1> QED
  BY <1>5, <1>6 DEF r

\* The entry at the head leaves.
LEMMA TailEntries ==
    ASSUME NEW S, NEW q \in Seq(S), q # <<>>, Unrepeated(q)
    PROVE  /\ Unrepeated(Tail(q)) /\ Entries(Tail(q)) = Entries(q) \ {Head(q)}
           /\ Head(q) \in Entries(q) \cup {EndSignal} /\ Tail(q) \in Seq(S)
<1> DEFINE r == Tail(q)
<1>1. /\ r \in Seq(S) /\ Len(q) \in Nat \ {0} /\ Len(r) = Len(q) - 1 /\ Head(q) = q[1]
      /\ \A i \in 1..Len(r) : r[i] = q[i + 1]
  OBVIOUS
<1>2. DOMAIN q = 1..Len(q) /\ DOMAIN r = 1..Len(r)
  BY <1>1
<1> HIDE DEF r
<1>3. Unrepeated(r)
  <2>1. ASSUME NEW i \in 1..Len(r), NEW j \in 1..Len(r), i # j
        PROVE  r[i] # r[j] \/ r[i] = EndSignal
    <3>1. i + 1 \in 1..Len(q) /\ j + 1 \in 1..Len(q) /\ i + 1 # j + 1
      BY <1>1, <2>1
    <3> QED
      BY <1>1, <3>1 DEF Unrepeated
  <2> QED
    BY <2>1 DEF Unrepeated
<1>4. ASSUME NEW x
      PROVE  x \in Entries(r) <=> x \in Entries(q) \ {Head(q)}
  <2>1. ASSUME x \in Entries(r) PROVE x \in Entries(q) \ {Head(q)}
    <3>1. PICK i \in 1..Len(r) : x = r[i]
      BY <1>2, <2>1 DEF Entries
    <3>2. i + 1 \in 1..Len(q) /\ 1 \in 1..Len(q) /\ i + 1 # 1 /\ x = q[i + 1]
      BY <1>1, <3>1
    <3>3. x # EndSignal
      BY <2>1 DEF Entries
    <3>4. q[i + 1] # q[1]
      BY <3>2, <3>3 DEF Unrepeated
    <3> QED
      BY <1>1, <1>2, <3>2, <3>3, <3>4 DEF Entries
  <2>2. ASSUME x \in Entries(q) \ {Head(q)} PROVE x \in Entries(r)
    <3>1. PICK i \in 1..Len(q) : x = q[i]
      BY <1>2, <2>2 DEF Entries
    <3>2. i # 1 /\ x # EndSignal
      BY <1>1, <2>2, <3>1 DEF Entries
    <3>3. i - 1 \in 1..Len(r) /\ r[i - 1] = q[i]
      <4>1. i - 1 \in 1..Len(r) /\ (i - 1) + 1 = i
        BY <1>1, <3>2
      <4> QED
        BY <1>1, <4>1
    <3> QED
      BY <1>2, <3>1, <3>2, <3>3 DEF Entries
  <2> QED
    BY <2>1, <2>2
<1>5. Head(q) \in Entries(q) \cup {EndSignal}
  BY <1>1, <1>2 DEF Entries
<1> QED
  BY <1>1, <1>3, <1>4, <1>5 DEF r

\* The message queue takes in what it is given and drops from its other end.
LEMMA PutEntries ==
    ASSUME Queued, Unrepeated(queue), NEW s \in Samples \cup {EndSignal},
           s \notin InQueue, PutSample(s)
    PROVE  /\ Unrepeated(queue')
           /\ \E gone \in SUBSET (InQueue \cup {EndSignal}) :
                /\ InQueue' = (InQueue \ gone) \cup ({s} \ {EndSignal})
                /\ dropped' = dropped \cup gone
<1>1. InQueue = Entries(queue) /\ InQueue' = Entries(queue')
  BY DEF InQueue, Entries
<1>2. queue \in Seq(Samples \cup {EndSignal}) /\ MaxQueueSize \in Nat \ {0}
  BY Sizes DEF Queued
<1>3. CASE Len(queue) >= MaxQueueSize
  <2>1. queue' = Append(Tail(queue), s) /\ dropped' = dropped \cup {Head(queue)}
    BY <1>3 DEF PutSample
  <2>2. queue # <<>>
    BY <1>2, <1>3
  <2>3. /\ Unrepeated(Tail(queue)) /\ Entries(Tail(queue)) = InQueue \ {Head(queue)}
        /\ Head(queue) \in InQueue \cup {EndSignal}
        /\ Tail(queue) \in Seq(Samples \cup {EndSignal})
    BY <1>1, <1>2, <2>2, TailEntries
  <2>4. /\ Unrepeated(queue')
        /\ InQueue' = (InQueue \ {Head(queue)}) \cup ({s} \ {EndSignal})
    <3>1. s \notin Entries(Tail(queue))
      BY <2>3
    <3>2. ASSUME NEW q \in Seq(Samples \cup {EndSignal}), Unrepeated(q), s \notin Entries(q)
          PROVE  /\ Unrepeated(Append(q, s))
                 /\ Entries(Append(q, s)) = Entries(q) \cup ({s} \ {EndSignal})
      BY <3>2, AppendEntries
    <3>3. /\ Unrepeated(Append(Tail(queue), s))
          /\ Entries(Append(Tail(queue), s)) = Entries(Tail(queue)) \cup ({s} \ {EndSignal})
      BY <2>3, <3>1, <3>2
    <3> QED
      BY <1>1, <2>1, <2>3, <3>3
  <2>5. {Head(queue)} \in SUBSET (InQueue \cup {EndSignal})
    BY <2>3
  <2> QED
    BY <2>1, <2>4, <2>5
<1>4. CASE ~(Len(queue) >= MaxQueueSize)
  <2>1. queue' = Append(queue, s) /\ dropped' = dropped
    BY <1>4 DEF PutSample
  <2>2. Unrepeated(queue') /\ InQueue' = InQueue \cup ({s} \ {EndSignal})
    BY <1>1, <1>2, <2>1, AppendEntries
  <2>3. {} \in SUBSET (InQueue \cup {EndSignal}) /\ InQueue \ {} = InQueue
    OBVIOUS
  <2> QED
    BY <2>1, <2>2, <2>3
<1> QED
  BY <1>3, <1>4

-----------------------------------------------------------------------------
\* Nothing moves.
LEMMA NothingMoves ==
    ASSUME Placed,
           UNCHANGED <<hand, taken, Underway, cancelQueue, queue, dropped, batch, trained>>,
           EndSeen => EndSeen', pc'["proc"] = "get" => pc["proc"] = "get" \/ hand = NoSample
    PROVE  Placed'
<1>1. UNCHANGED <<InHand, Interrupted, InQueue, Taken, Spent>>
  BY DEF InHand, Interrupted, InQueue, Taken, Spent
<1> QED
  BY <1>1 DEF Placed, Apart, OnlyTaken, Covered

\* What the trainer has is as it was.
LEMMA TrainerHas ==
    ASSUME UNCHANGED trainVars
    PROVE  UNCHANGED <<batch, trained>> /\ EndSeen' = EndSeen
BY DEF trainVars, EndSeen

\* Another coroutine keeps its hands off the samples.
LEMMA OthersPlaced ==
    ASSUME IInv, Placed, Feed \/ Monitor \/ Pause \/ Update(syncVersion) \/ Resume,
           UNCHANGED trainVars
    PROVE  Placed'
<1> USE DEF mqVars, procVars, taskVars, loopVars
<1>1. pc \in [Coroutines -> Labels]
  BY DEF IInv, Locked
<1>2. UNCHANGED <<hand, taken, task, cancelQueue, queue, dropped>>
  <2>1. CASE Feed
    BY <2>1 DEF Feed
  <2>2. CASE Monitor
    BY <2>2 DEF Monitor, MonitorTop, MonitorCheckRunning, MonitorWake, MonitorRecover
  <2>3. CASE Pause
    BY <2>3 DEF Pause, PauseLock, PauseSet, PauseCancel, PauseGather, PauseReturn
  <2>4. CASE Update(syncVersion)
    BY <2>4 DEF Update, UpdateLock, UpdateCount, CountTasks, UpdateSize, UpdateReturn, UpdateEnds
  <2>5. CASE Resume
    BY <2>5 DEF Resume, ResumeLock, ResumeServers, ResumeReturn
  <2> QED
    BY <2>1, <2>2, <2>3, <2>4, <2>5
<1>3. pc'["proc"] = "get" => pc["proc"] = "get"
  <2> USE <1>1 DEF Goto, Acquires, Releases, Suspends, Continues, Coroutines
  <2>1. CASE Feed
    BY <2>1 DEF Feed
  <2>2. CASE Monitor
    BY <2>2 DEF Monitor, MonitorTop, MonitorCheckRunning, MonitorWake, MonitorRecover, Notified
  <2>3. CASE Pause
    BY <2>3 DEF Pause, PauseLock, PauseSet, PauseCancel, PauseGather, PauseReturn
  <2>4. CASE Update(syncVersion)
    BY <2>4 DEF Update, UpdateLock, UpdateCount, CountTasks, UpdateSize, UpdateReturn, UpdateEnds
  <2>5. CASE Resume
    BY <2>5 DEF Resume, ResumeLock, ResumeServers, ResumeReturn, Notified
  <2> QED
    BY <2>1, <2>2, <2>3, <2>4, <2>5
<1>4. Underway' = Underway
  BY <1>2 DEF Underway, Live
<1> QED
  BY <1>2, <1>3, <1>4, TrainerHas, NothingMoves

\* A task keeps its sample until it puts it into one of the two queues.
LEMMA TaskPlaced ==
    ASSUME IInv, Placed, NEW s \in Samples, Task(s), UNCHANGED trainVars
    PROVE  Placed'
<1>1. UNCHANGED <<hand, taken, pc, InHand, Taken>>
  BY TaskBecomes DEF Becomes, loopVars, procVars, InHand, Taken
<1>2. UNCHANGED <<batch, trained>> /\ EndSeen' = EndSeen
  BY TrainerHas
<1>3. task \in [Samples -> TaskStates]
  BY DEF IInv, Tasks
<1>4. s \notin {EndSignal}
  BY Sizes
<1>5. CASE TaskPut(s)
  <2>1. /\ task[s] = "putting" /\ task' = [task EXCEPT ![s] = "put"]
        /\ PutSample(s) /\ UNCHANGED cancelQueue
    BY <1>5 DEF TaskPut, Becomes
  <2>2. s \in Underway /\ Underway' = Underway \ {s}
    BY <1>3, <2>1 DEF Underway, Live
  <2>3. s \notin InQueue /\ Interrupted' = Interrupted
    BY <2>1, <2>2 DEF Placed, Apart, Interrupted
  <2>4. Unrepeated(queue')
    BY <2>1, <2>3, PutEntries DEF IInv, Placed
  <2>5. PICK gone \in SUBSET (InQueue \cup {EndSignal}) :
          /\ InQueue' = (InQueue \ gone) \cup ({s} \ {EndSignal})
          /\ dropped' = dropped \cup gone
    BY <2>1, <2>3, PutEntries DEF IInv, Placed
  <2>6. EndSignal \notin Samples /\ Taken \subseteq Samples
    BY Sizes DEF Taken
  <2>7. Apart' /\ OnlyTaken' /\ Covered'
    BY <1>1, <1>2, <1>4, <2>2, <2>3, <2>5, <2>6 DEF Placed, Apart, OnlyTaken, Covered, Spent
  <2> QED
    BY <1>1, <2>1, <2>4, <2>7 DEF Placed
<1>6. CASE TaskCancelled(s)
  <2>1. /\ task[s] = "interrupted" /\ task' = [task EXCEPT ![s] = "none"]
        /\ cancelQueue' = Append(cancelQueue, s) /\ UNCHANGED <<queue, dropped>>
    BY <1>6 DEF TaskCancelled, Becomes, mqVars
  <2>2. s \in Underway /\ Underway' = Underway \ {s}
    BY <1>3, <2>1 DEF Underway, Live
  <2>3. cancelQueue \in Seq(Samples) /\ cancelQueue' \in Seq(Samples)
    BY <2>1 DEF IInv, Queued
  <2>4. Entries(cancelQueue) = Interrupted /\ Entries(cancelQueue') = Interrupted'
    BY <1>4, <2>3, Sizes DEF Entries, Interrupted
  <2>5. s \notin Interrupted
    BY <2>2 DEF Placed, Apart
  <2>6. Unrepeated(cancelQueue') /\ Interrupted' = Interrupted \cup {s}
    BY <1>4, <2>1, <2>3, <2>4, <2>5, AppendEntries DEF Placed
  <2>7. UNCHANGED <<InQueue, Spent>>
    BY <1>2, <2>1 DEF InQueue, Spent
  <2>8. Apart' /\ OnlyTaken' /\ Covered'
    BY <1>1, <1>2, <2>1, <2>2, <2>6, <2>7 DEF Placed, Apart, OnlyTaken, Covered
  <2> QED
    BY <1>1, <2>1, <2>6, <2>8 DEF Placed
<1>7. CASE TaskStart(s) \/ TaskArrive(s) \/ TaskInterrupt(s) \/ TaskGenerated(s) \/ TaskReturn(s)
  <2>1. UNCHANGED <<cancelQueue, queue, dropped>>
    BY <1>7 DEF TaskStart, TaskArrive, TaskInterrupt, TaskGenerated, TaskReturn, mqVars
  <2>2. Underway' = Underway
    BY <1>3, <1>7 DEF TaskStart, TaskArrive, TaskInterrupt, TaskGenerated, TaskReturn,
                      Becomes, Underway, Live
  <2> QED
    BY <1>1, <1>2, <2>1, <2>2, NothingMoves
<1> QED
  BY <1>5, <1>6, <1>7 DEF Task

\* The processor takes from either queue with empty hands, and hands on to a task.
LEMMA ProcessorPlaced ==
    ASSUME IInv, Placed, Processor, UNCHANGED trainVars
    PROVE  Placed'
<1> USE DEF mqVars, procVars, taskVars, Goto
<1>1. pc \in [Coroutines -> Labels] /\ task \in [Samples -> TaskStates]
  BY DEF IInv, Locked, Tasks
<1>2. UNCHANGED <<batch, trained>> /\ EndSeen' = EndSeen
  BY TrainerHas
<1>3. /\ Taken \subseteq Samples /\ EndSignal \notin Samples /\ NoSample \notin Samples
      /\ Done \notin Samples
  BY Sizes DEF Taken
<1>4. CASE ProcTop /\ cancelQueue # <<>> /\ hand' = Head(cancelQueue)
                   /\ cancelQueue' = Tail(cancelQueue) /\ Continues("proc", "reap")
  <2>1. /\ hand = NoSample /\ hand' = Head(cancelQueue) /\ cancelQueue' = Tail(cancelQueue)
        /\ cancelQueue # <<>> /\ pc'["proc"] = "reap"
        /\ UNCHANGED <<taken, task, queue, dropped>>
    BY <1>1, <1>4 DEF ProcTop, At, Continues, IInv, Handed, Coroutines
  <2>2. cancelQueue \in Seq(Samples)
    BY DEF IInv, Queued
  <2>3. /\ Unrepeated(cancelQueue') /\ Entries(cancelQueue') = Entries(cancelQueue) \ {hand'}
        /\ hand' \in Entries(cancelQueue) \cup {EndSignal}
        /\ cancelQueue' \in Seq(Samples) /\ hand' \in Samples
    BY <2>1, <2>2, TailEntries DEF Placed
  <2>4. Entries(cancelQueue) = Interrupted /\ Entries(cancelQueue') = Interrupted'
    BY <1>3, <2>2, <2>3 DEF Entries, Interrupted
  <2>5. InHand = {} /\ InHand' = {hand'} /\ hand' \in Interrupted
    BY <1>3, <2>1, <2>3, <2>4 DEF InHand
  <2>6. UNCHANGED <<Underway, InQueue, Spent, Taken>>
    BY <1>2, <2>1 DEF Underway, Live, InQueue, Spent, Taken
  <2>7. Apart' /\ OnlyTaken' /\ Covered'
    BY <1>2, <2>1, <2>3, <2>4, <2>5, <2>6 DEF Placed, Apart, OnlyTaken, Covered
  <2> QED
    BY <2>1, <2>3, <2>7 DEF Placed
<1>5. CASE ProcGet
  <2>1. /\ pc["proc"] = "get" /\ taken' = taken + 1 /\ hand' = taken + 1
        /\ pc'["proc"] = "reap"
        /\ UNCHANGED <<task, cancelQueue, queue, dropped>>
    BY <1>1, <1>5 DEF ProcGet, Take, At, Continues, Coroutines
  <2>2. taken \in Nat
    BY DEF IInv, Fed
  <2>3. /\ InHand = {} /\ InHand' = {taken + 1} \cap Samples
        /\ Taken' = Taken \cup InHand' /\ InHand' \cap Taken = {}
    <3>1. hand = NoSample
      BY <2>1 DEF Placed
    <3>2. 1..(taken + 1) = 1..taken \cup {taken + 1} /\ taken + 1 \notin 1..taken
      BY <2>2
    <3> QED
      BY <1>3, <2>1, <3>1, <3>2 DEF InHand, Taken
  <2>4. UNCHANGED <<Underway, Interrupted, InQueue, Spent>>
    BY <1>2, <2>1 DEF Underway, Live, Interrupted, InQueue, Spent
  <2>5. /\ Underway \cup Interrupted \cup InQueue \cup batch \cup trained \subseteq Taken
        /\ Spent \subseteq Taken \cup {EndSignal} /\ EndSignal \notin InHand'
    BY <1>3, <2>3 DEF Placed, OnlyTaken, Spent
  <2>6. Apart' /\ OnlyTaken' /\ Covered'
    <3>1. Apart'
      BY <1>2, <2>3, <2>4, <2>5 DEF Placed, Apart
    <3>2. OnlyTaken'
      BY <1>2, <2>1, <2>3, <2>4, <2>5 DEF Placed, OnlyTaken
    <3>3. Covered'
      BY <1>2, <2>3, <2>4 DEF Placed, Covered
    <3> QED
      BY <3>1, <3>2, <3>3
  <2> QED
    BY <2>1, <2>6 DEF Placed
<1>6. CASE ProcSubmit /\ hand' = NoSample /\ task' = [task EXCEPT ![hand] = "start"]
  <2>1. /\ hand' = NoSample /\ task' = [task EXCEPT ![hand] = "start"]
        /\ pc'["proc"] # "get"
        /\ UNCHANGED <<taken, cancelQueue, queue, dropped>>
    BY <1>1, <1>6 DEF ProcSubmit, Within, Releases, Coroutines
  <2>2. InHand' = {} /\ Underway' = Underway \cup InHand
    BY <1>1, <1>3, <2>1 DEF InHand, Underway, Live
  <2>3. UNCHANGED <<Interrupted, InQueue, Spent, Taken>>
    BY <1>2, <2>1 DEF Interrupted, InQueue, Spent, Taken
  <2>4. Apart' /\ OnlyTaken' /\ Covered'
    BY <1>2, <2>1, <2>2, <2>3 DEF Placed, Apart, OnlyTaken, Covered
  <2> QED
    BY <2>1, <2>4 DEF Placed
<1>7. CASE Finish
  <2>1. /\ PutSample(EndSignal) /\ pc'["proc"] = "stop"
        /\ UNCHANGED <<hand, taken, task, cancelQueue>>
    BY <1>1, <1>7 DEF Finish, Acquires, Coroutines
  <2>2. UNCHANGED <<InHand, Underway, Interrupted, Taken>>
    BY <2>1 DEF InHand, Underway, Live, Interrupted, Taken
  <2>3. EndSignal \notin InQueue
    BY DEF InQueue
  <2>4. Unrepeated(queue')
    BY <2>1, <2>3, PutEntries DEF IInv, Placed
  <2>5. PICK gone \in SUBSET (InQueue \cup {EndSignal}) :
          /\ InQueue' = (InQueue \ gone) \cup ({EndSignal} \ {EndSignal})
          /\ dropped' = dropped \cup gone
    BY <2>1, <2>3, PutEntries DEF IInv, Placed
  <2>6. Apart' /\ OnlyTaken' /\ Covered'
    BY <1>2, <1>3, <2>2, <2>3, <2>5 DEF Placed, Apart, OnlyTaken, Covered, Spent
  <2> QED
    BY <2>1, <2>4, <2>6 DEF Placed
<1>8. CASE /\ UNCHANGED <<hand, taken, task, cancelQueue, queue, dropped>>
           /\ pc'["proc"] = "get" => pc["proc"] = "get" \/ hand = NoSample
  <2>1. Underway' = Underway
    BY <1>8 DEF Underway, Live
  <2> QED
    BY <1>2, <1>8, <2>1, NothingMoves
<1>9. CASE ProcTop
  <2>1. pc["proc"] = "top" /\ hand = NoSample /\ UNCHANGED <<taken, task, queue, dropped>>
    BY <1>9 DEF ProcTop, At, IInv, Handed
  <2>2. \/ UNCHANGED <<hand, cancelQueue>>
        \/ /\ cancelQueue # <<>> /\ hand' = Head(cancelQueue)
           /\ cancelQueue' = Tail(cancelQueue) /\ Continues("proc", "reap")
    BY <1>9 DEF ProcTop
  <2> QED
    BY <1>4, <1>8, <1>9, <2>1, <2>2
<1>10. CASE ProcSubmit
  <2>1. UNCHANGED <<taken, cancelQueue, queue, dropped>>
    BY <1>10 DEF ProcSubmit
  <2>2. \/ UNCHANGED <<hand, task>> /\ pc'["proc"] = "idle"
        \/ hand' = NoSample /\ task' = [task EXCEPT ![hand] = "start"]
    BY <1>1, <1>10 DEF ProcSubmit, Releases, Coroutines
  <2> QED
    BY <1>6, <1>8, <1>10, <2>1, <2>2
<1>11. CASE \/ ProcMarkPaused \/ ProcReap \/ ProcReapLocked \/ ProcReapWait
            \/ ProcIdle \/ ProcNotified \/ Stop
  <2> USE <1>1 DEF Acquires, Releases, Suspends, Coroutines
  <2>1. CASE ProcMarkPaused \/ ProcReap \/ ProcReapLocked
    BY <1>8, <2>1 DEF ProcMarkPaused, ProcReap, ProcReapLocked
  <2>2. CASE ProcReapWait \/ ProcIdle \/ ProcNotified \/ Stop
    BY <1>8, <2>2 DEF ProcReapWait, Reap, ProcIdle, ProcNotified, Stop
  <2> QED
    BY <1>11, <2>1, <2>2
<1> QED
  BY <1>5, <1>7, <1>9, <1>10, <1>11 DEF Processor

\* The trainer takes samples out of the queue, trains them, and at the end
\* signal throws away those it has.
LEMMA TrainerPlaced ==
    ASSUME IInv, Placed, Trainer
    PROVE  Placed'
<1>1. CASE CollectSample
  <2>1. /\ queue # <<>> /\ queue' = Tail(queue)
        /\ trainPc = "collect"
        /\ UNCHANGED <<hand, taken, task, cancelQueue, pc, dropped, trained, final>>
    BY <1>1 DEF CollectSample, GetSample, rolloutVars, procVars, taskVars, loopVars
  <2>2. queue \in Seq(Samples \cup {EndSignal})
    BY DEF IInv, Queued
  <2>3. InQueue = Entries(queue) /\ InQueue' = Entries(queue')
    BY DEF InQueue, Entries
  <2>4. /\ Unrepeated(queue') /\ InQueue' = InQueue \ {Head(queue)}
        /\ Head(queue) \in InQueue \cup {EndSignal}
    BY <2>1, <2>2, <2>3, TailEntries DEF Placed
  <2>5. UNCHANGED <<InHand, Underway, Interrupted, Spent, Taken>>
    BY <2>1 DEF InHand, Underway, Live, Interrupted, Spent, Taken
  <2>6. EndSignal \notin InQueue
    BY DEF InQueue
  <2>7. CASE Head(queue) = EndSignal
    <3>1. batch' = {} /\ EndSeen'
      BY <1>1, <2>7 DEF CollectSample, EndSeen
    <3>2. Apart' /\ OnlyTaken' /\ Covered'
      BY <2>1, <2>4, <2>5, <3>1 DEF Placed, Apart, OnlyTaken, Covered
    <3> QED
      BY <2>1, <2>4, <3>2 DEF Placed
  <2>8. CASE Head(queue) # EndSignal
    <3>1. batch' = batch \cup {Head(queue)} /\ Head(queue) \in InQueue
      BY <1>1, <2>4, <2>8 DEF CollectSample
    <3>2. EndSeen => EndSeen'
      BY <2>1 DEF EndSeen
    <3>3. Apart' /\ OnlyTaken' /\ Covered'
      BY <2>1, <2>4, <2>5, <3>1, <3>2 DEF Placed, Apart, OnlyTaken, Covered
    <3> QED
      BY <2>1, <2>4, <3>3 DEF Placed
  <2> QED
    BY <2>7, <2>8
<1>2. CASE TrainStep
  <2>1. /\ trainPc = "train" /\ trained' = trained \cup batch /\ batch' = {}
        /\ UNCHANGED <<hand, taken, task, cancelQueue, pc, queue, dropped, final>>
    BY <1>2 DEF TrainStep, rolloutVars, procVars, taskVars, loopVars, mqVars
  <2>2. UNCHANGED <<InHand, Underway, Interrupted, InQueue, Taken>>
    BY <2>1 DEF InHand, Underway, Live, Interrupted, InQueue, Taken
  <2>3. EndSeen => EndSeen'
    BY <2>1 DEF EndSeen
  <2>4. Apart' /\ OnlyTaken' /\ Covered'
    BY <2>1, <2>2, <2>3 DEF Placed, Apart, OnlyTaken, Covered, Spent
  <2> QED
    BY <2>1, <2>4 DEF Placed
<1>3. CASE FinalSync \/ TrainEnd
  <2>1. UNCHANGED <<hand, taken, task, cancelQueue, queue, dropped, batch, trained, pc>>
    BY <1>3 DEF FinalSync, TrainEnd, rolloutVars, procVars, taskVars, loopVars, mqVars
  <2>2. EndSeen => EndSeen'
    BY <1>3 DEF FinalSync, TrainEnd, EndSeen
  <2>3. Underway' = Underway
    BY <2>1 DEF Underway, Live
  <2> QED
    BY <2>1, <2>2, <2>3, NothingMoves
<1>4. CASE SyncWeights
  <2>1. UNCHANGED <<hand, taken, task, cancelQueue, queue, dropped, batch, trained, final>>
    BY <1>4 DEF SyncWeights, SyncPause, SyncStart, SyncEnd, SyncFrame, procVars, taskVars, mqVars
  <2>2. EndSeen => EndSeen'
    BY <1>4, <2>1 DEF SyncWeights, SyncPause, SyncStart, SyncEnd, EndSeen
  <2>3. Underway' = Underway
    BY <2>1 DEF Underway, Live
  <2>4. pc'["proc"] = pc["proc"]
    BY <1>4 DEF SyncWeights, SyncPause, SyncStart, SyncEnd, Goto, IInv, Locked, Coroutines
  <2> QED
    BY <2>1, <2>2, <2>3, <2>4, NothingMoves
<1> QED
  BY <1>1, <1>2, <1>3, <1>4 DEF Trainer

-----------------------------------------------------------------------------
\* Nothing is anywhere at the start.
LEMMA InitPlaced == Init => Placed
<1> SUFFICES ASSUME Init PROVE Placed
  OBVIOUS
<1> USE DEF Init, RolloutInit, MQInit, TrainInit
<1>1. /\ InHand = {} /\ Underway = {} /\ Interrupted = {} /\ InQueue = {}
      /\ Taken = {} /\ Spent = {}
  BY Sizes DEF InHand, Underway, Live, Interrupted, InQueue, Taken, Spent
<1> QED
  BY <1>1 DEF Placed, Apart, OnlyTaken, Covered, Unrepeated

\* Every step keeps samples apart and accounted for.
LEMMA NextPlaced == IInv /\ Placed /\ [Next]_vars => Placed'
<1> SUFFICES ASSUME IInv, Placed, [Next]_vars PROVE Placed'
  OBVIOUS
<1>1. CASE Rollouter /\ UNCHANGED trainVars
  BY <1>1, OthersPlaced, ProcessorPlaced, TaskPlaced DEF Rollouter
<1>2. CASE Trainer
  BY <1>2, TrainerPlaced
<1>3. CASE UNCHANGED vars
  <2>1. /\ UNCHANGED <<hand, taken, task, cancelQueue, queue, dropped, batch, trained, pc>>
        /\ UNCHANGED trainVars
    BY <1>3 DEF vars, rolloutVars, procVars, taskVars, loopVars, mqVars, trainVars
  <2>2. Underway' = Underway
    BY <2>1 DEF Underway, Live
  <2> QED
    BY <2>1, <2>2, TrainerHas, NothingMoves
<1> QED
  BY <1>1, <1>2, <1>3 DEF Next, Ended

\* Disjoint finite sets add up.
LEMMA AddsUp ==
    ASSUME NEW S, NEW T, IsFiniteSet(S), IsFiniteSet(T), S \cap T = {}
    PROVE  /\ IsFiniteSet(S \cup T)
           /\ Cardinality(S \cup T) = Cardinality(S) + Cardinality(T)
           /\ Cardinality(S) \in Nat /\ Cardinality(T) \in Nat
<1>1. Cardinality(S) \in Nat /\ Cardinality(T) \in Nat /\ Cardinality({}) = 0
  BY FS_CardinalityType, FS_EmptySet
<1>2. Cardinality(S \cap T) = 0
  BY <1>1
<1>3. /\ IsFiniteSet(S \cup T)
      /\ Cardinality(S \cup T) = Cardinality(S) + Cardinality(T) - Cardinality(S \cap T)
  BY FS_Union
<1> QED
  BY <1>1, <1>2, <1>3

\* A queue of samples without repetitions is as long as the set of its entries.
LEMMA EntriesCount ==
    ASSUME NEW S, NEW q \in Seq(S), Unrepeated(q), \A i \in 1..Len(q) : q[i] # EndSignal
    PROVE  IsFiniteSet(Entries(q)) /\ Cardinality(Entries(q)) = Len(q)
<1> DEFINE D == 1..Len(q)
<1>1. Len(q) \in Nat /\ D = DOMAIN q
  OBVIOUS
<1>2. IsFiniteSet(D) /\ Cardinality(D) = Len(q)
  <2>1. \A n \in Nat : IsFiniteSet(1..n) /\ Cardinality(1..n) = n
    BY FS_Interval
  <2> QED
    BY <1>1, <2>1
<1>3. q \in Bijection(D, Entries(q))
  <2>1. \A i, j \in D : q[i] = q[j] => i = j
    BY <1>1 DEF Unrepeated
  <2>2. q \in [D -> Entries(q)] /\ Entries(q) = {q[i] : i \in D}
    BY <1>1 DEF Entries
  <2> QED
    BY <1>1, <2>1, <2>2 DEF Bijection, Injection, Surjection, IsInjective
<1> QED
  BY <1>2, <1>3, FS_Bijection DEF ExistsBijection

\* So cancelQueue counts what is interrupted.
LEMMA InterruptedCount ==
    ASSUME cancelQueue \in Seq(Samples), Unrepeated(cancelQueue)
    PROVE  IsFiniteSet(Interrupted) /\ Cardinality(Interrupted) = Len(cancelQueue)
<1>1. \A i \in 1..Len(cancelQueue) : cancelQueue[i] \in Samples
  OBVIOUS
<1>2. \A i \in 1..Len(cancelQueue) : cancelQueue[i] # EndSignal
  BY <1>1, Sizes
<1>3. Interrupted = Entries(cancelQueue)
  BY <1>2 DEF Interrupted, Entries
<1> QED
  BY <1>2, <1>3, EntriesCount

(***************************************************************************)
(* Interruption, resubmission and the drop of a full queue never duplicate *)
(* a sample and never lose one: for every size, whatever the order of      *)
(* pauses, tasks and synchronizations.                                     *)
(***************************************************************************)
THEOREM OnePlaceCorrect == Spec => []OnePlace
<1>1. IInv /\ Placed => OnePlace
  <2> SUFFICES ASSUME IInv, Placed PROVE OnePlace
    OBVIOUS
  <2>1. \A s \in Taken :
         \/ EndSeen
         \/ s \in InHand \cup Underway \cup Interrupted \cup InQueue
                  \cup batch \cup trained \cup dropped
    BY DEF Placed, Covered, Spent
  <2>2. /\ IsFiniteSet(InHand) /\ IsFiniteSet(Underway) /\ IsFiniteSet(InQueue)
        /\ IsFiniteSet(batch) /\ IsFiniteSet(Spent)
    <3>1. IsFiniteSet(Samples \cup {EndSignal})
      BY LiveFinite, FS_AddElement
    <3>2. \A S \in SUBSET (Samples \cup {EndSignal}) : IsFiniteSet(S)
      BY <3>1, FS_Subset
    <3> QED
      BY <3>2 DEF Placed, OnlyTaken, Taken, Spent
  <2>3. IsFiniteSet(Interrupted) /\ Cardinality(Interrupted) = Len(cancelQueue)
    BY InterruptedCount DEF IInv, Queued, Placed
  <2> DEFINE A == batch \cup Spent
             B == InQueue \cup A
             C == Interrupted \cup B
             D == Underway \cup C
             E == InHand \cup D
  <2>4. IsFiniteSet(A) /\ Cardinality(A) = Cardinality(batch) + Cardinality(Spent)
    BY <2>2, AddsUp DEF Placed, Apart
  <2>5. IsFiniteSet(B) /\ Cardinality(B) = Cardinality(InQueue) + Cardinality(A)
    BY <2>2, <2>4, AddsUp DEF Placed, Apart
  <2>6. IsFiniteSet(C) /\ Cardinality(C) = Cardinality(Interrupted) + Cardinality(B)
    BY <2>3, <2>5, AddsUp DEF Placed, Apart
  <2>7. IsFiniteSet(D) /\ Cardinality(D) = Cardinality(Underway) + Cardinality(C)
    BY <2>2, <2>6, AddsUp DEF Placed, Apart
  <2>8. IsFiniteSet(E) /\ Cardinality(E) = Cardinality(InHand) + Cardinality(D)
    BY <2>2, <2>7, AddsUp DEF Placed, Apart
  <2>9. E = InHand \cup Underway \cup Interrupted \cup InQueue
              \cup batch \cup trained \cup dropped
    BY DEF Spent
  <2>10. /\ Cardinality(InHand) \in Nat /\ Cardinality(Underway) \in Nat
         /\ Cardinality(Interrupted) \in Nat /\ Cardinality(InQueue) \in Nat
         /\ Cardinality(batch) \in Nat /\ Cardinality(Spent) \in Nat
    BY <2>2, <2>3, FS_CardinalityType
  <2> HIDE DEF A, B, C, D, E
  <2>11. Cardinality(InHand) + Cardinality(Underway) + Len(cancelQueue)
           + Cardinality(InQueue) + Cardinality(batch) + Cardinality(Spent)
         = Cardinality(E)
    <3>1. Cardinality(B) = Cardinality(InQueue) + Cardinality(batch) + Cardinality(Spent)
      BY <2>4, <2>5, <2>10
    <3>2. Cardinality(D) = Cardinality(Underway) + Len(cancelQueue) + Cardinality(B)
      BY <2>3, <2>6, <2>7, <2>10, <3>1
    <3>3. Cardinality(E) = Cardinality(InHand) + Cardinality(D)
      BY <2>8
    <3>4. Len(cancelQueue) \in Nat
      BY <2>3, <2>10
    <3> QED
      BY <2>10, <3>1, <3>2, <3>3, <3>4
  <2>12. Cardinality(InHand) + Cardinality(Underway) + Len(cancelQueue)
           + Cardinality(InQueue) + Cardinality(batch) + Cardinality(trained \cup dropped)
         = Cardinality(InHand \cup Underway \cup Interrupted \cup InQueue
                         \cup batch \cup trained \cup dropped)
    BY <2>9, <2>11 DEF Spent
  <2> QED
    BY <2>1, <2>12 DEF OnePlace
<1> QED
  BY <1>1, InitIInv, NextIInv, InitPlaced, NextPlaced, PTL DEF Spec

-----------------------------------------------------------------------------
(* How far the trainer is ahead of a sample                                *)

\* update_param_version has been called and has not set the version yet.
Pending == pc["update"] \in {"called", "lock"}

\* The trainer's version, the one last passed to the rollouter, and the one
\* the rollouter has.
Versions ==
    /\ trainVersion \in Nat /\ syncVersion \in Nat /\ paramVersion \in Nat
    /\ version \in [Samples -> Nat]
    /\ trainVersion = syncVersion + (IF trainPc = "waitValid" THEN 1 ELSE 0)
    /\ syncVersion = paramVersion
                     + (IF Pending \/ trainPc \in {"pause", "copy"} THEN 1 ELSE 0)

\* How many samples the trainer has and how many batches it has trained since
\* the last synchronization.
Collects ==
    /\ localTriggerStep \in 1..TriggerParameterSyncStep
    /\ trainPc = "collect" => Cardinality(batch) < RequiredSamples
    /\ trainPc = "train" => Cardinality(batch) = RequiredSamples
    /\ trainPc \notin {"collect", "train"} => batch = {}
    /\ trainPc \in {"waitValid", "pause", "copy"} => localTriggerStep = 1
    /\ trainPc \in {"collect", "train"} => ~final

\* A sample waits for put_sample: the trainer may have begun the second
\* synchronization after the sample's version, which drains the sample first.
Draining ==
    \/ trainPc = "waitValid"
    \/ trainPc = "pause" /\ pc["pause"] \in {"called", "lock", "cancel", "gather"}

PutInTime ==
    \A s \in Samples : task[s] = "putting" =>
      \/ trainVersion <= version[s] + 1
      \/ trainVersion = version[s] + 2 /\ Draining

\* The samples the trainer has used or holds.
Progress ==
    trainVersion * SamplesPerVersion + (localTriggerStep - 1) * RequiredSamples
      + Cardinality(batch)

\* What is ahead of a sample in the queue is used before it.
UsedInTime ==
    ~EndSeen =>
      \A i \in 1..Len(queue) :
        queue[i] # EndSignal =>
          Progress + i <= (version[queue[i]] + 2) * SamplesPerVersion + MaxQueueSize

Lagging == Versions /\ Collects /\ PutInTime /\ UsedInTime /\ LagBound

\* What the assumptions say of the sizes of batches and budget.
LEMMA PerVersion ==
    /\ RequiredSamples \in Nat \ {0} /\ TriggerParameterSyncStep \in Nat \ {0}
    /\ SamplesPerVersion = RequiredSamples * TriggerParameterSyncStep
    /\ SamplesPerVersion \in Nat \ {0}
    /\ MaxQueueSize \in Nat \ {0} /\ MaxRequiredSamples = MaxQueueSize
<1>1. \A a, b \in Nat \ {0} : a * b \in Nat \ {0}
  OBVIOUS
<1> QED
  BY <1>1, TrainerAssumption, QueueSizeAssumption, MaxQueueSizeAssumption
     DEF SamplesPerVersion

\* More versions are more samples.
LEMMA MoreVersions ==
    ASSUME NEW a \in Nat, NEW b \in Nat, a <= b
    PROVE  /\ a * SamplesPerVersion \in Nat /\ b * SamplesPerVersion \in Nat
           /\ a * SamplesPerVersion <= b * SamplesPerVersion
           /\ (a + 1) * SamplesPerVersion = a * SamplesPerVersion + SamplesPerVersion
<1> DEFINE k == SamplesPerVersion
<1>1. k \in Nat
  BY PerVersion
<1> HIDE DEF k
<1>2. /\ a * k \in Nat /\ b * k \in Nat /\ a * k <= b * k /\ (a + 1) * k = a * k + k
  BY <1>1
<1> QED
  BY <1>2 DEF k

\* The batches of a version never are more than the version.
LEMMA WithinVersion ==
    ASSUME Collects, Placed
    PROVE  /\ IsFiniteSet(batch) /\ Cardinality(batch) \in 0..RequiredSamples
           /\ (localTriggerStep - 1) * RequiredSamples \in Nat
           /\ (localTriggerStep - 1) * RequiredSamples + RequiredSamples
                = localTriggerStep * RequiredSamples
           /\ localTriggerStep * RequiredSamples <= SamplesPerVersion
<1>1. IsFiniteSet(batch) /\ Cardinality(batch) \in Nat
  BY LiveFinite DEF Placed, OnlyTaken, Taken
<1>2. Cardinality(batch) <= RequiredSamples
  BY <1>1, PerVersion, FS_EmptySet DEF Collects
<1>3. ASSUME NEW l \in Nat, NEW t \in Nat, NEW r \in Nat, 1 <= l, l <= t
      PROVE  (l - 1) * r \in Nat /\ (l - 1) * r + r = l * r /\ l * r <= r * t
  BY <1>3
<1>4. /\ localTriggerStep \in Nat /\ 1 <= localTriggerStep
      /\ localTriggerStep <= TriggerParameterSyncStep
  BY PerVersion DEF Collects
<1> QED
  BY <1>1, <1>2, <1>3, <1>4, PerVersion

\* A sample that is about to be put has at most two versions ahead of it.
LEMMA TwoVersions ==
    ASSUME Lagging, Placed, NEW s \in Samples, task[s] = "putting"
    PROVE  Progress \in Nat /\ Progress <= (version[s] + 2) * SamplesPerVersion
<1> DEFINE v == version[s]
<1>1. v \in Nat /\ trainVersion \in Nat
  BY DEF Lagging, Versions
<1>2. /\ trainVersion * SamplesPerVersion \in Nat
      /\ (trainVersion + 1) * SamplesPerVersion
           = trainVersion * SamplesPerVersion + SamplesPerVersion
  BY <1>1, MoreVersions
<1>3. /\ (localTriggerStep - 1) * RequiredSamples \in Nat
      /\ Cardinality(batch) \in Nat
      /\ (localTriggerStep - 1) * RequiredSamples + Cardinality(batch) <= SamplesPerVersion
  BY WithinVersion, PerVersion DEF Lagging
<1>4. Progress \in Nat
  BY <1>2, <1>3 DEF Progress
<1>5. CASE trainVersion <= v + 1
  <2>1. (trainVersion + 1) * SamplesPerVersion <= (v + 2) * SamplesPerVersion
    BY <1>1, <1>5, MoreVersions
  <2>2. Progress <= trainVersion * SamplesPerVersion + SamplesPerVersion
    BY <1>2, <1>3, PerVersion DEF Progress
  <2>3. (v + 2) * SamplesPerVersion \in Nat
    BY <1>1, MoreVersions
  <2> QED
    BY <1>2, <1>4, <2>1, <2>2, <2>3, PerVersion
<1>6. CASE trainVersion = v + 2 /\ Draining
  <2>1. localTriggerStep = 1 /\ Cardinality(batch) = 0
    BY <1>6, FS_EmptySet DEF Draining, Lagging, Collects
  <2>2. (localTriggerStep - 1) * RequiredSamples = 0
    BY <2>1, PerVersion
  <2>3. Progress = trainVersion * SamplesPerVersion
    BY <1>2, <2>1, <2>2 DEF Progress
  <2> QED
    BY <1>2, <1>4, <1>6, <2>3
<1> QED
  BY <1>4, <1>5, <1>6 DEF Lagging, PutInTime

\* Versions, queue and trainer stay; nobody is put who was not, and a sample
\* that is put is not overtaken.
LEMMA LaggingStays ==
    ASSUME Lagging, UNCHANGED trainVars, UNCHANGED <<queue, version, paramVersion>>,
           Pending' = Pending,
           \A s \in Samples : task'[s] = "putting" =>
             task[s] = "putting" /\ (Draining => Draining')
    PROVE  Lagging'
<1>1. /\ UNCHANGED <<trainPc, batch, localTriggerStep, trainVersion, syncVersion,
                     final, Progress>>
      /\ EndSeen' = EndSeen
  BY DEF trainVars, EndSeen, Progress
<1>2. Versions' /\ Collects' /\ LagBound'
  BY <1>1 DEF Lagging, Versions, Collects, LagBound
<1>3. UsedInTime'
  BY <1>1 DEF Lagging, UsedInTime
<1>4. PutInTime'
  BY <1>1 DEF Lagging, PutInTime
<1> QED
  BY <1>2, <1>3, <1>4 DEF Lagging

\* What put_sample leaves: entries of before that have moved up, and the new one.
LEMMA PutMovesUp ==
    ASSUME Queued, NEW s \in Samples \cup {EndSignal}, PutSample(s),
           NEW i \in 1..Len(queue')
    PROVE  \/ queue'[i] = s
           \/ \E j \in 1..Len(queue) : i <= j /\ queue'[i] = queue[j]
<1>1. /\ queue \in Seq(Samples \cup {EndSignal}) /\ Len(queue) \in Nat
      /\ MaxQueueSize \in Nat \ {0}
  BY Sizes DEF Queued
<1>2. CASE Len(queue) >= MaxQueueSize
  <2>1. queue' = Append(Tail(queue), s)
    BY <1>2 DEF PutSample
  <2>2. /\ Tail(queue) \in Seq(Samples \cup {EndSignal}) /\ Len(Tail(queue)) = Len(queue) - 1
        /\ \A j \in 1..(Len(queue) - 1) : Tail(queue)[j] = queue[j + 1]
    BY <1>1, <1>2
  <2>3. /\ Len(queue') = Len(queue) /\ queue'[Len(queue)] = s
        /\ \A j \in 1..(Len(queue) - 1) : queue'[j] = Tail(queue)[j]
    BY <1>1, <2>1, <2>2
  <2>4. CASE i = Len(queue)
    BY <2>3, <2>4
  <2>5. CASE i # Len(queue)
    <3>1. i \in 1..(Len(queue) - 1) /\ i + 1 \in 1..Len(queue) /\ i <= i + 1
      BY <1>1, <2>3, <2>5
    <3> QED
      BY <2>2, <2>3, <3>1
  <2> QED
    BY <2>4, <2>5
<1>3. CASE ~(Len(queue) >= MaxQueueSize)
  <2>1. queue' = Append(queue, s)
    BY <1>3 DEF PutSample
  <2>2. /\ Len(queue') = Len(queue) + 1 /\ queue'[Len(queue) + 1] = s
        /\ \A j \in 1..Len(queue) : queue'[j] = queue[j]
    BY <1>1, <2>1
  <2>3. i = Len(queue) + 1 \/ i \in 1..Len(queue)
    BY <1>1, <2>2
  <2> QED
    BY <1>1, <2>2, <2>3
<1> QED
  BY <1>2, <1>3

\* put_sample with the end signal, or with a sample that is in time.
LEMMA PutStaysInTime ==
    ASSUME IInv, Placed, Lagging, UNCHANGED trainVars, UNCHANGED version,
           NEW s \in Samples \cup {EndSignal}, PutSample(s),
           s \in Samples => task[s] = "putting"
    PROVE  UsedInTime'
<1>1. Progress' = Progress /\ EndSeen' = EndSeen
  BY DEF trainVars, EndSeen, Progress
<1>2. /\ queue \in Seq(Samples \cup {EndSignal}) /\ queue' \in Seq(Samples \cup {EndSignal})
      /\ Len(queue') <= MaxQueueSize
  BY PutQueued DEF IInv, Queued
<1>3. version \in [Samples -> Nat]
  BY DEF Lagging, Versions
<1>4. \A x \in Samples : (version[x] + 2) * SamplesPerVersion \in Nat
  BY <1>3, MoreVersions
<1>5. Progress \in Nat
  <2>1. trainVersion \in Nat
    BY DEF Lagging, Versions
  <2>2. trainVersion * SamplesPerVersion \in Nat
    BY <2>1, MoreVersions
  <2> QED
    BY <2>2, WithinVersion, PerVersion DEF Progress, Lagging
<1>6. ASSUME ~EndSeen, NEW i \in 1..Len(queue'), queue'[i] # EndSignal
      PROVE  Progress + i <= (version[queue'[i]] + 2) * SamplesPerVersion + MaxQueueSize
  <2>1. queue'[i] \in Samples /\ i \in Nat /\ i <= MaxQueueSize
    BY <1>2, <1>6, PerVersion
  <2>2. CASE queue'[i] = s
    <3>1. Progress <= (version[s] + 2) * SamplesPerVersion
      BY <2>1, <2>2, TwoVersions
    <3> QED
      BY <1>4, <1>5, <2>1, <2>2, <3>1, PerVersion
  <2>3. CASE \E j \in 1..Len(queue) : i <= j /\ queue'[i] = queue[j]
    <3>1. PICK j \in 1..Len(queue) : i <= j /\ queue'[i] = queue[j]
      BY <2>3
    <3>2. Progress + j <= (version[queue[j]] + 2) * SamplesPerVersion + MaxQueueSize
      BY <1>6, <3>1 DEF Lagging, UsedInTime
    <3>3. j \in Nat
      BY <1>2, <3>1
    <3> QED
      BY <1>4, <1>5, <2>1, <3>1, <3>2, <3>3, PerVersion
  <2> QED
    BY <2>2, <2>3, PutMovesUp DEF IInv
<1> QED
  BY <1>1, <1>6 DEF UsedInTime

\* Feeder, processor, monitor and resume know nothing of versions.
LEMMA OthersLag ==
    ASSUME IInv, Placed, Lagging, UNCHANGED trainVars,
           Feed \/ Processor \/ Monitor \/ Resume
    PROVE  Lagging'
<1> USE DEF mqVars, procVars, taskVars, loopVars, countVars
<1>1. pc \in [Coroutines -> Labels] /\ task \in [Samples -> TaskStates]
  BY DEF IInv, Locked, Tasks
<1>2. UNCHANGED <<version, paramVersion, pc["update"], pc["pause"]>>
  <2> USE <1>1 DEF Goto, Acquires, Releases, Suspends, Continues, Coroutines
  <2>1. CASE Feed
    BY <2>1 DEF Feed
  <2>2. CASE ProcTop \/ ProcGet \/ ProcMarkPaused
    BY <2>2 DEF ProcTop, ProcGet, Take, ProcMarkPaused
  <2>3. CASE ProcReap \/ ProcReapLocked \/ ProcReapWait
    BY <2>3 DEF ProcReap, ProcReapLocked, ProcReapWait, Reap
  <2>4. CASE ProcIdle \/ ProcNotified \/ ProcSubmit
    BY <2>4 DEF ProcIdle, ProcNotified, ProcSubmit
  <2>5. CASE Finish \/ Stop
    BY <2>5 DEF Finish, Stop
  <2>6. CASE Monitor
    BY <2>6 DEF Monitor, MonitorTop, MonitorCheckRunning, MonitorWake, MonitorRecover, Notified
  <2>7. CASE Resume
    BY <2>7 DEF Resume, ResumeLock, ResumeServers, ResumeReturn, Notified
  <2> QED
    BY <2>1, <2>2, <2>3, <2>4, <2>5, <2>6, <2>7 DEF Processor
<1>3. \A s \in Samples : task'[s] = "putting" => task[s] = "putting"
  <2>1. CASE ProcSubmit
    BY <1>1, <2>1 DEF ProcSubmit
  <2>2. CASE ~ProcSubmit
    <3>1. UNCHANGED task
      <4>1. CASE ProcTop \/ ProcGet \/ ProcMarkPaused \/ ProcReap
        BY <4>1 DEF ProcTop, ProcGet, Take, ProcMarkPaused, ProcReap
      <4>2. CASE ProcReapLocked \/ ProcReapWait \/ ProcIdle \/ ProcNotified \/ Finish \/ Stop
        BY <4>2 DEF ProcReapLocked, ProcReapWait, Reap, ProcIdle, ProcNotified, Finish, Stop
      <4>3. CASE Feed \/ Monitor
        BY <4>3 DEF Feed, Monitor, MonitorTop, MonitorCheckRunning, MonitorWake, MonitorRecover
      <4>4. CASE Resume
        BY <4>4 DEF Resume, ResumeLock, ResumeServers, ResumeReturn
      <4> QED
        BY <2>2, <4>1, <4>2, <4>3, <4>4 DEF Processor
    <3> QED
      BY <3>1
  <2> QED
    BY <2>1, <2>2
<1>4. Pending' = Pending /\ Draining' = Draining
  BY <1>2 DEF Pending, Draining, trainVars
<1>5. CASE Finish
  <2>1. PutSample(EndSignal)
    BY <1>5 DEF Finish
  <2>2. UsedInTime'
    BY <1>2, <2>1, Sizes, PutStaysInTime
  <2>3. Versions' /\ Collects' /\ LagBound' /\ PutInTime'
    BY <1>2, <1>3, <1>4 DEF trainVars, Lagging, Versions, Collects, LagBound, PutInTime
  <2> QED
    BY <2>2, <2>3 DEF Lagging
<1>6. CASE ~Finish
  <2>1. UNCHANGED queue
    <3>1. CASE ProcTop \/ ProcGet \/ ProcMarkPaused \/ ProcReap
      BY <3>1 DEF ProcTop, ProcGet, Take, ProcMarkPaused, ProcReap
    <3>2. CASE ProcReapLocked \/ ProcReapWait \/ ProcIdle \/ ProcNotified \/ ProcSubmit \/ Stop
      BY <3>2 DEF ProcReapLocked, ProcReapWait, Reap, ProcIdle, ProcNotified, ProcSubmit, Stop
    <3>3. CASE Feed \/ Monitor
      BY <3>3 DEF Feed, Monitor, MonitorTop, MonitorCheckRunning, MonitorWake, MonitorRecover
    <3>4. CASE Resume
      BY <3>4 DEF Resume, ResumeLock, ResumeServers, ResumeReturn
    <3> QED
      BY <1>6, <3>1, <3>2, <3>3, <3>4 DEF Processor
  <2> QED
    BY <1>2, <1>3, <1>4, <2>1, LaggingStays
<1> QED
  BY <1>5, <1>6

\* pause gathers only when nothing is put any more.
LEMMA PauseLags ==
    ASSUME IInv, Lagging, UNCHANGED trainVars, Pause
    PROVE  Lagging'
<1> USE DEF mqVars, procVars, taskVars, loopVars, countVars
<1>1. pc \in [Coroutines -> Labels]
  BY DEF IInv, Locked
<1>2. UNCHANGED <<queue, version, paramVersion, task, pc["update"]>>
  BY <1>1 DEF Pause, PauseLock, PauseSet, PauseCancel, PauseGather, PauseReturn,
              Acquires, Suspends, Releases, Goto, Coroutines
<1>3. ASSUME NEW s \in Samples, task[s] = "putting", Draining
      PROVE  Draining'
  <2>1. Live # {} /\ UNCHANGED trainPc
    BY <1>3 DEF Live, trainVars
  <2>2. pc'["pause"] \in {"lock", "cancel", "gather"} \/ pc["pause"] = "clear"
    BY <1>1, <2>1 DEF Pause, PauseLock, PauseSet, PauseCancel, PauseGather, PauseReturn,
                 Within, Acquires, Suspends, Goto, Coroutines
  <2> QED
    BY <1>3, <2>1, <2>2 DEF Draining
<1>4. Pending' = Pending
  BY <1>2 DEF Pending
<1> QED
  BY <1>2, <1>3, <1>4, LaggingStays

\* update_param_version sets the version it was called with.
LEMMA UpdateLags ==
    ASSUME IInv, Lagging, UNCHANGED trainVars, Update(syncVersion)
    PROVE  Lagging'
<1> USE DEF mqVars, procVars, taskVars, loopVars, countVars
<1>1. pc \in [Coroutines -> Labels]
  BY DEF IInv, Locked
<1>2. UNCHANGED <<queue, version, task, pc["pause"]>>
  BY <1>1 DEF Update, UpdateLock, UpdateCount, CountTasks, UpdateSize, UpdateReturn, UpdateEnds,
              Acquires, Suspends, Releases, Goto, Coroutines
<1>3. Draining' = Draining
  BY <1>2 DEF Draining, trainVars
<1>4. CASE UpdateLock \/ UpdateSize \/ UpdateReturn
  <2>1. UNCHANGED paramVersion /\ Pending' = Pending
    BY <1>1, <1>4 DEF UpdateLock, UpdateSize, UpdateReturn, UpdateEnds, At, Within,
              Acquires, Releases, Goto, Pending, Coroutines
  <2> QED
    BY <1>2, <1>3, <2>1, LaggingStays
<1>5. CASE UpdateCount(syncVersion)
  <2>1. /\ pc["update"] = "lock" /\ pc'["update"] = "size" /\ paramVersion' = syncVersion
    BY <1>1, <1>5 DEF UpdateCount, CountTasks, Within, Suspends, Goto, Coroutines
  <2>2. trainPc \notin {"pause", "copy"}
    BY <2>1 DEF IInv, Called, LastValid
  <2>3. Pending /\ ~Pending'
    BY <2>1 DEF Pending
  <2>4. Versions'
    BY <1>2, <2>1, <2>2, <2>3 DEF trainVars, Lagging, Versions
  <2>5. Collects' /\ LagBound' /\ PutInTime' /\ UsedInTime'
    BY <1>2, <1>3 DEF trainVars, Lagging, Collects, LagBound, PutInTime, UsedInTime,
                 Progress, EndSeen
  <2> QED
    BY <2>4, <2>5 DEF Lagging
<1> QED
  BY <1>4, <1>5 DEF Update

\* Generation ends with the rollouter's version, which is at most two behind.
LEMMA TaskLags ==
    ASSUME IInv, Placed, Lagging, UNCHANGED trainVars, NEW s \in Samples, Task(s)
    PROVE  Lagging'
<1>1. UNCHANGED <<pc, paramVersion>> /\ task \in [Samples -> TaskStates]
  BY TaskBecomes DEF Becomes, loopVars, countVars, IInv, Tasks
<1>2. Pending' = Pending /\ Draining' = Draining
  BY <1>1 DEF Pending, Draining, trainVars
<1>3. CASE TaskPut(s)
  <2>1. /\ task[s] = "putting" /\ task' = [task EXCEPT ![s] = "put"]
        /\ PutSample(s) /\ UNCHANGED version
    BY <1>3 DEF TaskPut, Becomes
  <2>2. UsedInTime'
    BY <2>1, PutStaysInTime
  <2>3. PutInTime'
    BY <1>1, <1>2, <2>1 DEF trainVars, Lagging, PutInTime
  <2>4. Versions' /\ Collects' /\ LagBound'
    BY <1>1, <1>2, <2>1 DEF trainVars, Lagging, Versions, Collects, LagBound
  <2> QED
    BY <2>2, <2>3, <2>4 DEF Lagging
<1>4. CASE TaskGenerated(s)
  <2>1. /\ task[s] = "generating" /\ task' = [task EXCEPT ![s] = "putting"]
        /\ version' = [version EXCEPT ![s] = paramVersion] /\ UNCHANGED queue
    BY <1>4 DEF TaskGenerated, Becomes, mqVars
  <2>2. s \in Underway
    BY <2>1 DEF Underway, Live
  <2>3. s \notin InQueue /\ s \notin batch
    BY <2>2 DEF Placed, Apart
  <2>4. /\ version' \in [Samples -> Nat] /\ version'[s] = paramVersion
        /\ \A x \in Samples \ {s} : version'[x] = version[x]
    BY <2>1 DEF Lagging, Versions
  <2>5. Versions' /\ Collects'
    BY <1>1, <1>2, <2>4 DEF trainVars, Lagging, Versions, Collects
  <2>6. LagBound'
    <3>1. \A x \in batch : x \in Samples \ {s}
      BY <2>3 DEF Placed, OnlyTaken, Taken
    <3> QED
      BY <2>4, <3>1 DEF trainVars, Lagging, LagBound
  <2>7. UsedInTime'
    <3>1. \A i \in 1..Len(queue) : queue[i] # EndSignal => queue[i] \in Samples \ {s}
      BY <2>3 DEF IInv, Queued, InQueue
    <3>2. Progress' = Progress /\ EndSeen' = EndSeen
      BY DEF trainVars, EndSeen, Progress
    <3> QED
      BY <2>1, <2>4, <3>1, <3>2 DEF Lagging, UsedInTime
  <2>8. PutInTime'
    <3>1. \/ trainVersion <= paramVersion + 1
          \/ trainVersion = paramVersion + 2 /\ trainPc = "waitValid"
      BY DEF Lagging, Versions
    <3> QED
      BY <1>2, <2>1, <2>4, <3>1 DEF trainVars, Lagging, PutInTime, Draining
  <2> QED
    BY <2>5, <2>6, <2>7, <2>8 DEF Lagging
<1>5. CASE TaskStart(s) \/ TaskArrive(s) \/ TaskInterrupt(s) \/ TaskReturn(s) \/ TaskCancelled(s)
  <2>1. UNCHANGED <<queue, version>>
    BY <1>5 DEF TaskStart, TaskArrive, TaskInterrupt, TaskReturn, TaskCancelled, mqVars
  <2>2. \A x \in Samples : task'[x] = "putting" => task[x] = "putting"
    BY <1>1, <1>5 DEF TaskStart, TaskArrive, TaskInterrupt, TaskReturn, TaskCancelled, Becomes
  <2> QED
    BY <1>1, <1>2, <2>1, <2>2, LaggingStays
<1> QED
  BY <1>3, <1>4, <1>5 DEF Task

\* A sample leaves the queue with its bound.
LEMMA CollectLags ==
    ASSUME IInv, Placed, Lagging, CollectSample
    PROVE  Lagging'
<1>1. /\ trainPc = "collect" /\ queue # <<>> /\ queue' = Tail(queue)
      /\ UNCHANGED <<localTriggerStep, trainVersion, syncVersion, final,
                     pc, task, version, paramVersion>>
  BY DEF CollectSample, GetSample, rolloutVars, loopVars, taskVars, countVars
<1>2. /\ queue \in Seq(Samples \cup {EndSignal}) /\ Len(queue) \in Nat \ {0}
      /\ Head(queue) = queue[1] /\ Len(queue') = Len(queue) - 1
      /\ \A i \in 1..Len(queue') : queue'[i] = queue[i + 1] /\ i + 1 \in 1..Len(queue)
  BY <1>1 DEF IInv, Queued
<1>3. /\ trainVersion \in Nat /\ version \in [Samples -> Nat]
      /\ trainVersion * SamplesPerVersion \in Nat
      /\ \A x \in Samples : (version[x] + 2) * SamplesPerVersion \in Nat
  BY MoreVersions DEF Lagging, Versions
<1>4. /\ IsFiniteSet(batch) /\ Cardinality(batch) \in Nat
      /\ (localTriggerStep - 1) * RequiredSamples \in Nat
      /\ Cardinality(batch) < RequiredSamples
  BY <1>1, WithinVersion DEF Lagging, Collects
<1>5. Progress \in Nat /\ trainVersion * SamplesPerVersion <= Progress
  BY <1>3, <1>4 DEF Progress
<1>6. PutInTime'
  <2>1. ~Draining
    BY <1>1 DEF Draining
  <2> QED
    BY <1>1, <2>1 DEF Lagging, PutInTime
<1>7. trainPc' # "waitValid" /\ trainPc' \notin {"pause", "copy"} /\ Pending' = Pending
  BY <1>1 DEF CollectSample, Pending
<1>8. Versions'
  BY <1>1, <1>7 DEF Lagging, Versions
<1>9. CASE queue[1] = EndSignal
  <2>1. batch' = {} /\ trainPc' = "lastValid"
    BY <1>2, <1>9 DEF CollectSample
  <2>2. Collects' /\ UsedInTime' /\ LagBound'
    BY <1>1, <2>1 DEF Lagging, Collects, UsedInTime, EndSeen, LagBound
  <2> QED
    BY <1>6, <1>8, <2>2 DEF Lagging
<1>10. CASE queue[1] # EndSignal
  <2>1. /\ batch' = batch \cup {queue[1]}
        /\ trainPc' = IF Cardinality(batch') = RequiredSamples THEN "train" ELSE "collect"
    BY <1>2, <1>10 DEF CollectSample
  <2>2. Cardinality(batch') \in Nat /\ Cardinality(batch') <= Cardinality(batch) + 1
    <3>1. Cardinality(batch \cup {queue[1]}) \in {Cardinality(batch), Cardinality(batch) + 1}
      BY <1>4, FS_AddElement
    <3> QED
      BY <1>4, <2>1, <3>1
  <2>3. Collects'
    BY <1>1, <1>4, <2>1, <2>2, PerVersion DEF Lagging, Collects
  <2>4. Progress' \in Nat /\ Progress' <= Progress + 1
    BY <1>1, <1>3, <1>4, <2>2 DEF Progress
  <2>5. EndSeen' = EndSeen
    BY <1>1, <2>1 DEF EndSeen
  <2>6. UsedInTime'
    <3>1. ASSUME ~EndSeen, NEW i \in 1..Len(queue'), queue'[i] # EndSignal
          PROVE  Progress' + i <= (version[queue'[i]] + 2) * SamplesPerVersion + MaxQueueSize
      <4>1. Progress + (i + 1) <= (version[queue'[i]] + 2) * SamplesPerVersion + MaxQueueSize
        BY <1>2, <3>1 DEF Lagging, UsedInTime
      <4>2. queue'[i] \in Samples /\ i \in Nat
        BY <1>2, <3>1
      <4>3. (version[queue'[i]] + 2) * SamplesPerVersion \in Nat
        BY <1>3, <4>2
      <4> QED
        BY <1>5, <2>4, <4>1, <4>2, <4>3, PerVersion
    <3> QED
      BY <1>1, <2>5, <3>1 DEF UsedInTime
  <2>7. LagBound'
    <3>1. Progress + 1 <= (version[queue[1]] + 2) * SamplesPerVersion + MaxQueueSize
      BY <1>1, <1>2, <1>10 DEF Lagging, UsedInTime, Collects, EndSeen
    <3>2. queue[1] \in Samples
      BY <1>2, <1>10
    <3>3. trainVersion * SamplesPerVersion - (version[queue[1]] + 2) * SamplesPerVersion
            < MaxRequiredSamples
      BY <1>3, <1>5, <3>1, <3>2, PerVersion
    <3>4. (trainVersion - version[queue[1]] - 2) * SamplesPerVersion
            = trainVersion * SamplesPerVersion - (version[queue[1]] + 2) * SamplesPerVersion
      BY <1>3, <3>2, PerVersion
    <3> QED
      BY <1>1, <2>1, <3>3, <3>4 DEF Lagging, LagBound
  <2> QED
    BY <1>6, <1>8, <2>3, <2>6, <2>7 DEF Lagging
<1> QED
  BY <1>9, <1>10

\* The other steps of the trainer, and the synchronizer's, touch no queue.
LEMMA TrainerLags ==
    ASSUME IInv, Placed, Lagging, Trainer
    PROVE  Lagging'
<1> USE DEF rolloutVars, loopVars, taskVars, countVars, mqVars
<1>1. CASE TrainStep
  <2>1. /\ trainPc = "train" /\ batch' = {}
        /\ UNCHANGED <<syncVersion, final, pc, task, version, paramVersion, queue>>
    BY <1>1 DEF TrainStep
  <2>2. /\ trainVersion \in Nat /\ version \in [Samples -> Nat] /\ ~final
        /\ Cardinality(batch) = RequiredSamples /\ Cardinality({}) = 0
        /\ localTriggerStep \in 1..TriggerParameterSyncStep
    BY <2>1, FS_EmptySet DEF Lagging, Versions, Collects
  <2>3. /\ (localTriggerStep - 1) * RequiredSamples \in Nat
        /\ (localTriggerStep - 1) * RequiredSamples + RequiredSamples
             = localTriggerStep * RequiredSamples
        /\ trainVersion * SamplesPerVersion \in Nat
        /\ (trainVersion + 1) * SamplesPerVersion
             = trainVersion * SamplesPerVersion + SamplesPerVersion
    BY <2>2, WithinVersion, MoreVersions DEF Lagging
  <2>4. Progress = trainVersion * SamplesPerVersion + localTriggerStep * RequiredSamples
    BY <2>2, <2>3, PerVersion DEF Progress
  <2>5. CASE localTriggerStep < TriggerParameterSyncStep
    <3>1. /\ localTriggerStep' = localTriggerStep + 1 /\ trainPc' = "collect"
          /\ UNCHANGED trainVersion
      BY <1>1, <2>5 DEF TrainStep
    <3>2. Progress' = Progress
      BY <2>1, <2>2, <2>3, <2>4, <3>1, PerVersion DEF Progress
    <3>3. ~Draining /\ Pending' = Pending /\ EndSeen' = EndSeen
      BY <2>1, <3>1 DEF Draining, Pending, EndSeen
    <3>4. Versions' /\ Collects' /\ LagBound'
      BY <2>1, <2>2, <2>5, <3>1, <3>3, PerVersion DEF Lagging, Versions, Collects, LagBound
    <3>5. PutInTime' /\ UsedInTime'
      BY <2>1, <3>1, <3>2, <3>3 DEF Lagging, PutInTime, UsedInTime
    <3> QED
      BY <3>4, <3>5 DEF Lagging
  <2>6. CASE ~(localTriggerStep < TriggerParameterSyncStep)
    <3>1. /\ localTriggerStep' = 1 /\ trainPc' = "waitValid" /\ trainVersion' = trainVersion + 1
          /\ localTriggerStep = TriggerParameterSyncStep
      BY <1>1, <2>2, <2>6, PerVersion DEF TrainStep
    <3>2. Progress' = Progress
      <4>1. localTriggerStep * RequiredSamples = SamplesPerVersion
        BY <3>1, PerVersion
      <4>2. (localTriggerStep' - 1) * RequiredSamples = 0
        BY <3>1, PerVersion
      <4>3. Progress' = (trainVersion + 1) * SamplesPerVersion
        BY <2>1, <2>2, <2>3, <3>1, <4>2, PerVersion DEF Progress
      <4> QED
        BY <2>3, <2>4, <4>1, <4>3
    <3>3. ~Draining /\ Draining' /\ Pending' = Pending /\ EndSeen' = EndSeen
      BY <2>1, <3>1 DEF Draining, Pending, EndSeen
    <3>4. Versions' /\ Collects' /\ LagBound'
      BY <2>1, <2>2, <3>1, <3>3, PerVersion DEF Lagging, Versions, Collects, LagBound
    <3>5. PutInTime'
      BY <2>1, <2>2, <3>1, <3>3 DEF Lagging, PutInTime
    <3>6. UsedInTime'
      BY <2>1, <3>2, <3>3 DEF Lagging, UsedInTime
    <3> QED
      BY <3>4, <3>5, <3>6 DEF Lagging
  <2> QED
    BY <2>5, <2>6
<1>2. CASE FinalSync
  <2>1. /\ trainPc = "lastValid" /\ batch = {} /\ EndSeen' /\ pc["update"] = "off"
        /\ UNCHANGED <<syncVersion, batch, pc, task, version, paramVersion, queue>>
    BY <1>2 DEF FinalSync, LastValid, EndSeen, Lagging, Collects
  <2>2. UsedInTime' /\ LagBound' /\ ~Draining /\ Pending' = Pending
    BY <2>1 DEF UsedInTime, LagBound, Draining, Pending
  <2>3. /\ trainVersion \in Nat /\ version \in [Samples -> Nat]
        /\ localTriggerStep \in 1..TriggerParameterSyncStep
    BY DEF Lagging, Versions, Collects
  <2>4. CASE /\ trainVersion' = trainVersion + 1 /\ localTriggerStep' = 1
             /\ trainPc' = "waitValid"
    <3>1. Draining'
      BY <2>4 DEF Draining
    <3>2. Versions' /\ Collects' /\ PutInTime'
      BY <2>1, <2>2, <2>3, <2>4, <3>1, PerVersion DEF Lagging, Versions, Collects, PutInTime
    <3> QED
      BY <2>2, <3>2 DEF Lagging
  <2>5. CASE trainPc' = "ended" /\ UNCHANGED <<trainVersion, localTriggerStep>>
    <3>1. Versions' /\ Collects' /\ PutInTime'
      BY <2>1, <2>2, <2>5 DEF Lagging, Versions, Collects, PutInTime
    <3> QED
      BY <2>2, <3>1 DEF Lagging
  <2> QED
    BY <1>2, <2>4, <2>5 DEF FinalSync
<1>3. CASE SyncWeights \/ TrainEnd
  <2>1. UNCHANGED <<batch, localTriggerStep, trainVersion, final, task, version,
                    paramVersion, queue>>
    BY <1>3 DEF SyncWeights, SyncPause, SyncStart, SyncEnd, SyncFrame, TrainEnd
  <2>2. /\ trainPc \notin {"collect", "train"} /\ batch = {}
        /\ trainVersion \in Nat /\ localTriggerStep \in 1..TriggerParameterSyncStep
    BY <1>3 DEF SyncWeights, SyncPause, SyncStart, SyncEnd, TrainEnd, Lagging, Versions, Collects
  <2>3. LagBound'
    BY <2>1, <2>2 DEF LagBound
  <2>4. Collects'
    BY <1>3, <2>1, <2>2, PerVersion, FS_EmptySet DEF SyncWeights, SyncPause, SyncStart, SyncEnd, TrainEnd,
                              Lagging, Collects
  <2>5. UsedInTime'
    <3>1. EndSeen => EndSeen'
      BY <1>3, <2>1 DEF SyncWeights, SyncPause, SyncStart, SyncEnd, TrainEnd, EndSeen
    <3>2. Progress' = Progress
      BY <2>1 DEF Progress
    <3> QED
      BY <2>1, <3>1, <3>2 DEF Lagging, UsedInTime
  <2>6. Versions'
    <3>1. CASE SyncPause
      BY <2>1, <3>1 DEF SyncPause, LastValid, Goto, IInv, Locked, Coroutines,
                        Lagging, Versions, Pending
    <3>2. CASE SyncStart
      BY <2>1, <3>2 DEF SyncStart, Lagging, Versions, Pending
    <3>3. CASE SyncEnd
      BY <2>1, <3>3 DEF SyncEnd, IInv, Locked, Coroutines, Lagging, Versions, Pending
    <3>4. CASE TrainEnd
      BY <2>1, <3>4 DEF TrainEnd, Lagging, Versions, Pending
    <3> QED
      BY <1>3, <3>1, <3>2, <3>3, <3>4 DEF SyncWeights
  <2>7. PutInTime'
    <3>1. Draining => Draining'
      BY <1>3 DEF SyncWeights, SyncPause, SyncStart, SyncEnd, TrainEnd, Goto, Draining,
                  IInv, Locked, Coroutines
    <3> QED
      BY <2>1, <3>1 DEF Lagging, PutInTime
  <2> QED
    BY <2>3, <2>4, <2>5, <2>6, <2>7 DEF Lagging
<1> QED
  BY <1>1, <1>2, <1>3, CollectLags DEF Trainer

-----------------------------------------------------------------------------
\* At the start everybody has version 0.
LEMMA InitLagging == Init => Lagging
<1> SUFFICES ASSUME Init PROVE Lagging
  OBVIOUS
<1> USE DEF Init, RolloutInit, MQInit, TrainInit
<1>1. Versions
  BY DEF Versions, Pending
<1>2. Collects
  BY PerVersion, FS_EmptySet DEF Collects
<1>3. PutInTime /\ UsedInTime /\ LagBound
  BY DEF PutInTime, UsedInTime, LagBound
<1> QED
  BY <1>1, <1>2, <1>3 DEF Lagging

\* Every step keeps the trainer within its distance.
LEMMA NextLagging == IInv /\ Placed /\ Lagging /\ [Next]_vars => Lagging'
<1> SUFFICES ASSUME IInv, Placed, Lagging, [Next]_vars PROVE Lagging'
  OBVIOUS
<1>1. CASE Rollouter /\ UNCHANGED trainVars
  BY <1>1, OthersLag, PauseLags, UpdateLags, TaskLags DEF Rollouter
<1>2. CASE Trainer
  BY <1>2, TrainerLags
<1>3. CASE UNCHANGED vars
  <2>1. UNCHANGED trainVars /\ UNCHANGED <<queue, version, paramVersion, pc, task>>
    BY <1>3 DEF vars, rolloutVars, loopVars, taskVars, countVars, mqVars
  <2>2. Pending' = Pending /\ Draining' = Draining
    BY <2>1 DEF Pending, Draining, trainVars
  <2> QED
    BY <2>1, <2>2, LaggingStays
<1> QED
  BY <1>1, <1>2, <1>3 DEF Next, Ended

(***************************************************************************)
(* For every budget and every batch size, whatever the order of pauses,    *)
(* recoveries and synchronizations: the staleness the budget allows is     *)
(* kept, at two versions more for the synchronizations the trainer does    *)
(* not wait for.                                                           *)
(***************************************************************************)
THEOREM LagCorrect == Spec => []LagBound
<1>1. Lagging => LagBound
  BY DEF Lagging
<1> QED
  BY <1>1, InitIInv, NextIInv, InitPlaced, NextPlaced, InitLagging, NextLagging, PTL DEF Spec

-----------------------------------------------------------------------------
(* done_tasks of the processor                                             *)

\* Where the processor waits for tasks to be over.
Reaping == pc["proc"] \in {"reap", "reapLock", "reapWait"}

\* It has the entry "DONE" in hand when it reaps for the last time.
DoneAtEnd ==
    /\ Reaping /\ loop = "end" => hand = Done
    /\ pc["proc"] = "finish" => hand = Done

\* The tasks submitted before the first reaping.
Submitted == IF hand = NoSample THEN taken ELSE taken - 1

\* The pending queue as the feeder leaves it at first.
FirstFill == IF PendingSize < Done THEN PendingSize ELSE Done

\* Until it has reaped for the first time the processor runs without a break,
\* and nobody else has started anything; nor does it wait for the lock with
\* nothing to reap.
InOneGo ==
    /\ cpu # "proc" => taken = 0
    /\ lock # <<>> => cpu # "none" /\ lock = <<cpu>>
    /\ pc["proc"] \in {"top", "get", "submit", "mark", "reap", "reapLock"}
    /\ pc["pause"] = "off" /\ pc["update"] = "off" /\ pc["resume"] = "off"
    /\ trainPc = "collect" /\ queue = <<>> /\ cancelQueue = <<>>

\* What was taken is started, but for the entry in hand.
StartedOnly ==
    /\ finished = 0 /\ staleness = taken
    /\ hand \in {NoSample, taken} /\ (hand = NoSample => taken < Done)
    /\ Live = 1..Submitted
    /\ \A s \in Live : task[s] = "start"

\* The feeder fills the pending queue before the processor takes from it, so
\* the processor finds an entry each time.
NeverStarved ==
    /\ fed \in {0, FirstFill} /\ (taken > 0 => fed = FirstFill)
    /\ pc["proc"] = "get" => hand = NoSample /\ (taken > 0 => taken < fed)

\* A loop that reaps was entered with something submitted.
SomethingToReap ==
    /\ paused => Reaping /\ loop = "drain"
    /\ loop \in {"drain", "limit", "end"}
    /\ pc["proc"] \in {"submit", "reap", "reapLock"} /\ loop # "drain" => hand = taken /\ taken > 0
    /\ pc["proc"] = "submit" => loop = "limit"
    /\ pc["proc"] \in {"submit", "reap"} /\ loop = "limit" => hand # Done
    /\ pc["proc"] = "mark" => Submitted > 0
    /\ Reaping /\ loop # "limit" => Submitted > 0
    /\ pc["proc"] = "reapLock" => Submitted > 0

\* asyncio.wait has not returned to any of the loops that assign done_tasks.
NotReaped == ~bound /\ pc["proc"] # "reapWait"

\* Until then all of this holds.
FirstReaping ==
    /\ bound \in BOOLEAN
    /\ NotReaped => InOneGo /\ StartedOnly /\ NeverStarved /\ SomethingToReap

\* The inductive invariant: done_tasks is assigned before it is read.
Survives == DoneAtEnd /\ FirstReaping

\* What the assumptions say of the first filling of the pending queue.
LEMMA Fills ==
    /\ FirstFill \in Nat \ {0} /\ FirstFill <= Done
    /\ PendingSize > MaxConcurrentSamples => FirstFill > MaxConcurrentSamples \/ FirstFill = Done
BY Sizes DEF FirstFill

\* Nobody but the processor moves it, but for the notification, or touches
\* what it has in hand.
LEMMA ProcessorAlone ==
    ASSUME IInv, [Next]_vars
    PROVE  \/ Processor /\ UNCHANGED trainVars
           \/ /\ UNCHANGED <<taken, hand, loop, bound>>
              /\ \/ pc'["proc"] = pc["proc"]
                 \/ pc["proc"] = "idle" /\ pc'["proc"] = "notified"
<1> USE DEF mqVars, procVars, taskVars, loopVars
<1>1. pc \in [Coroutines -> Labels]
  BY DEF IInv, Locked
<1> USE <1>1 DEF Goto, Acquires, Releases, Suspends, Continues, Coroutines
<1>2. CASE Feed
  BY <1>2 DEF Feed
<1>3. CASE Monitor
  BY <1>3 DEF Monitor, MonitorTop, MonitorCheckRunning, MonitorWake, MonitorRecover, Notified
<1>4. CASE Pause
  BY <1>4 DEF Pause, PauseLock, PauseSet, PauseCancel, PauseGather, PauseReturn
<1>5. CASE Update(syncVersion)
  BY <1>5 DEF Update, UpdateLock, UpdateCount, CountTasks, UpdateSize, UpdateReturn, UpdateEnds
<1>6. CASE Resume
  BY <1>6 DEF Resume, ResumeLock, ResumeServers, ResumeReturn, Notified
<1>7. CASE \E s \in Samples : Task(s)
  BY <1>7, TaskBecomes DEF Becomes
<1>8. CASE Trainer
  BY <1>8 DEF Trainer, CollectSample, TrainStep, FinalSync, SyncWeights, SyncPause, SyncStart,
              SyncEnd, SyncFrame, TrainEnd, rolloutVars
<1>9. CASE UNCHANGED vars
  BY <1>9 DEF vars, rolloutVars
<1> QED
  BY <1>2, <1>3, <1>4, <1>5, <1>6, <1>7, <1>8, <1>9 DEF Next, Rollouter, Ended

\* What is in active_tasks before anything was reaped.
LEMMA ActiveAtFirst ==
    ASSUME IInv, StartedOnly
    PROVE  Submitted \in 0..TotalRolloutSteps /\ ActiveTasks = Submitted
<1>1. Submitted \in 0..TotalRolloutSteps
  BY Sizes DEF IInv, Fed, StartedOnly, Submitted
<1>2. Cardinality(1..Submitted) = Submitted
  BY <1>1, FS_Interval
<1> QED
  BY <1>1, <1>2 DEF StartedOnly, ActiveTasks

\* The entry the processor holds at the end is "DONE", and it gets there in no
\* other way: what it waits for is there to be reaped.
LEMMA DoneAtEndStays ==
    ASSUME IInv, DoneAtEnd, FirstReaping, [Next]_vars
    PROVE  DoneAtEnd'
<1> USE DEF procVars, taskVars, mqVars, Coroutines, Goto, Acquires, Releases, Suspends, Continues
<1>1. pc \in [Coroutines -> Labels]
  BY DEF IInv, Locked
<1>2. CASE ~(Processor /\ UNCHANGED trainVars)
  BY <1>2, ProcessorAlone DEF DoneAtEnd, Reaping
<1>3. CASE ProcTop
  BY <1>1, <1>3 DEF ProcTop, DoneAtEnd, Reaping
<1>4. CASE ProcGet
  BY <1>1, <1>4 DEF ProcGet, Take, DoneAtEnd, Reaping
<1>5. CASE ProcMarkPaused
  BY <1>1, <1>5 DEF ProcMarkPaused, DoneAtEnd, Reaping
<1>6. CASE ProcReap
  BY <1>1, <1>6 DEF ProcReap, At, DoneAtEnd, Reaping
<1>7. CASE ProcReapLocked
  <2>1. pc["proc"] = "reapLock" /\ UNCHANGED <<hand, loop>>
    BY <1>7 DEF ProcReapLocked, Within
  <2>2. CASE ActiveTasks = 0 /\ ~bound
    <3>1. StartedOnly /\ Submitted > 0
      BY <2>1, <2>2 DEF FirstReaping, NotReaped, SomethingToReap
    <3> QED
      BY <2>2, <3>1, ActiveAtFirst
  <2>3. CASE pc'["proc"] \in {"reapWait", "reap"}
    BY <2>1, <2>3 DEF DoneAtEnd, Reaping
  <2> QED
    BY <1>1, <1>7, <2>2, <2>3 DEF ProcReapLocked
<1>8. CASE ProcReapWait
  BY <1>1, <1>8 DEF ProcReapWait, Reap, Within, DoneAtEnd, Reaping
<1>9. CASE ProcIdle \/ ProcNotified \/ ProcSubmit \/ Finish \/ Stop
  BY <1>1, <1>9 DEF ProcIdle, ProcNotified, ProcSubmit, Finish, Stop, DoneAtEnd, Reaping
<1> QED
  BY <1>2, <1>3, <1>4, <1>5, <1>6, <1>7, <1>8, <1>9 DEF Processor

\* When nobody else is at the lock, the monitor gets it and gives it back.
LEMMA MonitorAlone ==
    ASSUME IInv, cpu # "proc", lock # <<>> => cpu # "none" /\ lock = <<cpu>>, Monitor
    PROVE  /\ cpu' \in {"none", "monitor"}
           /\ lock' # <<>> => cpu' # "none" /\ lock' = <<cpu'>>
           /\ \A c \in Coroutines \ {"proc", "monitor"} : pc'[c] = pc[c]
           /\ pc["proc"] # "idle" => pc'["proc"] = pc["proc"]
           /\ UNCHANGED <<fed, taken, loop, hand, bound, task, finished, cancelQueue, staleness, queue>>
           /\ paused' => paused
<1>1. pc \in [Coroutines -> Labels]
  BY DEF IInv, Locked
<1>2. cpu \in {"none", "monitor"} /\ cpu' \in {"none", "monitor"}
  BY DEF Monitor, MonitorTop, MonitorCheckRunning, MonitorWake, MonitorRecover, At, Within, Holds,
         Runs, Acquires, Releases, Continues
<1>3. /\ \A c \in Coroutines \ {"proc", "monitor"} : pc'[c] = pc[c]
      /\ pc["proc"] # "idle" => pc'["proc"] = pc["proc"]
      /\ UNCHANGED <<fed, taken, loop, hand, bound, task, finished, cancelQueue, staleness, queue>>
      /\ paused' => paused
  BY <1>1 DEF Monitor, MonitorTop, MonitorCheckRunning, MonitorWake, MonitorRecover, Notified, Goto,
     Acquires, Releases, Continues, Coroutines, procVars, taskVars, flagVars, countVars, mqVars
<1>4. lock' # <<>> => cpu' # "none" /\ lock' = <<cpu'>>
  <2>1. lock # <<>> => lock = <<"monitor">> /\ pc["monitor"] \in InLock
    <3>1. ASSUME lock # <<>> PROVE lock = <<"monitor">> /\ pc["monitor"] \in InLock
      <4>1. lock = <<"monitor">> /\ 1 \in 1..Len(lock) /\ lock[1] = "monitor"
        BY <1>2, <3>1
      <4> QED
        BY <4>1 DEF IInv, Locked
    <3> QED
      BY <3>1
  <2>2. Append(<<>>, "monitor") = <<"monitor">> /\ Tail(<<"monitor">>) = <<>>
    OBVIOUS
  <2> QED
    BY <2>1, <2>2 DEF Monitor, MonitorTop, MonitorCheckRunning, MonitorWake, MonitorRecover, At,
       Within, Holds, Acquires, Releases, Continues, InLock
<1> QED
  BY <1>2, <1>3, <1>4

\* Before the first reaping the rest of the program can do no more than fill
\* the pending queue and run the monitor, and that only before the first sample.
LEMMA OthersAtFirst ==
    ASSUME IInv, FirstReaping, NotReaped, [Next]_vars,
           ~(Processor /\ UNCHANGED trainVars)
    PROVE  FirstReaping'
<1> USE DEF procVars, taskVars, mqVars, loopVars, flagVars, countVars
<1>1. /\ pc \in [Coroutines -> Labels] /\ InOneGo /\ StartedOnly /\ NeverStarved
      /\ SomethingToReap /\ bound = FALSE
  BY DEF IInv, Locked, FirstReaping, NotReaped
<1>2. /\ pc["proc"] # "idle" /\ pc["pause"] = "off" /\ pc["update"] = "off"
      /\ pc["resume"] = "off" /\ trainPc = "collect" /\ queue = <<>>
      /\ (cpu # "proc" => taken = 0)
  BY <1>1 DEF InOneGo
<1>3. taken = 0 => Live = {}
  BY <1>1, Sizes DEF StartedOnly, Submitted
<1>4. CASE Feed /\ UNCHANGED trainVars
  <2>1. /\ taken = 0 /\ fed' = FeedLimit
        /\ UNCHANGED <<cpu, lock, pc, taken, loop, hand, bound, task, finished, cancelQueue,
                       paused, staleness, queue, trainPc>>
    BY <1>2, <1>4 DEF Feed, Runs, trainVars
  <2>2. fed' = FirstFill
    BY <2>1, Sizes DEF FeedLimit, FirstFill
  <2>3. UNCHANGED <<Live, Submitted, Reaping>>
    BY <2>1 DEF Live, Submitted, Reaping
  <2>4. InOneGo' /\ StartedOnly' /\ SomethingToReap'
    BY <1>1, <2>1, <2>3 DEF InOneGo, StartedOnly, SomethingToReap
  <2>5. NeverStarved'
    BY <1>1, <2>1, <2>2 DEF NeverStarved
  <2> QED
    BY <1>1, <2>1, <2>4, <2>5 DEF FirstReaping
<1>5. CASE Monitor /\ UNCHANGED trainVars
  <2>1. cpu # "proc"
    BY <1>5 DEF Monitor, MonitorTop, MonitorCheckRunning, MonitorWake, MonitorRecover, At, Within,
                Holds, Runs
  <2>2. /\ taken = 0 /\ cpu' \in {"none", "monitor"} /\ pc'["proc"] = pc["proc"]
        /\ pc'["pause"] = "off" /\ pc'["update"] = "off" /\ pc'["resume"] = "off"
        /\ UNCHANGED <<fed, taken, loop, hand, bound, task, finished, cancelQueue,
                       staleness, queue, trainPc>>
        /\ (paused' => paused) /\ (lock' # <<>> => cpu' # "none" /\ lock' = <<cpu'>>)
    BY <1>1, <1>2, <1>5, <2>1, MonitorAlone DEF InOneGo, Coroutines, trainVars
  <2>3. UNCHANGED <<Live, Submitted, Reaping>>
    BY <2>2 DEF Live, Submitted, Reaping
  <2>4. InOneGo' /\ StartedOnly'
    BY <1>1, <2>2, <2>3 DEF InOneGo, StartedOnly
  <2>5. NeverStarved' /\ SomethingToReap'
    BY <1>1, <2>2, <2>3 DEF NeverStarved, SomethingToReap, Reaping
  <2> QED
    BY <1>1, <2>2, <2>4, <2>5 DEF FirstReaping
<1>6. ~Pause /\ ~Update(syncVersion) /\ ~Resume
  BY <1>2 DEF Pause, PauseLock, PauseSet, PauseCancel, PauseGather, PauseReturn, Update,
     UpdateLock, UpdateCount, CountTasks, UpdateSize, UpdateReturn, UpdateEnds, Resume,
     ResumeLock, ResumeServers, ResumeReturn, At, Within
<1>7. ASSUME NEW s \in Samples PROVE ~Task(s)
  <2>1. s \in Live => task[s] = "start" /\ cpu # "none"
    BY <1>1, <1>2, <1>3 DEF StartedOnly
  <2>2. s \notin Live => task[s] = "none"
    BY DEF Live
  <2> QED
    BY <2>1, <2>2 DEF Task, TaskStart, TaskArrive, TaskInterrupt, TaskGenerated, TaskPut,
       TaskReturn, TaskCancelled, Resumes
<1>8. ~Trainer
  BY <1>2 DEF Trainer, CollectSample, GetSample, TrainStep, FinalSync, SyncWeights, SyncPause,
              SyncStart, SyncEnd, TrainEnd
<1>9. CASE UNCHANGED vars
  <2>1. UNCHANGED <<cpu, lock, pc, fed, taken, loop, hand, bound, task, finished, cancelQueue,
                    paused, staleness, queue, trainPc>>
    BY <1>9 DEF vars, rolloutVars, trainVars
  <2>2. UNCHANGED <<Live, Submitted, Reaping>>
    BY <2>1 DEF Live, Submitted, Reaping
  <2>3. InOneGo' /\ StartedOnly' /\ NeverStarved' /\ SomethingToReap'
    BY <1>1, <2>1, <2>2 DEF InOneGo, StartedOnly, NeverStarved, SomethingToReap
  <2> QED
    BY <1>1, <2>1, <2>3 DEF FirstReaping
<1> QED
  BY <1>4, <1>5, <1>6, <1>7, <1>8, <1>9 DEF Next, Rollouter, Ended

\* The processor runs through to its first reaping: the pending queue is longer
\* than the tasks it may have, and what stops it earlier leaves tasks to reap.
LEMMA ProcessorAtFirst ==
    ASSUME PendingSize > MaxConcurrentSamples,
           IInv, FirstReaping, NotReaped, Processor, UNCHANGED trainVars
    PROVE  FirstReaping'
<1> USE DEF procVars, taskVars, mqVars, loopVars, flagVars, countVars, Coroutines
<1>1. /\ pc \in [Coroutines -> Labels] /\ InOneGo /\ StartedOnly /\ NeverStarved
      /\ SomethingToReap /\ bound = FALSE /\ trainPc' = trainPc
  BY DEF IInv, Locked, FirstReaping, NotReaped, trainVars
<1>2. /\ Submitted \in Nat /\ ActiveTasks = Submitted /\ Submitted <= MaxConcurrentSamples
      /\ taken \in Nat /\ fed \in Nat /\ taken <= fed
  BY <1>1, ActiveAtFirst, Sizes DEF IInv, Limited, Fed
<1>3. pc["proc"] \notin InLock /\ Runs("proc") => lock = <<>>
  <2>1. ASSUME lock # <<>>, Runs("proc") PROVE pc["proc"] \in InLock
    <3>1. lock = <<"proc">>
      BY <1>1, <2>1 DEF InOneGo, Runs
    <3>2. 1 \in 1..Len(lock) /\ lock[1] = "proc"
      BY <3>1
    <3> QED
      BY <3>2 DEF IInv, Locked
  <2> QED
    BY <2>1
<1>4. Tail(<<"proc">>) = <<>> /\ Append(<<>>, "proc") = <<"proc">>
  OBVIOUS
<1>5. /\ pc["proc"] \in {"top", "get", "submit", "mark", "reap", "reapLock"}
      /\ pc["pause"] = "off" /\ pc["update"] = "off" /\ pc["resume"] = "off"
      /\ queue = <<>> /\ cancelQueue = <<>> /\ (lock # <<>> => lock = <<cpu>>)
      /\ (cpu # "proc" => taken = 0)
  BY <1>1 DEF InOneGo
<1>6. CASE ProcTop
  <2>1. /\ pc["proc"] = "top" /\ Runs("proc") /\ hand = NoSample /\ lock = <<>>
        /\ UNCHANGED <<fed, taken, hand, loop, bound, task, finished, cancelQueue, paused,
                       staleness, queue>>
        /\ Submitted = taken
    <3>1. pc["proc"] = "top" /\ Runs("proc") /\ "top" \notin InLock
      BY <1>6 DEF ProcTop, At, InLock
    <3> QED
      BY <1>3, <1>5, <1>6, <3>1 DEF ProcTop, IInv, Handed, Submitted
  <2>2. ShouldPauseGeneration => taken > 0
    BY <1>1, <1>2, <1>5, Sizes, RollouterAssumption DEF ShouldPauseGeneration, StartedOnly
  <2>3. ~paused
    BY <1>1, <2>1 DEF SomethingToReap, Reaping
  <2>4. UNCHANGED <<Live, Submitted>>
    BY <2>1 DEF Live, Submitted
  <2>5. CASE ShouldPauseGeneration /\ Acquires("proc", "mark")
    <3>1. lock' = <<"proc">> /\ cpu' = "proc" /\ pc' = [pc EXCEPT !["proc"] = "mark"]
      BY <1>4, <2>1, <2>5 DEF Acquires, Goto
    <3>2. InOneGo'
      BY <1>1, <2>1, <3>1 DEF InOneGo
    <3>3. StartedOnly' /\ NeverStarved'
      BY <1>1, <2>1, <2>4, <3>1 DEF StartedOnly, NeverStarved
    <3>4. SomethingToReap'
      BY <1>1, <2>1, <2>2, <2>3, <2>4, <2>5, <3>1 DEF SomethingToReap, Reaping
    <3> QED
      BY <1>1, <2>1, <3>2, <3>3, <3>4 DEF FirstReaping
  <2>6. CASE IF taken < fed THEN Continues("proc", "get") ELSE Suspends("proc", "get")
    <3>1. /\ pc' = [pc EXCEPT !["proc"] = "get"] /\ lock' = <<>>
          /\ (taken < fed => cpu' = "proc")
      BY <2>1, <2>6 DEF Continues, Suspends, Goto
    <3>2. taken > 0 => taken < fed
      <4>1. taken < Done /\ taken <= MaxConcurrentSamples
        BY <1>1, <1>2, <2>1 DEF StartedOnly
      <4> QED
        BY <1>1, <1>2, <4>1, Fills, Sizes DEF NeverStarved
    <3>3. InOneGo'
      BY <1>1, <1>2, <2>1, <3>1, <3>2 DEF InOneGo
    <3>4. StartedOnly' /\ NeverStarved'
      BY <1>1, <2>1, <2>4, <3>1, <3>2 DEF StartedOnly, NeverStarved
    <3>5. SomethingToReap'
      BY <1>1, <2>1, <2>3, <2>4, <3>1 DEF SomethingToReap, Reaping
    <3> QED
      BY <1>1, <2>1, <3>3, <3>4, <3>5 DEF FirstReaping
  <2> QED
    BY <1>5, <1>6, <2>3, <2>5, <2>6 DEF ProcTop
<1>7. CASE ProcGet
  <2>1. /\ pc["proc"] = "get" /\ lock = <<>> /\ hand = NoSample /\ taken < fed
        /\ taken' = taken + 1 /\ hand' = taken + 1 /\ staleness' = staleness + 1
        /\ loop' = (IF taken + 1 = Done THEN "end" ELSE "limit")
        /\ pc' = [pc EXCEPT !["proc"] = "reap"] /\ lock' = lock /\ cpu' = "proc"
        /\ UNCHANGED <<fed, bound, task, finished, cancelQueue, paused, queue>>
    <3>1. pc["proc"] = "get" /\ Runs("proc") /\ "get" \notin InLock
      BY <1>7 DEF ProcGet, Take, At, InLock
    <3> QED
      BY <1>1, <1>3, <1>7, <3>1 DEF NeverStarved, ProcGet, Take, Continues, Goto
  <2>2. Live' = Live /\ Submitted = taken /\ Submitted' = taken
    BY <1>2, <2>1, Sizes DEF Live, Submitted
  <2>3. taken < Done => taken + 1 # NoSample /\ (taken + 1 = Done => taken > 0)
    BY <1>2, Sizes
  <2>4. InOneGo'
    BY <1>1, <2>1 DEF InOneGo
  <2>5. StartedOnly'
    BY <1>1, <1>2, <2>1, <2>2, Sizes DEF StartedOnly
  <2>6. NeverStarved'
    BY <1>1, <1>2, <2>1, Sizes DEF NeverStarved
  <2>7. SomethingToReap'
    BY <1>1, <1>2, <2>1, <2>2, Sizes DEF SomethingToReap, Reaping, StartedOnly
  <2> QED
    BY <1>1, <2>1, <2>4, <2>5, <2>6, <2>7 DEF FirstReaping
<1>8. CASE ProcMarkPaused
  <2>1. /\ pc["proc"] = "mark" /\ lock = <<"proc">> /\ cpu = "proc" /\ hand = NoSample
        /\ pc' = [pc EXCEPT !["proc"] = "reap"] /\ lock' = Tail(lock) /\ cpu' = "proc"
        /\ paused' = TRUE /\ loop' = "drain"
        /\ UNCHANGED <<fed, taken, hand, bound, task, finished, cancelQueue, staleness, queue>>
    BY <1>5, <1>8 DEF ProcMarkPaused, Within, Holds, Runs, Releases, Goto, IInv, Handed
  <2>2. Live' = Live /\ Submitted' = Submitted /\ lock' = <<>>
    BY <1>4, <2>1 DEF Live, Submitted
  <2>3. InOneGo'
    BY <1>1, <2>1, <2>2 DEF InOneGo
  <2>4. StartedOnly' /\ NeverStarved'
    BY <1>1, <2>1, <2>2 DEF StartedOnly, NeverStarved
  <2>5. SomethingToReap'
    BY <1>1, <2>1, <2>2 DEF SomethingToReap, Reaping
  <2> QED
    BY <1>1, <2>1, <2>3, <2>4, <2>5 DEF FirstReaping
<1>9. CASE ProcReap
  <2>1. /\ pc["proc"] = "reap" /\ lock = <<>> /\ (taken > 0 => cpu = "proc")
        /\ UNCHANGED <<fed, taken, hand, loop, bound, task, finished, cancelQueue, paused,
                       staleness, queue>>
    <3>1. pc["proc"] = "reap" /\ Runs("proc") /\ "reap" \notin InLock
      BY <1>9 DEF ProcReap, At, InLock
    <3> QED
      BY <1>3, <1>2, <1>5, <1>9, <3>1 DEF ProcReap
  <2>2. /\ UNCHANGED <<Live, Submitted>>
        /\ loop \in {"drain", "limit", "end"}
        /\ (loop # "limit" => Submitted > 0)
        /\ (loop = "limit" => hand = taken /\ taken > 0)
        /\ (KeepsReaping => Submitted > 0)
        /\ (~KeepsReaping => loop = "limit" /\ Submitted < MaxConcurrentSamples)
    BY <1>1, <1>2, <2>1, Sizes DEF Live, Submitted, SomethingToReap, Reaping, KeepsReaping
  <2>3. CASE KeepsReaping /\ Acquires("proc", "reapLock")
    <3>1. /\ pc' = [pc EXCEPT !["proc"] = "reapLock"] /\ lock' = <<"proc">> /\ cpu' = "proc"
      BY <1>4, <2>1, <2>3 DEF Acquires, Goto
    <3>2. InOneGo'
      BY <1>1, <2>1, <3>1 DEF InOneGo
    <3>3. StartedOnly' /\ NeverStarved'
      BY <1>1, <2>1, <2>2, <3>1 DEF StartedOnly, NeverStarved
    <3>4. SomethingToReap'
      BY <1>1, <2>1, <2>2, <2>3, <3>1 DEF SomethingToReap, Reaping
    <3> QED
      BY <1>1, <2>1, <3>2, <3>3, <3>4 DEF FirstReaping
  <2>4. CASE loop = "limit" /\ Acquires("proc", "submit")
    <3>1. /\ pc' = [pc EXCEPT !["proc"] = "submit"] /\ lock' = <<"proc">> /\ cpu' = "proc"
      BY <1>4, <2>1, <2>4 DEF Acquires, Goto
    <3>2. InOneGo'
      BY <1>1, <2>1, <3>1 DEF InOneGo
    <3>3. StartedOnly' /\ NeverStarved'
      BY <1>1, <2>1, <2>2, <3>1 DEF StartedOnly, NeverStarved
    <3>4. SomethingToReap'
      BY <1>1, <2>1, <2>2, <2>4, <3>1 DEF SomethingToReap, Reaping
    <3> QED
      BY <1>1, <2>1, <3>2, <3>3, <3>4 DEF FirstReaping
  <2> QED
    BY <1>9, <2>2, <2>3, <2>4 DEF ProcReap
<1>10. CASE ProcReapLocked
  <2>1. pc["proc"] = "reapLock" /\ bound' = bound
    BY <1>10 DEF ProcReapLocked, Within
  <2>2. ActiveTasks > 0
    BY <1>1, <1>2, <2>1 DEF SomethingToReap
  <2>3. pc' = [pc EXCEPT !["proc"] = "reapWait"]
    BY <1>10, <2>2 DEF ProcReapLocked, Suspends, Goto
  <2> QED
    BY <1>1, <2>1, <2>3 DEF FirstReaping, NotReaped
<1>11. CASE ProcSubmit
  <2>1. /\ pc["proc"] = "submit" /\ lock = <<"proc">> /\ cpu = "proc" /\ ~paused
        /\ hand = taken /\ taken > 0 /\ loop = "limit" /\ hand # Done
    BY <1>1, <1>5, <1>11 DEF ProcSubmit, Within, Holds, Runs, SomethingToReap, Reaping
  <2>2. /\ pc' = [pc EXCEPT !["proc"] = "top"] /\ lock' = Tail(lock) /\ cpu' = "proc"
        /\ task' = [task EXCEPT ![hand] = "start"] /\ hand' = NoSample
        /\ UNCHANGED <<fed, taken, loop, bound, finished, cancelQueue, paused, staleness, queue>>
    BY <1>11, <2>1 DEF ProcSubmit, Releases, Goto
  <2>3. lock' = <<>>
    BY <1>4, <2>1, <2>2
  <2>4. /\ taken \in Samples /\ Submitted = taken - 1 /\ Submitted' = taken
        /\ task \in [Samples -> TaskStates]
    BY <1>2, <2>1, <2>2, Sizes DEF Submitted, IInv, Fed, Tasks
  <2>5. Live' = 1..taken /\ \A s \in Live' : task'[s] = "start"
    <3>1. \A s \in Samples : task'[s] = IF s = taken THEN "start" ELSE task[s]
      BY <2>1, <2>2, <2>4
    <3>2. Live' = Live \cup {taken}
      BY <2>4, <3>1 DEF Live
    <3>3. Live = 1..(taken - 1) /\ \A s \in Live : task[s] = "start"
      BY <1>1, <2>4 DEF StartedOnly
    <3>4. 1..taken = (1..(taken - 1)) \cup {taken}
      BY <1>2, <2>1
    <3>5. \A s \in Live' : s \in Samples
      BY DEF Live
    <3> QED
      BY <3>1, <3>2, <3>3, <3>4, <3>5
  <2>6. InOneGo'
    BY <1>1, <2>1, <2>2, <2>3 DEF InOneGo
  <2>7. StartedOnly'
    BY <1>1, <2>1, <2>2, <2>4, <2>5, Sizes DEF StartedOnly
  <2>8. NeverStarved' /\ SomethingToReap'
    BY <1>1, <2>1, <2>2 DEF NeverStarved, SomethingToReap, Reaping
  <2> QED
    BY <1>1, <2>2, <2>6, <2>7, <2>8 DEF FirstReaping
<1>12. ~ProcReapWait /\ ~ProcIdle /\ ~ProcNotified /\ ~Finish /\ ~Stop
  BY <1>5 DEF ProcReapWait, Reap, ProcIdle, ProcNotified, Finish, Stop, At, Within
<1> QED
  BY <1>6, <1>7, <1>8, <1>9, <1>10, <1>11, <1>12 DEF Processor

\* Once it has reaped, done_tasks stays assigned.
LEMMA OnceReaped ==
    ASSUME IInv, bound \in BOOLEAN, ~NotReaped, [Next]_vars
    PROVE  bound' \in BOOLEAN /\ ~NotReaped'
<1> USE DEF procVars, taskVars, mqVars, Coroutines, Goto, Acquires, Releases, Suspends, Continues
<1>1. pc \in [Coroutines -> Labels] /\ bound \in BOOLEAN
  BY DEF IInv, Locked
<1>2. CASE ~(Processor /\ UNCHANGED trainVars)
  BY <1>1, <1>2, ProcessorAlone DEF NotReaped
<1>3. CASE bound /\ Processor
  <2>1. bound' = TRUE
    <3>1. CASE ProcTop \/ ProcGet \/ ProcMarkPaused \/ ProcReap \/ ProcReapLocked \/ ProcReapWait
      BY <1>1, <1>3, <3>1 DEF ProcTop, ProcGet, Take, ProcMarkPaused, ProcReap, ProcReapLocked,
                              ProcReapWait, Reap
    <3>2. CASE ProcIdle \/ ProcNotified \/ ProcSubmit \/ Finish \/ Stop
      BY <1>1, <1>3, <3>2 DEF ProcIdle, ProcNotified, ProcSubmit, Finish, Stop
    <3> QED
      BY <1>3, <3>1, <3>2 DEF Processor
  <2> QED
    BY <2>1 DEF NotReaped
<1>4. CASE pc["proc"] = "reapWait" /\ Processor
  <2>1. ProcReapWait
    BY <1>4 DEF Processor, ProcTop, ProcGet, Take, ProcMarkPaused, ProcReap, ProcReapLocked,
                ProcIdle, ProcNotified, ProcSubmit, Finish, Stop, At, Within
  <2> QED
    BY <2>1 DEF ProcReapWait, NotReaped
<1> QED
  BY <1>1, <1>2, <1>3, <1>4 DEF NotReaped

\* At the start nothing is taken.
LEMMA InitSurvives == Init => Survives
<1> SUFFICES ASSUME Init PROVE Survives
  OBVIOUS
<1> USE DEF Init, RolloutInit, MQInit, TrainInit
<1>1. Submitted = 0 /\ Live = {} /\ 1..0 = {}
  BY DEF Submitted, Live
<1>2. InOneGo /\ StartedOnly
  BY <1>1, Sizes DEF InOneGo, StartedOnly
<1>3. NeverStarved /\ SomethingToReap
  BY DEF NeverStarved, SomethingToReap, Reaping
<1>4. DoneAtEnd
  BY DEF DoneAtEnd, Reaping
<1> QED
  BY <1>2, <1>3, <1>4 DEF Survives, FirstReaping

\* Every step keeps the processor from a done_tasks that is not assigned.
LEMMA NextSurvives ==
    ASSUME PendingSize > MaxConcurrentSamples
    PROVE  IInv /\ Survives /\ [Next]_vars => Survives'
<1> SUFFICES ASSUME IInv, Survives, [Next]_vars PROVE Survives'
  OBVIOUS
<1>1. FirstReaping'
  <2>1. CASE NotReaped /\ Processor /\ UNCHANGED trainVars
    BY <2>1, ProcessorAtFirst DEF Survives
  <2>2. CASE NotReaped /\ ~(Processor /\ UNCHANGED trainVars)
    BY <2>2, OthersAtFirst DEF Survives
  <2>3. CASE ~NotReaped
    BY <2>3, OnceReaped DEF Survives, FirstReaping
  <2> QED
    BY <2>1, <2>2, <2>3
<1>2. DoneAtEnd'
  BY DoneAtEndStays DEF Survives
<1> QED
  BY <1>1, <1>2 DEF Survives

(***************************************************************************)
(* Whatever the budget and the order of pauses and recoveries: with a      *)
(* pending queue longer than the tasks that may run at once, the processor *)
(* never reads a done_tasks that was never assigned, and ends only with    *)
(* the entry "DONE".                                                       *)
(***************************************************************************)
THEOREM SurvivesCorrect ==
    ASSUME PendingSize > MaxConcurrentSamples
    PROVE  Spec => []ProcessorSurvives
<1>1. Survives => ProcessorSurvives
  BY DEF Survives, DoneAtEnd, ProcessorSurvives
<1>2. IInv /\ Survives /\ [Next]_vars => Survives'
  BY NextSurvives
<1> QED
  BY <1>1, <1>2, InitIInv, NextIInv, InitSurvives, PTL DEF Spec

-----------------------------------------------------------------------------
(* staleness_threshold = 0: the recipe goes in rounds                      *)

\* The budget of a version is what the trainer trains on between two versions.
OnPolicy == MaxRequiredSamples = SamplesPerVersion

\* The samples of the rounds before version v.
UpTo(v) == v * SamplesPerVersion

\* The processor has reaped for the last time.
Over == pc["proc"] \in {"finish", "stop", "ended"}

\* From the trainer's change of version to the end of resume.
Syncing == trainPc \in {"waitValid", "pause", "copy"} \/ pc["resume"] # "off"

\* The part of it in which pause has returned.
Drained ==
    \/ trainPc = "pause" /\ pc["pause"] = "off"
    \/ trainPc = "copy"
    \/ pc["resume"] # "off"

\* update_param_version has set the version and not yet the staleness.
Counting == pc["update"] \in {"size", "sized"}

\* The samples that are somewhere between the pending queue and training.
Here == InHand \cup Underway \cup InQueue \cup batch

\* A coroutine that is where it needs the lock is in its queue.
Members == \A c \in Coroutines : pc[c] \in InLock => \E i \in 1..Len(lock) : lock[i] = c

\* What the processor has in hand is the entry it took last; it never goes to
\* sleep with it.
Hands ==
    /\ loop \in {"drain", "limit", "end"}
    /\ hand # NoSample => hand = taken
    /\ taken = Done => hand = Done
    /\ pc["proc"] = "submit" \/ (Reaping /\ loop = "limit") => hand \in Samples /\ ~paused
    /\ Over \/ (Reaping /\ loop = "end") => hand = Done
    /\ pc["proc"] \in {"get", "idle", "notified"} => hand = NoSample
    /\ pc["proc"] = "get" => ~paused /\ staleness < MaxRequiredSamples

\* Nothing is interrupted and nothing dropped.
Untouched ==
    /\ cancelQueue = <<>> /\ dropped = {}
    /\ \A s \in Samples : task[s] # "interrupted"

\* The end signal is behind the last sample, and nothing is behind it.
Signalled ==
    /\ Over => Live = {}
    /\ \A i \in 1..Len(queue) : queue[i] = EndSignal =>
         pc["proc"] \in {"stop", "ended"} /\ i = Len(queue)
    /\ EndSeen => pc["proc"] \in {"stop", "ended"} /\ queue = <<>> /\ batch = {}

\* The budget is what was taken in this round.
Budget == ~final =>
    /\ staleness \in 0..MaxRequiredSamples
    /\ taken = UpTo(paramVersion) + (IF Counting THEN 0 ELSE staleness)
    /\ Counting => counted = 0

\* What is under way is of this round, and so is its version.
InRound ==
    /\ ~final => \A s \in Here : s > UpTo(paramVersion)
    /\ \A s \in Samples : task[s] = "putting" => version[s] = paramVersion
    /\ \A s \in InQueue \cup batch : version[s] = paramVersion
    /\ \A s \in trained : version[s] <= paramVersion
    /\ ~final => \A s \in trained : version[s] = paramVersion <=> s > UpTo(paramVersion)

\* The trainer counts its batches right.
Counted == trainPc \in {"collect", "train"} =>
    Cardinality({s \in trained : s > UpTo(trainVersion)})
      = (localTriggerStep - 1) * RequiredSamples

\* During a synchronization everything that was taken is trained.
Quiet == Syncing /\ ~final =>
    /\ Here = {} /\ queue = <<>> /\ hand = NoSample /\ taken = UpTo(trainVersion)
    /\ pc["proc"] \notin {"get", "submit", "finish", "stop", "ended"}
    /\ pc["resume"] # "off" => trainPc = "collect"

\* update_param_version runs before resume.
InOrder == pc["update"] # "off" => pc["resume"] = "called"

\* What pause leaves, resume finds.
Flags == ~final =>
    /\ Drained \/ pc["pause"] \in {"cancel", "gather", "clear"} =>
         paused /\ pc["monitor"] # "recover"
    /\ Drained => ~trigger
    /\ Drained \/ pc["pause"] = "clear" => Live = {} /\ finished = 0

\* The servers refuse requests in a synchronization only.
Refusing ==
    /\ pc["pause"] = "cancel" => PartialRollout
    /\ serverPaused => PartialRollout /\ (final \/ (Syncing /\ pc["resume"] # "servers"))

\* A recovery that the monitor has decided on comes before a pause.
Recovers == ~final /\ pc["monitor"] = "recover" =>
    \A i, j \in 1..Len(lock) : lock[i] = "pause" /\ lock[j] = "monitor" => j < i

\* Where the reaping loop finds nothing to wait for, done_tasks is assigned.
Unassigned == pc["proc"] = "reapLock" /\ ActiveTasks = 0 => bound

\* The rounds.
Rounds == /\ Hands /\ Untouched /\ Signalled /\ Budget /\ InRound /\ Counted /\ Quiet
          /\ InOrder /\ Flags /\ Refusing /\ Recovers

-----------------------------------------------------------------------------
(* Who is in the queue of the lock                                         *)

\* A step puts a coroutine at the end of the queue, takes its head away, or
\* leaves it as it is.
Joins(c) ==
    /\ pc[c] \notin InLock /\ pc'[c] \in InLock /\ lock' = Append(lock, c)
    /\ \A d \in Coroutines \ {c} : pc'[d] = pc[d]

\* The head of the queue gives the lock back.
Leaves(c) ==
    /\ lock # <<>> /\ Head(lock) = c /\ lock' = Tail(lock) /\ pc'[c] \notin InLock
    /\ \A d \in Coroutines \ {c} : pc'[d] \in InLock => pc'[d] = pc[d]

\* Nobody comes and nobody goes.
Stays ==
    /\ lock' = lock
    /\ \A d \in Coroutines : pc'[d] \in InLock => pc[d] \in InLock

\* The processor only ever moves itself.
LEMMA ProcessorQueues ==
    ASSUME IInv, Processor
    PROVE  Joins("proc") \/ Leaves("proc") \/ Stays
<1>1. pc \in [Coroutines -> Labels]
  BY DEF IInv, Locked
<1> USE <1>1 DEF Joins, Leaves, Stays, Coroutines, InLock, At, Within, Holds, Goto, Acquires,
                 Releases, Suspends, Continues
<1>2. CASE ProcTop
  BY <1>2 DEF ProcTop
<1>3. CASE ProcGet
  BY <1>3 DEF ProcGet, Take
<1>4. CASE ProcMarkPaused
  BY <1>4 DEF ProcMarkPaused
<1>5. CASE ProcReap
  BY <1>5 DEF ProcReap
<1>6. CASE ProcReapLocked
  BY <1>6 DEF ProcReapLocked
<1>7. CASE ProcReapWait
  BY <1>7 DEF ProcReapWait, Reap
<1>8. CASE ProcIdle
  BY <1>8 DEF ProcIdle
<1>9. CASE ProcNotified
  BY <1>9 DEF ProcNotified
<1>10. CASE ProcSubmit
  BY <1>10 DEF ProcSubmit
<1>11. CASE Finish \/ Stop
  BY <1>11 DEF Finish, Stop
<1> QED
  BY <1>2, <1>3, <1>4, <1>5, <1>6, <1>7, <1>8, <1>9, <1>10, <1>11 DEF Processor

\* So do the monitor and the methods the synchronizer calls.
LEMMA OthersQueue ==
    ASSUME IInv, Monitor \/ Pause \/ Update(syncVersion) \/ Resume
    PROVE  Stays \/ \E c \in Coroutines : Joins(c) \/ Leaves(c)
<1>1. pc \in [Coroutines -> Labels]
  BY DEF IInv, Locked
<1> USE <1>1 DEF Joins, Leaves, Stays, Coroutines, InLock, At, Within, Holds, Goto, Acquires,
                 Releases, Suspends, Continues
<1>2. CASE Monitor
  <2>1. Joins("monitor") \/ Leaves("monitor") \/ Stays
    BY <1>2 DEF Monitor, MonitorTop, MonitorCheckRunning, MonitorWake, MonitorRecover, Notified
  <2> QED
    BY <2>1
<1>3. CASE Pause
  <2>1. Joins("pause") \/ Leaves("pause") \/ Stays
    BY <1>3 DEF Pause, PauseLock, PauseSet, PauseCancel, PauseGather, PauseReturn
  <2> QED
    BY <2>1
<1>4. CASE Update(syncVersion)
  <2>1. Joins("update") \/ Leaves("update") \/ Stays
    BY <1>4 DEF Update, UpdateLock, UpdateCount, CountTasks, UpdateSize, UpdateReturn, UpdateEnds
  <2> QED
    BY <2>1
<1>5. CASE Resume
  <2>1. Joins("resume") \/ Leaves("resume") \/ Stays
    BY <1>5 DEF Resume, ResumeLock, ResumeServers, ResumeReturn, Notified
  <2> QED
    BY <2>1
<1> QED
  BY <1>2, <1>3, <1>4, <1>5

\* The feeder, the tasks and the trainer never are in it; the synchronizer's
\* calls begin outside.
LEMMA RestQueues ==
    ASSUME IInv, Feed \/ Trainer \/ (\E s \in Samples : Task(s)) \/ UNCHANGED vars
    PROVE  Stays
<1>1. pc \in [Coroutines -> Labels]
  BY DEF IInv, Locked
<1>2. CASE Feed \/ UNCHANGED vars
  BY <1>2 DEF Feed, vars, rolloutVars, loopVars, Stays
<1>3. CASE \E s \in Samples : Task(s)
  BY <1>3, TaskBecomes DEF Becomes, loopVars, Stays
<1>4. CASE Trainer
  BY <1>1, <1>4 DEF Trainer, CollectSample, TrainStep, FinalSync, SyncWeights, SyncPause, SyncStart,
     SyncEnd, SyncFrame, TrainEnd, rolloutVars, loopVars, Goto, Stays, InLock, Coroutines
<1> QED
  BY <1>2, <1>3, <1>4

\* Every step does one of the three.
LEMMA Queues ==
    ASSUME IInv, [Next]_vars
    PROVE  Stays \/ \E c \in Coroutines : Joins(c) \/ Leaves(c)
<1>1. CASE Rollouter
  <2>1. Processor => Stays \/ \E c \in Coroutines : Joins(c) \/ Leaves(c)
    <3>1. Processor => Stays \/ Joins("proc") \/ Leaves("proc")
      BY ProcessorQueues
    <3> QED
      BY <3>1 DEF Coroutines
  <2>2. CASE Feed \/ \E s \in Samples : Task(s)
    BY <2>2, RestQueues
  <2>3. CASE Monitor \/ Pause \/ Update(syncVersion) \/ Resume
    BY <2>3, OthersQueue
  <2> QED
    BY <1>1, <2>1, <2>2, <2>3 DEF Rollouter
<1>2. CASE Trainer \/ UNCHANGED vars
  BY <1>2, RestQueues
<1> QED
  BY <1>1, <1>2 DEF Next, Ended

\* Hence whoever needs the lock stays in its queue.
LEMMA NextMembers ==
    ASSUME IInv, Members, [Next]_vars
    PROVE  Members'
<1>1. lock \in Seq(Coroutines) /\ pc \in [Coroutines -> Labels]
  BY DEF IInv, Locked
<1>2. CASE Stays
  BY <1>2 DEF Stays, Members
<1>3. ASSUME NEW c \in Coroutines, Joins(c) PROVE Members'
  <2>1. /\ Len(lock') = Len(lock) + 1 /\ Len(lock) \in Nat /\ lock'[Len(lock) + 1] = c
        /\ \A i \in 1..Len(lock) : lock'[i] = lock[i]
    BY <1>1, <1>3 DEF Joins
  <2>2. ASSUME NEW d \in Coroutines, pc'[d] \in InLock
        PROVE  \E i \in 1..Len(lock') : lock'[i] = d
    <3>1. CASE d = c
      <4>1. Len(lock) + 1 \in 1..Len(lock')
        BY <2>1
      <4> QED
        BY <2>1, <3>1, <4>1
    <3>2. CASE d # c
      <4>1. PICK i \in 1..Len(lock) : lock[i] = d
        BY <1>3, <2>2, <3>2 DEF Joins, Members
      <4> QED
        BY <2>1, <4>1
    <3> QED
      BY <3>1, <3>2
  <2> QED
    BY <2>2 DEF Members
<1>4. ASSUME NEW c \in Coroutines, Leaves(c) PROVE Members'
  <2>1. /\ Len(lock') = Len(lock) - 1 /\ Len(lock) \in Nat \ {0} /\ lock[1] = c
        /\ \A i \in 1..Len(lock') : lock'[i] = lock[i + 1]
    BY <1>1, <1>4 DEF Leaves
  <2>2. ASSUME NEW d \in Coroutines, pc'[d] \in InLock
        PROVE  \E i \in 1..Len(lock') : lock'[i] = d
    <3>1. d # c /\ pc[d] \in InLock
      BY <1>4, <2>2 DEF Leaves
    <3>2. PICK i \in 1..Len(lock) : lock[i] = d
      BY <3>1 DEF Members
    <3>3. i - 1 \in 1..Len(lock') /\ (i - 1) + 1 = i
      BY <2>1, <3>1, <3>2
    <3>4. lock'[i - 1] = d
      BY <2>1, <3>2, <3>3
    <3> QED
      BY <3>3, <3>4
  <2> QED
    BY <2>2 DEF Members
<1> QED
  BY <1>2, <1>3, <1>4, Queues

\* What the invariant rests on.
Before == OnPolicy /\ IInv /\ Placed /\ Lagging /\ Members /\ Rounds

\* A round is the budget, and a full queue.
LEMMA RoundSizes ==
    ASSUME OnPolicy, NEW v \in Nat
    PROVE  /\ UpTo(v) \in Nat /\ UpTo(v + 1) = UpTo(v) + MaxRequiredSamples
           /\ MaxRequiredSamples \in Nat \ {0} /\ MaxQueueSize = MaxRequiredSamples
<1>1. UpTo(v) \in Nat /\ UpTo(v + 1) = UpTo(v) + SamplesPerVersion
  BY MoreVersions DEF UpTo
<1> QED
  BY <1>1, PerVersion DEF OnPolicy

\* The synchronizer's calls are under way in a synchronization only.
LEMMA CallsSync ==
    ASSUME Before
    PROVE  /\ pc["pause"] # "off" => trainPc = "pause" /\ Syncing /\ ~Drained /\ LastValid
           /\ pc["update"] # "off" => pc["resume"] = "called"
           /\ pc["resume"] # "off" => Syncing /\ Drained /\ trainPc \notin {"pause", "copy"}
           /\ Drained => Syncing
           /\ EndSeen => Over
           /\ final => EndSeen
BY DEF Before, Rounds, IInv, Called, InOrder, LastValid, Syncing, Drained, Signalled, Over, EndSeen

\* From the trainer's change of version until pause has returned the budget is spent.
LEMMA BudgetSpent ==
    ASSUME Before, Syncing, ~final, ~Drained
    PROVE  staleness = MaxRequiredSamples /\ ShouldPauseGeneration
<1>1. /\ trainPc \in {"waitValid", "pause"} /\ pc["resume"] = "off" /\ pc["update"] = "off"
  BY CallsSync DEF Syncing, Drained
<1>2. trainVersion = paramVersion + 1 /\ paramVersion \in Nat
  BY <1>1 DEF Before, Lagging, Versions, Pending
<1>3. /\ taken = UpTo(trainVersion) /\ staleness \in 0..MaxRequiredSamples
      /\ taken = UpTo(paramVersion) + staleness
  BY <1>1 DEF Before, Rounds, Quiet, Budget, Counting
<1>4. OnPolicy
  BY DEF Before
<1>5. /\ UpTo(paramVersion) \in Nat /\ MaxRequiredSamples \in Nat
      /\ UpTo(paramVersion + 1) = UpTo(paramVersion) + MaxRequiredSamples
  BY <1>2, <1>4, RoundSizes
<1>6. staleness = MaxRequiredSamples
  BY <1>2, <1>3, <1>5
<1> QED
  BY <1>5, <1>6 DEF ShouldPauseGeneration

\* Between version and staleness, and after, nothing goes on.
LEMMA NothingTaken ==
    ASSUME Before, Syncing
    PROVE  pc["proc"] \notin {"get", "submit", "finish"}
BY CallsSync DEF Before, Rounds, Quiet, Signalled

\* The order of the lock's queue, when whoever joins is no recovery behind a pause.
LEMMA RecoversQueue ==
    ASSUME IInv, Recovers, final' = final,
           Stays \/ \E c \in Coroutines : Joins(c) \/ Leaves(c),
           ~final /\ pc'["monitor"] = "recover" =>
             pc["monitor"] = "recover" \/ pc["pause"] \notin InLock
    PROVE  Recovers'
<1> SUFFICES ASSUME ~final, pc'["monitor"] = "recover",
                    NEW i \in 1..Len(lock'), NEW j \in 1..Len(lock'),
                    lock'[i] = "pause", lock'[j] = "monitor"
             PROVE  j < i
  BY DEF Recovers
<1>1. /\ lock \in Seq(Coroutines) /\ Len(lock) \in Nat
      /\ \A k \in 1..Len(lock) : lock[k] \in Coroutines /\ pc[lock[k]] \in InLock
  BY DEF IInv, Locked
<1>2. "recover" \in InLock /\ {"monitor", "pause"} \subseteq Coroutines
  BY DEF InLock, Coroutines
<1>3. CASE Stays
  <2>1. lock' = lock
    BY <1>3 DEF Stays
  <2>2. pc["pause"] \in InLock
    BY <1>1, <2>1
  <2> QED
    BY <2>1, <2>2 DEF Recovers
<1>4. ASSUME NEW c \in Coroutines, Joins(c) PROVE j < i
  <2>1. /\ Len(lock') = Len(lock) + 1 /\ lock'[Len(lock) + 1] = c
        /\ \A k \in 1..Len(lock) : lock'[k] = lock[k]
    BY <1>1, <1>4 DEF Joins
  <2>2. CASE c = "monitor"
    <3>1. i \in 1..Len(lock) /\ lock[i] = "pause" /\ pc["monitor"] \notin InLock
      BY <1>1, <1>4, <2>1, <2>2 DEF Joins
    <3>2. pc["pause"] \in InLock
      BY <1>1, <3>1
    <3> QED
      BY <1>2, <3>1, <3>2
  <2>3. CASE c # "monitor"
    <3>1. j \in 1..Len(lock) /\ lock[j] = "monitor" /\ pc["monitor"] = "recover"
      BY <1>1, <1>2, <1>4, <2>1, <2>3 DEF Joins
    <3>2. CASE i = Len(lock) + 1
      BY <1>1, <3>1, <3>2
    <3>3. CASE i # Len(lock) + 1
      <4>1. i \in 1..Len(lock) /\ lock[i] = "pause"
        BY <1>1, <2>1, <3>3
      <4> QED
        BY <3>1, <4>1 DEF Recovers
    <3> QED
      BY <3>2, <3>3
  <2> QED
    BY <2>2, <2>3
<1>5. ASSUME NEW c \in Coroutines, Leaves(c) PROVE j < i
  <2>1. /\ Len(lock') = Len(lock) - 1 /\ c # "monitor" /\ pc["monitor"] = "recover"
        /\ \A k \in 1..Len(lock') : lock'[k] = lock[k + 1]
    BY <1>1, <1>2, <1>5 DEF Leaves
  <2>2. /\ i + 1 \in 1..Len(lock) /\ j + 1 \in 1..Len(lock)
        /\ lock[i + 1] = "pause" /\ lock[j + 1] = "monitor"
    BY <1>1, <2>1
  <2>3. j + 1 < i + 1
    BY <2>1, <2>2 DEF Recovers
  <2> QED
    BY <2>3
<1> QED
  BY <1>3, <1>4, <1>5

-----------------------------------------------------------------------------
(* The steps of the other coroutines                                       *)

\* They leave the samples alone, and what the processor has in hand.
LEMMA OthersKeep ==
    ASSUME IInv, Monitor \/ Pause \/ Update(syncVersion) \/ Resume, UNCHANGED trainVars
    PROVE  /\ UNCHANGED <<taken, hand, loop, task, version, cancelQueue, queue, dropped>>
           /\ UNCHANGED <<trainPc, batch, trained, localTriggerStep, trainVersion, final>>
           /\ EndSeen' = EndSeen /\ Live' = Live /\ Here' = Here /\ InQueue' = InQueue
           /\ \/ pc'["proc"] = pc["proc"]
              \/ pc["proc"] = "idle" /\ pc'["proc"] = "notified"
<1> USE DEF mqVars, procVars, taskVars, loopVars
<1>1. pc \in [Coroutines -> Labels]
  BY DEF IInv, Locked
<1> USE <1>1 DEF Goto, Acquires, Releases, Suspends, Continues, Coroutines
<1>2. /\ UNCHANGED <<taken, hand, loop, task, version, cancelQueue, queue, dropped>>
      /\ \/ pc'["proc"] = pc["proc"]
         \/ pc["proc"] = "idle" /\ pc'["proc"] = "notified"
  <2>1. CASE Monitor
    BY <2>1 DEF Monitor, MonitorTop, MonitorCheckRunning, MonitorWake, MonitorRecover, Notified
  <2>2. CASE Pause
    BY <2>2 DEF Pause, PauseLock, PauseSet, PauseCancel, PauseGather, PauseReturn
  <2>3. CASE Update(syncVersion)
    BY <2>3 DEF Update, UpdateLock, UpdateCount, CountTasks, UpdateSize, UpdateReturn, UpdateEnds
  <2>4. CASE Resume
    BY <2>4 DEF Resume, ResumeLock, ResumeServers, ResumeReturn, Notified
  <2> QED
    BY <2>1, <2>2, <2>3, <2>4
<1>3. /\ UNCHANGED <<trainPc, batch, trained, localTriggerStep, trainVersion, final>>
      /\ EndSeen' = EndSeen
  BY DEF trainVars, EndSeen
<1>4. Live' = Live /\ Here' = Here /\ InQueue' = InQueue
  BY <1>2, <1>3 DEF Live, Here, InHand, Underway, InQueue
<1> QED
  BY <1>2, <1>3, <1>4

\* ... so that half of the invariant is as it was.
LEMMA OthersStay ==
    ASSUME Before, Monitor \/ Pause \/ Update(syncVersion) \/ Resume, UNCHANGED trainVars
    PROVE  Untouched' /\ Signalled' /\ Counted' /\ Over' = Over
<1>1. IInv /\ Untouched /\ Signalled /\ Counted
  BY DEF Before, Rounds
<1>2. Over' = Over
  BY <1>1, OthersKeep DEF Over
<1>3. Untouched' /\ Counted'
  BY <1>1, OthersKeep DEF Untouched, Counted
<1>4. Signalled'
  BY <1>1, <1>2, OthersKeep DEF Signalled
<1> QED
  BY <1>2, <1>3, <1>4

\* The monitor recovers only when there is budget, and never behind a pause.
LEMMA MonitorRounds ==
    ASSUME Before, Monitor, UNCHANGED trainVars
    PROVE  Rounds'
<1> USE DEF mqVars, procVars, taskVars, countVars, flagVars
<1>1. pc \in [Coroutines -> Labels] /\ IInv /\ Rounds
  BY DEF Before, Rounds, IInv, Locked
<1>2. /\ UNCHANGED <<staleness, paramVersion, counted, finished, trigger, serverPaused>>
      /\ (paused' => paused)
      /\ UNCHANGED <<pc["pause"], pc["update"], pc["resume"]>>
      /\ (pc'["monitor"] = "recover" => pc["monitor"] = "recover" \/ (trigger /\ ~ShouldPauseGeneration))
      /\ (pc["monitor"] # "recover" => paused' = paused)
  BY <1>1 DEF Monitor, MonitorTop, MonitorCheckRunning, MonitorWake, MonitorRecover, Notified,
              At, Within, Goto, Acquires, Releases, Continues, Coroutines
<1>3. /\ UNCHANGED <<taken, hand, loop, task, version, cancelQueue, queue, dropped>>
      /\ UNCHANGED <<trainPc, batch, trained, localTriggerStep, trainVersion, final>>
      /\ EndSeen' = EndSeen /\ Live' = Live /\ Here' = Here /\ InQueue' = InQueue
      /\ \/ pc'["proc"] = pc["proc"]
         \/ pc["proc"] = "idle" /\ pc'["proc"] = "notified"
  BY <1>1, OthersKeep
<1>4. Untouched' /\ Signalled' /\ Counted' /\ Over' = Over
  BY OthersStay
<1>5. Hands'
  BY <1>1, <1>2, <1>3, <1>4 DEF Rounds, Hands, Reaping
<1>6. Syncing' = Syncing /\ Drained' = Drained /\ Counting' = Counting
  BY <1>2, <1>3 DEF Syncing, Drained, Counting
<1>7. Budget' /\ InRound' /\ InOrder' /\ Refusing'
  BY <1>1, <1>2, <1>3, <1>6 DEF Rounds, Budget, InRound, InOrder, Refusing
<1>8. Quiet'
  BY <1>1, <1>2, <1>3, <1>6 DEF Rounds, Quiet
<1>9. ~final /\ (Drained \/ pc["pause"] \in InLock) /\ pc'["monitor"] = "recover" =>
        pc["monitor"] = "recover"
  <2>1. pc["pause"] \in InLock => Syncing /\ ~Drained
    BY CallsSync DEF InLock
  <2>2. Drained /\ ~final => ~trigger
    BY <1>1 DEF Rounds, Flags
  <2> QED
    BY <1>2, <2>1, <2>2, BudgetSpent
<1>10. Flags'
  <2>1. {"cancel", "gather", "clear"} \subseteq InLock
    BY DEF InLock
  <2> QED
    BY <1>1, <1>2, <1>3, <1>6, <1>9, <2>1 DEF Rounds, Flags
<1>11. Recovers'
  <2>1. Stays \/ \E c \in Coroutines : Joins(c) \/ Leaves(c)
    BY <1>1, OthersQueue
  <2> QED
    BY <1>1, <1>3, <1>9, <2>1, RecoversQueue DEF Rounds
<1> QED
  BY <1>4, <1>5, <1>7, <1>8, <1>10, <1>11 DEF Rounds

\* pause finds nothing under way, and nobody about to recover once it has the lock.
LEMMA PauseRounds ==
    ASSUME Before, Pause, UNCHANGED trainVars
    PROVE  Rounds'
<1> USE DEF mqVars, procVars, taskVars, countVars, flagVars
<1>1. pc \in [Coroutines -> Labels] /\ IInv /\ Rounds /\ Members
  BY DEF Before, Rounds, IInv, Locked
<1>2. /\ UNCHANGED <<staleness, paramVersion, counted>>
      /\ UNCHANGED <<pc["proc"], pc["monitor"], pc["update"], pc["resume"]>>
      /\ pc["pause"] # "off"
  BY <1>1 DEF Pause, PauseLock, PauseSet, PauseCancel, PauseGather, PauseReturn,
              At, Within, Goto, Acquires, Releases, Suspends, Coroutines
<1>3. /\ UNCHANGED <<taken, hand, loop, task, version, cancelQueue, queue, dropped>>
      /\ UNCHANGED <<trainPc, batch, trained, localTriggerStep, trainVersion, final>>
      /\ EndSeen' = EndSeen /\ Live' = Live /\ Here' = Here /\ InQueue' = InQueue
  BY <1>1, OthersKeep
<1>4. Untouched' /\ Signalled' /\ Counted' /\ Over' = Over
  BY OthersStay
<1>5. trainPc = "pause" /\ Syncing /\ ~Drained /\ LastValid /\ (final => Over)
  BY <1>2, CallsSync
<1>6. Hands'
  <2>1. ~final => hand = NoSample /\ pc["proc"] \notin {"get", "submit"}
    BY <1>1, <1>5 DEF Rounds, Quiet
  <2>2. Over => pc["proc"] \notin {"get", "submit", "reap", "reapLock", "reapWait"}
    BY DEF Over
  <2>3. UNCHANGED <<Over, Reaping>>
    BY <1>2 DEF Over, Reaping
  <2>4. ~(pc["proc"] = "submit" \/ (Reaping /\ loop = "limit"))
    BY <1>1, <1>5, <2>1, <2>2, Sizes DEF Rounds, Hands, Reaping
  <2> QED
    BY <1>1, <1>2, <1>3, <1>5, <2>1, <2>2, <2>3, <2>4 DEF Rounds, Hands
<1>7. Syncing' /\ Counting' = Counting
  BY <1>2, <1>3, <1>5 DEF Syncing, Counting
<1>8. Budget' /\ InRound' /\ InOrder'
  BY <1>1, <1>2, <1>3, <1>7 DEF Rounds, Budget, InRound, InOrder
<1>9. Quiet'
  BY <1>1, <1>2, <1>3, <1>5, <1>7 DEF Rounds, Quiet
<1>10. Refusing'
  <2>1. pc["resume"] = "off" /\ Syncing' /\ pc'["resume"] # "servers"
    BY <1>2, <1>5, <1>7 DEF LastValid
  <2>2. (serverPaused' => serverPaused \/ pc["pause"] = "cancel")
        /\ (pc'["pause"] = "cancel" => PartialRollout)
    BY <1>1 DEF Pause, PauseLock, PauseSet, PauseCancel, PauseGather, PauseReturn,
              At, Within, Goto, Acquires, Releases, Suspends, Coroutines
  <2> QED
    BY <1>1, <1>3, <2>1, <2>2 DEF Rounds, Refusing
<1>11. Recovers'
  <2>1. Stays \/ \E c \in Coroutines : Joins(c) \/ Leaves(c)
    BY <1>1, OthersQueue
  <2> QED
    BY <1>1, <1>2, <1>3, <2>1, RecoversQueue DEF Rounds
<1>12. pc["resume"] = "off" /\ pc'["resume"] = "off" /\ trainPc' = "pause"
       /\ (Drained' => pc'["pause"] = "off")
  BY <1>2, <1>3, <1>5 DEF LastValid, Drained
<1>13. Flags'
  <2>1. CASE PauseLock
    <3>1. pc'["pause"] = "lock"
      BY <1>1, <2>1 DEF PauseLock, Acquires, Goto, Coroutines
    <3> QED
      BY <1>12, <3>1 DEF Flags
  <2>2. CASE PauseSet
    <3>1. pc'["pause"] \in {"cancel", "gather"} /\ paused' = TRUE
      BY <1>1, <2>2 DEF PauseSet, Suspends, Goto, Coroutines
    <3>2. ~final => pc["monitor"] # "recover"
      <4>1. ASSUME ~final, pc["monitor"] = "recover" PROVE FALSE
        <5>1. pc["monitor"] \in InLock /\ "monitor" \in Coroutines
          BY <4>1 DEF InLock, Coroutines
        <5>2. PICK j \in 1..Len(lock) : lock[j] = "monitor"
          BY <1>1, <5>1 DEF Members
        <5>3. 1 \in 1..Len(lock) /\ lock[1] = "pause" /\ Len(lock) \in Nat
          BY <1>1, <2>2 DEF PauseSet, Within, Holds, IInv, Locked
        <5>4. j < 1
          BY <1>1, <4>1, <5>2, <5>3 DEF Rounds, Recovers
        <5> QED
          BY <5>2, <5>3, <5>4
      <4> QED
        BY <4>1
    <3> QED
      BY <1>2, <1>3, <1>12, <3>1, <3>2 DEF Flags
  <2>3. CASE PauseCancel
    <3>1. pc["pause"] = "cancel" /\ pc'["pause"] = "gather" /\ paused' = paused
      BY <1>1, <2>3 DEF PauseCancel, Within, Suspends, Goto, Coroutines
    <3> QED
      BY <1>1, <1>2, <1>3, <1>12, <3>1 DEF Rounds, Flags
  <2>4. CASE PauseGather
    <3>1. /\ pc["pause"] = "gather" /\ pc'["pause"] = "clear" /\ paused' = paused
          /\ Live = {} /\ finished' = 0
      BY <1>1, <2>4 DEF PauseGather, Within, Suspends, Goto, Coroutines
    <3> QED
      BY <1>1, <1>2, <1>3, <1>12, <3>1 DEF Rounds, Flags
  <2>5. CASE PauseReturn
    <3>1. /\ pc["pause"] = "clear" /\ pc'["pause"] = "off" /\ paused' = paused
          /\ trigger' = FALSE /\ finished' = finished
      BY <1>1, <2>5 DEF PauseReturn, Within, Releases, Goto, Coroutines
    <3> QED
      BY <1>1, <1>2, <1>3, <3>1 DEF Rounds, Flags
  <2> QED
    BY <2>1, <2>2, <2>3, <2>4, <2>5 DEF Pause
<1> QED
  BY <1>4, <1>6, <1>8, <1>9, <1>10, <1>11, <1>13 DEF Rounds

\* resume ends the synchronization.
LEMMA ResumeRounds ==
    ASSUME Before, Resume, UNCHANGED trainVars
    PROVE  Rounds'
<1> USE DEF mqVars, procVars, taskVars, countVars, flagVars
<1>1. pc \in [Coroutines -> Labels] /\ IInv /\ Rounds
  BY DEF Before, Rounds, IInv, Locked
<1>2. /\ UNCHANGED <<staleness, paramVersion, counted, finished>>
      /\ UNCHANGED <<pc["monitor"], pc["update"], pc["pause"]>>
      /\ pc["resume"] # "off" /\ pc["update"] = "off"
      /\ pc'["resume"] \in {"lock", "servers", "off"}
      /\ (pc'["resume"] # "off" => UNCHANGED <<paused, trigger>>)
      /\ (pc'["resume"] = "off" => paused' = FALSE)
      /\ (serverPaused' => serverPaused /\ pc'["resume"] # "servers")
      /\ (pc'["resume"] = "off" /\ PartialRollout => pc["resume"] = "servers")
    <2>1. pc["resume"] # "called" => pc["update"] = "off"
      BY <1>1 DEF Rounds, InOrder
    <2>2. CASE ResumeLock
      BY <1>1, <2>2 DEF ResumeLock, At, Goto, Acquires, Coroutines
    <2>3. CASE ResumeServers
      BY <1>1, <2>1, <2>3 DEF ResumeServers, Within, Goto, Suspends, Coroutines
    <2>4. CASE ResumeReturn
      BY <1>1, <2>1, <2>4 DEF ResumeReturn, Within, Notified, Coroutines
    <2> QED
      BY <2>2, <2>3, <2>4 DEF Resume
<1>3. /\ UNCHANGED <<taken, hand, loop, task, version, cancelQueue, queue, dropped>>
      /\ UNCHANGED <<trainPc, batch, trained, localTriggerStep, trainVersion, final>>
      /\ EndSeen' = EndSeen /\ Live' = Live /\ Here' = Here /\ InQueue' = InQueue
      /\ \/ pc'["proc"] = pc["proc"]
         \/ pc["proc"] = "idle" /\ pc'["proc"] = "notified"
  BY <1>1, OthersKeep
<1>4. Untouched' /\ Signalled' /\ Counted' /\ Over' = Over
  BY OthersStay
<1>5. Hands'
  <2>1. paused' => paused
    BY <1>2
  <2> QED
    BY <1>1, <1>2, <1>3, <1>4, <2>1 DEF Rounds, Hands, Reaping
<1>6. Syncing /\ Drained /\ trainPc \notin {"pause", "copy"} /\ pc["pause"] = "off"
  BY <1>2, CallsSync
<1>7. Budget' /\ InRound' /\ InOrder'
  BY <1>1, <1>2, <1>3 DEF Rounds, Budget, InRound, InOrder, Counting
<1>8. Quiet'
  BY <1>1, <1>2, <1>3, <1>6 DEF Rounds, Quiet
<1>9. Refusing'
  BY <1>1, <1>2, <1>3, <1>6 DEF Rounds, Refusing, Syncing
<1>10. Flags'
  BY <1>1, <1>2, <1>3, <1>6 DEF Rounds, Flags, Drained
<1>11. Recovers'
  <2>1. Stays \/ \E c \in Coroutines : Joins(c) \/ Leaves(c)
    BY <1>1, OthersQueue
  <2> QED
    BY <1>1, <1>2, <1>3, <2>1, RecoversQueue DEF Rounds
<1> QED
  BY <1>4, <1>5, <1>7, <1>8, <1>9, <1>10, <1>11 DEF Rounds

\* update_param_version counts nothing: a new round begins with all of its budget.
LEMMA UpdateRounds ==
    ASSUME Before, Update(syncVersion), UNCHANGED trainVars
    PROVE  Rounds'
<1> USE DEF mqVars, procVars, taskVars, countVars, flagVars
<1>1. pc \in [Coroutines -> Labels] /\ IInv /\ Rounds
  BY DEF Before, Rounds, IInv, Locked
<1>2. /\ UNCHANGED <<finished, paused, trigger, serverPaused>>
      /\ UNCHANGED <<pc["proc"], pc["monitor"], pc["resume"], pc["pause"]>>
      /\ pc["update"] # "off"
  BY <1>1 DEF Update, UpdateLock, UpdateCount, CountTasks, UpdateSize, UpdateReturn, UpdateEnds,
              At, Within, Goto, Acquires, Releases, Suspends, Coroutines
<1>3. /\ UNCHANGED <<taken, hand, loop, task, version, cancelQueue, queue, dropped>>
      /\ UNCHANGED <<trainPc, batch, trained, localTriggerStep, trainVersion, final>>
      /\ EndSeen' = EndSeen /\ Live' = Live /\ Here' = Here /\ InQueue' = InQueue
  BY <1>1, OthersKeep
<1>4. Untouched' /\ Signalled' /\ Counted' /\ Over' = Over
  BY OthersStay
<1>5. /\ pc["resume"] = "called" /\ Syncing /\ Drained /\ trainPc \notin {"pause", "copy"}
      /\ pc["pause"] = "off"
  <2>1. pc["resume"] = "called"
    BY <1>2, CallsSync
  <2> QED
    BY <2>1, CallsSync
<1>6. Syncing' /\ Drained' /\ InOrder' /\ Refusing' /\ Flags' /\ Quiet'
  <2>1. Syncing' /\ Drained' /\ InOrder'
    BY <1>2, <1>5 DEF Syncing, Drained, InOrder
  <2>2. Refusing'
    BY <1>1, <1>2, <1>3, <1>5, <2>1 DEF Rounds, Refusing
  <2>3. Flags'
    BY <1>1, <1>2, <1>3, <1>5 DEF Rounds, Flags
  <2>4. Quiet'
    BY <1>1, <1>2, <1>3, <1>5 DEF Rounds, Quiet
  <2> QED
    BY <2>1, <2>2, <2>3, <2>4
<1>7. Hands'
  <2>1. pc["proc"] # "get"
    BY <1>5, NothingTaken
  <2> QED
    BY <1>1, <1>2, <1>3, <1>4, <2>1 DEF Rounds, Hands, Reaping
<1>8. Recovers'
  <2>1. Stays \/ \E c \in Coroutines : Joins(c) \/ Leaves(c)
    BY <1>1, OthersQueue
  <2> QED
    BY <1>1, <1>2, <1>3, <2>1, RecoversQueue DEF Rounds
<1>9. ~final => /\ Live = {} /\ finished = 0 /\ cancelQueue = <<>> /\ queue = <<>>
                /\ taken = UpTo(trainVersion) /\ Here = {} /\ trainPc = "collect"
  BY <1>1, <1>5 DEF Rounds, Flags, Quiet, Untouched
<1>10. Budget' /\ InRound'
  <2>1. CASE UpdateLock
    <3>1. UNCHANGED <<staleness, paramVersion, counted>> /\ Counting' = Counting
      BY <1>1, <2>1 DEF UpdateLock, At, Acquires, Goto, Counting, Coroutines
    <3> QED
      BY <1>1, <1>3, <3>1 DEF Rounds, Budget, InRound
  <2>2. CASE UpdateCount(syncVersion)
    <3>1. /\ pc["update"] = "lock" /\ Counting' /\ paramVersion' = syncVersion
          /\ staleness' = staleness /\ counted' = ActiveTasks + Len(cancelQueue)
      BY <1>1, <2>2 DEF UpdateCount, CountTasks, Within, Suspends, Goto, Counting, Coroutines
    <3>2. paramVersion' = paramVersion + 1 /\ paramVersion \in Nat /\ version \in [Samples -> Nat]
          /\ (~final => trainVersion = paramVersion')
      BY <1>5, <1>9, <3>1 DEF Before, Lagging, Versions, Pending
    <3>3. Budget'
      <4> SUFFICES ASSUME ~final' PROVE Budget'
        BY DEF Budget
      <4>1. ~final /\ taken' = taken /\ staleness \in 0..MaxRequiredSamples /\ taken \in Nat
        BY <1>1, <1>3 DEF Rounds, Budget, IInv, Fed
      <4>2. Cardinality(Live) = 0 /\ finished = 0 /\ Len(cancelQueue) = 0
        BY <1>9, <4>1, FS_EmptySet
      <4>3. counted' = 0
        BY <3>1, <4>2 DEF ActiveTasks
      <4>4. trainVersion = paramVersion' /\ taken = UpTo(trainVersion)
        BY <1>9, <3>2, <4>1
      <4>5. taken' = UpTo(paramVersion') + 0
        BY <4>1, <4>4
      <4> QED
        BY <3>1, <4>1, <4>3, <4>5 DEF Budget
    <3>4. Live = {} /\ InQueue \cup batch = {}
      <4>1. CASE final
        BY <1>1, <4>1, CallsSync DEF Rounds, Signalled, InQueue
      <4>2. CASE ~final
        BY <1>9, <4>2 DEF Here
      <4> QED
        BY <4>1, <4>2
    <3>5. \A s \in Samples : task[s] # "putting"
      BY <3>4 DEF Live
    <3>6. \A s \in trained : s \in Samples /\ s <= taken /\ version[s] \in Nat
      BY <3>2, Sizes DEF Before, Placed, OnlyTaken, Taken, IInv, Fed
    <3>7. \A s \in trained : version[s] <= paramVersion
      BY <1>1 DEF Rounds, InRound
    <3>8. \A s \in trained : version[s] <= paramVersion' /\ version[s] # paramVersion'
      BY <3>2, <3>6, <3>7
    <3>9. ~final => \A s \in trained : ~(s > UpTo(paramVersion'))
      <4>1. ~final => taken = UpTo(paramVersion') /\ taken \in Nat
        BY <1>1, <1>9, <3>2 DEF IInv, Fed
      <4> QED
        BY <3>6, <4>1, Sizes
    <3>10. InRound'
      BY <1>3, <1>9, <3>4, <3>5, <3>8, <3>9 DEF InRound
    <3> QED
      BY <3>3, <3>10
  <2>3. CASE UpdateSize
    <3>1. /\ UNCHANGED <<staleness, paramVersion>> /\ Counting /\ Counting'
          /\ counted' = counted + Len(queue)
      BY <1>1, <2>3 DEF UpdateSize, Goto, Counting, Coroutines
    <3>2. Budget'
      BY <1>1, <1>3, <1>9, <3>1 DEF Rounds, Budget
    <3>3. InRound'
      BY <1>1, <1>3, <3>1 DEF Rounds, InRound
    <3> QED
      BY <3>2, <3>3
  <2>4. CASE UpdateReturn
    <3>1. /\ UNCHANGED <<paramVersion>> /\ Counting /\ ~Counting'
          /\ staleness' = counted
      BY <1>1, <2>4 DEF UpdateReturn, UpdateEnds, Within, Releases, Goto, Counting, Coroutines
    <3>2. Budget'
      <4> SUFFICES ASSUME ~final' PROVE Budget'
        BY DEF Budget
      <4>1. ~final /\ taken' = taken /\ taken \in Nat /\ counted = 0
            /\ taken = UpTo(paramVersion) + 0
        BY <1>1, <1>3, <3>1 DEF Rounds, Budget, IInv, Fed
      <4>2. MaxRequiredSamples \in Nat /\ paramVersion \in Nat /\ OnPolicy
        BY RollouterAssumption DEF Before, Lagging, Versions
      <4>3. UpTo(paramVersion) \in Nat /\ UpTo(paramVersion') = UpTo(paramVersion)
        BY <3>1, <4>2, RoundSizes
      <4> QED
        BY <3>1, <4>1, <4>2, <4>3 DEF Budget
    <3>3. InRound'
      BY <1>1, <1>3, <3>1 DEF Rounds, InRound
    <3> QED
      BY <3>2, <3>3
  <2> QED
    BY <2>1, <2>2, <2>3, <2>4 DEF Update
<1> QED
  BY <1>4, <1>6, <1>7, <1>8, <1>10 DEF Rounds

\* The message queue always has room for one more sample of the round.
LEMMA RoomInQueue ==
    ASSUME Before, ~final, ~Counting, \A i \in 1..Len(queue) : queue[i] # EndSignal,
           NEW s \in Nat, UpTo(paramVersion) < s, s <= taken, s \notin InQueue
    PROVE  Len(queue) < MaxQueueSize
<1> DEFINE b == UpTo(paramVersion)
           R == (b + 1)..taken
<1>1. /\ b \in Nat /\ taken = b + staleness /\ staleness \in 0..MaxRequiredSamples
      /\ MaxRequiredSamples \in Nat /\ MaxQueueSize = MaxRequiredSamples
  <2>1. OnPolicy /\ paramVersion \in Nat
    BY DEF Before, Lagging, Versions
  <2>2. b \in Nat /\ MaxRequiredSamples \in Nat /\ MaxQueueSize = MaxRequiredSamples
    BY <2>1, RoundSizes
  <2> QED
    BY <2>2 DEF Before, Rounds, Budget
<1>2. InQueue = Entries(queue) /\ IsFiniteSet(InQueue) /\ Cardinality(InQueue) = Len(queue)
  <2>1. queue \in Seq(Samples \cup {EndSignal}) /\ Unrepeated(queue)
    BY DEF Before, IInv, Queued, Placed
  <2> QED
    BY <2>1, EntriesCount DEF InQueue, Entries
<1>3. InQueue \subseteq R \ {s}
  <2>1. \A x \in InQueue : x \in Samples /\ x <= taken /\ x > b
    BY DEF Before, Placed, OnlyTaken, Taken, Rounds, InRound, Here
  <2> QED
    BY <1>1, <2>1, Sizes
<1> HIDE DEF b
<1>4. IsFiniteSet(R) /\ Cardinality(R) = staleness
  <2>1. b + 1 \in Int /\ taken \in Int /\ (b + 1 > taken <=> staleness = 0)
        /\ taken - (b + 1) + 1 = staleness
    BY <1>1
  <2>2. IsFiniteSet(R) /\ Cardinality(R) = IF b + 1 > taken THEN 0 ELSE taken - (b + 1) + 1
    BY <2>1, FS_Interval
  <2> QED
    BY <2>1, <2>2
<1>5. s \in R
  BY <1>1 DEF b
<1>6. IsFiniteSet(R \ {s}) /\ Cardinality(R \ {s}) = staleness - 1
  BY <1>4, <1>5, FS_RemoveElement
<1>7. Cardinality(InQueue) <= staleness - 1
  <2> DEFINE T == R \ {s}
  <2>1. IsFiniteSet(T) /\ Cardinality(T) = staleness - 1 /\ InQueue \in SUBSET T
    BY <1>3, <1>6
  <2> HIDE DEF T
  <2> QED
    BY <2>1, FS_Subset
<1> QED
  BY <1>1, <1>2, <1>7

-----------------------------------------------------------------------------
(* The tasks                                                               *)

\* While a task is there the rollouter is not over, nor the trainer; while it
\* generates or waits to be put there is no synchronization.
LEMMA TaskGoing ==
    ASSUME Before, NEW s \in Live
    PROVE  /\ ~Over /\ ~EndSeen /\ ~final
           /\ \A i \in 1..Len(queue) : queue[i] # EndSignal
           /\ ~Drained /\ pc["pause"] # "clear"
           /\ s \in Underway => ~Syncing
<1>1. Signalled /\ Flags /\ Quiet
  BY DEF Before, Rounds
<1>2. ~Over /\ ~EndSeen /\ ~final
  BY <1>1, CallsSync DEF Signalled, EndSeen
<1>3. \A i \in 1..Len(queue) : queue[i] # EndSignal
  BY <1>1, <1>2 DEF Signalled, Over
<1>4. ~Drained /\ pc["pause"] # "clear"
  BY <1>1, <1>2 DEF Flags
<1>5. s \in Underway => ~Syncing
  BY <1>1, <1>2 DEF Quiet, Here
<1> QED
  BY <1>2, <1>3, <1>4, <1>5

\* A sample is generated with the version of its round, put without anything
\* being dropped, and never interrupted.
LEMMA TaskRounds ==
    ASSUME Before, NEW s \in Samples, Task(s), UNCHANGED trainVars
    PROVE  Rounds'
<1>1. /\ UNCHANGED <<lock, pc, taken, loop, hand, paused, trigger, serverPaused>>
      /\ UNCHANGED <<paramVersion, staleness, counted>>
      /\ UNCHANGED <<trainPc, batch, trained, localTriggerStep, trainVersion, final>>
      /\ EndSeen' = EndSeen /\ task[s] # "none"
  BY TaskBecomes DEF Becomes, loopVars, procVars, flagVars, countVars, trainVars, EndSeen
<1>2. /\ task \in [Samples -> TaskStates] /\ Rounds /\ IInv /\ s \in Live
  BY <1>1 DEF Before, IInv, Tasks, Live
<1>3. /\ ~Over /\ ~EndSeen /\ ~final /\ ~Drained /\ pc["pause"] # "clear"
      /\ \A i \in 1..Len(queue) : queue[i] # EndSignal
      /\ (task[s] # "put" => s \in Underway /\ ~Syncing)
  BY <1>2, TaskGoing DEF Underway
<1>4. Over' = Over /\ Syncing' = Syncing /\ Counting' = Counting /\ Drained' = Drained
      /\ Reaping' = Reaping
  BY <1>1 DEF Over, Syncing, Counting, Drained, Reaping
<1>5. Hands' /\ Budget' /\ Counted' /\ InOrder' /\ Refusing' /\ Recovers'
  BY <1>1, <1>2, <1>4 DEF Rounds, Hands, Budget, Counted, InOrder, Refusing, Recovers
<1>6. Flags'
  <2>1. pc["pause"] \in {"cancel", "gather"} => paused /\ pc["monitor"] # "recover"
    BY <1>2, <1>3 DEF Rounds, Flags
  <2> QED
    BY <1>1, <1>3, <1>4, <2>1 DEF Flags
<1>7. serverPaused => Syncing
  BY <1>2, <1>3 DEF Rounds, Refusing
<1>8. CASE TaskPut(s)
  <2>1. /\ task[s] = "putting" /\ task' = [task EXCEPT ![s] = "put"]
        /\ PutSample(s) /\ UNCHANGED <<version, cancelQueue>>
    BY <1>8 DEF TaskPut, Becomes
  <2>2. s \in Underway /\ ~Syncing /\ ~Counting
    BY <1>3, <2>1, CallsSync DEF Counting
  <2>3. s \notin InQueue /\ s \in Taken /\ s > UpTo(paramVersion)
    BY <1>2, <1>3, <2>2 DEF Before, Placed, Apart, OnlyTaken, Rounds, InRound, Here
  <2>4. queue' = Append(queue, s) /\ dropped' = dropped
    <3>1. s \in Nat /\ s <= taken /\ UpTo(paramVersion) < s
      <4>1. paramVersion \in Nat /\ OnPolicy
        BY DEF Before, Lagging, Versions
      <4>2. UpTo(paramVersion) \in Nat
        BY <4>1, RoundSizes
      <4> QED
        BY <2>3, <4>2, Sizes DEF Taken
    <3>2. Len(queue) < MaxQueueSize
      BY <1>3, <2>2, <2>3, <3>1, RoomInQueue
    <3>3. Len(queue) \in Nat /\ MaxQueueSize \in Nat
      BY <1>2, Sizes DEF IInv, Queued
    <3>4. ~(Len(queue) >= MaxQueueSize)
      BY <3>2, <3>3
    <3> QED
      BY <2>1, <3>4 DEF PutSample
  <2>5. /\ queue \in Seq(Samples \cup {EndSignal}) /\ s # EndSignal
        /\ Len(queue') = Len(queue) + 1 /\ queue'[Len(queue) + 1] = s
        /\ \A i \in 1..Len(queue) : queue'[i] = queue[i]
    BY <1>2, <2>4, Sizes DEF IInv, Queued
  <2>6. \A i \in 1..Len(queue') : queue'[i] # EndSignal
    BY <1>3, <2>5
  <2>7. Signalled'
    BY <1>1, <1>3, <1>4, <2>6 DEF Signalled
  <2>8. Untouched'
    BY <1>2, <2>1, <2>4 DEF Rounds, Untouched
  <2>9. InQueue' = InQueue \cup {s}
    <3>1. Unrepeated(queue) /\ s \notin Entries(queue) /\ InQueue = Entries(queue)
          /\ InQueue' = Entries(queue')
      BY <2>3 DEF Before, Placed, InQueue, Entries
    <3> QED
      BY <2>4, <2>5, <3>1, AppendEntries
  <2>10. Here' = Here /\ Underway' = Underway \ {s}
    <3>1. Underway' = Underway \ {s}
      BY <1>2, <2>1 DEF Underway, Live
    <3> QED
      BY <1>1, <2>2, <2>9, <3>1 DEF Here, InHand
  <2>11. InRound'
    <3>1. version[s] = paramVersion
      BY <1>2, <2>1 DEF Rounds, InRound
    <3>2. \A x \in Samples : task'[x] = "putting" => task[x] = "putting"
      BY <1>2, <2>1
    <3> QED
      BY <1>1, <1>2, <2>1, <2>9, <2>10, <3>1, <3>2 DEF Rounds, InRound
  <2>12. Quiet'
    BY <1>4, <2>2 DEF Quiet
  <2> QED
    BY <1>5, <1>6, <2>7, <2>8, <2>11, <2>12 DEF Rounds
<1>9. CASE ~TaskPut(s)
  <2>1. ~TaskInterrupt(s) /\ ~TaskCancelled(s)
    BY <1>2, <1>3, <1>7 DEF TaskInterrupt, TaskCancelled, Rounds, Untouched
  <2>2. /\ UNCHANGED <<queue, dropped, cancelQueue>>
        /\ \A x \in Samples : task'[x] # "interrupted"
        /\ Underway' = Underway /\ Live' \subseteq Live
    <3>1. CASE TaskStart(s)
      BY <1>2, <3>1 DEF TaskStart, Becomes, mqVars, Underway, Live, Rounds, Untouched
    <3>2. CASE TaskArrive(s)
      <4>1. ~serverPaused
        BY <1>3, <1>7, <3>2 DEF TaskArrive
      <4> QED
        BY <1>2, <3>2, <4>1 DEF TaskArrive, Becomes, mqVars, Underway, Live, Rounds, Untouched
    <3>3. CASE TaskGenerated(s)
      BY <1>2, <3>3 DEF TaskGenerated, Becomes, mqVars, Underway, Live, Rounds, Untouched
    <3>4. CASE TaskReturn(s)
      BY <1>2, <3>4 DEF TaskReturn, Becomes, mqVars, Underway, Live, Rounds, Untouched
    <3> QED
      BY <1>9, <2>1, <3>1, <3>2, <3>3, <3>4 DEF Task
  <2>3. Untouched' /\ Signalled'
    BY <1>1, <1>2, <1>3, <1>4, <2>2 DEF Rounds, Untouched, Signalled
  <2>4. InQueue' = InQueue /\ Here' = Here
    BY <1>1, <2>2 DEF InQueue, Here, InHand
  <2>5. Quiet'
    BY <1>1, <1>2, <1>4, <2>2, <2>4 DEF Rounds, Quiet
  <2>6. InRound'
    <3>1. CASE TaskGenerated(s)
      <4>1. /\ version' = [version EXCEPT ![s] = paramVersion] /\ version \in [Samples -> Nat]
            /\ s \in Underway /\ task' = [task EXCEPT ![s] = "putting"]
        BY <1>3, <3>1 DEF TaskGenerated, Becomes, Before, Lagging, Versions
      <4>2. /\ version'[s] = paramVersion /\ \A x \in Samples \ {s} : version'[x] = version[x]
            /\ \A x \in Samples \ {s} : task'[x] = task[x]
        BY <1>2, <4>1
      <4>3. s \notin InQueue /\ s \notin batch /\ s \notin trained
            /\ InQueue \subseteq Samples /\ batch \subseteq Samples /\ trained \subseteq Samples
        BY <4>1 DEF Before, Placed, Apart, OnlyTaken, Spent, Taken
      <4>4. /\ \A x \in InQueue \cup batch \cup trained : version'[x] = version[x]
        BY <4>2, <4>3
      <4> QED
        BY <1>1, <1>2, <2>4, <4>2, <4>4 DEF Rounds, InRound
    <3>2. CASE ~TaskGenerated(s)
      <4>1. UNCHANGED version /\ \A x \in Samples : task'[x] = "putting" => task[x] = "putting"
        BY <1>2, <1>9, <2>1, <3>2 DEF Task, TaskStart, TaskArrive, TaskReturn, Becomes
      <4> QED
        BY <1>1, <1>2, <2>4, <4>1 DEF Rounds, InRound
    <3> QED
      BY <3>1, <3>2
  <2> QED
    BY <1>5, <1>6, <2>3, <2>5, <2>6 DEF Rounds
<1> QED
  BY <1>8, <1>9

-----------------------------------------------------------------------------
(* The processor                                                           *)

\* What the processor's steps leave alone.
LEMMA ProcessorKeeps ==
    ASSUME IInv, Processor, UNCHANGED trainVars
    PROVE  /\ UNCHANGED <<version, paramVersion, counted, trigger, serverPaused>>
           /\ \A c \in Coroutines \ {"proc"} : pc'[c] = pc[c]
           /\ UNCHANGED <<trainPc, batch, trained, localTriggerStep, trainVersion, final>>
           /\ EndSeen' = EndSeen /\ UNCHANGED <<Syncing, Drained, Counting>>
<1>1. pc \in [Coroutines -> Labels]
  BY DEF IInv, Locked
<1>2. /\ UNCHANGED <<version, paramVersion, counted, trigger, serverPaused>>
      /\ \A c \in Coroutines \ {"proc"} : pc'[c] = pc[c]
  <2> USE <1>1 DEF Coroutines, Goto, Acquires, Releases, Suspends, Continues, taskVars, flagVars,
                   countVars
  <2>1. CASE ProcTop \/ ProcGet \/ ProcMarkPaused \/ ProcReap \/ ProcReapLocked
    BY <2>1 DEF ProcTop, ProcGet, Take, ProcMarkPaused, ProcReap, ProcReapLocked
  <2>2. CASE ProcReapWait \/ ProcIdle \/ ProcNotified
    BY <2>2 DEF ProcReapWait, Reap, ProcIdle, ProcNotified
  <2>3. CASE ProcSubmit \/ Finish \/ Stop
    BY <2>3 DEF ProcSubmit, Finish, Stop
  <2> QED
    BY <2>1, <2>2, <2>3 DEF Processor
<1>3. /\ UNCHANGED <<trainPc, batch, trained, localTriggerStep, trainVersion, final>>
      /\ EndSeen' = EndSeen
  BY DEF trainVars, EndSeen
<1>4. pc'["pause"] = pc["pause"] /\ pc'["resume"] = pc["resume"] /\ pc'["update"] = pc["update"]
  BY <1>2 DEF Coroutines
<1> QED
  BY <1>2, <1>3, <1>4 DEF Syncing, Drained, Counting

\* ... so that this much of the invariant is as it was.
LEMMA ProcessorStays ==
    ASSUME Before, Processor, UNCHANGED trainVars
    PROVE  Counted' /\ InOrder' /\ Refusing' /\ Recovers'
<1>1. IInv /\ Counted /\ InOrder /\ Refusing /\ Recovers
  BY DEF Before, Rounds
<1>2. /\ pc'["pause"] = pc["pause"] /\ pc'["resume"] = pc["resume"]
      /\ pc'["update"] = pc["update"] /\ pc'["monitor"] = pc["monitor"]
  BY <1>1, ProcessorKeeps DEF Coroutines
<1>3. Counted' /\ InOrder' /\ Refusing'
  BY <1>1, <1>2, ProcessorKeeps DEF Counted, InOrder, Refusing
<1>4. Recovers'
  <2>1. Stays \/ \E c \in Coroutines : Joins(c) \/ Leaves(c)
    <3>1. Joins("proc") \/ Leaves("proc") \/ Stays
      BY <1>1, ProcessorQueues
    <3> QED
      BY <3>1 DEF Coroutines
  <2>2. final' = final
    BY <1>1, ProcessorKeeps
  <2> QED
    BY <1>1, <1>2, <2>1, <2>2, RecoversQueue
<1> QED
  BY <1>3, <1>4

\* A step that moves no sample needs to look after its new place only.
LEMMA ProcessorMovesOn ==
    ASSUME Before, Processor, UNCHANGED trainVars,
           UNCHANGED <<taken, hand, task, cancelQueue, queue, dropped, staleness>>,
           paused => paused', finished' \in {finished, 0},
           Hands', Over' => Over \/ Live = {},
           pc["proc"] \in {"stop", "ended"} => pc'["proc"] \in {"stop", "ended"},
           Syncing /\ ~final => pc'["proc"] \notin {"get", "submit", "finish", "stop", "ended"}
    PROVE  Rounds'
<1>1. Rounds /\ IInv
  BY DEF Before, Rounds
<1>2. /\ UNCHANGED <<version, paramVersion, counted, trigger, serverPaused>>
      /\ UNCHANGED <<trainPc, batch, trained, localTriggerStep, trainVersion, final>>
      /\ EndSeen' = EndSeen /\ UNCHANGED <<Syncing, Drained, Counting>>
  BY <1>1, ProcessorKeeps
<1>3. pc'["pause"] = pc["pause"] /\ pc'["resume"] = pc["resume"] /\ pc'["monitor"] = pc["monitor"]
  BY <1>1, ProcessorKeeps DEF Coroutines
<1>4. UNCHANGED <<Live, Here, InQueue>>
  BY <1>2 DEF Live, Here, InHand, Underway, InQueue
<1>5. Untouched' /\ Budget' /\ InRound'
  BY <1>1, <1>2, <1>4 DEF Rounds, Untouched, Budget, InRound
<1>6. Signalled'
  BY <1>1, <1>2, <1>4 DEF Rounds, Signalled
<1>7. Quiet'
  BY <1>1, <1>2, <1>3, <1>4 DEF Rounds, Quiet
<1>8. Flags'
  BY <1>1, <1>2, <1>3, <1>4 DEF Rounds, Flags
<1> QED
  BY <1>5, <1>6, <1>7, <1>8, ProcessorStays DEF Rounds

\* The head of the loop: in a synchronization it only ever pauses.
LEMMA TopRounds ==
    ASSUME Before, ProcTop, UNCHANGED trainVars
    PROVE  Rounds'
<1>1. Rounds /\ IInv /\ pc \in [Coroutines -> Labels] /\ Processor /\ cancelQueue = <<>>
  BY DEF Before, Rounds, IInv, Locked, Processor, Untouched
<1>2. pc["proc"] = "top" /\ hand = NoSample
  BY <1>1 DEF ProcTop, At, IInv, Handed
<1>3. /\ UNCHANGED <<taken, hand, loop, task, cancelQueue, queue, dropped, staleness, paused, finished>>
      /\ \/ pc'["proc"] = "mark"
         \/ pc'["proc"] = "get" /\ ~paused /\ ~ShouldPauseGeneration
  BY <1>1 DEF ProcTop, Acquires, Continues, Suspends, Goto, Coroutines, flagVars, countVars, mqVars
<1>4. Hands'
  <2>1. MaxRequiredSamples \in Nat
    BY RollouterAssumption
  <2>2. ~final
    BY <1>2, CallsSync DEF Over
  <2>3. pc'["proc"] = "get" => staleness < MaxRequiredSamples
    BY <1>1, <1>3, <2>1, <2>2 DEF ShouldPauseGeneration, Rounds, Budget
  <2> QED
    BY <1>1, <1>2, <1>3, <2>3 DEF Rounds, Hands, Reaping, Over
<1>5. Syncing /\ ~final => pc'["proc"] = "mark"
  <2>1. Drained /\ ~final => paused
    BY <1>1 DEF Rounds, Flags
  <2> QED
    BY <1>3, <2>1, BudgetSpent
<1> QED
  BY <1>1, <1>2, <1>3, <1>4, <1>5, ProcessorMovesOn DEF Over

\* The next entry is one more of the round.
LEMMA GetRounds ==
    ASSUME Before, ProcGet, UNCHANGED trainVars
    PROVE  Rounds'
<1>1. Rounds /\ IInv /\ pc \in [Coroutines -> Labels] /\ Processor
  BY DEF Before, Rounds, IInv, Locked, Processor
<1>2. /\ pc["proc"] = "get" /\ taken < fed /\ taken' = taken + 1 /\ hand' = taken + 1
      /\ loop' = (IF taken + 1 = Done THEN "end" ELSE "limit")
      /\ staleness' = staleness + 1 /\ pc'["proc"] = "reap"
      /\ UNCHANGED <<task, cancelQueue, queue, dropped, paused, finished>>
  BY <1>1 DEF ProcGet, Take, At, Continues, Goto, Coroutines, taskVars, flagVars, mqVars
<1>3. /\ UNCHANGED <<version, paramVersion, counted, trigger, serverPaused>>
      /\ UNCHANGED <<trainPc, batch, trained, localTriggerStep, trainVersion, final>>
      /\ EndSeen' = EndSeen /\ UNCHANGED <<Syncing, Drained, Counting>>
      /\ pc'["pause"] = pc["pause"] /\ pc'["monitor"] = pc["monitor"]
  BY <1>1, ProcessorKeeps DEF Coroutines
<1>4. ~paused /\ staleness < MaxRequiredSamples /\ hand = NoSample
  BY <1>1, <1>2 DEF Rounds, Hands
<1>5. ~final /\ ~EndSeen /\ ~Syncing /\ ~Counting
  <2>1. ~final /\ ~EndSeen
    BY <1>2, CallsSync DEF Over
  <2>2. ~Syncing
    BY <1>2, NothingTaken
  <2> QED
    BY <2>1, <2>2, CallsSync DEF Counting
<1>6. taken \in Nat /\ taken + 1 \in 1..Done
  BY <1>1, <1>2, Sizes DEF IInv, Fed
<1>7. /\ UpTo(paramVersion) \in Nat /\ MaxRequiredSamples \in Nat
      /\ taken = UpTo(paramVersion) + staleness /\ staleness \in 0..MaxRequiredSamples
  <2>1. OnPolicy /\ paramVersion \in Nat
    BY DEF Before, Lagging, Versions
  <2>2. UpTo(paramVersion) \in Nat /\ MaxRequiredSamples \in Nat
    BY <2>1, RoundSizes
  <2> QED
    BY <1>1, <1>5, <2>2 DEF Rounds, Budget
<1>8. Hands'
  <2>1. loop' = "limit" => hand' \in Samples
    BY <1>2, <1>6, Sizes
  <2>2. loop' = "end" => hand' = Done
    BY <1>2
  <2>3. taken' = Done => hand' = Done
    BY <1>2
  <2> QED
    BY <1>2, <1>4, <2>1, <2>2, <2>3 DEF Hands, Reaping, Over
<1>9. Untouched'
  BY <1>1, <1>2 DEF Rounds, Untouched
<1>10. Signalled'
  <2>1. Live' = Live
    BY <1>2 DEF Live
  <2> QED
    BY <1>1, <1>2, <1>3, <1>5, <2>1 DEF Rounds, Signalled, Over
<1>11. Budget'
  <2>1. UpTo(paramVersion') = UpTo(paramVersion)
    BY <1>3
  <2>2. staleness' \in 0..MaxRequiredSamples /\ taken' = UpTo(paramVersion) + staleness'
    BY <1>2, <1>4, <1>7
  <2> QED
    BY <1>3, <1>5, <2>1, <2>2 DEF Budget
<1>12. InRound'
  <2>1. InQueue' = InQueue /\ Underway' = Underway
    BY <1>2 DEF InQueue, Underway, Live
  <2>2. Here' \subseteq Here \cup {taken + 1}
    BY <1>2, <1>3, <2>1 DEF Here, InHand
  <2>3. taken + 1 > UpTo(paramVersion)
    BY <1>6, <1>7
  <2> QED
    BY <1>1, <1>2, <1>3, <2>1, <2>2, <2>3 DEF Rounds, InRound
<1>13. Quiet'
  BY <1>3, <1>5 DEF Quiet
<1>14. Flags'
  <2>1. Live' = Live
    BY <1>2 DEF Live
  <2> QED
    BY <1>1, <1>2, <1>3, <2>1 DEF Rounds, Flags
<1> QED
  BY <1>1, <1>8, <1>9, <1>10, <1>11, <1>12, <1>13, <1>14, ProcessorStays DEF Rounds

\* The three loops: what is in hand decides how they go on.
LEMMA ReapRounds ==
    ASSUME Before, ProcMarkPaused \/ ProcReap \/ ProcReapWait, UNCHANGED trainVars
    PROVE  Rounds'
<1>1. Rounds /\ IInv /\ pc \in [Coroutines -> Labels] /\ Processor
  BY DEF Before, Rounds, IInv, Locked, Processor
<1> USE DEF procVars, taskVars, flagVars, countVars, mqVars, Coroutines, Goto, Acquires, Releases,
            Suspends
<1>2. CASE ProcMarkPaused
  <2>1. /\ pc["proc"] = "mark" /\ pc'["proc"] = "reap" /\ loop' = "drain" /\ paused'
        /\ UNCHANGED <<taken, hand, task, cancelQueue, queue, dropped, staleness, finished>>
    BY <1>1, <1>2 DEF ProcMarkPaused, Within
  <2>2. Hands'
    BY <1>1, <2>1 DEF Rounds, Hands, Reaping, Over
  <2> QED
    BY <1>1, <2>1, <2>2, ProcessorMovesOn DEF Over
<1>3. CASE ProcReap
  <2>1. /\ pc["proc"] = "reap"
        /\ UNCHANGED <<taken, hand, loop, task, cancelQueue, queue, dropped, staleness, finished, paused>>
        /\ \/ pc'["proc"] = "reapLock"
           \/ pc'["proc"] = "idleLock"
           \/ pc'["proc"] = "submit" /\ loop = "limit"
           \/ pc'["proc"] = "finish" /\ loop = "end" /\ ~KeepsReaping
    BY <1>1, <1>3 DEF ProcReap, At
  <2>2. /\ pc'["proc"] = "submit" => hand \in Samples /\ ~paused
        /\ pc'["proc"] = "finish" => hand = Done
    BY <1>1, <2>1 DEF Rounds, Hands, Reaping
  <2>3. Hands'
    BY <1>1, <2>1, <2>2 DEF Rounds, Hands, Reaping, Over
  <2>4. pc'["proc"] = "finish" => Live = {}
    <3>1. ASSUME loop = "end", ~KeepsReaping PROVE Live = {}
      <4>1. ~(ActiveTasks > 0)
        BY <3>1 DEF KeepsReaping
      <4>2. Live \in SUBSET Samples /\ finished \in Nat
        BY <1>1 DEF Live, IInv, Tasks
      <4>3. IsFiniteSet(Live) /\ Cardinality(Live) \in Nat
        BY <4>2, LiveFinite
      <4>4. Cardinality(Live) = 0
        BY <4>1, <4>2, <4>3 DEF ActiveTasks
      <4> QED
        BY <4>3, <4>4, FS_EmptySet
    <3> QED
      BY <2>1, <3>1
  <2>5. Syncing /\ ~final => pc'["proc"] \notin {"submit", "finish"}
    <3>1. Syncing /\ ~final => hand = NoSample
      BY <1>1 DEF Rounds, Quiet
    <3> QED
      BY <2>2, <3>1, Sizes
  <2> QED
    BY <1>1, <2>1, <2>3, <2>4, <2>5, ProcessorMovesOn DEF Over
<1>4. CASE ProcReapWait
  <2>1. /\ pc["proc"] = "reapWait" /\ pc'["proc"] = "reap" /\ finished' = 0
        /\ UNCHANGED <<taken, hand, loop, task, cancelQueue, queue, dropped, staleness, paused>>
    BY <1>1, <1>4 DEF ProcReapWait, Reap, Within
  <2>2. Hands'
    BY <1>1, <2>1 DEF Rounds, Hands, Reaping, Over
  <2> QED
    BY <1>1, <2>1, <2>2, ProcessorMovesOn DEF Over
<1> QED
  BY <1>2, <1>3, <1>4

\* With the lock: it does not fail.
LEMMA ReapLockedRounds ==
    ASSUME Before, Unassigned, ProcReapLocked, UNCHANGED trainVars
    PROVE  Rounds'
<1>1. Rounds /\ IInv /\ pc \in [Coroutines -> Labels] /\ Processor
  BY DEF Before, Rounds, IInv, Locked, Processor
<1>2. /\ pc["proc"] = "reapLock" /\ pc'["proc"] \in {"reapWait", "reap"}
      /\ UNCHANGED <<taken, hand, loop, task, cancelQueue, queue, dropped, staleness, finished, paused>>
  BY <1>1 DEF ProcReapLocked, Within, Unassigned, procVars, taskVars, flagVars, countVars, mqVars,
              Coroutines, Goto, Releases, Suspends
<1>3. Hands'
  BY <1>1, <1>2 DEF Rounds, Hands, Reaping, Over
<1> QED
  BY <1>1, <1>2, <1>3, ProcessorMovesOn DEF Over

\* It goes to sleep, wakes up, or stops.
LEMMA IdleRounds ==
    ASSUME Before, ProcIdle \/ ProcNotified \/ Stop, UNCHANGED trainVars
    PROVE  Rounds'
<1>1. Rounds /\ IInv /\ pc \in [Coroutines -> Labels] /\ Processor
  BY DEF Before, Rounds, IInv, Locked, Processor
<1> USE DEF procVars, taskVars, flagVars, countVars, mqVars, Coroutines, Goto, Acquires, Releases
<1>2. CASE ProcIdle
  <2>1. /\ pc["proc"] = "idleLock" /\ pc'["proc"] \in {"idle", "top"} /\ hand = NoSample
        /\ UNCHANGED <<taken, hand, loop, task, cancelQueue, queue, dropped, staleness, finished, paused>>
    BY <1>1, <1>2 DEF ProcIdle, Within, IInv, Handed
  <2>2. Hands'
    BY <1>1, <2>1 DEF Rounds, Hands, Reaping, Over
  <2> QED
    BY <1>1, <2>1, <2>2, ProcessorMovesOn DEF Over
<1>3. CASE ProcNotified
  <2>1. /\ pc["proc"] = "notified" /\ hand = NoSample
        /\ UNCHANGED <<taken, hand, loop, task, cancelQueue, queue, dropped, staleness, finished, paused>>
    BY <1>1, <1>3 DEF ProcNotified, At, Rounds, Hands
  <2>2. pc'["proc"] = "idleLock"
    BY <1>1, <1>3, <2>1 DEF ProcNotified
  <2>3. Hands'
    BY <1>1, <2>1, <2>2 DEF Rounds, Hands, Reaping, Over
  <2> QED
    BY <1>1, <2>1, <2>2, <2>3, ProcessorMovesOn DEF Over
<1>4. CASE Stop
  <2>1. /\ pc["proc"] = "stop" /\ pc'["proc"] = "ended"
        /\ UNCHANGED <<taken, hand, loop, task, cancelQueue, queue, dropped, staleness, finished, paused>>
    BY <1>1, <1>4 DEF Stop, Within
  <2>2. Hands'
    BY <1>1, <2>1 DEF Rounds, Hands, Reaping, Over
  <2>3. ~(Syncing /\ ~final)
    BY <1>1, <2>1 DEF Rounds, Quiet
  <2> QED
    BY <1>1, <2>1, <2>2, <2>3, ProcessorMovesOn DEF Over
<1> QED
  BY <1>2, <1>3, <1>4

\* Submission is never in a synchronization.
LEMMA SubmitRounds ==
    ASSUME Before, ProcSubmit, UNCHANGED trainVars
    PROVE  Rounds'
<1>1. Rounds /\ IInv /\ pc \in [Coroutines -> Labels] /\ Processor /\ task \in [Samples -> TaskStates]
  BY DEF Before, Rounds, IInv, Locked, Processor, Tasks
<1>2. pc["proc"] = "submit" /\ hand \in Samples /\ ~paused
  BY <1>1 DEF ProcSubmit, Within, Rounds, Hands
<1>3. /\ task' = [task EXCEPT ![hand] = "start"] /\ hand' = NoSample /\ pc'["proc"] = "top"
      /\ UNCHANGED <<taken, loop, finished, cancelQueue, paused, staleness, queue, dropped>>
  BY <1>1, <1>2 DEF ProcSubmit, Releases, Goto, Coroutines, flagVars, countVars, mqVars
<1>4. /\ UNCHANGED <<version, paramVersion, counted, trigger, serverPaused>>
      /\ UNCHANGED <<trainPc, batch, trained, localTriggerStep, trainVersion, final>>
      /\ EndSeen' = EndSeen /\ UNCHANGED <<Syncing, Drained, Counting>>
      /\ pc'["pause"] = pc["pause"] /\ pc'["monitor"] = pc["monitor"]
  BY <1>1, ProcessorKeeps DEF Coroutines
<1>5. ~final /\ ~EndSeen /\ ~Syncing
  <2>1. ~final /\ ~EndSeen
    BY <1>2, CallsSync DEF Over
  <2> QED
    BY <1>2, <2>1, NothingTaken
<1>6. \A s \in Samples : task'[s] = IF s = hand THEN "start" ELSE task[s]
  BY <1>1, <1>2, <1>3
<1>7. Hands'
  <2>1. taken # Done
    BY <1>1, <1>2, Sizes DEF Rounds, Hands
  <2> QED
    BY <1>1, <1>2, <1>3, <2>1 DEF Rounds, Hands, Reaping, Over
<1>8. Untouched' /\ Budget'
  BY <1>1, <1>3, <1>4, <1>6 DEF Rounds, Untouched, Budget
<1>9. Signalled'
  BY <1>1, <1>2, <1>3, <1>4, <1>5 DEF Rounds, Signalled, Over
<1>10. InRound'
  <2>1. Underway' = Underway \cup {hand} /\ InQueue' = InQueue
    BY <1>2, <1>3, <1>6 DEF Underway, Live, InQueue
  <2>2. InHand = {hand} /\ InHand' = {}
    BY <1>2, <1>3, Sizes DEF InHand
  <2>3. Here' = Here
    BY <1>4, <2>1, <2>2 DEF Here
  <2> QED
    BY <1>1, <1>4, <1>6, <2>1, <2>3 DEF Rounds, InRound
<1>11. Quiet'
  BY <1>4, <1>5 DEF Quiet
<1>12. Flags'
  BY <1>1, <1>2, <1>3, <1>4, <1>5 DEF Rounds, Flags
<1> QED
  BY <1>1, <1>7, <1>8, <1>9, <1>10, <1>11, <1>12, ProcessorStays DEF Rounds

\* The end signal finds room in the queue: it takes the place of "DONE".
LEMMA FinishRounds ==
    ASSUME Before, Finish, UNCHANGED trainVars
    PROVE  Rounds'
<1>1. Rounds /\ IInv /\ pc \in [Coroutines -> Labels] /\ Processor
  BY DEF Before, Rounds, IInv, Locked, Processor
<1>2. /\ pc["proc"] = "finish" /\ PutSample(EndSignal) /\ pc'["proc"] = "stop"
      /\ UNCHANGED <<taken, hand, loop, task, cancelQueue, paused, staleness, finished>>
  BY <1>1 DEF Finish, At, Acquires, Goto, Coroutines, procVars, taskVars, flagVars, countVars
<1>3. /\ UNCHANGED <<version, paramVersion, counted, trigger, serverPaused>>
      /\ UNCHANGED <<trainPc, batch, trained, localTriggerStep, trainVersion, final>>
      /\ EndSeen' = EndSeen /\ UNCHANGED <<Syncing, Drained, Counting>>
      /\ pc'["pause"] = pc["pause"] /\ pc'["monitor"] = pc["monitor"]
  BY <1>1, ProcessorKeeps DEF Coroutines
<1>4. /\ Over /\ Live = {} /\ hand = Done /\ taken = Done /\ ~EndSeen /\ ~final
      /\ \A i \in 1..Len(queue) : queue[i] # EndSignal
  <2>1. Over /\ hand = Done /\ hand # NoSample
    BY <1>1, <1>2, Sizes DEF Over, Rounds, Hands
  <2>2. ~EndSeen
    BY <1>1, <1>2 DEF Rounds, Signalled
  <2> QED
    BY <1>1, <1>2, <2>1, <2>2, CallsSync DEF Rounds, Hands, Signalled
<1>5. ~Syncing /\ ~Counting
  <2>1. ~Syncing
    BY <1>2, NothingTaken
  <2> QED
    BY <2>1, CallsSync DEF Counting
<1>6. queue \in Seq(Samples \cup {EndSignal}) /\ Len(queue) \in Nat /\ MaxQueueSize \in Nat \ {0}
  BY <1>1, Sizes DEF IInv, Queued
<1>7. Len(queue) < MaxQueueSize
  <2> DEFINE b == UpTo(paramVersion)
  <2>1. b \in Nat
    <3>1. OnPolicy /\ paramVersion \in Nat
      BY DEF Before, Lagging, Versions
    <3> QED
      BY <3>1, RoundSizes
  <2>2. \A x \in InQueue : x \in Samples /\ x <= taken /\ x > b
    BY <1>1, <1>4 DEF Before, Placed, OnlyTaken, Taken, Rounds, InRound, Here
  <2>3. taken \in Nat /\ taken \notin InQueue
    BY <1>4, <2>2, Sizes
  <2>4. CASE b < taken
    <3>1. Before /\ ~final /\ ~Counting
      BY <1>4, <1>5
    <3> QED
      BY <1>4, <2>3, <2>4, <3>1, RoomInQueue
  <2>5. CASE ~(b < taken)
    <3>1. InQueue = {}
      <4>1. ASSUME NEW x \in InQueue PROVE FALSE
        BY <2>1, <2>2, <2>3, <2>5, Sizes
      <4> QED
        BY <4>1
    <3>2. queue = <<>>
      <4>1. ASSUME queue # <<>> PROVE FALSE
        <5>1. 1 \in DOMAIN queue /\ 1 \in 1..Len(queue)
          BY <1>6, <4>1
        <5>2. queue[1] \in InQueue
          BY <1>4, <5>1 DEF InQueue
        <5> QED
          BY <3>1, <5>2
      <4> QED
        BY <4>1
    <3>3. Len(queue) = 0
      BY <3>2
    <3> QED
      BY <1>6, <3>3
  <2> QED
    BY <2>4, <2>5
<1>8. queue' = Append(queue, EndSignal) /\ dropped' = dropped
  <2>1. ~(Len(queue) >= MaxQueueSize)
    BY <1>6, <1>7
  <2> QED
    BY <1>2, <2>1 DEF PutSample
<1>9. /\ Len(queue') = Len(queue) + 1
      /\ \A i \in 1..Len(queue) : queue'[i] = queue[i]
  BY <1>6, <1>8
<1>10. InQueue' = InQueue
  <2>1. Unrepeated(queue) /\ InQueue = Entries(queue) /\ InQueue' = Entries(queue')
    BY DEF Before, Placed, InQueue, Entries
  <2>2. EndSignal \notin Entries(queue) /\ EndSignal \in Samples \cup {EndSignal}
    BY DEF Entries
  <2>3. Entries(Append(queue, EndSignal)) = Entries(queue) \cup ({EndSignal} \ {EndSignal})
    BY <1>6, <2>1, <2>2, AppendEntries
  <2> QED
    BY <1>8, <2>1, <2>3
<1>11. Hands'
  BY <1>1, <1>2, <1>4 DEF Rounds, Hands, Reaping, Over
<1>12. Untouched' /\ Budget'
  BY <1>1, <1>2, <1>3, <1>8 DEF Rounds, Untouched, Budget
<1>13. Live' = Live /\ Underway' = Underway /\ InHand' = InHand
  BY <1>2 DEF Live, Underway, InHand
<1>14. Signalled'
  <2>1. \A i \in 1..Len(queue') : queue'[i] = EndSignal => i = Len(queue')
    <3>1. ASSUME NEW i \in 1..Len(queue'), i # Len(queue') PROVE queue'[i] # EndSignal
      <4>1. i \in 1..Len(queue)
        BY <1>6, <1>9, <3>1
      <4> QED
        BY <1>4, <1>9, <4>1
    <3> QED
      BY <3>1
  <2> QED
    BY <1>2, <1>3, <1>4, <1>13, <2>1 DEF Signalled
<1>15. InRound'
  <2>1. Here' = Here
    BY <1>3, <1>10, <1>13 DEF Here
  <2> QED
    BY <1>1, <1>2, <1>3, <1>10, <2>1 DEF Rounds, InRound
<1>16. Quiet'
  BY <1>3, <1>5 DEF Quiet
<1>17. Flags'
  BY <1>1, <1>2, <1>3, <1>13 DEF Rounds, Flags
<1> QED
  BY <1>1, <1>11, <1>12, <1>14, <1>15, <1>16, <1>17, ProcessorStays DEF Rounds

\* Every step of the processor keeps the rounds.
LEMMA ProcessorRounds ==
    ASSUME Before, Unassigned, Processor, UNCHANGED trainVars
    PROVE  Rounds'
BY TopRounds, GetRounds, ReapRounds, ReapLockedRounds, IdleRounds, SubmitRounds, FinishRounds
   DEF Processor

-----------------------------------------------------------------------------
(* The trainer                                                             *)

\* A step of the trainer that leaves the rollouter alone leaves these as they are.
LEMMA RolloutStays ==
    ASSUME Rounds, UNCHANGED rolloutVars, dropped' = dropped
    PROVE  /\ Hands' /\ Untouched' /\ InOrder' /\ UNCHANGED <<Over, Live, Underway, InHand, Counting>>
           /\ UNCHANGED <<task, version, paramVersion, staleness, taken, hand, finished, paused,
                          trigger, serverPaused, pc, lock, counted>>
<1>1. UNCHANGED <<task, version, paramVersion, staleness, taken, hand, loop, finished, paused,
                  trigger, serverPaused, pc, lock, counted, cancelQueue>>
  BY DEF rolloutVars, loopVars, procVars, taskVars, flagVars, countVars
<1>2. UNCHANGED <<Over, Live, Underway, InHand, Counting>>
  BY <1>1 DEF Over, Live, Underway, InHand, Counting
<1>3. Hands' /\ Untouched' /\ InOrder'
  BY <1>1, <1>2 DEF Rounds, Hands, Untouched, InOrder, Reaping, Over
<1> QED
  BY <1>1, <1>2, <1>3

\* The trainer takes the samples in the order of the queue, and the end signal last.
LEMMA CollectRounds ==
    ASSUME Before, CollectSample
    PROVE  Rounds'
<1>1. Rounds /\ IInv
  BY DEF Before, Rounds
<1>2. /\ trainPc = "collect" /\ queue # <<>> /\ queue' = Tail(queue) /\ dropped' = dropped
      /\ trainPc' \in {"collect", "train", "lastValid"}
      /\ UNCHANGED <<trained, localTriggerStep, trainVersion, final, rolloutVars>>
  BY DEF CollectSample, GetSample
<1>3. /\ Hands' /\ Untouched' /\ InOrder' /\ UNCHANGED <<Over, Live, Underway, InHand, Counting>>
      /\ UNCHANGED <<task, version, paramVersion, staleness, taken, hand, finished, paused,
                     trigger, serverPaused, pc, lock, counted>>
  BY <1>1, <1>2, RolloutStays
<1>4. ~final
  BY <1>2 DEF Before, Lagging, Collects
<1>5. ~Syncing /\ pc["resume"] = "off"
  BY <1>1, <1>2, <1>4 DEF Rounds, Quiet, Syncing
<1>6. ~Syncing' /\ ~Drained /\ ~Drained'
  BY <1>2, <1>3, <1>5 DEF Syncing, Drained
<1>7. Quiet' /\ Recovers' /\ Budget' /\ Refusing'
  BY <1>1, <1>2, <1>3, <1>5, <1>6 DEF Rounds, Quiet, Recovers, Budget, Refusing
<1>8. Flags'
  BY <1>1, <1>2, <1>3, <1>6 DEF Rounds, Flags
<1>9. Counted'
  BY <1>1, <1>2 DEF Rounds, Counted
<1>10. /\ queue \in Seq(Samples \cup {EndSignal}) /\ Len(queue) \in Nat \ {0}
       /\ Head(queue) = queue[1] /\ Len(queue') = Len(queue) - 1
       /\ \A i \in 1..Len(queue') : queue'[i] = queue[i + 1] /\ i + 1 \in 1..Len(queue)
  BY <1>1, <1>2 DEF IInv, Queued
<1>11. InQueue' = InQueue \ {Head(queue)} /\ Head(queue) \in InQueue \cup {EndSignal}
  <2>1. Unrepeated(queue) /\ InQueue = Entries(queue) /\ InQueue' = Entries(queue')
    BY DEF Before, Placed, InQueue, Entries
  <2> QED
    BY <1>2, <1>10, <2>1, TailEntries
<1>12. CASE Head(queue) = EndSignal
  <2>1. batch' = {} /\ trainPc' = "lastValid"
    BY <1>12 DEF CollectSample
  <2>2. 1 = Len(queue) /\ pc["proc"] \in {"stop", "ended"}
    BY <1>1, <1>10, <1>12 DEF Rounds, Signalled
  <2>3. queue' = <<>> /\ Len(queue') = 0
    BY <1>2, <1>10, <2>2
  <2>4. Signalled'
    BY <1>1, <1>3, <2>1, <2>2, <2>3 DEF Rounds, Signalled
  <2>5. InQueue' \subseteq InQueue /\ Here' \subseteq Here
    BY <1>3, <1>11, <2>1 DEF Here
  <2>6. InRound'
    BY <1>1, <1>2, <1>3, <2>1, <2>5 DEF Rounds, InRound
  <2> QED
    BY <1>3, <1>7, <1>8, <1>9, <2>4, <2>6 DEF Rounds
<1>13. CASE Head(queue) # EndSignal
  <2>1. batch' = batch \cup {Head(queue)} /\ trainPc' \in {"collect", "train"}
    BY <1>13 DEF CollectSample
  <2>2. InQueue' \cup batch' = InQueue \cup batch
    BY <1>11, <1>13, <2>1
  <2>3. Here' = Here
    BY <1>3, <2>2 DEF Here
  <2>4. InRound'
    BY <1>1, <1>2, <1>3, <2>2, <2>3 DEF Rounds, InRound
  <2>5. Signalled'
    <3>1. \A i \in 1..Len(queue') : queue'[i] = EndSignal =>
            pc["proc"] \in {"stop", "ended"} /\ i = Len(queue')
      <4>1. ASSUME NEW i \in 1..Len(queue'), queue'[i] = EndSignal
            PROVE  pc["proc"] \in {"stop", "ended"} /\ i = Len(queue')
        <5>1. i + 1 \in 1..Len(queue) /\ queue[i + 1] = EndSignal
          BY <1>10, <4>1
        <5>2. pc["proc"] \in {"stop", "ended"} /\ i + 1 = Len(queue)
          BY <1>1, <5>1 DEF Rounds, Signalled
        <5> QED
          BY <1>10, <5>2
      <4> QED
        BY <4>1
    <3>2. ~EndSeen'
      BY <1>2, <1>4, <2>1 DEF EndSeen
    <3> QED
      BY <1>1, <1>3, <3>1, <3>2 DEF Rounds, Signalled
  <2> QED
    BY <1>3, <1>7, <1>8, <1>9, <2>4, <2>5 DEF Rounds
<1> QED
  BY <1>12, <1>13

\* The samples of the round the trainer has trained, with those of its batch.
LEMMA BatchCounts ==
    ASSUME Before, trainPc = "train"
    PROVE  LET got == {s \in trained : s > UpTo(trainVersion)} \cup batch
           IN  /\ IsFiniteSet(got) /\ Cardinality(got) = localTriggerStep * RequiredSamples
               /\ trainVersion = paramVersion /\ ~final /\ ~Syncing /\ pc["resume"] = "off"
               /\ \A s \in batch : s \in Samples /\ s <= taken /\ s > UpTo(trainVersion)
                                   /\ version[s] = paramVersion
<1> DEFINE T == {s \in trained : s > UpTo(trainVersion)}
<1>1. Rounds /\ Placed /\ Lagging /\ Collects
  BY DEF Before, Rounds, Lagging
<1>2. ~final /\ pc["resume"] = "off"
  BY <1>1 DEF Collects, Rounds, Quiet, Syncing
<1>3. ~Syncing /\ trainVersion = paramVersion
  <2>1. pc["update"] = "off"
    BY <1>1, <1>2 DEF Rounds, InOrder
  <2> QED
    BY <1>1, <1>2, <2>1 DEF Syncing, Lagging, Versions, Pending
<1>4. \A s \in batch : s \in Samples /\ s <= taken /\ s > UpTo(trainVersion)
                       /\ version[s] = paramVersion
  BY <1>1, <1>2, <1>3, Sizes DEF Placed, OnlyTaken, Taken, Rounds, InRound, Here
<1>5. /\ IsFiniteSet(T) /\ IsFiniteSet(batch) /\ T \cap batch = {}
      /\ Cardinality(T) = (localTriggerStep - 1) * RequiredSamples
      /\ Cardinality(batch) = RequiredSamples
  <2>1. IsFiniteSet(T) /\ IsFiniteSet(batch)
    BY <1>1, LiveFinite DEF Placed, OnlyTaken, Taken
  <2>2. T \cap batch = {}
    BY <1>1 DEF Placed, Apart, Spent
  <2>3. Cardinality(T) = (localTriggerStep - 1) * RequiredSamples
    BY <1>1 DEF Rounds, Counted
  <2>4. Cardinality(batch) = RequiredSamples
    BY <1>1 DEF Collects
  <2> QED
    BY <2>1, <2>2, <2>3, <2>4
<1> HIDE DEF T
<1>6. IsFiniteSet(T \cup batch)
      /\ Cardinality(T \cup batch) = (localTriggerStep - 1) * RequiredSamples + RequiredSamples
  BY <1>5, AddsUp
<1>7. (localTriggerStep - 1) * RequiredSamples + RequiredSamples = localTriggerStep * RequiredSamples
  BY <1>1, WithinVersion
<1> QED
  BY <1>2, <1>3, <1>4, <1>6, <1>7 DEF T

\* After the last batch of a version everything that was taken is trained.
LEMMA RoundIsOver ==
    ASSUME Before, trainPc = "train", localTriggerStep = TriggerParameterSyncStep
    PROVE  /\ InHand = {} /\ Underway = {} /\ InQueue = {} /\ queue = <<>> /\ hand = NoSample
           /\ taken = UpTo(trainVersion + 1) /\ staleness = MaxRequiredSamples
           /\ ~Over
           /\ {s \in trained : s > UpTo(trainVersion)} \cup batch
                = (UpTo(trainVersion) + 1)..taken
<1> DEFINE b == UpTo(trainVersion)
           got == {s \in trained : s > UpTo(trainVersion)} \cup batch
           R == (b + 1)..taken
<1>1. Rounds /\ Placed /\ Lagging /\ IInv
  BY DEF Before, Rounds
<1>2. /\ IsFiniteSet(got) /\ Cardinality(got) = localTriggerStep * RequiredSamples
      /\ trainVersion = paramVersion /\ ~final /\ ~Syncing /\ pc["resume"] = "off"
      /\ \A s \in batch : s \in Samples /\ s <= taken /\ s > b
  BY BatchCounts
<1>3. /\ b \in Nat /\ MaxRequiredSamples \in Nat \ {0} /\ MaxQueueSize = MaxRequiredSamples
      /\ UpTo(trainVersion + 1) = b + MaxRequiredSamples
      /\ localTriggerStep * RequiredSamples = MaxRequiredSamples
  <2>1. OnPolicy /\ trainVersion \in Nat
    BY DEF Before, Lagging, Versions
  <2>2. localTriggerStep * RequiredSamples = MaxRequiredSamples
    BY <2>1, PerVersion DEF OnPolicy
  <2> QED
    BY <2>1, <2>2, RoundSizes
<1>4. /\ taken = b + staleness /\ staleness \in 0..MaxRequiredSamples
  <2>1. pc["update"] = "off"
    BY <1>1, <1>2 DEF Rounds, InOrder
  <2> QED
    BY <1>1, <1>2, <2>1 DEF Rounds, Budget, Counting
<1>5. got \subseteq R /\ got \subseteq Samples
  <2>1. \A s \in trained : s \in Samples /\ s <= taken
    BY <1>1, Sizes DEF Placed, OnlyTaken, Taken
  <2> QED
    BY <1>2, <1>3, <1>4, <2>1, Sizes
<1>6. InHand \cup Underway \cup InQueue \subseteq R
  <2>1. \A s \in Here : s \in Samples /\ s <= taken /\ s > b
    BY <1>1, <1>2, Sizes DEF Placed, OnlyTaken, Taken, Rounds, InRound, Here
  <2> QED
    BY <1>3, <1>4, <2>1, Sizes DEF Here
<1>7. (InHand \cup Underway \cup InQueue) \cap got = {}
  BY <1>1 DEF Placed, Apart, Spent
<1> HIDE DEF b, got
<1>8. IsFiniteSet(R) /\ Cardinality(R) = staleness
  <2>1. b + 1 \in Int /\ taken \in Int /\ (b + 1 > taken <=> staleness = 0)
        /\ taken - (b + 1) + 1 = staleness
    BY <1>3, <1>4
  <2>2. IsFiniteSet(R) /\ Cardinality(R) = IF b + 1 > taken THEN 0 ELSE taken - (b + 1) + 1
    BY <2>1, FS_Interval
  <2> QED
    BY <2>1, <2>2
<1>9. R \in SUBSET R /\ got \in SUBSET R
  BY <1>5
<1> HIDE DEF R
<1>10. Cardinality(got) <= Cardinality(R) /\ (Cardinality(got) = Cardinality(R) => got = R)
  BY <1>8, <1>9, FS_Subset
<1>11. staleness = MaxRequiredSamples /\ got = R
  BY <1>2, <1>3, <1>4, <1>8, <1>10
<1>12. InHand = {} /\ Underway = {} /\ InQueue = {}
  BY <1>6, <1>7, <1>11
<1>13. taken \in R /\ taken \in Samples
  <2>1. taken \in R
    BY <1>3, <1>4, <1>11 DEF R
  <2> QED
    BY <1>5, <1>11, <2>1
<1>14. hand = NoSample
  <2>1. hand # NoSample => hand = taken
    BY <1>1 DEF Rounds, Hands
  <2>2. hand # taken
    BY <1>12, <1>13 DEF InHand
  <2> QED
    BY <2>1, <2>2
<1>15. ~Over
  BY <1>1, <1>14, Sizes DEF Rounds, Hands
<1>16. queue = <<>>
  <2>1. ASSUME queue # <<>> PROVE FALSE
    <3>1. queue \in Seq(Samples \cup {EndSignal})
      BY <1>1 DEF IInv, Queued
    <3>2. 1 \in DOMAIN queue /\ 1 \in 1..Len(queue)
      BY <2>1, <3>1
    <3>3. queue[1] # EndSignal
      BY <1>1, <1>15, <3>2 DEF Rounds, Signalled, Over
    <3>4. queue[1] \in InQueue
      BY <3>2, <3>3 DEF InQueue
    <3> QED
      BY <1>12, <3>4
  <2> QED
    BY <2>1
<1> QED
  BY <1>3, <1>4, <1>11, <1>12, <1>14, <1>15, <1>16 DEF R, b, got

\* A batch is counted; the last one of a version ends the round.
LEMMA TrainRounds ==
    ASSUME Before, TrainStep
    PROVE  Rounds'
<1>1. Rounds /\ IInv /\ Placed /\ Collects
  BY DEF Before, Rounds, Lagging
<1>2. /\ trainPc = "train" /\ batch' = {} /\ trained' = trained \cup batch
      /\ UNCHANGED <<final, queue, dropped, rolloutVars>>
  BY DEF TrainStep, mqVars
<1>3. /\ Hands' /\ Untouched' /\ InOrder' /\ UNCHANGED <<Over, Live, Underway, InHand, Counting>>
      /\ UNCHANGED <<task, version, paramVersion, staleness, taken, hand, finished, paused,
                     trigger, serverPaused, pc, lock, counted>>
  BY <1>1, <1>2, RolloutStays
<1>4. /\ Cardinality({s \in trained : s > UpTo(trainVersion)} \cup batch)
           = localTriggerStep * RequiredSamples
      /\ trainVersion = paramVersion /\ ~final /\ ~Syncing /\ pc["resume"] = "off"
      /\ \A s \in batch : s \in Samples /\ s <= taken /\ s > UpTo(trainVersion)
                          /\ version[s] = paramVersion
  BY <1>2, BatchCounts
<1>5. InQueue' = InQueue /\ Here' \subseteq Here
  BY <1>2, <1>3 DEF InQueue, Here
<1>6. InRound'
  <2>1. paramVersion \in Nat
    BY DEF Before, Lagging, Versions
  <2>2. \A s \in batch : version[s] <= paramVersion
    BY <1>4, <2>1
  <2> QED
    BY <1>1, <1>2, <1>3, <1>4, <1>5, <2>2 DEF Rounds, InRound
<1>7. Budget' /\ Recovers'
  BY <1>1, <1>2, <1>3 DEF Rounds, Budget, Recovers
<1>8. trainPc' \in {"collect", "waitValid"}
  BY DEF TrainStep
<1>9. Signalled'
  BY <1>1, <1>2, <1>3, <1>4, <1>8 DEF Rounds, Signalled, EndSeen
<1>10. ~Drained' /\ pc["pause"] = "off" /\ pc'["pause"] = "off"
  BY <1>1, <1>2, <1>3, <1>4, <1>8 DEF Drained, IInv, Called
<1>11. Flags' /\ Refusing'
  BY <1>1, <1>2, <1>3, <1>4, <1>10 DEF Rounds, Flags, Refusing
<1>12. CASE localTriggerStep < TriggerParameterSyncStep
  <2>1. /\ localTriggerStep' = localTriggerStep + 1 /\ trainPc' = "collect"
        /\ trainVersion' = trainVersion
    BY <1>12 DEF TrainStep
  <2>2. Quiet'
    BY <1>3, <1>4, <2>1 DEF Quiet, Syncing
  <2>3. Counted'
    <3>1. {s \in trained' : s > UpTo(trainVersion')}
            = {s \in trained : s > UpTo(trainVersion)} \cup batch
      BY <1>2, <1>4, <2>1
    <3>2. localTriggerStep' - 1 = localTriggerStep
      BY <1>1, <2>1, PerVersion DEF Collects
    <3> QED
      BY <1>4, <3>1, <3>2 DEF Counted
  <2> QED
    BY <1>3, <1>6, <1>7, <1>9, <1>11, <2>2, <2>3 DEF Rounds
<1>13. CASE ~(localTriggerStep < TriggerParameterSyncStep)
  <2>1. trainPc' = "waitValid" /\ trainVersion' = trainVersion + 1
    BY <1>13 DEF TrainStep
  <2>2. localTriggerStep = TriggerParameterSyncStep
    BY <1>1, <1>13, PerVersion DEF Collects
  <2>3. /\ InHand = {} /\ Underway = {} /\ InQueue = {} /\ queue = <<>> /\ hand = NoSample
        /\ taken = UpTo(trainVersion + 1) /\ staleness = MaxRequiredSamples
        /\ ~Over
    BY <1>2, <2>2, RoundIsOver
  <2>4. pc["proc"] \notin {"get", "submit"}
    <3>1. MaxRequiredSamples \in Nat
      BY RollouterAssumption
    <3>2. NoSample \notin Samples
      BY Sizes
    <3> QED
      BY <1>1, <2>3, <3>1, <3>2 DEF Rounds, Hands
  <2>5. Quiet'
    <3>1. Here' = {}
      BY <1>2, <1>3, <1>5, <2>3 DEF Here
    <3>2. UpTo(trainVersion') = UpTo(trainVersion + 1)
      BY <2>1
    <3> QED
      BY <1>2, <1>3, <1>4, <2>3, <2>4, <3>1, <3>2 DEF Quiet, Over
  <2>6. Counted'
    BY <2>1 DEF Counted
  <2> QED
    BY <1>3, <1>6, <1>7, <1>9, <1>11, <2>5, <2>6 DEF Rounds
<1> QED
  BY <1>12, <1>13

\* The end of fit, with or without a closing synchronization.
LEMMA EndRounds ==
    ASSUME Before, FinalSync \/ TrainEnd
    PROVE  Rounds'
<1>1. Rounds /\ IInv
  BY DEF Before, Rounds
<1>2. /\ trainPc \in {"lastValid", "finalWait"} /\ LastValid /\ (final => final')
      /\ trainPc' \in {"waitValid", "ended"} /\ (trainPc' = "waitValid" => final')
      /\ UNCHANGED <<batch, trained, queue, dropped, rolloutVars>>
  BY DEF FinalSync, TrainEnd, mqVars
<1>3. /\ Hands' /\ Untouched' /\ InOrder' /\ UNCHANGED <<Over, Live, Underway, InHand, Counting>>
      /\ UNCHANGED <<task, version, paramVersion, staleness, taken, hand, finished, paused,
                     trigger, serverPaused, pc, lock, counted>>
  BY <1>1, <1>2, RolloutStays
<1>4. EndSeen /\ pc["resume"] = "off" /\ pc["pause"] = "off" /\ ~Syncing
  BY <1>1, <1>2 DEF EndSeen, LastValid, IInv, Called, Syncing
<1>5. Here' = Here /\ InQueue' = InQueue
  BY <1>2, <1>3 DEF Here, InQueue
<1>6. Signalled'
  BY <1>1, <1>2, <1>3, <1>4 DEF Rounds, Signalled
<1>7. Budget' /\ InRound' /\ Recovers'
  BY <1>1, <1>2, <1>3, <1>5 DEF Rounds, Budget, InRound, Recovers
<1>8. Counted' /\ Quiet'
  BY <1>2, <1>3, <1>4 DEF Counted, Quiet, Syncing
<1>9. Flags'
  BY <1>2, <1>3, <1>4 DEF Flags, Drained
<1>10. Refusing'
  BY <1>1, <1>2, <1>3, <1>4 DEF Rounds, Refusing
<1> QED
  BY <1>3, <1>6, <1>7, <1>8, <1>9, <1>10 DEF Rounds

\* The synchronizer's calls: the round begins anew when they are out.
LEMMA SyncRounds ==
    ASSUME Before, SyncWeights
    PROVE  Rounds'
<1>1. Rounds /\ IInv /\ pc \in [Coroutines -> Labels]
  BY DEF Before, Rounds, IInv, Locked
<1>2. /\ UNCHANGED <<batch, trained, localTriggerStep, trainVersion, final, queue, dropped>>
      /\ UNCHANGED <<lock, taken, hand, loop, task, version, finished, cancelQueue, paused, trigger,
                     serverPaused, paramVersion, staleness, counted>>
  BY DEF SyncWeights, SyncPause, SyncStart, SyncEnd, SyncFrame, mqVars, procVars, taskVars,
         flagVars, countVars
<1>3. pc'["proc"] = pc["proc"] /\ pc'["monitor"] = pc["monitor"]
  BY <1>1 DEF SyncWeights, SyncPause, SyncStart, SyncEnd, Goto, Coroutines
<1>4. UNCHANGED <<Over, Reaping, Live, Here, InQueue>>
  BY <1>2, <1>3 DEF Over, Reaping, Live, Here, InHand, Underway, InQueue
<1>5. Hands' /\ Untouched' /\ Recovers'
  BY <1>1, <1>2, <1>3, <1>4 DEF Rounds, Hands, Untouched, Recovers
<1>6. InRound'
  BY <1>1, <1>2, <1>4 DEF Rounds, InRound
<1>7. EndSeen' = EndSeen
  BY <1>2 DEF SyncWeights, SyncPause, SyncStart, SyncEnd, EndSeen
<1>8. Signalled'
  BY <1>1, <1>2, <1>3, <1>4, <1>7 DEF Rounds, Signalled
<1>9. LastValid
  BY <1>1 DEF SyncWeights, SyncPause, SyncStart, SyncEnd, IInv, Called
<1>10. CASE SyncPause
  <2>1. /\ trainPc = "waitValid" /\ trainPc' = "pause" /\ pc'["pause"] = "called"
        /\ pc'["update"] = "off" /\ pc'["resume"] = "off" /\ pc["pause"] = "off"
    BY <1>1, <1>9, <1>10 DEF SyncPause, Goto, Coroutines, LastValid, IInv, Called
  <2>2. Syncing /\ Syncing' /\ ~Drained' /\ Counting' = Counting
    BY <1>9, <2>1 DEF Syncing, Drained, Counting, LastValid
  <2>3. Budget' /\ Counted' /\ InOrder'
    BY <1>1, <1>2, <2>1, <2>2 DEF Rounds, Budget, Counted, InOrder
  <2>4. Quiet'
    BY <1>1, <1>2, <1>3, <1>4, <2>1, <2>2 DEF Rounds, Quiet
  <2>5. Flags' /\ Refusing'
    BY <1>1, <1>2, <2>1, <2>2 DEF Rounds, Flags, Refusing
  <2> QED
    BY <1>5, <1>6, <1>8, <2>3, <2>4, <2>5 DEF Rounds
<1>11. CASE SyncStart
  <2>1. /\ trainPc = "pause" /\ trainPc' = "copy" /\ UNCHANGED pc
        /\ pc["update"] = "off" /\ pc["resume"] = "off" /\ pc["pause"] = "off"
    BY <1>1, <1>9, <1>11 DEF SyncStart, LastValid
  <2>2. Syncing /\ Syncing' /\ Drained /\ Drained' /\ Counting' = Counting
    BY <2>1 DEF Syncing, Drained, Counting
  <2>3. Budget' /\ Counted' /\ InOrder'
    BY <1>1, <1>2, <2>1, <2>2 DEF Rounds, Budget, Counted, InOrder
  <2>4. Quiet'
    BY <1>1, <1>2, <1>3, <1>4, <2>1, <2>2 DEF Rounds, Quiet
  <2>5. Flags' /\ Refusing'
    BY <1>1, <1>2, <1>4, <2>1, <2>2 DEF Rounds, Flags, Refusing
  <2> QED
    BY <1>5, <1>6, <1>8, <2>3, <2>4, <2>5 DEF Rounds
<1>12. CASE SyncEnd
  <2>1. /\ trainPc = "copy" /\ trainPc' = (IF final THEN "finalWait" ELSE "collect")
        /\ pc'["update"] = "called" /\ pc'["resume"] = "called" /\ pc'["pause"] = pc["pause"]
        /\ pc["update"] = "off" /\ pc["resume"] = "off" /\ pc["pause"] = "off"
    BY <1>1, <1>9, <1>12 DEF SyncEnd, LastValid, Coroutines, IInv, Called
  <2>2. Syncing /\ Syncing' /\ Drained /\ Drained' /\ Counting' = Counting
    BY <2>1 DEF Syncing, Drained, Counting
  <2>3. Budget' /\ InOrder'
    BY <1>1, <1>2, <2>1, <2>2 DEF Rounds, Budget, InOrder
  <2>4. Quiet'
    BY <1>1, <1>2, <1>3, <1>4, <2>1, <2>2 DEF Rounds, Quiet
  <2>5. Flags' /\ Refusing'
    BY <1>1, <1>2, <1>3, <1>4, <2>1, <2>2 DEF Rounds, Flags, Refusing
  <2>6. Counted'
    <3> SUFFICES ASSUME ~final PROVE Counted'
      BY <2>1 DEF Counted
    <3>1. taken = UpTo(trainVersion) /\ localTriggerStep = 1 /\ taken \in Nat
      BY <1>1, <2>1, <2>2 DEF Rounds, Quiet, Before, Lagging, Collects, IInv, Fed
    <3>2. \A s \in trained : s \in Samples /\ s <= taken
      BY Sizes DEF Before, Placed, OnlyTaken, Taken
    <3>3. {s \in trained' : s > UpTo(trainVersion')} = {}
      BY <1>2, <3>1, <3>2, Sizes
    <3>4. (localTriggerStep' - 1) * RequiredSamples = 0
      BY <1>2, <3>1, PerVersion
    <3> QED
      BY <3>3, <3>4, FS_EmptySet DEF Counted
  <2> QED
    BY <1>5, <1>6, <1>8, <2>3, <2>4, <2>5, <2>6 DEF Rounds
<1> QED
  BY <1>10, <1>11, <1>12 DEF SyncWeights

-----------------------------------------------------------------------------
\* The feeder is ahead of everything; a stutter changes nothing.
LEMMA FeedRounds ==
    ASSUME Before, (Feed /\ UNCHANGED trainVars) \/ UNCHANGED vars
    PROVE  Rounds'
<1>1. Rounds
  BY DEF Before
<1>2. /\ UNCHANGED <<pc, lock, taken, loop, hand, task, version, finished, cancelQueue>>
      /\ UNCHANGED <<paused, trigger, serverPaused, paramVersion, staleness, counted>>
      /\ UNCHANGED <<queue, dropped>>
      /\ UNCHANGED <<trainPc, batch, trained, localTriggerStep, trainVersion, final>>
  BY DEF Feed, vars, rolloutVars, loopVars, procVars, taskVars, flagVars, countVars, mqVars, trainVars
<1>3. UNCHANGED <<Over, Reaping, Live, Here, InQueue, Syncing, Drained, Counting, EndSeen>>
  BY <1>2 DEF Over, Reaping, Live, Here, InHand, Underway, InQueue, Syncing, Drained, Counting, EndSeen
<1>4. Hands' /\ Untouched' /\ Signalled' /\ Budget'
  BY <1>1, <1>2, <1>3 DEF Rounds, Hands, Untouched, Signalled, Budget
<1>5. InRound' /\ Counted' /\ Quiet' /\ InOrder'
  BY <1>1, <1>2, <1>3 DEF Rounds, InRound, Counted, Quiet, InOrder
<1>6. Flags' /\ Refusing' /\ Recovers'
  BY <1>1, <1>2, <1>3 DEF Rounds, Flags, Refusing, Recovers
<1> QED
  BY <1>4, <1>5, <1>6 DEF Rounds

\* Every step keeps the rounds.
LEMMA NextRounds ==
    ASSUME OnPolicy, Unassigned
    PROVE  IInv /\ Placed /\ Lagging /\ Members /\ Rounds /\ [Next]_vars => Rounds'
<1> SUFFICES ASSUME Before, [Next]_vars PROVE Rounds'
  BY DEF Before
<1>1. CASE Rollouter /\ UNCHANGED trainVars
  BY <1>1, FeedRounds, ProcessorRounds, MonitorRounds, PauseRounds, UpdateRounds, ResumeRounds,
     TaskRounds DEF Rollouter
<1>2. CASE Trainer
  BY <1>2, CollectRounds, TrainRounds, EndRounds, SyncRounds DEF Trainer
<1>3. CASE Ended \/ UNCHANGED vars
  BY <1>3, FeedRounds DEF Ended
<1> QED
  BY <1>1, <1>2, <1>3 DEF Next

\* At the start of the first round nothing is taken.
LEMMA InitRounds == Init => Members /\ Rounds
<1> SUFFICES ASSUME Init PROVE Members /\ Rounds
  OBVIOUS
<1> USE DEF Init, RolloutInit, MQInit, TrainInit
<1>1. Live = {} /\ Here = {} /\ InQueue = {}
  BY Sizes DEF Live, Here, InHand, Underway, InQueue
<1>2. UpTo(0) = 0
  BY PerVersion DEF UpTo
<1>3. Members
  BY DEF Members, InLock, Coroutines
<1>4. Hands /\ Untouched /\ Signalled
  BY <1>1, Sizes DEF Hands, Untouched, Signalled, Over, Reaping, EndSeen
<1>5. Budget /\ InRound
  <2>1. MaxRequiredSamples \in Nat
    BY RollouterAssumption
  <2> QED
    BY <1>1, <1>2, <2>1 DEF Budget, InRound, Counting
<1>6. Counted
  <2>1. {s \in trained : s > UpTo(trainVersion)} = {} /\ (localTriggerStep - 1) * RequiredSamples = 0
    BY PerVersion
  <2> QED
    BY <2>1, FS_EmptySet DEF Counted
<1>7. Quiet /\ InOrder /\ Flags /\ Refusing /\ Recovers
  BY DEF Quiet, InOrder, Flags, Refusing, Recovers, Syncing, Drained
<1> QED
  BY <1>3, <1>4, <1>5, <1>6, <1>7 DEF Rounds

-----------------------------------------------------------------------------
(* done_tasks with staleness_threshold = 0, whatever PendingSize           *)

\* Until its first reaping the processor sleeps for want of a sample only; what
\* it has submitted is in active_tasks, and no round is over.
NothingReaped ==
    /\ cpu # "proc" => pc["proc"] = "get" \/ (pc["proc"] = "top" /\ taken = 0)
    /\ lock # <<>> => cpu # "none" /\ lock = <<cpu>>
    /\ pc["proc"] \in {"top", "get", "submit", "mark", "reap", "reapLock"}
    /\ pc["pause"] = "off" /\ pc["update"] = "off" /\ pc["resume"] = "off"
    /\ trainPc \in {"collect", "train"}
    /\ cpu = "proc" /\ hand = NoSample /\ taken > 0 => task[taken] = "start"
    /\ Submitted > 0 => ActiveTasks > 0
    /\ paused => Reaping /\ loop = "drain"
    /\ pc["proc"] \in {"mark", "reapLock"} \/ (Reaping /\ loop # "limit") => ActiveTasks > 0

\* Until done_tasks is assigned, that.
Unreaped == bound \in BOOLEAN /\ (NotReaped => NothingReaped)

\* The reaping loop is entered with something to reap, or done_tasks assigned.
LEMMA NeverUnassigned ==
    ASSUME Unreaped
    PROVE  Unassigned
BY DEF Unreaped, NotReaped, NothingReaped, Unassigned

\* The rest of the program: no batch ends a round before the last sample of it
\* has been reaped for.
LEMMA OthersUnreaped ==
    ASSUME Before, Unreaped, NotReaped, [Next]_vars, ~(Processor /\ UNCHANGED trainVars)
    PROVE  Unreaped'
<1>1. /\ pc \in [Coroutines -> Labels] /\ NothingReaped /\ bound = FALSE /\ Rounds /\ IInv
      /\ finished \in Nat /\ taken \in Nat /\ hand \in Nat
  BY Sizes DEF Before, Rounds, IInv, Locked, Tasks, Fed, Unreaped, NotReaped
<1>2. /\ pc["proc"] # "idle" /\ pc["pause"] = "off" /\ pc["update"] = "off"
      /\ pc["resume"] = "off" /\ trainPc \in {"collect", "train"}
  BY <1>1 DEF NothingReaped
<1>3. ASSUME UNCHANGED <<cpu, lock, pc, taken, loop, hand, bound, paused>>,
             trainPc' \in {"collect", "train"}, ActiveTasks' = ActiveTasks,
             cpu = "proc" /\ hand = NoSample /\ taken > 0 => task'[taken] = task[taken]
      PROVE  Unreaped'
  BY <1>1, <1>3 DEF Unreaped, NotReaped, NothingReaped, Submitted, Reaping
<1>4. CASE (Feed /\ UNCHANGED trainVars) \/ UNCHANGED vars
  <2>1. UNCHANGED <<cpu, lock, pc, taken, loop, hand, bound, paused, trainPc, task, finished>>
    BY <1>4 DEF Feed, vars, rolloutVars, loopVars, procVars, taskVars, flagVars, trainVars
  <2>2. ActiveTasks' = ActiveTasks
    BY <2>1 DEF ActiveTasks, Live
  <2> QED
    BY <1>2, <1>3, <2>1, <2>2
<1>5. CASE Monitor /\ UNCHANGED trainVars
  <2>1. cpu # "proc"
    BY <1>5 DEF Monitor, MonitorTop, MonitorCheckRunning, MonitorWake, MonitorRecover, At, Within,
                Holds, Runs
  <2>2. /\ cpu' \in {"none", "monitor"} /\ pc'["proc"] = pc["proc"]
        /\ pc'["pause"] = "off" /\ pc'["update"] = "off" /\ pc'["resume"] = "off"
        /\ UNCHANGED <<taken, loop, hand, bound, task, finished, trainPc>>
        /\ (paused' => paused) /\ (lock' # <<>> => cpu' # "none" /\ lock' = <<cpu'>>)
    BY <1>1, <1>2, <1>5, <2>1, MonitorAlone DEF NothingReaped, Coroutines, trainVars
  <2>3. ActiveTasks' = ActiveTasks /\ Submitted' = Submitted /\ Reaping' = Reaping
    BY <2>2 DEF ActiveTasks, Live, Submitted, Reaping
  <2> QED
    BY <1>1, <2>1, <2>2, <2>3 DEF Unreaped, NotReaped, NothingReaped
<1>6. ~Pause /\ ~Update(syncVersion) /\ ~Resume
  BY <1>2 DEF Pause, PauseLock, PauseSet, PauseCancel, PauseGather, PauseReturn, Update,
     UpdateLock, UpdateCount, CountTasks, UpdateSize, UpdateReturn, UpdateEnds, Resume,
     ResumeLock, ResumeServers, ResumeReturn, At, Within
<1>7. ASSUME NEW s \in Samples, Task(s), UNCHANGED trainVars PROVE Unreaped'
  <2>1. task[s] # "none"
    BY <1>7, TaskBecomes
  <2>2. PICK state \in TaskStates : Becomes(s, state)
    BY <1>7, TaskBecomes
  <2>3. UNCHANGED <<cpu, lock, pc, taken, loop, hand, bound, paused, trainPc>>
    BY <1>7, <2>2 DEF Becomes, loopVars, procVars, flagVars, trainVars
  <2>4. ActiveTasks' = ActiveTasks
    BY <1>1, <2>1, <2>2, BecomesCounts DEF IInv
  <2>5. cpu = "proc" => task[s] # "start" \/ task' = task
    BY <1>7 DEF Task, TaskStart, TaskArrive, TaskInterrupt, TaskGenerated, TaskPut, TaskReturn,
                TaskCancelled, Resumes
  <2>6. \A x \in Samples \ {s} : task'[x] = task[x]
    BY <1>1, <2>2 DEF Becomes, IInv, Tasks
  <2>7. cpu = "proc" /\ hand = NoSample /\ taken > 0 => task'[taken] = task[taken]
    <3>1. ASSUME cpu = "proc", hand = NoSample, taken > 0 PROVE task'[taken] = task[taken]
      <4>1. task[taken] = "start"
        BY <1>1, <3>1 DEF NothingReaped
      <4>2. taken \in Samples
        <5>1. taken # Done
          BY <1>1, <3>1, Sizes DEF Rounds, Hands
        <5> QED
          BY <1>1, <3>1, <5>1, Sizes DEF IInv, Fed
      <4> QED
        BY <2>5, <2>6, <3>1, <4>1, <4>2
    <3> QED
      BY <3>1
  <2> QED
    BY <1>2, <1>3, <2>3, <2>4, <2>7
<1>8. CASE Trainer
  <2>1. CollectSample \/ TrainStep
    BY <1>2, <1>8 DEF Trainer, FinalSync, SyncWeights, SyncPause, SyncStart, SyncEnd, TrainEnd
  <2>2. UNCHANGED <<cpu, lock, pc, taken, loop, hand, bound, paused, task, finished>>
    BY <2>1 DEF CollectSample, TrainStep, rolloutVars, loopVars, procVars, taskVars, flagVars
  <2>3. ActiveTasks' = ActiveTasks
    BY <2>2 DEF ActiveTasks, Live
  <2>4. trainPc' # "lastValid"
    <3>1. CASE CollectSample /\ Head(queue) = EndSignal
      <4>1. queue # <<>> /\ queue \in Seq(Samples \cup {EndSignal})
        BY <1>1, <3>1 DEF CollectSample, GetSample, IInv, Queued
      <4>2. 1 \in 1..Len(queue) /\ queue[1] = EndSignal
        BY <3>1, <4>1
      <4>3. pc["proc"] \in {"stop", "ended"}
        BY <1>1, <4>2 DEF Rounds, Signalled
      <4> QED
        BY <1>1, <4>3 DEF NothingReaped
    <3> QED
      BY <2>1, <3>1 DEF CollectSample, TrainStep
  <2>5. trainPc' # "waitValid"
    <3>1. ASSUME trainPc' = "waitValid" PROVE FALSE
      <4>1. /\ TrainStep /\ trainPc = "train"
            /\ ~(localTriggerStep < TriggerParameterSyncStep)
        BY <2>1, <3>1 DEF CollectSample, TrainStep
      <4>2. localTriggerStep = TriggerParameterSyncStep
        BY <4>1, PerVersion DEF Before, Lagging, Collects
      <4>3. /\ Underway = {} /\ hand = NoSample /\ staleness = MaxRequiredSamples /\ ~Over
            /\ taken = UpTo(trainVersion + 1)
        BY <4>1, <4>2, RoundIsOver
      <4>4. taken > 0 /\ MaxRequiredSamples \in Nat \ {0}
        <5>1. OnPolicy /\ trainVersion \in Nat
          BY DEF Before, Lagging, Versions
        <5>2. UpTo(trainVersion) \in Nat /\ MaxRequiredSamples \in Nat \ {0}
              /\ UpTo(trainVersion + 1) = UpTo(trainVersion) + MaxRequiredSamples
          BY <5>1, RoundSizes
        <5> QED
          BY <4>3, <5>2
      <4>5. pc["proc"] # "get"
        BY <1>1, <4>3, <4>4 DEF Rounds, Hands
      <4>6. cpu = "proc" /\ task[taken] = "start"
        BY <1>1, <4>3, <4>4, <4>5 DEF NothingReaped
      <4>7. taken \in Samples
        <5>1. taken # Done
          BY <1>1, <4>3, Sizes DEF Rounds, Hands
        <5> QED
          BY <1>1, <4>4, <5>1, Sizes DEF IInv, Fed
      <4>8. taken \in Underway
        BY <4>6, <4>7 DEF Underway, Live
      <4> QED
        BY <4>3, <4>8
    <3> QED
      BY <3>1
  <2>6. trainPc' \in {"collect", "train"}
    BY <2>1, <2>4, <2>5 DEF CollectSample, TrainStep
  <2> QED
    BY <1>3, <2>2, <2>3, <2>6
<1> QED
  BY <1>4, <1>5, <1>6, <1>7, <1>8 DEF Next, Rollouter, Ended

\* The processor runs on to the first task it has to wait for.
LEMMA ProcessorUnreaped ==
    ASSUME Before, Unreaped, NotReaped, Processor, UNCHANGED trainVars
    PROVE  Unreaped'
<1> USE DEF procVars, taskVars, mqVars, loopVars, flagVars, countVars, Coroutines
<1>1. /\ pc \in [Coroutines -> Labels] /\ NothingReaped /\ bound = FALSE /\ Rounds /\ IInv
      /\ trainPc' = trainPc /\ task \in [Samples -> TaskStates]
  BY DEF Before, Rounds, IInv, Locked, Tasks, Unreaped, NotReaped, trainVars
<1>2. /\ taken \in Nat /\ fed \in Nat /\ hand \in Nat /\ ActiveTasks \in Nat
  <2>1. finished \in Nat /\ Live \in SUBSET Samples
    BY <1>1 DEF IInv, Tasks, Live
  <2>2. Cardinality(Live) \in Nat
    BY <2>1, LiveFinite
  <2> QED
    BY <1>1, <2>1, <2>2, Sizes DEF IInv, Fed, ActiveTasks
<1>3. /\ pc["proc"] \in {"top", "get", "submit", "mark", "reap", "reapLock"}
      /\ pc["pause"] = "off" /\ pc["update"] = "off" /\ pc["resume"] = "off"
      /\ (lock # <<>> => lock = <<cpu>>) /\ trainPc \in {"collect", "train"}
      /\ (cpu # "proc" => pc["proc"] = "get" \/ (pc["proc"] = "top" /\ taken = 0))
  BY <1>1 DEF NothingReaped
<1>4. pc["proc"] \notin InLock /\ Runs("proc") => lock = <<>>
  <2>1. ASSUME lock # <<>>, Runs("proc") PROVE pc["proc"] \in InLock
    <3>1. lock = <<"proc">>
      BY <1>1, <2>1 DEF NothingReaped, Runs
    <3>2. 1 \in 1..Len(lock) /\ lock[1] = "proc"
      BY <3>1
    <3> QED
      BY <1>1, <3>2 DEF IInv, Locked
  <2> QED
    BY <2>1
<1>5. Tail(<<"proc">>) = <<>> /\ Append(<<>>, "proc") = <<"proc">>
  OBVIOUS
<1>6. CASE ProcTop
  <2>1. /\ pc["proc"] = "top" /\ Runs("proc") /\ hand = NoSample /\ lock = <<>>
        /\ UNCHANGED <<taken, hand, loop, bound, task, finished, paused>>
        /\ Submitted = taken /\ cancelQueue = <<>>
    <3>1. pc["proc"] = "top" /\ Runs("proc") /\ "top" \notin InLock /\ cancelQueue = <<>>
      BY <1>1, <1>6 DEF ProcTop, At, InLock, Rounds, Untouched
    <3> QED
      BY <1>1, <1>4, <1>6, <3>1 DEF ProcTop, IInv, Handed, Submitted
  <2>2. ~paused
    BY <1>1, <2>1 DEF NothingReaped, Reaping
  <2>3. ActiveTasks' = ActiveTasks /\ Submitted' = Submitted
    BY <2>1 DEF ActiveTasks, Live, Submitted
  <2>4. cpu' = "proc" => (taken > 0 => task'[taken] = "start")
    BY <1>1, <1>3, <2>1 DEF NothingReaped, Runs
  <2>5. CASE ShouldPauseGeneration /\ Acquires("proc", "mark")
    <3>1. lock' = <<"proc">> /\ cpu' = "proc" /\ pc' = [pc EXCEPT !["proc"] = "mark"]
      BY <1>5, <2>1, <2>5 DEF Acquires, Goto
    <3>2. taken > 0
      <4>1. OnPolicy /\ ~final /\ paramVersion \in Nat /\ ~Counting
        BY <1>1, <1>3, <2>1, CallsSync DEF Before, Lagging, Versions, Counting, Over
      <4>2. /\ MaxRequiredSamples \in Nat \ {0} /\ MaxQueueSize = MaxRequiredSamples
            /\ UpTo(paramVersion) \in Nat
        BY <4>1, RoundSizes
      <4>3. CASE staleness >= MaxRequiredSamples
        BY <1>1, <4>1, <4>2, <4>3 DEF Rounds, Budget
      <4>4. CASE Len(queue) >= MaxQueueSize
        <5>1. queue \in Seq(Samples \cup {EndSignal}) /\ queue # <<>>
          BY <1>1, <4>2, <4>4 DEF IInv, Queued
        <5>2. 1 \in DOMAIN queue /\ 1 \in 1..Len(queue)
          BY <5>1
        <5>3. queue[1] # EndSignal
          BY <1>1, <2>1, <5>2 DEF Rounds, Signalled
        <5>4. queue[1] \in Taken
          BY <5>2, <5>3 DEF InQueue, Before, Placed, OnlyTaken
        <5> QED
          BY <1>2, <5>4 DEF Taken
      <4> QED
        BY <2>5, <4>3, <4>4 DEF ShouldPauseGeneration
    <3>3. ActiveTasks > 0
      BY <1>1, <2>1, <3>2 DEF NothingReaped
    <3> QED
      BY <1>1, <1>3, <2>1, <2>2, <2>3, <2>4, <3>1, <3>3 DEF Unreaped, NothingReaped, Reaping
  <2>6. CASE IF taken < fed THEN Continues("proc", "get") ELSE Suspends("proc", "get")
    <3>1. pc' = [pc EXCEPT !["proc"] = "get"] /\ lock' = <<>>
      BY <2>1, <2>6 DEF Continues, Suspends, Goto
    <3> QED
      BY <1>1, <1>3, <2>1, <2>2, <2>3, <2>4, <3>1 DEF Unreaped, NothingReaped, Reaping
  <2> QED
    BY <1>6, <2>1, <2>2, <2>5, <2>6 DEF ProcTop
<1>7. CASE ProcGet
  <2>1. /\ pc["proc"] = "get" /\ lock = <<>> /\ hand = NoSample
        /\ taken' = taken + 1 /\ hand' = taken + 1
        /\ loop' = (IF taken + 1 = Done THEN "end" ELSE "limit")
        /\ pc' = [pc EXCEPT !["proc"] = "reap"] /\ lock' = lock /\ cpu' = "proc"
        /\ UNCHANGED <<bound, task, finished, paused>>
    <3>1. pc["proc"] = "get" /\ Runs("proc") /\ "get" \notin InLock
      BY <1>7 DEF ProcGet, Take, At, InLock
    <3> QED
      BY <1>1, <1>4, <1>7, <3>1 DEF Rounds, Hands, ProcGet, Take, Continues, Goto
  <2>2. /\ ActiveTasks' = ActiveTasks /\ Submitted = taken /\ Submitted' = taken
    BY <1>2, <2>1, Sizes DEF ActiveTasks, Live, Submitted
  <2>3. loop' = "end" => ActiveTasks > 0
    BY <1>1, <1>2, <2>1, <2>2, Sizes DEF NothingReaped
  <2>4. ~paused
    BY <1>1, <2>1 DEF NothingReaped, Reaping
  <2> QED
    BY <1>1, <1>2, <1>3, <2>1, <2>2, <2>3, <2>4, Sizes DEF Unreaped, NothingReaped, Reaping
<1>8. CASE ProcMarkPaused
  <2>1. /\ pc["proc"] = "mark" /\ lock = <<"proc">> /\ cpu = "proc" /\ hand = NoSample
        /\ pc' = [pc EXCEPT !["proc"] = "reap"] /\ lock' = Tail(lock) /\ cpu' = "proc"
        /\ paused' = TRUE /\ loop' = "drain"
        /\ UNCHANGED <<taken, hand, bound, task, finished>>
    BY <1>1, <1>3, <1>8 DEF ProcMarkPaused, Within, Holds, Runs, Releases, Goto, IInv, Handed
  <2>2. ActiveTasks' = ActiveTasks /\ Submitted' = Submitted /\ lock' = <<>> /\ ActiveTasks > 0
    BY <1>1, <1>5, <2>1 DEF ActiveTasks, Live, Submitted, NothingReaped
  <2> QED
    BY <1>1, <1>3, <2>1, <2>2 DEF Unreaped, NothingReaped, Reaping
<1>9. CASE ProcReap
  <2>1. /\ pc["proc"] = "reap" /\ lock = <<>> /\ cpu = "proc"
        /\ UNCHANGED <<taken, hand, loop, bound, task, finished, paused>>
    <3>1. pc["proc"] = "reap" /\ Runs("proc") /\ "reap" \notin InLock
      BY <1>9 DEF ProcReap, At, InLock
    <3> QED
      BY <1>3, <1>4, <1>9, <3>1 DEF ProcReap
  <2>2. /\ ActiveTasks' = ActiveTasks /\ Submitted' = Submitted
        /\ loop \in {"drain", "limit", "end"}
        /\ (KeepsReaping => ActiveTasks > 0)
        /\ (~KeepsReaping => loop = "limit")
    BY <1>1, <1>2, <2>1, Sizes DEF ActiveTasks, Live, Submitted, Rounds, Hands, NothingReaped,
                                   Reaping, KeepsReaping
  <2>3. CASE KeepsReaping /\ Acquires("proc", "reapLock")
    <3>1. /\ pc' = [pc EXCEPT !["proc"] = "reapLock"] /\ lock' = <<"proc">> /\ cpu' = "proc"
      BY <1>5, <2>1, <2>3 DEF Acquires, Goto
    <3> QED
      BY <1>1, <1>3, <2>1, <2>2, <2>3, <3>1 DEF Unreaped, NothingReaped, Reaping
  <2>4. CASE loop = "limit" /\ Acquires("proc", "submit")
    <3>1. /\ pc' = [pc EXCEPT !["proc"] = "submit"] /\ lock' = <<"proc">> /\ cpu' = "proc"
      BY <1>5, <2>1, <2>4 DEF Acquires, Goto
    <3> QED
      BY <1>1, <1>3, <2>1, <2>2, <2>4, <3>1 DEF Unreaped, NothingReaped, Reaping
  <2> QED
    BY <1>9, <2>2, <2>3, <2>4 DEF ProcReap
<1>10. CASE ProcReapLocked
  <2>1. pc["proc"] = "reapLock" /\ bound' = bound
    BY <1>10 DEF ProcReapLocked, Within
  <2>2. ActiveTasks > 0
    BY <1>1, <2>1 DEF NothingReaped
  <2>3. pc' = [pc EXCEPT !["proc"] = "reapWait"]
    BY <1>2, <1>10, <2>2 DEF ProcReapLocked, Suspends, Goto
  <2> QED
    BY <1>1, <2>1, <2>3 DEF Unreaped, NotReaped
<1>11. CASE ProcSubmit
  <2>1. /\ pc["proc"] = "submit" /\ lock = <<"proc">> /\ cpu = "proc" /\ ~paused
        /\ hand = taken /\ hand \in Samples
    BY <1>1, <1>3, <1>11, Sizes DEF ProcSubmit, Within, Holds, Runs, Rounds, Hands
  <2>2. /\ pc' = [pc EXCEPT !["proc"] = "top"] /\ lock' = Tail(lock) /\ cpu' = "proc"
        /\ task' = [task EXCEPT ![hand] = "start"] /\ hand' = NoSample
        /\ UNCHANGED <<taken, loop, bound, finished, paused>>
    BY <1>11, <2>1 DEF ProcSubmit, Releases, Goto
  <2>3. lock' = <<>> /\ task'[taken] = "start"
    BY <1>1, <1>5, <2>1, <2>2
  <2>4. ActiveTasks' > 0
    <3>1. taken \in Live' /\ Live' \in SUBSET Samples /\ finished' \in Nat
      BY <1>1, <2>1, <2>2, <2>3 DEF Live, IInv, Tasks
    <3>2. IsFiniteSet(Live') /\ Cardinality(Live') \in Nat /\ Cardinality(Live') # 0
      BY <3>1, LiveFinite, FS_EmptySet
    <3> QED
      BY <3>1, <3>2 DEF ActiveTasks
  <2> QED
    BY <1>1, <1>3, <2>1, <2>2, <2>3, <2>4 DEF Unreaped, NothingReaped, Reaping
<1>12. ~ProcReapWait /\ ~ProcIdle /\ ~ProcNotified /\ ~Finish /\ ~Stop
  BY <1>3 DEF ProcReapWait, Reap, ProcIdle, ProcNotified, Finish, Stop, At, Within
<1> QED
  BY <1>6, <1>7, <1>8, <1>9, <1>10, <1>11, <1>12 DEF Processor

-----------------------------------------------------------------------------
\* The inductive invariant of the on-policy recipe.
RoundInv == IInv /\ Placed /\ Lagging /\ Members /\ Rounds /\ Unreaped

\* It holds at the start.
LEMMA InitRoundInv == Init => RoundInv
<1> SUFFICES ASSUME Init PROVE Unreaped
  BY InitIInv, InitPlaced, InitLagging, InitRounds DEF RoundInv
<1>1. /\ cpu = "none" /\ lock = <<>> /\ taken = 0 /\ bound = FALSE /\ paused = FALSE
      /\ pc["proc"] = "top" /\ pc["pause"] = "off" /\ pc["update"] = "off"
      /\ pc["resume"] = "off" /\ trainPc = "collect" /\ hand = NoSample
  BY DEF Init, RolloutInit, TrainInit
<1>2. ~(Submitted > 0) /\ ~Reaping
  BY <1>1 DEF Submitted, Reaping
<1> QED
  BY <1>1, <1>2 DEF Unreaped, NothingReaped

\* Every step keeps it, if the budget is one version's.
LEMMA NextRoundInv ==
    ASSUME OnPolicy
    PROVE  RoundInv /\ [Next]_vars => RoundInv'
<1> SUFFICES ASSUME RoundInv, [Next]_vars PROVE RoundInv'
  OBVIOUS
<1>1. Before /\ Unreaped /\ Unassigned
  BY NeverUnassigned DEF RoundInv, Before
<1>2. IInv' /\ Placed' /\ Lagging' /\ Members'
  BY NextIInv, NextPlaced, NextLagging, NextMembers DEF RoundInv
<1>3. Rounds'
  BY <1>1, NextRounds DEF Before
<1>4. Unreaped'
  <2>1. CASE ~NotReaped
    BY <1>1, <2>1, OnceReaped DEF Before, Unreaped
  <2>2. CASE NotReaped /\ Processor /\ UNCHANGED trainVars
    BY <1>1, <2>2, ProcessorUnreaped
  <2>3. CASE NotReaped /\ ~(Processor /\ UNCHANGED trainVars)
    BY <1>1, <2>3, OthersUnreaped
  <2> QED
    BY <2>1, <2>2, <2>3
<1> QED
  BY <1>2, <1>3, <1>4 DEF RoundInv

\* Nothing is dropped, and a batch is trained with the parameters it was generated with.
TrainedFresh ==
    /\ dropped = {}
    /\ trainPc = "train" => \A s \in batch : version[s] = trainVersion

(***************************************************************************)
(* With staleness_threshold = 0, whatever the sizes of the queues and the  *)
(* order of pauses, recoveries and batches: no sample is in generation     *)
(* while the new parameters are copied, the processor never reads a        *)
(* done_tasks that was never assigned and ends only with the entry "DONE", *)
(* no sample is dropped by the message queue, and a batch is trained with  *)
(* the parameters each of its samples was generated with.                  *)
(***************************************************************************)
THEOREM OnPolicyCorrect ==
    ASSUME OnPolicy
    PROVE  Spec => [](NoGenerationDuringSync /\ ProcessorSurvives /\ TrainedFresh)
<1>1. RoundInv => NoGenerationDuringSync /\ ProcessorSurvives /\ TrainedFresh
  <2> SUFFICES ASSUME RoundInv PROVE NoGenerationDuringSync /\ ProcessorSurvives /\ TrainedFresh
    OBVIOUS
  <2>1. Before /\ Rounds
    BY DEF RoundInv, Before
  <2>2. NoGenerationDuringSync
    <3>1. trainPc = "copy" => Live = {}
      BY <2>1, CallsSync DEF Rounds, Flags, Signalled, Drained
    <3> QED
      BY <3>1 DEF NoGenerationDuringSync, Underway
  <2>3. ProcessorSurvives
    BY <2>1 DEF Rounds, Hands, Over, ProcessorSurvives
  <2>4. TrainedFresh
    <3>1. dropped = {}
      BY <2>1 DEF Rounds, Untouched
    <3>2. trainPc = "train" => \A s \in batch : version[s] = trainVersion
      BY <2>1, BatchCounts
    <3> QED
      BY <3>1, <3>2 DEF TrainedFresh
  <2> QED
    BY <2>2, <2>3, <2>4
<1>2. RoundInv /\ [Next]_vars => RoundInv'
  BY NextRoundInv
<1> QED
  BY <1>1, <1>2, InitRoundInv, PTL DEF Spec

-----------------------------------------------------------------------------
(* The rounds of the abstract pipeline                                     *)

\* What the refinement maps past to.
PastNow == (Taken \ (InHand \cup Generating \cup Ready)) \ UsedNow

\* The pipeline's cardinality is that of this module.
LEMMA Countable == \A S : Pipeline!Cardinality(S) = Cardinality(S)
BY Zenon DEF Pipeline!Cardinality, Pipeline!IsFiniteSet, Cardinality, IsFiniteSet

\* A step that only moves what neither specification looks at is a stutter of
\* the pipeline.
LEMMA Stutters ==
    ASSUME UNCHANGED <<paramVersion, Generating, Ready, UsedNow>>,
           Taken' \ InHand' = Taken \ InHand
    PROVE  UNCHANGED Pipeline!pipelineVars
<1>1. PastNow' = PastNow
  BY DEF PastNow
<1> QED
  BY <1>1 DEF Pipeline!pipelineVars, PastNow

\* In particular one that leaves the samples alone.
LEMMA LeavesSamples ==
    ASSUME UNCHANGED <<paramVersion, Generating, InQueue, batch, trained, version, taken, hand>>
    PROVE  UNCHANGED Pipeline!pipelineVars
<1>1. UNCHANGED <<Ready, UsedNow, Taken, InHand>>
  BY DEF Ready, UsedNow, Taken, InHand
<1> QED
  BY <1>1, Stutters

\* What the invariant says of the pipeline's sets.
LEMMA PipelineSets ==
    ASSUME Before
    PROVE  /\ Interrupted = {} /\ Generating = Underway
           /\ Here = InHand \cup Generating \cup Ready
           /\ InHand \cap (Generating \cup Ready \cup trained) = {}
           /\ Generating \cap (Ready \cup trained) = {} /\ Ready \cap trained = {}
           /\ InQueue \cap batch = {}
           /\ InHand \cup Generating \cup Ready \cup trained \subseteq Taken
           /\ UsedNow \subseteq trained /\ Taken \subseteq Samples
<1>1. cancelQueue = <<>> /\ dropped = {}
  BY DEF Before, Rounds, Untouched
<1>2. Interrupted = {} /\ Generating = Underway
  BY <1>1 DEF Interrupted, Generating
<1>3. Here = InHand \cup Generating \cup Ready
  BY <1>2 DEF Here, Ready
<1>4. UsedNow \subseteq trained /\ Taken \subseteq Samples
  BY DEF UsedNow, Taken
<1> QED
  BY <1>1, <1>2, <1>3, <1>4 DEF Before, Placed, Apart, OnlyTaken, Spent, Ready

\* Submission begins a generation: the round has room for it.
LEMMA SubmitGenerates ==
    ASSUME Before, ProcSubmit, UNCHANGED trainVars
    PROVE  Pipeline!Generate(hand) /\ hand \in Samples
<1>1. Rounds /\ IInv /\ Placed /\ task \in [Samples -> TaskStates] /\ Processor
  BY DEF Before, Rounds, IInv, Tasks, Processor
<1>2. pc["proc"] = "submit" /\ hand \in Samples /\ ~paused
  BY <1>1 DEF ProcSubmit, Within, Rounds, Hands
<1>3. /\ task' = [task EXCEPT ![hand] = "start"] /\ hand' = NoSample
      /\ UNCHANGED <<taken, cancelQueue, queue, version, paramVersion, batch, trained>>
  BY <1>2 DEF ProcSubmit, countVars, mqVars, trainVars
<1>4. InHand = {hand} /\ InHand' = {} /\ Taken' = Taken
  BY <1>2, <1>3, Sizes DEF InHand, Taken
<1>5. /\ Interrupted = {} /\ Generating = Underway /\ Here = InHand \cup Generating \cup Ready
      /\ InHand \cap (Generating \cup Ready \cup trained) = {}
      /\ UsedNow \subseteq trained
  BY PipelineSets
<1>6. Generating' = Generating \cup {hand} /\ Ready' = Ready /\ UsedNow' = UsedNow
  <2>1. \A s \in Samples : task'[s] = IF s = hand THEN "start" ELSE task[s]
    BY <1>1, <1>2, <1>3
  <2>2. Underway' = Underway \cup {hand}
    BY <1>2, <2>1 DEF Underway, Live
  <2> QED
    BY <1>3, <1>5, <2>2 DEF Generating, Interrupted, Ready, InQueue, UsedNow
<1>7. PastNow' = PastNow
  BY <1>4, <1>6 DEF PastNow
<1>8. hand \in Samples \ ((Generating \cup Ready \cup UsedNow) \cup PastNow)
  BY <1>2, <1>4, <1>5 DEF PastNow
<1>9. Cardinality(Generating \cup Ready \cup UsedNow) < SamplesPerVersion
  <2> DEFINE b == UpTo(paramVersion)
             S == Generating \cup Ready \cup UsedNow
             R == (b + 1)..taken
             T == R \ {hand}
  <2>1. ~final /\ ~Counting
    <3>1. ~final
      BY <1>2, CallsSync DEF Over
    <3>2. ~Syncing
      BY <1>2, NothingTaken
    <3> QED
      BY <3>1, <3>2, CallsSync DEF Counting
  <2>2. /\ b \in Nat /\ MaxRequiredSamples \in Nat /\ SamplesPerVersion = MaxRequiredSamples
        /\ taken = b + staleness /\ staleness \in 0..MaxRequiredSamples
    <3>1. OnPolicy /\ paramVersion \in Nat
      BY DEF Before, Lagging, Versions
    <3>2. b \in Nat /\ MaxRequiredSamples \in Nat
      BY <3>1, RoundSizes
    <3> QED
      BY <1>1, <2>1, <3>1, <3>2 DEF OnPolicy, Rounds, Budget
  <2>3. hand = taken /\ hand > b
    BY <1>1, <1>2, <1>4, <2>1, Sizes DEF Rounds, Hands, InRound, Here
  <2>4. \A s \in S : s \in Samples /\ s <= taken /\ s > b /\ s # hand
    <3>1. \A s \in UsedNow : s > b
      BY <1>1, <2>1 DEF Rounds, InRound, UsedNow, Placed, OnlyTaken, Taken
    <3>2. \A s \in Generating \cup Ready : s > b
      BY <1>1, <1>5, <2>1 DEF Rounds, InRound
    <3>3. \A s \in S : s \in Taken /\ s # hand
      BY <1>4, <1>5, PipelineSets
    <3> QED
      BY <3>1, <3>2, <3>3, Sizes DEF Taken
  <2>5. S \in SUBSET T /\ hand \in R
    BY <2>2, <2>3, <2>4, Sizes
  <2> HIDE DEF b, S
  <2>6. IsFiniteSet(R) /\ Cardinality(R) = staleness
    <3>1. b + 1 \in Int /\ taken \in Int /\ (b + 1 > taken <=> staleness = 0)
          /\ taken - (b + 1) + 1 = staleness
      BY <2>2
    <3>2. IsFiniteSet(R) /\ Cardinality(R) = IF b + 1 > taken THEN 0 ELSE taken - (b + 1) + 1
      BY <3>1, FS_Interval
    <3> QED
      BY <3>1, <3>2
  <2>7. IsFiniteSet(T) /\ Cardinality(T) = staleness - 1
    BY <2>5, <2>6, FS_RemoveElement
  <2> HIDE DEF T
  <2>8. Cardinality(S) <= staleness - 1 /\ Cardinality(S) \in Nat
    BY <2>5, <2>7, FS_Subset, FS_CardinalityType
  <2> QED
    BY <2>2, <2>8 DEF S
<1> QED
  BY <1>2, <1>3, <1>6, <1>7, <1>8, <1>9, Countable DEF Pipeline!Generate, Pipeline!Started, PastNow

\* A sample that is put is complete; a task does nothing else to the pipeline.
LEMMA TaskCompletes ==
    ASSUME Before, NEW s \in Samples, Task(s), UNCHANGED trainVars
    PROVE  Pipeline!Complete(s) \/ UNCHANGED Pipeline!pipelineVars
<1>1. Rounds /\ IInv /\ task \in [Samples -> TaskStates] /\ Rounds'
  BY TaskRounds DEF Before, Rounds, IInv, Tasks
<1>2. /\ UNCHANGED <<taken, hand, paramVersion, batch, trained>>
      /\ cancelQueue = <<>> /\ cancelQueue' = <<>> /\ dropped = {} /\ dropped' = {}
  BY <1>1, TaskBecomes DEF Becomes, procVars, countVars, trainVars, Rounds, Untouched
<1>3. UNCHANGED <<Taken, InHand, Interrupted>>
  BY <1>2 DEF Taken, InHand, Interrupted
<1>4. CASE TaskPut(s)
  <2>1. /\ task[s] = "putting" /\ task' = [task EXCEPT ![s] = "put"] /\ PutSample(s)
        /\ version' = version
    BY <1>4 DEF TaskPut, Becomes
  <2>2. s \in Underway /\ Underway' = Underway \ {s}
    BY <1>1, <2>1 DEF Underway, Live
  <2>3. s \notin InQueue /\ InQueue \subseteq Samples
    BY <2>2 DEF Before, Placed, Apart, OnlyTaken, Taken
  <2>4. InQueue' = InQueue \cup {s}
    <3>1. PICK gone \in SUBSET (InQueue \cup {EndSignal}) :
            /\ InQueue' = (InQueue \ gone) \cup ({s} \ {EndSignal})
            /\ dropped' = dropped \cup gone
      BY <1>1, <2>1, <2>3, PutEntries DEF IInv, Before, Placed
    <3>2. gone = {} /\ s # EndSignal
      BY <1>2, <3>1, Sizes
    <3> QED
      BY <3>1, <3>2
  <2>5. /\ s \in Generating /\ Generating' = Generating \ {s} /\ Ready' = Ready \cup {s}
        /\ UsedNow' = UsedNow
    <3>1. Interrupted = {}
      BY PipelineSets
    <3> QED
      BY <1>2, <1>3, <2>1, <2>2, <2>4, <3>1 DEF Generating, Ready, UsedNow
  <2>6. PastNow' = PastNow
    BY <1>3, <2>5 DEF PastNow
  <2> QED
    BY <1>2, <2>5, <2>6 DEF Pipeline!Complete, PastNow
<1>5. CASE ~TaskPut(s)
  <2>1. ~TaskCancelled(s)
    BY <1>1 DEF TaskCancelled, Rounds, Untouched
  <2>2. queue' = queue /\ InQueue' = InQueue
    BY <1>5, <2>1 DEF Task, TaskStart, TaskArrive, TaskInterrupt, TaskGenerated, TaskReturn, mqVars,
                      InQueue
  <2>3. Generating' = Generating
    <3>1. /\ task' \in [Samples -> TaskStates] /\ \A x \in Samples \ {s} : task'[x] = task[x]
          /\ (task[s] \in {"none", "put"} <=> task'[s] \in {"none", "put"})
      BY <1>1, <1>5, <2>1 DEF Task, TaskStart, TaskArrive, TaskInterrupt, TaskGenerated, TaskReturn,
                              Becomes, TaskStates
    <3>2. Underway' = Underway
      BY <3>1 DEF Underway, Live
    <3> QED
      BY <1>3, <3>2 DEF Generating
  <2>4. UsedNow' = UsedNow
    <3>1. \A x \in trained : version'[x] = version[x]
      <4>1. CASE TaskGenerated(s)
        <5>1. version' = [version EXCEPT ![s] = paramVersion] /\ version \in [Samples -> Nat]
              /\ s \in Underway
          BY <4>1 DEF TaskGenerated, Before, Lagging, Versions, Underway, Live
        <5>2. s \notin trained /\ trained \subseteq Samples
          BY <5>1 DEF Before, Placed, Apart, OnlyTaken, Spent, Taken
        <5> QED
          BY <5>1, <5>2
      <4>2. CASE ~TaskGenerated(s)
        BY <1>5, <2>1, <4>2 DEF Task, TaskStart, TaskArrive, TaskInterrupt, TaskReturn
      <4> QED
        BY <4>1, <4>2
    <3> QED
      BY <1>2, <3>1 DEF UsedNow
  <2>5. Ready' = Ready
    BY <1>2, <2>2 DEF Ready
  <2> QED
    BY <1>2, <1>3, <2>3, <2>4, <2>5, Stutters
<1> QED
  BY <1>4, <1>5

\* No other step of the processor does anything to the pipeline.
LEMMA ProcessorPipes ==
    ASSUME Before, Unassigned, Processor, UNCHANGED trainVars
    PROVE  Pipeline!PipelineNext \/ UNCHANGED Pipeline!pipelineVars
<1>1. Rounds /\ IInv /\ Rounds' /\ pc \in [Coroutines -> Labels]
  BY ProcessorRounds DEF Before, Rounds, IInv, Locked
<1>2. /\ UNCHANGED <<version, paramVersion, batch, trained>>
      /\ cancelQueue = <<>> /\ cancelQueue' = <<>> /\ dropped = {} /\ dropped' = {}
  BY <1>1, ProcessorKeeps DEF Rounds, Untouched
<1>3. CASE ProcSubmit
  BY <1>3, SubmitGenerates DEF Pipeline!PipelineNext
<1>4. CASE ProcGet
  <2>1. /\ pc["proc"] = "get" /\ taken' = taken + 1 /\ hand' = taken + 1
        /\ UNCHANGED <<task, queue>>
    BY <1>4 DEF ProcGet, Take, At, taskVars, mqVars
  <2>2. UNCHANGED <<Generating, Ready, UsedNow>>
    BY <1>2, <2>1 DEF Generating, Underway, Live, Interrupted, Ready, InQueue, UsedNow
  <2>3. hand = NoSample /\ taken \in Nat
    BY <1>1, <2>1 DEF Rounds, Hands, IInv, Fed
  <2>4. Taken' \ InHand' = Taken \ InHand
    <3>1. 1..(taken + 1) = 1..taken \cup {taken + 1} /\ taken + 1 \notin 1..taken
      BY <2>3
    <3>2. InHand = {} /\ InHand' = {taken + 1} \cap Samples
      BY <2>1, <2>3, Sizes DEF InHand
    <3> QED
      BY <2>1, <3>1, <3>2 DEF Taken
  <2> QED
    BY <1>2, <2>2, <2>4, Stutters
<1>5. CASE Finish
  <2>1. PutSample(EndSignal) /\ UNCHANGED <<task, taken, hand>>
    BY <1>5 DEF Finish, procVars, taskVars
  <2>2. InQueue' = InQueue
    <3>1. EndSignal \notin InQueue /\ InQueue \subseteq Samples /\ EndSignal \notin Samples
      BY Sizes DEF Before, Placed, OnlyTaken, Taken, InQueue
    <3>2. PICK gone \in SUBSET (InQueue \cup {EndSignal}) :
            /\ InQueue' = (InQueue \ gone) \cup ({EndSignal} \ {EndSignal})
            /\ dropped' = dropped \cup gone
      BY <1>1, <2>1, <3>1, PutEntries DEF IInv, Before, Placed
    <3> QED
      BY <1>2, <3>2
  <2>3. Generating' = Generating
    BY <1>2, <2>1 DEF Generating, Underway, Live, Interrupted
  <2> QED
    BY <1>2, <2>1, <2>2, <2>3, LeavesSamples
<1>6. CASE \/ ProcTop \/ ProcMarkPaused \/ ProcReap \/ ProcReapLocked
           \/ ProcReapWait \/ ProcIdle \/ ProcNotified \/ Stop
  <2>1. UNCHANGED <<taken, hand, task, queue>>
    BY <1>2, <1>6 DEF ProcTop, ProcMarkPaused, ProcReap, ProcReapLocked, ProcReapWait, Reap, ProcIdle,
       ProcNotified, Stop, procVars, taskVars, mqVars
  <2>2. UNCHANGED <<Generating, InQueue>>
    BY <1>2, <2>1 DEF Generating, Underway, Live, Interrupted, InQueue
  <2> QED
    BY <1>2, <2>1, <2>2, LeavesSamples
<1> QED
  BY <1>3, <1>4, <1>5, <1>6 DEF Processor

\* The end signal discards an incomplete batch.
LEMMA CollectDiscards ==
    ASSUME Before, CollectSample
    PROVE  Pipeline!PipelineNext \/ UNCHANGED Pipeline!pipelineVars
<1>1. Rounds /\ IInv /\ Placed /\ Collects
  BY DEF Before, Rounds, Lagging
<1>2. /\ trainPc = "collect" /\ queue # <<>> /\ queue' = Tail(queue) /\ trained' = trained
      /\ UNCHANGED <<task, cancelQueue, taken, hand, version, paramVersion>>
  BY DEF CollectSample, GetSample, rolloutVars, procVars, taskVars, countVars
<1>3. UNCHANGED <<Generating, UsedNow, Taken, InHand>>
  BY <1>2 DEF Generating, Underway, Live, Interrupted, UsedNow, Taken, InHand
<1>4. /\ queue \in Seq(Samples \cup {EndSignal}) /\ Len(queue) \in Nat \ {0}
      /\ Head(queue) = queue[1] /\ 1 \in 1..Len(queue)
  BY <1>1, <1>2 DEF IInv, Queued
<1>5. InQueue' = InQueue \ {Head(queue)} /\ Head(queue) \in InQueue \cup {EndSignal}
  <2>1. Unrepeated(queue) /\ InQueue = Entries(queue) /\ InQueue' = Entries(queue')
    BY DEF Before, Placed, InQueue, Entries
  <2> QED
    BY <1>2, <1>4, <2>1, TailEntries
<1>6. CASE Head(queue) # EndSignal
  <2>1. batch' = batch \cup {Head(queue)} /\ Head(queue) \in InQueue
    BY <1>5, <1>6 DEF CollectSample
  <2>2. Ready' = Ready
    BY <1>5, <2>1 DEF Ready
  <2> QED
    BY <1>2, <1>3, <2>2, Stutters
<1>7. CASE Head(queue) = EndSignal
  <2>1. batch' = {} /\ pc["proc"] \in {"stop", "ended"} /\ Len(queue) = 1
    BY <1>1, <1>4, <1>7 DEF CollectSample, Rounds, Signalled
  <2>2. InQueue = {} /\ InQueue' = {}
    <3>1. DOMAIN queue = {1}
      BY <1>4, <2>1
    <3> QED
      BY <1>4, <1>5, <1>7, <3>1 DEF InQueue
  <2>3. Ready = batch /\ Ready' = {}
    BY <2>1, <2>2 DEF Ready
  <2>4. /\ Live = {} /\ hand = Done /\ taken = Done
    <3>1. Over
      BY <2>1 DEF Over
    <3> QED
      BY <1>1, <3>1, Sizes DEF Rounds, Signalled, Hands
  <2>5. Generating = {} /\ InHand = {} /\ Taken = Samples
    <3>1. Underway = {} /\ InHand = {} /\ Taken = Samples
      BY <2>4, Sizes DEF Underway, InHand, Taken
    <3> QED
      BY <3>1, PipelineSets
  <2>6. (Generating \cup Ready \cup UsedNow) \cup PastNow = Samples
    <3>1. Generating \cup Ready \cup UsedNow \subseteq Samples
      BY PipelineSets
    <3> QED
      BY <2>5, <3>1 DEF PastNow
  <2>7. Cardinality(Ready) < RequiredSamples
    BY <1>1, <1>2, <2>3 DEF Collects
  <2>8. PastNow' = PastNow \cup Ready
    <3>1. Ready \subseteq Taken /\ Ready \cap (InHand \cup Generating \cup UsedNow) = {}
      BY PipelineSets
    <3> QED
      BY <1>3, <2>3, <3>1 DEF PastNow
  <2>9. Pipeline!Discard
    BY <1>2, <1>3, <2>3, <2>5, <2>6, <2>7, <2>8, Countable
       DEF Pipeline!Discard, Pipeline!Started, PastNow
  <2> QED
    BY <2>9 DEF Pipeline!PipelineNext
<1> QED
  BY <1>6, <1>7

\* A batch is trained.
LEMMA BatchTrains ==
    ASSUME Before, TrainStep
    PROVE  Pipeline!PipelineNext
<1>1. Rounds /\ IInv /\ Placed /\ Collects
  BY DEF Before, Rounds, Lagging
<1>2. /\ trainPc = "train" /\ trained' = trained \cup batch /\ batch' = {}
      /\ UNCHANGED <<queue, task, cancelQueue, taken, hand, version, paramVersion>>
  BY DEF TrainStep, rolloutVars, procVars, taskVars, countVars, mqVars
<1>3. UNCHANGED <<Generating, InQueue, Taken, InHand>>
  BY <1>2 DEF Generating, Underway, Live, Interrupted, InQueue, Taken, InHand
<1>4. \A s \in batch : version[s] = paramVersion
  BY <1>2, BatchCounts
<1>5. UsedNow' = UsedNow \cup batch
  BY <1>2, <1>4 DEF UsedNow
<1>6. batch \in SUBSET Ready /\ Ready' = Ready \ batch
  <2>1. InQueue \cap batch = {}
    BY PipelineSets
  <2> QED
    BY <1>2, <1>3, <2>1 DEF Ready
<1>7. PastNow' = PastNow
  BY <1>3, <1>5, <1>6 DEF PastNow
<1>8. Cardinality(batch) = RequiredSamples
  BY <1>1, <1>2 DEF Collects
<1>9. Pipeline!Train(batch)
  BY <1>2, <1>3, <1>5, <1>6, <1>7, <1>8, Countable DEF Pipeline!Train, PastNow
<1> QED
  BY <1>6, <1>9 DEF Pipeline!PipelineNext

\* The version changes when the round is full, or the data are used up.
LEMMA UpdateNextRound ==
    ASSUME Before, UpdateCount(syncVersion), UNCHANGED trainVars
    PROVE  Pipeline!NextRound
<1>1. Rounds /\ IInv /\ Placed
  BY DEF Before, Rounds
<1>2. /\ pc["update"] = "lock" /\ paramVersion' = syncVersion
      /\ UNCHANGED <<queue, batch, trained, task, cancelQueue, taken, hand, version>>
  BY DEF UpdateCount, CountTasks, Within, procVars, taskVars, mqVars, trainVars
<1>3. UNCHANGED <<Generating, Ready, Taken, InHand>>
  BY <1>2 DEF Generating, Underway, Live, Interrupted, Ready, InQueue, Taken, InHand
<1>4. /\ pc["resume"] = "called" /\ Syncing /\ trainPc \notin {"pause", "copy"}
  <2>1. pc["resume"] = "called"
    BY <1>2, CallsSync
  <2> QED
    BY <2>1, CallsSync
<1>5. /\ paramVersion' = paramVersion + 1 /\ paramVersion \in Nat
      /\ trainPc = "collect" => trainVersion = paramVersion + 1
  BY <1>2, <1>4 DEF Before, Lagging, Versions, Pending
<1>6. CASE ~final
  <2>1. /\ Here = {} /\ taken = UpTo(trainVersion) /\ trainPc = "collect" /\ ~EndSeen
    BY <1>1, <1>4, <1>6 DEF Rounds, Quiet, EndSeen
  <2>2. Generating = {} /\ Ready = {} /\ InHand = {}
    BY <2>1, PipelineSets
  <2>3. trained = Taken
    <3>1. dropped = {} /\ Interrupted = {}
      BY <1>1, PipelineSets DEF Rounds, Untouched
    <3>2. InHand = {} /\ Underway = {} /\ InQueue = {} /\ batch = {}
      BY <2>1 DEF Here
    <3>3. trained \subseteq Taken
      BY PipelineSets
    <3>4. Taken \subseteq trained
      BY <1>1, <2>1, <3>1, <3>2 DEF Placed, Covered, Spent
    <3> QED
      BY <3>3, <3>4
  <2> DEFINE b == UpTo(paramVersion)
             R == (b + 1)..taken
  <2>4. /\ b \in Nat /\ MaxRequiredSamples \in Nat \ {0} /\ SamplesPerVersion = MaxRequiredSamples
        /\ taken = b + MaxRequiredSamples
    <3>1. OnPolicy
      BY DEF Before
    <3>2. UpTo(trainVersion) = UpTo(paramVersion + 1)
      BY <1>5, <2>1
    <3> QED
      BY <1>5, <2>1, <3>1, <3>2, RoundSizes DEF OnPolicy
  <2>5. taken \in Samples
    <3>1. taken # Done
      BY <1>1, <1>4, <1>6, Sizes DEF Rounds, Quiet, Hands
    <3> QED
      BY <1>1, <2>4, <3>1, Sizes DEF IInv, Fed
  <2>6. UsedNow = R
    <3>1. UsedNow = {s \in Taken : s > b}
      BY <1>1, <1>6, <2>3 DEF Rounds, InRound, UsedNow
    <3> QED
      BY <2>4, <2>5, <3>1, Sizes DEF Taken
  <2> HIDE DEF b
  <2>7. Cardinality(R) = MaxRequiredSamples
    <3>1. b + 1 \in Int /\ taken \in Int /\ ~(b + 1 > taken)
          /\ taken - (b + 1) + 1 = MaxRequiredSamples
      BY <2>4
    <3>2. Cardinality(R) = IF b + 1 > taken THEN 0 ELSE taken - (b + 1) + 1
      BY <3>1, FS_Interval
    <3> QED
      BY <3>1, <3>2
  <2> QED
    <3>1. Cardinality(UsedNow) = SamplesPerVersion
      BY <2>4, <2>6, <2>7
    <3>2. UsedNow' = {} /\ PastNow' = PastNow \cup UsedNow
      <4>1. \A s \in trained : version'[s] # paramVersion'
        <5>1. \A s \in trained : version[s] \in Nat /\ version[s] <= paramVersion
          BY <1>1 DEF Rounds, InRound, Before, Lagging, Versions, Placed, OnlyTaken, Taken
        <5> QED
          BY <1>2, <1>5, <5>1
      <4>2. UsedNow' = {}
        BY <1>2, <4>1 DEF UsedNow
      <4> QED
        BY <1>3, <2>2, <4>2, PipelineSets DEF PastNow
    <3> QED
      BY <1>3, <1>5, <2>2, <3>1, <3>2, Countable DEF Pipeline!NextRound, PastNow
<1>7. CASE final
  <2>1. Over /\ EndSeen
    BY <1>7, CallsSync
  <2>2. Live = {} /\ hand = Done /\ taken = Done /\ queue = <<>> /\ batch = {}
    BY <1>1, <2>1, Sizes DEF Rounds, Signalled, Hands
  <2>3. Generating = {} /\ Ready = {} /\ InHand = {} /\ Taken = Samples
    <3>1. Underway = {} /\ InQueue = {} /\ InHand = {} /\ Taken = Samples
      BY <2>2, Sizes DEF Underway, InQueue, InHand, Taken
    <3> QED
      BY <2>2, <3>1, PipelineSets DEF Ready
  <2>4. UsedNow \subseteq Samples
    BY PipelineSets
  <2>5. UsedNow \cup PastNow = Samples
    BY <2>3, <2>4 DEF PastNow
  <2>6. UsedNow' = {} /\ PastNow' = PastNow \cup UsedNow
    <3>1. \A s \in trained : version'[s] # paramVersion'
      <4>1. \A s \in trained : version[s] \in Nat /\ version[s] <= paramVersion
        BY <1>1 DEF Rounds, InRound, Before, Lagging, Versions, Placed, OnlyTaken, Taken
      <4> QED
        BY <1>2, <1>5, <4>1
    <3>2. UsedNow' = {}
      BY <1>2, <3>1 DEF UsedNow
    <3> QED
      BY <1>3, <2>3, <2>4, <3>2 DEF PastNow
  <2> QED
    BY <1>3, <1>5, <2>3, <2>5, <2>6, Countable DEF Pipeline!NextRound, PastNow
<1> QED
  BY <1>6, <1>7

\* Monitor, pause, resume and the rest of update_param_version are stutters.
LEMMA OthersPipe ==
    ASSUME Before, Monitor \/ Pause \/ Update(syncVersion) \/ Resume, UNCHANGED trainVars
    PROVE  Pipeline!PipelineNext \/ UNCHANGED Pipeline!pipelineVars
<1>1. IInv
  BY DEF Before
<1>2. UNCHANGED <<taken, hand, task, version, cancelQueue, queue, batch, trained>>
  BY <1>1, OthersKeep
<1>3. UNCHANGED <<Generating, InQueue>>
  BY <1>2 DEF Generating, Underway, Live, Interrupted, InQueue
<1>4. CASE UpdateCount(syncVersion)
  BY <1>4, UpdateNextRound DEF Pipeline!PipelineNext
<1>5. CASE ~UpdateCount(syncVersion)
  <2>1. paramVersion' = paramVersion
    <3>1. CASE Monitor
      BY <3>1 DEF Monitor, MonitorTop, MonitorCheckRunning, MonitorWake, MonitorRecover, countVars
    <3>2. CASE Pause
      BY <3>2 DEF Pause, PauseLock, PauseSet, PauseCancel, PauseGather, PauseReturn, countVars
    <3>3. CASE Update(syncVersion)
      BY <1>5, <3>3 DEF Update, UpdateLock, UpdateSize, UpdateReturn, UpdateEnds, countVars
    <3>4. CASE Resume
      BY <3>4 DEF Resume, ResumeLock, ResumeServers, ResumeReturn, countVars
    <3> QED
      BY <3>1, <3>2, <3>3, <3>4
  <2> QED
    BY <1>2, <1>3, <2>1, LeavesSamples
<1> QED
  BY <1>4, <1>5

\* Every step of the recipe is a step of the pipeline or a stutter.
LEMMA NextPipes ==
    ASSUME OnPolicy
    PROVE  RoundInv /\ [Next]_vars => [Pipeline!PipelineNext]_Pipeline!pipelineVars
<1> SUFFICES ASSUME RoundInv, [Next]_vars
             PROVE  Pipeline!PipelineNext \/ UNCHANGED Pipeline!pipelineVars
  OBVIOUS
<1>1. Before /\ Unassigned
  BY NeverUnassigned DEF RoundInv, Before
<1>2. CASE (Feed /\ UNCHANGED trainVars) \/ UNCHANGED vars
  <2>1. UNCHANGED <<taken, hand, task, version, cancelQueue, queue, batch, trained, paramVersion>>
    BY <1>2 DEF Feed, vars, rolloutVars, procVars, taskVars, countVars, mqVars, trainVars
  <2>2. UNCHANGED <<Generating, InQueue>>
    BY <2>1 DEF Generating, Underway, Live, Interrupted, InQueue
  <2> QED
    BY <2>1, <2>2, LeavesSamples
<1>3. CASE Processor /\ UNCHANGED trainVars
  BY <1>1, <1>3, ProcessorPipes
<1>4. CASE (Monitor \/ Pause \/ Update(syncVersion) \/ Resume) /\ UNCHANGED trainVars
  BY <1>1, <1>4, OthersPipe
<1>5. CASE (\E s \in Samples : Task(s)) /\ UNCHANGED trainVars
  BY <1>1, <1>5, TaskCompletes DEF Pipeline!PipelineNext
<1>6. CASE CollectSample \/ TrainStep
  BY <1>1, <1>6, CollectDiscards, BatchTrains
<1>7. CASE FinalSync \/ SyncWeights \/ TrainEnd
  <2>1. UNCHANGED <<taken, hand, task, version, cancelQueue, queue, batch, trained, paramVersion>>
    BY <1>7 DEF FinalSync, SyncWeights, SyncPause, SyncStart, SyncEnd, SyncFrame, TrainEnd, rolloutVars,
                procVars, taskVars, countVars, mqVars
  <2>2. UNCHANGED <<Generating, InQueue>>
    BY <2>1 DEF Generating, Underway, Live, Interrupted, InQueue
  <2> QED
    BY <2>1, <2>2, LeavesSamples
<1> QED
  BY <1>2, <1>3, <1>4, <1>5, <1>6, <1>7 DEF Next, Rollouter, Trainer, Ended

(***************************************************************************)
(* With staleness_threshold = 0 the rollouter, its pause and resume, the   *)
(* message queue and the trainer implement RolloutPipeline: a round        *)
(* generates the samples its batches need and no more, all of them are     *)
(* trained (or, at the end of the data, discarded) before the parameters   *)
(* change, and none crosses a change of parameters.                        *)
(***************************************************************************)
THEOREM RoundsImplementPipeline == ASSUME OnPolicy PROVE Spec => ImplementsPipeline
<1>1. Init => Pipeline!PipelineInit
  <2> SUFFICES ASSUME Init PROVE Pipeline!PipelineInit
    OBVIOUS
  <2> USE DEF Init, RolloutInit, MQInit, TrainInit
  <2>1. /\ Generating = {} /\ Ready = {} /\ UsedNow = {} /\ Taken = {}
    BY DEF Generating, Underway, Live, Interrupted, Ready, InQueue, UsedNow, Taken
  <2> QED
    BY <2>1 DEF Pipeline!PipelineInit
<1>2. RoundInv /\ [Next]_vars => [Pipeline!PipelineNext]_Pipeline!pipelineVars
  BY NextPipes
<1>3. RoundInv /\ [Next]_vars => RoundInv'
  BY NextRoundInv
<1> QED
  BY <1>1, <1>2, <1>3, InitRoundInv, PTL DEF Spec, ImplementsPipeline, Pipeline!PipelineSpec

=============================================================================
