------------------------ MODULE FullyAsyncRollouter ------------------------
(***************************************************************************)
(* The rollouter actor of the fully-async recipe.  Its coroutines share    *)
(* one event loop: a coroutine runs until it suspends (cpu names the one   *)
(* that is in the middle of such a run), and self.lock is an asyncio.Lock, *)
(* first come first served, held across awaits.  Generation and the        *)
(* message queue belong to other processes and run beside the loop.        *)
(***************************************************************************)
EXTENDS MessageQueue, FiniteSets

CONSTANTS
    TotalRolloutSteps,     \* how many samples the feeder submits
    PendingSize,           \* maxsize of pending_queue
    MaxConcurrentSamples,
    MaxRequiredSamples,
    PartialRollout

ASSUME RollouterAssumption ==
    /\ TotalRolloutSteps \in Nat \ {0} /\ PendingSize \in Nat \ {0}
    /\ MaxRequiredSamples \in Nat \ {0}
    /\ MaxConcurrentSamples \in 1..MaxRequiredSamples
    /\ PartialRollout \in BOOLEAN

VARIABLES
    cpu,             \* the coroutine in the middle of a run, or "none"
    lock,            \* the holder of self.lock and, behind it, its waiters
    pc,              \* where each coroutine stands
    fed,             \* entries the feeder has put: samples, then "DONE"
    taken,           \* entries the processor has got; pending_queue is taken+1..fed
    loop, hand,      \* _processor_worker: which reaping loop, its rollout_sample,
    bound,           \* and "done_tasks is assigned"
    cancelQueue,
    task,            \* per sample, the state of its unfinished task or "none"
    finished,        \* tasks of active_tasks that are over but not yet reaped
    version,         \* per sample, param_version: that of the end of its generation
    paused, trigger, running,  \* self.paused, monitor_loop_trigger, running
    serverPaused,    \* the rollout servers refuse and interrupt requests
    paramVersion, staleness,   \* current_param_version, staleness_samples
    counted          \* update_param_version: the sum so far

loopVars == <<cpu, lock, pc>>
procVars == <<fed, taken, loop, hand, bound>>
taskVars == <<task, finished, version, cancelQueue>>
flagVars == <<paused, trigger, running, serverPaused>>
countVars == <<paramVersion, staleness, counted>>
rolloutVars == <<loopVars, procVars, taskVars, flagVars, countVars>>

Samples == 1..TotalRolloutSteps
Done == TotalRolloutSteps + 1   \* the entry "DONE" of pending_queue
NoSample == 0

Live == {s \in Samples : task[s] # "none"}
ActiveTasks == Cardinality(Live) + finished   \* len(self.active_tasks)

-----------------------------------------------------------------------------
(* The event loop and the lock                                             *)

Runs(c) == cpu \in {"none", c}
Holds(c) == Runs(c) /\ lock # <<>> /\ Head(lock) = c

At(c, l) == pc[c] = l /\ Runs(c)
Within(c, l) == pc[c] = l /\ Holds(c)   \* with the lock

Goto(c, l) == pc' = [pc EXCEPT ![c] = l]
Continues(c, l) == Goto(c, l) /\ cpu' = c /\ UNCHANGED lock
Suspends(c, l) == Goto(c, l) /\ cpu' = "none" /\ UNCHANGED lock

\* A coroutine that asks for a free lock keeps running, else it queues up.
Acquires(c, l) ==
    /\ Goto(c, l)
    /\ lock' = Append(lock, c)
    /\ cpu' = IF lock = <<>> THEN c ELSE "none"

\* After it gives the lock up it runs on, or suspends if next is "none".
Releases(c, l, next) == Goto(c, l) /\ lock' = Tail(lock) /\ cpu' = next

\* Mutation: the notification is lost.
NotifiedBug(p) == p

\* condition.notify_all(): only the processor ever waits on the condition.
Notified(p) == IF p["proc"] = "idle" THEN [p EXCEPT !["proc"] = "notified"] ELSE p

-----------------------------------------------------------------------------
RolloutInit ==
    /\ cpu = "none" /\ lock = <<>>
    /\ pc = [c \in {"proc", "monitor", "pause", "update", "resume"} |->
               IF c \in {"proc", "monitor"} THEN "top" ELSE "off"]
    /\ fed = 0 /\ taken = 0
    /\ loop = "drain" /\ hand = NoSample /\ bound = FALSE
    /\ cancelQueue = <<>> /\ finished = 0
    /\ task = [s \in Samples |-> "none"] /\ version = [s \in Samples |-> 0]
    /\ paused = FALSE /\ trigger = TRUE /\ running = TRUE /\ serverPaused = FALSE
    /\ paramVersion = 0 /\ staleness = 0 /\ counted = 0

ShouldPauseGeneration ==
    Len(queue) >= MaxQueueSize \/ staleness >= MaxRequiredSamples

\* How far the feeder can go before the pending queue is full.
FeedLimit == IF taken + PendingSize < Done THEN taken + PendingSize ELSE Done

\* _feed_samples fills the pending queue without suspending, then "DONE".
Feed ==
    /\ Runs("feed") /\ fed < FeedLimit
    /\ fed' = FeedLimit
    /\ UNCHANGED <<loopVars, taken, loop, hand, bound, taskVars, flagVars>>
    /\ UNCHANGED <<countVars, mqVars>>

-----------------------------------------------------------------------------
(* _processor_worker                                                       *)

\* The head of the loop: pause, or take an interrupted sample, or a new one.
ProcTop ==
    /\ At("proc", "top")
    /\ \/ /\ paused \/ ShouldPauseGeneration
          /\ Acquires("proc", "mark")
          /\ UNCHANGED <<hand, loop, cancelQueue>>
       \/ /\ ~paused /\ ~ShouldPauseGeneration /\ cancelQueue # <<>>
          /\ hand' = Head(cancelQueue) /\ cancelQueue' = Tail(cancelQueue)
          /\ loop' = "limit" /\ Continues("proc", "reap")
       \/ /\ ~paused /\ ~ShouldPauseGeneration /\ cancelQueue = <<>>
          /\ IF taken < fed THEN Continues("proc", "get") ELSE Suspends("proc", "get")
          /\ UNCHANGED <<hand, loop, cancelQueue>>
    /\ UNCHANGED <<fed, taken, bound, task, finished, version, flagVars>>
    /\ UNCHANGED <<countVars, mqVars>>

Take ==
    /\ At("proc", "get") /\ taken < fed
    /\ taken' = taken + 1
    /\ hand' = taken + 1
    /\ loop' = IF taken + 1 = Done THEN "end" ELSE "limit"
    /\ Continues("proc", "reap")
    /\ UNCHANGED <<fed, bound, taskVars, flagVars, paramVersion, counted, mqVars>>

\* Mutation: the sample is not counted.
ProcGetBug == Take /\ UNCHANGED staleness

\* pending_queue.get() returns; staleness_samples counts the sample.
ProcGet == Take /\ staleness' = staleness + 1

ProcMarkPaused ==
    /\ Within("proc", "mark")
    /\ paused' = TRUE
    /\ loop' = "drain" /\ Releases("proc", "reap", "proc")
    /\ UNCHANGED <<fed, taken, hand, bound, taskVars, trigger, running, serverPaused>>
    /\ UNCHANGED <<countVars, mqVars>>

\* Mutation: off by one at the limit.
KeepsReapingBug ==
    IF loop = "limit" THEN ActiveTasks > MaxConcurrentSamples ELSE ActiveTasks > 0

\* The three loops that wait for tasks: their test, and what follows them.
KeepsReaping ==
    IF loop = "limit" THEN ActiveTasks >= MaxConcurrentSamples ELSE ActiveTasks > 0

ProcReap ==
    /\ At("proc", "reap")
    /\ \/ KeepsReaping /\ Acquires("proc", "reapLock")
       \/ ~KeepsReaping /\ loop = "drain" /\ Acquires("proc", "idleLock")
       \/ ~KeepsReaping /\ loop = "limit" /\ Acquires("proc", "submit")
       \/ ~KeepsReaping /\ loop = "end" /\ Suspends("proc", "finish")
    /\ UNCHANGED <<procVars, taskVars, flagVars, countVars, mqVars>>

\* With the lock: asyncio.wait, unless active_tasks is empty by now; then
\* done_tasks keeps what the last wait left in it, or was never assigned.
ProcReapLocked ==
    /\ Within("proc", "reapLock")
    /\ \/ ActiveTasks > 0 /\ Suspends("proc", "reapWait")
       \/ ActiveTasks = 0 /\ bound /\ Releases("proc", "reap", "proc")
       \/ ActiveTasks = 0 /\ ~bound /\ Releases("proc", "finish", "none")
    /\ UNCHANGED <<procVars, taskVars, flagVars, countVars, mqVars>>

Reap ==
    /\ Within("proc", "reapWait") /\ finished > 0
    /\ finished' = 0
    /\ Releases("proc", "reap", "proc")
    /\ UNCHANGED <<fed, taken, loop, hand, task, version, cancelQueue, flagVars>>
    /\ UNCHANGED <<countVars, mqVars>>

\* Mutation: done_tasks does not outlive the loop.
ProcReapWaitBug == Reap /\ bound' = FALSE

ProcReapWait == Reap /\ bound' = TRUE

\* condition.wait() gives the lock up; a notified processor asks for it again.
ProcIdle ==
    /\ Within("proc", "idleLock")
    /\ IF paused THEN Releases("proc", "idle", "none") ELSE Releases("proc", "top", "proc")
    /\ UNCHANGED <<procVars, taskVars, flagVars, countVars, mqVars>>

ProcNotified ==
    /\ At("proc", "notified")
    /\ Acquires("proc", IF hand = NoSample THEN "idleLock" ELSE "submit")
    /\ UNCHANGED <<procVars, taskVars, flagVars, countVars, mqVars>>

\* asyncio.create_task, under the lock and never while paused.
ProcSubmit ==
    /\ Within("proc", "submit")
    /\ \/ /\ paused /\ Releases("proc", "idle", "none")
          /\ UNCHANGED <<hand, task>>
       \/ /\ ~paused /\ Releases("proc", "top", "proc")
          /\ task' = [task EXCEPT ![hand] = "start"]
          /\ hand' = NoSample
    /\ UNCHANGED <<fed, taken, loop, bound, finished, version, cancelQueue, flagVars>>
    /\ UNCHANGED <<countVars, mqVars>>

\* _streaming_generation_main, behind the processor: put_sample(None), then
\* running = False.
Finish ==
    /\ At("proc", "finish")
    /\ PutSample(EndSignal)
    /\ Acquires("proc", "stop")
    /\ UNCHANGED <<procVars, taskVars, flagVars, countVars>>

Stop ==
    /\ Within("proc", "stop")
    /\ running' = FALSE
    /\ Releases("proc", "ended", "none")
    /\ UNCHANGED <<procVars, taskVars, paused, trigger, serverPaused, countVars, mqVars>>

Processor ==
    \/ ProcTop \/ ProcGet \/ ProcMarkPaused \/ ProcReap \/ ProcReapLocked
    \/ ProcReapWait \/ ProcIdle \/ ProcNotified \/ ProcSubmit \/ Finish \/ Stop

-----------------------------------------------------------------------------
(* _process_single_sample_streaming, one task per sample                   *)

Becomes(s, state) ==
    /\ task' = [task EXCEPT ![s] = state]
    /\ finished' = finished + (IF state = "none" THEN 1 ELSE 0)
    /\ UNCHANGED <<loopVars, procVars, flagVars, countVars>>

Resumes == cpu = "none"   \* the coroutine of the task gets the event loop

TaskStart(s) ==
    /\ task[s] = "start" /\ Resumes
    /\ Becomes(s, "sent") /\ UNCHANGED <<version, cancelQueue, mqVars>>

\* generate_for_partial: a paused server refuses a request and interrupts
\* those it has; both come back to the task as is_cancel.
TaskArrive(s) ==
    /\ task[s] = "sent"
    /\ Becomes(s, IF serverPaused THEN "interrupted" ELSE "generating")
    /\ UNCHANGED <<version, cancelQueue, mqVars>>

TaskInterrupt(s) ==
    /\ task[s] = "generating" /\ serverPaused
    /\ Becomes(s, "interrupted") /\ UNCHANGED <<version, cancelQueue, mqVars>>

TaskGenerated(s) ==
    /\ task[s] = "generating" /\ Resumes
    /\ version' = [version EXCEPT ![s] = paramVersion]
    /\ Becomes(s, "putting") /\ UNCHANGED <<cancelQueue, mqVars>>

\* put_sample runs in the message queue's process, whoever has the loop.
TaskPut(s) ==
    /\ task[s] = "putting"
    /\ PutSample(s)
    /\ Becomes(s, "put") /\ UNCHANGED <<version, cancelQueue>>

TaskReturn(s) ==
    /\ task[s] = "put" /\ Resumes
    /\ Becomes(s, "none") /\ UNCHANGED <<version, cancelQueue, mqVars>>

\* Mutation: the interrupted sample is not put back.
TaskCancelledBug(s) ==
    /\ task[s] = "interrupted" /\ Resumes
    /\ Becomes(s, "none") /\ UNCHANGED <<version, cancelQueue, mqVars>>

\* is_cancel: the sample goes back, with what was generated so far.
TaskCancelled(s) ==
    /\ task[s] = "interrupted" /\ Resumes
    /\ cancelQueue' = Append(cancelQueue, s)
    /\ Becomes(s, "none") /\ UNCHANGED <<version, mqVars>>

Task(s) ==
    \/ TaskStart(s) \/ TaskArrive(s) \/ TaskInterrupt(s)
    \/ TaskGenerated(s) \/ TaskPut(s) \/ TaskReturn(s) \/ TaskCancelled(s)

-----------------------------------------------------------------------------
(* _async_monitor_loop                                                     *)

MonitorTop ==
    /\ At("monitor", "top")
    /\ Acquires("monitor", "topLock")
    /\ UNCHANGED <<procVars, taskVars, flagVars, countVars, mqVars>>

MonitorCheckRunning ==
    /\ Within("monitor", "topLock")
    /\ Releases("monitor", IF running THEN "sleep" ELSE "ended", "none")
    /\ UNCHANGED <<procVars, taskVars, flagVars, countVars, mqVars>>

\* After the sleep: the two tests come before the lock is asked for.
MonitorWake ==
    /\ At("monitor", "sleep")
    /\ IF trigger /\ ~ShouldPauseGeneration
       THEN Acquires("monitor", "recover")
       ELSE Continues("monitor", "top")
    /\ UNCHANGED <<procVars, taskVars, flagVars, countVars, mqVars>>

MonitorRecover ==
    /\ Within("monitor", "recover")
    /\ paused' = FALSE
    /\ pc' = [Notified(pc) EXCEPT !["monitor"] = "top"]
    /\ lock' = Tail(lock) /\ cpu' = "monitor"
    /\ UNCHANGED <<procVars, taskVars, trigger, running, serverPaused, countVars, mqVars>>

Monitor == MonitorTop \/ MonitorCheckRunning \/ MonitorWake \/ MonitorRecover

-----------------------------------------------------------------------------
(* The remote calls of the parameter synchronizer                          *)

PauseLock ==
    /\ At("pause", "called")
    /\ Acquires("pause", "lock")
    /\ UNCHANGED <<procVars, taskVars, flagVars, countVars, mqVars>>

\* With partial_rollout the rollout servers are told to interrupt.
PauseSet ==
    /\ Within("pause", "lock")
    /\ paused' = TRUE
    /\ Suspends("pause", IF PartialRollout THEN "cancel" ELSE "gather")
    /\ UNCHANGED <<procVars, taskVars, trigger, running, serverPaused, countVars, mqVars>>

PauseCancel ==
    /\ Within("pause", "cancel")
    /\ serverPaused' = TRUE
    /\ Suspends("pause", "gather")
    /\ UNCHANGED <<procVars, taskVars, paused, trigger, running, countVars, mqVars>>

\* gather(*active_tasks), active_tasks.clear(), then clear_kv_cache.
PauseGather ==
    /\ Within("pause", "gather") /\ Live = {}
    /\ finished' = 0
    /\ Suspends("pause", "clear")
    /\ UNCHANGED <<procVars, task, version, cancelQueue, flagVars, countVars, mqVars>>

PauseReturn ==
    /\ Within("pause", "clear")
    /\ trigger' = FALSE
    /\ Releases("pause", "off", "none")
    /\ UNCHANGED <<procVars, taskVars, paused, running, serverPaused, countVars, mqVars>>

Pause == PauseLock \/ PauseSet \/ PauseCancel \/ PauseGather \/ PauseReturn

UpdateLock ==
    /\ At("update", "called")
    /\ Acquires("update", "lock")
    /\ UNCHANGED <<procVars, taskVars, flagVars, countVars, mqVars>>

CountTasks ==
    /\ Within("update", "lock")
    /\ counted' = ActiveTasks + Len(cancelQueue)
    /\ Suspends("update", "size")
    /\ UNCHANGED <<procVars, taskVars, flagVars, staleness, mqVars>>

\* Mutation: the rollouter keeps its old version.
UpdateCountBug(v) == CountTasks /\ UNCHANGED paramVersion

\* Tasks and interrupted samples are counted before the queue is asked.
UpdateCount(v) == CountTasks /\ paramVersion' = v

\* get_queue_size runs in the message queue's process.
UpdateSize ==
    /\ pc["update"] = "size"
    /\ counted' = counted + Len(queue)
    /\ Goto("update", "sized") /\ UNCHANGED <<cpu, lock>>
    /\ UNCHANGED <<procVars, taskVars, flagVars, paramVersion, staleness, mqVars>>

UpdateEnds ==
    /\ Within("update", "sized")
    /\ counted' = 0
    /\ Releases("update", "off", "none")
    /\ UNCHANGED <<procVars, taskVars, flagVars, paramVersion, mqVars>>

\* Mutation: the budget is not reset.
UpdateReturnBug == UpdateEnds /\ UNCHANGED staleness

UpdateReturn == UpdateEnds /\ staleness' = counted

Update(v) == UpdateLock \/ UpdateCount(v) \/ UpdateSize \/ UpdateReturn

\* Ray starts resume when the reference to update_param_version is ready.
ResumeLock ==
    /\ At("resume", "called") /\ pc["update"] = "off"
    /\ Acquires("resume", "lock")
    /\ UNCHANGED <<procVars, taskVars, flagVars, countVars, mqVars>>

ResumeServers ==
    /\ Within("resume", "lock") /\ PartialRollout
    /\ serverPaused' = FALSE
    /\ Suspends("resume", "servers")
    /\ UNCHANGED <<procVars, taskVars, paused, trigger, running, countVars, mqVars>>

ResumeReturn ==
    /\ Within("resume", IF PartialRollout THEN "servers" ELSE "lock")
    /\ paused' = FALSE /\ trigger' = TRUE
    /\ pc' = [Notified(pc) EXCEPT !["resume"] = "off"]
    /\ lock' = Tail(lock) /\ cpu' = "none"
    /\ UNCHANGED <<procVars, taskVars, running, serverPaused, countVars, mqVars>>

Resume == ResumeLock \/ ResumeServers \/ ResumeReturn

-----------------------------------------------------------------------------
(* What the loop does by itself, against what it does when a timer fires   *)
(* or another process answers or calls.  The answer to put_sample counts   *)
(* as the loop's own.                                                      *)

Internal(v) ==
    \/ Feed \/ Processor
    \/ MonitorTop \/ MonitorCheckRunning \/ MonitorRecover
    \/ PauseSet \/ PauseGather \/ UpdateCount(v) \/ ResumeServers
    \/ ~PartialRollout /\ ResumeReturn
    \/ \E s \in Samples : TaskStart(s) \/ TaskReturn(s)

\* Some coroutine is ready: what it waited for has happened.
Busy ==
    \/ cpu # "none"
    \/ fed < FeedLimit
    \/ pc["proc"] \in {"top", "notified", "finish", "reap"}
    \/ pc["proc"] = "get" /\ taken < fed
    \/ pc["monitor"] = "top"
    \/ \E s \in Samples : task[s] \in {"start", "put"}
    \/ /\ lock # <<>>
       /\ \/ Head(lock) = "proc" /\ (pc["proc"] = "reapWait" => finished > 0)
          \/ Head(lock) = "monitor"
          \/ Head(lock) \in {"pause", "update", "resume"} /\ pc[Head(lock)] = "lock"
          \/ Head(lock) = "pause" /\ pc["pause"] = "gather" /\ Live = {}

=============================================================================
