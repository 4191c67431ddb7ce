---------------------------- MODULE MessageQueue ----------------------------
(***************************************************************************)
(* The Ray actor between the rollouter and the trainer: a bounded deque.   *)
(* Every method runs under the actor's lock, so each call is one step.  A  *)
(* waiting get_sample is woken by any put; it is the consumer's action     *)
(* that is not enabled while the queue is empty.                           *)
(***************************************************************************)
EXTENDS Naturals, Sequences

CONSTANT MaxQueueSize  \* max_queue_size

ASSUME MaxQueueSizeAssumption == MaxQueueSize \in Nat \ {0}

VARIABLES
    queue,    \* the deque: samples and, at the end of the run, the signal
    dropped   \* samples put_sample has pushed out of a full queue

mqVars == <<queue, dropped>>

\* The None that _streaming_generation_main puts behind the last sample.
EndSignal == 0

MQInit == queue = <<>> /\ dropped = {}

\* The oldest entry of a full queue makes room for the new one.
PutSample(sample) ==
    LET isDrop == Len(queue) >= MaxQueueSize
    IN  /\ queue' = Append(IF isDrop THEN Tail(queue) ELSE queue, sample)
        /\ dropped' = IF isDrop THEN dropped \cup {Head(queue)} ELSE dropped

GetSample ==
    /\ queue # <<>>
    /\ queue' = Tail(queue)
    /\ UNCHANGED dropped

=============================================================================
