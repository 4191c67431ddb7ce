-------------------------- MODULE RolloutPipeline --------------------------
(***************************************************************************)
(* What the recipe promises with staleness_threshold = 0: rounds.  In a    *)
(* round the rollouter generates RoundSize samples and no more, the        *)
(* trainer trains on them in batches, and only then do the parameters      *)
(* change; no sample crosses a round.                                      *)
(***************************************************************************)
EXTENDS Naturals, FiniteSets

CONSTANTS AllSamples, RoundSize, BatchSize

VARIABLES
    round,       \* the parameter version of the rollouter
    generating,  \* samples in generation
    ready,       \* generated, not yet trained
    used,        \* trained in this round
    past         \* trained in earlier rounds, or discarded

pipelineVars == <<round, generating, ready, used, past>>

Started == generating \cup ready \cup used

PipelineInit ==
    /\ round = 0
    /\ generating = {} /\ ready = {} /\ used = {} /\ past = {}

Generate(s) ==
    /\ s \in AllSamples \ (Started \cup past)
    /\ Cardinality(Started) < RoundSize
    /\ generating' = generating \cup {s}
    /\ UNCHANGED <<round, ready, used, past>>

Complete(s) ==
    /\ s \in generating
    /\ generating' = generating \ {s} /\ ready' = ready \cup {s}
    /\ UNCHANGED <<round, used, past>>

Train(B) ==
    /\ B \subseteq ready /\ Cardinality(B) = BatchSize
    /\ ready' = ready \ B /\ used' = used \cup B
    /\ UNCHANGED <<round, generating, past>>

\* Samples left over at the end of the data are too few for a batch.
Discard ==
    /\ Started \cup past = AllSamples /\ generating = {}
    /\ Cardinality(ready) < BatchSize
    /\ ready' = {} /\ past' = past \cup ready
    /\ UNCHANGED <<round, generating, used>>

\* The parameters change after a full round, or when the data are used up.
NextRound ==
    /\ generating = {} /\ ready = {}
    /\ Cardinality(used) = RoundSize \/ used \cup past = AllSamples
    /\ round' = round + 1
    /\ past' = past \cup used /\ used' = {}
    /\ UNCHANGED <<generating, ready>>

PipelineNext ==
    \/ \E s \in AllSamples : Generate(s) \/ Complete(s)
    \/ \E B \in SUBSET ready : Train(B)
    \/ Discard \/ NextRound

PipelineSpec == PipelineInit /\ [][PipelineNext]_pipelineVars

=============================================================================
