----------------------------- MODULE AgentLoop ------------------------------
(***************************************************************************)
(* The generation of a batch (AgentLoopManager.generate_sequences): its    *)
(* rows are split over agent loop workers, each of which runs a coroutine  *)
(* per row: a conversation of the model with tools (ToolAgentLoop), with a *)
(* simulated user (interaction) or of one turn (SingleTurnAgentLoop).  The *)
(* worker's AsyncLLMServerManager chooses a server for each request.       *)
(*                                                                         *)
(* A token is known by where it is from: the prompt "p", the model "g", a  *)
(* tool or a user "o".                                                     *)
(***************************************************************************)
EXTENDS Integers, Sequences, SequencesExt

CONSTANTS
  PromptLength,     \* prompt_length and response_length of the rollout
  ResponseLength,
  Servers,          \* how many LLM servers; their places in the heap are 1 ..
  CacheSize,        \* max_cache_size of request_id_to_server
  ObservationLengths  \* bound: of a tool's or a user's message, in tokens

ASSUME AgentLoopAssumption ==
  /\ PromptLength \in Nat \ {0} /\ ResponseLength \in Nat \ {0}
  /\ Servers \in Nat \ {0} /\ CacheSize \in Nat \ {0}
  /\ ObservationLengths \subseteq Nat \ {0}

VARIABLES
  rows,      \* the batch: per row the agent loop and the length of the prompt
  setup,     \* of the rollout: workers, interaction, log_probs, max turns
  conv,      \* per row: its AgentData
  requests,  \* per worker and server: the count in weighted_serveres
  sessions   \* per worker: request_id_to_server, least recently used first

loopVars == <<rows, setup, conv, requests, sessions>>

Row == DOMAIN rows

(* The chunk of the batch a row is in, which is its worker. *)
WorkerOf(i) == (i - 1) \div (Len(rows) \div setup.workers) + 1

Tokens(kind, n) == [j \in 1 .. n |-> kind]

(* Batch "of" is sent to the workers. *)
StartLoops(of) ==
  /\ rows' = of
  /\ conv' = [i \in DOMAIN of |->
       [state |-> "pending", ids |-> <<>>, mask |-> <<>>, logprobs |-> <<>>,
        assistant_turns |-> 0, user_turns |-> 0, max_tokens |-> 0, servers |-> <<>>]]
  /\ sessions' = [w \in DOMAIN sessions |-> <<>>]   \* earlier requests are evicted first
  /\ UNCHANGED <<setup, requests>>

LoopInit(s) ==
  /\ setup = s
  /\ rows = <<>> /\ conv = <<>>
  /\ requests = [w \in 1 .. s.workers |-> [v \in 1 .. Servers |-> 0]]
  /\ sessions = [w \in 1 .. s.workers |-> <<>>]

(* _handle_pending_state: the chat template. *)
Pending(i) ==
  /\ conv[i].state = "pending"
  /\ conv' = [conv EXCEPT ![i].state = "generating",
                          ![i].ids = Tokens("p", rows[i].prompt)]
  /\ UNCHANGED <<rows, setup, requests, sessions>>

-----------------------------------------------------------------------------
(* AsyncLLMServerManager._choose_server.                                   *)

(* The root of the heap of [count, index, server]. *)
Least(w) ==
  CHOOSE v \in 1 .. Servers : \A u \in 1 .. Servers :
    \/ requests[w][v] < requests[w][u]
    \/ requests[w][v] = requests[w][u] /\ v <= u

(* The places of row i's entry in the cache of worker w: one or none. *)
Session(w, i) == {k \in DOMAIN sessions[w] : sessions[w][k].row = i}
Entry(w, i) == CHOOSE k \in Session(w, i) : TRUE

ChosenBug(w, i) == Least(w)
Chosen(w, i) == IF Session(w, i) # {} THEN sessions[w][Entry(w, i)].server ELSE Least(w)

(* The entry is now the most recent one; a new one may push out the least. *)
Remember(w, i) ==
  LET others == IF Session(w, i) = {} THEN sessions[w]
                ELSE RemoveAt(sessions[w], Entry(w, i))
      kept   == IF Len(others) < CacheSize THEN others ELSE Tail(others)
  IN  Append(kept, [row |-> i, server |-> Chosen(w, i)])

(* max_tokens of the server's generate. *)
MaxTokens(ids) ==
  LET left == ResponseLength + PromptLength - Len(ids)
  IN  IF left > 0 THEN left ELSE 0

(* server_manager.generate.  vLLM refuses a request for no tokens, which   *)
(* ends the coroutine, the worker's gather and the batch.                  *)
Generate(i) ==
  LET w == WorkerOf(i)
  IN  /\ conv[i].state = "generating"
      /\ conv' = [conv EXCEPT
           ![i].state = IF MaxTokens(conv[i].ids) = 0 THEN "failed" ELSE "waiting",
           ![i].max_tokens = MaxTokens(conv[i].ids),
           ![i].servers = Append(@, Chosen(w, i))]
      /\ sessions' = [sessions EXCEPT ![w] = Remember(w, i)]
      /\ requests' = [requests EXCEPT ![w][Chosen(w, i)] =
                        IF Session(w, i) = {} THEN @ + 1 ELSE @]
      /\ UNCHANGED <<rows, setup>>

-----------------------------------------------------------------------------
(* AgentData with "n" tokens more: generated ones carry log_probs if they  *)
(* are asked for; others get zeros if there are any log_probs so far.      *)
WithTokensBug(d, kind, n) ==
  [d EXCEPT !.ids = @ \o Tokens(kind, n),
            !.mask = @ \o Tokens(IF kind = "g" THEN 1 ELSE 0, n),
            !.logprobs = @ \o (IF kind = "g" /\ setup.log_probs THEN Tokens("lp", n) ELSE <<>>)]
WithTokens(d, kind, n) ==
  [d EXCEPT !.ids = @ \o Tokens(kind, n),
            !.mask = @ \o Tokens(IF kind = "g" THEN 1 ELSE 0, n),
            !.logprobs = @ \o
               (IF kind = "g" THEN IF setup.log_probs THEN Tokens("lp", n) ELSE <<>>
                ELSE IF @ # <<>> THEN Tokens("zero", n) ELSE <<>>)]

(* Whether the conversation ends with what was just generated. *)
AtLimit(d) ==
  \/ Len(d.mask) >= ResponseLength
  \/ setup.max_assistant_turns > 0 /\ d.assistant_turns >= setup.max_assistant_turns
  \/ setup.max_user_turns > 0 /\ d.user_turns >= setup.max_user_turns

(* Where _handle_generating_state goes, with and without tool calls. *)
After(d, calls) ==
  IF AtLimit(d) THEN "terminated"
  ELSE IF calls THEN "processing_tools"
  ELSE IF setup.interaction THEN "interacting" ELSE "terminated"

(* The server's answer, with or without tool calls in it. *)
Answer(i) ==
  /\ conv[i].state = "waiting"
  /\ \E n \in 1 .. conv[i].max_tokens, calls \in BOOLEAN :
       LET d == [WithTokens(conv[i], "g", n) EXCEPT !.assistant_turns = @ + 1]
       IN  conv' = [conv EXCEPT ![i] =
             [d EXCEPT !.state = IF rows[i].agent = "tool_agent" THEN After(d, calls)
                                 ELSE "terminated"]]
  /\ UNCHANGED <<rows, setup, requests, sessions>>

(* _handle_processing_tools_state: a tool that fails answers with an error *)
(* message; an answer that does not fit ends the conversation unseen.      *)
FitsBug(d, n) == Len(d.mask) + n <= ResponseLength
Fits(d, n) == Len(d.mask) + n < ResponseLength

ProcessTools(i) ==
  /\ conv[i].state = "processing_tools"
  /\ \E n \in ObservationLengths :
       conv' = [conv EXCEPT ![i] =
         IF Fits(conv[i], n)
         THEN [WithTokens(conv[i], "o", n) EXCEPT !.user_turns = @ + 1, !.state = "generating"]
         ELSE [conv[i] EXCEPT !.state = "terminated"]]
  /\ UNCHANGED <<rows, setup, requests, sessions>>

(* _handle_interacting_state, which asks for no limit. *)
Interact(i) ==
  /\ conv[i].state = "interacting"
  /\ \E n \in ObservationLengths, should_terminate \in BOOLEAN :
       conv' = [conv EXCEPT ![i] =
         [WithTokens(conv[i], "o", n) EXCEPT !.user_turns = @ + 1,
            !.state = IF should_terminate THEN "terminated" ELSE "generating"]]
  /\ UNCHANGED <<rows, setup, requests, sessions>>

LoopStep == \E i \in Row : \/ Pending(i) \/ Generate(i) \/ Answer(i)
                           \/ ProcessTools(i) \/ Interact(i)

(* All the gathers have returned; or one has raised. *)
LoopsDone == \A i \in Row : conv[i].state = "terminated"
LoopFailed == \E i \in Row : conv[i].state = "failed"

-----------------------------------------------------------------------------
(* The end of run, and _agent_loop_postprocess: a row of the batch.        *)

UpTo(s, n) == SubSeq(s, 1, IF n < Len(s) THEN n ELSE Len(s))

(* prompt_ids[-len(response_mask):], which is all of it for an empty mask. *)
ResponseIds(d) ==
  IF d.mask = <<>> THEN d.ids ELSE SubSeq(d.ids, Len(d.ids) - Len(d.mask) + 1, Len(d.ids))
PromptIds(d) == SubSeq(d.ids, 1, Len(d.ids) - Len(d.mask))

PadLeft(s, n)  == Tokens("pad", n - Len(s)) \o s
PadRight(s, pad, n) == s \o Tokens(pad, n - Len(s))

Output(d) ==
  LET responses == PadRight(UpTo(ResponseIds(d), ResponseLength), "pad", ResponseLength)
  IN  [prompts |-> PadLeft(PromptIds(d), PromptLength),
       responses |-> responses,
       response_mask |-> PadRight(UpTo(d.mask, ResponseLength), 0, ResponseLength),
       log_probs |-> IF d.logprobs = <<>> THEN <<>>
                     ELSE PadRight(UpTo(d.logprobs, ResponseLength), "zero", ResponseLength),
       score_at |-> Cardinality({j \in 1 .. ResponseLength : responses[j] # "pad"})]

(***************************************************************************)
(* Whatever the turns of a conversation were: the row has the prompt and   *)
(* only it on the left; the mask is on exactly the tokens the model        *)
(* generated, and so are the log_probs of the rollout, which are there if  *)
(* they were asked for; the score is on a token of the response.           *)
(***************************************************************************)
RowsExact ==
  \A i \in Row : conv[i].state = "terminated" =>
    LET out == Output(conv[i])
    IN  /\ out.prompts = PadLeft(Tokens("p", rows[i].prompt), PromptLength)
        /\ \A j \in 1 .. ResponseLength :
             /\ out.responses[j] # "p"
             /\ (out.response_mask[j] = 1) = (out.responses[j] = "g")
             /\ setup.log_probs =>
                  (out.log_probs[j] = "lp") = (out.response_mask[j] = 1)
        /\ out.score_at \in 1 .. ResponseLength

(***************************************************************************)
(* No conversation asks a server for zero tokens, which would end the      *)
(* training, but one with a simulated user, whose messages are added       *)
(* whether they fit or not.                                                *)
(***************************************************************************)
NoEmptyRequest == LoopFailed => setup.interaction

(***************************************************************************)
(* The turns of a conversation go to one server, unless more conversations *)
(* than the cache holds came in between.                                   *)
(***************************************************************************)
StickySession ==
  \A i \in Row : Cardinality(Range(conv[i].servers)) > 1 =>
    Cardinality({k \in Row : WorkerOf(k) = WorkerOf(i)}) > CacheSize

=============================================================================
