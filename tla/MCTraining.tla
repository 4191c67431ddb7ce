----------------------------- MODULE MCTraining -----------------------------
EXTENDS Training

(* Limits and frequencies of both kinds, with and without a critic. *)
Setup(workers, interaction, assistant, user, log_probs) ==
  [workers |-> workers, interaction |-> interaction, max_assistant_turns |-> assistant,
   max_user_turns |-> user, log_probs |-> log_probs]

Conf(mode, critic, keep, freq, warmup, total) ==
  [mode |-> mode, use_critic |-> critic, save_freq |-> freq,
   test_freq |-> IF mode = "ppo" THEN 2 ELSE 1,
   keep |-> [actor |-> keep[1], critic |-> keep[2]],
   critic_warmup |-> warmup, total |-> total,
   rows |-> <<>>, setup |-> Setup(1, FALSE, 0, 0, FALSE)]

(* Checkpoints and crashes; the generations are left out. *)
CrashConfigs ==
  {Conf(mode, FALSE, <<keep, 0>>, 1, 0, 4) : mode \in {"ppo", "one_step_off"}, keep \in {0, 2}}
    \cup {Conf("ppo", FALSE, <<1, 0>>, 1, 0, 4), Conf("ppo", TRUE, <<2, 2>>, 1, 0, 3),
          Conf("ppo", TRUE, <<2, 0>>, 2, 2, 4), Conf("one_step_off", FALSE, <<0, 0>>, 2, 0, 3)}

(* Generations, for two steps without checkpoints. *)
Tool(n) == [agent |-> "tool_agent", prompt |-> n]
Single(n) == [agent |-> "single_turn_agent", prompt |-> n]

LoopConf(mode, of, s) ==
  [Conf(mode, FALSE, <<0, 0>>, 0, 0, 2) EXCEPT !.rows = of, !.setup = s]

LoopConfigs ==
  {LoopConf("ppo", <<Tool(2), Single(1)>>, Setup(1, FALSE, 0, 0, TRUE)),
   LoopConf("ppo", <<Tool(1), Tool(2)>>, Setup(2, TRUE, 0, 0, TRUE)),
   LoopConf("ppo", <<Tool(2), Single(2), Single(1)>>, Setup(1, FALSE, 2, 0, FALSE)),
   LoopConf("one_step_off", <<Tool(1), Single(2)>>, Setup(1, FALSE, 0, 1, FALSE))}

MCConfigs == CrashConfigs \cup LoopConfigs
=============================================================================
