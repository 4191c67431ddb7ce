-------------------------- MODULE MCDualKVActor -----------------------------
EXTENDS DualKVActor, TLC

(* Prompts of different lengths, so that a wrong prompt_len shows. *)
MCPromptLen(p) == IF p % 2 = 0 THEN 1 ELSE 2

MCRespLens == {0, 2}
=============================================================================
