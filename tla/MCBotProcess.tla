---------------------------- MODULE MCBotProcess ----------------------------
(* Instances of BotProcess for TLC. *)
EXTENDS BotProcess, TLC
=============================================================================
