---------------------------- MODULE MCBotProcess ----------------------------
(***************************************************************************)
(* An instance of BotProcess for TLC: one message of each provider and two *)
(* invoices for batches of one.                                            *)
(***************************************************************************)
EXTENDS BotProcess
=============================================================================
