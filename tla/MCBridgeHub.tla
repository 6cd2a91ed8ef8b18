---------------------------- MODULE MCBridgeHub ----------------------------
(***************************************************************************)
(* A small instance of the hub for TLC: a GET with a command, or a prompt  *)
(* and the GET that looks it up.                                           *)
(***************************************************************************)
EXTENDS PromptDelivery

MCRequests == {"list", "shell", "prompt"}
MCKindOf   == [r \in MCRequests |-> CASE r = "list" -> "get"
                                      [] r = "shell" -> "command"
                                      [] r = "prompt" -> "checked"]

=============================================================================
