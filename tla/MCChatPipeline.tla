--------------------------- MODULE MCChatPipeline ---------------------------
(* Instances of ChatPipeline for TLC. *)
EXTENDS ChatPipeline
==============================================================================
