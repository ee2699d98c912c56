-------------------------- MODULE MCServerRestarts --------------------------
(***************************************************************************)
(* Values of ServerRestarts's constants for TLC: those of ChatServer.      *)
(***************************************************************************)
EXTENDS MCChatServer, ServerRestarts
=============================================================================
