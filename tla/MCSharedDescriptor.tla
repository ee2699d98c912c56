-------------------------- MODULE MCSharedDescriptor ------------------------
(***************************************************************************)
(* Values of SharedDescriptor's constants for TLC: both threads of the     *)
(* server and the client of s1 write, of s2 the client only.               *)
(***************************************************************************)
EXTENDS SharedDescriptor

CONSTANTS s1, s2

S1AndClient == {w \in Writers : w[1] = s1 \/ w[2] = "client"}
=============================================================================
