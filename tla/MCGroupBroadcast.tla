-------------------------- MODULE MCGroupBroadcast --------------------------
(***************************************************************************)
(* GroupBroadcast on a few sessions and blocks, with MaxPublished of them  *)
(* published.                                                              *)
(***************************************************************************)
EXTENDS GroupBroadcast

CONSTANTS MaxPublished

ShortRun == Len(published) <= MaxPublished
=============================================================================
