--------------------------- MODULE MCClientWindow ---------------------------
(***************************************************************************)
(* Values of ClientWindow's constants for TLC.                             *)
(***************************************************************************)
EXTENDS ClientWindow

CONSTANTS hello, bye

OneRow == <<[id |-> 1, name |-> 1, text |-> hello]>>

ThreeMembers ==
    <<[name |-> 1, role |-> "a"],
      [name |-> 2, role |-> "u"],
      [name |-> 3, role |-> "u"]>>
=============================================================================
