---------------------------- MODULE MCChatServer ----------------------------
(***************************************************************************)
(* Values of ChatServer's constants for TLC: user 1 is the administrator   *)
(* (users.name 'Denis' of new_database_script.txt), user 2 a plain user.   *)
(***************************************************************************)
EXTENDS ChatServer

CONSTANTS s1, s2, s3, hello, bye

MCInitRoles == [u \in Users |-> IF u = 1 THEN "a" ELSE "u"]
ModeratorRoles == [u \in Users |-> IF u = 1 THEN "a" ELSE "m"]

OneEach == [s \in Sessions |-> 1]
OneByS1 == [s \in Sessions |-> IF s = s1 THEN 1 ELSE 0]

NoMessages == <<>>
OneMessage == <<[user |-> 2, text |-> hello]>>
ThreeMessages == OneMessage \o OneMessage \o OneMessage

\* Each session is another user's.
OwnKeys == [s \in Sessions |-> CASE s = s1 -> {1} [] s = s2 -> {2}
                                 [] OTHER -> {}]
\* s1 and s3 are logins of the same user.
SharedKeys == [s \in Sessions |-> IF s = s2 THEN {2} ELSE {1}]
=============================================================================
