------------------------------ MODULE Protocol ------------------------------
(***************************************************************************)
(* The vocabulary of the chat: who talks, and the plaintext of the blocks  *)
(* that client and server exchange inside SecureSocket's encrypted frames. *)
(* A block starts with a QChar code of protocol.cpp; here the code is the  *)
(* field "ind", named after its constant, and the values that follow it in *)
(* the QDataStream are the other fields.                                   *)
(*                                                                         *)
(* A user's name and its user_id identify each other (users.name is        *)
(* UNIQUE), so one number stands for both.                                 *)
(***************************************************************************)
EXTENDS Naturals, Sequences

CONSTANTS
    NumUsers,     \* rows of table users
    Sessions,     \* connections a client may open, one ServerThread for each
    Texts,        \* message texts
    NoSocket,     \* absence of an entry in EchoServer::m_userSocket
    MaxMessageId  \* largest message_id SQLite can give; the INSERT fails after

ASSUME UsersAssumption == NumUsers \in Nat
ASSUME IdsAssumption == MaxMessageId \in Nat
ASSUME NoSocketAssumption == NoSocket \notin Sessions

\* user_id is an AUTOINCREMENT key: the table numbers its rows from 1.
Users == 1 .. NumUsers

\* m_username before authenticate() has read it: no row has this name.
NoName == 0

\* Row ids start at 1; toInt() of a NULL id is 0.
MessageIds == 0 .. MaxMessageId

\* users.role: administrator, moderator, plain user.
Roles == {"a", "m", "u"}

\* Blocks a client sends once it is logged in.
Requests ==
    [ind : {"ADD_MESSAGE"}, text : Texts]
        \cup [ind : {"DELETE_MESSAGE"}, id : MessageIds]
        \cup [ind : {"MODIFY_MESSAGE"}, id : MessageIds, text : Texts]
        \cup [ind : {"SET_NEW_MODERATOR", "DELETE_MODERATOR"}, who : Users]
        \cup [ind : {"USER_GET_PASSWORD_HALF", "GOT_MESSAGE_LIST"}]

MessageRows == [id : MessageIds, name : Users, text : Texts]
UserRows == [name : Users, role : Roles]

\* Blocks the server sends to every socket of m_userSocket.
Broadcasts ==
    [ind : {"ADD_MESSAGE"}, id : MessageIds, name : Users, text : Texts]
        \cup [ind : {"DELETE_MESSAGE"}, id : MessageIds]
        \cup [ind : {"MODIFY_MESSAGE"}, id : MessageIds, text : Texts]
        \cup [ind : {"USER_GET_PASSWORD_HALF"}, half : Users \cup {NoName}]

\* Blocks the server sends to one socket.
RoleChanges == [ind : {"SET_NEW_MODERATOR", "DELETE_MODERATOR"}]
Answers ==
    [ind : {"LOGIN_OK", "LOGIN_DENIED", "INIT_MODERATOR"}]
        \cup [ind : {"SEND_INIT_MESSAGES"}, rows : Seq(MessageRows)]
        \cup [ind : {"USER_MODERATOR_LIST"}, rows : Seq(UserRows)]

Blocks == Broadcasts \cup RoleChanges \cup Answers
=============================================================================
