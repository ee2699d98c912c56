----------------------------- MODULE SqlWrapper -----------------------------
(***************************************************************************)
(* The database both kinds of threads use through one SqlWrapper: tables   *)
(* users and messages of server.db.  mutex_ makes each exec() one step, so *)
(* every operator below is evaluated within a single action of its caller. *)
(* A SELECT whose rows are fetched with next() after exec() has returned   *)
(* is not: SQLite steps the cursor at each next(), outside the mutex, and  *)
(* the caller takes one step per row (ServerThread).                       *)
(*                                                                         *)
(* message_id is AUTOINCREMENT: sqlite_sequence keeps the largest id ever  *)
(* given and an id is never given again.                                   *)
(***************************************************************************)
EXTENDS Protocol, FiniteSetsExt

CONSTANTS
    InitRoles,      \* users.role of the database the server opens
    InitMessages,   \* the rows of table messages in it
    WritesMayFail,  \* exec() of an INSERT, UPDATE or DELETE may return false
    ReadsMayFail    \* exec() of a SELECT may leave the query inactive

ASSUME DatabaseAssumption ==
    /\ InitRoles \in [Users -> Roles]
    /\ InitMessages \in Seq([user : Users, text : Texts])
    /\ Len(InitMessages) <= MaxMessageId
    /\ WritesMayFail \in BOOLEAN
    /\ ReadsMayFail \in BOOLEAN

VARIABLES
    roles,           \* users.role
    messages,        \* messages: message_id |-> user_id, text
    sqlite_sequence  \* largest message_id ever inserted

DbTypeOK ==
    /\ roles \in [Users -> Roles]
    /\ sqlite_sequence \in MessageIds
    /\ messages \in [DOMAIN messages -> [user : Users, text : Texts]]
    /\ DOMAIN messages \subseteq 1 .. sqlite_sequence

dbVars == <<roles, messages, sqlite_sequence>>

DbInit ==
    /\ roles = InitRoles
    /\ messages = InitMessages
    /\ sqlite_sequence = Len(InitMessages)

-----------------------------------------------------------------------------
\* Queries.

get_user_role(user) == roles[user]

\* Mutant of get_message_id: the first match instead of the last.
first_message_id(table, user, text) ==
    LET ids == {id \in DOMAIN table :
                    table[id].user = user /\ table[id].text = text}
    IN  IF ids = {} THEN 0 ELSE Min(ids)

\* SELECT MAX(message_id) FROM table WHERE text and user_id match;
\* toInt() of the NULL that MAX gives over no row is 0.
get_message_id(table, user, text) ==
    LET ids == {id \in DOMAIN table :
                    table[id].user = user /\ table[id].text = text}
    IN  IF ids = {} THEN 0 ELSE Max(ids)

\* The cursor of messages NATURAL JOIN users walks messages by message_id:
\* the ids it has still to visit when the last row it gave was "cursor".
IdsAfter(cursor) == {id \in DOMAIN messages : id > cursor}

\* The row the next step of that cursor gives.
RowAfter(cursor) ==
    LET id == Min(IdsAfter(cursor))
    IN  [id |-> id, name |-> messages[id].user, text |-> messages[id].text]

-----------------------------------------------------------------------------
\* Updates.

\* Mutant of add_message: no bound on the id.
add_message_unbounded(user, text) ==
    LET id == sqlite_sequence + 1
    IN  /\ sqlite_sequence' = id
        /\ messages' = [i \in DOMAIN messages \cup {id} |->
                            IF i = id THEN [user |-> user, text |-> text]
                                      ELSE messages[i]]
        /\ UNCHANGED roles

\* Mutant of add_message: a key without AUTOINCREMENT.
add_message_reusing_ids(user, text) ==
    LET id == IF messages = <<>> THEN 1 ELSE Max(DOMAIN messages) + 1
    IN  /\ id \in MessageIds
        /\ sqlite_sequence' = id
        /\ messages' = [i \in DOMAIN messages \cup {id} |->
                            IF i = id THEN [user |-> user, text |-> text]
                                      ELSE messages[i]]
        /\ UNCHANGED roles

add_message(user, text) ==
    LET id == sqlite_sequence + 1
    IN  /\ id \in MessageIds
        /\ sqlite_sequence' = id
        /\ messages' = [i \in DOMAIN messages \cup {id} |->
                            IF i = id THEN [user |-> user, text |-> text]
                                      ELSE messages[i]]
        /\ UNCHANGED roles

\* exec() succeeds whether or not a row matches, here and in the two below.
delete_message(id) ==
    /\ messages' = [i \in DOMAIN messages \ {id} |-> messages[i]]
    /\ UNCHANGED <<roles, sqlite_sequence>>

modify_message(id, text) ==
    /\ messages' = [i \in DOMAIN messages |->
                        IF i = id THEN [messages[i] EXCEPT !.text = text]
                                  ELSE messages[i]]
    /\ UNCHANGED <<roles, sqlite_sequence>>

change_user_role(user, role) ==
    /\ roles' = [roles EXCEPT ![user] = role]
    /\ UNCHANGED <<messages, sqlite_sequence>>
=============================================================================
