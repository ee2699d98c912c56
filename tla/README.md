# Verification of the Kolepov chat

Kolepov is a chat: `EchoServer` (a Qt program with one thread per client and an
SQLite database) and `EchoClient` (a Qt window). This directory holds
TLA+ modules that model the server, the promise it makes to its clients, the
client's window and notes, the server's start and the login, the encrypted
sockets of both, the TLC configurations that
check them on small instances, and TLAPS proofs.

## 1. The system

| Part | Source | State | Operations |
|---|---|---|---|
| Main thread of the server | `src/EchoServer/echoserver.*` | `m_userSocket` (name to socket), the event queue of the thread | `new_user`, and one slot for each signal of a `ServerThread` |
| `ServerThread` | `src/EchoServer/serverthread.*` | where `run()` is, `m_username`, `m_clientDisconnected`, the open query, the socket's buffer | log in, announce, send the message list, serve requests, end |
| `SqlWrapper` | `src/EchoServer/sqlwrapper.*` | tables `users` and `messages` of the database | queries, insert/update/delete, all under one mutex |
| Protocol | `protocol.*` (both programs) | none | the codes of the blocks |
| `SecureSocket` | `securesocket.*` (both programs) | key, `m_usedIV`, a descriptor of a TCP connection | `writeBlock`, `readBlock` |
| `EchoClient` window | `src/EchoClient/echoclient.*` | message table and `m_messageIdRowNum`, visible buttons, user and moderator lists | requests, `readServerResponse` |
| `ConnectDialog` | `src/EchoClient/connectdialog.*` | the socket until login | connect, client side of the handshake |
| Client notes | `echoclient.cpp` from 534 on | local database | open when a password half comes from the server, edit |
| `Cryption` | `cryption.*` | none | RSA, AES-GCM and hashing through Crypto++ |
| Start-up | `main.cpp`, `insertkeydialog.*`, `EchoServer::show`, `dialogResult`, `sessionOpened` | key paths, `database` pointer | run once |

**How they interact.** A worker thread talks to its client over its socket. It
never writes the database or `m_userSocket`; it emits signals, which Qt queues to
the main thread (`ServerThread` objects and `EchoServer` live there), and the main
thread runs the slots one at a time in the order of the queue. The slots change
the database, then write a block to every socket of the map: the same sockets the
workers write. Workers read the database directly (message list, user list, role).
The main thread ends a session by setting `m_clientDisconnected` in
`disconnectedUser()`, which the socket's `disconnected()` signal reaches, queued
when the worker noticed and directly when the main thread did.

**What is hard.** The worker's reads and writes interleave with the slots; the
state a worker has read (a role, the message list) may be old when a signal it
emits is handled; entries of the map are removed by name, not by session; a client
may close at any moment, and what happens depends on how far `run()` has come;
`exec()` may fail; the cursor of a query is stepped outside the mutex; two socket
objects share one descriptor, and two threads write one of them; connections are
accepted before the key and the database are there; a session is announced before
its message list is read, so that broadcasts and list may come in any order; a block
may open a modal box within the slot that reads the socket; an exception in a
thread, or the quit button, ends the program with whatever is half done. The file
PROJECT.json lists each hazard with its line and the property that covers it, or
why none does yet.

**What makes the parts correct.**
- Map: an entry is a live session of a client that has the user's key, sessions
  stay in it while they live, entries of ended threads go.
- Broadcasts: one order for all, no gap while a session is in the map, and they
  say what happened to the database.
- Message list and ids: a list misses no message of the table; ids are not reused.
- Moderation: a request takes effect only if its sender had the role.
- Sessions: a closed client ends its thread; a login is accepted or refused.
- Login: who is accepted was passed, on one connection; every attempt ends; no
  client ends the server.
- Sockets: what is read was written at the other end, in order; what is lost has a
  known cause; descriptors become free.
- Restarts: what anybody was told is in the database, ids go on.
- Client window: it shows the table, minus what is under way; rows and row numbers
  agree, so that requests and blocks hit the message they are about; what can keep
  it from that has a known cause; what arrives is read.
- Notes: each row shown is the note stored under its id.

## 2. Modules

| Module | Models |
|---|---|
| `Protocol` | users, ids, the blocks of both directions |
| `SqlWrapper` | the two tables, queries and updates |
| `QtRuntime` | event queue of the main thread, connections of whole blocks, `writeBlock` |
| `ServerThread` | `run()`, `manageUserQuery()`, `authorize()`, `disconnectedUser()` |
| `EchoServer` | `new_user()`, the bytes its socket takes, and the slots |
| `ChatServer` | composition with clients; the properties |
| `GroupBroadcast` | abstract: one sequence of blocks, contiguous parts to members |
| `ServerRestarts` | `ChatServer` whose program may end at any step and start again |
| `ClientWindow` | the client's message tab, the administrator's tab and `readServerResponse()`, with the worker and the main thread as they concern its session |
| `ClientNotes` | the client's notes tab |
| `Cryption` | what the results of class `Cryption` mean to its callers |
| `ServerStartup` | the key dialog, the opening of the database, the end of the program |
| `Login` | `ConnectDialog` and the handshake with its `ServerThread`, on a server that may just be starting |
| `SecureSocket` | `writeBlock()`, `readBlock()` and `m_usedIV`, blocks in parts |
| `SharedDescriptor` | the sockets of the main thread, the worker and the client on one descriptor and its reuse |
| `MCChatServer`, `MCServerRestarts`, `MCGroupBroadcast`, `MCClientWindow`, `MCSharedDescriptor` | values of constants for TLC |
| `GroupBroadcastProofs`, `ChatServerProofs`, `ServerRestartsProofs`, `BroadcastProofs`, `ClientWindowProofs`, `LoginProofs`, `ClientNotesProofs`, `SharedDescriptorProofs` | proofs |

`ChatServer` extends `EchoServer`, which extends `ServerThread`, which extends
`QtRuntime` and `SqlWrapper`, which extend `Protocol`. `ChatServer` instantiates
`GroupBroadcast` under a refinement mapping. `ClientWindow` extends `Protocol`.
`ServerRestarts` extends `ChatServer`. `Login` extends `ServerStartup` and
`Cryption`; `SharedDescriptor` extends `SecureSocket`, which extends `Cryption`.
`ClientNotes` stands alone. Each of these models both ends of what it is about and
states what it assumes of the rest.

**Correspondence with the code.** Variables have the names of the code where it
has one: `m_userSocket`, `m_username`, `m_clientDisconnected`, and `roles`,
`messages`, `sqlite_sequence` for the tables. `pc[s]` is the place in `run()` of
the thread of connection `s`; an action of a worker ends where another thread can
see or change what comes next: at a write to the socket, an emitted signal, a step
of a query. Qt objects: `eventQueue` is the queue of posted events; `sock[s]` says
whether the server's socket is in ConnectedState; `slotConnected[s]` whether
line 60 of serverthread.cpp has been executed; `rx[s]` and `tx[s]` are the blocks
to and from the server, `tx[s]` with everything written so far.

A slot that changes the database and then broadcasts takes two steps: `Dispatch`
takes the event and does everything up to the loop over the map, leaving block and
addressees in `outgoing`; `WriteBlocks` is the loop. Workers may act in between.
The loop is one step, since what a worker does meanwhile concerns its own socket
only, which the loop touches once. `new_user()` and every other slot wait until
`outgoing` is empty: the main thread is one thread.

Early returns and error paths: `failToWrite` is the early return of the four slots
that write the database; `ReadsMayFail` lets a query come back inactive, with what
the code makes of it: role `'e'`, message id 0, an empty list, no message list at
all. `MissAck` is the time-out of the wait for the acknowledgement. An
unauthorised request makes `CheckRole` return to the main cycle with the rest of
the buffer unserved, as line 262 does.

A write to a socket whose client has closed may succeed or fail; a failed write
closes the socket, and the `disconnected()` signal goes to the queue when a worker
wrote and straight to `disconnectedUser()` when the main thread did.

The `QTcpSocket` that `new_user()` got the descriptor from stays on it and waits for
bytes like any other: `TakeBlocks` is the event loop finding some before the worker
does. They go into a buffer nobody reads, and `taken` remembers the session. That
socket may also close the number once the client has closed; for the worker this is a
connection that is lost, as it may find it anyway (`SharedDescriptor` has the number's
reuse, and bytes instead of blocks).

`ClientWindow`: a row of the table of messages is an element of `m_messages`, with
the widget's row numbers one less than TLA+'s. `network` holds what has been sent,
`buffer` what `peek()` would see. `slot` says where `readServerResponse()` is; it runs
block by block, so that each property holds between two blocks too. A half for the
notes may open a box in the middle of it (echoclient.cpp:358, 658): then blocks go on to
arrive and none is read until `CloseBox`.

Its server is reduced to what concerns one session, and keeps the orders the code
allows. The worker has announced the session (serverthread.cpp:58); it steps its
query row by row (`ReadRow`), which sees what has been committed by then, writes the
list (`SendList`) or, if the query failed, none (`FailList`), and then the role.
Meanwhile the main thread puts the session into the map at any time (`EnterMap`) or
takes it out by name (`LeaveMap`), and adds, deletes and modifies messages, also
those that have been deleted before, and with id 0 when the second query fails;
`Tell` writes the block if the session is in the map. A block of a change that was
made before the list is sent may be written before or after it (`outgoing`). So the
list may repeat what a broadcast has said, come after a deletion of one of its rows,
or lack what nobody tells. `astray` is a history variable, set where one of these or a
repeated deletion happens: the window has no means to make it good, and
`RowMapAgrees` and `WindowFollowsStore` say that nothing else can make it wrong. The
model goes on behind it: the deletion of an id the window does not show removes row 0
(`RowNum`, echoclient.cpp:416).

`ClientNotes`: `HalfArrives` is `connect_to_client_database()`, for whoever has asked
for the half. Password and half go to `setPassword()` only, which the driver the code
names, `QSQLITE`, ignores, so they are left out with `kdf()` and `database_password`:
`open()` succeeds or fails for reasons of the file. While the box is open nothing else
goes on. The chat messages that `addMessage()` inserts into `user_notes` are
`ChatMessage`.

`ClientWindow`'s administrator's tab: `m_userList` and `m_moderatorList` hold the
names of the items; the block of members fills both, and each of the two buttons
writes its request and moves the current item (`MoveItem`).

`ServerStartup`: `mainThread` says which event loop the main thread is in (the key
dialog, the box of a database that does not open, the window) or how the program
ended. `database` is `"unset"` until `dialogResult()` assigns it, which it does
after that box has been closed. `Login`: one dialog, one thread for each connection
it makes; `taken` is what the thread got when its connection was accepted. `dialog`
and `server` say which wait of `authenticate()` each is in. The form of an attempt
says which server key, name, private key file and password the dialog held; keys,
files and ciphers are terms of `Cryption`, and the challenge is answered as the
code does it, by decrypting with what the file gives, also a block that is a refusal.
An exception that nothing catches is `Terminate` in the server and closes the
client. The call through the unset pointer may end the program, wait in a mutex
that does not exist (`"stuck"`), or come back without a row.

`SecureSocket`: a block is two parts, its head (IV and lengths) and the rest
(cipher), so that it can arrive in part, lose its beginning, or be mixed with
another thread's. `m_usedIV` keeps apart the IVs read (copies of the bytes) from
those written: `fromRawData()` (line 33) keeps a pointer to the stack of
`writeBlock()`, so `Contains` of a written IV may come out either way. `EncryptBlock`
goes up to the call of `write()`, which adds part by part (`Written`); when another
thread is within `writeBlock()` of the same object, parts may get lost.
`SharedDescriptor`: `behind[n]` is the connection that descriptor `n` stands for
now, `fd[s]` the number that both objects of session `s` were given. Whoever closes
it frees it for the next connection, while the others go on to use it. `disturbed`
is a history variable: something happened that may cost the session a block.

`ServerRestarts`: `ProgramEnds` forgets everything the program held and keeps the
database, the clients' received blocks and the history; sessions that had not been
started may connect to the next program.

**What is abstracted.** In `ChatServer`, the handshake of `authenticate()` and `challenge()` to its
outcome: a client passes as a user whose private key it holds (`KeysOf`), and may
fail for any reason. Encryption and framing of blocks: a block arrives whole, or is
taken whole by the main thread's socket (`SecureSocket` and `SharedDescriptor` have
what that leaves out). The client: it sends what its window lets its user send, judged by what it
has received (`UserRequests`), acknowledges the list once, and may close. A user's
name, its `user_id` and its number are one value, as `users.name` is unique.
`log` and `seen` are history variables, used by properties only.
Two threads that change `m_usedIV` at once may also corrupt the container and end
the program; the model has only the loss of an insertion.

## 3. Runs

In the chat runs, which use `MCChatServer`, user 1 is the administrator, user 2 a
plain user (a moderator in `chat_messages` and `stale_role`).

| Run | Checks | Bounds | Why they are enough |
|---|---|---|---|
| `group_broadcast` | `ContiguousDelivery` | 3 sessions, 2 blocks, 3 published | sessions that joined before, between and after two blocks, with one lost |
| `chat_messages` | `TypeOK`, `BroadcastsReplayStore`, `IdsNeverReused`, `MessageListsComplete`, `ToldIsStored`, `ModerationAuthorised` | 2 sessions of 2 users, 3 initial messages of one text, 1 request each (add, delete, dismiss), from an administrator and a moderator, 1 restart | equal texts make the lookup by text ambiguous; a cursor over 3 rows can stand before, on and after a deleted row; the greatest id can be deleted before an insertion or a restart; both may delete the same message; the moderator may be dismissed before, between and after a check and its effect |
| `chat_same_user` | `FinishedSessionsLeave`, `ClosedSessionsEnd`, `LoginIsSettled`, `MessagesAreStored` | 2 sessions with the same user's key, one may close, 1 request, 1 new id | every order of two logins and an end of one name; the closing one may be the first or the refused one; what is sent may be taken by the main thread's socket |
| `chat_broadcasts` | `ImplementsGroupBroadcast` | the same sessions with 1 message each, 2 ids | two broadcasts in one behaviour, so that an order and a gap can show: both to one session, one before and one after it joins, is evicted or fails |
| `chat_db_failures` | `LiveSessionsRegistered`, `KeyHoldersOnly` | 2 sessions of 2 users with their own keys, one may close, 1 request of the administrator, of five kinds, 2 texts, largest id 1 (already given) | a mix-up of names and sockets of two users would show; every query and update fails or not; an insertion always meets the end of the id space |
| `client_window` | `TypeOK`, `RowMapAgrees`, `WindowFollowsStore`, `ListsFollowRequests`, `ArrivalsAreRead` | 1 row in the table, 2 changes or blocks of the main thread, 2 ids, 2 texts, 3 members, 3 blocks of the main thread and of the client together | a change before, while and after the row is read, told or not; a deletion above and below a row, repeated, and a modification of what is gone, in every portion of arrival; a half that opens a box in front of another block; a member moved there and back |
| `client_notes` | `TypeOK`, `RowsAreStored` | 3 ids, 2 texts | the notes closed and reopened; ids freed at the end and in the middle |
| `login` | `TypeOK`, `AcceptedIsPassed`, `OneSession`, `OnlyBadStartTerminates`, `AttemptsEnd` | 2 attempts, 3 contents of a key path | each form before and after an error; a LOGIN_OK for the first attempt while the second is under way; a connection in each phase of the start |
| `secure_socket` | `TypeOK`, `AcceptedAsWritten`, `LossHasCause`, `BuffersAreEmptied`, `NumbersAreFreed` | 2 connections, one may close, both threads and both clients write, 2 blocks, 2 IVs | both threads of the server and the client write one object; a descriptor is given out again while three objects still use it; a block is split, headless, or has another's rest; two ends choose one IV |

Three further runs show where the code and what it says of itself part:

| Run | The code's words | What happens |
|---|---|---|
| `missed_message` | "Sending all messages from database" (serverthread.cpp:64) | a message inserted after the list was read and broadcast before the newcomer is in the map reaches it in neither way |
| `refused_login_evicts` | "%1 \| %2 disconnected" (echoserver.cpp:174) | a refused second login removes the entry of the first, which stays connected |
| `stale_role` | "Now you are not a moderator" (echoclient.cpp:349) | INIT_MODERATOR, from a role read before, follows, and the window is in moderator mode again |

Others are in the chat models without a run of their own: the `readAll()` that is to
"take from socket PROTOCOL::INIT_MESSAGE_LIST" (serverthread.cpp:86) drops any
message that arrived with the acknowledgement; a second deletion of a message
succeeds and is broadcast although there is a "Server: couldn't delete message"
for it (echoserver.cpp:210), and the window then loses another row; and the "Check
authentication data." (serverthread.cpp:35) of an unknown name is taken for the
challenge by the dialog, which never shows it. More are in the socket and login models: a
block that arrived in part is reported as "Message corrupted." (serverthread.cpp:165)
and its rest is taken for a block of its own; the main thread's socket
(echoserver.cpp:97) reads bytes that the worker waits for; a connection that comes
before the key dialog is accepted, or a key file that is none or gone, ends the
server for everybody; and the box "Cannot open database." is shown while `database`
has no value yet (sqlwrapper.cpp:30), so that a login behind it uses any memory.

`CHECK_DEADLOCK FALSE` in the chat runs: clients send finitely many requests, and
a server without a request, whose waits only time out, is at rest. Clients may
also close before they log in, and their threads end. In the runs of the client
the user may stop, and a dialog that has been accepted or closed is at its end.

Each name that a bound has: `NumUsers`, `Sessions`, `Texts`, `MaxMessageId` in
`Protocol`; `InitRoles`, `InitMessages` in `SqlWrapper`; `RequestKinds`,
`MaxRequests`, `Closers` in `ChatServer`; `MaxRestarts` in `ServerRestarts`;
`MaxPublished` in `MCGroupBroadcast`;
`InitRows`, `Members`, `Authors`, `MaxPublished`, `MaxBlocks` in `ClientWindow`; `MaxIV`,
`MaxBlocks`, `Active`, `Closers` in `SecureSocket` and `SharedDescriptor`;
`MaxNoteId` in `ClientNotes`; `MaxAttempts` in `Login`.
`MaxMessageId` stands for SQLite's largest row id, at which an INSERT into an
AUTOINCREMENT table fails.

**Reading the properties.**
- `BroadcastsReplayStore`: who applies the broadcasts to the initial table has the
  table. It fails if the id found by text and author is another row's.
- `ModerationAuthorised`: "had the role when the worker looked" is all the code
  provides. A request may be applied after the main thread has taken the role away
  (the check is in the worker, the effect is queued).
- `LiveSessionsRegistered` holds when no two clients log in under one name
  (`chat_db_failures`) and fails when they do (`refused_login_evicts`).
- `ImplementsGroupBroadcast`: the mapping takes as members the sessions in the map
  with a connected socket, as past those for which `addNewUserToMap()` has run.
  Also with two logins of one name: an evicted session loses its membership, and
  never regains it.
- `ClosedSessionsEnd` starts at line 60. A client that closes after LOGIN_OK is
  written and before `disconnected()` is connected leaves a thread that nothing
  ends and a name that cannot log in again; that state is reachable in the model,
  and the property leaves it out.
- `RowMapAgrees`, `WindowFollowsStore`: the window goes by rows and repeats nothing, so
  it shows the table unless one of these has come in: no list was sent
  (serverthread.cpp:66), an addition came with id 0 (echoserver.cpp:192), a deletion
  of a message that was gone was broadcast to it (208), a change was told before the
  list was sent (serverthread.cpp:58), or a change that the list cannot show was told to
  nobody, the session not being in the map yet or any more (echoserver.cpp:140, 173).
  All five are reachable in the model and in the code; the properties say that there
  is no sixth, and claim nothing of a window they have come to.
- `ArrivalsAreRead` speaks of what arrives once `readyRead()` is connected. A list
  that came while the login dialog was still open is not read until the next block
  comes (echoclient.cpp:216); the property leaves that out, the model has it. It
  leaves out, too, a user who leaves the box of the notes open for ever; who closes it
  has everything read that has come meanwhile.
- `MessagesAreStored` speaks of what has arrived while the worker is in its main
  cycle, in a run without unauthorised requests: a message that arrives with the
  acknowledgement is dropped by `readAll()` (line 86), and one behind an unauthorised
  request waits for more data (line 262), in the model as in the code. It excepts
  sessions the main thread's socket has taken blocks of (`taken`, echoserver.cpp:97):
  their message may be lost.
- `ToldIsStored` compares what clients were shown, in a list or a broadcast, with
  the table, through restarts: a broadcast comes after its insertion is durable.
- `ListsFollowRequests`: a member is on one list, once, and on the one that the
  requests written so far lead to.
- `OnlyBadStartTerminates`: the two ways the server ends by itself are the operator's;
  no content, silence or close of a client is one.
- `AcceptedAsWritten` holds with every disturbance; `LossHasCause` says that without
  one of them nothing is lost, and names them at their lines.
- `RowsAreStored` leaves out rows added while the notes were closed: the code shows
  a row whose INSERT has failed, until the next refresh.
- `Login` has executions with `late` (a block may come after its reader has given
  up, or in part) and without. `AcceptedIsPassed` and `OneSession` are hard with it,
  `AttemptsEnd` without it: there a wait times out only if nothing will come.

**Fairness** (`FairSpec`): weak fairness of the main thread, since an event loop
takes the next event when there is one, and of each worker, since the operating
system runs it and its waits (`waitForReadyRead`, 30 s) end by a time-out. No
fairness of clients is assumed: a client may stop sending, or never close.
The main thread's fairness is that of the loop as a whole, `TakeBlocks` included, which
takes what has come and so cannot go on for ever. `ClientWindow` assumes a fair event
loop of the client, which reads and connects; its server, its user, and with them the
closing of a box, are not assumed to go on. `Login` assumes that
`authenticate()` of the dialog and of each thread go on, by what arrives or by the
time-outs of their waits; that the user connects, or quits, is not assumed.
`SharedDescriptor` assumes a fair main thread and fair workers, as `ChatServer`
does, that a client's program reads what it has taken, and that a `write()` that has
begun goes on; that a client takes what has arrived, writes, or closes is not assumed.

## 4. Proofs

All theorems hold for every value of the constants under the assumptions of the
modules: `UsersAssumption`, `IdsAssumption`, `NoSocketAssumption` (Protocol),
`DatabaseAssumption` (SqlWrapper), `KeysAssumption` (ServerThread),
`BoundAssumption` (ChatServer), `RowsAssumption`, `MembersAssumption`,
`AuthorsAssumption` and `BoundsAssumption` (ClientWindow), `BoundAssumption`
(ClientNotes), `IVAssumption` (SecureSocket), `SessionsAssumption` and `BlocksAssumption` (SharedDescriptor). TLC
evaluates them in each run of their module. The bounds
on requests are assumed to be natural numbers only, and the users and sessions may
be any set and number; in `SharedDescriptor` the sessions are any finite set, as
there is a descriptor's number for each. What a theorem needs besides is a hypothesis of its own,
and named below.

*The abstract promise.*

- `GroupBroadcastProofs!TypeCorrect`, `DeliveryIsContiguous`: `ContiguousDelivery`
  is inductive together with the type invariant. `Publish` is the case to look at:
  a member's part is extended at the end the sequence is extended, a non-member's
  part is left where it was, and a lost member becomes a non-member.
- `BroadcastProofs!Refinement`: `ImplementsGroupBroadcast`, that every behaviour of
  `Spec` is one of `GroupBroadcast` under the mapping of `ChatServer`. Each action is
  a `Join`, `Leave`, `Publish` or a stutter; which one takes two invariants.
  `PendingInv`: the block in `outgoing`, if it is a broadcast, is that of the last
  entry of `log` and goes to every name of the map. `PastInv`: a thread
  announces itself once, so `addNewUserToMap()` never runs a second time for a
  session, and a session that has left the map does not come back. Hence a session
  that loses its entry, for whatever reason, becomes one that is past.

*The server.*

- `ChatServerProofs!TypeCorrect`: `TypeOK` is inductive, but only with three of
  its conjuncts that say more than a type: the rows of an open query belong to the
  table its thread is reading; a thread past `authenticate()` has a user's name;
  no message has an id above `sqlite_sequence`. Without the first a message list
  could hold user rows, without the second a signal could carry no name, without
  the third the id a new row gets could be in use. The lemmas follow the modules:
  what the operators of the database return, one lemma for
  each phase of `run()`, one for each slot, client step and for the loop of writes.
- `ChatServerProofs!KeyHolders`: `KeyHoldersOnly` is not inductive: it says nothing
  of a `connectedUser` signal still queued, nor of a block that is yet to be
  written. `IdentityInv` adds that a thread that is past `authenticate()` has the
  name of a user whose key its client holds, that every queued `connectedUser` and
  every entry of the map carry the session's own `m_username`, and that anything
  but a refusal in `tx` was written after that name was set.
- `ServerRestartsProofs`: `TypeOK` and `KeyHoldersOnly` again, for `RestartSpec`.
  `RestartIds`: `IdsNeverReused` needs `IdsInv`, that no announced id is above
  `sqlite_sequence`, which a restart keeps; and `~ReadsMayFail`, since a failed
  second query announces id 0.
- `ServerRestartsProofs!Moderation`: `RolesInv` adds that table `users` is what the log
  makes of the initial roles, that a thread about to emit has checked against a part
  of the log that is there, and that every queued request was so checked. A restart
  empties the queue and stops the threads.
- `ServerRestartsProofs!Departure`: `FinishedSessionsLeave` is not inductive, as a
  `connectedUser` may still be queued when its thread ends; `DepartureInv` says that
  the `removeUser` of that thread is queued behind it.
- `ServerRestartsProofs!Registration`: `LiveSessionsRegistered`, if no two clients hold
  the same key (`KeysDiffer`, which `refused_login_evicts` shows to be needed). As
  removal goes by name, `RegistrationInv` says that every `removeUser` in the queue
  is of a session that the main thread has already disconnected; by `KeysDiffer` it
  then takes no other session out. It is proved for `Spec`; a restart ends every
  session that the property is about.
- `BroadcastProofs!MessageLists`: `MessageListsComplete`, for `RestartSpec`. The list is
  read row by row while the main thread inserts and deletes. `ListsInv` splits what
  an open query still owes: each initial message that nobody has deleted is in the
  table, and for a thread with an open query it is in the rows read so far or at an
  id the cursor has yet to reach.
- `BroadcastProofs!ToldStays`: `ToldIsStored`, for `RestartSpec` and `~ReadsMayFail`.
  `KeptInv` follows an id through all the places a client may yet be told from: the
  rows shown, the rows of an open query, and the block about to be written.
- `BroadcastProofs!ReplayGivesStore`: `BroadcastsReplayStore`, for `~ReadsMayFail`. It
  is inductive with `TypeOK` alone, once the replay is a recursive function on the
  length of the log: the one recursion here that can be reasoned about, since a step
  appends one entry at most. What has to be shown of an insertion is that the row
  found by text and author, the greatest id with both, is the row inserted.

*The login.*

- `LoginProofs!Typing`, `Acceptance`, `Sessions`, `Termination`: `TypeOK`,
  `AcceptedIsPassed`, `OneSession`, `OnlyBadStartTerminates`, all for any number of
  attempts and with `late`. `DialogInv` and `AttemptsInv` place the dialog's wait: a
  connection older than the current one is closed at the client's end, whatever its
  thread still writes. `ToServerInv` is the core of the handshake: a block on its way
  that carries the text of the challenge was written by a dialog that held the key.
  `VerdictInv` says that a LOGIN_OK on its way comes from a thread that has passed that attempt, and
  `PassedInv` that such a thread was given the right answer.

*The client.*

- `ClientWindowProofs!Typing`: `TypeOK`, in `FullInv` with what the lists need (below)
  and with `OneOutgoing`, that a block yet to be written is a broadcast.
- `ClientWindowProofs!RowNumbers`, `WindowFollows`: neither property is inductive,
  as they say nothing of a list being read nor of a block on its way. `WindowInv` says,
  of a window that is not `astray`, that no block waits to be written, and one of
  two things. Before the list is sent, `ListDue`: the window shows nothing and nothing
  for it is on its way; the rows fetched are those of the table up to the cursor,
  by growing id, and the rest of the table is yet to be read, so that a change
  behind the cursor would be told to nobody and one before it will be in the list.
  From then on `MapAgrees` and `DueInv`, about the blocks that were sent and not yet
  read, wherever they are: ids grow down the table and then along them, through the
  rows of the list too (`IdsGrow`), so `insertRow` at the end keeps the rows in
  order; a deletion comes once, after the insertion (`DeletionsDue`), so the row it
  looks up is there and is not row 0 by default; what the table lacks will be
  inserted, what it has too much deleted (`RowsDue`); the last block that sets a text
  sets that of the store (`TextsDue`). `SendList` goes from the one to the other, the
  `Publish...` extend the blocks at the end, reading takes the first, and with none
  left `WindowFollowsStore` follows. Nothing is assumed of the order of list,
  broadcasts and changes: the steps that break the invariant are those that set
  `astray`.
- `ClientWindowProofs!ListsFollow`: `ListsFollowRequests`. A block of members would
  fill the lists again, over what the buttons have moved; `MembersDue` says that it is
  unread only while the lists are empty, and `ListsPlaced` that no name is on a list
  twice and each is on the list of the role last asked for.
- `ClientNotesProofs!Typing`, `RowsShown`: `TypeOK` and `RowsAreStored` are inductive
  together. The row number of a note is the number of ids up to it; deleting a
  row shifts those behind it, which is where the proof counts.

*The sockets.*

- `SharedDescriptorProofs!Typing`: of `TypeOK` the part that takes a proof is that a
  number stands for one connection at most. `NumbersInv` adds that a client that has
  not closed has its number for itself, `UnusedInv` that a connection not yet
  accepted is nowhere. Both are needed because either of two objects may close the
  number, also when it stands for a later connection by then: what it closes has been
  closed by its client.
- `SharedDescriptorProofs!Acceptance`: `AcceptedAsWritten`. Its invariant `SafeInv`
  knows nothing of whole blocks, as the line may hold anything that losses and
  mixtures leave. Every part on its way is one of a block of a writer on the right
  side, under the key of that writer's session (`PartsTypeOK`, `SidesInv`); parts have
  a rank among those of their writer, and ranks grow along the buffer, then the line,
  then what is being written (`BlocksInv`, `OrderInv`); an accepted message is of
  lower rank than any part of its writer still on its way (`AcceptedInv`). A cipher of
  another session does not decrypt; whichever head stands before it, what is accepted
  is the message of the rest; and what is taken out leaves the others in order.
- `SharedDescriptorProofs!Losses`: `LossHasCause`. `LiveInv` describes a session that
  none of the causes has come to, from the accept on: its bytes are an unbroken row
  of whole blocks, all its own, but for one whose rest is to be written next
  (`OwnInv`, `StreamInv`); each message its writers have begun is accepted or on its
  way (`LocatedInv`); each IV on its way is that of one block and unknown to its
  reader (`IVsInv`). So no block is taken for a repeated one, none fails to parse, and
  when nothing is on its way all have been accepted. No cause
  is ever taken back, so a session without one was in that state all along, and what
  the objects of other sessions do to it is one.

With these, every invariant of the passing runs and the refinement is a theorem,
under the hypotheses named. Only model-checked: the liveness properties
`ClosedSessionsEnd`, `LoginIsSettled`, `MessagesAreStored`, `ArrivalsAreRead`,
`AttemptsEnd`, `BuffersAreEmptied` and `NumbersAreFreed`, which are out of the
prover's reach.

## 5. Not modelled, and the plan

Not modelled: Crypto++, which is vendored and makes up most of the repository's
lines (of the two programs' own lines the map covers about half, the rest being
layout of widgets, headers and second copies of one text); the database scripts and
key files, which are data; the client's `main.cpp`; `create_database()` and
`show_table()`, which no running program calls; the choice of files in
`ConnectDialog`. What could follow:

1. `ChatSystem`, which composes `ClientWindow` with `ChatServer` in place of the
   server it has, which is reduced to one session: a message list that arrives
   before the slot is connected, requests behind an unauthorised one.
2. An abstract specification of `Login`: a login is accepted by both or by neither;
   its outcome is what `ServerThread` assumes.
3. The race of two threads in the container of `m_usedIV`, beyond a lost insertion.
4. Proofs of 2, and of the window's theorems again for `ChatSystem`.
