----------------------------- MODULE ChatServer -----------------------------
(***************************************************************************)
(* The whole server with its clients: the main thread (EchoServer), one    *)
(* worker per connection (ServerThread), the database (SqlWrapper), and    *)
(* what EchoClient programs may do to them.                                *)
(*                                                                         *)
(* A client behaves as its window lets it: it acknowledges the message     *)
(* list once, sends what its visible buttons send, and may be closed at    *)
(* any time.  MaxRequests, RequestKinds and Closers bound what it does.    *)
(***************************************************************************)
EXTENDS EchoServer, SequencesExt

CONSTANTS
    RequestKinds,  \* bound: the requests the clients send
    MaxRequests,   \* bound: MaxRequests[s] of them by the client of s
    Closers        \* bound: the sessions whose client may close its end

ASSUME BoundAssumption == MaxRequests \in [Sessions -> Nat]

VARIABLES
    sent,   \* requests the client of a session has sent
    acked,  \* it has acknowledged the message list
    moved   \* names its administrator has moved to the other list

clientVars == <<sent, acked, moved>>
vars == <<eventQueue, socketVars, dbVars, threadVars, mainVars, clientVars>>

-----------------------------------------------------------------------------
\* The clients.

Received(s, ind) == \E i \in DOMAIN tx[s] : tx[s][i].ind = ind

\* Every row that the message table of the client's window has had.  The
\* client may be late in reading tx[s], so any of them may still be shown.
AddedRows(s) ==
    {b \in ToSet(tx[s]) : b.ind = "ADD_MESSAGE"}
        \cup UNION {ToSet(list.rows) :
                        list \in {b \in ToSet(tx[s]) :
                                      b.ind = "SEND_INIT_MESSAGES"}}

ShownIds(s) == {row.id : row \in AddedRows(s)}

\* The texts the row of a message has had.
ShownTexts(s, id) ==
    {row.text : row \in
        {r \in AddedRows(s) \cup {b \in ToSet(tx[s]) :
                                      b.ind = "MODIFY_MESSAGE"} : r.id = id}}

\* The delete and modify buttons have been shown at some time.
HasModerated(s) ==
    \E ind \in {"USER_MODERATOR_LIST", "INIT_MODERATOR",
                "SET_NEW_MODERATOR"} : Received(s, ind)

\* Names the user list came with under a role.
ListedAs(s, role) ==
    UNION {{row.name : row \in {r \in ToSet(list.rows) : r.role = role}} :
               list \in {b \in ToSet(tx[s]) : b.ind = "USER_MODERATOR_LIST"}}

\* The two lists of the administrator's tab, m_userList and m_moderatorList.
UserList(s) ==
    (ListedAs(s, "u") \ moved[s]) \cup (ListedAs(s, "m") \cap moved[s])
ModeratorList(s) ==
    (ListedAs(s, "m") \ moved[s]) \cup (ListedAs(s, "u") \cap moved[s])

\* What the window of the client of s lets its user send.
UserRequests(s) ==
    [ind : {"ADD_MESSAGE"}, text : Texts]
        \cup [ind : {"USER_GET_PASSWORD_HALF"}]
        \cup (IF HasModerated(s)
                 THEN [ind : {"DELETE_MESSAGE"}, id : ShownIds(s)]
                      \cup {r \in [ind : {"MODIFY_MESSAGE"},
                                   id : ShownIds(s), text : Texts] :
                                \E old \in ShownTexts(s, r.id) : r.text # old}
                 ELSE {})
        \cup [ind : {"SET_NEW_MODERATOR"}, who : UserList(s)]
        \cup [ind : {"DELETE_MODERATOR"}, who : ModeratorList(s)]

\* connectToHost() completes: the connection waits in the listen backlog.
Connect(s) ==
    /\ Goto(s, "idle", "backlog")
    /\ UNCHANGED <<eventQueue, socketVars, dbVars, m_username,
                   m_clientDisconnected, seen, rows, buffer, mainVars,
                   clientVars>>

SendRequest(s) ==
    /\ Received(s, "LOGIN_OK")
    /\ sock[s]
    /\ ~peerClosed[s]
    /\ sent[s] < MaxRequests[s]
    /\ \E request \in {r \in UserRequests(s) : r.ind \in RequestKinds} :
           /\ rx' = [rx EXCEPT ![s] = Append(@, request)]
           /\ moved' =
                  IF request.ind \in {"SET_NEW_MODERATOR", "DELETE_MODERATOR"}
                     THEN [moved EXCEPT ![s] = SymDiff(@, {request.who})]
                     ELSE moved
    /\ sent' = [sent EXCEPT ![s] = @ + 1]
    /\ UNCHANGED <<eventQueue, sock, slotConnected, tx, peerClosed, dbVars,
                   threadVars, mainVars, acked>>

AckMessages(s) ==
    /\ Received(s, "SEND_INIT_MESSAGES")
    /\ sock[s]
    /\ ~peerClosed[s]
    /\ ~acked[s]
    /\ rx' = [rx EXCEPT ![s] = Append(@, [ind |-> "GOT_MESSAGE_LIST"])]
    /\ acked' = [acked EXCEPT ![s] = TRUE]
    /\ UNCHANGED <<eventQueue, sock, slotConnected, tx, peerClosed, dbVars,
                   threadVars, mainVars, sent, moved>>

CloseClient(s) ==
    /\ s \in Closers
    /\ pc[s] # "idle"
    /\ ~peerClosed[s]
    /\ peerClosed' = [peerClosed EXCEPT ![s] = TRUE]
    /\ UNCHANGED <<eventQueue, sock, slotConnected, rx, tx, dbVars,
                   threadVars, mainVars, clientVars>>

ClientStep(s) ==
    \/ Connect(s)
    \/ SendRequest(s)
    \/ AckMessages(s)
    \/ CloseClient(s)

-----------------------------------------------------------------------------
Init ==
    /\ QtInit
    /\ DbInit
    /\ ThreadInit
    /\ EchoInit
    /\ sent = [s \in Sessions |-> 0]
    /\ acked = [s \in Sessions |-> FALSE]
    /\ moved = [s \in Sessions |-> {}]

Main == MainStep /\ UNCHANGED clientVars

Worker(s) == ThreadStep(s) /\ UNCHANGED <<mainVars, clientVars>>

Next ==
    \/ Main
    \/ \E s \in Sessions : Worker(s) \/ ClientStep(s)

Spec == Init /\ [][Next]_vars

\* The main thread's event loop and the operating system's scheduling of the
\* workers; the time-outs of waitForReadyRead() make a waiting worker go on.
FairSpec ==
    /\ Spec
    /\ WF_vars(Main)
    /\ \A s \in Sessions : WF_vars(Worker(s))

-----------------------------------------------------------------------------
\* Type invariant of the whole state, module by module.
TypeOK ==
    /\ QtTypeOK
    /\ DbTypeOK
    /\ ThreadTypeOK
    /\ m_userSocket \in [Users -> Sessions \cup {NoSocket}]
    /\ outgoing \in Seq([block : Blocks, to : SUBSET Users])
    /\ taken \subseteq Sessions
    /\ sent \in [Sessions -> Nat]
    /\ acked \in [Sessions -> BOOLEAN]
    /\ moved \in [Sessions -> SUBSET Users]

-----------------------------------------------------------------------------
\* Sessions and m_userSocket.

\* run() is past connectedUser(), which it emits only once logged in.
Announced(s) ==
    /\ pc[s] \notin {"idle", "backlog", "run", "authenticate", "announce"}
    /\ m_username[s] # NoName

\* The main thread has run addNewUserToMap() for s.
Settled(s) ==
    /\ Announced(s)
    /\ \A e \in ToSet(eventQueue) : e.signal = "connectedUser" => e.sess # s

\* Safety: the socket the map holds under a name belongs to a client that has
\* the private key of that user, and nothing but a refusal was ever written
\* to a client that has shown none (authenticate(), serverthread.cpp:178, and
\* connectedUser, which carries name and socket to addNewUserToMap).
KeyHoldersOnly ==
    /\ \A u \in Users :
           m_userSocket[u] # NoSocket =>
               /\ u \in KeysOf[m_userSocket[u]]
               /\ m_username[m_userSocket[u]] = u
    /\ \A s \in Sessions :
           (\E i \in DOMAIN tx[s] : tx[s][i].ind # "LOGIN_DENIED") =>
               m_username[s] \in KeysOf[s]

\* Safety: no entry of the map outlives its thread for good: once the thread
\* of a registered socket has ended, removeUser() for that name is queued.
\* Otherwise the name could never log in again (addNewUserToMap refuses a
\* name already in the map, echoserver.cpp:142).
FinishedSessionsLeave ==
    \A u \in Users :
        (m_userSocket[u] # NoSocket /\ pc[m_userSocket[u]] = "done") =>
            \E i \in DOMAIN eventQueue :
                eventQueue[i] = [signal |-> "removeUser", name |-> u]

\* Safety, when no two clients log in under one name: a session stays in the
\* map from addNewUserToMap() until the main thread has disconnected it.
\* removeUserFromMap (echoserver.cpp:171) removes by name, so with two logins
\* of one name the end of the refused one removes the other.
LiveSessionsRegistered ==
    \A s \in Sessions :
        Settled(s) /\ ~m_clientDisconnected[s] =>
            m_userSocket[m_username[s]] = s

-----------------------------------------------------------------------------
\* The log, the database and what is broadcast.

\* What a client's copy of the table becomes when it is told of a block.
ApplyBlock(table, block) ==
    CASE block.ind = "ADD_MESSAGE" ->
           [id \in DOMAIN table \cup {block.id} |->
               IF id = block.id
                  THEN [user |-> block.name, text |-> block.text]
                  ELSE table[id]]
      [] block.ind = "DELETE_MESSAGE" ->
           [id \in DOMAIN table \ {block.id} |-> table[id]]
      [] block.ind = "MODIFY_MESSAGE" ->
           [id \in DOMAIN table |->
               IF id = block.id THEN [table[id] EXCEPT !.text = block.text]
                                ELSE table[id]]
      [] OTHER -> table

\* What it has become when it has been told of every entry, oldest first.
Replayed(entries) ==
    LET table[n \in 0 .. Len(entries)] ==
            IF n = 0 THEN InitMessages
                     ELSE ApplyBlock(table[n - 1], entries[n].block)
    IN  table[Len(entries)]

\* Safety: the blocks the slots broadcast say what they did to the database:
\* applied in order to the initial table they give the table, so that the id
\* get_message_id() finds by text and author is the id of the row just
\* inserted (echoserver.cpp:192).
BroadcastsReplayStore == messages = Replayed(log)

\* Safety: no message_id is ever announced for two messages, even after the
\* first is deleted: a delete or modify request still on its way names the
\* message its sender saw (AUTOINCREMENT, sqlwrapper.cpp:209).
IdsNeverReused ==
    LET added == {i \in DOMAIN log : log[i].block.ind = "ADD_MESSAGE"}
    IN  \A i, j \in added :
            /\ log[i].block.id > Len(InitMessages)
            /\ i < j => log[i].block.id < log[j].block.id

\* users.role of user after the first n entries of the log.
HadRole(user, role, n) ==
    LET Sets(i) == /\ log[i].event.signal = "changeUserRole"
                   /\ log[i].event.him = user
    IN  \/ /\ InitRoles[user] = role
           /\ \A i \in 1 .. n : ~Sets(i)
        \/ \E i \in 1 .. n :
               /\ Sets(i)
               /\ log[i].event.role = role
               /\ \A j \in i + 1 .. n : ~Sets(j)

\* The roles that may ask for a slot to be run.
RolesFor(signal) ==
    CASE signal \in {"deleteMessage", "modifyMessage"} -> {"a", "m"}
      [] signal = "changeUserRole"                     -> {"a"}
      [] OTHER                                         -> Roles

\* Safety: a moderation request that takes effect was let through by a role
\* its sender really had in the table when the worker looked, not by one it
\* had at login or one that an earlier entry of the log had taken away.  The
\* main thread may have changed the role since (serverthread.cpp:259-276).
ModerationAuthorised ==
    \A i \in DOMAIN log :
        LET e == log[i].event
        IN  RolesFor(e.signal) # Roles =>
                \E role \in RolesFor(e.signal) : HadRole(e.name, role, e.seen)

\* Safety: a message list has each message once, by increasing id, and has
\* every message of the initial table that nobody has deleted, whatever was
\* inserted and deleted while the cursor was open (sqlwrapper.cpp:109,
\* serverthread.cpp:73).
MessageListsComplete ==
    LET deleted == {log[i].block.id : i \in {j \in DOMAIN log :
                        log[j].block.ind = "DELETE_MESSAGE"}}
    IN  \A s \in Sessions : \A block \in ToSet(tx[s]) :
            block.ind = "SEND_INIT_MESSAGES" =>
                /\ \A i, j \in DOMAIN block.rows :
                       i < j => block.rows[i].id < block.rows[j].id
                /\ DOMAIN InitMessages \ deleted
                       \subseteq {row.id : row \in ToSet(block.rows)}

-----------------------------------------------------------------------------
\* The server implements GroupBroadcast.

IsBroadcast(block) ==
    block.ind \in {"ADD_MESSAGE", "DELETE_MESSAGE", "MODIFY_MESSAGE",
                   "USER_GET_PASSWORD_HALF"}

Members ==
    {s \in Sessions : sock[s] /\ \E u \in Users : m_userSocket[u] = s}

\* Those of the blocks that are broadcasts, in their order.
BroadcastsAmong(blocks) ==
    LET among[n \in 0 .. Len(blocks)] ==
            IF n = 0 THEN <<>>
            ELSE IF IsBroadcast(blocks[n])
                    THEN Append(among[n - 1], blocks[n])
                    ELSE among[n - 1]
    IN  among[Len(blocks)]

\* The blocks WriteBlocks has written: all of the log but the pending one.
Published ==
    BroadcastsAmong([i \in 1 .. Len(log) - Len(outgoing) |-> log[i].block])

Delivered == [s \in Sessions |-> BroadcastsAmong(tx[s])]

Group == INSTANCE GroupBroadcast WITH
    members   <- Members,
    past      <- {s \in Sessions : Settled(s)},
    published <- Published,
    delivered <- Delivered

\* Refinement: all sessions see the broadcasts in one order, and each misses
\* none between the time it enters the map and the time it leaves it or its
\* socket fails (echoserver.cpp:140-251, 279-297).
ImplementsGroupBroadcast == Group!Spec

-----------------------------------------------------------------------------
\* Liveness.

\* Once the signal disconnected() is connected, a client that closes its end
\* ends its thread and leaves the map: the main cycle reads end of file, the
\* main thread runs disconnectedUser(), the thread emits removeUser()
\* (serverthread.cpp:124-140, 302-308).
ClosedSessionsEnd ==
    \A s \in Sessions :
        peerClosed[s] /\ slotConnected[s] /\ sock[s] ~>
            pc[s] = "done" /\ \A u \in Users : m_userSocket[u] # s

\* A client that has been told LOGIN_OK is put into the map or disconnected
\* (echoserver.cpp:140-161).
LoginIsSettled ==
    \A s \in Sessions :
        pc[s] = "announce" ~>
            m_clientDisconnected[s] \/ \E u \in Users : m_userSocket[u] = s

\* The messages of a user that sendMessage() has stored.
AddedBy(user) ==
    {i \in DOMAIN log : /\ log[i].event.signal = "addMessage"
                        /\ log[i].event.name = user}

\* A message that has arrived when the worker is in its main cycle, alone or
\* behind other blocks, is stored, whether or not its sender is in the map or
\* closes meanwhile, unless the server has lost the connection, the main
\* thread's socket has taken blocks of it (echoserver.cpp:97) or there is no
\* room for it (serverthread.cpp:124-138, 241-247, echoserver.cpp:186).
MessagesAreStored ==
    \A s \in Sessions : \A k \in 0 .. MaxMessageId - 1 :
        /\ pc[s] \in {"mainCycle", "serve", "emit"}
        /\ \E i \in DOMAIN rx[s] : rx[s][i].ind = "ADD_MESSAGE"
        /\ Cardinality(AddedBy(m_username[s])) = k
        ~> \/ Cardinality(AddedBy(m_username[s])) > k
           \/ sqlite_sequence = MaxMessageId
           \/ ~sock[s]
           \/ s \in taken

-----------------------------------------------------------------------------
\* What comments and messages of the code say, and the code does not do.

\* "Sending all messages from database" (serverthread.cpp:64): a client in
\* the map that has its message list has been sent every message of the
\* database, in the list or as a broadcast.
AllMessagesSent ==
    \A s \in Members :
        Received(s, "SEND_INIT_MESSAGES") /\ outgoing = <<>> =>
            DOMAIN messages \subseteq ShownIds(s)

\* "Now you are not a moderator" (echoclient.cpp:349): who has been told so is
\* not put into moderator mode again by a role that was read before (a worker
\* reads it at serverthread.cpp:88 and writes INIT_MODERATOR later).
DismissalLasts ==
    \A s \in Sessions : \A i, j \in DOMAIN tx[s] :
        i < j /\ tx[s][i].ind = "DELETE_MODERATOR"
              /\ tx[s][j].ind = "INIT_MODERATOR" =>
            \E k \in i .. j : tx[s][k].ind = "SET_NEW_MODERATOR"
=============================================================================
