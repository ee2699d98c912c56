----------------------------- MODULE EchoServer -----------------------------
(***************************************************************************)
(* The main thread: it starts a ServerThread for each connection, keeps    *)
(* m_userSocket, and runs the slots the threads' signals are queued for,   *)
(* one at a time, in the order they were posted.  It alone writes the      *)
(* database and m_userSocket.                                              *)
(*                                                                         *)
(* A slot that changes the database and then tells the users takes two     *)
(* steps, since the workers read the database and write their own sockets  *)
(* in between: Dispatch runs the slot up to its loop of writeBlock() calls *)
(* and leaves the block and the names it is for in "outgoing"; WriteBlocks *)
(* is the loop.  The loop is one step: what a worker does meanwhile is to  *)
(* its own socket, which the loop touches once.                            *)
(***************************************************************************)
EXTENDS ServerThread

VARIABLES
    m_userSocket,  \* name |-> session of the socket, or NoSocket
    outgoing,      \* <<>>, or the one block the running slot has to write
    taken          \* history: sessions the main thread has taken blocks of

mainVars == <<m_userSocket, outgoing, taken, log>>

EchoInit ==
    /\ m_userSocket = [u \in Users |-> NoSocket]
    /\ outgoing = <<>>
    /\ taken = {}

\* incomingConnection and newConnection(): the thread is created and started
\* on the descriptor of the main thread's QTcpSocket, which stays open and may
\* close the number when the client has closed: the worker then finds its
\* connection lost, as it may anyway.
NewUser(s) ==
    /\ outgoing = <<>>
    /\ Goto(s, "backlog", "run")
    /\ UNCHANGED <<eventQueue, socketVars, m_username, m_clientDisconnected,
                   seen, rows, buffer, dbVars, mainVars>>

\* That QTcpSocket also waits for the connection's bytes, and the event loop
\* may find them before the worker does.  It takes all that has arrived into
\* a buffer that nobody reads.
TakeBlocks(s) ==
    /\ outgoing = <<>>
    /\ pc[s] \notin {"idle", "backlog"}
    /\ \E arrived \in 1 .. Len(rx[s]) :
           rx' = [rx EXCEPT ![s] = SubSeq(@, arrived + 1, Len(@))]
    /\ taken' = taken \cup {s}
    /\ UNCHANGED <<eventQueue, sock, slotConnected, tx, peerClosed, threadVars,
                   dbVars, m_userSocket, outgoing, log>>

-----------------------------------------------------------------------------
\* The slots.  Each is given the signal at the head of the queue.

\* Mutant of addNewUserToMap: the newcomer takes the holder's place.
replaceUserInMap(e) ==
    /\ e.signal = "connectedUser"
    /\ m_userSocket' = [m_userSocket EXCEPT ![e.name] = e.sess]
    /\ UNCHANGED <<sock, m_clientDisconnected, dbVars, outgoing, log>>

\* A name already in the map: the newcomer is disconnected, not the holder.
addNewUserToMap(e) ==
    /\ e.signal = "connectedUser"
    /\ IF m_userSocket[e.name] = NoSocket
          THEN /\ m_userSocket' = [m_userSocket EXCEPT ![e.name] = e.sess]
               /\ UNCHANGED <<sock, m_clientDisconnected>>
          ELSE /\ DisconnectUsers({e.sess})
               /\ UNCHANGED m_userSocket
    /\ UNCHANGED <<dbVars, outgoing, log>>

\* By name: whichever session's socket the map holds under it.
removeUserFromMap(e) ==
    /\ e.signal = "removeUser"
    /\ m_userSocket' = [m_userSocket EXCEPT ![e.name] = NoSocket]
    /\ UNCHANGED <<sock, m_clientDisconnected, dbVars, outgoing, log>>

userAuthenticationFailed(e) ==
    /\ e.signal = "userAuthenticationFailed"
    /\ UNCHANGED <<sock, m_clientDisconnected, m_userSocket, dbVars, outgoing,
                   log>>

disconnectedUser(e) ==
    /\ e.signal = "disconnected"
    /\ DisconnectUsers({e.sess})
    /\ UNCHANGED <<m_userSocket, dbVars, outgoing, log>>

\* The rest of a slot whose query has succeeded: "block" is to be written to
\* the sockets of the users "to".
Tell(e, block, to) ==
    /\ outgoing' = <<[block |-> block, to |-> to]>>
    /\ log' = Append(log, [event |-> e, block |-> block])
    /\ UNCHANGED <<sock, m_clientDisconnected, m_userSocket>>

\* The id comes from a second query, by text and author.
sendMessage(e) ==
    /\ e.signal = "addMessage"
    /\ add_message(e.name, e.text)
    /\ \E id \in {get_message_id(messages', e.name, e.text)}
                     \cup (IF ReadsMayFail THEN {0} ELSE {}) :
           Tell(e, [ind |-> "ADD_MESSAGE", id |-> id, name |-> e.name,
                    text |-> e.text], Users)

deleteMessage(e) ==
    /\ e.signal = "deleteMessage"
    /\ delete_message(e.id)
    /\ Tell(e, [ind |-> "DELETE_MESSAGE", id |-> e.id], Users)

modifyMessage(e) ==
    /\ e.signal = "modifyMessage"
    /\ modify_message(e.id, e.text)
    /\ Tell(e, [ind |-> "MODIFY_MESSAGE", id |-> e.id, text |-> e.text],
            Users)

\* Only the user whose role it is gets told.
changeUserRole(e) ==
    /\ e.signal = "changeUserRole"
    /\ change_user_role(e.him, e.role)
    /\ Tell(e, [ind |-> IF e.role = "m" THEN "SET_NEW_MODERATOR"
                                        ELSE "DELETE_MODERATOR"], {e.him})

\* Everybody gets the half of the one who asked.
getUserPasswordHalf(e) ==
    /\ e.signal = "getUserPasswordHalf"
    /\ UNCHANGED dbVars
    /\ \E half \in {e.name} \cup (IF ReadsMayFail THEN {NoName} ELSE {}) :
           Tell(e, [ind |-> "USER_GET_PASSWORD_HALF", half |-> half], Users)

\* The early return of the four slots that write the database.
failToWrite(e) ==
    /\ e.signal \in {"addMessage", "deleteMessage", "modifyMessage",
                     "changeUserRole"}
    /\ \/ WritesMayFail
       \/ e.signal = "addMessage" /\ sqlite_sequence = MaxMessageId
    /\ UNCHANGED <<sock, m_clientDisconnected, m_userSocket, dbVars, outgoing,
                   log>>

Dispatch ==
    /\ outgoing = <<>>
    /\ eventQueue # <<>>
    /\ eventQueue' = Tail(eventQueue)
    /\ LET e == Head(eventQueue)
       IN  \/ addNewUserToMap(e)
           \/ removeUserFromMap(e)
           \/ userAuthenticationFailed(e)
           \/ disconnectedUser(e)
           \/ sendMessage(e)
           \/ deleteMessage(e)
           \/ modifyMessage(e)
           \/ changeUserRole(e)
           \/ getUserPasswordHalf(e)
           \/ failToWrite(e)
    /\ UNCHANGED <<slotConnected, rx, tx, peerClosed, pc, m_username, seen,
                   rows, buffer, taken>>

-----------------------------------------------------------------------------
\* The sessions whose socket a block for the users "to" reaches.
Reached(to) ==
    {s \in Sessions : sock[s] /\ \E u \in to : m_userSocket[u] = s}

\* A write that fails closes the socket in the main thread, where
\* disconnected() calls disconnectedUser() directly if they are connected.
WriteBlocks ==
    /\ outgoing # <<>>
    /\ outgoing' = <<>>
    /\ LET o == Head(outgoing)
       IN  \E failed \in SUBSET {s \in Reached(o.to) : peerClosed[s]} :
               /\ tx' = [s \in Sessions |->
                            IF s \in Reached(o.to) \ failed
                               THEN Append(tx[s], o.block) ELSE tx[s]]
               /\ sock' = [s \in Sessions |-> sock[s] /\ s \notin failed]
               /\ m_clientDisconnected' =
                      [s \in Sessions |->
                          \/ m_clientDisconnected[s]
                          \/ s \in failed /\ slotConnected[s]]
    /\ UNCHANGED <<eventQueue, slotConnected, rx, peerClosed, pc, m_username,
                   seen, rows, buffer, dbVars, m_userSocket, taken, log>>

MainStep ==
    \/ Dispatch
    \/ WriteBlocks
    \/ \E s \in Sessions : NewUser(s) \/ TakeBlocks(s)
=============================================================================
