---------------------------- MODULE ServerThread ----------------------------
(***************************************************************************)
(* One ServerThread per connection: run() in a worker thread, which logs   *)
(* the client in, announces it to the main thread, sends it the messages   *)
(* of the database and serves its requests until the main thread has set   *)
(* m_clientDisconnected.                                                   *)
(*                                                                         *)
(* An action ends where another thread can see or change what comes next:  *)
(* at a write to the socket, an emitted signal, a step of a query.  Where  *)
(* the handshake of challenge() ends is the cryptography's business: here  *)
(* a client passes it only as a user whose private key it holds, and may   *)
(* fail it for any reason (a wrong answer, a time-out, an unknown name).   *)
(***************************************************************************)
EXTENDS QtRuntime, SqlWrapper

CONSTANTS
    KeysOf  \* KeysOf[s]: the users whose private key the client of s holds

ASSUME KeysAssumption == KeysOf \in [Sessions -> SUBSET Users]

\* Where run() is.  "idle" and "backlog" precede the thread's creation.
States == {"idle", "backlog", "run", "authenticate", "announce",
           "openMessages", "fetchMessages", "awaitAck", "authorize",
           "fetchUsers", "initModerator", "mainCycle", "serve", "emit",
           "done"}

VARIABLES
    pc,                    \* where run() of the session's thread is
    m_username,            \* read by authenticate()
    m_clientDisconnected,  \* written by the main thread, ends the main cycle
    seen,                  \* history: length of the log when CheckRole read it
    rows,                  \* rows the thread's open query has given so far
    buffer                 \* blocks read from the socket, not yet served

\* authenticate() has returned CHALLENGE_PASSED and run() goes on.
LoggedIn(s) ==
    pc[s] \notin {"idle", "backlog", "run", "authenticate", "done"}

\* Message rows while the message query is open, user rows while the other is.
ThreadTypeOK ==
    /\ pc \in [Sessions -> States]
    /\ m_username \in [Sessions -> Users \cup {NoName}]
    /\ \A s \in Sessions : LoggedIn(s) => m_username[s] \in Users
    /\ m_clientDisconnected \in [Sessions -> BOOLEAN]
    /\ seen \in [Sessions -> Nat]
    /\ rows \in [Sessions -> Seq(MessageRows \cup UserRows)]
    /\ \A s \in Sessions :
           rows[s] # <<>> =>
               \/ pc[s] = "fetchMessages" /\ rows[s] \in Seq(MessageRows)
               \/ pc[s] = "fetchUsers" /\ rows[s] \in Seq(UserRows)
    /\ buffer \in [Sessions -> Seq(Requests)]

threadVars == <<pc, m_username, m_clientDisconnected, seen, rows, buffer>>

ThreadInit ==
    /\ pc = [s \in Sessions |-> "idle"]
    /\ m_username = [s \in Sessions |-> NoName]
    /\ m_clientDisconnected = [s \in Sessions |-> FALSE]
    /\ seen = [s \in Sessions |-> 0]
    /\ rows = [s \in Sessions |-> <<>>]
    /\ buffer = [s \in Sessions |-> <<>>]

Goto(s, from, to) ==
    /\ pc[s] = from
    /\ pc' = [pc EXCEPT ![s] = to]

\* authorize(): users.role, or 'e' when the query is not active.
authorize(s) ==
    {get_user_role(m_username[s])} \cup (IF ReadsMayFail THEN {"e"} ELSE {})

-----------------------------------------------------------------------------
\* From the new thread to the answer to the login.

\* The descriptor is already gone only if the main thread's own QTcpSocket
\* of the same connection has seen the client close it.
SetSocketDescriptor(s) ==
    /\ \/ /\ Goto(s, "run", "authenticate")
          /\ sock' = [sock EXCEPT ![s] = TRUE]
       \/ /\ peerClosed[s]
          /\ Goto(s, "run", "done")
          /\ UNCHANGED sock
    /\ UNCHANGED <<eventQueue, slotConnected, rx, tx, peerClosed, m_username,
                   m_clientDisconnected, seen, rows, buffer, dbVars>>

\* INCORRECT_CERTIFACATE: run() returns and leaves the socket open.
RejectCertificate(s) ==
    /\ Goto(s, "authenticate", "done")
    /\ UNCHANGED <<eventQueue, socketVars, m_username, m_clientDisconnected,
                   seen, rows, buffer, dbVars>>

\* USER_NOT_FOUND or CHALLENGE_FAILED.  The name the client gave goes into a
\* line of the window's connection list and nowhere else: it is left out.
DenyLogin(s) ==
    /\ Goto(s, "authenticate", "done")
    /\ tx' = [tx EXCEPT ![s] = Append(@, [ind |-> "LOGIN_DENIED"])]
    /\ sock' = [sock EXCEPT ![s] = FALSE]
    /\ Post([signal |-> "userAuthenticationFailed"])
    /\ UNCHANGED <<slotConnected, rx, peerClosed, m_username,
                   m_clientDisconnected, seen, rows, buffer, dbVars>>

\* Mutant of AcceptLogin: m_username is one for all threads.
AcceptLoginForAll(s) ==
    /\ Goto(s, "authenticate", "announce")
    /\ \E user \in KeysOf[s] :
           m_username' = [t \in Sessions |->
                             IF t = s \/ LoggedIn(t) THEN user
                                                    ELSE m_username[t]]
    /\ WriteBlock(s, [ind |-> "LOGIN_OK"])
    /\ UNCHANGED <<slotConnected, rx, peerClosed, m_clientDisconnected, seen,
                   rows, buffer, dbVars>>

\* CHALLENGE_PASSED.
AcceptLogin(s) ==
    /\ Goto(s, "authenticate", "announce")
    /\ \E user \in KeysOf[s] :
           m_username' = [m_username EXCEPT ![s] = user]
    /\ WriteBlock(s, [ind |-> "LOGIN_OK"])
    /\ UNCHANGED <<slotConnected, rx, peerClosed, m_clientDisconnected, seen,
                   rows, buffer, dbVars>>

-----------------------------------------------------------------------------
\* Joining the conversation.

\* Mutant of AnnounceUser: connectedUser() is not emitted.
AnnounceNobody(s) ==
    /\ Goto(s, "announce", "openMessages")
    /\ UNCHANGED <<eventQueue, socketVars, m_username, m_clientDisconnected,
                   seen, rows, buffer, dbVars>>

AnnounceUser(s) ==
    /\ Goto(s, "announce", "openMessages")
    /\ Post([signal |-> "connectedUser", sess |-> s, name |-> m_username[s]])
    /\ UNCHANGED <<socketVars, m_username, m_clientDisconnected, seen, rows,
                   buffer, dbVars>>

\* connect() and get_all_messages(); exec() fetches the first row.
OpenMessages(s) ==
    /\ slotConnected' = [slotConnected EXCEPT ![s] = TRUE]
    /\ \/ /\ Goto(s, "openMessages", "fetchMessages")
          /\ rows' = [rows EXCEPT ![s] = IF IdsAfter(0) = {}
                                            THEN <<>> ELSE <<RowAfter(0)>>]
       \/ /\ ReadsMayFail
          /\ Goto(s, "openMessages", "awaitAck")
          /\ UNCHANGED rows
    /\ UNCHANGED <<eventQueue, sock, rx, tx, peerClosed, m_username,
                   m_clientDisconnected, seen, buffer, dbVars>>

\* The message_id the cursor stands on.
Cursor(s) == rows[s][Len(rows[s])].id

\* Mutant of FetchMessage: the next row is found by its offset.
FetchMessageByOffset(s) ==
    LET offset == Len(rows[s]) + 1
    IN  /\ pc[s] = "fetchMessages"
        /\ rows[s] # <<>>
        /\ \E id \in DOMAIN messages :
               /\ Cardinality({i \in DOMAIN messages : i <= id}) = offset
               /\ rows' = [rows EXCEPT ![s] = Append(@, RowAfter(id - 1))]
        /\ UNCHANGED <<eventQueue, socketVars, pc, m_username,
                       m_clientDisconnected, seen, buffer, dbVars>>

FetchMessage(s) ==
    /\ pc[s] = "fetchMessages"
    /\ rows[s] # <<>>
    /\ IdsAfter(Cursor(s)) # {}
    /\ rows' = [rows EXCEPT ![s] = Append(@, RowAfter(Cursor(s)))]
    /\ UNCHANGED <<eventQueue, socketVars, pc, m_username,
                   m_clientDisconnected, seen, buffer, dbVars>>

\* next() has returned false.
SendMessages(s) ==
    /\ Goto(s, "fetchMessages", "awaitAck")
    /\ rows[s] # <<>> => IdsAfter(Cursor(s)) = {}
    /\ WriteBlock(s, [ind |-> "SEND_INIT_MESSAGES", rows |-> rows[s]])
    /\ rows' = [rows EXCEPT ![s] = <<>>]
    /\ UNCHANGED <<slotConnected, rx, peerClosed, m_username,
                   m_clientDisconnected, seen, buffer, dbVars>>

\* waitForReadyRead() reads what has arrived, readAll() drops all of it.
TakeAck(s) ==
    /\ Goto(s, "awaitAck", "authorize")
    /\ sock[s]
    /\ \E arrived \in 1 .. Len(rx[s]) :
           rx' = [rx EXCEPT ![s] = SubSeq(@, arrived + 1, Len(@))]
    /\ UNCHANGED <<eventQueue, sock, slotConnected, tx, peerClosed,
                   m_username, m_clientDisconnected, seen, rows, buffer,
                   dbVars>>

\* waitForReadyRead() times out after 30 s, or the socket is not connected.
MissAck(s) ==
    /\ Goto(s, "awaitAck", "authorize")
    /\ UNCHANGED <<eventQueue, socketVars, m_username, m_clientDisconnected,
                   seen, rows, buffer, dbVars>>

\* waitForReadyRead() finds that the client has closed its end.
FindClosed(s) ==
    /\ sock[s]
    /\ peerClosed[s]
    /\ rx[s] = <<>>
    /\ \/ Goto(s, "awaitAck", "authorize")
       \/ pc[s] = "mainCycle" /\ ~m_clientDisconnected[s] /\ UNCHANGED pc
    /\ LoseConnection(s)
    /\ UNCHANGED <<slotConnected, rx, tx, peerClosed, m_username,
                   m_clientDisconnected, seen, rows, buffer, dbVars>>

ReadRole(s) ==
    /\ pc[s] = "authorize"
    /\ \E role \in authorize(s) :
           Goto(s, "authorize", CASE role = "a" -> "fetchUsers"
                                  [] role = "m" -> "initModerator"
                                  [] OTHER      -> "mainCycle")
    /\ UNCHANGED <<eventQueue, socketVars, m_username, m_clientDisconnected,
                   seen, rows, buffer, dbVars>>

\* get_all_users() and next(): users is never inserted into or deleted from,
\* so the cursor walks it by user_id.
FetchUser(s) ==
    /\ pc[s] = "fetchUsers"
    /\ Len(rows[s]) < NumUsers
    /\ LET user == Len(rows[s]) + 1
       IN  rows' = [rows EXCEPT ![s] =
                        Append(@, [name |-> user, role |-> roles[user]])]
    /\ UNCHANGED <<eventQueue, socketVars, pc, m_username,
                   m_clientDisconnected, seen, buffer, dbVars>>

SendUsers(s) ==
    /\ Goto(s, "fetchUsers", "mainCycle")
    /\ Len(rows[s]) < NumUsers => ReadsMayFail /\ rows[s] = <<>>
    /\ WriteBlock(s, [ind |-> "USER_MODERATOR_LIST", rows |-> rows[s]])
    /\ rows' = [rows EXCEPT ![s] = <<>>]
    /\ UNCHANGED <<slotConnected, rx, peerClosed, m_username,
                   m_clientDisconnected, seen, buffer, dbVars>>

InitModerator(s) ==
    /\ Goto(s, "initModerator", "mainCycle")
    /\ WriteBlock(s, [ind |-> "INIT_MODERATOR"])
    /\ UNCHANGED <<slotConnected, rx, peerClosed, m_username,
                   m_clientDisconnected, seen, rows, buffer, dbVars>>

-----------------------------------------------------------------------------
\* The main cycle and manageUserQuery().

\* Mutant of ReceiveRequests: what arrived with the first block is dropped.
ReceiveOneRequest(s) ==
    /\ Goto(s, "mainCycle", "serve")
    /\ ~m_clientDisconnected[s]
    /\ sock[s]
    /\ \E arrived \in 1 .. Len(rx[s]) :
           /\ buffer' = [buffer EXCEPT ![s] = Append(@, Head(rx[s]))]
           /\ rx' = [rx EXCEPT ![s] = SubSeq(@, arrived + 1, Len(@))]
    /\ UNCHANGED <<eventQueue, sock, slotConnected, tx, peerClosed,
                   m_username, m_clientDisconnected, seen, rows,
                   dbVars>>

ReceiveRequests(s) ==
    /\ Goto(s, "mainCycle", "serve")
    /\ ~m_clientDisconnected[s]
    /\ sock[s]
    /\ \E arrived \in 1 .. Len(rx[s]) :
           /\ buffer' = [buffer EXCEPT ![s] = @ \o SubSeq(rx[s], 1, arrived)]
           /\ rx' = [rx EXCEPT ![s] = SubSeq(@, arrived + 1, Len(@))]
    /\ UNCHANGED <<eventQueue, sock, slotConnected, tx, peerClosed,
                   m_username, m_clientDisconnected, seen, rows,
                   dbVars>>

\* Mutant of LeaveMainCycle: removeUser() is not emitted.
LeaveSilently(s) ==
    /\ Goto(s, "mainCycle", "done")
    /\ m_clientDisconnected[s]
    /\ UNCHANGED <<eventQueue, socketVars, m_username, m_clientDisconnected,
                   seen, rows, buffer, dbVars>>

\* Mutant of LeaveMainCycle: a time-out of waitForReadyRead() ends the cycle.
LeaveOnTimeOut(s) ==
    /\ Goto(s, "mainCycle", "done")
    /\ Post([signal |-> "removeUser", name |-> m_username[s]])
    /\ UNCHANGED <<socketVars, m_username, m_clientDisconnected, seen, rows,
                   buffer, dbVars>>

LeaveMainCycle(s) ==
    /\ Goto(s, "mainCycle", "done")
    /\ m_clientDisconnected[s]
    /\ Post([signal |-> "removeUser", name |-> m_username[s]])
    /\ UNCHANGED <<socketVars, m_username, m_clientDisconnected, seen, rows,
                   buffer, dbVars>>

\* The roles manageUserQuery() lets through for a kind of request.
RolesAllowed(ind) ==
    CASE ind \in {"DELETE_MESSAGE", "MODIFY_MESSAGE"}       -> {"a", "m"}
      [] ind \in {"SET_NEW_MODERATOR", "DELETE_MODERATOR"} -> {"a"}
      [] OTHER                                              -> Roles

NeedsRole(ind) == RolesAllowed(ind) # Roles

\* The signals a request makes the thread emit, at most one.
Emitted(user, request, at) ==
    CASE request.ind = "ADD_MESSAGE" ->
           <<[signal |-> "addMessage", name |-> user,
              text |-> request.text]>>
      [] request.ind = "DELETE_MESSAGE" ->
           <<[signal |-> "deleteMessage", name |-> user, id |-> request.id,
              seen |-> at]>>
      [] request.ind = "MODIFY_MESSAGE" ->
           <<[signal |-> "modifyMessage", name |-> user, id |-> request.id,
              text |-> request.text, seen |-> at]>>
      [] request.ind = "SET_NEW_MODERATOR" ->
           <<[signal |-> "changeUserRole", name |-> user,
              him |-> request.who, role |-> "m", seen |-> at]>>
      [] request.ind = "DELETE_MODERATOR" ->
           <<[signal |-> "changeUserRole", name |-> user,
              him |-> request.who, role |-> "u", seen |-> at]>>
      [] request.ind = "USER_GET_PASSWORD_HALF" ->
           <<[signal |-> "getUserPasswordHalf", name |-> user]>>
      [] OTHER -> <<>>

\* Mutant of CheckRole: the role does not matter.
CheckNoRole(s) ==
    /\ Goto(s, "serve", "emit")
    /\ buffer[s] # <<>>
    /\ NeedsRole(Head(buffer[s]).ind)
    /\ seen' = [seen EXCEPT ![s] = Len(log)]
    /\ UNCHANGED <<eventQueue, socketVars, m_username, m_clientDisconnected,
                   rows, buffer, dbVars>>

\* authorize(): an unauthorised request makes manageUserQuery() return at
\* once, whatever else is still in the buffer.
CheckRole(s) ==
    /\ pc[s] = "serve"
    /\ buffer[s] # <<>>
    /\ NeedsRole(Head(buffer[s]).ind)
    /\ \E role \in authorize(s) :
           IF role \in RolesAllowed(Head(buffer[s]).ind)
              THEN /\ Goto(s, "serve", "emit")
                   /\ UNCHANGED buffer
              ELSE /\ Goto(s, "serve", "mainCycle")
                   /\ buffer' = [buffer EXCEPT ![s] = Tail(@)]
    /\ seen' = [seen EXCEPT ![s] = Len(log)]
    /\ UNCHANGED <<eventQueue, socketVars, m_username, m_clientDisconnected,
                   rows, dbVars>>

\* emit, once the role is known to allow it or when no role is needed.
EmitRequest(s) ==
    /\ buffer[s] # <<>>
    /\ \/ Goto(s, "emit", "serve")
       \/ pc[s] = "serve" /\ ~NeedsRole(Head(buffer[s]).ind) /\ UNCHANGED pc
    /\ eventQueue' =
           eventQueue \o Emitted(m_username[s], Head(buffer[s]), seen[s])
    /\ buffer' = [buffer EXCEPT ![s] = Tail(@)]
    /\ UNCHANGED <<socketVars, m_username, m_clientDisconnected, seen, rows,
                   dbVars>>

\* peek(1) gives nothing.
EndRequests(s) ==
    /\ buffer[s] = <<>>
    /\ Goto(s, "serve", "mainCycle")
    /\ UNCHANGED <<eventQueue, socketVars, m_username, m_clientDisconnected,
                   seen, rows, buffer, dbVars>>

-----------------------------------------------------------------------------
ThreadStep(s) ==
    \/ SetSocketDescriptor(s)
    \/ RejectCertificate(s)
    \/ DenyLogin(s)
    \/ AcceptLogin(s)
    \/ AnnounceUser(s)
    \/ OpenMessages(s)
    \/ FetchMessage(s)
    \/ SendMessages(s)
    \/ TakeAck(s)
    \/ MissAck(s)
    \/ FindClosed(s)
    \/ ReadRole(s)
    \/ FetchUser(s)
    \/ SendUsers(s)
    \/ InitModerator(s)
    \/ ReceiveRequests(s)
    \/ LeaveMainCycle(s)
    \/ CheckRole(s)
    \/ EmitRequest(s)
    \/ EndRequests(s)

\* disconnectedUser(): called in the main thread, by a queued disconnected()
\* or directly.  It leaves the socket unconnected and ends the main cycle.
DisconnectUsers(gone) ==
    /\ sock' = [s \in Sessions |-> sock[s] /\ s \notin gone]
    /\ m_clientDisconnected' =
           [s \in Sessions |-> m_clientDisconnected[s] \/ s \in gone]
=============================================================================
