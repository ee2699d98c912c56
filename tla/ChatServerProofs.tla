-------------------------- MODULE ChatServerProofs --------------------------
(***************************************************************************)
(* Theorems about the whole server, for any number of users, sessions,     *)
(* texts and message ids, and whatever the clients do.  The lemmas they    *)
(* rest on follow the modules: what the queries and updates of SqlWrapper  *)
(* return and preserve, the steps of a thread, those of the main thread    *)
(* and of the clients.                                                     *)
(***************************************************************************)
EXTENDS ChatServer, SequenceTheorems, WellFoundedInduction, TLAPS

-----------------------------------------------------------------------------
\* The database.

\* A nonempty set of naturals has a least element, and Min is it.
LEMMA NatMin ==
    ASSUME NEW S, S \subseteq Nat, S # {}
    PROVE  Min(S) \in S /\ \A y \in S : Min(S) <= y
<1> DEFINE less == OpToRel(<, Nat)
<1>1. IsWellFoundedOn(less, Nat)
  BY NatLessThanWellFounded
<1>2. \E x \in S : \A y \in S : ~(<<y, x>> \in less)
  <2> HIDE DEF less
  <2> QED BY <1>1, WFMin
<1>3. PICK x \in S : \A y \in S : ~(<<y, x>> \in less)
  BY <1>2
<1>4. \A y \in S : ~(y < x)
  BY <1>3 DEF OpToRel
<1>5. \A y \in S : x <= y
  BY <1>4
<1> QED BY <1>5 DEF Min

\* A nonempty bounded set of naturals has a greatest element, and Max is it.
LEMMA NatMax ==
    ASSUME NEW n \in Nat, NEW S, S \subseteq 0 .. n, S # {}
    PROVE  Max(S) \in S /\ \A y \in S : Max(S) >= y
<1> DEFINE T == {n - y : y \in S}
<1>1. T \subseteq Nat
  <2> SUFFICES ASSUME NEW y \in S PROVE n - y \in Nat
    OBVIOUS
  <2> QED OBVIOUS
<1>2. T # {}
  <2> PICK y \in S : TRUE
    OBVIOUS
  <2>1. n - y \in T
    OBVIOUS
  <2> QED BY <2>1
<1>3. Min(T) \in T /\ \A y \in T : Min(T) <= y
  <2> HIDE DEF T
  <2> QED BY <1>1, <1>2, NatMin
<1>4. PICK x \in S : Min(T) = n - x
  BY <1>3
<1>5. \A y \in S : x >= y
  <2> SUFFICES ASSUME NEW y \in S PROVE x >= y
    OBVIOUS
  <2>1. n - x <= n - y
    BY <1>3, <1>4
  <2> QED BY <2>1
<1> QED BY <1>5 DEF Max

\* The row a message cursor gives next is a row of the table, with an id
\* greater than the cursor.
LEMMA RowAfterType ==
    ASSUME DbTypeOK, NEW cursor \in Nat, IdsAfter(cursor) # {}
    PROVE  /\ RowAfter(cursor) \in MessageRows
           /\ RowAfter(cursor).id \in IdsAfter(cursor)
<1> DEFINE id == Min(IdsAfter(cursor))
<1>1. IdsAfter(cursor) \subseteq Nat
  BY DEF IdsAfter, DbTypeOK, MessageIds
<1>2. id \in IdsAfter(cursor)
  BY <1>1, NatMin
<1>3. id \in DOMAIN messages
  BY <1>2 DEF IdsAfter
<1>4. id \in MessageIds
  BY <1>3, IdsAssumption DEF DbTypeOK, MessageIds
<1>5. messages[id] \in [user : Users, text : Texts]
  BY <1>3 DEF DbTypeOK
<1>6. RowAfter(cursor) =
          [id |-> id, name |-> messages[id].user, text |-> messages[id].text]
  BY DEF RowAfter
<1> HIDE DEF id
<1> QED BY <1>2, <1>4, <1>5, <1>6 DEF MessageRows

\* The id looked up for the row add_message has just inserted is its id.
LEMMA AddedIdFound ==
    ASSUME DbTypeOK, NEW user \in Users, NEW text \in Texts,
           add_message(user, text)
    PROVE  get_message_id(messages', user, text) = sqlite_sequence'
<1> DEFINE id  == sqlite_sequence'
           ids == {i \in DOMAIN messages' :
                       messages'[i].user = user /\ messages'[i].text = text}
<1>1. sqlite_sequence \in Nat /\ id = sqlite_sequence + 1
  BY DEF add_message, DbTypeOK, MessageIds
<1>2. /\ DOMAIN messages' = DOMAIN messages \cup {id}
      /\ messages'[id] = [user |-> user, text |-> text]
  BY <1>1 DEF add_message
<1>3. id \in ids
  BY <1>2
<1>4. ids \subseteq 0 .. id
  <2>1. DOMAIN messages \subseteq 1 .. sqlite_sequence
    BY DEF DbTypeOK
  <2>2. ids \subseteq DOMAIN messages \cup {id}
    BY <1>2
  <2> HIDE DEF ids, id
  <2> QED BY <1>1, <2>1, <2>2
<1>5. Max(ids) \in ids /\ \A y \in ids : Max(ids) >= y
  <2>1. id \in Nat /\ ids # {}
    BY <1>1, <1>3
  <2> HIDE DEF ids, id
  <2> QED BY <1>4, <2>1, NatMax
<1>6. Max(ids) = id
  <2>1. id \in Nat
    BY <1>1
  <2>2. Max(ids) \in 0 .. id
    BY <1>4, <1>5
  <2>3. Max(ids) >= id
    BY <1>3, <1>5
  <2> HIDE DEF ids, id
  <2> QED BY <2>1, <2>2, <2>3
<1> QED BY <1>3, <1>6 DEF get_message_id

\* Every update keeps the tables well formed.
LEMMA AddMessageType ==
    ASSUME DbTypeOK, NEW user \in Users, NEW text \in Texts,
           add_message(user, text)
    PROVE  DbTypeOK'
<1>1. /\ sqlite_sequence \in Nat
      /\ sqlite_sequence' = sqlite_sequence + 1
      /\ sqlite_sequence' \in MessageIds
      /\ roles' = roles
  BY DEF add_message, DbTypeOK, MessageIds
<1>2. messages' = [i \in DOMAIN messages \cup {sqlite_sequence'} |->
                       IF i = sqlite_sequence'
                          THEN [user |-> user, text |-> text]
                          ELSE messages[i]]
  BY <1>1 DEF add_message
<1>3. DOMAIN messages' = DOMAIN messages \cup {sqlite_sequence'}
  BY <1>2
<1>4. messages' \in [DOMAIN messages' -> [user : Users, text : Texts]]
  BY <1>2, <1>3 DEF DbTypeOK
<1>5. DOMAIN messages' \subseteq 1 .. sqlite_sequence'
  BY <1>1, <1>3 DEF DbTypeOK
<1> QED BY <1>1, <1>4, <1>5 DEF DbTypeOK

LEMMA DeleteMessageType ==
    ASSUME DbTypeOK, NEW id \in MessageIds, delete_message(id)
    PROVE  DbTypeOK'
<1>1. DOMAIN messages' = DOMAIN messages \ {id}
  BY DEF delete_message
<1>2. messages' \in [DOMAIN messages' -> [user : Users, text : Texts]]
  BY <1>1 DEF delete_message, DbTypeOK
<1> QED BY <1>1, <1>2 DEF delete_message, DbTypeOK

LEMMA ModifyMessageType ==
    ASSUME DbTypeOK, NEW id \in MessageIds, NEW text \in Texts,
           modify_message(id, text)
    PROVE  DbTypeOK'
<1>1. DOMAIN messages' = DOMAIN messages
  BY DEF modify_message
<1>2. messages' \in [DOMAIN messages' -> [user : Users, text : Texts]]
  <2>1. ASSUME NEW i \in DOMAIN messages
        PROVE  messages'[i] \in [user : Users, text : Texts]
    <3>1. messages[i] \in [user : Users, text : Texts]
      BY DEF DbTypeOK
    <3>2. messages'[i] = IF i = id
                            THEN [messages[i] EXCEPT !.text = text]
                            ELSE messages[i]
      BY DEF modify_message
    <3> QED BY <3>1, <3>2
  <2> QED BY <1>1, <2>1 DEF modify_message
<1> QED BY <1>1, <1>2 DEF modify_message, DbTypeOK

LEMMA ChangeRoleType ==
    ASSUME DbTypeOK, NEW user \in Users, NEW role \in {"m", "u"},
           change_user_role(user, role)
    PROVE  DbTypeOK'
BY DEF DbTypeOK, change_user_role, Roles

-----------------------------------------------------------------------------
\* A worker thread.

WorkerTypeOK == QtTypeOK /\ DbTypeOK /\ ThreadTypeOK

-----------------------------------------------------------------------------
\* What the threads post and write.

LEMMA EventsPosted ==
    ASSUME NEW s \in Sessions, NEW u \in Users
    PROVE  /\ [signal |-> "connectedUser", sess |-> s, name |-> u] \in Events
           /\ [signal |-> "disconnected", sess |-> s] \in Events
           /\ [signal |-> "removeUser", name |-> u] \in Events
           /\ [signal |-> "userAuthenticationFailed"] \in Events
BY DEF Events

LEMMA EmittedType ==
    ASSUME NEW user \in Users, NEW request \in Requests, NEW at \in Nat
    PROVE  Emitted(user, request, at) \in Seq(Events)
<1>1. CASE request \in [ind : {"ADD_MESSAGE"}, text : Texts]
  <2> DEFINE e == [signal |-> "addMessage", name |-> user,
                   text |-> request.text]
  <2>1. Emitted(user, request, at) = <<e>>
    BY <1>1 DEF Emitted
  <2>2. e \in Events
    BY <1>1 DEF Events
  <2> HIDE DEF e
  <2> QED BY <2>1, <2>2
<1>2. CASE request \in [ind : {"DELETE_MESSAGE"}, id : MessageIds]
  <2> DEFINE e == [signal |-> "deleteMessage", name |-> user,
                   id |-> request.id, seen |-> at]
  <2>1. Emitted(user, request, at) = <<e>>
    BY <1>2 DEF Emitted
  <2>2. e \in Events
    BY <1>2 DEF Events
  <2> HIDE DEF e
  <2> QED BY <2>1, <2>2
<1>3. CASE request \in [ind : {"MODIFY_MESSAGE"}, id : MessageIds,
                        text : Texts]
  <2> DEFINE e == [signal |-> "modifyMessage", name |-> user,
                   id |-> request.id, text |-> request.text, seen |-> at]
  <2>1. Emitted(user, request, at) = <<e>>
    BY <1>3 DEF Emitted
  <2>2. e \in Events
    BY <1>3 DEF Events
  <2> HIDE DEF e
  <2> QED BY <2>1, <2>2
<1>4. CASE request \in [ind : {"SET_NEW_MODERATOR", "DELETE_MODERATOR"},
                        who : Users]
  <2> DEFINE role == IF request.ind = "SET_NEW_MODERATOR" THEN "m" ELSE "u"
             e == [signal |-> "changeUserRole", name |-> user,
                   him |-> request.who, role |-> role, seen |-> at]
  <2>1. Emitted(user, request, at) = <<e>>
    BY <1>4 DEF Emitted
  <2>2. e \in Events
    BY <1>4 DEF Events
  <2> HIDE DEF e, role
  <2> QED BY <2>1, <2>2
<1>5. CASE request \in [ind : {"USER_GET_PASSWORD_HALF",
                               "GOT_MESSAGE_LIST"}]
  <2> DEFINE e == [signal |-> "getUserPasswordHalf", name |-> user]
  <2>1. \/ Emitted(user, request, at) = <<e>>
        \/ Emitted(user, request, at) = <<>>
    BY <1>5 DEF Emitted
  <2>2. e \in Events
    BY <1>5 DEF Events
  <2>3. <<e>> \in Seq(Events) /\ <<>> \in Seq(Events)
    <3> HIDE DEF e
    <3> QED BY <2>2, EmptySeq
  <2> QED BY <2>1, <2>3
<1> QED BY <1>1, <1>2, <1>3, <1>4, <1>5 DEF Requests

LEMMA AnswersSent ==
    /\ [ind |-> "LOGIN_OK"] \in Blocks
    /\ [ind |-> "LOGIN_DENIED"] \in Blocks
    /\ [ind |-> "INIT_MODERATOR"] \in Blocks
    /\ \A list \in Seq(MessageRows) :
           [ind |-> "SEND_INIT_MESSAGES", rows |-> list] \in Blocks
    /\ \A list \in Seq(UserRows) :
           [ind |-> "USER_MODERATOR_LIST", rows |-> list] \in Blocks
BY DEF Blocks, Answers

LEMMA LoseConnectionType ==
    ASSUME QtTypeOK, NEW s \in Sessions, LoseConnection(s)
    PROVE  /\ sock' \in [Sessions -> BOOLEAN]
           /\ eventQueue' \in Seq(Events)
<1>1. sock' \in [Sessions -> BOOLEAN]
  BY DEF LoseConnection, QtTypeOK
<1> DEFINE e == [signal |-> "disconnected", sess |-> s]
<1>2. e \in Events
  BY DEF Events
<1>3. eventQueue' \in Seq(Events)
  <2>1. eventQueue' = eventQueue \/ eventQueue' = Append(eventQueue, e)
    BY DEF LoseConnection, Post
  <2>2. eventQueue \in Seq(Events)
    BY DEF QtTypeOK
  <2>3. Append(eventQueue, e) \in Seq(Events)
    BY <1>2, <2>2, AppendProperties
  <2> HIDE DEF e
  <2> QED BY <2>1, <2>2, <2>3
<1> QED BY <1>1, <1>3

LEMMA WriteBlockType ==
    ASSUME QtTypeOK, NEW s \in Sessions, NEW block \in Blocks,
           WriteBlock(s, block)
    PROVE  /\ sock' \in [Sessions -> BOOLEAN]
           /\ eventQueue' \in Seq(Events)
           /\ tx' \in [Sessions -> Seq(Blocks)]
<1>1. CASE LoseConnection(s) /\ UNCHANGED tx
  BY <1>1, LoseConnectionType DEF QtTypeOK
<1>2. CASE /\ tx' = [tx EXCEPT ![s] = Append(@, block)]
           /\ UNCHANGED <<sock, eventQueue>>
  BY <1>2 DEF QtTypeOK
<1>3. CASE UNCHANGED <<sock, tx, eventQueue>>
  BY <1>3 DEF QtTypeOK
<1> QED BY <1>1, <1>2, <1>3 DEF WriteBlock

-----------------------------------------------------------------------------
\* Control.

LEMMA DbUnchanged ==
    ASSUME DbTypeOK, UNCHANGED dbVars
    PROVE  DbTypeOK'
BY DEF DbTypeOK, dbVars

LEMMA StatesReached ==
    /\ {"backlog", "run", "authenticate", "announce", "openMessages"}
           \subseteq States
    /\ {"fetchMessages", "awaitAck", "authorize", "fetchUsers"}
           \subseteq States
    /\ {"initModerator", "mainCycle", "serve", "emit", "done"}
           \subseteq States
BY DEF States

LEMMA GotoType ==
    ASSUME ThreadTypeOK, NEW s \in Sessions, NEW from, NEW to \in States,
           Goto(s, from, to)
    PROVE  /\ pc' \in [Sessions -> States]
           /\ pc[s] = from
           /\ pc'[s] = to
           /\ \A t \in Sessions : t # s => pc'[t] = pc[t]
BY DEF ThreadTypeOK, Goto

\* A move that opens and closes no query, and logs nobody in.
LEMMA GotoKeepsThread ==
    ASSUME ThreadTypeOK, NEW s \in Sessions, NEW from, NEW to \in States,
           Goto(s, from, to),
           from \notin {"fetchMessages", "fetchUsers"},
           \/ from \notin {"idle", "backlog", "run", "authenticate", "done"}
           \/ to \in {"idle", "backlog", "run", "authenticate", "done"},
           UNCHANGED <<m_username, m_clientDisconnected, rows>>,
           seen' \in [Sessions -> Nat],
           buffer' \in [Sessions -> Seq(Requests)]
    PROVE  ThreadTypeOK'
<1>1. /\ pc' \in [Sessions -> States]
      /\ pc[s] = from
      /\ pc'[s] = to
      /\ \A t \in Sessions : t # s => pc'[t] = pc[t]
  BY GotoType
<1>2. \A t \in Sessions : LoggedIn(t)' => m_username'[t] \in Users
  <2> SUFFICES ASSUME NEW t \in Sessions, LoggedIn(t)'
               PROVE  m_username[t] \in Users
    OBVIOUS
  <2>1. LoggedIn(t)
    BY <1>1 DEF LoggedIn
  <2> QED BY <2>1 DEF ThreadTypeOK
<1>3. rows[s] = <<>>
  BY <1>1 DEF ThreadTypeOK
<1>4. \A t \in Sessions :
          rows'[t] # <<>> =>
              \/ pc'[t] = "fetchMessages" /\ rows'[t] \in Seq(MessageRows)
              \/ pc'[t] = "fetchUsers" /\ rows'[t] \in Seq(UserRows)
  <2> SUFFICES ASSUME NEW t \in Sessions, rows[t] # <<>>
               PROVE  \/ /\ pc'[t] = "fetchMessages"
                         /\ rows[t] \in Seq(MessageRows)
                      \/ /\ pc'[t] = "fetchUsers"
                         /\ rows[t] \in Seq(UserRows)
    OBVIOUS
  <2>1. pc'[t] = pc[t]
    BY <1>1, <1>3
  <2> QED BY <2>1 DEF ThreadTypeOK
<1> QED BY <1>1, <1>2, <1>4 DEF ThreadTypeOK

\* A query takes its next row.
LEMMA RowKeepsThread ==
    ASSUME ThreadTypeOK, NEW s \in Sessions, NEW row,
           rows' = [rows EXCEPT ![s] = Append(@, row)],
           \/ /\ pc[s] = "fetchMessages"
              /\ row \in MessageRows
           \/ /\ pc[s] = "fetchUsers"
              /\ row \in UserRows,
           UNCHANGED <<pc, m_username, m_clientDisconnected, seen, buffer>>
    PROVE  ThreadTypeOK'
<1>1. \A t \in Sessions : LoggedIn(t)' => m_username'[t] \in Users
  BY DEF LoggedIn, ThreadTypeOK
<1>2. rows[s] \in Seq(MessageRows \cup UserRows)
  BY DEF ThreadTypeOK
<1>3. rows'[s] = Append(rows[s], row)
  BY DEF ThreadTypeOK
<1>4. rows' \in [Sessions -> Seq(MessageRows \cup UserRows)]
  BY <1>2, <1>3, AppendProperties DEF ThreadTypeOK
<1>5. CASE pc[s] = "fetchMessages" /\ row \in MessageRows
  <2>1. rows[s] \in Seq(MessageRows)
    BY <1>5, EmptySeq DEF ThreadTypeOK
  <2>2. rows'[s] \in Seq(MessageRows)
    BY <1>3, <1>5, <2>1, AppendProperties
  <2> QED BY <1>1, <1>4, <1>5, <2>2 DEF ThreadTypeOK
<1>6. CASE pc[s] = "fetchUsers" /\ row \in UserRows
  <2>1. rows[s] \in Seq(UserRows)
    BY <1>6, EmptySeq DEF ThreadTypeOK
  <2>2. rows'[s] \in Seq(UserRows)
    BY <1>3, <1>6, <2>1, AppendProperties
  <2> QED BY <1>1, <1>4, <1>6, <2>2 DEF ThreadTypeOK
<1> QED BY <1>5, <1>6

\* A query is closed, its rows having been sent.
LEMMA CloseKeepsThread ==
    ASSUME ThreadTypeOK, NEW s \in Sessions, NEW from,
           NEW to \in {"awaitAck", "mainCycle"}, Goto(s, from, to),
           from \in {"fetchMessages", "fetchUsers"},
           rows' = [rows EXCEPT ![s] = <<>>],
           UNCHANGED <<m_username, m_clientDisconnected, seen, buffer>>
    PROVE  ThreadTypeOK'
<1>1. /\ pc' \in [Sessions -> States]
      /\ pc[s] = from
      /\ pc'[s] = to
      /\ \A t \in Sessions : t # s => pc'[t] = pc[t]
  BY GotoType DEF States
<1>2. \A t \in Sessions : LoggedIn(t)' => m_username'[t] \in Users
  <2> SUFFICES ASSUME NEW t \in Sessions, LoggedIn(t)'
               PROVE  m_username[t] \in Users
    OBVIOUS
  <2>1. LoggedIn(t)
    BY <1>1 DEF LoggedIn
  <2> QED BY <2>1 DEF ThreadTypeOK
<1>3. /\ rows' \in [Sessions -> Seq(MessageRows \cup UserRows)]
      /\ rows'[s] = <<>>
      /\ \A t \in Sessions : t # s => rows'[t] = rows[t]
  BY EmptySeq DEF ThreadTypeOK
<1>4. \A t \in Sessions :
          rows'[t] # <<>> =>
              \/ pc'[t] = "fetchMessages" /\ rows'[t] \in Seq(MessageRows)
              \/ pc'[t] = "fetchUsers" /\ rows'[t] \in Seq(UserRows)
  BY <1>1, <1>3 DEF ThreadTypeOK
<1> QED BY <1>1, <1>2, <1>3, <1>4 DEF ThreadTypeOK

-----------------------------------------------------------------------------
\* The steps.

\* A step that writes one block to the socket of s.
LEMMA WriteKeepsQt ==
    ASSUME QtTypeOK, NEW s \in Sessions, NEW block \in Blocks,
           WriteBlock(s, block),
           UNCHANGED <<slotConnected, rx, peerClosed, log>>
    PROVE  QtTypeOK'
<1>1. /\ sock' \in [Sessions -> BOOLEAN]
      /\ eventQueue' \in Seq(Events)
      /\ tx' \in [Sessions -> Seq(Blocks)]
  BY WriteBlockType
<1> QED BY <1>1 DEF QtTypeOK

\* A step that posts one event and leaves the sockets alone.
LEMMA PostKeepsQt ==
    ASSUME QtTypeOK, NEW event \in Events, Post(event),
           UNCHANGED <<socketVars, log>>
    PROVE  QtTypeOK'
<1>1. eventQueue' \in Seq(Events)
  <2>1. eventQueue \in Seq(Events)
    BY DEF QtTypeOK
  <2> QED BY <2>1, AppendProperties DEF Post
<1> QED BY <1>1 DEF QtTypeOK, socketVars

\* The client's blocks up to "arrived" are taken off the socket.
LEMMA ReadBlocks ==
    ASSUME QtTypeOK, NEW s \in Sessions, NEW arrived \in 1 .. Len(rx[s]),
           rx' = [rx EXCEPT ![s] = SubSeq(@, arrived + 1, Len(@))]
    PROVE  /\ rx' \in [Sessions -> Seq(Requests)]
           /\ SubSeq(rx[s], 1, arrived) \in Seq(Requests)
<1>1. rx[s] \in Seq(Requests)
  BY DEF QtTypeOK
<1>2. Len(rx[s]) \in Nat /\ \A i \in 1 .. Len(rx[s]) : rx[s][i] \in Requests
  BY <1>1, LenProperties, ElementOfSeq
<1>3. SubSeq(rx[s], arrived + 1, Len(rx[s])) \in Seq(Requests)
  <2>1. \A i \in arrived + 1 .. Len(rx[s]) : rx[s][i] \in Requests
    BY <1>2
  <2> QED BY <1>2, <2>1, SubSeqProperties
<1>4. SubSeq(rx[s], 1, arrived) \in Seq(Requests)
  <2>1. \A i \in 1 .. arrived : rx[s][i] \in Requests
    BY <1>2
  <2> QED BY <1>2, <2>1, SubSeqProperties
<1> QED BY <1>3, <1>4 DEF QtTypeOK

LEMMA LoginStepsType ==
    ASSUME WorkerTypeOK, NEW s \in Sessions, UNCHANGED log,
           \/ SetSocketDescriptor(s)
           \/ RejectCertificate(s)
           \/ DenyLogin(s)
           \/ AcceptLogin(s)
    PROVE  WorkerTypeOK'
<1> USE DEF WorkerTypeOK
<1>1. CASE SetSocketDescriptor(s)
  <2>1. DbTypeOK'
    BY <1>1, DbUnchanged DEF SetSocketDescriptor
  <2>2. sock' \in [Sessions -> BOOLEAN]
    BY <1>1 DEF SetSocketDescriptor, QtTypeOK
  <2>3. QtTypeOK'
    BY <1>1, <2>2 DEF SetSocketDescriptor, QtTypeOK
  <2>4. /\ UNCHANGED <<m_username, m_clientDisconnected, rows>>
        /\ seen' \in [Sessions -> Nat]
        /\ buffer' \in [Sessions -> Seq(Requests)]
    BY <1>1 DEF SetSocketDescriptor, ThreadTypeOK
  <2>5. ThreadTypeOK'
    <3>1. CASE Goto(s, "run", "authenticate")
      BY <2>4, <3>1, GotoKeepsThread, StatesReached
    <3>2. CASE Goto(s, "run", "done")
      BY <2>4, <3>2, GotoKeepsThread, StatesReached
    <3> QED BY <1>1, <3>1, <3>2 DEF SetSocketDescriptor
  <2> QED BY <2>1, <2>3, <2>5
<1>2. CASE RejectCertificate(s)
  <2>1. DbTypeOK'
    BY <1>2, DbUnchanged DEF RejectCertificate
  <2>2. QtTypeOK'
    BY <1>2 DEF RejectCertificate, QtTypeOK, socketVars
  <2>3. seen' \in [Sessions -> Nat] /\ buffer' \in [Sessions -> Seq(Requests)]
    BY <1>2 DEF RejectCertificate, ThreadTypeOK
  <2>4. ThreadTypeOK'
    BY <1>2, <2>3, GotoKeepsThread, StatesReached DEF RejectCertificate
  <2> QED BY <2>1, <2>2, <2>4
<1>3. CASE DenyLogin(s)
  <2>1. DbTypeOK'
    BY <1>3, DbUnchanged DEF DenyLogin
  <2>2. sock' \in [Sessions -> BOOLEAN]
    BY <1>3 DEF DenyLogin, QtTypeOK
  <2>3. tx' \in [Sessions -> Seq(Blocks)]
    BY <1>3, AnswersSent, AppendProperties DEF DenyLogin, QtTypeOK
  <2>4. eventQueue' \in Seq(Events)
    <3>1. eventQueue \in Seq(Events)
      BY DEF QtTypeOK
    <3>2. [signal |-> "userAuthenticationFailed"] \in Events
      BY DEF Events
    <3> QED BY <1>3, <3>1, <3>2, AppendProperties DEF DenyLogin, Post
  <2>5. QtTypeOK'
    BY <1>3, <2>2, <2>3, <2>4 DEF DenyLogin, QtTypeOK
  <2>6. seen' \in [Sessions -> Nat] /\ buffer' \in [Sessions -> Seq(Requests)]
    BY <1>3 DEF DenyLogin, ThreadTypeOK
  <2>7. ThreadTypeOK'
    BY <1>3, <2>6, GotoKeepsThread, StatesReached DEF DenyLogin
  <2> QED BY <2>1, <2>5, <2>7
<1>4. CASE AcceptLogin(s)
  <2>1. DbTypeOK'
    BY <1>4, DbUnchanged DEF AcceptLogin
  <2>2. QtTypeOK'
    BY <1>4, AnswersSent, WriteKeepsQt DEF AcceptLogin
  <2>3. PICK user \in KeysOf[s] :
            m_username' = [m_username EXCEPT ![s] = user]
    BY <1>4 DEF AcceptLogin
  <2>4. user \in Users
    BY KeysAssumption
  <2>5. /\ pc' \in [Sessions -> States]
        /\ pc[s] = "authenticate"
        /\ pc'[s] = "announce"
        /\ \A t \in Sessions : t # s => pc'[t] = pc[t]
    BY <1>4, GotoType, StatesReached DEF AcceptLogin
  <2>6. /\ m_username' \in [Sessions -> Users \cup {NoName}]
        /\ \A t \in Sessions : LoggedIn(t)' => m_username'[t] \in Users
    BY <2>3, <2>4, <2>5 DEF ThreadTypeOK, LoggedIn
  <2>7. \A t \in Sessions :
            rows'[t] # <<>> =>
                \/ pc'[t] = "fetchMessages" /\ rows'[t] \in Seq(MessageRows)
                \/ pc'[t] = "fetchUsers" /\ rows'[t] \in Seq(UserRows)
    BY <1>4, <2>5 DEF AcceptLogin, ThreadTypeOK
  <2>8. ThreadTypeOK'
    BY <1>4, <2>5, <2>6, <2>7 DEF AcceptLogin, ThreadTypeOK
  <2> QED BY <2>1, <2>2, <2>8
<1> QED BY <1>1, <1>2, <1>3, <1>4

LEMMA JoinStepsType ==
    ASSUME WorkerTypeOK, NEW s \in Sessions, UNCHANGED log,
           \/ AnnounceUser(s)
           \/ OpenMessages(s)
           \/ FetchMessage(s)
           \/ SendMessages(s)
           \/ TakeAck(s)
           \/ MissAck(s)
    PROVE  WorkerTypeOK'
<1> USE DEF WorkerTypeOK
<1>1. CASE AnnounceUser(s)
  <2>1. DbTypeOK'
    BY <1>1, DbUnchanged DEF AnnounceUser
  <2>2. m_username[s] \in Users
    BY <1>1 DEF AnnounceUser, Goto, LoggedIn, ThreadTypeOK
  <2>3. QtTypeOK'
    BY <1>1, <2>2, EventsPosted, PostKeepsQt DEF AnnounceUser
  <2>4. seen' \in [Sessions -> Nat] /\ buffer' \in [Sessions -> Seq(Requests)]
    BY <1>1 DEF AnnounceUser, ThreadTypeOK
  <2>5. ThreadTypeOK'
    BY <1>1, <2>4, GotoKeepsThread, StatesReached DEF AnnounceUser
  <2> QED BY <2>1, <2>3, <2>5
<1>2. CASE OpenMessages(s)
  <2>1. DbTypeOK'
    BY <1>2, DbUnchanged DEF OpenMessages
  <2>2. slotConnected' \in [Sessions -> BOOLEAN]
    BY <1>2 DEF OpenMessages, QtTypeOK
  <2>3. QtTypeOK'
    BY <1>2, <2>2 DEF OpenMessages, QtTypeOK
  <2>4. ThreadTypeOK'
    <3>1. CASE /\ Goto(s, "openMessages", "awaitAck")
               /\ UNCHANGED rows
      <4>1. /\ UNCHANGED <<m_username, m_clientDisconnected, rows>>
            /\ seen' \in [Sessions -> Nat]
            /\ buffer' \in [Sessions -> Seq(Requests)]
        BY <1>2, <3>1 DEF OpenMessages, ThreadTypeOK
      <4> QED BY <3>1, <4>1, GotoKeepsThread, StatesReached
    <3>2. CASE /\ Goto(s, "openMessages", "fetchMessages")
               /\ rows' = [rows EXCEPT ![s] = IF IdsAfter(0) = {}
                                                 THEN <<>> ELSE <<RowAfter(0)>>]
      <4>1. /\ pc' \in [Sessions -> States]
            /\ pc[s] = "openMessages"
            /\ pc'[s] = "fetchMessages"
            /\ \A t \in Sessions : t # s => pc'[t] = pc[t]
        BY <3>2, GotoType, StatesReached
      <4>2. \A t \in Sessions : LoggedIn(t)' => m_username'[t] \in Users
        BY <1>2, <4>1 DEF OpenMessages, ThreadTypeOK, LoggedIn
      <4>3. CASE IdsAfter(0) = {}
        <5>1. rows' = [rows EXCEPT ![s] = <<>>]
          BY <3>2, <4>3
        <5> QED BY <1>2, <4>1, <4>2, <5>1, EmptySeq
                DEF OpenMessages, ThreadTypeOK
      <4>4. CASE IdsAfter(0) # {}
        <5> DEFINE row == RowAfter(0)
        <5>1. rows' = [rows EXCEPT ![s] = <<row>>]
          BY <3>2, <4>4
        <5>2. row \in MessageRows
          BY <4>4, RowAfterType
        <5> HIDE DEF row
        <5>3. /\ <<row>> \in Seq(MessageRows)
              /\ <<row>> \in Seq(MessageRows \cup UserRows)
          BY <5>2
        <5> QED BY <1>2, <4>1, <4>2, <5>1, <5>3
                DEF OpenMessages, ThreadTypeOK
      <4> QED BY <4>3, <4>4
    <3> QED BY <1>2, <3>1, <3>2 DEF OpenMessages
  <2> QED BY <2>1, <2>3, <2>4
<1>3. CASE FetchMessage(s)
  <2>1. DbTypeOK'
    BY <1>3, DbUnchanged DEF FetchMessage
  <2>2. QtTypeOK'
    BY <1>3 DEF FetchMessage, QtTypeOK, socketVars
  <2>3. Cursor(s) \in Nat
    <3>1. rows[s] \in Seq(MessageRows) /\ rows[s] # <<>>
      BY <1>3 DEF FetchMessage, ThreadTypeOK
    <3>2. Len(rows[s]) \in 1 .. Len(rows[s])
      BY <3>1, EmptySeq
    <3>3. rows[s][Len(rows[s])] \in MessageRows
      BY <3>1, <3>2, ElementOfSeq
    <3> QED BY <3>3, IdsAssumption DEF Cursor, MessageRows, MessageIds
  <2>4. RowAfter(Cursor(s)) \in MessageRows
    BY <1>3, <2>3, RowAfterType DEF FetchMessage
  <2>5. ThreadTypeOK'
    BY <1>3, <2>4, RowKeepsThread DEF FetchMessage
  <2> QED BY <2>1, <2>2, <2>5
<1>4. CASE SendMessages(s)
  <2>1. DbTypeOK'
    BY <1>4, DbUnchanged DEF SendMessages
  <2>2. rows[s] \in Seq(MessageRows)
    BY <1>4, EmptySeq DEF SendMessages, Goto, ThreadTypeOK
  <2>3. QtTypeOK'
    BY <1>4, <2>2, AnswersSent, WriteKeepsQt DEF SendMessages
  <2>4. ThreadTypeOK'
    BY <1>4, CloseKeepsThread DEF SendMessages
  <2> QED BY <2>1, <2>3, <2>4
<1>5. CASE TakeAck(s)
  <2>1. DbTypeOK'
    BY <1>5, DbUnchanged DEF TakeAck
  <2>2. rx' \in [Sessions -> Seq(Requests)]
    BY <1>5, ReadBlocks DEF TakeAck
  <2>3. QtTypeOK'
    BY <1>5, <2>2 DEF TakeAck, QtTypeOK
  <2>4. seen' \in [Sessions -> Nat] /\ buffer' \in [Sessions -> Seq(Requests)]
    BY <1>5 DEF TakeAck, ThreadTypeOK
  <2>5. ThreadTypeOK'
    BY <1>5, <2>4, GotoKeepsThread, StatesReached DEF TakeAck
  <2> QED BY <2>1, <2>3, <2>5
<1>6. CASE MissAck(s)
  <2>1. DbTypeOK'
    BY <1>6, DbUnchanged DEF MissAck
  <2>2. QtTypeOK'
    BY <1>6 DEF MissAck, QtTypeOK, socketVars
  <2>3. seen' \in [Sessions -> Nat] /\ buffer' \in [Sessions -> Seq(Requests)]
    BY <1>6 DEF MissAck, ThreadTypeOK
  <2>4. ThreadTypeOK'
    BY <1>6, <2>3, GotoKeepsThread, StatesReached DEF MissAck
  <2> QED BY <2>1, <2>2, <2>4
<1> QED BY <1>1, <1>2, <1>3, <1>4, <1>5, <1>6

LEMMA EnterStepsType ==
    ASSUME WorkerTypeOK, NEW s \in Sessions, UNCHANGED log,
           \/ FindClosed(s)
           \/ ReadRole(s)
           \/ FetchUser(s)
           \/ SendUsers(s)
           \/ InitModerator(s)
    PROVE  WorkerTypeOK'
<1> USE DEF WorkerTypeOK
<1>1. CASE FindClosed(s)
  <2>1. DbTypeOK'
    BY <1>1, DbUnchanged DEF FindClosed
  <2>2. sock' \in [Sessions -> BOOLEAN] /\ eventQueue' \in Seq(Events)
    BY <1>1, LoseConnectionType DEF FindClosed
  <2>3. QtTypeOK'
    BY <1>1, <2>2 DEF FindClosed, QtTypeOK
  <2>4. /\ UNCHANGED <<m_username, m_clientDisconnected, rows>>
        /\ seen' \in [Sessions -> Nat]
        /\ buffer' \in [Sessions -> Seq(Requests)]
    BY <1>1 DEF FindClosed, ThreadTypeOK
  <2>5. ThreadTypeOK'
    <3>1. CASE Goto(s, "awaitAck", "authorize")
      BY <2>4, <3>1, GotoKeepsThread, StatesReached
    <3>2. CASE UNCHANGED pc
      BY <2>4, <3>2 DEF ThreadTypeOK, LoggedIn
    <3> QED BY <1>1, <3>1, <3>2 DEF FindClosed
  <2> QED BY <2>1, <2>3, <2>5
<1>2. CASE ReadRole(s)
  <2>1. DbTypeOK'
    BY <1>2, DbUnchanged DEF ReadRole
  <2>2. QtTypeOK'
    BY <1>2 DEF ReadRole, QtTypeOK, socketVars
  <2>3. seen' \in [Sessions -> Nat] /\ buffer' \in [Sessions -> Seq(Requests)]
    BY <1>2 DEF ReadRole, ThreadTypeOK
  <2>4. PICK to \in {"fetchUsers", "initModerator", "mainCycle"} :
            Goto(s, "authorize", to)
    BY <1>2 DEF ReadRole
  <2>5. to \in States
    BY StatesReached
  <2>6. ThreadTypeOK'
    BY <1>2, <2>3, <2>4, <2>5, GotoKeepsThread DEF ReadRole
  <2> QED BY <2>1, <2>2, <2>6
<1>3. CASE FetchUser(s)
  <2> DEFINE user == Len(rows[s]) + 1
             row == [name |-> user, role |-> roles[user]]
  <2>1. DbTypeOK'
    BY <1>3, DbUnchanged DEF FetchUser
  <2>2. QtTypeOK'
    BY <1>3 DEF FetchUser, QtTypeOK, socketVars
  <2>3. Len(rows[s]) \in Nat
    BY LenProperties DEF ThreadTypeOK
  <2>4. user \in Users
    BY <1>3, <2>3, UsersAssumption DEF FetchUser, Users
  <2>5. row \in UserRows
    BY <2>4 DEF DbTypeOK, UserRows
  <2>6. /\ rows' = [rows EXCEPT ![s] = Append(@, row)]
        /\ pc[s] = "fetchUsers"
        /\ UNCHANGED <<pc, m_username, m_clientDisconnected, seen, buffer>>
    BY <1>3 DEF FetchUser
  <2> HIDE DEF row
  <2>7. ThreadTypeOK'
    BY <2>5, <2>6, RowKeepsThread
  <2> QED BY <2>1, <2>2, <2>7
<1>4. CASE SendUsers(s)
  <2>1. DbTypeOK'
    BY <1>4, DbUnchanged DEF SendUsers
  <2>2. rows[s] \in Seq(UserRows)
    BY <1>4, EmptySeq DEF SendUsers, Goto, ThreadTypeOK
  <2>3. QtTypeOK'
    BY <1>4, <2>2, AnswersSent, WriteKeepsQt DEF SendUsers
  <2>4. ThreadTypeOK'
    BY <1>4, CloseKeepsThread DEF SendUsers
  <2> QED BY <2>1, <2>3, <2>4
<1>5. CASE InitModerator(s)
  <2>1. DbTypeOK'
    BY <1>5, DbUnchanged DEF InitModerator
  <2>2. QtTypeOK'
    BY <1>5, AnswersSent, WriteKeepsQt DEF InitModerator
  <2>3. seen' \in [Sessions -> Nat] /\ buffer' \in [Sessions -> Seq(Requests)]
    BY <1>5 DEF InitModerator, ThreadTypeOK
  <2>4. ThreadTypeOK'
    BY <1>5, <2>3, GotoKeepsThread, StatesReached DEF InitModerator
  <2> QED BY <2>1, <2>2, <2>4
<1> QED BY <1>1, <1>2, <1>3, <1>4, <1>5

LEMMA ServeStepsType ==
    ASSUME WorkerTypeOK, NEW s \in Sessions, UNCHANGED log,
           \/ ReceiveRequests(s)
           \/ LeaveMainCycle(s)
           \/ CheckRole(s)
           \/ EmitRequest(s)
           \/ EndRequests(s)
    PROVE  WorkerTypeOK'
<1> USE DEF WorkerTypeOK
<1>1. CASE ReceiveRequests(s)
  <2>1. DbTypeOK'
    BY <1>1, DbUnchanged DEF ReceiveRequests
  <2>2. PICK arrived \in 1 .. Len(rx[s]) :
            /\ buffer' = [buffer EXCEPT ![s] =
                              @ \o SubSeq(rx[s], 1, arrived)]
            /\ rx' = [rx EXCEPT ![s] = SubSeq(@, arrived + 1, Len(@))]
    BY <1>1 DEF ReceiveRequests
  <2>3. /\ rx' \in [Sessions -> Seq(Requests)]
        /\ SubSeq(rx[s], 1, arrived) \in Seq(Requests)
    BY <2>2, ReadBlocks
  <2>4. QtTypeOK'
    BY <1>1, <2>3 DEF ReceiveRequests, QtTypeOK
  <2>5. buffer' \in [Sessions -> Seq(Requests)]
    <3>1. buffer[s] \o SubSeq(rx[s], 1, arrived) \in Seq(Requests)
      BY <2>3, ConcatProperties DEF ThreadTypeOK
    <3> QED BY <2>2, <3>1 DEF ThreadTypeOK
  <2>6. seen' \in [Sessions -> Nat]
    BY <1>1 DEF ReceiveRequests, ThreadTypeOK
  <2>7. ThreadTypeOK'
    BY <1>1, <2>5, <2>6, GotoKeepsThread, StatesReached DEF ReceiveRequests
  <2> QED BY <2>1, <2>4, <2>7
<1>2. CASE LeaveMainCycle(s)
  <2>1. DbTypeOK'
    BY <1>2, DbUnchanged DEF LeaveMainCycle
  <2>2. m_username[s] \in Users
    BY <1>2 DEF LeaveMainCycle, Goto, LoggedIn, ThreadTypeOK
  <2>3. QtTypeOK'
    BY <1>2, <2>2, EventsPosted, PostKeepsQt DEF LeaveMainCycle
  <2>4. seen' \in [Sessions -> Nat] /\ buffer' \in [Sessions -> Seq(Requests)]
    BY <1>2 DEF LeaveMainCycle, ThreadTypeOK
  <2>5. ThreadTypeOK'
    BY <1>2, <2>4, GotoKeepsThread, StatesReached DEF LeaveMainCycle
  <2> QED BY <2>1, <2>3, <2>5
<1>3. CASE CheckRole(s)
  <2>1. DbTypeOK'
    BY <1>3, DbUnchanged DEF CheckRole
  <2>2. QtTypeOK'
    BY <1>3 DEF CheckRole, QtTypeOK, socketVars
  <2>3. PICK to \in {"emit", "mainCycle"} :
            /\ Goto(s, "serve", to)
            /\ \/ UNCHANGED buffer
               \/ buffer' = [buffer EXCEPT ![s] = Tail(@)]
    BY <1>3 DEF CheckRole
  <2>4. buffer' \in [Sessions -> Seq(Requests)]
    <3>1. Tail(buffer[s]) \in Seq(Requests)
      BY <1>3, HeadTailProperties DEF CheckRole, ThreadTypeOK
    <3> QED BY <2>3, <3>1 DEF ThreadTypeOK
  <2>5. seen' \in [Sessions -> Nat]
    <3>1. Len(log) \in Nat
      BY LenProperties DEF QtTypeOK
    <3> QED BY <1>3, <3>1 DEF CheckRole, ThreadTypeOK
  <2>6. ThreadTypeOK'
    BY <1>3, <2>3, <2>4, <2>5, GotoKeepsThread, StatesReached DEF CheckRole
  <2> QED BY <2>1, <2>2, <2>6
<1>4. CASE EmitRequest(s)
  <2>1. DbTypeOK'
    BY <1>4, DbUnchanged DEF EmitRequest
  <2>2. m_username[s] \in Users
    BY <1>4 DEF EmitRequest, Goto, LoggedIn, ThreadTypeOK
  <2>3. /\ Head(buffer[s]) \in Requests
        /\ Tail(buffer[s]) \in Seq(Requests)
    BY <1>4, HeadTailProperties DEF EmitRequest, ThreadTypeOK
  <2>4. Emitted(m_username[s], Head(buffer[s]), seen[s]) \in Seq(Events)
    BY <2>2, <2>3, EmittedType DEF ThreadTypeOK
  <2>5. eventQueue' \in Seq(Events)
    BY <1>4, <2>4, ConcatProperties DEF EmitRequest, QtTypeOK
  <2>6. QtTypeOK'
    BY <1>4, <2>5 DEF EmitRequest, QtTypeOK, socketVars
  <2>7. /\ UNCHANGED <<m_username, m_clientDisconnected, rows>>
        /\ seen' \in [Sessions -> Nat]
        /\ buffer' \in [Sessions -> Seq(Requests)]
    BY <1>4, <2>3 DEF EmitRequest, ThreadTypeOK
  <2>8. ThreadTypeOK'
    <3>1. CASE Goto(s, "emit", "serve")
      BY <2>7, <3>1, GotoKeepsThread, StatesReached
    <3>2. CASE UNCHANGED pc
      BY <2>7, <3>2 DEF ThreadTypeOK, LoggedIn
    <3> QED BY <1>4, <3>1, <3>2 DEF EmitRequest
  <2> QED BY <2>1, <2>6, <2>8
<1>5. CASE EndRequests(s)
  <2>1. DbTypeOK'
    BY <1>5, DbUnchanged DEF EndRequests
  <2>2. QtTypeOK'
    BY <1>5 DEF EndRequests, QtTypeOK, socketVars
  <2>3. seen' \in [Sessions -> Nat] /\ buffer' \in [Sessions -> Seq(Requests)]
    BY <1>5 DEF EndRequests, ThreadTypeOK
  <2>4. ThreadTypeOK'
    BY <1>5, <2>3, GotoKeepsThread, StatesReached DEF EndRequests
  <2> QED BY <2>1, <2>2, <2>4
<1> QED BY <1>1, <1>2, <1>3, <1>4, <1>5

LEMMA ThreadStepType ==
    ASSUME WorkerTypeOK, NEW s \in Sessions, ThreadStep(s), UNCHANGED log
    PROVE  WorkerTypeOK'
BY LoginStepsType, JoinStepsType, EnterStepsType, ServeStepsType
   DEF ThreadStep

-----------------------------------------------------------------------------
\* What the fields of events and blocks are.

LEMMA EventFields ==
    ASSUME NEW e \in Events
    PROVE  /\ e.signal \in {"connectedUser", "disconnected", "removeUser",
                            "getUserPasswordHalf",
                            "userAuthenticationFailed", "addMessage",
                            "deleteMessage", "modifyMessage",
                            "changeUserRole"}
           /\ e.signal \in {"connectedUser", "disconnected"} =>
                  e.sess \in Sessions
           /\ e.signal \notin {"disconnected", "userAuthenticationFailed"} =>
                  e.name \in Users
           /\ e.signal \in {"addMessage", "modifyMessage"} =>
                  e.text \in Texts
           /\ e.signal \in {"deleteMessage", "modifyMessage"} =>
                  e.id \in MessageIds
           /\ e.signal = "changeUserRole" =>
                  e.him \in Users /\ e.role \in {"m", "u"}
BY DEF Events

LEMMA BlockFields ==
    ASSUME NEW block \in Blocks
    PROVE  /\ block.ind \in {"ADD_MESSAGE", "DELETE_MESSAGE"} =>
                  block.id \in MessageIds
           /\ block.ind = "SEND_INIT_MESSAGES" =>
                  block.rows \in Seq(MessageRows)
           /\ block.ind = "USER_MODERATOR_LIST" =>
                  block.rows \in Seq(UserRows)
BY DEF Blocks, Broadcasts, RoleChanges, Answers

LEMMA InSequence ==
    ASSUME NEW S, NEW seq \in Seq(S), NEW x \in ToSet(seq)
    PROVE  x \in S
BY ElementOfSeq, LenProperties DEF ToSet

LEMMA ShownIdsType ==
    ASSUME QtTypeOK, NEW s \in Sessions
    PROVE  ShownIds(s) \subseteq MessageIds
<1> SUFFICES ASSUME NEW row \in AddedRows(s)
             PROVE  row.id \in MessageIds
  BY DEF ShownIds
<1>1. \A b \in ToSet(tx[s]) : b \in Blocks
  BY InSequence DEF QtTypeOK
<1>2. CASE row \in {b \in ToSet(tx[s]) : b.ind = "ADD_MESSAGE"}
  BY <1>1, <1>2, BlockFields
<1>3. ASSUME NEW list \in ToSet(tx[s]), list.ind = "SEND_INIT_MESSAGES",
             row \in ToSet(list.rows)
      PROVE  row.id \in MessageIds
  <2>1. row \in MessageRows
    BY <1>1, <1>3, BlockFields, InSequence
  <2> QED BY <2>1 DEF MessageRows
<1> QED BY <1>2, <1>3 DEF AddedRows

LEMMA ListsType ==
    ASSUME QtTypeOK, moved \in [Sessions -> SUBSET Users], NEW s \in Sessions
    PROVE  UserList(s) \subseteq Users /\ ModeratorList(s) \subseteq Users
<1>1. ASSUME NEW list \in ToSet(tx[s]), list.ind = "USER_MODERATOR_LIST",
             NEW row \in ToSet(list.rows)
      PROVE  row.name \in Users
  <2>1. list \in Blocks
    BY InSequence DEF QtTypeOK
  <2>2. row \in UserRows
    BY <1>1, <2>1, BlockFields, InSequence
  <2> QED BY <2>2 DEF UserRows
<1>2. \A role : ListedAs(s, role) \subseteq Users
  BY <1>1 DEF ListedAs
<1> QED BY <1>2 DEF UserList, ModeratorList

LEMMA UserRequestsType ==
    ASSUME QtTypeOK, moved \in [Sessions -> SUBSET Users], NEW s \in Sessions
    PROVE  UserRequests(s) \subseteq Requests
BY ShownIdsType, ListsType DEF UserRequests, Requests

LEMMA MovedType ==
    ASSUME QtTypeOK, moved \in [Sessions -> SUBSET Users], NEW s \in Sessions,
           NEW request \in UserRequests(s),
           moved' = IF request.ind \in {"SET_NEW_MODERATOR",
                                        "DELETE_MODERATOR"}
                       THEN [moved EXCEPT ![s] = SymDiff(@, {request.who})]
                       ELSE moved
    PROVE  moved' \in [Sessions -> SUBSET Users]
<1>1. CASE request.ind \in {"SET_NEW_MODERATOR", "DELETE_MODERATOR"}
  <2>1. request \in Requests
    BY UserRequestsType
  <2>2. request.who \in Users
    BY <1>1, <2>1 DEF Requests
  <2> QED BY <1>1, <2>2 DEF SymDiff
<1>2. CASE request.ind \notin {"SET_NEW_MODERATOR", "DELETE_MODERATOR"}
  BY <1>2
<1> QED BY <1>1, <1>2

-----------------------------------------------------------------------------
\* Type correctness: the initial state and the clients.

LEMMA InitType ==
    ASSUME Init
    PROVE  TypeOK
<1>1. QtTypeOK
  BY EmptySeq DEF Init, QtInit, QtTypeOK
<1>2. DbTypeOK
  <2>1. InitMessages \in Seq([user : Users, text : Texts])
    BY DatabaseAssumption
  <2>2. /\ Len(InitMessages) \in Nat
        /\ DOMAIN InitMessages = 1 .. Len(InitMessages)
        /\ InitMessages \in [1 .. Len(InitMessages) ->
                                 [user : Users, text : Texts]]
    BY <2>1, LenProperties
  <2>3. Len(InitMessages) \in MessageIds
    BY <2>2, DatabaseAssumption, IdsAssumption DEF MessageIds
  <2> QED BY <2>2, <2>3, DatabaseAssumption DEF Init, DbInit, DbTypeOK
<1>3. ThreadTypeOK
  BY EmptySeq DEF Init, ThreadInit, ThreadTypeOK, States, LoggedIn, NoName
<1>4. outgoing \in Seq([block : Blocks, to : SUBSET Users])
  BY EmptySeq DEF Init, EchoInit
<1> QED BY <1>1, <1>2, <1>3, <1>4 DEF Init, EchoInit, TypeOK

LEMMA ClientStepType ==
    ASSUME TypeOK, NEW s \in Sessions, ClientStep(s)
    PROVE  TypeOK'
<1> USE DEF TypeOK
<1>1. DbTypeOK'
  BY DbUnchanged
     DEF ClientStep, Connect, SendRequest, AckMessages, CloseClient
<1>2. /\ (m_userSocket \in [Users -> Sessions \cup {NoSocket}])'
      /\ (outgoing \in Seq([block : Blocks, to : SUBSET Users]))'
      /\ (taken \subseteq Sessions)'
  BY DEF ClientStep, Connect, SendRequest, AckMessages, CloseClient, mainVars
<1>3. CASE Connect(s)
  <2>1. QtTypeOK'
    BY <1>3 DEF Connect, QtTypeOK, socketVars, mainVars
  <2>2. seen' \in [Sessions -> Nat] /\ buffer' \in [Sessions -> Seq(Requests)]
    BY <1>3 DEF Connect, ThreadTypeOK
  <2>3. ThreadTypeOK'
    BY <1>3, <2>2, GotoKeepsThread, StatesReached DEF Connect
  <2> QED BY <1>1, <1>2, <1>3, <2>1, <2>3 DEF Connect, clientVars
<1>4. ASSUME UNCHANGED threadVars
      PROVE  ThreadTypeOK'
  BY <1>4 DEF ThreadTypeOK, threadVars, LoggedIn
<1>5. ASSUME NEW request \in Requests,
             rx' = [rx EXCEPT ![s] = Append(@, request)]
      PROVE  rx' \in [Sessions -> Seq(Requests)]
  <2>1. Append(rx[s], request) \in Seq(Requests)
    BY AppendProperties DEF QtTypeOK
  <2> QED BY <1>5, <2>1 DEF QtTypeOK
<1>6. CASE SendRequest(s)
  <2>1. \E request \in Requests : rx' = [rx EXCEPT ![s] = Append(@, request)]
    BY <1>6, UserRequestsType DEF SendRequest
  <2>2. QtTypeOK'
    BY <1>5, <1>6, <2>1 DEF SendRequest, QtTypeOK, mainVars
  <2>3. sent' \in [Sessions -> Nat]
    BY <1>6 DEF SendRequest
  <2>4. moved' \in [Sessions -> SUBSET Users]
    BY <1>6, MovedType DEF SendRequest
  <2> QED BY <1>1, <1>2, <1>4, <1>6, <2>2, <2>3, <2>4 DEF SendRequest
<1>7. CASE AckMessages(s)
  <2>1. [ind |-> "GOT_MESSAGE_LIST"] \in Requests
    BY DEF Requests
  <2>2. QtTypeOK'
    BY <1>5, <1>7, <2>1 DEF AckMessages, QtTypeOK, mainVars
  <2>3. acked' \in [Sessions -> BOOLEAN]
    BY <1>7 DEF AckMessages
  <2> QED BY <1>1, <1>2, <1>4, <1>7, <2>2, <2>3 DEF AckMessages
<1>8. CASE CloseClient(s)
  <2>1. peerClosed' \in [Sessions -> BOOLEAN]
    BY <1>8 DEF CloseClient, QtTypeOK
  <2>2. QtTypeOK'
    BY <1>8, <2>1 DEF CloseClient, QtTypeOK, mainVars
  <2> QED BY <1>1, <1>2, <1>4, <1>8, <2>2 DEF CloseClient, clientVars
<1> QED BY <1>3, <1>6, <1>7, <1>8 DEF ClientStep

-----------------------------------------------------------------------------
\* Type correctness: the main thread.

\* What a slot may change.
SlotTypeOK ==
    /\ DbTypeOK
    /\ sock \in [Sessions -> BOOLEAN]
    /\ m_clientDisconnected \in [Sessions -> BOOLEAN]
    /\ m_userSocket \in [Users -> Sessions \cup {NoSocket}]
    /\ outgoing \in Seq([block : Blocks, to : SUBSET Users])
    /\ log \in Seq([event : Events, block : Blocks])

LEMMA SlotTyped ==
    ASSUME TypeOK
    PROVE  SlotTypeOK
BY DEF TypeOK, SlotTypeOK, QtTypeOK, ThreadTypeOK

LEMMA TellType ==
    ASSUME SlotTypeOK, NEW e \in Events, NEW block \in Blocks,
           NEW to \in SUBSET Users, Tell(e, block, to), DbTypeOK'
    PROVE  SlotTypeOK'
<1>1. outgoing' \in Seq([block : Blocks, to : SUBSET Users])
  <2> DEFINE o == [block |-> block, to |-> to]
  <2>1. o \in [block : Blocks, to : SUBSET Users]
    OBVIOUS
  <2>2. outgoing' = <<o>>
    BY DEF Tell
  <2> HIDE DEF o
  <2> QED BY <2>1, <2>2
<1>2. log' \in Seq([event : Events, block : Blocks])
  <2> DEFINE entry == [event |-> e, block |-> block]
  <2>1. entry \in [event : Events, block : Blocks]
    OBVIOUS
  <2>2. log' = Append(log, entry)
    BY DEF Tell
  <2> HIDE DEF entry
  <2> QED BY <2>1, <2>2, AppendProperties DEF SlotTypeOK
<1> QED BY <1>1, <1>2 DEF Tell, SlotTypeOK

LEMMA DisconnectUsersType ==
    ASSUME NEW gone, DisconnectUsers(gone)
    PROVE  /\ sock' \in [Sessions -> BOOLEAN]
           /\ m_clientDisconnected' \in [Sessions -> BOOLEAN]
BY DEF DisconnectUsers

LEMMA SlotType ==
    ASSUME SlotTypeOK, NEW e \in Events,
           \/ addNewUserToMap(e)
           \/ removeUserFromMap(e)
           \/ userAuthenticationFailed(e)
           \/ disconnectedUser(e)
           \/ sendMessage(e)
           \/ deleteMessage(e)
           \/ modifyMessage(e)
           \/ changeUserRole(e)
           \/ getUserPasswordHalf(e)
           \/ failToWrite(e)
    PROVE  SlotTypeOK'
<1>1. CASE addNewUserToMap(e)
  <2>1. e.name \in Users /\ e.sess \in Sessions
    BY <1>1, EventFields DEF addNewUserToMap
  <2>2. DbTypeOK' /\ UNCHANGED <<outgoing, log>>
    BY <1>1, DbUnchanged DEF addNewUserToMap, SlotTypeOK
  <2>3. CASE m_userSocket[e.name] = NoSocket
    BY <1>1, <2>1, <2>2, <2>3 DEF addNewUserToMap, SlotTypeOK
  <2>4. CASE m_userSocket[e.name] # NoSocket
    <3>1. DisconnectUsers({e.sess}) /\ UNCHANGED m_userSocket
      BY <1>1, <2>4 DEF addNewUserToMap
    <3> QED BY <2>2, <3>1, DisconnectUsersType DEF SlotTypeOK
  <2> QED BY <2>3, <2>4
<1>2. CASE removeUserFromMap(e)
  <2>1. DbTypeOK'
    BY <1>2, DbUnchanged DEF removeUserFromMap, SlotTypeOK
  <2> QED BY <1>2, <2>1 DEF removeUserFromMap, SlotTypeOK
<1>3. CASE userAuthenticationFailed(e)
  <2>1. DbTypeOK'
    BY <1>3, DbUnchanged DEF userAuthenticationFailed, SlotTypeOK
  <2> QED BY <1>3, <2>1 DEF userAuthenticationFailed, SlotTypeOK
<1>4. CASE disconnectedUser(e)
  <2>1. DbTypeOK' /\ UNCHANGED <<m_userSocket, outgoing, log>>
    BY <1>4, DbUnchanged DEF disconnectedUser, SlotTypeOK
  <2>2. DisconnectUsers({e.sess})
    BY <1>4 DEF disconnectedUser
  <2> QED BY <2>1, <2>2, DisconnectUsersType DEF SlotTypeOK
<1>5. CASE sendMessage(e)
  <2>1. e.name \in Users /\ e.text \in Texts
    BY <1>5, EventFields DEF sendMessage
  <2>2. add_message(e.name, e.text)
    BY <1>5 DEF sendMessage
  <2>3. DbTypeOK'
    BY <2>1, <2>2, AddMessageType DEF SlotTypeOK
  <2>4. get_message_id(messages', e.name, e.text) = sqlite_sequence'
    BY <2>1, <2>2, AddedIdFound DEF SlotTypeOK
  <2>5. \A id \in {get_message_id(messages', e.name, e.text)}
                     \cup (IF ReadsMayFail THEN {0} ELSE {}) :
            id \in MessageIds
    BY <2>3, <2>4, IdsAssumption DEF DbTypeOK, MessageIds
  <2>6. \A id \in MessageIds :
            [ind |-> "ADD_MESSAGE", id |-> id, name |-> e.name,
             text |-> e.text] \in Blocks
    BY <2>1 DEF Blocks, Broadcasts
  <2>7. \E id \in MessageIds :
            Tell(e, [ind |-> "ADD_MESSAGE", id |-> id, name |-> e.name,
                     text |-> e.text], Users)
    BY <1>5, <2>5 DEF sendMessage
  <2> QED BY <2>3, <2>6, <2>7, TellType
<1>6. CASE deleteMessage(e)
  <2>1. e.id \in MessageIds
    BY <1>6, EventFields DEF deleteMessage
  <2>2. DbTypeOK'
    BY <1>6, <2>1, DeleteMessageType DEF deleteMessage, SlotTypeOK
  <2>3. [ind |-> "DELETE_MESSAGE", id |-> e.id] \in Blocks
    BY <2>1 DEF Blocks, Broadcasts
  <2> QED BY <1>6, <2>2, <2>3, TellType DEF deleteMessage
<1>7. CASE modifyMessage(e)
  <2>1. e.id \in MessageIds /\ e.text \in Texts
    BY <1>7, EventFields DEF modifyMessage
  <2>2. DbTypeOK'
    BY <1>7, <2>1, ModifyMessageType DEF modifyMessage, SlotTypeOK
  <2>3. [ind |-> "MODIFY_MESSAGE", id |-> e.id, text |-> e.text] \in Blocks
    BY <2>1 DEF Blocks, Broadcasts
  <2> QED BY <1>7, <2>2, <2>3, TellType DEF modifyMessage
<1>8. CASE changeUserRole(e)
  <2>1. e.him \in Users /\ e.role \in {"m", "u"}
    BY <1>8, EventFields DEF changeUserRole
  <2>2. DbTypeOK'
    BY <1>8, <2>1, ChangeRoleType DEF changeUserRole, SlotTypeOK
  <2>3. [ind |-> IF e.role = "m" THEN "SET_NEW_MODERATOR"
                                 ELSE "DELETE_MODERATOR"] \in Blocks
    BY DEF Blocks, RoleChanges
  <2> QED BY <1>8, <2>1, <2>2, <2>3, TellType DEF changeUserRole
<1>9. CASE getUserPasswordHalf(e)
  <2>1. e.name \in Users
    BY <1>9, EventFields DEF getUserPasswordHalf
  <2>2. DbTypeOK'
    BY <1>9, DbUnchanged DEF getUserPasswordHalf, SlotTypeOK
  <2>3. \A half \in Users \cup {NoName} :
            [ind |-> "USER_GET_PASSWORD_HALF", half |-> half] \in Blocks
    BY DEF Blocks, Broadcasts
  <2>4. \E half \in Users \cup {NoName} :
            Tell(e, [ind |-> "USER_GET_PASSWORD_HALF", half |-> half], Users)
    BY <1>9, <2>1 DEF getUserPasswordHalf
  <2> QED BY <2>2, <2>3, <2>4, TellType
<1>10. CASE failToWrite(e)
  <2>1. DbTypeOK'
    BY <1>10, DbUnchanged DEF failToWrite, SlotTypeOK
  <2> QED BY <1>10, <2>1 DEF failToWrite, SlotTypeOK
<1> QED BY <1>1, <1>2, <1>3, <1>4, <1>5, <1>6, <1>7, <1>8, <1>9, <1>10

LEMMA DispatchType ==
    ASSUME TypeOK, Dispatch, UNCHANGED clientVars
    PROVE  TypeOK'
<1>1. SlotTypeOK
  BY SlotTyped
<1>2. /\ Head(eventQueue) \in Events
      /\ eventQueue' \in Seq(Events)
  BY HeadTailProperties DEF Dispatch, TypeOK, QtTypeOK
<1>3. SlotTypeOK'
  BY <1>1, <1>2, SlotType DEF Dispatch
<1>4. QtTypeOK'
  BY <1>2, <1>3 DEF Dispatch, TypeOK, SlotTypeOK, QtTypeOK
<1>5. ThreadTypeOK'
  BY <1>3 DEF Dispatch, TypeOK, SlotTypeOK, ThreadTypeOK, LoggedIn
<1>6. (taken \subseteq Sessions)'
  BY DEF Dispatch, TypeOK
<1> QED BY <1>3, <1>4, <1>5, <1>6 DEF TypeOK, SlotTypeOK, clientVars

LEMMA WriteBlocksType ==
    ASSUME TypeOK, WriteBlocks, UNCHANGED clientVars
    PROVE  TypeOK'
<1> DEFINE o == Head(outgoing)
<1>1. o.block \in Blocks
  <2>1. o \in [block : Blocks, to : SUBSET Users]
    BY HeadTailProperties DEF TypeOK, WriteBlocks
  <2> QED BY <2>1
<1> HIDE DEF o
<1>2. PICK failed \in SUBSET {s \in Reached(o.to) : peerClosed[s]} :
          /\ tx' = [s \in Sessions |->
                       IF s \in Reached(o.to) \ failed
                          THEN Append(tx[s], o.block) ELSE tx[s]]
          /\ sock' = [s \in Sessions |-> sock[s] /\ s \notin failed]
          /\ m_clientDisconnected' =
                 [s \in Sessions |-> \/ m_clientDisconnected[s]
                                     \/ s \in failed /\ slotConnected[s]]
  BY DEF WriteBlocks, o
<1>3. tx' \in [Sessions -> Seq(Blocks)]
  <2>1. \A s \in Sessions : Append(tx[s], o.block) \in Seq(Blocks)
    BY <1>1, AppendProperties DEF TypeOK, QtTypeOK
  <2> QED BY <1>2, <2>1 DEF TypeOK, QtTypeOK
<1>4. /\ sock' \in [Sessions -> BOOLEAN]
      /\ m_clientDisconnected' \in [Sessions -> BOOLEAN]
  BY <1>2
<1>5. QtTypeOK'
  BY <1>3, <1>4 DEF WriteBlocks, TypeOK, QtTypeOK
<1>6. DbTypeOK'
  BY DbUnchanged DEF WriteBlocks, TypeOK
<1>7. ThreadTypeOK'
  BY <1>4 DEF WriteBlocks, TypeOK, ThreadTypeOK, LoggedIn
<1>8. outgoing' \in Seq([block : Blocks, to : SUBSET Users])
  BY EmptySeq DEF WriteBlocks
<1> QED BY <1>5, <1>6, <1>7, <1>8 DEF WriteBlocks, TypeOK, clientVars

LEMMA NewUserType ==
    ASSUME TypeOK, NEW s \in Sessions, NewUser(s), UNCHANGED clientVars
    PROVE  TypeOK'
<1>1. DbTypeOK'
  BY DbUnchanged DEF NewUser, TypeOK
<1>2. QtTypeOK'
  BY DEF NewUser, TypeOK, QtTypeOK, socketVars, mainVars
<1>3. seen' \in [Sessions -> Nat] /\ buffer' \in [Sessions -> Seq(Requests)]
  BY DEF NewUser, TypeOK, ThreadTypeOK
<1>4. ThreadTypeOK'
  BY <1>3, GotoKeepsThread, StatesReached DEF NewUser, TypeOK
<1> QED BY <1>1, <1>2, <1>4 DEF NewUser, TypeOK, mainVars, clientVars

LEMMA TakeBlocksType ==
    ASSUME TypeOK, NEW s \in Sessions, TakeBlocks(s), UNCHANGED clientVars
    PROVE  TypeOK'
<1>1. PICK arrived \in 1 .. Len(rx[s]) :
          rx' = [rx EXCEPT ![s] = SubSeq(@, arrived + 1, Len(@))]
  BY DEF TakeBlocks
<1>2. rx' \in [Sessions -> Seq(Requests)]
  BY <1>1, ReadBlocks DEF TypeOK
<1>3. QtTypeOK'
  BY <1>2 DEF TakeBlocks, TypeOK, QtTypeOK
<1>4. DbTypeOK'
  BY DbUnchanged DEF TakeBlocks, TypeOK
<1>5. ThreadTypeOK'
  BY DEF TakeBlocks, TypeOK, ThreadTypeOK, threadVars, LoggedIn
<1> QED BY <1>3, <1>4, <1>5 DEF TakeBlocks, TypeOK, clientVars

LEMMA WorkerType ==
    ASSUME TypeOK, NEW s \in Sessions, Worker(s)
    PROVE  TypeOK'
<1>1. WorkerTypeOK'
  BY ThreadStepType DEF Worker, TypeOK, WorkerTypeOK, mainVars
<1> QED BY <1>1 DEF Worker, TypeOK, WorkerTypeOK, mainVars, clientVars

LEMMA StutterType ==
    ASSUME TypeOK, UNCHANGED vars
    PROVE  TypeOK'
<1>1. DbTypeOK'
  BY DbUnchanged DEF TypeOK, vars
<1>2. QtTypeOK'
  BY DEF TypeOK, vars, QtTypeOK, socketVars, mainVars
<1>3. ThreadTypeOK'
  BY DEF TypeOK, vars, ThreadTypeOK, threadVars, LoggedIn
<1> QED BY <1>1, <1>2, <1>3 DEF TypeOK, vars, mainVars, clientVars

LEMMA NextType ==
    ASSUME TypeOK, [Next]_vars
    PROVE  TypeOK'
BY DispatchType, WriteBlocksType, NewUserType, TakeBlocksType, WorkerType,
   ClientStepType, StutterType DEF Next, Main, MainStep

\* Type correctness, with what it says about control: a worker past the
\* login has a name, a worker with an open query holds rows of that query,
\* and a table never has an id above sqlite_sequence or above the bound.
THEOREM TypeCorrect == Spec => []TypeOK
<1>1. Init => TypeOK
  BY InitType
<1>2. TypeOK /\ [Next]_vars => TypeOK'
  BY NextType
<1> QED BY <1>1, <1>2, PTL DEF Spec

-----------------------------------------------------------------------------
\* Elements of the sequences that queues and sockets keep.

LEMMA AppendElements ==
    ASSUME NEW S, NEW q \in Seq(S), NEW e \in S
    PROVE  ToSet(Append(q, e)) = ToSet(q) \cup {e}
<1>1. /\ Append(q, e) \in Seq(S)
      /\ Len(Append(q, e)) = Len(q) + 1
      /\ \A i \in 1 .. Len(q) : Append(q, e)[i] = q[i]
      /\ Append(q, e)[Len(q) + 1] = e
  BY AppendProperties
<1>2. Len(q) \in Nat /\ DOMAIN q = 1 .. Len(q)
  BY LenProperties
<1>3. DOMAIN Append(q, e) = 1 .. Len(q) + 1
  BY <1>1, LenProperties
<1> QED BY <1>1, <1>2, <1>3 DEF ToSet

LEMMA ConcatElements ==
    ASSUME NEW S, NEW q \in Seq(S), NEW r \in Seq(S)
    PROVE  ToSet(q \o r) \subseteq ToSet(q) \cup ToSet(r)
<1>1. /\ q \o r \in Seq(S)
      /\ Len(q \o r) = Len(q) + Len(r)
      /\ \A i \in 1 .. Len(q) + Len(r) :
             (q \o r)[i] = IF i <= Len(q) THEN q[i] ELSE r[i - Len(q)]
  BY ConcatProperties
<1>2. /\ Len(q) \in Nat /\ DOMAIN q = 1 .. Len(q)
      /\ Len(r) \in Nat /\ DOMAIN r = 1 .. Len(r)
      /\ DOMAIN (q \o r) = 1 .. Len(q) + Len(r)
  BY <1>1, LenProperties
<1> SUFFICES ASSUME NEW i \in 1 .. Len(q) + Len(r)
             PROVE  (q \o r)[i] \in ToSet(q) \cup ToSet(r)
  BY <1>2 DEF ToSet
<1>3. CASE i <= Len(q)
  BY <1>1, <1>2, <1>3 DEF ToSet
<1>4. CASE i > Len(q)
  <2>1. i - Len(q) \in 1 .. Len(r)
    BY <1>2, <1>4
  <2>2. (q \o r)[i] = r[i - Len(q)]
    BY <1>1, <1>2, <1>4
  <2> QED BY <1>2, <2>1, <2>2 DEF ToSet
<1> QED BY <1>2, <1>3, <1>4

LEMMA TailElements ==
    ASSUME NEW S, NEW q \in Seq(S), q # <<>>
    PROVE  ToSet(Tail(q)) \subseteq ToSet(q) /\ Head(q) \in ToSet(q)
<1>1. Len(q) \in Nat \ {0} /\ DOMAIN q = 1 .. Len(q)
  BY EmptySeq, LenProperties
<1>2. /\ DOMAIN Tail(q) = 1 .. Len(q) - 1
      /\ \A i \in 1 .. Len(q) - 1 : Tail(q)[i] = q[i + 1]
  BY <1>1
<1>3. ToSet(Tail(q)) \subseteq ToSet(q)
  <2> SUFFICES ASSUME NEW i \in 1 .. Len(q) - 1
               PROVE  q[i + 1] \in ToSet(q)
    BY <1>2 DEF ToSet
  <2>1. i + 1 \in DOMAIN q
    BY <1>1
  <2> QED BY <2>1 DEF ToSet
<1>4. Head(q) = q[1] /\ 1 \in DOMAIN q
  BY <1>1
<1> QED BY <1>3, <1>4 DEF ToSet

-----------------------------------------------------------------------------
\* What a worker adds to the queue and to its socket.

LEMMA LoseConnectionAdds ==
    ASSUME QtTypeOK, NEW s \in Sessions, LoseConnection(s)
    PROVE  ToSet(eventQueue') \subseteq
               ToSet(eventQueue) \cup {[signal |-> "disconnected", sess |-> s]}
<1> DEFINE e == [signal |-> "disconnected", sess |-> s]
<1>1. e \in Events
  BY DEF Events
<1>2. eventQueue' = eventQueue \/ eventQueue' = Append(eventQueue, e)
  BY DEF LoseConnection, Post
<1>3. eventQueue \in Seq(Events)
  BY DEF QtTypeOK
<1> HIDE DEF e
<1>4. ToSet(eventQueue') \subseteq ToSet(eventQueue) \cup {e}
  BY <1>1, <1>2, <1>3, AppendElements, ZenonT(30)
<1> QED BY <1>4 DEF e

LEMMA WriteBlockAdds ==
    ASSUME QtTypeOK, NEW s \in Sessions, NEW block \in Blocks,
           WriteBlock(s, block)
    PROVE  /\ ToSet(eventQueue') \subseteq
                  ToSet(eventQueue)
                      \cup {[signal |-> "disconnected", sess |-> s]}
           /\ \A t \in Sessions :
                  ToSet(tx'[t]) \subseteq ToSet(tx[t]) \cup
                                            {b \in {block} : t = s}
<1>1. CASE LoseConnection(s) /\ UNCHANGED tx
  BY <1>1, LoseConnectionAdds
<1>2. CASE /\ tx' = [tx EXCEPT ![s] = Append(@, block)]
           /\ UNCHANGED <<sock, eventQueue>>
  <2>1. tx[s] \in Seq(Blocks)
    BY DEF QtTypeOK
  <2>2. tx'[s] = Append(tx[s], block) /\ \A t \in Sessions \ {s} : tx'[t] = tx[t]
    BY <1>2 DEF QtTypeOK
  <2>3. ToSet(tx'[s]) = ToSet(tx[s]) \cup {block}
    BY <2>1, <2>2, AppendElements
  <2> QED BY <1>2, <2>2, <2>3
<1>3. CASE UNCHANGED <<sock, tx, eventQueue>>
  BY <1>3
<1> QED BY <1>1, <1>2, <1>3 DEF WriteBlock

-----------------------------------------------------------------------------
\* Who a session is.

BeforeLogin == {"idle", "backlog", "run", "authenticate"}

\* A name is one whose key the client holds and is never given up; queued
\* connectedUser() signals, m_userSocket and blocks written agree with it.
IdentityInv ==
    /\ \A s \in Sessions : m_username[s] \in KeysOf[s] \cup {NoName}
    /\ \A s \in Sessions : pc[s] \in BeforeLogin => m_username[s] = NoName
    /\ \A e \in ToSet(eventQueue) :
           e.signal = "connectedUser" => m_username[e.sess] = e.name
    /\ \A u \in Users :
           m_userSocket[u] # NoSocket => m_username[m_userSocket[u]] = u
    /\ \A s \in Sessions : \A b \in ToSet(tx[s]) :
           b.ind = "LOGIN_DENIED" \/ m_username[s] # NoName

LEMMA EmittedSignals ==
    ASSUME NEW user, NEW request, NEW at,
           NEW e \in ToSet(Emitted(user, request, at))
    PROVE  e.signal \in {"addMessage", "deleteMessage", "modifyMessage",
                         "changeUserRole", "getUserPasswordHalf"}
BY DEF Emitted, ToSet

\* A worker changes no name but its own, and that only by logging in.
LEMMA WorkerNames ==
    ASSUME TypeOK, NEW s \in Sessions, ThreadStep(s)
    PROVE  /\ \/ UNCHANGED m_username
              \/ /\ pc[s] = "authenticate"
                 /\ pc'[s] = "announce"
                 /\ \E user \in KeysOf[s] :
                        m_username' = [m_username EXCEPT ![s] = user]
           /\ \A t \in Sessions : pc'[t] \in BeforeLogin => pc[t] \in BeforeLogin
<1>1. \/ UNCHANGED m_username
      \/ /\ pc[s] = "authenticate"
         /\ pc'[s] = "announce"
         /\ \E user \in KeysOf[s] :
                m_username' = [m_username EXCEPT ![s] = user]
  <2>1. CASE AcceptLogin(s)
    BY <2>1 DEF AcceptLogin, Goto, TypeOK, ThreadTypeOK
  <2>2. CASE ~AcceptLogin(s)
    BY <2>2
       DEF ThreadStep, SetSocketDescriptor, RejectCertificate, DenyLogin,
           AnnounceUser, OpenMessages, FetchMessage, SendMessages, TakeAck,
           MissAck, FindClosed, ReadRole, FetchUser, SendUsers,
           InitModerator, ReceiveRequests, LeaveMainCycle, CheckRole,
           EmitRequest, EndRequests
  <2> QED BY <2>1, <2>2
<1>2. \/ UNCHANGED pc
      \/ pc[s] \in BeforeLogin /\ \E to : pc' = [pc EXCEPT ![s] = to]
      \/ \E to : to \notin BeforeLogin /\ pc' = [pc EXCEPT ![s] = to]
  <2>1. CASE SetSocketDescriptor(s)
    BY <2>1 DEF SetSocketDescriptor, Goto, BeforeLogin
  <2>2. CASE ReadRole(s)
    BY <2>2 DEF ReadRole, Goto, BeforeLogin
  <2>3. CASE CheckRole(s)
    BY <2>3 DEF CheckRole, Goto, BeforeLogin
  <2>4. CASE RejectCertificate(s) \/ DenyLogin(s) \/ AcceptLogin(s)
    BY <2>4 DEF RejectCertificate, DenyLogin, AcceptLogin, Goto, BeforeLogin
  <2>5. CASE AnnounceUser(s) \/ OpenMessages(s) \/ SendMessages(s)
    BY <2>5 DEF AnnounceUser, OpenMessages, SendMessages, Goto, BeforeLogin
  <2>6. CASE TakeAck(s) \/ MissAck(s) \/ FindClosed(s)
    BY <2>6 DEF TakeAck, MissAck, FindClosed, Goto, BeforeLogin
  <2>7. CASE SendUsers(s) \/ InitModerator(s) \/ ReceiveRequests(s)
    BY <2>7 DEF SendUsers, InitModerator, ReceiveRequests, Goto, BeforeLogin
  <2>8. CASE LeaveMainCycle(s) \/ EmitRequest(s) \/ EndRequests(s)
    BY <2>8 DEF LeaveMainCycle, EmitRequest, EndRequests, Goto, BeforeLogin
  <2>9. CASE FetchMessage(s) \/ FetchUser(s)
    BY <2>9 DEF FetchMessage, FetchUser
  <2> QED BY <2>1, <2>2, <2>3, <2>4, <2>5, <2>6, <2>7, <2>8, <2>9
          DEF ThreadStep
<1>3. \A t \in Sessions : pc'[t] \in BeforeLogin => pc[t] \in BeforeLogin
  BY <1>2 DEF TypeOK, ThreadTypeOK
<1> QED BY <1>1, <1>3

\* The connectedUser() a worker posts carries its own name.
LEMMA WorkerEvents ==
    ASSUME TypeOK, NEW s \in Sessions, ThreadStep(s),
           NEW e \in ToSet(eventQueue'), e.signal = "connectedUser"
    PROVE  \/ e \in ToSet(eventQueue)
           \/ /\ pc[s] = "announce"
              /\ e = [signal |-> "connectedUser", sess |-> s,
                      name |-> m_username[s]]
<1>1. QtTypeOK /\ eventQueue \in Seq(Events) /\ WorkerTypeOK
  BY DEF TypeOK, QtTypeOK, WorkerTypeOK
<1>2. ASSUME NEW block \in Blocks, WriteBlock(s, block)
      PROVE  e \in ToSet(eventQueue)
  BY <1>1, <1>2, WriteBlockAdds
<1>3. ASSUME NEW event \in Events, Post(event), event.signal # "connectedUser"
      PROVE  e \in ToSet(eventQueue)
  BY <1>1, <1>3, AppendElements DEF Post
<1>4. CASE UNCHANGED eventQueue
  BY <1>4
<1>5. CASE DenyLogin(s)
  BY <1>3, <1>5, EventsPosted DEF DenyLogin, Events
<1>6. CASE AcceptLogin(s)
  BY <1>2, <1>6, AnswersSent DEF AcceptLogin
<1>7. CASE AnnounceUser(s)
  <2> DEFINE event == [signal |-> "connectedUser", sess |-> s,
                       name |-> m_username[s]]
  <2>1. pc[s] = "announce" /\ Post(event)
    BY <1>7 DEF AnnounceUser, Goto
  <2>2. m_username[s] \in Users
    BY <2>1 DEF TypeOK, ThreadTypeOK, LoggedIn
  <2>3. event \in Events
    BY <2>2, EventsPosted
  <2> HIDE DEF event
  <2>4. e \in ToSet(eventQueue) \/ e = event
    BY <1>1, <2>1, <2>3, AppendElements DEF Post
  <2> QED BY <2>1, <2>4 DEF event
<1>8. CASE SendMessages(s)
  <2>1. rows[s] \in Seq(MessageRows)
    BY <1>8, EmptySeq DEF SendMessages, Goto, TypeOK, ThreadTypeOK
  <2> QED BY <1>2, <1>8, <2>1, AnswersSent DEF SendMessages
<1>9. CASE FindClosed(s)
  BY <1>1, <1>9, LoseConnectionAdds DEF FindClosed
<1>10. CASE SendUsers(s)
  <2>1. rows[s] \in Seq(UserRows)
    BY <1>10, EmptySeq DEF SendUsers, Goto, TypeOK, ThreadTypeOK
  <2> QED BY <1>2, <1>10, <2>1, AnswersSent DEF SendUsers
<1>11. CASE InitModerator(s)
  BY <1>2, <1>11, AnswersSent DEF InitModerator
<1>12. CASE LeaveMainCycle(s)
  <2>1. m_username[s] \in Users
    BY <1>12 DEF LeaveMainCycle, Goto, LoggedIn, TypeOK, ThreadTypeOK
  <2> QED BY <1>3, <1>12, <2>1, EventsPosted DEF LeaveMainCycle
<1>13. CASE EmitRequest(s)
  <2> DEFINE emitted == Emitted(m_username[s], Head(buffer[s]), seen[s])
  <2>1. m_username[s] \in Users
    BY <1>13 DEF EmitRequest, Goto, LoggedIn, TypeOK, ThreadTypeOK
  <2>2. Head(buffer[s]) \in Requests
    BY <1>13, HeadTailProperties DEF EmitRequest, TypeOK, ThreadTypeOK
  <2>3. emitted \in Seq(Events)
    BY <2>1, <2>2, EmittedType DEF TypeOK, ThreadTypeOK
  <2>4. e \notin ToSet(emitted)
    BY EmittedSignals
  <2>5. eventQueue' = eventQueue \o emitted
    BY <1>13 DEF EmitRequest
  <2> HIDE DEF emitted
  <2>6. ToSet(eventQueue') \subseteq ToSet(eventQueue) \cup ToSet(emitted)
    BY <1>1, <2>3, <2>5, ConcatElements
  <2> QED BY <2>4, <2>6
<1> QED
  BY <1>4, <1>5, <1>6, <1>7, <1>8, <1>9, <1>10, <1>11, <1>12, <1>13
     DEF ThreadStep, SetSocketDescriptor, RejectCertificate, OpenMessages,
         FetchMessage, TakeAck, MissAck, ReadRole, FetchUser,
         ReceiveRequests, CheckRole, EndRequests

\* A worker writes to its own socket, and nothing but a refusal before the
\* login has given it a name.
LEMMA WorkerBlocks ==
    ASSUME TypeOK, NEW s \in Sessions, ThreadStep(s),
           NEW t \in Sessions, NEW b \in ToSet(tx'[t])
    PROVE  \/ b \in ToSet(tx[t])
           \/ b.ind = "LOGIN_DENIED"
           \/ t = s /\ LoggedIn(s)'
<1>1. QtTypeOK
  BY DEF TypeOK
<1>2. ASSUME NEW block \in Blocks, WriteBlock(s, block)
      PROVE  b \in ToSet(tx[t]) \/ t = s
  BY <1>1, <1>2, WriteBlockAdds
<1>3. CASE UNCHANGED tx
  BY <1>3
<1>4. CASE DenyLogin(s)
  <2> DEFINE denied == [ind |-> "LOGIN_DENIED"]
  <2>1. tx' = [tx EXCEPT ![s] = Append(@, denied)]
    BY <1>4 DEF DenyLogin
  <2>2. denied \in Blocks /\ denied.ind = "LOGIN_DENIED"
    BY AnswersSent
  <2> HIDE DEF denied
  <2>3. ToSet(tx'[t]) \subseteq ToSet(tx[t]) \cup {denied}
    BY <1>1, <2>1, <2>2, AppendElements DEF QtTypeOK
  <2> QED BY <2>2, <2>3
<1>5. CASE AcceptLogin(s)
  <2>1. LoggedIn(s)'
    BY <1>5 DEF AcceptLogin, Goto, LoggedIn, TypeOK, ThreadTypeOK
  <2> QED BY <1>2, <1>5, <2>1, AnswersSent DEF AcceptLogin
<1>6. CASE SendMessages(s)
  <2>1. rows[s] \in Seq(MessageRows)
    BY <1>6, EmptySeq DEF SendMessages, Goto, TypeOK, ThreadTypeOK
  <2>2. LoggedIn(s)'
    BY <1>6 DEF SendMessages, Goto, LoggedIn, TypeOK, ThreadTypeOK
  <2> QED BY <1>2, <1>6, <2>1, <2>2, AnswersSent DEF SendMessages
<1>7. CASE SendUsers(s)
  <2>1. rows[s] \in Seq(UserRows)
    BY <1>7, EmptySeq DEF SendUsers, Goto, TypeOK, ThreadTypeOK
  <2>2. LoggedIn(s)'
    BY <1>7 DEF SendUsers, Goto, LoggedIn, TypeOK, ThreadTypeOK
  <2> QED BY <1>2, <1>7, <2>1, <2>2, AnswersSent DEF SendUsers
<1>8. CASE InitModerator(s)
  <2>1. LoggedIn(s)'
    BY <1>8 DEF InitModerator, Goto, LoggedIn, TypeOK, ThreadTypeOK
  <2> QED BY <1>2, <1>8, <2>1, AnswersSent DEF InitModerator
<1> QED
  BY <1>3, <1>4, <1>5, <1>6, <1>7, <1>8
     DEF ThreadStep, SetSocketDescriptor, RejectCertificate, AnnounceUser,
         OpenMessages, FetchMessage, TakeAck, MissAck, FindClosed, ReadRole,
         FetchUser, ReceiveRequests, LeaveMainCycle, CheckRole, EmitRequest,
         EndRequests, socketVars

LEMMA WorkerIdentity ==
    ASSUME TypeOK, IdentityInv, NEW s \in Sessions, Worker(s)
    PROVE  IdentityInv'
<1>1. ThreadStep(s) /\ UNCHANGED m_userSocket
  BY DEF Worker, mainVars
<1>2. /\ m_username \in [Sessions -> Users \cup {NoName}]
      /\ m_userSocket \in [Users -> Sessions \cup {NoSocket}]
      /\ \A t \in Sessions : KeysOf[t] \subseteq Users
      /\ NoName \notin Users
  BY KeysAssumption DEF TypeOK, ThreadTypeOK, Users, NoName
<1>3. \/ UNCHANGED m_username
      \/ /\ pc[s] = "authenticate"
         /\ pc'[s] = "announce"
         /\ \E user \in KeysOf[s] :
                m_username' = [m_username EXCEPT ![s] = user]
  BY <1>1, WorkerNames
<1>4. \A t \in Sessions : m_username[t] # NoName => m_username'[t] = m_username[t]
  <2>1. CASE pc[s] = "authenticate"
    BY <1>2, <1>3, <2>1 DEF IdentityInv, BeforeLogin
  <2> QED BY <1>3, <2>1
<1>5. \A t \in Sessions : m_username'[t] \in KeysOf[t] \cup {NoName}
  BY <1>2, <1>3 DEF IdentityInv
<1>6. \A t \in Sessions : pc'[t] \in BeforeLogin => m_username'[t] = NoName
  <2>1. \A t \in Sessions : pc'[t] \in BeforeLogin => m_username[t] = NoName
    BY <1>1, WorkerNames DEF IdentityInv
  <2>2. "announce" \notin BeforeLogin
    BY DEF BeforeLogin
  <2> QED BY <1>2, <1>3, <2>1, <2>2
<1>7. \A e \in ToSet(eventQueue') :
          e.signal = "connectedUser" => m_username'[e.sess] = e.name
  <2> SUFFICES ASSUME NEW e \in ToSet(eventQueue'), e.signal = "connectedUser"
               PROVE  m_username'[e.sess] = e.name
    OBVIOUS
  <2>1. CASE e \in ToSet(eventQueue)
    <3>1. e \in Events
      BY <2>1, InSequence DEF TypeOK, QtTypeOK
    <3>2. e.sess \in Sessions /\ e.name \in Users
      BY <3>1, EventFields
    <3>3. m_username[e.sess] = e.name
      BY <2>1 DEF IdentityInv
    <3> QED BY <1>2, <1>4, <3>2, <3>3
  <2>2. CASE /\ pc[s] = "announce"
             /\ e = [signal |-> "connectedUser", sess |-> s,
                     name |-> m_username[s]]
    <3>1. UNCHANGED m_username
      BY <1>3, <2>2
    <3> QED BY <2>2, <3>1
  <2> QED BY <1>1, <2>1, <2>2, WorkerEvents
<1>8. \A u \in Users :
          m_userSocket'[u] # NoSocket => m_username'[m_userSocket'[u]] = u
  BY <1>1, <1>2, <1>4 DEF IdentityInv
<1>9. \A t \in Sessions : \A b \in ToSet(tx'[t]) :
          b.ind = "LOGIN_DENIED" \/ m_username'[t] # NoName
  <2> SUFFICES ASSUME NEW t \in Sessions, NEW b \in ToSet(tx'[t]),
                      b.ind # "LOGIN_DENIED"
               PROVE  m_username'[t] # NoName
    OBVIOUS
  <2>1. CASE b \in ToSet(tx[t])
    BY <1>4, <2>1 DEF IdentityInv
  <2>2. CASE t = s /\ LoggedIn(s)'
    <3>1. TypeOK'
      BY WorkerType
    <3> QED BY <1>2, <2>2, <3>1 DEF TypeOK, ThreadTypeOK
  <2> QED BY <1>1, <2>1, <2>2, WorkerBlocks
<1> QED BY <1>5, <1>6, <1>7, <1>8, <1>9 DEF IdentityInv

LEMMA DispatchIdentity ==
    ASSUME TypeOK, IdentityInv, Dispatch
    PROVE  IdentityInv'
<1> DEFINE e == Head(eventQueue)
<1>1. /\ e \in Events
      /\ e \in ToSet(eventQueue)
      /\ ToSet(eventQueue') \subseteq ToSet(eventQueue)
  BY HeadTailProperties, TailElements DEF Dispatch, TypeOK, QtTypeOK
<1>2. UNCHANGED <<pc, m_username, tx>>
  BY DEF Dispatch
<1>3. \A u \in Users :
          m_userSocket'[u] # NoSocket => m_username'[m_userSocket'[u]] = u
  <2>1. CASE addNewUserToMap(e)
    <3>1. e.signal = "connectedUser" /\ e.name \in Users
      BY <1>1, <2>1, EventFields DEF addNewUserToMap
    <3>2. m_username[e.sess] = e.name
      BY <1>1, <3>1 DEF IdentityInv
    <3>3. \/ UNCHANGED m_userSocket
          \/ m_userSocket' = [m_userSocket EXCEPT ![e.name] = e.sess]
      BY <2>1 DEF addNewUserToMap
    <3> HIDE DEF e
    <3> QED BY <1>2, <3>1, <3>2, <3>3 DEF IdentityInv, TypeOK
  <2>2. CASE removeUserFromMap(e)
    <3>1. m_userSocket' = [m_userSocket EXCEPT ![e.name] = NoSocket]
      BY <2>2 DEF removeUserFromMap
    <3> HIDE DEF e
    <3> QED BY <1>2, <3>1 DEF IdentityInv, TypeOK
  <2>3. CASE UNCHANGED m_userSocket
    BY <1>2, <2>3 DEF IdentityInv
  <2> QED BY <2>1, <2>2, <2>3
          DEF Dispatch, userAuthenticationFailed, disconnectedUser,
              sendMessage, deleteMessage, modifyMessage, changeUserRole,
              getUserPasswordHalf, failToWrite, Tell
<1> QED BY <1>1, <1>2, <1>3 DEF IdentityInv

LEMMA WriteBlocksIdentity ==
    ASSUME TypeOK, IdentityInv, WriteBlocks
    PROVE  IdentityInv'
<1> DEFINE o == Head(outgoing)
<1>1. UNCHANGED <<eventQueue, pc, m_username, m_userSocket>>
  BY DEF WriteBlocks
<1>2. o.block \in Blocks /\ o.to \subseteq Users
  <2>1. o \in [block : Blocks, to : SUBSET Users]
    BY HeadTailProperties DEF TypeOK, WriteBlocks
  <2> QED BY <2>1
<1>3. ASSUME NEW s \in Sessions, NEW b \in ToSet(tx'[s]),
             b.ind # "LOGIN_DENIED"
      PROVE  m_username[s] # NoName
  <2>1. CASE b \in ToSet(tx[s])
    BY <1>3, <2>1 DEF IdentityInv
  <2>2. CASE b \notin ToSet(tx[s])
    <3>1. s \in Reached(o.to)
      BY <1>3, <2>2 DEF WriteBlocks
    <3>2. PICK u \in Users : m_userSocket[u] = s
      BY <1>2, <3>1 DEF Reached
    <3>3. s # NoSocket
      BY NoSocketAssumption
    <3>4. m_username[s] = u
      BY <3>2, <3>3 DEF IdentityInv
    <3> QED BY <3>4 DEF Users, NoName
  <2> QED BY <2>1, <2>2
<1> QED BY <1>1, <1>3 DEF IdentityInv

LEMMA OthersIdentity ==
    ASSUME TypeOK, IdentityInv,
           \/ UNCHANGED vars
           \/ \E s \in Sessions : NewUser(s) \/ TakeBlocks(s) \/ ClientStep(s)
    PROVE  IdentityInv'
<1>1. UNCHANGED <<eventQueue, tx, m_username, m_userSocket>>
  BY DEF vars, socketVars, mainVars, threadVars, NewUser, TakeBlocks,
         ClientStep, Connect, SendRequest, AckMessages, CloseClient
<1>2. \A t \in Sessions : pc'[t] \in BeforeLogin => pc[t] \in BeforeLogin
  <2>1. \/ UNCHANGED pc
        \/ \E s \in Sessions : Goto(s, "idle", "backlog")
        \/ \E s \in Sessions : Goto(s, "backlog", "run")
    BY DEF vars, threadVars, NewUser, TakeBlocks, ClientStep, Connect,
           SendRequest, AckMessages, CloseClient
  <2> QED BY <2>1 DEF Goto, BeforeLogin, TypeOK, ThreadTypeOK
<1> QED BY <1>1, <1>2 DEF IdentityInv

LEMMA InitIdentity ==
    ASSUME Init
    PROVE  IdentityInv
BY DEF Init, QtInit, ThreadInit, EchoInit, IdentityInv, ToSet

LEMMA IdentityImplies ==
    ASSUME TypeOK, IdentityInv
    PROVE  KeyHoldersOnly
<1>1. NoName \notin Users /\ \A s \in Sessions : KeysOf[s] \subseteq Users
  BY KeysAssumption DEF Users, NoName
<1>2. ASSUME NEW u \in Users, m_userSocket[u] # NoSocket
      PROVE  /\ u \in KeysOf[m_userSocket[u]]
             /\ m_username[m_userSocket[u]] = u
  <2>1. m_userSocket[u] \in Sessions
    BY <1>2 DEF TypeOK
  <2>2. m_username[m_userSocket[u]] = u
    BY <1>2 DEF IdentityInv
  <2> QED BY <1>1, <2>1, <2>2 DEF IdentityInv
<1>3. ASSUME NEW s \in Sessions,
             \E i \in DOMAIN tx[s] : tx[s][i].ind # "LOGIN_DENIED"
      PROVE  m_username[s] \in KeysOf[s]
  BY <1>3 DEF IdentityInv, ToSet
<1> QED BY <1>2, <1>3 DEF KeyHoldersOnly

\* The map names, and blocks reach, only clients that have shown the key of
\* the user they are registered or addressed as: no interleaving of logins,
\* refusals and disconnections of any number of sessions mixes them up
\* (serverthread.cpp:58, echoserver.cpp:140-178).
THEOREM KeyHolders == Spec => []KeyHoldersOnly
<1> DEFINE IInv == TypeOK /\ IdentityInv
<1>1. Init => IInv
  BY InitType, InitIdentity
<1>2. IInv /\ [Next]_vars => IInv'
  BY NextType, WorkerIdentity, DispatchIdentity, WriteBlocksIdentity,
     OthersIdentity DEF Next, Main, MainStep
<1>3. IInv => KeyHoldersOnly
  BY IdentityImplies
<1> QED BY <1>1, <1>2, <1>3, PTL DEF Spec
=============================================================================
