------------------------ MODULE ServerRestartsProofs ------------------------
(***************************************************************************)
(* Theorems about the server with its restarts, for any number of users,   *)
(* sessions, texts, message ids and restarts, and whatever the clients do: *)
(* types, key holders, ids; that moderation requests are authorised; that  *)
(* no entry of the map outlives its thread for good, and none is removed   *)
(* before its session has been disconnected, if no two clients share a     *)
(* key.                                                                    *)
(***************************************************************************)
EXTENDS ServerRestarts, ChatServerProofs

-----------------------------------------------------------------------------
\* What a restart leaves of the invariants of ChatServer.

LEMMA RestartType ==
    ASSUME TypeOK, Restart
    PROVE  TypeOK'
<1> USE DEF Restart, ProgramEnds
<1>1. DbTypeOK'
  BY DbUnchanged DEF TypeOK
<1>2. QtTypeOK'
  <2>1. eventQueue' \in Seq(Events) /\ <<>> \in Seq(Requests)
    BY EmptySeq
  <2>2. rx' \in [Sessions -> Seq(Requests)] /\ sock' \in [Sessions -> BOOLEAN]
    BY <2>1
  <2> QED BY <2>1, <2>2 DEF TypeOK, QtTypeOK
<1>3. ThreadTypeOK'
  <2>1. <<>> \in Seq(Requests) /\ <<>> \in Seq(MessageRows \cup UserRows)
    BY EmptySeq
  <2>2. /\ rows' \in [Sessions -> Seq(MessageRows \cup UserRows)]
        /\ buffer' \in [Sessions -> Seq(Requests)]
        /\ \A s \in Sessions : rows'[s] = <<>>
    BY <2>1
  <2>3. pc' \in [Sessions -> States]
    BY StatesReached DEF TypeOK, ThreadTypeOK
  <2>4. \A s \in Sessions : pc'[s] \in {"idle", "done"}
    BY DEF Started, TypeOK, ThreadTypeOK
  <2>5. \A s \in Sessions : LoggedIn(s)' => m_username'[s] \in Users
    BY <2>4 DEF LoggedIn
  <2> QED BY <2>2, <2>3, <2>5 DEF TypeOK, ThreadTypeOK
<1>4. outgoing' \in Seq([block : Blocks, to : SUBSET Users])
  BY EmptySeq
<1>5. m_userSocket' \in [Users -> Sessions \cup {NoSocket}]
  OBVIOUS
<1> QED BY <1>1, <1>2, <1>3, <1>4, <1>5 DEF TypeOK, clientVars

LEMMA RestartIdentity ==
    ASSUME TypeOK, IdentityInv, Restart
    PROVE  IdentityInv'
<1>1. /\ UNCHANGED <<m_username, tx>>
      /\ eventQueue' = <<>>
      /\ \A u \in Users : m_userSocket'[u] = NoSocket
      /\ \A s \in Sessions : pc'[s] = "done" \/ pc'[s] = pc[s]
  BY DEF Restart, ProgramEnds, TypeOK, ThreadTypeOK
<1>2. ToSet(eventQueue') = {}
  BY <1>1 DEF ToSet
<1> QED BY <1>1, <1>2 DEF IdentityInv, BeforeLogin

LEMMA NextIdentity ==
    ASSUME TypeOK, IdentityInv, [Next]_vars
    PROVE  IdentityInv'
BY WorkerIdentity, DispatchIdentity, WriteBlocksIdentity, OthersIdentity
   DEF Next, Main, MainStep

LEMMA RestartSteps ==
    ASSUME [RestartNext]_restartVars
    PROVE  [Next]_vars \/ Restart
BY DEF RestartNext, restartVars

\* Type correctness, also of what a program finds that has been started again.
THEOREM RestartTypeCorrect == RestartSpec => []TypeOK
<1>1. RestartInit => TypeOK
  BY InitType DEF RestartInit
<1>2. TypeOK /\ [RestartNext]_restartVars => TypeOK'
  BY NextType, RestartType, RestartSteps
<1> QED BY <1>1, <1>2, PTL DEF RestartSpec

\* No restart lets a client into the map, or be written to, under a name whose
\* key it has not shown to the running program (serverthread.cpp:58).
THEOREM RestartKeyHolders == RestartSpec => []KeyHoldersOnly
<1> DEFINE IInv == TypeOK /\ IdentityInv
<1>1. RestartInit => IInv
  BY InitType, InitIdentity DEF RestartInit
<1>2. IInv /\ [RestartNext]_restartVars => IInv'
  BY NextType, RestartType, NextIdentity, RestartIdentity, RestartSteps
<1>3. IInv => KeyHoldersOnly
  BY IdentityImplies
<1> QED BY <1>1, <1>2, <1>3, PTL DEF RestartSpec

-----------------------------------------------------------------------------
\* The log.  A step that adds to it applies the event at the head of the
\* queue to the database; every other step leaves both alone.

\* The block as the database has it: the id it is announced with may be one
\* that a failed query has given.
Applied(block) ==
    IF block.ind = "ADD_MESSAGE"
       THEN [ind |-> "ADD_MESSAGE", id |-> sqlite_sequence + 1,
             name |-> block.name, text |-> block.text]
       ELSE block

LogEntry(e, block) ==
    /\ log' = Append(log, [event |-> e, block |-> block])
    /\ roles' = IF e.signal = "changeUserRole"
                   THEN [roles EXCEPT ![e.him] = e.role] ELSE roles
    /\ sqlite_sequence' = IF e.signal = "addMessage"
                             THEN sqlite_sequence + 1 ELSE sqlite_sequence
    /\ block.ind = "ADD_MESSAGE" <=> e.signal = "addMessage"
    /\ block.ind = "ADD_MESSAGE" /\ ~ReadsMayFail =>
           block.id = sqlite_sequence'
    /\ messages' = ApplyBlock(messages, Applied(block))
    /\ block \in Broadcasts \cup RoleChanges
    /\ \E to \in SUBSET Users :
           /\ Tell(e, block, to)
           /\ IF IsBroadcast(block) THEN to = Users
                                    ELSE \E u \in Users : to = {u}

LEMMA SlotLogs ==
    ASSUME TypeOK, NEW e \in Events,
           \/ addNewUserToMap(e)
           \/ removeUserFromMap(e)
           \/ userAuthenticationFailed(e)
           \/ disconnectedUser(e)
           \/ sendMessage(e)
           \/ deleteMessage(e)
           \/ modifyMessage(e)
           \/ changeUserRole(e)
           \/ getUserPasswordHalf(e)
           \/ failToWrite(e)
    PROVE  \/ UNCHANGED <<log, dbVars>>
           \/ \E block \in Blocks : LogEntry(e, block)
<1> DEFINE Goal == \/ UNCHANGED <<log, dbVars>>
                   \/ \E block \in Blocks : LogEntry(e, block)
<1> USE DEF LogEntry
<1>1. CASE addNewUserToMap(e) \/ removeUserFromMap(e)
           \/ userAuthenticationFailed(e) \/ disconnectedUser(e)
           \/ failToWrite(e)
  BY <1>1 DEF addNewUserToMap, removeUserFromMap, userAuthenticationFailed,
              disconnectedUser, failToWrite
<1>2. CASE sendMessage(e)
  <2>1. e.name \in Users /\ e.text \in Texts
    BY <1>2, EventFields DEF sendMessage
  <2>2. add_message(e.name, e.text) /\ e.signal = "addMessage"
    BY <1>2 DEF sendMessage
  <2>3. get_message_id(messages', e.name, e.text) = sqlite_sequence'
    BY <2>1, <2>2, AddedIdFound DEF TypeOK
  <2>4. /\ sqlite_sequence' = sqlite_sequence + 1
        /\ sqlite_sequence' \in MessageIds
        /\ roles' = roles
    BY <2>2 DEF add_message
  <2>5. PICK id \in MessageIds :
            /\ ReadsMayFail \/ id = sqlite_sequence'
            /\ Tell(e, [ind |-> "ADD_MESSAGE", id |-> id, name |-> e.name,
                        text |-> e.text], Users)
    BY <1>2, <2>3, <2>4, IdsAssumption DEF sendMessage, MessageIds
  <2> DEFINE block == [ind |-> "ADD_MESSAGE", id |-> id, name |-> e.name,
                       text |-> e.text]
  <2>6. block \in Broadcasts
    BY <2>1 DEF Broadcasts
  <2>7. messages' = ApplyBlock(messages, Applied(block))
    BY <2>2 DEF add_message, Applied, ApplyBlock
  <2>8. block.ind = "ADD_MESSAGE" /\ block.id = id
    OBVIOUS
  <2> HIDE DEF block
  <2>9. log' = Append(log, [event |-> e, block |-> block])
    BY <2>5 DEF Tell, block
  <2>10. Tell(e, block, Users)
    BY <2>5 DEF block
  <2>11. LogEntry(e, block)
    BY <2>2, <2>4, <2>5, <2>6, <2>7, <2>8, <2>9, <2>10 DEF IsBroadcast
  <2> QED BY <2>6, <2>11 DEF Blocks
<1>3. CASE deleteMessage(e)
  <2> DEFINE block == [ind |-> "DELETE_MESSAGE", id |-> e.id]
  <2>1. block \in Broadcasts
    BY <1>3, EventFields DEF deleteMessage, Broadcasts
  <2>2. /\ Tell(e, block, Users)
        /\ log' = Append(log, [event |-> e, block |-> block])
    BY <1>3 DEF deleteMessage, Tell
  <2>3. /\ e.signal = "deleteMessage"
        /\ UNCHANGED <<roles, sqlite_sequence>>
        /\ messages' = ApplyBlock(messages, Applied(block))
        /\ block.ind = "DELETE_MESSAGE" /\ IsBroadcast(block)
    BY <1>3 DEF deleteMessage, delete_message, Applied, ApplyBlock,
                IsBroadcast
  <2> HIDE DEF block
  <2>4. LogEntry(e, block)
    BY <2>1, <2>2, <2>3
  <2> QED BY <2>1, <2>4 DEF Blocks
<1>4. CASE modifyMessage(e)
  <2> DEFINE block == [ind |-> "MODIFY_MESSAGE", id |-> e.id,
                       text |-> e.text]
  <2>1. block \in Broadcasts
    BY <1>4, EventFields DEF modifyMessage, Broadcasts
  <2>2. /\ Tell(e, block, Users)
        /\ log' = Append(log, [event |-> e, block |-> block])
    BY <1>4 DEF modifyMessage, Tell
  <2>3. /\ e.signal = "modifyMessage"
        /\ UNCHANGED <<roles, sqlite_sequence>>
        /\ messages' = ApplyBlock(messages, Applied(block))
        /\ block.ind = "MODIFY_MESSAGE" /\ IsBroadcast(block)
    BY <1>4 DEF modifyMessage, modify_message, Applied, ApplyBlock,
                IsBroadcast
  <2> HIDE DEF block
  <2>4. LogEntry(e, block)
    BY <2>1, <2>2, <2>3
  <2> QED BY <2>1, <2>4 DEF Blocks
<1>5. CASE changeUserRole(e)
  <2> DEFINE block == [ind |-> IF e.role = "m" THEN "SET_NEW_MODERATOR"
                                               ELSE "DELETE_MODERATOR"]
  <2>1. block \in RoleChanges
    BY DEF RoleChanges
  <2>2. /\ Tell(e, block, {e.him})
        /\ log' = Append(log, [event |-> e, block |-> block])
        /\ e.him \in Users
    BY <1>5, EventFields DEF changeUserRole, Tell
  <2>3. /\ e.signal = "changeUserRole"
        /\ roles' = [roles EXCEPT ![e.him] = e.role]
        /\ UNCHANGED sqlite_sequence
        /\ messages' = ApplyBlock(messages, Applied(block))
        /\ block.ind # "ADD_MESSAGE"
        /\ ~IsBroadcast(block)
    BY <1>5 DEF changeUserRole, change_user_role, Applied, ApplyBlock,
                IsBroadcast
  <2> HIDE DEF block
  <2>4. LogEntry(e, block)
    BY <2>1, <2>2, <2>3
  <2> QED BY <2>1, <2>4 DEF Blocks
<1>6. CASE getUserPasswordHalf(e)
  <2>1. e.name \in Users
    BY <1>6, EventFields DEF getUserPasswordHalf
  <2>2. PICK half \in Users \cup {NoName} :
            Tell(e, [ind |-> "USER_GET_PASSWORD_HALF", half |-> half], Users)
    BY <1>6, <2>1 DEF getUserPasswordHalf
  <2> DEFINE block == [ind |-> "USER_GET_PASSWORD_HALF", half |-> half]
  <2>3. block \in Broadcasts
    BY DEF Broadcasts
  <2>4. /\ Tell(e, block, Users)
        /\ log' = Append(log, [event |-> e, block |-> block])
    BY <2>2 DEF Tell
  <2>5. /\ e.signal = "getUserPasswordHalf"
        /\ UNCHANGED <<roles, sqlite_sequence>>
        /\ messages' = ApplyBlock(messages, Applied(block))
        /\ block.ind # "ADD_MESSAGE" /\ IsBroadcast(block)
    BY <1>6 DEF getUserPasswordHalf, dbVars, Applied, ApplyBlock, IsBroadcast
  <2> HIDE DEF block
  <2>6. LogEntry(e, block)
    BY <2>3, <2>4, <2>5
  <2> QED BY <2>3, <2>6 DEF Blocks
<1> QED BY <1>1, <1>2, <1>3, <1>4, <1>5, <1>6

LEMMA WorkerKeepsDb ==
    ASSUME NEW s \in Sessions, ThreadStep(s)
    PROVE  UNCHANGED dbVars
BY DEF ThreadStep, SetSocketDescriptor, RejectCertificate, DenyLogin,
       AcceptLogin, AnnounceUser, OpenMessages, FetchMessage, SendMessages,
       TakeAck, MissAck, FindClosed, ReadRole, FetchUser, SendUsers,
       InitModerator, ReceiveRequests, LeaveMainCycle, CheckRole,
       EmitRequest, EndRequests

LEMMA LogStep ==
    ASSUME TypeOK, [Next]_vars
    PROVE  \/ UNCHANGED <<log, dbVars>>
           \/ /\ Dispatch
              /\ \E block \in Blocks : LogEntry(Head(eventQueue), block)
<1>1. CASE Dispatch
  <2>1. Head(eventQueue) \in Events
    BY <1>1, HeadTailProperties DEF Dispatch, TypeOK, QtTypeOK
  <2> QED BY <1>1, <2>1, SlotLogs DEF Dispatch
<1>2. CASE WriteBlocks \/ \E s \in Sessions : NewUser(s) \/ TakeBlocks(s)
  BY <1>2 DEF WriteBlocks, NewUser, TakeBlocks, mainVars
<1>3. CASE \E s \in Sessions : Worker(s)
  BY <1>3, WorkerKeepsDb DEF Worker, mainVars
<1>4. CASE \E s \in Sessions : ClientStep(s)
  BY <1>4 DEF ClientStep, Connect, SendRequest, AckMessages, CloseClient,
              mainVars
<1>5. CASE UNCHANGED vars
  BY <1>5 DEF vars, mainVars
<1> QED BY <1>1, <1>2, <1>3, <1>4, <1>5 DEF Next, Main, MainStep

-----------------------------------------------------------------------------
\* Ids.

\* The ids announced so far are those AUTOINCREMENT has given since the start,
\* in that order, none above the largest.
IdsInv ==
    /\ Len(InitMessages) <= sqlite_sequence
    /\ \A i \in DOMAIN log :
           log[i].block.ind = "ADD_MESSAGE" =>
               log[i].block.id \in Len(InitMessages) + 1 .. sqlite_sequence
    /\ \A i, j \in DOMAIN log :
           /\ log[i].block.ind = "ADD_MESSAGE"
           /\ log[j].block.ind = "ADD_MESSAGE"
           /\ i < j
           => log[i].block.id < log[j].block.id

LEMMA AppendedLog ==
    ASSUME TypeOK, NEW entry \in [event : Events, block : Blocks],
           log' = Append(log, entry)
    PROVE  /\ DOMAIN log = 1 .. Len(log)
           /\ DOMAIN log' = 1 .. Len(log) + 1
           /\ Len(log') = Len(log) + 1
           /\ Len(log) \in Nat
           /\ \A i \in DOMAIN log : log'[i] = log[i]
           /\ log'[Len(log) + 1] = entry
BY AppendProperties, LenProperties DEF TypeOK, QtTypeOK

LEMMA IdsStep ==
    ASSUME TypeOK, IdsInv, ~ReadsMayFail, [Next]_vars
    PROVE  IdsInv'
<1>1. CASE UNCHANGED <<log, dbVars>>
  BY <1>1 DEF IdsInv, dbVars
<1>2. CASE Dispatch /\ \E block \in Blocks : LogEntry(Head(eventQueue), block)
  <2> DEFINE e == Head(eventQueue)
  <2>1. e \in Events
    BY <1>2, HeadTailProperties DEF Dispatch, TypeOK, QtTypeOK
  <2>2. PICK block \in Blocks : LogEntry(e, block)
    BY <1>2
  <2> DEFINE entry == [event |-> e, block |-> block]
             n == Len(log) + 1
  <2>3. entry \in [event : Events, block : Blocks]
    BY <2>1
  <2>4. log' = Append(log, entry)
    BY <2>2 DEF LogEntry
  <2>5. /\ DOMAIN log = 1 .. Len(log)
        /\ DOMAIN log' = 1 .. n
        /\ Len(log) \in Nat
        /\ \A i \in DOMAIN log : log'[i] = log[i]
        /\ log'[n].block = block
    BY <2>3, <2>4, AppendedLog
  <2>6. /\ sqlite_sequence \in Nat
        /\ Len(InitMessages) \in Nat
    BY DatabaseAssumption, LenProperties DEF TypeOK, DbTypeOK, MessageIds
  <2>7. \/ /\ sqlite_sequence' = sqlite_sequence
           /\ block.ind # "ADD_MESSAGE"
        \/ /\ sqlite_sequence' = sqlite_sequence + 1
           /\ block.id = sqlite_sequence'
    BY <2>2 DEF LogEntry
  <2> HIDE DEF e, entry
  <2>8. \A i \in DOMAIN log' : i = n \/ i \in DOMAIN log
    BY <2>5
  <2>9. \A i \in DOMAIN log' :
            log'[i].block.ind = "ADD_MESSAGE" =>
                log'[i].block.id \in Len(InitMessages) + 1 .. sqlite_sequence'
    BY <2>5, <2>6, <2>7, <2>8 DEF IdsInv
  <2>10. ASSUME NEW i \in DOMAIN log', NEW j \in DOMAIN log', i < j,
                log'[i].block.ind = "ADD_MESSAGE",
                log'[j].block.ind = "ADD_MESSAGE"
         PROVE  log'[i].block.id < log'[j].block.id
    <3>1. i \in DOMAIN log
      BY <2>5, <2>10
    <3>2. CASE j = n
      BY <2>5, <2>6, <2>7, <2>10, <3>1, <3>2 DEF IdsInv
    <3>3. CASE j \in DOMAIN log
      BY <2>5, <2>10, <3>1, <3>3 DEF IdsInv
    <3> QED BY <2>8, <3>2, <3>3
  <2> QED BY <2>6, <2>7, <2>9, <2>10 DEF IdsInv
<1> QED BY <1>1, <1>2, LogStep

LEMMA RestartKeepsIds ==
    ASSUME IdsInv, Restart
    PROVE  IdsInv'
BY DEF IdsInv, Restart, ProgramEnds, dbVars

\* No id is announced for two messages, however often the program is started
\* again and whatever is deleted before, if reading an id does not fail
\* (get_message_id() gives 0 then, sqlwrapper.cpp:94; AUTOINCREMENT,
\* sqlwrapper.cpp:209).
THEOREM RestartIds == ~ReadsMayFail /\ RestartSpec => []IdsNeverReused
<1> SUFFICES ASSUME ~ReadsMayFail
             PROVE  RestartSpec => []IdsNeverReused
  OBVIOUS
<1> DEFINE IInv == TypeOK /\ IdsInv
<1>1. RestartInit => IInv
  <2> SUFFICES ASSUME RestartInit PROVE IInv
    OBVIOUS
  <2>1. /\ log = <<>>
        /\ sqlite_sequence = Len(InitMessages)
        /\ Len(InitMessages) \in Nat
    BY DatabaseAssumption, LenProperties
       DEF RestartInit, Init, QtInit, DbInit
  <2> QED BY <2>1, InitType DEF IdsInv, RestartInit
<1>2. IInv /\ [RestartNext]_restartVars => IInv'
  BY NextType, RestartType, IdsStep, RestartKeepsIds, RestartSteps
<1>3. IInv => IdsNeverReused
  <2>1. Len(InitMessages) \in Nat
    BY DatabaseAssumption, LenProperties
  <2>2. TypeOK => sqlite_sequence \in Nat
    BY DEF TypeOK, DbTypeOK, MessageIds
  <2> QED BY <2>1, <2>2 DEF IdsInv, IdsNeverReused
<1> QED BY <1>1, <1>2, <1>3, PTL DEF RestartSpec

-----------------------------------------------------------------------------
\* Moderation.

Moderations == {"deleteMessage", "modifyMessage", "changeUserRole"}

\* One of the roles that may ask for e was the sender's when it was read.
Authorised(e) ==
    e.signal \in Moderations =>
        /\ e.seen \in 0 .. Len(log)
        /\ \E role \in RolesFor(e.signal) : HadRole(e.name, role, e.seen)

\* What the log says of the roles agrees with table users; each request that a
\* worker is about to emit, or that is queued or applied, is authorised by it.
RolesInv ==
    /\ \A u \in Users, role \in Roles, n \in Nat :
           roles[u] = role /\ n = Len(log) => HadRole(u, role, n)
    /\ \A s \in Sessions, u \in Users, n \in Nat :
           pc[s] = "emit" /\ m_username[s] = u /\ seen[s] = n =>
               /\ n \in 0 .. Len(log)
               /\ \E role \in RolesAllowed(Head(buffer[s]).ind) :
                      HadRole(u, role, n)
    /\ \A e \in ToSet(eventQueue) : Authorised(e)
    /\ \A e \in Events : (\E i \in DOMAIN log : log[i].event = e)
                             => Authorised(e)

LEMMA RolesForModerations ==
    ASSUME NEW signal, RolesFor(signal) # Roles
    PROVE  signal \in Moderations
BY DEF RolesFor, Moderations

-----------------------------------------------------------------------------
\* The log and the roles.

\* A longer log says the same about its beginning.
LEMMA PastRoles ==
    ASSUME TypeOK, NEW entry \in [event : Events, block : Blocks],
           log' = Append(log, entry), NEW u, NEW role,
           NEW n \in 0 .. Len(log), HadRole(u, role, n)
    PROVE  HadRole(u, role, n)'
<1>1. /\ Len(log) \in Nat
      /\ \A i \in 1 .. n : log'[i] = log[i]
  BY AppendedLog
<1> QED BY <1>1 DEF HadRole

LEMMA PastRequests ==
    ASSUME TypeOK, NEW entry \in [event : Events, block : Blocks],
           log' = Append(log, entry), NEW e, Authorised(e)
    PROVE  Authorised(e)'
<1> SUFFICES ASSUME e.signal \in Moderations
             PROVE  Authorised(e)'
  BY DEF Authorised
<1>1. e.seen \in 0 .. Len(log)
  BY DEF Authorised
<1>2. PICK role \in RolesFor(e.signal) : HadRole(e.name, role, e.seen)
  BY DEF Authorised
<1>3. HadRole(e.name, role, e.seen)'
  BY <1>1, <1>2, PastRoles
<1>4. e.seen \in 0 .. Len(log')
  BY <1>1, AppendedLog
<1> QED BY <1>3, <1>4 DEF Authorised, RolesFor

\* The role a user has once an event has been applied is in the log.
LEMMA PresentRole ==
    ASSUME TypeOK, NEW e \in Events, NEW block \in Blocks,
           LogEntry(e, block), NEW u \in Users, NEW role \in Roles,
           NEW n \in Nat, n = Len(log), HadRole(u, roles[u], n),
           roles'[u] = role
    PROVE  HadRole(u, role, n + 1)'
<1>1. [event |-> e, block |-> block] \in [event : Events, block : Blocks]
  OBVIOUS
<1>2. /\ \A i \in 1 .. n : log'[i] = log[i]
      /\ log'[n + 1].event = e
  BY <1>1, AppendedLog DEF LogEntry
<1>3. CASE e.signal = "changeUserRole" /\ e.him = u
  <2>1. e.role = role
    BY <1>3 DEF LogEntry, TypeOK, DbTypeOK
  <2> QED BY <1>2, <1>3, <2>1 DEF HadRole
<1>4. CASE ~(e.signal = "changeUserRole" /\ e.him = u)
  <2>1. roles[u] = role
    BY <1>4 DEF LogEntry, TypeOK, DbTypeOK
  <2>2. HadRole(u, role, n)
    BY <2>1
  <2> QED BY <1>2, <1>4, <2>2, SMTT(30) DEF HadRole
<1> QED BY <1>3, <1>4

-----------------------------------------------------------------------------
\* The workers.

\* Only the check of the role takes a worker to where it emits.
LEMMA EmitReached ==
    ASSUME TypeOK, NEW s \in Sessions, ThreadStep(s), NEW t \in Sessions,
           pc'[t] = "emit"
    PROVE  \/ t = s /\ CheckRole(s)
           \/ /\ pc[t] = "emit"
              /\ m_username'[t] = m_username[t]
              /\ seen'[t] = seen[t]
              /\ buffer'[t] = buffer[t]
<1> USE DEF TypeOK, ThreadTypeOK, Goto
<1>1. CASE SetSocketDescriptor(s) \/ RejectCertificate(s) \/ DenyLogin(s)
           \/ AcceptLogin(s)
  BY <1>1 DEF SetSocketDescriptor, RejectCertificate, DenyLogin, AcceptLogin
<1>2. CASE AnnounceUser(s) \/ OpenMessages(s) \/ FetchMessage(s)
           \/ SendMessages(s)
  BY <1>2 DEF AnnounceUser, OpenMessages, FetchMessage, SendMessages
<1>3. CASE TakeAck(s) \/ MissAck(s) \/ FindClosed(s)
  BY <1>3 DEF TakeAck, MissAck, FindClosed
<1>4. CASE ReadRole(s)
  BY <1>4 DEF ReadRole
<1>5. CASE FetchUser(s) \/ SendUsers(s) \/ InitModerator(s)
  BY <1>5 DEF FetchUser, SendUsers, InitModerator
<1>6. CASE ReceiveRequests(s) \/ LeaveMainCycle(s) \/ EndRequests(s)
  BY <1>6 DEF ReceiveRequests, LeaveMainCycle, EndRequests
<1>7. CASE CheckRole(s)
  <2>1. CASE t = s
    BY <1>7, <2>1
  <2>2. CASE t # s
    BY <1>7, <2>2 DEF CheckRole
  <2> QED BY <2>1, <2>2
<1>8. CASE EmitRequest(s)
  BY <1>8 DEF EmitRequest
<1> QED BY <1>1, <1>2, <1>3, <1>4, <1>5, <1>6, <1>7, <1>8 DEF ThreadStep

\* authorize() gives the role in the table, or 'e', which is allowed nothing.
LEMMA RoleChecked ==
    ASSUME TypeOK, NEW s \in Sessions, CheckRole(s), pc'[s] = "emit"
    PROVE  /\ m_username'[s] = m_username[s]
           /\ m_username[s] \in Users
           /\ seen'[s] = Len(log)
           /\ buffer'[s] = buffer[s]
           /\ roles[m_username[s]] \in RolesAllowed(Head(buffer[s]).ind)
<1> USE DEF TypeOK, ThreadTypeOK
<1>1. PICK role \in authorize(s) :
          IF role \in RolesAllowed(Head(buffer[s]).ind)
             THEN Goto(s, "serve", "emit") /\ UNCHANGED buffer
             ELSE /\ Goto(s, "serve", "mainCycle")
                  /\ buffer' = [buffer EXCEPT ![s] = Tail(@)]
  BY DEF CheckRole
<1>2. role \in RolesAllowed(Head(buffer[s]).ind) /\ UNCHANGED buffer
  BY <1>1 DEF Goto
<1>3. "e" \notin RolesAllowed(Head(buffer[s]).ind)
  BY DEF RolesAllowed, Roles
<1>4. role = roles[m_username[s]]
  BY <1>2, <1>3 DEF authorize, get_user_role
<1>5. m_username[s] \in Users /\ UNCHANGED m_username
  BY DEF CheckRole, LoggedIn
<1>6. seen'[s] = Len(log)
  BY DEF CheckRole
<1> QED BY <1>2, <1>4, <1>5, <1>6

\* A request is emitted in the name, and with the reading of the role, of the
\* worker that has checked it.
LEMMA EmittedModeration ==
    ASSUME NEW user, NEW request \in Requests, NEW at,
           NEW e \in ToSet(Emitted(user, request, at)),
           e.signal \in Moderations
    PROVE  /\ NeedsRole(request.ind)
           /\ e.name = user
           /\ e.seen = at
           /\ RolesFor(e.signal) = RolesAllowed(request.ind)
<1> USE DEF Emitted, ToSet, RolesFor, RolesAllowed, NeedsRole, Roles,
            Moderations
<1>1. CASE request.ind \in {"DELETE_MESSAGE", "MODIFY_MESSAGE"}
  BY <1>1
<1>2. CASE request.ind \in {"SET_NEW_MODERATOR", "DELETE_MODERATOR"}
  BY <1>2
<1>3. CASE request.ind \notin {"DELETE_MESSAGE", "MODIFY_MESSAGE",
                              "SET_NEW_MODERATOR", "DELETE_MODERATOR"}
  BY <1>3
<1> QED BY <1>1, <1>2, <1>3

\* The moderation requests a worker posts are those it has checked.
LEMMA WorkerModerations ==
    ASSUME TypeOK, NEW s \in Sessions, ThreadStep(s),
           NEW e \in ToSet(eventQueue'), e.signal \in Moderations
    PROVE  \/ e \in ToSet(eventQueue)
           \/ /\ pc[s] = "emit"
              /\ e.name = m_username[s]
              /\ e.seen = seen[s]
              /\ RolesFor(e.signal) = RolesAllowed(Head(buffer[s]).ind)
<1>1. QtTypeOK /\ eventQueue \in Seq(Events)
  BY DEF TypeOK, QtTypeOK
<1>2. ASSUME NEW block \in Blocks, WriteBlock(s, block)
      PROVE  e \in ToSet(eventQueue)
  BY <1>1, <1>2, WriteBlockAdds DEF Moderations
<1>3. ASSUME NEW event \in Events, Post(event),
             event.signal \notin Moderations
      PROVE  e \in ToSet(eventQueue)
  BY <1>1, <1>3, AppendElements DEF Post
<1>4. CASE UNCHANGED eventQueue
  BY <1>4
<1>5. CASE DenyLogin(s)
  BY <1>3, <1>5, EventsPosted DEF DenyLogin, Events, Moderations
<1>6. CASE AcceptLogin(s)
  BY <1>2, <1>6, AnswersSent DEF AcceptLogin
<1>7. CASE AnnounceUser(s)
  <2>1. m_username[s] \in Users
    BY <1>7 DEF AnnounceUser, Goto, LoggedIn, TypeOK, ThreadTypeOK
  <2> QED BY <1>3, <1>7, <2>1, EventsPosted DEF AnnounceUser, Moderations
<1>8. CASE SendMessages(s)
  <2>1. rows[s] \in Seq(MessageRows)
    BY <1>8, EmptySeq DEF SendMessages, Goto, TypeOK, ThreadTypeOK
  <2> QED BY <1>2, <1>8, <2>1, AnswersSent DEF SendMessages
<1>9. CASE FindClosed(s)
  BY <1>1, <1>9, LoseConnectionAdds DEF FindClosed, Moderations
<1>10. CASE SendUsers(s)
  <2>1. rows[s] \in Seq(UserRows)
    BY <1>10, EmptySeq DEF SendUsers, Goto, TypeOK, ThreadTypeOK
  <2> QED BY <1>2, <1>10, <2>1, AnswersSent DEF SendUsers
<1>11. CASE InitModerator(s)
  BY <1>2, <1>11, AnswersSent DEF InitModerator
<1>12. CASE LeaveMainCycle(s)
  <2>1. m_username[s] \in Users
    BY <1>12 DEF LeaveMainCycle, Goto, LoggedIn, TypeOK, ThreadTypeOK
  <2> QED BY <1>3, <1>12, <2>1, EventsPosted DEF LeaveMainCycle, Moderations
<1>13. CASE EmitRequest(s)
  <2> DEFINE emitted == Emitted(m_username[s], Head(buffer[s]), seen[s])
  <2>1. m_username[s] \in Users
    BY <1>13 DEF EmitRequest, Goto, LoggedIn, TypeOK, ThreadTypeOK
  <2>2. Head(buffer[s]) \in Requests
    BY <1>13, HeadTailProperties DEF EmitRequest, TypeOK, ThreadTypeOK
  <2>3. emitted \in Seq(Events)
    BY <2>1, <2>2, EmittedType DEF TypeOK, ThreadTypeOK
  <2>4. e \in ToSet(emitted) =>
            /\ NeedsRole(Head(buffer[s]).ind)
            /\ e.name = m_username[s]
            /\ e.seen = seen[s]
            /\ RolesFor(e.signal) = RolesAllowed(Head(buffer[s]).ind)
    BY <2>2, EmittedModeration
  <2>5. eventQueue' = eventQueue \o emitted
    BY <1>13 DEF EmitRequest
  <2>6. pc[s] = "emit" \/ ~NeedsRole(Head(buffer[s]).ind)
    BY <1>13 DEF EmitRequest, Goto
  <2> HIDE DEF emitted
  <2>7. ToSet(eventQueue') \subseteq ToSet(eventQueue) \cup ToSet(emitted)
    BY <1>1, <2>3, <2>5, ConcatElements
  <2> QED BY <2>4, <2>6, <2>7
<1> QED
  BY <1>4, <1>5, <1>6, <1>7, <1>8, <1>9, <1>10, <1>11, <1>12, <1>13
     DEF ThreadStep, SetSocketDescriptor, RejectCertificate, OpenMessages,
         FetchMessage, TakeAck, MissAck, ReadRole, FetchUser,
         ReceiveRequests, CheckRole, EndRequests

-----------------------------------------------------------------------------
\* The invariant, step by step.

LEMMA SameLog ==
    ASSUME UNCHANGED log
    PROVE  /\ \A u, role, n : HadRole(u, role, n)' <=> HadRole(u, role, n)
           /\ \A e : Authorised(e)' <=> Authorised(e)
BY DEF HadRole, Authorised, RolesFor

LEMMA WorkerAuthorised ==
    ASSUME TypeOK, RolesInv, NEW s \in Sessions, Worker(s)
    PROVE  RolesInv'
<1>1. ThreadStep(s) /\ UNCHANGED <<log, roles>>
  BY WorkerKeepsDb DEF Worker, mainVars, dbVars
<1>2. Len(log) \in Nat /\ roles \in [Users -> Roles]
  BY LenProperties DEF TypeOK, QtTypeOK, DbTypeOK
<1>3. \A u \in Users, role \in Roles, n \in Nat :
          roles'[u] = role /\ n = Len(log') => HadRole(u, role, n)'
  BY <1>1, SameLog DEF RolesInv
<1>4. ASSUME NEW t \in Sessions, NEW u \in Users, NEW n \in Nat,
             pc'[t] = "emit", m_username'[t] = u, seen'[t] = n
      PROVE  /\ n \in 0 .. Len(log')
             /\ \E role \in RolesAllowed(Head(buffer'[t]).ind) :
                    HadRole(u, role, n)'
  <2>1. CASE t = s /\ CheckRole(s)
    <3>1. /\ m_username[s] = u
          /\ n = Len(log)
          /\ buffer'[s] = buffer[s]
          /\ roles[u] \in RolesAllowed(Head(buffer[s]).ind)
      BY <1>4, <2>1, RoleChecked
    <3>2. HadRole(u, roles[u], n)
      BY <1>2, <3>1 DEF RolesInv
    <3>3. HadRole(u, roles[u], n)'
      BY <1>1, <3>2, SameLog DEF HadRole
    <3> QED BY <1>1, <1>2, <2>1, <3>1, <3>3 DEF HadRole
  <2>2. CASE /\ pc[t] = "emit"
             /\ m_username'[t] = m_username[t]
             /\ seen'[t] = seen[t]
             /\ buffer'[t] = buffer[t]
    <3>1. PICK role \in RolesAllowed(Head(buffer[t]).ind) :
              HadRole(u, role, n)
      BY <1>4, <2>2 DEF RolesInv
    <3>2. HadRole(u, role, n)'
      BY <1>1, <3>1, SameLog
    <3>3. n \in 0 .. Len(log')
      BY <1>1, <1>4, <2>2 DEF RolesInv
    <3> QED BY <2>2, <3>2, <3>3
  <2> QED BY <1>1, <1>4, <2>1, <2>2, EmitReached
<1>5. ASSUME NEW e \in ToSet(eventQueue')
      PROVE  Authorised(e)'
  <2>1. CASE e \in ToSet(eventQueue)
    BY <1>1, <2>1, SameLog DEF RolesInv
  <2>2. CASE e.signal \notin Moderations
    BY <2>2 DEF Authorised
  <2>3. CASE /\ pc[s] = "emit"
             /\ e.name = m_username[s]
             /\ e.seen = seen[s]
             /\ RolesFor(e.signal) = RolesAllowed(Head(buffer[s]).ind)
    <3>1. e.name \in Users /\ e.seen \in Nat
      BY <2>3 DEF TypeOK, ThreadTypeOK, LoggedIn
    <3>2. Authorised(e)
      BY <2>3, <3>1 DEF RolesInv, Authorised
    <3> QED BY <1>1, <3>2, SameLog
  <2> QED BY <1>1, <2>1, <2>2, <2>3, WorkerModerations
<1>6. \A e \in Events : (\E i \in DOMAIN log' : log'[i].event = e)
                            => Authorised(e)'
  BY <1>1, SameLog DEF RolesInv
<1> QED BY <1>3, <1>4, <1>5, <1>6 DEF RolesInv

\* Steps of the main thread and the clients that leave the log alone.
LEMMA OthersAuthorised ==
    ASSUME TypeOK, RolesInv, UNCHANGED <<log, roles>>,
           ToSet(eventQueue') \subseteq ToSet(eventQueue),
           \A s \in Sessions : pc'[s] = "emit" =>
               /\ pc[s] = "emit"
               /\ m_username'[s] = m_username[s]
               /\ seen'[s] = seen[s]
               /\ buffer'[s] = buffer[s]
    PROVE  RolesInv'
<1>1. ASSUME NEW t \in Sessions, NEW u \in Users, NEW n \in Nat,
             pc'[t] = "emit", m_username'[t] = u, seen'[t] = n
      PROVE  /\ n \in 0 .. Len(log')
             /\ \E role \in RolesAllowed(Head(buffer'[t]).ind) :
                    HadRole(u, role, n)'
  <2>1. buffer'[t] = buffer[t]
    BY <1>1
  <2>2. PICK role \in RolesAllowed(Head(buffer[t]).ind) : HadRole(u, role, n)
    BY <1>1 DEF RolesInv
  <2>3. HadRole(u, role, n)'
    BY <2>2, SameLog
  <2>4. n \in 0 .. Len(log')
    BY <1>1 DEF RolesInv
  <2> QED BY <2>1, <2>3, <2>4
<1>2. \A u \in Users, role \in Roles, n \in Nat :
          roles'[u] = role /\ n = Len(log') => HadRole(u, role, n)'
  BY SameLog DEF RolesInv
<1>3. \A e \in ToSet(eventQueue') : Authorised(e)'
  BY SameLog DEF RolesInv
<1>4. \A e \in Events : (\E i \in DOMAIN log' : log'[i].event = e)
                            => Authorised(e)'
  BY SameLog DEF RolesInv
<1> QED BY <1>1, <1>2, <1>3, <1>4 DEF RolesInv

LEMMA DispatchAuthorised ==
    ASSUME TypeOK, RolesInv, Dispatch
    PROVE  RolesInv'
<1>1. /\ Head(eventQueue) \in Events
      /\ Head(eventQueue) \in ToSet(eventQueue)
      /\ ToSet(eventQueue') \subseteq ToSet(eventQueue)
  BY HeadTailProperties, TailElements DEF Dispatch, TypeOK, QtTypeOK
<1>2. /\ UNCHANGED <<pc, seen, buffer>>
      /\ \A s \in Sessions : m_username'[s] = m_username[s]
  BY DEF Dispatch
<1>3. CASE UNCHANGED <<log, dbVars>>
  BY <1>1, <1>2, <1>3, OthersAuthorised DEF dbVars
<1>4. CASE \E block \in Blocks : LogEntry(Head(eventQueue), block)
  <2>1. PICK e \in Events : e = Head(eventQueue)
    BY <1>1
  <2>2. PICK block \in Blocks : LogEntry(e, block)
    BY <1>4, <2>1
  <2> DEFINE entry == [event |-> e, block |-> block]
  <2>3. entry \in [event : Events, block : Blocks]
    OBVIOUS
  <2>4. log' = Append(log, entry) /\ entry.event = e
    BY <2>2 DEF LogEntry
  <2> HIDE DEF entry
  <2>5. /\ DOMAIN log' = 1 .. Len(log) + 1
        /\ DOMAIN log = 1 .. Len(log)
        /\ Len(log') = Len(log) + 1
        /\ Len(log) \in Nat
        /\ \A i \in DOMAIN log : log'[i] = log[i]
        /\ log'[Len(log) + 1].event = e
    BY <2>3, <2>4, AppendedLog
  <2>6. ASSUME NEW d, Authorised(d)
        PROVE  Authorised(d)'
    BY <2>3, <2>4, <2>6, PastRequests
  <2>7. ASSUME NEW u \in Users, NEW role \in Roles, NEW n \in Nat,
               roles'[u] = role, n = Len(log')
        PROVE  HadRole(u, role, n)'
    <3>1. PICK k \in Nat : k = Len(log) /\ n = k + 1
      BY <2>5, <2>7
    <3>2. roles[u] \in Roles
      BY DEF TypeOK, DbTypeOK
    <3>3. HadRole(u, roles[u], k)
      BY <3>1, <3>2 DEF RolesInv
    <3>4. HadRole(u, role, k + 1)'
      BY <2>2, <2>7, <3>1, <3>3, PresentRole
    <3> QED BY <3>1, <3>4
  <2>8. ASSUME NEW t \in Sessions, NEW u \in Users, NEW n \in Nat,
               pc'[t] = "emit", m_username'[t] = u, seen'[t] = n
        PROVE  /\ n \in 0 .. Len(log')
               /\ \E role \in RolesAllowed(Head(buffer'[t]).ind) :
                      HadRole(u, role, n)'
    <3>1. pc[t] = "emit" /\ m_username[t] = u /\ seen[t] = n
      BY <1>2, <2>8
    <3>2. n \in 0 .. Len(log)
      BY <3>1 DEF RolesInv
    <3>3. PICK role \in RolesAllowed(Head(buffer[t]).ind) :
              HadRole(u, role, n)
      BY <3>1 DEF RolesInv
    <3>4. HadRole(u, role, n)'
      BY <2>3, <2>4, <3>2, <3>3, PastRoles
    <3> QED BY <1>2, <2>5, <3>2, <3>3, <3>4
  <2>9. \A d \in ToSet(eventQueue') : Authorised(d)'
    BY <1>1, <2>6 DEF RolesInv
  <2>10. ASSUME NEW d \in Events, NEW i \in DOMAIN log', log'[i].event = d
         PROVE  Authorised(d)'
    <3>1. CASE i \in DOMAIN log
      <4>1. Authorised(d)
        BY <2>5, <2>10, <3>1 DEF RolesInv
      <4> QED BY <4>1, <2>6
    <3>2. CASE i = Len(log) + 1
      <4>1. Authorised(d)
        BY <1>1, <2>1, <2>5, <2>10, <3>2 DEF RolesInv
      <4> QED BY <4>1, <2>6
    <3> QED BY <2>5, <3>1, <3>2
  <2> QED BY <2>7, <2>8, <2>9, <2>10 DEF RolesInv
<1>5. \/ UNCHANGED <<log, dbVars>>
      \/ \E block \in Blocks : LogEntry(Head(eventQueue), block)
  BY <1>1, SlotLogs DEF Dispatch
<1> QED BY <1>3, <1>4, <1>5

LEMMA NextAuthorised ==
    ASSUME TypeOK, RolesInv, [Next]_vars
    PROVE  RolesInv'
<1>1. CASE Dispatch
  BY <1>1, DispatchAuthorised
<1>2. CASE \E s \in Sessions : Worker(s)
  BY <1>2, WorkerAuthorised
<1>3. CASE \/ UNCHANGED vars
           \/ WriteBlocks
           \/ \E s \in Sessions : NewUser(s) \/ TakeBlocks(s) \/ ClientStep(s)
  <2>1. UNCHANGED <<log, roles, eventQueue, m_username, seen, buffer>>
    BY <1>3 DEF vars, mainVars, dbVars, threadVars, WriteBlocks, NewUser,
                TakeBlocks, ClientStep, Connect, SendRequest, AckMessages,
                CloseClient
  <2>2. \/ UNCHANGED pc
        \/ \E s \in Sessions : Goto(s, "idle", "backlog")
        \/ \E s \in Sessions : Goto(s, "backlog", "run")
    BY <1>3 DEF vars, threadVars, WriteBlocks, NewUser, TakeBlocks,
                ClientStep, Connect, SendRequest, AckMessages, CloseClient
  <2>3. \A s \in Sessions : pc'[s] = "emit" => pc[s] = "emit"
    BY <2>2 DEF Goto, TypeOK, ThreadTypeOK
  <2> QED BY <2>1, <2>3, OthersAuthorised
<1> QED BY <1>1, <1>2, <1>3 DEF Next, Main, MainStep

LEMMA RestartAuthorised ==
    ASSUME TypeOK, RolesInv, Restart
    PROVE  RolesInv'
<1>1. /\ UNCHANGED <<log, roles>>
      /\ eventQueue' = <<>>
      /\ \A s \in Sessions : pc'[s] # "emit"
  BY DEF Restart, ProgramEnds, dbVars, Started, TypeOK, ThreadTypeOK
<1>2. ToSet(eventQueue') = {}
  BY <1>1 DEF ToSet
<1> QED BY <1>1, <1>2, OthersAuthorised

LEMMA InitAuthorised ==
    ASSUME Init
    PROVE  RolesInv
<1>1. /\ log = <<>>
      /\ eventQueue = <<>>
      /\ roles = InitRoles
      /\ \A s \in Sessions : pc[s] # "emit"
  BY DEF Init, QtInit, DbInit, ThreadInit
<1>2. ToSet(eventQueue) = {} /\ DOMAIN log = {} /\ Len(log) = 0
  BY <1>1 DEF ToSet
<1>3. \A u \in Users : HadRole(u, roles[u], 0)
  BY <1>1 DEF HadRole
<1>4. \A u \in Users, role \in Roles, n \in Nat :
          roles[u] = role /\ n = Len(log) => HadRole(u, role, n)
  BY <1>2, <1>3
<1> QED BY <1>1, <1>2, <1>4 DEF RolesInv

\* Whatever requests, appointments and dismissals are under way together, and
\* however often the program is started again, a moderation request takes
\* effect only if its sender had, when its worker looked, a role that allows
\* it, by the initial table and the changes applied up to then
\* (serverthread.cpp:227-239, 259-276).
THEOREM Moderation == RestartSpec => []ModerationAuthorised
<1> DEFINE IInv == TypeOK /\ RolesInv
<1>1. RestartInit => IInv
  BY InitType, InitAuthorised DEF RestartInit
<1>2. IInv /\ [RestartNext]_restartVars => IInv'
  BY NextType, RestartType, NextAuthorised, RestartAuthorised, RestartSteps
<1>3. IInv => ModerationAuthorised
  <2> SUFFICES ASSUME TypeOK, RolesInv, NEW i \in DOMAIN log,
                      RolesFor(log[i].event.signal) # Roles
               PROVE  \E role \in RolesFor(log[i].event.signal) :
                          HadRole(log[i].event.name, role, log[i].event.seen)
    BY DEF ModerationAuthorised
  <2>1. log[i].event \in Events
    <3>1. log \in Seq([event : Events, block : Blocks])
      BY DEF TypeOK, QtTypeOK
    <3>2. log[i] \in [event : Events, block : Blocks]
      BY <3>1, ElementOfSeq, LenProperties
    <3> QED BY <3>2
  <2>2. Authorised(log[i].event)
    BY <2>1 DEF RolesInv
  <2> QED BY <2>2, RolesForModerations DEF Authorised
<1> QED BY <1>1, <1>2, <1>3, PTL DEF RestartSpec

-----------------------------------------------------------------------------
\* Departure.

Removal(u) == [signal |-> "removeUser", name |-> u]

\* FinishedSessionsLeave alone is not inductive: a connectedUser() may still be
\* queued when its thread ends.  The thread's removeUser() is queued behind it.
DepartureInv ==
    /\ FinishedSessionsLeave
    /\ \A i \in DOMAIN eventQueue :
           LET e == eventQueue[i]
           IN  e.signal = "connectedUser" /\ pc[e.sess] = "done" =>
                   \E j \in DOMAIN eventQueue :
                       i < j /\ eventQueue[j] = Removal(e.name)

\* A step of s has only added to the queue: no connectedUser() but its own.
Extended(s) ==
    /\ \A i \in DOMAIN eventQueue :
           i \in DOMAIN eventQueue' /\ eventQueue'[i] = eventQueue[i]
    /\ \A i \in DOMAIN eventQueue' \ DOMAIN eventQueue :
           eventQueue'[i].signal = "connectedUser" =>
               eventQueue'[i].sess = s /\ pc[s] = "announce"

-----------------------------------------------------------------------------
\* What a worker does to the queue.

LEMMA ExtendedPost ==
    ASSUME QtTypeOK, NEW s \in Sessions, NEW event \in Events, Post(event),
           event.signal = "connectedUser" =>
               event.sess = s /\ pc[s] = "announce"
    PROVE  /\ Extended(s)
           /\ Len(eventQueue) + 1 \in DOMAIN eventQueue'
           /\ eventQueue'[Len(eventQueue) + 1] = event
<1>1. eventQueue \in Seq(Events)
  BY DEF QtTypeOK
<1>2. /\ eventQueue' \in Seq(Events)
      /\ Len(eventQueue') = Len(eventQueue) + 1
      /\ \A i \in 1 .. Len(eventQueue) : eventQueue'[i] = eventQueue[i]
      /\ eventQueue'[Len(eventQueue) + 1] = event
  BY <1>1, AppendProperties DEF Post
<1>3. /\ Len(eventQueue) \in Nat
      /\ DOMAIN eventQueue = 1 .. Len(eventQueue)
      /\ DOMAIN eventQueue' = 1 .. Len(eventQueue) + 1
  BY <1>1, <1>2, LenProperties
<1> QED BY <1>2, <1>3 DEF Extended

LEMMA ExtendedConcat ==
    ASSUME QtTypeOK, NEW s \in Sessions, NEW q \in Seq(Events),
           eventQueue' = eventQueue \o q,
           \A e \in ToSet(q) : e.signal # "connectedUser"
    PROVE  Extended(s)
<1>1. eventQueue \in Seq(Events)
  BY DEF QtTypeOK
<1> DEFINE n == Len(eventQueue)
           k == Len(q)
<1>2. /\ eventQueue' \in Seq(Events)
      /\ Len(eventQueue') = n + k
      /\ \A i \in 1 .. n + k :
             eventQueue'[i] = IF i <= n THEN eventQueue[i] ELSE q[i - n]
  BY <1>1, ConcatProperties
<1>3. /\ n \in Nat /\ DOMAIN eventQueue = 1 .. n
      /\ k \in Nat /\ DOMAIN q = 1 .. k
      /\ DOMAIN eventQueue' = 1 .. n + k
  BY <1>1, <1>2, LenProperties
<1>4. ASSUME NEW i \in (1 .. n + k) \ (1 .. n)
      PROVE  eventQueue'[i].signal # "connectedUser"
  <2>1. i - n \in 1 .. k /\ ~(i <= n)
    BY <1>3
  <2>2. eventQueue'[i] = q[i - n]
    BY <1>2, <2>1
  <2> QED BY <1>3, <2>1, <2>2 DEF ToSet
<1>5. \A i \in 1 .. n : i \in 1 .. n + k /\ eventQueue'[i] = eventQueue[i]
  BY <1>2, <1>3
<1> QED BY <1>3, <1>4, <1>5 DEF Extended

LEMMA ExtendedSame ==
    ASSUME NEW s \in Sessions, UNCHANGED eventQueue
    PROVE  Extended(s)
BY DEF Extended

LEMMA ExtendedLose ==
    ASSUME QtTypeOK, NEW s \in Sessions, LoseConnection(s)
    PROVE  Extended(s)
<1>1. [signal |-> "disconnected", sess |-> s] \in Events
  BY DEF Events
<1> QED BY <1>1, ExtendedPost, ExtendedSame DEF LoseConnection

LEMMA ExtendedWrite ==
    ASSUME QtTypeOK, NEW s \in Sessions, NEW block, WriteBlock(s, block)
    PROVE  Extended(s)
BY ExtendedLose, ExtendedSame DEF WriteBlock

LEMMA WorkerExtends ==
    ASSUME TypeOK, NEW s \in Sessions, ThreadStep(s)
    PROVE  Extended(s)
<1>1. QtTypeOK
  BY DEF TypeOK
<1>2. CASE UNCHANGED eventQueue
  BY <1>2, ExtendedSame
<1>3. CASE DenyLogin(s)
  BY <1>1, <1>3, ExtendedPost, EventsPosted DEF DenyLogin, Events
<1>4. CASE AcceptLogin(s) \/ SendMessages(s) \/ SendUsers(s)
           \/ InitModerator(s)
  BY <1>1, <1>4, ExtendedWrite
     DEF AcceptLogin, SendMessages, SendUsers, InitModerator
<1>5. CASE AnnounceUser(s)
  <2>1. m_username[s] \in Users /\ pc[s] = "announce"
    BY <1>5 DEF AnnounceUser, Goto, LoggedIn, TypeOK, ThreadTypeOK
  <2> QED BY <1>1, <1>5, <2>1, ExtendedPost, EventsPosted DEF AnnounceUser
<1>6. CASE FindClosed(s)
  BY <1>1, <1>6, ExtendedLose DEF FindClosed
<1>7. CASE LeaveMainCycle(s)
  <2>1. m_username[s] \in Users
    BY <1>7 DEF LeaveMainCycle, Goto, LoggedIn, TypeOK, ThreadTypeOK
  <2> QED BY <1>1, <1>7, <2>1, ExtendedPost, EventsPosted DEF LeaveMainCycle
<1>8. CASE EmitRequest(s)
  <2> DEFINE emitted == Emitted(m_username[s], Head(buffer[s]), seen[s])
  <2>1. m_username[s] \in Users
    BY <1>8 DEF EmitRequest, Goto, LoggedIn, TypeOK, ThreadTypeOK
  <2>2. Head(buffer[s]) \in Requests
    BY <1>8, HeadTailProperties DEF EmitRequest, TypeOK, ThreadTypeOK
  <2>3. emitted \in Seq(Events)
    BY <2>1, <2>2, EmittedType DEF TypeOK, ThreadTypeOK
  <2>4. \A e \in ToSet(emitted) : e.signal # "connectedUser"
    BY EmittedSignals
  <2>5. eventQueue' = eventQueue \o emitted
    BY <1>8 DEF EmitRequest
  <2> HIDE DEF emitted
  <2> QED BY <1>1, <2>3, <2>4, <2>5, ExtendedConcat
<1> QED
  BY <1>2, <1>3, <1>4, <1>5, <1>6, <1>7, <1>8
     DEF ThreadStep, SetSocketDescriptor, RejectCertificate, OpenMessages,
         FetchMessage, TakeAck, MissAck, ReadRole, FetchUser,
         ReceiveRequests, CheckRole, EndRequests

\* A thread that ends has no name, or has queued the removal of its name.
LEMMA WorkerEnds ==
    ASSUME TypeOK, NEW s \in Sessions, ThreadStep(s), NEW t \in Sessions,
           pc'[t] = "done", pc[t] # "done"
    PROVE  /\ t = s
           /\ \/ pc[s] \in BeforeLogin
              \/ /\ m_username[s] \in Users
                 /\ \E i \in DOMAIN eventQueue' :
                        /\ i \notin DOMAIN eventQueue
                        /\ eventQueue'[i] = Removal(m_username[s])
<1> USE DEF Goto
<1>1. CASE SetSocketDescriptor(s) \/ RejectCertificate(s) \/ DenyLogin(s)
           \/ AcceptLogin(s)
  BY <1>1 DEF SetSocketDescriptor, RejectCertificate, DenyLogin, AcceptLogin,
              BeforeLogin, TypeOK, ThreadTypeOK
<1>2. CASE LeaveMainCycle(s)
  <2>1. t = s
    BY <1>2 DEF LeaveMainCycle, TypeOK, ThreadTypeOK
  <2>2. m_username[s] \in Users
    BY <1>2 DEF LeaveMainCycle, LoggedIn, TypeOK, ThreadTypeOK
  <2>3. /\ Len(eventQueue) + 1 \in DOMAIN eventQueue'
        /\ eventQueue'[Len(eventQueue) + 1] = Removal(m_username[s])
    BY <1>2, <2>2, ExtendedPost, EventsPosted
       DEF LeaveMainCycle, Removal, TypeOK
  <2>4. Len(eventQueue) + 1 \notin DOMAIN eventQueue
    BY LenProperties DEF TypeOK, QtTypeOK
  <2> QED BY <2>1, <2>2, <2>3, <2>4
<1>3. CASE AnnounceUser(s) \/ OpenMessages(s) \/ FetchMessage(s)
           \/ SendMessages(s)
  BY <1>3 DEF AnnounceUser, OpenMessages, FetchMessage, SendMessages, TypeOK,
              ThreadTypeOK
<1>4. CASE TakeAck(s) \/ MissAck(s) \/ FindClosed(s)
  BY <1>4 DEF TakeAck, MissAck, FindClosed, TypeOK, ThreadTypeOK
<1>5. CASE ReadRole(s)
  BY <1>5 DEF ReadRole, TypeOK, ThreadTypeOK
<1>6. CASE FetchUser(s) \/ SendUsers(s) \/ InitModerator(s)
  BY <1>6 DEF FetchUser, SendUsers, InitModerator, TypeOK, ThreadTypeOK
<1>7. CASE CheckRole(s)
  BY <1>7 DEF CheckRole, TypeOK, ThreadTypeOK
<1>8. CASE ReceiveRequests(s) \/ EmitRequest(s) \/ EndRequests(s)
  BY <1>8 DEF ReceiveRequests, EmitRequest, EndRequests, TypeOK, ThreadTypeOK
<1> QED BY <1>1, <1>2, <1>3, <1>4, <1>5, <1>6, <1>7, <1>8 DEF ThreadStep

LEMMA AnnounceOnly ==
    ASSUME TypeOK, NEW s \in Sessions, ThreadStep(s), pc[s] = "announce"
    PROVE  AnnounceUser(s) /\ pc'[s] = "openMessages"
BY DEF ThreadStep, SetSocketDescriptor, RejectCertificate, DenyLogin,
       AcceptLogin, AnnounceUser, OpenMessages, FetchMessage, SendMessages,
       TakeAck, MissAck, FindClosed, ReadRole, FetchUser, SendUsers,
       InitModerator, ReceiveRequests, LeaveMainCycle, CheckRole,
       EmitRequest, EndRequests, Goto, TypeOK, ThreadTypeOK

-----------------------------------------------------------------------------
\* The invariant, step by step.

LEMMA QueuedUser ==
    ASSUME TypeOK, NEW i \in DOMAIN eventQueue,
           eventQueue[i].signal = "connectedUser"
    PROVE  eventQueue[i].sess \in Sessions /\ eventQueue[i].name \in Users
<1>1. eventQueue[i] \in Events
  BY ElementOfSeq, LenProperties DEF TypeOK, QtTypeOK
<1> QED BY <1>1, EventFields

\* Steps of other actors that leave the queue and the map alone.
LEMMA OthersDepart ==
    ASSUME TypeOK, DepartureInv, UNCHANGED <<eventQueue, m_userSocket>>,
           \A s \in Sessions : pc'[s] = "done" => pc[s] = "done"
    PROVE  DepartureInv'
<1>1. FinishedSessionsLeave'
  BY DEF DepartureInv, FinishedSessionsLeave, TypeOK
<1>2. ASSUME NEW i \in DOMAIN eventQueue,
             eventQueue[i].signal = "connectedUser",
             pc'[eventQueue[i].sess] = "done"
      PROVE  \E j \in DOMAIN eventQueue :
                 i < j /\ eventQueue[j] = Removal(eventQueue[i].name)
  <2>1. pc[eventQueue[i].sess] = "done"
    BY <1>2, QueuedUser
  <2> QED BY <1>2, <2>1 DEF DepartureInv
<1> QED BY <1>1, <1>2 DEF DepartureInv, Removal

LEMMA WorkerDeparts ==
    ASSUME TypeOK, IdentityInv, DepartureInv, NEW s \in Sessions, Worker(s)
    PROVE  DepartureInv'
<1>1. ThreadStep(s) /\ UNCHANGED m_userSocket
  BY DEF Worker, mainVars
<1>2. Extended(s)
  BY <1>1, WorkerExtends
<1>3. DOMAIN eventQueue \subseteq Nat /\ DOMAIN eventQueue' \subseteq Nat
  <2>1. TypeOK'
    BY WorkerType
  <2> QED BY <2>1, LenProperties, SMTT(30) DEF TypeOK, QtTypeOK
\* The thread of a session that had the name u ends: u is removed.
<1>4. ASSUME NEW t \in Sessions, NEW u \in Users, m_username[t] = u,
             pc'[t] = "done", pc[t] # "done"
      PROVE  \E j \in DOMAIN eventQueue' :
                 j \notin DOMAIN eventQueue /\ eventQueue'[j] = Removal(u)
  <2>1. pc[t] \notin BeforeLogin
    BY <1>4 DEF IdentityInv, Users, NoName
  <2> QED BY <1>1, <1>4, <2>1, WorkerEnds
<1>5. ASSUME NEW u \in Users, m_userSocket'[u] # NoSocket,
             pc'[m_userSocket'[u]] = "done"
      PROVE  \E j \in DOMAIN eventQueue' : eventQueue'[j] = Removal(u)
  <2>1. PICK t \in Sessions : t = m_userSocket[u] /\ t = m_userSocket'[u]
    BY <1>1, <1>5 DEF TypeOK
  <2>2. CASE pc[t] = "done"
    <3>1. PICK j \in DOMAIN eventQueue : eventQueue[j] = Removal(u)
      BY <1>1, <1>5, <2>1, <2>2
         DEF DepartureInv, FinishedSessionsLeave, Removal
    <3> QED BY <1>2, <3>1 DEF Extended
  <2>3. CASE pc[t] # "done"
    <3>1. m_username[t] = u
      BY <1>1, <1>5, <2>1 DEF IdentityInv
    <3> QED BY <1>4, <1>5, <2>1, <2>3, <3>1
  <2> QED BY <2>2, <2>3
<1>6. ASSUME NEW i \in DOMAIN eventQueue',
             eventQueue'[i].signal = "connectedUser",
             pc'[eventQueue'[i].sess] = "done"
      PROVE  \E j \in DOMAIN eventQueue' :
                 i < j /\ eventQueue'[j] = Removal(eventQueue'[i].name)
  <2>1. CASE i \in DOMAIN eventQueue
    <3>1. eventQueue'[i] = eventQueue[i]
      BY <1>2, <2>1 DEF Extended
    <3>2. PICK t \in Sessions, u \in Users :
              t = eventQueue[i].sess /\ u = eventQueue[i].name
      BY <1>6, <2>1, <3>1, QueuedUser
    <3>3. CASE pc[t] = "done"
      <4>1. PICK j \in DOMAIN eventQueue :
                i < j /\ eventQueue[j] = Removal(u)
        BY <1>6, <2>1, <3>1, <3>2, <3>3 DEF DepartureInv
      <4> QED BY <1>2, <3>1, <3>2, <4>1 DEF Extended
    <3>4. CASE pc[t] # "done"
      <4>1. eventQueue[i] \in ToSet(eventQueue)
        BY <2>1 DEF ToSet
      <4>2. m_username[t] = u
        BY <1>6, <3>1, <3>2, <4>1 DEF IdentityInv
      <4>3. PICK j \in DOMAIN eventQueue' :
                /\ j \notin DOMAIN eventQueue
                /\ eventQueue'[j] = Removal(u)
        BY <1>4, <1>6, <3>1, <3>2, <3>4, <4>2
      <4>4. i < j
        <5>1. DOMAIN eventQueue = 1 .. Len(eventQueue)
              /\ Len(eventQueue) \in Nat
          BY LenProperties DEF TypeOK, QtTypeOK
        <5>2. DOMAIN eventQueue' = 1 .. Len(eventQueue')
              /\ Len(eventQueue') \in Nat
          <6>1. TypeOK'
            BY WorkerType
          <6> QED BY <6>1, LenProperties DEF TypeOK, QtTypeOK
        <5> QED BY <2>1, <4>3, <5>1, <5>2
      <4> QED BY <3>1, <3>2, <4>3, <4>4
    <3> QED BY <3>3, <3>4
  <2>2. CASE i \notin DOMAIN eventQueue
    <3>1. eventQueue'[i].sess = s /\ pc[s] = "announce"
      BY <1>2, <1>6, <2>2 DEF Extended
    <3>2. pc'[s] = "openMessages"
      BY <1>1, <3>1, AnnounceOnly
    <3> QED BY <1>6, <3>1, <3>2
  <2> QED BY <2>1, <2>2
<1> QED BY <1>5, <1>6 DEF DepartureInv, FinishedSessionsLeave, Removal

\* What of the queue is left when its head is taken.
LEMMA Shifted ==
    ASSUME TypeOK, Dispatch
    PROVE  /\ 1 \in DOMAIN eventQueue
           /\ eventQueue[1] = Head(eventQueue)
           /\ DOMAIN eventQueue \subseteq Nat
           /\ DOMAIN eventQueue' \subseteq Nat
           /\ \A i \in DOMAIN eventQueue' :
                  /\ i + 1 \in DOMAIN eventQueue
                  /\ eventQueue'[i] = eventQueue[i + 1]
           /\ \A i \in DOMAIN eventQueue :
                  i > 1 => /\ i - 1 \in DOMAIN eventQueue'
                           /\ eventQueue'[i - 1] = eventQueue[i]
<1>1. eventQueue \in Seq(Events) /\ eventQueue # <<>>
      /\ eventQueue' = Tail(eventQueue)
  BY DEF TypeOK, QtTypeOK, Dispatch
<1>2. Len(eventQueue) \in Nat \ {0} /\ DOMAIN eventQueue = 1 .. Len(eventQueue)
  BY <1>1, EmptySeq, LenProperties
<1>3. /\ DOMAIN Tail(eventQueue) = 1 .. Len(eventQueue) - 1
      /\ \A i \in 1 .. Len(eventQueue) - 1 :
             Tail(eventQueue)[i] = eventQueue[i + 1]
  BY <1>1, <1>2
<1>4. Head(eventQueue) = eventQueue[1]
  BY <1>1
<1> QED BY <1>1, <1>2, <1>3, <1>4

LEMMA DispatchMap ==
    ASSUME Dispatch
    PROVE  LET e == Head(eventQueue)
           IN  \/ /\ e.signal = "connectedUser"
                  /\ \/ m_userSocket' = [m_userSocket EXCEPT ![e.name] = e.sess]
                     \/ UNCHANGED m_userSocket
               \/ /\ e.signal = "removeUser"
                  /\ m_userSocket' = [m_userSocket EXCEPT ![e.name] = NoSocket]
               \/ /\ e.signal # "removeUser"
                  /\ UNCHANGED m_userSocket
BY DEF Dispatch, addNewUserToMap, removeUserFromMap, userAuthenticationFailed,
       disconnectedUser, sendMessage, deleteMessage, modifyMessage,
       changeUserRole, getUserPasswordHalf, failToWrite, Tell

LEMMA DispatchDeparts ==
    ASSUME TypeOK, DepartureInv, Dispatch
    PROVE  DepartureInv'
<1>1. UNCHANGED pc
  BY DEF Dispatch
<1>2. PICK e \in Events : e = Head(eventQueue) /\ e = eventQueue[1]
  BY Shifted, HeadTailProperties DEF Dispatch, TypeOK, QtTypeOK
<1>3. \/ /\ e.signal = "connectedUser"
         /\ \/ m_userSocket' = [m_userSocket EXCEPT ![e.name] = e.sess]
            \/ UNCHANGED m_userSocket
      \/ /\ e.signal = "removeUser"
         /\ m_userSocket' = [m_userSocket EXCEPT ![e.name] = NoSocket]
      \/ /\ e.signal # "removeUser"
         /\ UNCHANGED m_userSocket
  BY <1>2, DispatchMap
\* A removal that is not at the head stays queued.
<1>4. ASSUME NEW u \in Users, NEW j \in DOMAIN eventQueue,
             eventQueue[j] = Removal(u), e # Removal(u) \/ 1 < j
      PROVE  j - 1 \in DOMAIN eventQueue' /\ eventQueue'[j - 1] = Removal(u)
  <2>1. j > 1
    <3>1. j # 1
      BY <1>2, <1>4
    <3>2. DOMAIN eventQueue = 1 .. Len(eventQueue) /\ Len(eventQueue) \in Nat
      BY LenProperties DEF TypeOK, QtTypeOK
    <3> QED BY <3>1, <3>2
  <2> QED BY <1>4, <2>1, Shifted
<1>5. ASSUME NEW u \in Users, m_userSocket'[u] # NoSocket,
             pc'[m_userSocket'[u]] = "done"
      PROVE  \E j \in DOMAIN eventQueue' : eventQueue'[j] = Removal(u)
  <2>1. CASE m_userSocket'[u] = m_userSocket[u] /\ e # Removal(u)
    <3>1. PICK j \in DOMAIN eventQueue : eventQueue[j] = Removal(u)
      BY <1>1, <1>5, <2>1 DEF DepartureInv, FinishedSessionsLeave, Removal
    <3> QED BY <1>4, <2>1, <3>1
  <2>2. CASE /\ e.signal = "connectedUser"
             /\ u = e.name
             /\ m_userSocket'[u] = e.sess
    <3>1. pc[eventQueue[1].sess] = "done"
      BY <1>1, <1>2, <1>5, <2>2
    <3>2. PICK j \in DOMAIN eventQueue :
              1 < j /\ eventQueue[j] = Removal(eventQueue[1].name)
      BY <1>2, <2>2, <3>1, Shifted DEF DepartureInv
    <3>3. eventQueue[j] = Removal(u)
      BY <1>2, <2>2, <3>2
    <3> QED BY <1>4, <3>2, <3>3
  <2>3. m_userSocket \in [Users -> Sessions \cup {NoSocket}]
    BY DEF TypeOK
  <2>4. CASE e.signal = "connectedUser"
    <3>1. e # Removal(u)
      BY <2>4 DEF Removal
    <3>2. \/ m_userSocket'[u] = m_userSocket[u]
          \/ u = e.name /\ m_userSocket'[u] = e.sess
      BY <1>3, <2>3, <2>4
    <3> QED BY <2>1, <2>2, <2>4, <3>1, <3>2
  <2>5. CASE e.signal = "removeUser"
    <3>1. u # e.name /\ m_userSocket'[u] = m_userSocket[u]
      BY <1>3, <1>5, <2>3, <2>5
    <3> QED BY <2>1, <3>1 DEF Removal
  <2>6. CASE e.signal # "removeUser" /\ UNCHANGED m_userSocket
    BY <2>1, <2>6 DEF Removal
  <2> QED BY <1>3, <2>4, <2>5, <2>6
<1>6. ASSUME NEW i \in DOMAIN eventQueue',
             eventQueue'[i].signal = "connectedUser",
             pc'[eventQueue'[i].sess] = "done"
      PROVE  \E j \in DOMAIN eventQueue' :
                 i < j /\ eventQueue'[j] = Removal(eventQueue'[i].name)
  <2>1. /\ i \in Nat
        /\ i + 1 \in DOMAIN eventQueue
        /\ eventQueue'[i] = eventQueue[i + 1]
    BY Shifted
  <2>2. i > 0
    <3>1. DOMAIN eventQueue = 1 .. Len(eventQueue)
          /\ Len(eventQueue) \in Nat \ {0}
          /\ DOMAIN eventQueue' = 1 .. Len(eventQueue) - 1
      BY EmptySeq, LenProperties DEF TypeOK, QtTypeOK, Dispatch
    <3> QED BY <3>1
  <2>3. PICK k \in Nat : k = i + 1
    BY <2>1
  <2>4. eventQueue[k].signal = "connectedUser" /\ pc[eventQueue[k].sess] = "done"
    BY <1>1, <1>6, <2>1, <2>3
  <2>5. PICK u \in Users : u = eventQueue[k].name
    BY <2>1, <2>3, <2>4, QueuedUser
  <2>6. PICK j \in DOMAIN eventQueue : k < j /\ eventQueue[j] = Removal(u)
    BY <2>1, <2>3, <2>4, <2>5 DEF DepartureInv
  <2>7. j \in Nat /\ 1 < j /\ i < j - 1
    BY <2>1, <2>2, <2>3, <2>6, Shifted
  <2>8. j - 1 \in DOMAIN eventQueue' /\ eventQueue'[j - 1] = Removal(u)
    BY <1>4, <2>6, <2>7
  <2> QED BY <2>1, <2>3, <2>5, <2>7, <2>8
<1> QED BY <1>5, <1>6 DEF DepartureInv, FinishedSessionsLeave, Removal

LEMMA NextDeparts ==
    ASSUME TypeOK, IdentityInv, DepartureInv, [Next]_vars
    PROVE  DepartureInv'
<1>1. CASE Dispatch
  BY <1>1, DispatchDeparts
<1>2. CASE \E s \in Sessions : Worker(s)
  BY <1>2, WorkerDeparts
<1>3. CASE \/ UNCHANGED vars
           \/ WriteBlocks
           \/ \E s \in Sessions : NewUser(s) \/ TakeBlocks(s) \/ ClientStep(s)
  <2>1. UNCHANGED <<eventQueue, m_userSocket>>
    BY <1>3 DEF vars, mainVars, WriteBlocks, NewUser, TakeBlocks, ClientStep,
                Connect, SendRequest, AckMessages, CloseClient
  <2>2. \/ UNCHANGED pc
        \/ \E s \in Sessions : Goto(s, "idle", "backlog")
        \/ \E s \in Sessions : Goto(s, "backlog", "run")
    BY <1>3 DEF vars, threadVars, WriteBlocks, NewUser, TakeBlocks,
                ClientStep, Connect, SendRequest, AckMessages, CloseClient
  <2>3. \A s \in Sessions : pc'[s] = "done" => pc[s] = "done"
    BY <2>2 DEF Goto, TypeOK, ThreadTypeOK
  <2> QED BY <2>1, <2>3, OthersDepart
<1> QED BY <1>1, <1>2, <1>3 DEF Next, Main, MainStep

LEMMA RestartDeparts ==
    ASSUME Restart
    PROVE  DepartureInv'
BY DEF Restart, ProgramEnds, DepartureInv, FinishedSessionsLeave

LEMMA InitDeparts ==
    ASSUME Init
    PROVE  DepartureInv
BY DEF Init, QtInit, EchoInit, DepartureInv, FinishedSessionsLeave

\* A user whose thread has ended leaves the map, and can log in again, however
\* its connectedUser() and removeUser() and those of other logins of the same
\* name are queued, and however often the program is started again
\* (serverthread.cpp:58, 140, echoserver.cpp:140-178).
THEOREM Departure == RestartSpec => []FinishedSessionsLeave
<1> DEFINE IInv == TypeOK /\ IdentityInv /\ DepartureInv
<1>1. RestartInit => IInv
  BY InitType, InitIdentity, InitDeparts DEF RestartInit
<1>2. IInv /\ [RestartNext]_restartVars => IInv'
  BY NextType, RestartType, NextIdentity, RestartIdentity, NextDeparts,
     RestartDeparts, RestartSteps
<1>3. IInv => FinishedSessionsLeave
  BY DEF DepartureInv
<1> QED BY <1>1, <1>2, <1>3, PTL DEF RestartSpec

-----------------------------------------------------------------------------
\* A session stays in the map.

\* No two clients hold the key of one user.
KeysDiffer ==
    \A s, t \in Sessions : s # t => KeysOf[s] \cap KeysOf[t] = {}

\* LiveSessionsRegistered alone is not inductive: a queued removeUser() must be
\* that of a session whose connection the main thread has ended.
RegistrationInv ==
    /\ LiveSessionsRegistered
    /\ \A e \in ToSet(eventQueue) :
           e.signal = "removeUser" =>
               \E t \in Sessions :
                   m_username[t] = e.name /\ m_clientDisconnected[t]

LEMMA NamesDiffer ==
    ASSUME KeysDiffer, IdentityInv, NEW s \in Sessions, NEW t \in Sessions,
           m_username[s] \in Users, m_username[s] = m_username[t]
    PROVE  s = t
<1>1. m_username[s] \in KeysOf[s] /\ m_username[t] \in KeysOf[t]
  BY DEF IdentityInv, Users, NoName
<1> QED BY <1>1 DEF KeysDiffer

\* Only a thread whose connection has been ended removes a name, its own.
LEMMA WorkerRemovals ==
    ASSUME TypeOK, NEW s \in Sessions, ThreadStep(s),
           NEW e \in ToSet(eventQueue'), e.signal = "removeUser"
    PROVE  \/ e \in ToSet(eventQueue)
           \/ LeaveMainCycle(s) /\ e.name = m_username[s]
<1>1. QtTypeOK /\ eventQueue \in Seq(Events)
  BY DEF TypeOK, QtTypeOK
<1>2. ASSUME NEW block \in Blocks, WriteBlock(s, block)
      PROVE  e \in ToSet(eventQueue)
  BY <1>1, <1>2, WriteBlockAdds
<1>3. ASSUME NEW event \in Events, Post(event), event.signal # "removeUser"
      PROVE  e \in ToSet(eventQueue)
  BY <1>1, <1>3, AppendElements DEF Post
<1>4. CASE UNCHANGED eventQueue
  BY <1>4
<1>5. CASE DenyLogin(s)
  BY <1>3, <1>5, EventsPosted DEF DenyLogin, Events
<1>6. CASE AcceptLogin(s) \/ InitModerator(s)
  BY <1>2, <1>6, AnswersSent DEF AcceptLogin, InitModerator
<1>7. CASE AnnounceUser(s)
  <2>1. m_username[s] \in Users
    BY <1>7 DEF AnnounceUser, Goto, LoggedIn, TypeOK, ThreadTypeOK
  <2> QED BY <1>3, <1>7, <2>1, EventsPosted DEF AnnounceUser
<1>8. CASE SendMessages(s)
  <2>1. rows[s] \in Seq(MessageRows)
    BY <1>8, EmptySeq DEF SendMessages, Goto, TypeOK, ThreadTypeOK
  <2> QED BY <1>2, <1>8, <2>1, AnswersSent DEF SendMessages
<1>9. CASE FindClosed(s)
  BY <1>1, <1>9, LoseConnectionAdds DEF FindClosed
<1>10. CASE SendUsers(s)
  <2>1. rows[s] \in Seq(UserRows)
    BY <1>10, EmptySeq DEF SendUsers, Goto, TypeOK, ThreadTypeOK
  <2> QED BY <1>2, <1>10, <2>1, AnswersSent DEF SendUsers
<1>11. CASE LeaveMainCycle(s)
  <2> DEFINE event == [signal |-> "removeUser", name |-> m_username[s]]
  <2>1. m_username[s] \in Users
    BY <1>11 DEF LeaveMainCycle, Goto, LoggedIn, TypeOK, ThreadTypeOK
  <2>2. event \in Events /\ event.name = m_username[s]
    BY <2>1, EventsPosted
  <2>3. eventQueue' = Append(eventQueue, event)
    BY <1>11 DEF LeaveMainCycle, Post
  <2> HIDE DEF event
  <2>4. e \in ToSet(eventQueue) \/ e = event
    BY <1>1, <2>2, <2>3, AppendElements
  <2> QED BY <1>11, <2>2, <2>4
<1>12. CASE EmitRequest(s)
  <2> DEFINE emitted == Emitted(m_username[s], Head(buffer[s]), seen[s])
  <2>1. m_username[s] \in Users
    BY <1>12 DEF EmitRequest, Goto, LoggedIn, TypeOK, ThreadTypeOK
  <2>2. Head(buffer[s]) \in Requests
    BY <1>12, HeadTailProperties DEF EmitRequest, TypeOK, ThreadTypeOK
  <2>3. emitted \in Seq(Events)
    BY <2>1, <2>2, EmittedType DEF TypeOK, ThreadTypeOK
  <2>4. e \notin ToSet(emitted)
    BY EmittedSignals
  <2>5. eventQueue' = eventQueue \o emitted
    BY <1>12 DEF EmitRequest
  <2> HIDE DEF emitted
  <2>6. ToSet(eventQueue') \subseteq ToSet(eventQueue) \cup ToSet(emitted)
    BY <1>1, <2>3, <2>5, ConcatElements
  <2> QED BY <2>4, <2>6
<1> QED
  BY <1>4, <1>5, <1>6, <1>7, <1>8, <1>9, <1>10, <1>11, <1>12
     DEF ThreadStep, SetSocketDescriptor, RejectCertificate, OpenMessages,
         FetchMessage, TakeAck, MissAck, ReadRole, FetchUser,
         ReceiveRequests, CheckRole, EndRequests

\* A thread gets past connectedUser() by emitting it.
LEMMA WorkerAnnounces ==
    ASSUME TypeOK, IdentityInv, NEW s \in Sessions, ThreadStep(s),
           NEW t \in Sessions, Announced(t)'
    PROVE  Announced(t) \/ (t = s /\ AnnounceUser(s))
<1> USE DEF Announced, Goto
<1>1. CASE SetSocketDescriptor(s) \/ RejectCertificate(s) \/ DenyLogin(s)
           \/ AcceptLogin(s)
  BY <1>1 DEF SetSocketDescriptor, RejectCertificate, DenyLogin, AcceptLogin,
              IdentityInv, BeforeLogin, TypeOK, ThreadTypeOK
<1>2. CASE AnnounceUser(s)
  BY <1>2 DEF AnnounceUser, TypeOK, ThreadTypeOK
<1>3. CASE OpenMessages(s) \/ FetchMessage(s) \/ SendMessages(s)
  BY <1>3 DEF OpenMessages, FetchMessage, SendMessages, TypeOK, ThreadTypeOK
<1>4. CASE TakeAck(s) \/ MissAck(s) \/ FindClosed(s)
  BY <1>4 DEF TakeAck, MissAck, FindClosed, TypeOK, ThreadTypeOK
<1>5. CASE ReadRole(s) \/ CheckRole(s)
  BY <1>5 DEF ReadRole, CheckRole, TypeOK, ThreadTypeOK
<1>6. CASE FetchUser(s) \/ SendUsers(s) \/ InitModerator(s)
  BY <1>6 DEF FetchUser, SendUsers, InitModerator, TypeOK, ThreadTypeOK
<1>7. CASE ReceiveRequests(s) \/ LeaveMainCycle(s) \/ EmitRequest(s)
           \/ EndRequests(s)
  BY <1>7 DEF ReceiveRequests, LeaveMainCycle, EmitRequest, EndRequests,
              TypeOK, ThreadTypeOK
<1> QED BY <1>1, <1>2, <1>3, <1>4, <1>5, <1>6, <1>7 DEF ThreadStep

LEMMA WorkerKeepsFlags ==
    ASSUME NEW s \in Sessions, ThreadStep(s)
    PROVE  UNCHANGED m_clientDisconnected
BY DEF ThreadStep, SetSocketDescriptor, RejectCertificate, DenyLogin,
       AcceptLogin, AnnounceUser, OpenMessages, FetchMessage, SendMessages,
       TakeAck, MissAck, FindClosed, ReadRole, FetchUser, SendUsers,
       InitModerator, ReceiveRequests, LeaveMainCycle, CheckRole,
       EmitRequest, EndRequests

LEMMA WorkerRegisters ==
    ASSUME TypeOK, IdentityInv, RegistrationInv, NEW s \in Sessions, Worker(s)
    PROVE  RegistrationInv'
<1>1. ThreadStep(s) /\ UNCHANGED <<m_userSocket, m_clientDisconnected>>
  BY WorkerKeepsFlags DEF Worker, mainVars
<1>2. ToSet(eventQueue) \subseteq ToSet(eventQueue')
  BY <1>1, WorkerExtends DEF Extended, ToSet
<1>3. \A t \in Sessions :
          m_username[t] # NoName => m_username'[t] = m_username[t]
  BY <1>1, WorkerNames DEF IdentityInv, BeforeLogin, TypeOK, ThreadTypeOK
<1>4. ASSUME NEW t \in Sessions, Settled(t)', ~m_clientDisconnected'[t]
      PROVE  m_userSocket'[m_username'[t]] = t
  <2>1. Announced(t)' /\ \A e \in ToSet(eventQueue') :
                              e.signal = "connectedUser" => e.sess # t
    BY <1>4 DEF Settled
  <2>2. ~(t = s /\ AnnounceUser(s))
    <3> SUFFICES ASSUME t = s, AnnounceUser(s) PROVE FALSE
      OBVIOUS
    <3> DEFINE event == [signal |-> "connectedUser", sess |-> s,
                         name |-> m_username[s]]
    <3>1. m_username[s] \in Users
      BY DEF AnnounceUser, Goto, LoggedIn, TypeOK, ThreadTypeOK
    <3>2. /\ event \in Events
          /\ event.signal = "connectedUser" /\ event.sess = s
      BY <3>1, EventsPosted
    <3>3. eventQueue' = Append(eventQueue, event)
      BY DEF AnnounceUser, Post
    <3> HIDE DEF event
    <3>4. event \in ToSet(eventQueue')
      BY <3>2, <3>3, AppendElements DEF TypeOK, QtTypeOK
    <3> QED BY <2>1, <3>2, <3>4
  <2>3. Announced(t)
    BY <1>1, <2>1, <2>2, WorkerAnnounces
  <2>4. Settled(t) /\ m_username'[t] = m_username[t]
    BY <1>2, <1>3, <2>1, <2>3 DEF Settled, Announced
  <2> QED BY <1>1, <1>4, <2>4 DEF RegistrationInv, LiveSessionsRegistered
<1>5. ASSUME NEW e \in ToSet(eventQueue'), e.signal = "removeUser"
      PROVE  \E t \in Sessions :
                 m_username'[t] = e.name /\ m_clientDisconnected'[t]
  <2>1. CASE e \in ToSet(eventQueue)
    <3>1. PICK t \in Sessions :
              m_username[t] = e.name /\ m_clientDisconnected[t]
      BY <1>5, <2>1 DEF RegistrationInv
    <3>2. e \in Events
      BY <2>1, InSequence DEF TypeOK, QtTypeOK
    <3>3. e.name \in Users
      BY <1>5, <3>2, EventFields
    <3>4. m_username'[t] = e.name
      BY <1>3, <3>1, <3>3 DEF Users, NoName
    <3> QED BY <1>1, <3>1, <3>4
  <2>2. CASE LeaveMainCycle(s) /\ e.name = m_username[s]
    BY <2>2 DEF LeaveMainCycle
  <2> QED BY <1>1, <1>5, <2>1, <2>2, WorkerRemovals
<1> QED BY <1>4, <1>5 DEF RegistrationInv, LiveSessionsRegistered

\* The flag that ends a main cycle is set and never reset.
LEMMA DispatchFlags ==
    ASSUME TypeOK, Dispatch
    PROVE  \A s \in Sessions :
               m_clientDisconnected[s] => m_clientDisconnected'[s]
BY DEF Dispatch, addNewUserToMap, removeUserFromMap, userAuthenticationFailed,
       disconnectedUser, sendMessage, deleteMessage, modifyMessage,
       changeUserRole, getUserPasswordHalf, failToWrite, Tell,
       DisconnectUsers, TypeOK, ThreadTypeOK

\* The session at the head of the queue gets the entry or is disconnected.
LEMMA DispatchNewUser ==
    ASSUME TypeOK, Dispatch, Head(eventQueue).signal = "connectedUser"
    PROVE  LET e == Head(eventQueue)
           IN  \/ /\ m_userSocket[e.name] = NoSocket
                  /\ m_userSocket' = [m_userSocket EXCEPT ![e.name] = e.sess]
               \/ /\ m_clientDisconnected'[e.sess]
                  /\ UNCHANGED m_userSocket
<1> DEFINE e == Head(eventQueue)
<1>1. e \in Events
  BY HeadTailProperties DEF Dispatch, TypeOK, QtTypeOK
<1>2. e.sess \in Sessions
  BY <1>1, EventFields
<1>3. addNewUserToMap(e)
  BY DEF Dispatch, removeUserFromMap, userAuthenticationFailed,
         disconnectedUser, sendMessage, deleteMessage, modifyMessage,
         changeUserRole, getUserPasswordHalf, failToWrite
<1> QED BY <1>2, <1>3 DEF addNewUserToMap, DisconnectUsers

LEMMA DispatchRegisters ==
    ASSUME KeysDiffer, TypeOK, IdentityInv, RegistrationInv, Dispatch
    PROVE  RegistrationInv'
<1> DEFINE e == Head(eventQueue)
<1>1. UNCHANGED <<pc, m_username>>
  BY DEF Dispatch
<1>2. /\ e \in Events
      /\ e \in ToSet(eventQueue)
      /\ ToSet(eventQueue') \subseteq ToSet(eventQueue)
      /\ \A f \in ToSet(eventQueue) : f = e \/ f \in ToSet(eventQueue')
  <2>1. eventQueue \in Seq(Events) /\ eventQueue # <<>>
        /\ eventQueue' = Tail(eventQueue)
    BY DEF Dispatch, TypeOK, QtTypeOK
  <2>2. ASSUME NEW i \in DOMAIN eventQueue
        PROVE  eventQueue[i] = e \/ eventQueue[i] \in ToSet(eventQueue')
    <3>1. i \in Nat /\ (i = 1 \/ i > 1)
      BY <2>1, LenProperties
    <3>2. CASE i > 1
      BY <3>2, Shifted DEF ToSet
    <3> QED BY <3>1, <3>2, Shifted
  <2> QED BY <2>1, <2>2, HeadTailProperties, TailElements DEF ToSet
<1>3. m_userSocket \in [Users -> Sessions \cup {NoSocket}]
  BY DEF TypeOK
<1> HIDE DEF e
<1>4. ASSUME NEW t \in Sessions, Settled(t)', ~m_clientDisconnected'[t]
      PROVE  m_userSocket'[m_username'[t]] = t
  <2>1. /\ Announced(t) /\ m_username'[t] = m_username[t]
        /\ m_username[t] \in Users
        /\ ~m_clientDisconnected[t]
    BY <1>1, <1>4, DispatchFlags
       DEF Settled, Announced, TypeOK, ThreadTypeOK
  <2>2. CASE e.signal = "connectedUser"
    <3>1. e.sess \in Sessions /\ e.name \in Users
          /\ m_username[e.sess] = e.name
      BY <1>2, <2>2, EventFields DEF IdentityInv
    <3>2. \/ /\ m_userSocket[e.name] = NoSocket
             /\ m_userSocket' = [m_userSocket EXCEPT ![e.name] = e.sess]
          \/ /\ m_clientDisconnected'[e.sess]
             /\ UNCHANGED m_userSocket
      BY <2>2, DispatchNewUser DEF e
    <3>3. CASE e.sess = t
      BY <1>3, <1>4, <2>1, <3>1, <3>2, <3>3
    <3>4. CASE e.sess # t
      <4>1. m_username[t] # e.name
        BY <2>1, <3>1, <3>4, NamesDiffer
      <4>2. Settled(t)
        BY <1>2, <1>4, <2>1, <3>4 DEF Settled
      <4>3. m_userSocket[m_username[t]] = t
        BY <2>1, <4>2 DEF RegistrationInv, LiveSessionsRegistered
      <4> QED BY <1>3, <2>1, <3>1, <3>2, <4>1, <4>3
    <3> QED BY <3>3, <3>4
  <2>3. CASE e.signal # "connectedUser"
    <3>1. Settled(t)
      BY <1>2, <1>4, <2>1, <2>3 DEF Settled
    <3>2. m_userSocket[m_username[t]] = t
      BY <2>1, <3>1 DEF RegistrationInv, LiveSessionsRegistered
    <3>3. CASE e.signal = "removeUser"
      <4>1. e.name \in Users
        BY <1>2, <3>3, EventFields
      <4>2. PICK r \in Sessions :
                m_username[r] = e.name /\ m_clientDisconnected[r]
        BY <1>2, <3>3 DEF RegistrationInv
      <4>3. m_username[t] # e.name
        BY <2>1, <4>2, NamesDiffer
      <4>4. m_userSocket' = [m_userSocket EXCEPT ![e.name] = NoSocket]
        BY <3>3, DispatchMap DEF e
      <4> QED BY <1>3, <2>1, <3>2, <4>1, <4>3, <4>4
    <3>4. CASE e.signal # "removeUser"
      <4>1. UNCHANGED m_userSocket
        BY <2>3, <3>4, DispatchMap DEF e
      <4> QED BY <2>1, <3>2, <4>1
    <3> QED BY <3>3, <3>4
  <2> QED BY <2>2, <2>3
<1>5. ASSUME NEW f \in ToSet(eventQueue'), f.signal = "removeUser"
      PROVE  \E t \in Sessions :
                 m_username'[t] = f.name /\ m_clientDisconnected'[t]
  BY <1>1, <1>2, <1>5, DispatchFlags DEF RegistrationInv
<1> QED BY <1>4, <1>5 DEF RegistrationInv, LiveSessionsRegistered

\* WriteBlocks, and the steps that touch neither queue nor map.
LEMMA OthersRegister ==
    ASSUME TypeOK, RegistrationInv,
           UNCHANGED <<eventQueue, m_userSocket, m_username>>,
           \A s \in Sessions :
               /\ m_clientDisconnected[s] => m_clientDisconnected'[s]
               /\ Announced(s)' => Announced(s)
    PROVE  RegistrationInv'
BY DEF RegistrationInv, LiveSessionsRegistered, Settled

LEMMA NextRegisters ==
    ASSUME KeysDiffer, TypeOK, IdentityInv, RegistrationInv, [Next]_vars
    PROVE  RegistrationInv'
<1>1. CASE Dispatch
  BY <1>1, DispatchRegisters
<1>2. CASE \E s \in Sessions : Worker(s)
  BY <1>2, WorkerRegisters
<1>3. CASE WriteBlocks
  <2>1. UNCHANGED <<eventQueue, m_userSocket, m_username, pc>>
    BY <1>3 DEF WriteBlocks
  <2>2. \A s \in Sessions :
            m_clientDisconnected[s] => m_clientDisconnected'[s]
    BY <1>3 DEF WriteBlocks
  <2> QED BY <2>1, <2>2, OthersRegister DEF Announced
<1>4. CASE \/ UNCHANGED vars
           \/ \E s \in Sessions : NewUser(s) \/ TakeBlocks(s) \/ ClientStep(s)
  <2>1. UNCHANGED <<eventQueue, m_userSocket, m_username,
                    m_clientDisconnected>>
    BY <1>4 DEF vars, mainVars, threadVars, NewUser, TakeBlocks, ClientStep,
                Connect, SendRequest, AckMessages, CloseClient
  <2>2. \/ UNCHANGED pc
        \/ \E s \in Sessions : Goto(s, "idle", "backlog")
        \/ \E s \in Sessions : Goto(s, "backlog", "run")
    BY <1>4 DEF vars, threadVars, NewUser, TakeBlocks, ClientStep, Connect,
                SendRequest, AckMessages, CloseClient
  <2>3. \A s \in Sessions : Announced(s)' => Announced(s)
    BY <2>1, <2>2 DEF Announced, Goto, TypeOK, ThreadTypeOK
  <2> QED BY <2>1, <2>3, OthersRegister
<1> QED BY <1>1, <1>2, <1>3, <1>4 DEF Next, Main, MainStep

\* A logged-in client stays in the map until the main thread disconnects it,
\* whatever the others do, as long as no two clients have a key in common:
\* removeUserFromMap() removes by name (echoserver.cpp:171).
THEOREM Registration == KeysDiffer /\ Spec => []LiveSessionsRegistered
<1> SUFFICES ASSUME KeysDiffer
             PROVE  Spec => []LiveSessionsRegistered
  OBVIOUS
<1> DEFINE IInv == TypeOK /\ IdentityInv /\ RegistrationInv
<1>1. Init => IInv
  <2> SUFFICES ASSUME Init PROVE IInv
    OBVIOUS
  <2>1. RegistrationInv
    BY DEF Init, QtInit, ThreadInit, RegistrationInv, LiveSessionsRegistered,
           Settled, Announced, ToSet
  <2> QED BY <2>1, InitType, InitIdentity
<1>2. IInv /\ [Next]_vars => IInv'
  BY NextType, NextIdentity, NextRegisters
<1>3. IInv => LiveSessionsRegistered
  BY DEF RegistrationInv
<1> QED BY <1>1, <1>2, <1>3, PTL DEF Spec
=============================================================================
