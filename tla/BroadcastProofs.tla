--------------------------- MODULE BroadcastProofs ---------------------------
(***************************************************************************)
(* Theorems about what the server tells its clients, for any number of     *)
(* users, sessions, texts and message ids, and whatever the clients do:    *)
(* message lists are complete, what a client has been shown is stored, the *)
(* broadcasts replay the database (all three with restarts), and the       *)
(* server implements GroupBroadcast.                                       *)
(***************************************************************************)
EXTENDS ServerRestartsProofs

-----------------------------------------------------------------------------
\* What a step writes to the sockets.

\* What a worker writes is an answer to its own client, and a list only when
\* the cursor has come to its end.
LEMMA WorkerWrites ==
    ASSUME TypeOK, NEW s \in Sessions, ThreadStep(s), NEW t \in Sessions
    PROVE  \/ tx'[t] = tx[t]
           \/ \E b \in Answers :
                  /\ t = s
                  /\ tx'[t] = Append(tx[t], b)
                  /\ b.ind = "SEND_INIT_MESSAGES" =>
                         SendMessages(s) /\ b.rows = rows[s]
<1> DEFINE Goal == \/ tx'[t] = tx[t]
                   \/ \E b \in Answers :
                          /\ t = s
                          /\ tx'[t] = Append(tx[t], b)
                          /\ b.ind = "SEND_INIT_MESSAGES" =>
                                 SendMessages(s) /\ b.rows = rows[s]
<1>1. ASSUME NEW b, WriteBlock(s, b)
      PROVE  tx'[t] = tx[t] \/ (t = s /\ tx'[t] = Append(tx[t], b))
  BY <1>1 DEF WriteBlock, TypeOK, QtTypeOK
<1>2. CASE UNCHANGED tx
  BY <1>2
<1>3. CASE DenyLogin(s)
  <2> DEFINE b == [ind |-> "LOGIN_DENIED"]
  <2>1. b \in Answers /\ b.ind # "SEND_INIT_MESSAGES"
    BY DEF Answers
  <2>2. tx'[t] = tx[t] \/ (t = s /\ tx'[t] = Append(tx[t], b))
    BY <1>3 DEF DenyLogin, TypeOK, QtTypeOK
  <2> HIDE DEF b
  <2> QED BY <2>1, <2>2
<1>4. CASE AcceptLogin(s)
  <2> DEFINE b == [ind |-> "LOGIN_OK"]
  <2>1. b \in Answers /\ b.ind # "SEND_INIT_MESSAGES" /\ WriteBlock(s, b)
    BY <1>4 DEF Answers, AcceptLogin
  <2> HIDE DEF b
  <2> QED BY <1>1, <2>1
<1>5. CASE SendMessages(s)
  <2> DEFINE b == [ind |-> "SEND_INIT_MESSAGES", rows |-> rows[s]]
  <2>1. rows[s] \in Seq(MessageRows)
    BY <1>5, EmptySeq DEF SendMessages, Goto, TypeOK, ThreadTypeOK
  <2>2. b \in Answers /\ b.rows = rows[s] /\ WriteBlock(s, b)
    BY <1>5, <2>1 DEF Answers, SendMessages
  <2> HIDE DEF b
  <2> QED BY <1>1, <1>5, <2>2
<1>6. CASE SendUsers(s)
  <2> DEFINE b == [ind |-> "USER_MODERATOR_LIST", rows |-> rows[s]]
  <2>1. rows[s] \in Seq(UserRows)
    BY <1>6, EmptySeq DEF SendUsers, Goto, TypeOK, ThreadTypeOK
  <2>2. b \in Answers /\ b.ind # "SEND_INIT_MESSAGES" /\ WriteBlock(s, b)
    BY <1>6, <2>1 DEF Answers, SendUsers
  <2> HIDE DEF b
  <2> QED BY <1>1, <2>2
<1>7. CASE InitModerator(s)
  <2> DEFINE b == [ind |-> "INIT_MODERATOR"]
  <2>1. b \in Answers /\ b.ind # "SEND_INIT_MESSAGES" /\ WriteBlock(s, b)
    BY <1>7 DEF Answers, InitModerator
  <2> HIDE DEF b
  <2> QED BY <1>1, <2>1
<1> QED
  BY <1>2, <1>3, <1>4, <1>5, <1>6, <1>7
     DEF ThreadStep, SetSocketDescriptor, RejectCertificate, AnnounceUser,
         OpenMessages, FetchMessage, TakeAck, MissAck, FindClosed, ReadRole,
         FetchUser, ReceiveRequests, LeaveMainCycle, CheckRole, EmitRequest,
         EndRequests, socketVars

\* Every other block is the one the running slot has to write.
LEMMA StepWrites ==
    ASSUME TypeOK, [RestartNext]_restartVars, NEW t \in Sessions
    PROVE  \/ tx'[t] = tx[t]
           \/ \E b \in Answers :
                  /\ ThreadStep(t)
                  /\ tx'[t] = Append(tx[t], b)
                  /\ b.ind = "SEND_INIT_MESSAGES" =>
                         SendMessages(t) /\ b.rows = rows[t]
           \/ /\ WriteBlocks
              /\ tx'[t] = Append(tx[t], Head(outgoing).block)
<1>1. CASE \E s \in Sessions : Worker(s)
  BY <1>1, WorkerWrites DEF Worker
<1>2. CASE WriteBlocks
  BY <1>2, ZenonT(30) DEF WriteBlocks
<1>3. CASE Dispatch \/ \E s \in Sessions : NewUser(s) \/ TakeBlocks(s)
  BY <1>3 DEF Dispatch, NewUser, TakeBlocks, socketVars
<1>4. CASE \E s \in Sessions : ClientStep(s)
  BY <1>4 DEF ClientStep, Connect, SendRequest, AckMessages, CloseClient,
              socketVars
<1>5. CASE Restart \/ UNCHANGED restartVars
  BY <1>5 DEF Restart, ProgramEnds, restartVars, vars, socketVars
<1> QED BY <1>1, <1>2, <1>3, <1>4, <1>5 DEF RestartNext, Next, Main, MainStep

-----------------------------------------------------------------------------
\* The block a slot has to write is that of the last entry of the log.

PendingInv ==
    /\ Len(outgoing) <= 1
    /\ outgoing # <<>> =>
           /\ log # <<>>
           /\ Head(outgoing).block = log[Len(log)].block
           /\ IF IsBroadcast(Head(outgoing).block)
                 THEN Head(outgoing).to = Users
                 ELSE \E u \in Users : Head(outgoing).to = {u}
    /\ \A i \in DOMAIN log : log[i].block \in Broadcasts \cup RoleChanges

LEMMA StepEntries ==
    ASSUME TypeOK, [RestartNext]_restartVars
    PROVE  \/ UNCHANGED <<log, dbVars>>
           \/ /\ Dispatch
              /\ Head(eventQueue) \in Events
              /\ \E block \in Blocks : LogEntry(Head(eventQueue), block)
<1>1. CASE Restart
  BY <1>1 DEF Restart, ProgramEnds
<1>2. CASE [Next]_vars
  <2>1. Dispatch => Head(eventQueue) \in Events
    BY HeadTailProperties DEF Dispatch, TypeOK, QtTypeOK
  <2> QED BY <1>2, <2>1, LogStep
<1> QED BY <1>1, <1>2, RestartSteps

LEMMA DispatchOutgoing ==
    ASSUME TypeOK, Dispatch
    PROVE  \/ UNCHANGED <<outgoing, log>>
           \/ \E block \in Blocks : LogEntry(Head(eventQueue), block)
<1> DEFINE e == Head(eventQueue)
<1>1. e \in Events
  BY HeadTailProperties DEF Dispatch, TypeOK, QtTypeOK
<1>2. UNCHANGED log \/ \E block \in Blocks : LogEntry(e, block)
  BY <1>1, SlotLogs DEF Dispatch
<1>3. ASSUME UNCHANGED log, NEW block, NEW to, Tell(e, block, to)
      PROVE  FALSE
  <2>1. log' = Append(log, [event |-> e, block |-> block])
    BY <1>3 DEF Tell
  <2>2. Len(log') = Len(log) + 1 /\ Len(log) \in Nat
    BY <2>1, LenProperties DEF TypeOK, QtTypeOK
  <2> QED BY <1>3, <2>2
<1>4. CASE UNCHANGED log
  BY <1>3, <1>4
     DEF Dispatch, addNewUserToMap, removeUserFromMap,
         userAuthenticationFailed, disconnectedUser, sendMessage,
         deleteMessage, modifyMessage, changeUserRole, getUserPasswordHalf,
         failToWrite
<1> QED BY <1>2, <1>4

LEMMA StepOutgoing ==
    ASSUME TypeOK, [Next]_vars \/ Restart
    PROVE  \/ UNCHANGED <<outgoing, log>>
           \/ UNCHANGED log /\ outgoing' = <<>>
           \/ \E block \in Blocks : LogEntry(Head(eventQueue), block)
<1>1. CASE Dispatch
  BY <1>1, DispatchOutgoing
<1>2. CASE WriteBlocks
  BY <1>2 DEF WriteBlocks
<1>3. CASE \E s \in Sessions :
              \/ NewUser(s) \/ TakeBlocks(s)
              \/ Worker(s) \/ ClientStep(s)
  BY <1>3 DEF NewUser, TakeBlocks, Worker, ClientStep, Connect, SendRequest,
              AckMessages, CloseClient, mainVars
<1>4. CASE Restart \/ UNCHANGED vars
  BY <1>4 DEF Restart, ProgramEnds, vars, mainVars
<1> QED BY <1>1, <1>2, <1>3, <1>4 DEF Next, Main, MainStep

LEMMA PendingStep ==
    ASSUME TypeOK, PendingInv, [Next]_vars \/ Restart
    PROVE  PendingInv'
<1>1. CASE UNCHANGED <<outgoing, log>>
  BY <1>1 DEF PendingInv
<1>2. CASE UNCHANGED log /\ outgoing' = <<>>
  BY <1>2 DEF PendingInv
<1>3. CASE \E block \in Blocks : LogEntry(Head(eventQueue), block)
  <2>1. PICK block \in Blocks : LogEntry(Head(eventQueue), block)
    BY <1>3
  <2>2. PICK to \in SUBSET Users :
            /\ Tell(Head(eventQueue), block, to)
            /\ IF IsBroadcast(block) THEN to = Users
                                     ELSE \E u \in Users : to = {u}
    BY <2>1 DEF LogEntry
  <2> DEFINE o == [block |-> block, to |-> to]
             entry == [event |-> Head(eventQueue), block |-> block]
  <2>3. outgoing' = <<o>> /\ log' = Append(log, entry)
    BY <2>2 DEF Tell
  <2>4. o.block = block /\ o.to = to /\ entry.block = block
    OBVIOUS
  <2>5. block \in Broadcasts \cup RoleChanges
    BY <2>1 DEF LogEntry
  <2> HIDE DEF o, entry
  <2>6. log \in Seq([event : Events, block : Blocks])
    BY DEF TypeOK, QtTypeOK
  <2>7. /\ Len(log') = Len(log) + 1
        /\ Len(log) \in Nat
        /\ DOMAIN log = 1 .. Len(log)
        /\ DOMAIN log' = 1 .. Len(log) + 1
        /\ \A i \in DOMAIN log : log'[i] = log[i]
        /\ log'[Len(log')] = entry
    BY <2>3, <2>6
  <2>8. log' # <<>>
    BY <2>7
  <2>9. Len(outgoing') = 1 /\ Head(outgoing') = o
    BY <2>3
  <2>10. \A i \in DOMAIN log' : i \in DOMAIN log \/ i = Len(log')
    BY <2>7
  <2> QED BY <2>2, <2>4, <2>5, <2>7, <2>8, <2>9, <2>10 DEF PendingInv
<1> QED BY <1>1, <1>2, <1>3, StepOutgoing

LEMMA InitPending ==
    ASSUME Init
    PROVE  PendingInv
BY DEF Init, QtInit, EchoInit, PendingInv

-----------------------------------------------------------------------------
\* The lists of messages.

LEMMA LoggedStep ==
    ASSUME TypeOK, NEW e \in Events, NEW block \in Blocks,
           LogEntry(e, block), NEW ind
    PROVE  /\ LoggedIds(ind) \subseteq LoggedIds(ind)'
           /\ block.ind = ind => block.id \in LoggedIds(ind)'
<1> DEFINE entry == [event |-> e, block |-> block]
<1>1. entry \in [event : Events, block : Blocks] /\ entry.block = block
  OBVIOUS
<1>2. log' = Append(log, entry)
  BY DEF LogEntry
<1> HIDE DEF entry
<1>3. /\ Len(log) + 1 \in DOMAIN log'
      /\ DOMAIN log \subseteq DOMAIN log'
      /\ \A i \in DOMAIN log : log'[i] = log[i]
      /\ log'[Len(log) + 1] = entry
  BY <1>1, <1>2, AppendedLog
<1> QED BY <1>1, <1>3 DEF LoggedIds

LEMMA LoggedGrows ==
    ASSUME TypeOK, [RestartNext]_restartVars, NEW ind
    PROVE  LoggedIds(ind) \subseteq LoggedIds(ind)'
<1>1. CASE UNCHANGED log
  BY <1>1 DEF LoggedIds
<1> QED BY <1>1, StepEntries, LoggedStep

\* A row leaves the table only by a request that the log has.
LEMMA RowsStay ==
    ASSUME TypeOK, [RestartNext]_restartVars, NEW id \in DOMAIN messages
    PROVE  id \in DOMAIN messages' \/ id \in LoggedIds("DELETE_MESSAGE")'
<1>1. CASE UNCHANGED dbVars
  BY <1>1 DEF dbVars
<1>2. ASSUME NEW e \in Events, NEW block \in Blocks, LogEntry(e, block)
      PROVE  id \in DOMAIN messages' \/ id \in LoggedIds("DELETE_MESSAGE")'
  <2>1. messages' = ApplyBlock(messages, Applied(block))
    BY <1>2 DEF LogEntry
  <2>2. CASE block.ind = "DELETE_MESSAGE" /\ block.id = id
    BY <1>2, <2>2, LoggedStep
  <2>3. CASE ~(block.ind = "DELETE_MESSAGE" /\ block.id = id)
    BY <2>1, <2>3 DEF ApplyBlock, Applied
  <2> QED BY <2>2, <2>3
<1> QED BY <1>1, <1>2, StepEntries

InitialIds == DOMAIN InitMessages \ LoggedIds("DELETE_MESSAGE")

ByIncreasingId(list) ==
    \A i, j \in DOMAIN list : i < j => list[i].id < list[j].id

IdsOf(list) == {row.id : row \in ToSet(list)}

\* While the cursor is open each message of the initial table is deleted, in
\* the rows given so far, or still before the cursor.
CursorInv(s) ==
    pc[s] = "fetchMessages" =>
        /\ ByIncreasingId(rows[s])
        /\ \A id \in InitialIds \ IdsOf(rows[s]) :
               rows[s] # <<>> /\ id > Cursor(s)

\* A list that has been sent.
ListInv(s) ==
    \A block \in ToSet(tx[s]) :
        block.ind = "SEND_INIT_MESSAGES" =>
            ByIncreasingId(block.rows) /\ InitialIds \subseteq IdsOf(block.rows)

ListsInv ==
    /\ InitialIds \subseteq DOMAIN messages
    /\ \A s \in Sessions : CursorInv(s) /\ ListInv(s)

\* The rows of an open cursor.
LEMMA StepRows ==
    ASSUME TypeOK, [RestartNext]_restartVars, NEW t \in Sessions,
           pc'[t] = "fetchMessages"
    PROVE  \/ pc[t] = "fetchMessages" /\ rows'[t] = rows[t]
           \/ OpenMessages(t)
           \/ FetchMessage(t)
<1>0. /\ pc \in [Sessions -> States]
      /\ rows \in [Sessions -> Seq(MessageRows \cup UserRows)]
  BY DEF TypeOK, ThreadTypeOK
<1>1. ASSUME NEW s \in Sessions, ThreadStep(s)
      PROVE  \/ pc[t] = "fetchMessages" /\ rows'[t] = rows[t]
             \/ OpenMessages(t)
             \/ FetchMessage(t)
  <2> USE <1>0
  <2>1. CASE OpenMessages(s)
    BY <2>1 DEF OpenMessages, Goto
  <2>2. CASE FetchMessage(s)
    BY <2>2 DEF FetchMessage
  <2>3. CASE SendMessages(s) \/ SendUsers(s)
    BY <2>3 DEF SendMessages, SendUsers, Goto
  <2>4. CASE FetchUser(s)
    BY <2>4 DEF FetchUser
  <2>5. CASE SetSocketDescriptor(s) \/ RejectCertificate(s) \/ DenyLogin(s)
             \/ AcceptLogin(s) \/ AnnounceUser(s)
    BY <2>5 DEF SetSocketDescriptor, RejectCertificate, DenyLogin,
                AcceptLogin, AnnounceUser, Goto
  <2>6. CASE TakeAck(s) \/ MissAck(s) \/ FindClosed(s) \/ InitModerator(s)
    BY <2>6 DEF TakeAck, MissAck, FindClosed, InitModerator, Goto
  <2>7. CASE ReadRole(s)
    BY <2>7 DEF ReadRole, Goto
  <2>8. CASE CheckRole(s)
    BY <2>8 DEF CheckRole, Goto
  <2>9. CASE ReceiveRequests(s) \/ LeaveMainCycle(s) \/ EmitRequest(s)
             \/ EndRequests(s)
    BY <2>9 DEF ReceiveRequests, LeaveMainCycle, EmitRequest, EndRequests,
                Goto
  <2> QED BY <1>1, <2>1, <2>2, <2>3, <2>4, <2>5, <2>6, <2>7, <2>8, <2>9
          DEF ThreadStep
<1>2. CASE WriteBlocks \/ Dispatch
  BY <1>2 DEF WriteBlocks, Dispatch
<1>3. CASE \E s \in Sessions : NewUser(s) \/ TakeBlocks(s) \/ ClientStep(s)
  BY <1>0, <1>3 DEF NewUser, TakeBlocks, Goto, ClientStep, Connect, SendRequest,
                    AckMessages, CloseClient, threadVars
<1>4. CASE Restart
  BY <1>0, <1>4 DEF Restart, ProgramEnds, Started
<1>5. CASE UNCHANGED restartVars
  BY <1>5 DEF restartVars, vars, threadVars
<1> QED BY <1>1, <1>2, <1>3, <1>4, <1>5
        DEF RestartNext, Next, Main, MainStep, Worker

\* The next row of a cursor is the first that is after it.
LEMMA RowAfterFirst ==
    ASSUME DbTypeOK, NEW cursor \in Nat, IdsAfter(cursor) # {}
    PROVE  /\ RowAfter(cursor).id \in IdsAfter(cursor)
           /\ \A id \in IdsAfter(cursor) : RowAfter(cursor).id <= id
<1>1. IdsAfter(cursor) \subseteq Nat
  BY DEF IdsAfter, DbTypeOK, MessageIds
<1> QED BY <1>1, NatMin DEF RowAfter

LEMMA OpenedCursor ==
    ASSUME TypeOK, ListsInv, NEW s \in Sessions, OpenMessages(s),
           InitialIds' = InitialIds, pc'[s] = "fetchMessages"
    PROVE  CursorInv(s)'
<1>1. /\ rows'[s] = IF IdsAfter(0) = {} THEN <<>> ELSE <<RowAfter(0)>>
      /\ UNCHANGED dbVars
  BY DEF OpenMessages, Goto, TypeOK, ThreadTypeOK
<1>2. \A id \in InitialIds : id \in IdsAfter(0)
  BY DEF ListsInv, IdsAfter, TypeOK, DbTypeOK, MessageIds
<1>3. CASE IdsAfter(0) = {}
  <2>1. rows'[s] = <<>> /\ InitialIds' = {}
    BY <1>1, <1>2, <1>3
  <2> QED BY <2>1 DEF CursorInv, ByIncreasingId
<1>4. CASE IdsAfter(0) # {}
  <2> DEFINE row == RowAfter(0)
  <2>1. rows'[s] = <<row>> /\ \A id \in IdsAfter(0) : row.id <= id
    BY <1>1, <1>4, RowAfterFirst DEF TypeOK
  <2>2. row.id \in IdsAfter(0)
    BY <1>4, RowAfterFirst DEF TypeOK
  <2>3. IdsAfter(0) \subseteq Nat
    BY DEF TypeOK, DbTypeOK, IdsAfter, MessageIds
  <2> HIDE DEF row
  <2>4. /\ ByIncreasingId(<<row>>)
        /\ row.id \in IdsOf(<<row>>)
        /\ Len(<<row>>) = 1
        /\ <<row>>[1] = row
    BY DEF ByIncreasingId, IdsOf, ToSet
  <2> QED BY <1>2, <2>1, <2>2, <2>3, <2>4 DEF CursorInv, Cursor
<1> QED BY <1>3, <1>4

LEMMA AdvancedCursor ==
    ASSUME TypeOK, ListsInv, NEW s \in Sessions, FetchMessage(s),
           InitialIds' = InitialIds
    PROVE  CursorInv(s)'
<1> DEFINE list == rows[s]
           cursor == Cursor(s)
           row == RowAfter(cursor)
           n == Len(list)
<1>1. /\ list \in Seq(MessageRows)
      /\ list # <<>>
      /\ IdsAfter(cursor) # {}
      /\ rows'[s] = Append(list, row)
      /\ pc[s] = "fetchMessages"
  BY DEF FetchMessage, TypeOK, ThreadTypeOK
<1>2. /\ n \in Nat \ {0}
      /\ DOMAIN list = 1 .. n
      /\ cursor = list[n].id
      /\ \A i \in 1 .. n : list[i].id \in Nat
  <2>1. n \in Nat \ {0} /\ DOMAIN list = 1 .. n
    BY <1>1, EmptySeq, LenProperties
  <2>2. \A i \in 1 .. n : list[i] \in MessageRows
    BY <1>1, <2>1, ElementOfSeq
  <2>3. \A i \in 1 .. n : list[i].id \in Nat
    BY <2>2 DEF MessageRows, MessageIds
  <2> QED BY <2>1, <2>3 DEF Cursor
<1>3. /\ row \in MessageRows
      /\ row.id \in IdsAfter(cursor)
      /\ \A id \in IdsAfter(cursor) : row.id <= id
  <2>1. cursor \in Nat
    BY <1>2
  <2> HIDE DEF cursor
  <2> QED BY <1>1, <2>1, RowAfterFirst, RowAfterType DEF TypeOK
<1>4. /\ ByIncreasingId(list)
      /\ \A id \in InitialIds \ IdsOf(list) : id > cursor
  BY <1>1 DEF ListsInv, CursorInv
<1>5. InitialIds \subseteq DOMAIN messages
  BY DEF ListsInv
<1>6. DOMAIN messages \subseteq Nat /\ IdsAfter(cursor) \subseteq Nat
  BY DEF TypeOK, DbTypeOK, MessageIds, IdsAfter
<1>7. row.id > cursor
  BY <1>3 DEF IdsAfter
<1>8. /\ DOMAIN rows'[s] = 1 .. n + 1
      /\ Len(rows'[s]) = n + 1
      /\ \A i \in 1 .. n : rows'[s][i] = list[i]
      /\ rows'[s][n + 1] = row
      /\ ToSet(rows'[s]) = ToSet(list) \cup {row}
  <2> HIDE DEF list, row
  <2>1. /\ Append(list, row) \in Seq(MessageRows)
        /\ Len(Append(list, row)) = Len(list) + 1
        /\ \A i \in 1 .. Len(list) : Append(list, row)[i] = list[i]
        /\ Append(list, row)[Len(list) + 1] = row
    BY <1>1, <1>3, AppendProperties
  <2>2. DOMAIN Append(list, row) = 1 .. n + 1
    BY <2>1, LenProperties
  <2> QED BY <1>1, <1>3, <2>1, <2>2, AppendElements
<1> HIDE DEF list, cursor, row, n
<1>9. \A i \in 1 .. n : list[i].id <= cursor
  <2> SUFFICES ASSUME NEW i \in 1 .. n PROVE list[i].id <= cursor
    OBVIOUS
  <2>1. i = n \/ i < n
    BY <1>2
  <2> QED BY <1>2, <1>4, <2>1 DEF ByIncreasingId
<1>10. ByIncreasingId(rows'[s])
  <2> SUFFICES ASSUME NEW i \in 1 .. n + 1, NEW j \in 1 .. n + 1, i < j
               PROVE  rows'[s][i].id < rows'[s][j].id
    BY <1>8 DEF ByIncreasingId
  <2>1. i \in 1 .. n /\ (j \in 1 .. n \/ j = n + 1)
    BY <1>2
  <2>2. CASE j \in 1 .. n
    BY <1>2, <1>4, <1>8, <2>1, <2>2 DEF ByIncreasingId
  <2>3. CASE j = n + 1
    <3>1. row.id \in Nat /\ cursor \in Nat /\ list[i].id \in Nat
      BY <1>2, <1>3, <1>6, <2>1
    <3>2. list[i].id < row.id
      BY <1>7, <1>9, <2>1, <3>1
    <3> QED BY <1>8, <2>1, <2>3, <3>2
  <2> QED BY <2>1, <2>2, <2>3
<1>11. ASSUME NEW id \in InitialIds \ IdsOf(rows'[s])
       PROVE  rows'[s] # <<>> /\ id > Cursor(s)'
  <2>1. id \notin IdsOf(list) /\ id # row.id
    BY <1>8 DEF IdsOf
  <2>2. id > cursor /\ id \in DOMAIN messages
    BY <1>4, <1>5, <2>1
  <2>3. row.id <= id
    BY <1>3, <2>2 DEF IdsAfter
  <2>4. id > row.id
    BY <1>3, <1>6, <2>1, <2>2, <2>3
  <2>5. Cursor(s)' = row.id
    BY <1>8 DEF Cursor
  <2>6. rows'[s] # <<>>
    BY <1>2, <1>8
  <2> QED BY <2>4, <2>5, <2>6
<1> QED BY <1>10, <1>11 DEF CursorInv

\* A list is sent when nothing is left after the cursor.
LEMMA SentList ==
    ASSUME TypeOK, ListsInv, NEW s \in Sessions, SendMessages(s)
    PROVE  ByIncreasingId(rows[s]) /\ InitialIds \subseteq IdsOf(rows[s])
<1>1. /\ pc[s] = "fetchMessages"
      /\ rows[s] # <<>> => IdsAfter(Cursor(s)) = {}
  BY DEF SendMessages, Goto
<1>2. CursorInv(s) /\ InitialIds \subseteq DOMAIN messages
  BY DEF ListsInv
<1>3. ASSUME NEW id \in InitialIds, id \notin IdsOf(rows[s])
      PROVE  FALSE
  BY <1>1, <1>2, <1>3 DEF CursorInv, IdsAfter
<1> QED BY <1>1, <1>2, <1>3 DEF CursorInv

LEMMA StepLists ==
    ASSUME TypeOK, PendingInv, ListsInv, [RestartNext]_restartVars
    PROVE  ListsInv'
<1>1. InitialIds' \subseteq InitialIds
  BY LoggedGrows DEF InitialIds
<1>2. InitialIds' \subseteq DOMAIN messages'
  <2> SUFFICES ASSUME NEW id \in InitialIds'
               PROVE  id \in DOMAIN messages'
    OBVIOUS
  <2>1. id \in DOMAIN messages
    BY <1>1 DEF ListsInv
  <2>2. id \notin LoggedIds("DELETE_MESSAGE")'
    BY DEF InitialIds
  <2> QED BY <2>1, <2>2, RowsStay
<1>3. ASSUME NEW s \in Sessions
      PROVE  CursorInv(s)'
  <2> SUFFICES ASSUME pc'[s] = "fetchMessages"
               PROVE  CursorInv(s)'
    BY DEF CursorInv
  <2>1. CASE pc[s] = "fetchMessages" /\ rows'[s] = rows[s]
    BY <1>1, <2>1 DEF ListsInv, CursorInv, Cursor
  <2>2. ASSUME OpenMessages(s) \/ FetchMessage(s)
        PROVE  InitialIds' = InitialIds
    <3>1. UNCHANGED dbVars /\ UNCHANGED eventQueue
      BY <2>2 DEF OpenMessages, FetchMessage
    <3>2. UNCHANGED log
      <4>1. CASE Dispatch
        <5>1. eventQueue' = Tail(eventQueue) /\ eventQueue # <<>>
          BY <4>1 DEF Dispatch
        <5>2. Len(Tail(eventQueue)) = Len(eventQueue) - 1
              /\ Len(eventQueue) \in Nat
          BY <5>1, HeadTailProperties, LenProperties DEF TypeOK, QtTypeOK
        <5> QED BY <3>1, <5>1, <5>2
      <4> QED BY <4>1, StepEntries
    <3> QED BY <3>2 DEF InitialIds, LoggedIds
  <2> QED BY <2>1, <2>2, StepRows, OpenedCursor, AdvancedCursor
<1>4. ASSUME NEW s \in Sessions
      PROVE  ListInv(s)'
  <2>1. tx[s] \in Seq(Blocks)
    BY DEF TypeOK, QtTypeOK
  <2> SUFFICES ASSUME NEW block \in ToSet(tx'[s]),
                      block.ind = "SEND_INIT_MESSAGES"
               PROVE  /\ ByIncreasingId(block.rows)
                      /\ InitialIds \subseteq IdsOf(block.rows)
    BY <1>1 DEF ListInv
  <2>2. CASE block \in ToSet(tx[s])
    BY <2>2 DEF ListsInv, ListInv
  <2>3. CASE tx'[s] = tx[s]
    BY <2>2, <2>3
  <2>4. ASSUME NEW b \in Answers,
               tx'[s] = Append(tx[s], b),
               b.ind = "SEND_INIT_MESSAGES" =>
                   SendMessages(s) /\ b.rows = rows[s]
        PROVE  /\ ByIncreasingId(block.rows)
               /\ InitialIds \subseteq IdsOf(block.rows)
    <3>1. b \in Blocks
      BY DEF Blocks
    <3>2. block \in ToSet(tx[s]) \/ block = b
      BY <2>1, <2>4, <3>1, AppendElements
    <3> QED BY <2>2, <2>4, <3>2, SentList
  <2>5. CASE WriteBlocks /\ tx'[s] = Append(tx[s], Head(outgoing).block)
    <3> DEFINE b == Head(outgoing).block
    <3>1. b \in Broadcasts \cup RoleChanges
      <4>1. log # <<>> /\ b = log[Len(log)].block
        BY <2>5 DEF WriteBlocks, PendingInv
      <4>2. Len(log) \in DOMAIN log
        BY <4>1, EmptySeq, LenProperties DEF TypeOK, QtTypeOK
      <4> QED BY <4>1, <4>2 DEF PendingInv
    <3> HIDE DEF b
    <3>2. b \in Blocks /\ b.ind # "SEND_INIT_MESSAGES"
      BY <3>1 DEF Blocks, Broadcasts, RoleChanges
    <3>3. tx'[s] = Append(tx[s], b)
      BY <2>5 DEF b
    <3>4. block \in ToSet(tx[s]) \/ block = b
      BY <2>1, <3>2, <3>3, AppendElements
    <3> QED BY <2>2, <3>2, <3>4
  <2> QED BY <2>3, <2>4, <2>5, StepWrites
<1> QED BY <1>2, <1>3, <1>4 DEF ListsInv

\* Whatever is inserted and deleted while a cursor is open, and however often
\* the program is started again, a message list has each message once, by
\* increasing id, and every message of the initial table that nobody has
\* deleted (sqlwrapper.cpp:109, serverthread.cpp:73).
THEOREM MessageLists == RestartSpec => []MessageListsComplete
<1> DEFINE IInv == TypeOK /\ PendingInv /\ ListsInv
<1>1. RestartInit => IInv
  <2> SUFFICES ASSUME Init PROVE ListsInv
    BY InitType, InitPending DEF RestartInit
  <2>1. messages = InitMessages
    BY DEF Init, DbInit
  <2>2. \A s \in Sessions : pc[s] = "idle" /\ tx[s] = <<>>
    BY DEF Init, ThreadInit, QtInit
  <2>3. ToSet(<<>>) = {}
    BY DEF ToSet
  <2> QED BY <2>1, <2>2, <2>3 DEF ListsInv, CursorInv, ListInv, InitialIds
<1>2. IInv /\ [RestartNext]_restartVars => IInv'
  BY NextType, RestartType, RestartSteps, PendingStep, StepLists
<1>3. IInv => MessageListsComplete
  BY DEF ListsInv, ListInv, ByIncreasingId, IdsOf, InitialIds, LoggedIds,
         MessageListsComplete
<1> QED BY <1>1, <1>2, <1>3, PTL DEF RestartSpec

-----------------------------------------------------------------------------
\* What a client has been told is in the database.

Kept(row) ==
    row.id \notin LoggedIds("DELETE_MESSAGE") =>
        /\ row.id \in DOMAIN messages
        /\ messages[row.id].user = row.name
        /\ row.id \notin LoggedIds("MODIFY_MESSAGE") =>
               messages[row.id].text = row.text

\* Rows on their way to a client are kept, like those it has been told of.
KeptInv ==
    /\ \A s \in Sessions : \A row \in AddedRows(s) : Kept(row)
    /\ \A s \in Sessions :
           pc[s] = "fetchMessages" => \A row \in ToSet(rows[s]) : Kept(row)
    /\ \A o \in ToSet(outgoing) :
           o.block.ind = "ADD_MESSAGE" => Kept(o.block)

LEMMA KeptStays ==
    ASSUME TypeOK, [RestartNext]_restartVars, NEW row, Kept(row)
    PROVE  Kept(row)'
<1> SUFFICES ASSUME row.id \notin LoggedIds("DELETE_MESSAGE")'
             PROVE  /\ row.id \in DOMAIN messages'
                    /\ messages'[row.id].user = row.name
                    /\ row.id \notin LoggedIds("MODIFY_MESSAGE")' =>
                           messages'[row.id].text = row.text
  BY DEF Kept
<1>1. /\ row.id \in DOMAIN messages
      /\ messages[row.id].user = row.name
      /\ row.id \notin LoggedIds("MODIFY_MESSAGE") =>
             messages[row.id].text = row.text
  BY LoggedGrows DEF Kept
<1>2. row.id \notin LoggedIds("MODIFY_MESSAGE")' =>
          row.id \notin LoggedIds("MODIFY_MESSAGE")
  BY LoggedGrows
<1>3. CASE UNCHANGED dbVars
  BY <1>1, <1>2, <1>3 DEF dbVars
<1>4. ASSUME NEW e \in Events, NEW block \in Blocks, LogEntry(e, block)
      PROVE  /\ row.id \in DOMAIN messages'
             /\ messages'[row.id].user = row.name
             /\ row.id \notin LoggedIds("MODIFY_MESSAGE")' =>
                    messages'[row.id].text = row.text
  <2>1. messages' = ApplyBlock(messages, Applied(block))
    BY <1>4 DEF LogEntry
  <2>2. row.id # sqlite_sequence + 1
    BY <1>1 DEF TypeOK, DbTypeOK, MessageIds
  <2>3. messages[row.id] \in [user : Users, text : Texts]
    BY <1>1 DEF TypeOK, DbTypeOK
  <2>4. CASE block.ind = "MODIFY_MESSAGE"
    <3>1. messages' = [i \in DOMAIN messages |->
                           IF i = block.id
                              THEN [messages[i] EXCEPT !.text = block.text]
                              ELSE messages[i]]
      BY <2>1, <2>4 DEF ApplyBlock, Applied
    <3>2. CASE block.id = row.id
      <4>1. row.id \in LoggedIds("MODIFY_MESSAGE")'
        BY <1>4, <2>4, <3>2, LoggedStep
      <4>2. messages'[row.id].user = messages[row.id].user
        BY <1>1, <2>3, <3>1, <3>2
      <4> QED BY <1>1, <3>1, <4>1, <4>2
    <3>3. CASE block.id # row.id
      BY <1>1, <1>2, <3>1, <3>3
    <3> QED BY <3>2, <3>3
  <2>5. CASE block.ind = "DELETE_MESSAGE"
    <3>1. block.id # row.id
      BY <1>4, <2>5, LoggedStep
    <3>2. messages' = [i \in DOMAIN messages \ {block.id} |-> messages[i]]
      BY <2>1, <2>5 DEF ApplyBlock, Applied
    <3> QED BY <1>1, <1>2, <3>1, <3>2
  <2>6. CASE block.ind = "ADD_MESSAGE"
    <3>1. DOMAIN messages \subseteq DOMAIN messages'
      BY <2>1, <2>6 DEF ApplyBlock, Applied
    <3>2. messages'[row.id] = messages[row.id]
      BY <1>1, <2>1, <2>2, <2>6 DEF ApplyBlock, Applied
    <3> QED BY <1>1, <1>2, <3>1, <3>2
  <2>7. CASE block.ind \notin {"ADD_MESSAGE", "DELETE_MESSAGE",
                               "MODIFY_MESSAGE"}
    BY <1>1, <1>2, <2>1, <2>7 DEF ApplyBlock, Applied
  <2> QED BY <2>4, <2>5, <2>6, <2>7
<1> QED BY <1>3, <1>4, StepEntries

\* A row the cursor gives is as the table has it.
LEMMA RowKept ==
    ASSUME DbTypeOK, NEW cursor \in Nat, IdsAfter(cursor) # {}
    PROVE  Kept(RowAfter(cursor))
<1>1. RowAfter(cursor).id \in DOMAIN messages
  BY RowAfterType DEF IdsAfter
<1> QED BY <1>1 DEF Kept, RowAfter

\* The block of an insertion has the id, author and text of the new row.
LEMMA AddedKept ==
    ASSUME ~ReadsMayFail, NEW e, NEW block, LogEntry(e, block),
           block.ind = "ADD_MESSAGE"
    PROVE  Kept(block)'
<1>1. block.id = sqlite_sequence + 1
  BY DEF LogEntry
<1>2. messages' = ApplyBlock(messages, Applied(block))
  BY DEF LogEntry
<1>3. /\ Applied(block).ind = "ADD_MESSAGE"
      /\ Applied(block).id = block.id
      /\ Applied(block).name = block.name
      /\ Applied(block).text = block.text
  BY <1>1 DEF Applied
<1>4. /\ block.id \in DOMAIN messages'
      /\ messages'[block.id] = [user |-> block.name, text |-> block.text]
  BY <1>2, <1>3 DEF ApplyBlock
<1> QED BY <1>4 DEF Kept

LEMMA AddedRowsStep ==
    ASSUME TypeOK, NEW s \in Sessions, NEW b \in Blocks,
           tx'[s] = Append(tx[s], b), NEW row \in AddedRows(s)'
    PROVE  \/ row \in AddedRows(s)
           \/ b.ind = "ADD_MESSAGE" /\ row = b
           \/ b.ind = "SEND_INIT_MESSAGES" /\ row \in ToSet(b.rows)
<1>1. ToSet(tx'[s]) = ToSet(tx[s]) \cup {b}
  BY AppendElements DEF TypeOK, QtTypeOK
<1>2. CASE row \in ToSet(tx'[s]) /\ row.ind = "ADD_MESSAGE"
  BY <1>1, <1>2 DEF AddedRows
<1>3. ASSUME NEW list \in ToSet(tx'[s]), list.ind = "SEND_INIT_MESSAGES",
             row \in ToSet(list.rows)
      PROVE  \/ row \in AddedRows(s)
             \/ b.ind = "SEND_INIT_MESSAGES" /\ row \in ToSet(b.rows)
  BY <1>1, <1>3 DEF AddedRows
<1> QED BY <1>2, <1>3 DEF AddedRows

LEMMA StepKept ==
    ASSUME TypeOK, PendingInv, KeptInv, ~ReadsMayFail,
           [RestartNext]_restartVars
    PROVE  KeptInv'
<1>1. ASSUME NEW s \in Sessions, NEW row \in AddedRows(s)'
      PROVE  Kept(row)'
  <2>1. CASE row \in AddedRows(s)
    BY <2>1, KeptStays DEF KeptInv
  <2>2. CASE tx'[s] = tx[s]
    BY <2>1, <2>2 DEF AddedRows
  <2>3. ASSUME NEW b \in Answers,
               tx'[s] = Append(tx[s], b),
               b.ind = "SEND_INIT_MESSAGES" =>
                   SendMessages(s) /\ b.rows = rows[s]
        PROVE  Kept(row)'
    <3>1. b \in Blocks /\ b.ind # "ADD_MESSAGE"
      BY DEF Blocks, Answers
    <3>2. \/ row \in AddedRows(s)
          \/ b.ind = "SEND_INIT_MESSAGES" /\ row \in ToSet(b.rows)
      BY <2>3, <3>1, AddedRowsStep
    <3>3. SendMessages(s) => pc[s] = "fetchMessages"
      BY DEF SendMessages, Goto
    <3> QED BY <2>1, <2>3, <3>2, <3>3, KeptStays DEF KeptInv
  <2>4. CASE WriteBlocks /\ tx'[s] = Append(tx[s], Head(outgoing).block)
    <3> DEFINE b == Head(outgoing).block
    <3>1. outgoing # <<>>
      BY <2>4 DEF WriteBlocks
    <3>2. b \in Broadcasts \cup RoleChanges
      <4>1. log # <<>> /\ b = log[Len(log)].block
        BY <3>1 DEF PendingInv
      <4>2. Len(log) \in DOMAIN log
        BY <4>1, EmptySeq, LenProperties DEF TypeOK, QtTypeOK
      <4> QED BY <4>1, <4>2 DEF PendingInv
    <3>3. b.ind = "ADD_MESSAGE" => Kept(b)
      <4>1. Head(outgoing) \in ToSet(outgoing)
        BY <3>1, TailElements DEF TypeOK
      <4> QED BY <4>1 DEF KeptInv
    <3> HIDE DEF b
    <3>4. b \in Blocks /\ b.ind # "SEND_INIT_MESSAGES"
      BY <3>2 DEF Blocks, Broadcasts, RoleChanges
    <3>5. tx'[s] = Append(tx[s], b)
      BY <2>4 DEF b
    <3>6. \/ row \in AddedRows(s)
          \/ b.ind = "ADD_MESSAGE" /\ row = b
      BY <3>4, <3>5, AddedRowsStep
    <3> QED BY <2>1, <3>3, <3>6, KeptStays
  <2> QED BY <2>2, <2>3, <2>4, StepWrites
<1>2. ASSUME NEW s \in Sessions, pc'[s] = "fetchMessages",
             NEW row \in ToSet(rows'[s])
      PROVE  Kept(row)'
  <2>1. CASE pc[s] = "fetchMessages" /\ row \in ToSet(rows[s])
    BY <2>1, KeptStays DEF KeptInv
  <2>2. CASE OpenMessages(s)
    <3>1. rows'[s] = IF IdsAfter(0) = {} THEN <<>> ELSE <<RowAfter(0)>>
      BY <1>2, <2>2 DEF OpenMessages, Goto, TypeOK, ThreadTypeOK
    <3>2. IdsAfter(0) # {} /\ row = RowAfter(0)
      BY <1>2, <3>1 DEF ToSet
    <3>3. Kept(row)
      BY <3>2, RowKept DEF TypeOK
    <3> QED BY <3>3, KeptStays
  <2>3. CASE FetchMessage(s)
    <3> DEFINE list == rows[s]
               cursor == Cursor(s)
               next == RowAfter(cursor)
    <3>1. /\ list \in Seq(MessageRows)
          /\ list # <<>>
          /\ IdsAfter(cursor) # {}
          /\ rows'[s] = Append(list, next)
          /\ pc[s] = "fetchMessages"
      BY <2>3 DEF FetchMessage, TypeOK, ThreadTypeOK
    <3>2. cursor \in Nat
      <4>1. Len(list) \in 1 .. Len(list)
        BY <3>1, EmptySeq, LenProperties
      <4>2. list[Len(list)] \in MessageRows
        BY <3>1, <4>1, ElementOfSeq
      <4> QED BY <4>2 DEF Cursor, MessageRows, MessageIds
    <3> HIDE DEF cursor
    <3>3. next \in MessageRows /\ Kept(next)
      BY <3>1, <3>2, RowAfterType, RowKept DEF TypeOK
    <3> HIDE DEF list, next
    <3>4. row \in ToSet(list) \/ row = next
      BY <1>2, <3>1, <3>3, AppendElements
    <3> QED BY <2>1, <3>1, <3>3, <3>4, KeptStays DEF list
  <2> QED BY <1>2, <2>1, <2>2, <2>3, StepRows
<1>3. ASSUME NEW o \in ToSet(outgoing'), o.block.ind = "ADD_MESSAGE"
      PROVE  Kept(o.block)'
  <2>1. CASE o \in ToSet(outgoing)
    BY <1>3, <2>1, KeptStays DEF KeptInv
  <2>2. ToSet(<<>>) = {}
    BY DEF ToSet
  <2>3. ASSUME NEW block \in Blocks, LogEntry(Head(eventQueue), block)
        PROVE  Kept(o.block)'
    <3>1. PICK to : Tell(Head(eventQueue), block, to)
      BY <2>3 DEF LogEntry
    <3>2. o.block = block
      BY <3>1 DEF Tell, ToSet
    <3> QED BY <1>3, <2>3, <3>2, AddedKept
  <2> QED BY <1>3, <2>1, <2>2, <2>3, StepOutgoing, RestartSteps
<1> QED BY <1>1, <1>2, <1>3 DEF KeptInv

\* Whatever a client has been shown is stored under that id, author and text
\* until a request deletes or modifies it, however often the program ends, also
\* between the insertion and the broadcast, if reading the id does not fail
\* (echoserver.cpp:186, sqlwrapper.cpp:94).
THEOREM ToldStays == ~ReadsMayFail /\ RestartSpec => []ToldIsStored
<1> SUFFICES ASSUME ~ReadsMayFail
             PROVE  RestartSpec => []ToldIsStored
  OBVIOUS
<1> DEFINE IInv == TypeOK /\ PendingInv /\ KeptInv
<1>1. RestartInit => IInv
  <2> SUFFICES ASSUME Init PROVE KeptInv
    BY InitType, InitPending DEF RestartInit
  <2>1. outgoing = <<>>
    BY DEF Init, EchoInit
  <2>2. \A s \in Sessions : pc[s] = "idle" /\ tx[s] = <<>>
    BY DEF Init, ThreadInit, QtInit
  <2>3. ToSet(<<>>) = {}
    BY DEF ToSet
  <2>4. \A s \in Sessions : AddedRows(s) = {}
    BY <2>2, <2>3 DEF AddedRows
  <2> QED BY <2>1, <2>2, <2>3, <2>4 DEF KeptInv
<1>2. TypeOK /\ [RestartNext]_restartVars => TypeOK'
  BY NextType, RestartType, RestartSteps
<1>3. IInv /\ [RestartNext]_restartVars => IInv'
  BY <1>2, PendingStep, StepKept, RestartSteps
<1>4. IInv => ToldIsStored
  BY DEF KeptInv, Kept, ToldIsStored
<1> QED BY <1>1, <1>3, <1>4, PTL DEF RestartSpec
-----------------------------------------------------------------------------
\* The blocks of the log say what became of the table.

\* The recursive function of Replayed: the tables after 0 .. k entries.
Tables(entries, k, f) ==
    f = [n \in 0 .. k |->
            IF n = 0 THEN InitMessages
                     ELSE ApplyBlock(f[n - 1], entries[n].block)]

LEMMA TablesExist ==
    ASSUME NEW entries, NEW k \in Nat
    PROVE  \E f : Tables(entries, k, f)
<1> DEFINE S == {n \in Nat : ~ \E f : Tables(entries, n, f)}
<1> SUFFICES ASSUME S # {} PROVE FALSE
  OBVIOUS
<1> DEFINE m == Min(S)
<1>1. m \in S /\ \A n \in S : m <= n
  <2> HIDE DEF S
  <2>1. S \subseteq Nat
    BY DEF S
  <2> QED BY <2>1, NatMin
<1>2. m # 0
  <2>1. Tables(entries, 0, [n \in 0 .. 0 |-> InitMessages])
    BY DEF Tables
  <2> QED BY <1>1, <2>1
<1>3. m \in Nat /\ m - 1 \in Nat /\ m - 1 \notin S
  <2> HIDE DEF m
  <2>1. m \in Nat
    BY <1>1
  <2> QED BY <1>1, <1>2, <2>1
<1>4. PICK f : Tables(entries, m - 1, f)
  BY <1>3
<1> DEFINE g == [n \in 0 .. m |->
                    IF n < m THEN f[n]
                             ELSE ApplyBlock(f[m - 1], entries[m].block)]
<1>5. Tables(entries, m, g)
  <2> HIDE DEF m
  <2>1. \A n \in 0 .. m - 1 :
            f[n] = IF n = 0 THEN InitMessages
                            ELSE ApplyBlock(f[n - 1], entries[n].block)
    BY <1>4 DEF Tables
  <2>2. ASSUME NEW n \in 0 .. m
        PROVE  g[n] = IF n = 0 THEN InitMessages
                               ELSE ApplyBlock(g[n - 1], entries[n].block)
    <3>1. CASE n = 0
      BY <1>2, <1>3, <2>1, <3>1
    <3>2. CASE n # 0
      <4>1. n - 1 \in 0 .. m /\ n - 1 < m
        BY <1>3, <3>2
      <4>2. g[n - 1] = f[n - 1]
        BY <4>1
      <4>3. CASE n < m
        BY <1>3, <2>1, <3>2, <4>2, <4>3
      <4>4. CASE n = m
        BY <3>2, <4>2, <4>4
      <4> QED BY <1>3, <4>3, <4>4
    <3> QED BY <3>1, <3>2
  <2> QED BY <2>2 DEF Tables
<1> QED BY <1>1, <1>5

LEMMA TablesAgree ==
    ASSUME NEW entries, NEW longer, NEW k \in Nat, NEW l \in Nat, k <= l,
           \A n \in 1 .. k : entries[n] = longer[n],
           NEW f, Tables(entries, k, f), NEW g, Tables(longer, l, g)
    PROVE  f[k] = g[k]
<1> DEFINE S == {n \in 0 .. k : f[n] # g[n]}
<1> SUFFICES ASSUME S # {} PROVE FALSE
  OBVIOUS
<1> DEFINE m == Min(S)
<1>1. m \in S /\ \A n \in S : m <= n
  <2>1. S \subseteq Nat
    OBVIOUS
  <2> HIDE DEF S
  <2> QED BY <2>1, NatMin
<1>2. /\ \A n \in 0 .. k :
             f[n] = IF n = 0 THEN InitMessages
                             ELSE ApplyBlock(f[n - 1], entries[n].block)
      /\ \A n \in 0 .. l :
             g[n] = IF n = 0 THEN InitMessages
                             ELSE ApplyBlock(g[n - 1], longer[n].block)
  BY DEF Tables
<1> HIDE DEF m
<1>3. m \in 0 .. k /\ f[m] # g[m] /\ m \in 0 .. l
  BY <1>1
<1>4. m # 0
  BY <1>2, <1>3
<1>5. m - 1 \in 0 .. k /\ m - 1 \notin S
  BY <1>1, <1>3, <1>4
<1>6. f[m - 1] = g[m - 1] /\ entries[m] = longer[m]
  BY <1>3, <1>4, <1>5
<1> QED BY <1>2, <1>3, <1>4, <1>6

LEMMA ReplayedTable ==
    ASSUME NEW entries, Len(entries) \in Nat
    PROVE  \E f : /\ Tables(entries, Len(entries), f)
                  /\ Replayed(entries) = f[Len(entries)]
<1> DEFINE f == CHOOSE f : Tables(entries, Len(entries), f)
<1>1. Tables(entries, Len(entries), f)
  BY TablesExist
<1>2. Replayed(entries) = f[Len(entries)]
  BY DEF Replayed, Tables
<1> QED BY <1>1, <1>2

LEMMA ReplayedAppend ==
    ASSUME NEW S, NEW entries \in Seq(S), NEW entry \in S
    PROVE  Replayed(Append(entries, entry)) =
               ApplyBlock(Replayed(entries), entry.block)
<1> DEFINE longer == Append(entries, entry)
           k == Len(entries)
<1>1. /\ k \in Nat /\ Len(longer) = k + 1
      /\ \A n \in 1 .. k : entries[n] = longer[n]
      /\ longer[k + 1] = entry
  BY AppendProperties, LenProperties
<1> HIDE DEF longer
<1>2. PICK f : Tables(entries, k, f) /\ Replayed(entries) = f[k]
  BY <1>1, ReplayedTable
<1>3. PICK g : Tables(longer, k + 1, g) /\ Replayed(longer) = g[k + 1]
  BY <1>1, ReplayedTable
<1> HIDE DEF k
<1>4. f[k] = g[k]
  BY <1>1, <1>2, <1>3, TablesAgree
<1>5. g[k + 1] = ApplyBlock(g[k], longer[k + 1].block)
  BY <1>1, <1>3 DEF Tables
<1> QED BY <1>1, <1>2, <1>3, <1>4, <1>5 DEF longer

LEMMA ReplayedNone == Replayed(<<>>) = InitMessages
<1>1. PICK f : Tables(<<>>, 0, f) /\ Replayed(<<>>) = f[0]
  BY ReplayedTable
<1> QED BY <1>1 DEF Tables

LEMMA StepReplay ==
    ASSUME TypeOK, BroadcastsReplayStore, ~ReadsMayFail,
           [RestartNext]_restartVars
    PROVE  BroadcastsReplayStore'
<1>1. CASE UNCHANGED <<log, dbVars>>
  BY <1>1 DEF BroadcastsReplayStore, dbVars
<1>2. ASSUME NEW e \in Events, NEW block \in Blocks, LogEntry(e, block)
      PROVE  BroadcastsReplayStore'
  <2> DEFINE entry == [event |-> e, block |-> block]
  <2>1. log' = Append(log, entry) /\ entry.block = block
    BY <1>2 DEF LogEntry
  <2>2. entry \in [event : Events, block : Blocks]
    OBVIOUS
  <2> HIDE DEF entry
  <2>3. Replayed(log') = ApplyBlock(Replayed(log), block)
    BY <2>1, <2>2, ReplayedAppend, ZenonT(30) DEF TypeOK, QtTypeOK
  <2>4. messages' = ApplyBlock(messages, Applied(block))
    BY <1>2 DEF LogEntry
  <2>5. ApplyBlock(messages, Applied(block)) = ApplyBlock(messages, block)
    <3>1. CASE block.ind = "ADD_MESSAGE"
      <4>1. block.id = sqlite_sequence + 1
        BY <1>2, <3>1 DEF LogEntry
      <4>2. /\ Applied(block).ind = "ADD_MESSAGE"
            /\ Applied(block).id = block.id
            /\ Applied(block).name = block.name
            /\ Applied(block).text = block.text
        BY <3>1, <4>1 DEF Applied
      <4> QED BY <3>1, <4>2 DEF ApplyBlock
    <3>2. CASE block.ind # "ADD_MESSAGE"
      BY <3>2 DEF Applied
    <3> QED BY <3>1, <3>2
  <2> QED BY <2>3, <2>4, <2>5 DEF BroadcastsReplayStore
<1> QED BY <1>1, <1>2, StepEntries

\* Applied in order to the initial table, the blocks the slots send to the
\* users give the table, also after the program has been started again, if
\* reading the id of a new message does not fail (echoserver.cpp:192,
\* sqlwrapper.cpp:94).
THEOREM ReplayGivesStore ==
    ~ReadsMayFail /\ RestartSpec => []BroadcastsReplayStore
<1> SUFFICES ASSUME ~ReadsMayFail
             PROVE  RestartSpec => []BroadcastsReplayStore
  OBVIOUS
<1> DEFINE IInv == TypeOK /\ BroadcastsReplayStore
<1>1. RestartInit => IInv
  BY InitType, ReplayedNone
     DEF RestartInit, Init, DbInit, QtInit, BroadcastsReplayStore
<1>2. TypeOK /\ [RestartNext]_restartVars => TypeOK'
  BY NextType, RestartType, RestartSteps
<1>3. IInv /\ [RestartNext]_restartVars => IInv'
  BY <1>2, StepReplay
<1> QED BY <1>1, <1>3, PTL DEF RestartSpec

-----------------------------------------------------------------------------
\* The broadcasts among the blocks of a sequence.

\* The recursive function of BroadcastsAmong: those among the first 0 .. k.
Among(blocks, k, f) ==
    f = [n \in 0 .. k |->
            IF n = 0 THEN <<>>
            ELSE IF IsBroadcast(blocks[n])
                    THEN Append(f[n - 1], blocks[n])
                    ELSE f[n - 1]]

LEMMA AmongExists ==
    ASSUME NEW blocks, NEW k \in Nat
    PROVE  \E f : Among(blocks, k, f)
<1> DEFINE S == {n \in Nat : ~ \E f : Among(blocks, n, f)}
<1> SUFFICES ASSUME S # {} PROVE FALSE
  OBVIOUS
<1> DEFINE m == Min(S)
<1>1. m \in S /\ \A n \in S : m <= n
  <2>1. S \subseteq Nat
    OBVIOUS
  <2> HIDE DEF S
  <2> QED BY <2>1, NatMin
<1>2. m # 0
  <2>1. Among(blocks, 0, [n \in 0 .. 0 |-> <<>>])
    BY DEF Among
  <2> QED BY <1>1, <2>1
<1>3. m \in Nat /\ m - 1 \in Nat /\ m - 1 \notin S
  <2> HIDE DEF m
  <2>1. m \in Nat
    BY <1>1
  <2> QED BY <1>1, <1>2, <2>1
<1>4. PICK f : Among(blocks, m - 1, f)
  BY <1>3
<1> DEFINE Longer(before, n) == IF IsBroadcast(blocks[n])
                                   THEN Append(before, blocks[n])
                                   ELSE before
           g == [n \in 0 .. m |->
                    IF n < m THEN f[n] ELSE Longer(f[m - 1], m)]
<1>5. Among(blocks, m, g)
  <2> HIDE DEF m
  <2>1. \A n \in 0 .. m - 1 :
            f[n] = IF n = 0 THEN <<>> ELSE Longer(f[n - 1], n)
    BY <1>4 DEF Among
  <2> HIDE DEF Longer
  <2>2. ASSUME NEW n \in 0 .. m
        PROVE  g[n] = IF n = 0 THEN <<>> ELSE Longer(g[n - 1], n)
    <3>1. CASE n = 0
      BY <1>2, <1>3, <2>1, <3>1
    <3>2. CASE n # 0
      <4>1. n - 1 \in 0 .. m /\ n - 1 < m
        BY <1>3, <3>2
      <4>2. g[n - 1] = f[n - 1]
        BY <4>1
      <4>3. CASE n < m
        BY <1>3, <2>1, <3>2, <4>2, <4>3
      <4>4. CASE n = m
        BY <3>2, <4>2, <4>4
      <4> QED BY <1>3, <4>3, <4>4
    <3> QED BY <3>1, <3>2
  <2>3. g = [n \in 0 .. m |-> IF n = 0 THEN <<>> ELSE Longer(g[n - 1], n)]
    BY <2>2
  <2> HIDE DEF g
  <2> QED BY <2>3 DEF Among, Longer
<1> QED BY <1>1, <1>5

LEMMA AmongAgree ==
    ASSUME NEW blocks, NEW longer, NEW k \in Nat, NEW l \in Nat, k <= l,
           \A n \in 1 .. k : blocks[n] = longer[n],
           NEW f, Among(blocks, k, f), NEW g, Among(longer, l, g)
    PROVE  f[k] = g[k]
<1> DEFINE S == {n \in 0 .. k : f[n] # g[n]}
<1> SUFFICES ASSUME S # {} PROVE FALSE
  OBVIOUS
<1> DEFINE m == Min(S)
<1>1. m \in S /\ \A n \in S : m <= n
  <2>1. S \subseteq Nat
    OBVIOUS
  <2> HIDE DEF S
  <2> QED BY <2>1, NatMin
<1>2. /\ \A n \in 0 .. k :
             f[n] = IF n = 0 THEN <<>>
                    ELSE IF IsBroadcast(blocks[n])
                            THEN Append(f[n - 1], blocks[n])
                            ELSE f[n - 1]
      /\ \A n \in 0 .. l :
             g[n] = IF n = 0 THEN <<>>
                    ELSE IF IsBroadcast(longer[n])
                            THEN Append(g[n - 1], longer[n])
                            ELSE g[n - 1]
  BY DEF Among
<1> HIDE DEF m
<1>3. m \in 0 .. k /\ f[m] # g[m] /\ m \in 0 .. l
  BY <1>1
<1>4. m # 0
  BY <1>2, <1>3
<1>5. m - 1 \in 0 .. k /\ m - 1 \notin S
  BY <1>1, <1>3, <1>4
<1>6. f[m - 1] = g[m - 1] /\ blocks[m] = longer[m]
  BY <1>3, <1>4, <1>5
<1> QED BY <1>2, <1>3, <1>4, <1>6

LEMMA AmongFunction ==
    ASSUME NEW blocks, Len(blocks) \in Nat
    PROVE  \E f : /\ Among(blocks, Len(blocks), f)
                  /\ BroadcastsAmong(blocks) = f[Len(blocks)]
<1> DEFINE f == CHOOSE f : Among(blocks, Len(blocks), f)
<1>1. Among(blocks, Len(blocks), f)
  BY AmongExists
<1>2. BroadcastsAmong(blocks) = f[Len(blocks)]
  BY DEF BroadcastsAmong, Among
<1> QED BY <1>1, <1>2

LEMMA AmongAppend ==
    ASSUME NEW S, NEW blocks \in Seq(S), NEW block \in S
    PROVE  BroadcastsAmong(Append(blocks, block)) =
               IF IsBroadcast(block)
                  THEN Append(BroadcastsAmong(blocks), block)
                  ELSE BroadcastsAmong(blocks)
<1> DEFINE longer == Append(blocks, block)
           k == Len(blocks)
<1>1. /\ k \in Nat /\ Len(longer) = k + 1
      /\ \A n \in 1 .. k : blocks[n] = longer[n]
      /\ longer[k + 1] = block
  BY AppendProperties, LenProperties
<1> HIDE DEF longer
<1>2. PICK f : Among(blocks, k, f) /\ BroadcastsAmong(blocks) = f[k]
  BY <1>1, AmongFunction
<1>3. PICK g : Among(longer, k + 1, g) /\ BroadcastsAmong(longer) = g[k + 1]
  BY <1>1, AmongFunction
<1> HIDE DEF k
<1>4. f[k] = g[k]
  BY <1>1, <1>2, <1>3, AmongAgree
<1>5. g[k + 1] = IF IsBroadcast(longer[k + 1])
                    THEN Append(g[k], longer[k + 1]) ELSE g[k]
  <2>1. k + 1 \in 0 .. k + 1 /\ k + 1 # 0 /\ (k + 1) - 1 = k
    BY <1>1
  <2>2. \A n \in 0 .. k + 1 :
            g[n] = IF n = 0 THEN <<>>
                   ELSE IF IsBroadcast(longer[n])
                           THEN Append(g[n - 1], longer[n])
                           ELSE g[n - 1]
    BY <1>3 DEF Among
  <2> QED BY <2>1, <2>2
<1> QED BY <1>1, <1>2, <1>3, <1>4, <1>5 DEF longer

LEMMA AmongNone == BroadcastsAmong(<<>>) = <<>>
<1>1. PICK f : Among(<<>>, 0, f) /\ BroadcastsAmong(<<>>) = f[0]
  BY AmongFunction
<1> QED BY <1>1 DEF Among

-----------------------------------------------------------------------------
\* Who is in the map, and who has been.

Announces(e, s) == e.signal = "connectedUser" /\ e.sess = s

\* A session is announced once, after it has logged in, and is in the map only
\* after the main thread has taken its announcement from the queue.
PastInv ==
    /\ \A s \in Sessions, i \in DOMAIN eventQueue :
           Announces(eventQueue[i], s) => Announced(s)
    /\ \A s \in Sessions, i, j \in DOMAIN eventQueue :
           Announces(eventQueue[i], s) /\ Announces(eventQueue[j], s)
               => i = j
    /\ \A s \in Sessions, u \in Users : m_userSocket[u] = s => Settled(s)

LEMMA WorkerStaysAnnounced ==
    ASSUME TypeOK, IdentityInv, NEW s \in Sessions, ThreadStep(s),
           NEW t \in Sessions, Announced(t)
    PROVE  Announced(t)'
<1> USE DEF Announced, Goto
<1>1. CASE SetSocketDescriptor(s) \/ RejectCertificate(s) \/ DenyLogin(s)
           \/ AcceptLogin(s)
  BY <1>1 DEF SetSocketDescriptor, RejectCertificate, DenyLogin, AcceptLogin,
              TypeOK, ThreadTypeOK
<1>2. CASE AnnounceUser(s)
  BY <1>2 DEF AnnounceUser, TypeOK, ThreadTypeOK
<1>3. CASE OpenMessages(s) \/ FetchMessage(s) \/ SendMessages(s)
  BY <1>3 DEF OpenMessages, FetchMessage, SendMessages, TypeOK, ThreadTypeOK
<1>4. CASE TakeAck(s) \/ MissAck(s) \/ FindClosed(s)
  BY <1>4 DEF TakeAck, MissAck, FindClosed, TypeOK, ThreadTypeOK
<1>5. CASE ReadRole(s)
  BY <1>5 DEF ReadRole, TypeOK, ThreadTypeOK
<1>6. CASE CheckRole(s)
  BY <1>6 DEF CheckRole, TypeOK, ThreadTypeOK
<1>7. CASE FetchUser(s) \/ SendUsers(s) \/ InitModerator(s)
  BY <1>7 DEF FetchUser, SendUsers, InitModerator, TypeOK, ThreadTypeOK
<1>8. CASE ReceiveRequests(s) \/ LeaveMainCycle(s) \/ EmitRequest(s)
           \/ EndRequests(s)
  BY <1>8 DEF ReceiveRequests, LeaveMainCycle, EmitRequest, EndRequests,
              TypeOK, ThreadTypeOK
<1> QED BY <1>1, <1>2, <1>3, <1>4, <1>5, <1>6, <1>7, <1>8 DEF ThreadStep

\* A worker announces its own session, which was not announced before.
LEMMA WorkerQueue ==
    ASSUME TypeOK, NEW s \in Sessions, ThreadStep(s)
    PROVE  /\ \A i \in DOMAIN eventQueue :
                  i \in DOMAIN eventQueue' /\ eventQueue'[i] = eventQueue[i]
           /\ \A i, j \in DOMAIN eventQueue' \ DOMAIN eventQueue :
                  eventQueue'[i].signal = "connectedUser" =>
                      /\ i = j
                      /\ eventQueue'[i].sess = s
                      /\ AnnounceUser(s)
                      /\ ~Announced(s)
<1>1. Extended(s)
  BY WorkerExtends
<1>2. CASE pc[s] = "announce"
  <2>1. AnnounceUser(s)
    BY <1>2, AnnounceOnly
  <2>2. ~Announced(s)
    BY <1>2 DEF Announced
  <2> DEFINE e == [signal |-> "connectedUser", sess |-> s,
                   name |-> m_username[s]]
  <2>3. eventQueue' = Append(eventQueue, e) /\ e.sess = s
    BY <2>1 DEF AnnounceUser, Post
  <2> HIDE DEF e
  <2>4. /\ DOMAIN eventQueue = 1 .. Len(eventQueue)
        /\ DOMAIN eventQueue' = 1 .. Len(eventQueue) + 1
        /\ Len(eventQueue) \in Nat
        /\ eventQueue'[Len(eventQueue) + 1] = e
    BY <2>3 DEF TypeOK, QtTypeOK
  <2>5. \A i \in DOMAIN eventQueue' \ DOMAIN eventQueue :
            i = Len(eventQueue) + 1
    BY <2>4
  <2> QED BY <1>1, <2>1, <2>2, <2>3, <2>4, <2>5 DEF Extended
<1>3. CASE pc[s] # "announce"
  BY <1>1, <1>3 DEF Extended
<1> QED BY <1>2, <1>3

LEMMA SettledIndex ==
    ASSUME NEW s
    PROVE  Settled(s) <=> /\ Announced(s)
                          /\ \A i \in DOMAIN eventQueue :
                                 eventQueue[i].signal = "connectedUser" =>
                                     eventQueue[i].sess # s
BY DEF Settled, ToSet

LEMMA WorkerSettles ==
    ASSUME TypeOK, IdentityInv, NEW s \in Sessions, ThreadStep(s),
           NEW t \in Sessions
    PROVE  Settled(t)' <=> Settled(t)
<1>1. ASSUME Settled(t)
      PROVE  Settled(t)'
  <2>1. Announced(t) /\ Announced(t)'
    BY <1>1, WorkerStaysAnnounced DEF Settled
  <2>2. ASSUME NEW i \in DOMAIN eventQueue',
               eventQueue'[i].signal = "connectedUser",
               eventQueue'[i].sess = t
        PROVE  FALSE
    <3>1. CASE i \in DOMAIN eventQueue
      BY <1>1, <2>2, <3>1, WorkerQueue, SettledIndex
    <3>2. CASE i \notin DOMAIN eventQueue
      BY <2>1, <2>2, <3>2, WorkerQueue
    <3> QED BY <3>1, <3>2
  <2> QED BY <2>1, <2>2 DEF Settled, ToSet
<1>2. ASSUME Settled(t)'
      PROVE  Settled(t)
  <2>1. /\ Announced(t)'
        /\ \A i \in DOMAIN eventQueue' :
               eventQueue'[i].signal = "connectedUser" =>
                   eventQueue'[i].sess # t
    BY <1>2 DEF Settled, ToSet
  <2>2. \A i \in DOMAIN eventQueue :
            eventQueue[i].signal = "connectedUser" => eventQueue[i].sess # t
    BY <2>1, WorkerQueue
  <2>3. CASE t = s /\ AnnounceUser(s)
    <3> DEFINE e == [signal |-> "connectedUser", sess |-> s,
                     name |-> m_username[s]]
    <3>1. eventQueue' = Append(eventQueue, e)
      BY <2>3 DEF AnnounceUser, Post
    <3>2. e.signal = "connectedUser" /\ e.sess = s
      OBVIOUS
    <3> HIDE DEF e
    <3>3. /\ Len(eventQueue) + 1 \in DOMAIN eventQueue'
          /\ eventQueue'[Len(eventQueue) + 1] = e
      BY <3>1 DEF TypeOK, QtTypeOK
    <3> QED BY <2>1, <2>3, <3>2, <3>3
  <2>4. Announced(t) \/ (t = s /\ AnnounceUser(s))
    BY <2>1, WorkerAnnounces
  <2> QED BY <2>2, <2>3, <2>4, SettledIndex
<1> QED BY <1>1, <1>2

LEMMA WorkerPast ==
    ASSUME TypeOK, IdentityInv, PastInv, NEW s \in Sessions, Worker(s)
    PROVE  PastInv'
<1>1. ThreadStep(s) /\ UNCHANGED m_userSocket
  BY DEF Worker, mainVars
<1>2. ASSUME NEW t \in Sessions, NEW i \in DOMAIN eventQueue',
             Announces(eventQueue'[i], t)
      PROVE  Announced(t)'
  <2>1. CASE i \in DOMAIN eventQueue
    BY <1>1, <1>2, <2>1, WorkerQueue, WorkerStaysAnnounced DEF PastInv
  <2>2. CASE i \notin DOMAIN eventQueue
    <3>1. t = s /\ AnnounceUser(s)
      BY <1>1, <1>2, <2>2, WorkerQueue DEF Announces
    <3>2. /\ pc[s] = "announce"
          /\ pc'[s] = "openMessages"
          /\ m_username'[s] = m_username[s]
      BY <3>1 DEF AnnounceUser, Goto, TypeOK, ThreadTypeOK
    <3>3. LoggedIn(s) /\ m_username[s] \in Users
      BY <3>2 DEF TypeOK, ThreadTypeOK, LoggedIn
    <3>4. m_username[s] # NoName
      BY <3>3, UsersAssumption DEF Users, NoName
    <3> QED BY <3>1, <3>2, <3>4 DEF Announced
  <2> QED BY <2>1, <2>2
<1>3. ASSUME NEW t \in Sessions,
             NEW i \in DOMAIN eventQueue', NEW j \in DOMAIN eventQueue',
             Announces(eventQueue'[i], t), Announces(eventQueue'[j], t),
             i # j
      PROVE  FALSE
  <2>1. CASE i \in DOMAIN eventQueue /\ j \in DOMAIN eventQueue
    BY <1>1, <1>3, <2>1, WorkerQueue DEF PastInv
  <2>2. CASE i \notin DOMAIN eventQueue /\ j \notin DOMAIN eventQueue
    BY <1>1, <1>3, <2>2, WorkerQueue DEF Announces
  <2>3. ASSUME NEW k \in DOMAIN eventQueue,
               NEW l \in DOMAIN eventQueue' \ DOMAIN eventQueue,
               Announces(eventQueue'[k], t), Announces(eventQueue'[l], t)
        PROVE  FALSE
    <3>1. t = s /\ ~Announced(s)
      BY <1>1, <2>3, WorkerQueue DEF Announces
    <3>2. Announces(eventQueue[k], s)
      BY <1>1, <2>3, <3>1, WorkerQueue
    <3> QED BY <3>1, <3>2 DEF PastInv
  <2> QED BY <1>3, <2>1, <2>2, <2>3
<1>4. ASSUME NEW t \in Sessions, NEW u \in Users, m_userSocket'[u] = t
      PROVE  Settled(t)'
  BY <1>1, <1>4, WorkerSettles DEF PastInv
<1> QED BY <1>2, <1>3, <1>4 DEF PastInv, Announces

LEMMA DispatchSettles ==
    ASSUME TypeOK, PastInv, Dispatch, NEW t \in Sessions
    PROVE  Settled(t)' <=> Settled(t) \/ Announces(Head(eventQueue), t)
<1>1. Announced(t)' <=> Announced(t)
  BY DEF Dispatch, Announced
<1>2. ASSUME Settled(t)', ~Announces(Head(eventQueue), t)
      PROVE  Settled(t)
  <2>1. /\ Announced(t)
        /\ \A i \in DOMAIN eventQueue' : ~Announces(eventQueue'[i], t)
    BY <1>1, <1>2 DEF Settled, ToSet, Announces
  <2>2. ASSUME NEW i \in DOMAIN eventQueue
        PROVE  ~Announces(eventQueue[i], t)
    <3>1. CASE i = 1
      BY <1>2, <3>1, Shifted
    <3>2. CASE i # 1
      <4>1. i \in Nat \ {0}
        BY <2>2 DEF TypeOK, QtTypeOK
      <4>2. i > 1
        BY <3>2, <4>1
      <4> QED BY <2>1, <4>2, Shifted
    <3> QED BY <3>1, <3>2
  <2> QED BY <2>1, <2>2, SettledIndex DEF Announces
<1>3. ASSUME Settled(t)
      PROVE  Settled(t)'
  <2>1. \A i \in DOMAIN eventQueue : ~Announces(eventQueue[i], t)
    BY <1>3, SettledIndex DEF Announces
  <2>2. \A i \in DOMAIN eventQueue' : ~Announces(eventQueue'[i], t)
    BY <2>1, Shifted
  <2> QED BY <1>1, <1>3, <2>2 DEF Settled, ToSet, Announces
<1>4. ASSUME Announces(Head(eventQueue), t)
      PROVE  Settled(t)'
  <2>1. 1 \in DOMAIN eventQueue /\ Announces(eventQueue[1], t)
    BY <1>4, Shifted
  <2>2. ASSUME NEW i \in DOMAIN eventQueue', Announces(eventQueue'[i], t)
        PROVE  FALSE
    <3>1. i + 1 = 1
      BY <2>1, <2>2, Shifted DEF PastInv
    <3> QED BY <2>2, <3>1, Shifted DEF Dispatch, TypeOK, QtTypeOK
  <2> QED BY <1>1, <2>1, <2>2 DEF Settled, ToSet, Announces, PastInv
<1> QED BY <1>2, <1>3, <1>4

LEMMA DispatchPast ==
    ASSUME TypeOK, PastInv, Dispatch
    PROVE  PastInv'
<1>1. \A t \in Sessions : Announced(t)' <=> Announced(t)
  BY DEF Dispatch, Announced
<1>2. ASSUME NEW t \in Sessions, NEW i \in DOMAIN eventQueue',
             Announces(eventQueue'[i], t)
      PROVE  Announced(t)'
  BY <1>1, <1>2, Shifted DEF PastInv
<1>3. ASSUME NEW t \in Sessions,
             NEW i \in DOMAIN eventQueue', NEW j \in DOMAIN eventQueue',
             Announces(eventQueue'[i], t), Announces(eventQueue'[j], t)
      PROVE  i = j
  <2>1. i + 1 = j + 1
    BY <1>3, Shifted DEF PastInv
  <2>2. i \in Nat /\ j \in Nat
    BY <1>3, Shifted
  <2> QED BY <2>1, <2>2
<1>4. ASSUME NEW t \in Sessions, NEW u \in Users, m_userSocket'[u] = t
      PROVE  Settled(t)'
  <2> DEFINE e == Head(eventQueue)
  <2>1. m_userSocket[u] = t \/ Announces(e, t)
    BY <1>4, DispatchMap, NoSocketAssumption DEF Announces, TypeOK
  <2> QED BY <2>1, DispatchSettles DEF PastInv
<1> QED BY <1>2, <1>3, <1>4 DEF PastInv, Announces

LEMMA OthersPast ==
    ASSUME PastInv, UNCHANGED <<eventQueue, m_userSocket>>,
           \A t \in Sessions : Announced(t)' <=> Announced(t)
    PROVE  /\ PastInv'
           /\ \A t \in Sessions : Settled(t)' <=> Settled(t)
<1>1. \A t \in Sessions : Settled(t)' <=> Settled(t)
  BY DEF Settled
<1> QED BY <1>1 DEF PastInv, Announces

LEMMA OthersSettle ==
    ASSUME TypeOK,
           \/ WriteBlocks
           \/ \E s \in Sessions : NewUser(s) \/ TakeBlocks(s) \/ ClientStep(s)
           \/ UNCHANGED vars
    PROVE  /\ UNCHANGED <<eventQueue, m_userSocket>>
           /\ \A t \in Sessions : Announced(t)' <=> Announced(t)
<1>1. CASE \/ WriteBlocks
           \/ \E s \in Sessions : TakeBlocks(s) \/ SendRequest(s)
                                   \/ AckMessages(s) \/ CloseClient(s)
           \/ UNCHANGED vars
  BY <1>1 DEF WriteBlocks, TakeBlocks, SendRequest, AckMessages, CloseClient,
              vars, mainVars, threadVars, Announced
<1>2. CASE \E s \in Sessions : NewUser(s) \/ Connect(s)
  BY <1>2 DEF NewUser, Connect, Goto, mainVars, Announced, TypeOK,
              ThreadTypeOK
<1> QED BY <1>1, <1>2 DEF ClientStep

LEMMA NextPast ==
    ASSUME TypeOK, IdentityInv, PastInv, [Next]_vars
    PROVE  PastInv'
BY WorkerPast, DispatchPast, OthersPast, OthersSettle
   DEF Next, Main, MainStep

LEMMA InitPast ==
    ASSUME Init
    PROVE  PastInv
BY NoSocketAssumption DEF Init, QtInit, EchoInit, PastInv

-----------------------------------------------------------------------------
\* The steps of GroupBroadcast.

\* A step that at most takes one session from the members.
LEMMA GroupLeave ==
    ASSUME NEW s \in Sessions,
           Members \ {s} \subseteq Members', Members' \subseteq Members,
           \A t \in Sessions : Settled(t)' <=> Settled(t),
           UNCHANGED <<Published, Delivered>>
    PROVE  [Group!Next]_Group!vars
<1>1. {t \in Sessions : Settled(t)}' = {t \in Sessions : Settled(t)}
  OBVIOUS
<1>2. CASE Members' = Members
  BY <1>1, <1>2 DEF Group!vars
<1>3. CASE s \in Members /\ Members' = Members \ {s}
  <2>1. Group!Leave(s)
    BY <1>1, <1>3 DEF Group!Leave
  <2> QED BY <2>1 DEF Group!Next
<1> QED BY <1>2, <1>3

LEMMA GroupStutter ==
    ASSUME Members' = Members,
           \A t \in Sessions : Settled(t)' <=> Settled(t),
           UNCHANGED <<Published, Delivered>>
    PROVE  UNCHANGED Group!vars
<1>1. {t \in Sessions : Settled(t)}' = {t \in Sessions : Settled(t)}
  OBVIOUS
<1> QED BY <1>1 DEF Group!vars

\* Answers to one client are no broadcasts.
LEMMA WorkerDelivers ==
    ASSUME TypeOK, NEW s \in Sessions, ThreadStep(s)
    PROVE  UNCHANGED Delivered
<1>1. ASSUME NEW t \in Sessions
      PROVE  BroadcastsAmong(tx'[t]) = BroadcastsAmong(tx[t])
  <2>1. ASSUME NEW b \in Answers, tx'[t] = Append(tx[t], b)
        PROVE  BroadcastsAmong(tx'[t]) = BroadcastsAmong(tx[t])
    <3>1. b \in Blocks /\ ~IsBroadcast(b)
      BY DEF Blocks, Answers, IsBroadcast
    <3>2. tx[t] \in Seq(Blocks)
      BY DEF TypeOK, QtTypeOK
    <3> QED BY <2>1, <3>1, <3>2, AmongAppend
  <2> QED BY <2>1, WorkerWrites
<1> QED BY <1>1 DEF Delivered

LEMMA WorkerSocket ==
    ASSUME TypeOK, NEW s \in Sessions, ThreadStep(s), NEW t \in Sessions
    PROVE  /\ t # s => sock'[t] = sock[t]
           /\ sock'[t] => sock[t] \/ pc[t] = "run"
<1>1. ASSUME NEW b, WriteBlock(s, b)
      PROVE  sock' = sock \/ sock' = [sock EXCEPT ![s] = FALSE]
  BY <1>1 DEF WriteBlock, LoseConnection
<1>2. \/ sock' = sock
      \/ sock' = [sock EXCEPT ![s] = FALSE]
      \/ pc[s] = "run" /\ sock' = [sock EXCEPT ![s] = TRUE]
  BY <1>1 DEF ThreadStep, SetSocketDescriptor, RejectCertificate, DenyLogin,
              AcceptLogin, AnnounceUser, OpenMessages, FetchMessage,
              SendMessages, TakeAck, MissAck, FindClosed, LoseConnection,
              ReadRole, FetchUser, SendUsers, InitModerator, ReceiveRequests,
              LeaveMainCycle, CheckRole, EmitRequest, EndRequests, Goto,
              socketVars
<1> QED BY <1>2 DEF TypeOK, QtTypeOK

LEMMA WorkerRefines ==
    ASSUME TypeOK, IdentityInv, PastInv, NEW s \in Sessions, Worker(s)
    PROVE  [Group!Next]_Group!vars
<1>1. ThreadStep(s) /\ UNCHANGED <<m_userSocket, outgoing, log>>
  BY DEF Worker, mainVars
<1>2. Members' \subseteq Members
  <2> SUFFICES ASSUME NEW t \in Sessions, sock'[t],
                      NEW u \in Users, m_userSocket[u] = t
               PROVE  t \in Members
    BY <1>1 DEF Members
  <2>1. pc[t] # "run"
    BY DEF PastInv, Settled, Announced
  <2> QED BY <1>1, <2>1, WorkerSocket DEF Members
<1>3. Members \ {s} \subseteq Members'
  BY <1>1, WorkerSocket DEF Members
<1>4. UNCHANGED <<Published, Delivered>>
  BY <1>1, WorkerDelivers DEF Published
<1> QED BY <1>1, <1>2, <1>3, <1>4, WorkerSettles, GroupLeave

LEMMA DispatchPublishes ==
    ASSUME TypeOK, Dispatch
    PROVE  UNCHANGED <<Published, Delivered>>
<1>1. outgoing = <<>> /\ UNCHANGED tx
  BY DEF Dispatch
<1>2. CASE UNCHANGED <<outgoing, log>>
  BY <1>1, <1>2 DEF Published, Delivered
<1>3. ASSUME NEW block \in Blocks, LogEntry(Head(eventQueue), block)
      PROVE  UNCHANGED <<Published, Delivered>>
  <2>1. PICK to : Tell(Head(eventQueue), block, to)
    BY <1>3 DEF LogEntry
  <2> DEFINE entry == [event |-> Head(eventQueue), block |-> block]
  <2>2. log' = Append(log, entry) /\ Len(outgoing') = 1 /\ Len(outgoing) = 0
    BY <1>1, <2>1 DEF Tell
  <2> HIDE DEF entry
  <2>3. /\ Len(log) \in Nat
        /\ Len(log') = Len(log) + 1
        /\ \A i \in 1 .. Len(log) : log'[i] = log[i]
    BY <2>2 DEF TypeOK, QtTypeOK
  <2>4. 1 .. Len(log') - Len(outgoing') = 1 .. Len(log) - Len(outgoing)
    BY <2>2, <2>3
  <2>5. [i \in 1 .. Len(log') - Len(outgoing') |-> log'[i].block] =
            [i \in 1 .. Len(log) - Len(outgoing) |-> log[i].block]
    BY <2>2, <2>3, <2>4
  <2> QED BY <1>1, <2>5 DEF Published, Delivered
<1> QED BY <1>1, <1>2, <1>3, DispatchOutgoing

\* The main thread takes the announcement of a session from the queue: the
\* session joins, if it is still connected and its name is free.
LEMMA NewUserRefines ==
    ASSUME TypeOK, PastInv, Dispatch,
           Head(eventQueue).signal = "connectedUser"
    PROVE  Group!Next
<1> DEFINE e == Head(eventQueue)
           s == e.sess
<1>1. addNewUserToMap(e)
  BY DEF Dispatch, addNewUserToMap, removeUserFromMap,
         userAuthenticationFailed, disconnectedUser, sendMessage,
         deleteMessage, modifyMessage, changeUserRole, getUserPasswordHalf,
         failToWrite
<1>2. s \in Sessions /\ e.name \in Users /\ Announces(e, s)
  BY HeadTailProperties, EventFields
     DEF Dispatch, TypeOK, QtTypeOK, Announces
<1>3. ~Settled(s)
  BY <1>2, Shifted, SettledIndex DEF Announces
<1>4. {t \in Sessions : Settled(t)}' = {t \in Sessions : Settled(t)} \cup {s}
  <2>1. \A t \in Sessions : Announces(e, t) <=> t = s
    BY <1>2 DEF Announces
  <2> QED BY <1>2, <2>1, DispatchSettles
<1>5. UNCHANGED <<Published, Delivered>>
  BY DispatchPublishes
<1>6. \A u \in Users : m_userSocket[u] # s
  BY <1>2, <1>3 DEF PastInv
<1>7. CASE m_userSocket[e.name] = NoSocket
  <2>1. /\ m_userSocket' = [m_userSocket EXCEPT ![e.name] = s]
        /\ UNCHANGED sock
    BY <1>1, <1>7 DEF addNewUserToMap
  <2>2. m_userSocket'[e.name] = s
    BY <1>2, <2>1 DEF TypeOK
  <2>3. \A u \in Users \ {e.name} : m_userSocket'[u] = m_userSocket[u]
    BY <2>1 DEF TypeOK
  <2> HIDE DEF e, s
  <2>4. ASSUME NEW t \in Sessions, t # s
        PROVE  (\E u \in Users : m_userSocket'[u] = t) <=>
                   \E u \in Users : m_userSocket[u] = t
    BY <1>2, <1>7, <2>2, <2>3, <2>4, NoSocketAssumption
  <2>5. \A t \in Sessions : t # s => (t \in Members' <=> t \in Members)
    BY <2>1, <2>4 DEF Members
  <2>6. s \notin Members /\ (s \in Members' <=> sock[s])
    BY <1>2, <1>6, <2>1, <2>2 DEF Members
  <2>7. Members \subseteq Sessions /\ Members' \subseteq Sessions
    BY DEF Members
  <2>8. CASE sock[s]
    <3>1. Members' = Members \cup {s}
      BY <1>2, <2>5, <2>6, <2>7, <2>8
    <3>2. Group!Join(s)
      BY <1>3, <1>4, <1>5, <3>1 DEF Group!Join
    <3> QED BY <1>2, <3>2 DEF Group!Next
  <2>9. CASE ~sock[s]
    <3>1. Members' = Members
      BY <1>2, <2>5, <2>6, <2>7, <2>9
    <3>2. Group!Refuse(s)
      BY <1>3, <1>4, <1>5, <3>1 DEF Group!Refuse
    <3> QED BY <1>2, <3>2 DEF Group!Next
  <2> QED BY <2>8, <2>9
<1>8. CASE m_userSocket[e.name] # NoSocket
  <2>1. /\ sock' = [t \in Sessions |-> sock[t] /\ t \notin {s}]
        /\ UNCHANGED m_userSocket
    BY <1>1, <1>8 DEF addNewUserToMap, DisconnectUsers
  <2>2. Members' = Members
    BY <1>6, <2>1 DEF Members
  <2>3. Group!Refuse(s)
    BY <1>3, <1>4, <1>5, <2>2 DEF Group!Refuse
  <2> QED BY <1>2, <2>3 DEF Group!Next
<1> QED BY <1>7, <1>8

\* Any other slot takes at most one session from the members.
LEMMA SlotRefines ==
    ASSUME TypeOK, PastInv, Dispatch,
           Head(eventQueue).signal # "connectedUser"
    PROVE  [Group!Next]_Group!vars
<1> DEFINE e == Head(eventQueue)
<1>1. e \in Events
  BY HeadTailProperties DEF Dispatch, TypeOK, QtTypeOK
<1>2. \A t \in Sessions : Settled(t)' <=> Settled(t)
  BY DispatchSettles DEF Announces
<1>3. UNCHANGED <<Published, Delivered>>
  BY DispatchPublishes
<1>4. CASE UNCHANGED <<sock, m_userSocket>>
  <2>1. Members' = Members
    BY <1>4 DEF Members
  <2> QED BY <1>2, <1>3, <2>1, GroupStutter
<1>5. CASE removeUserFromMap(e)
  <2>1. /\ UNCHANGED sock
        /\ m_userSocket' = [m_userSocket EXCEPT ![e.name] = NoSocket]
        /\ e.name \in Users
    BY <1>1, <1>5, EventFields DEF removeUserFromMap
  <2> DEFINE s == m_userSocket[e.name]
  <2> HIDE DEF e
  <2>2. Members' \subseteq Members
    BY <2>1, NoSocketAssumption DEF Members, TypeOK
  <2>3. Members \ {s} \subseteq Members'
    BY <2>1, NoSocketAssumption DEF Members, TypeOK
  <2>4. CASE s \in Sessions
    BY <1>2, <1>3, <2>2, <2>3, <2>4, GroupLeave
  <2>5. CASE s \notin Sessions
    <3>1. Members' = Members
      BY <2>2, <2>3, <2>5 DEF Members
    <3> QED BY <1>2, <1>3, <3>1, GroupStutter
  <2> QED BY <2>4, <2>5
<1>6. CASE disconnectedUser(e)
  <2>1. /\ sock' = [t \in Sessions |-> sock[t] /\ t \notin {e.sess}]
        /\ UNCHANGED m_userSocket
        /\ e.sess \in Sessions
    BY <1>1, <1>6, EventFields DEF disconnectedUser, DisconnectUsers
  <2>2. Members' \subseteq Members /\ Members \ {e.sess} \subseteq Members'
    BY <2>1 DEF Members
  <2> QED BY <1>2, <1>3, <2>1, <2>2, GroupLeave
<1> QED
  BY <1>4, <1>5, <1>6
     DEF Dispatch, addNewUserToMap, userAuthenticationFailed, sendMessage,
         deleteMessage, modifyMessage, changeUserRole, getUserPasswordHalf,
         failToWrite, Tell

-----------------------------------------------------------------------------
\* WriteBlocks publishes the pending block.

LEMMA BlocksOfLog ==
    ASSUME TypeOK, log # <<>>
    PROVE  LET n == Len(log)
               before == [i \in 1 .. n - 1 |-> log[i].block]
           IN  /\ before \in Seq(Blocks)
               /\ log[n].block \in Blocks
               /\ [i \in 1 .. n |-> log[i].block] =
                      Append(before, log[n].block)
<1> DEFINE n == Len(log)
           before == [i \in 1 .. n - 1 |-> log[i].block]
<1>1. n \in Nat \ {0} /\ \A i \in 1 .. n : log[i].block \in Blocks
  <2>1. log \in Seq([event : Events, block : Blocks])
    BY DEF TypeOK, QtTypeOK
  <2>2. /\ n \in Nat \ {0}
        /\ \A i \in 1 .. n : log[i] \in [event : Events, block : Blocks]
    BY <2>1, EmptySeq, LenProperties, ElementOfSeq
  <2> QED BY <2>2
<1> HIDE DEF n
<1>2. before \in Seq(Blocks) /\ Len(before) = n - 1
  <2>1. n - 1 \in Nat /\ \A i \in 1 .. n - 1 : log[i].block \in Blocks
    BY <1>1
  <2> QED BY <2>1
<1>3. log[n].block \in Blocks
  BY <1>1
<1> DEFINE longer == Append(before, log[n].block)
           all == [i \in 1 .. n |-> log[i].block]
<1>4. /\ longer \in Seq(Blocks)
      /\ Len(longer) = n
      /\ \A i \in 1 .. n - 1 : longer[i] = before[i]
      /\ longer[n] = log[n].block
  <2> HIDE DEF before
  <2> QED BY <1>1, <1>2, <1>3, AppendProperties
<1>5. DOMAIN longer = 1 .. n
  <2> HIDE DEF longer
  <2> QED BY <1>4, LenProperties
<1>6. \A i \in 1 .. n : longer[i] = all[i]
  <2> SUFFICES ASSUME NEW i \in 1 .. n PROVE longer[i] = all[i]
    OBVIOUS
  <2>1. i = n \/ i \in 1 .. n - 1
    BY <1>1
  <2>2. i \in 1 .. n - 1 => before[i] = log[i].block
    OBVIOUS
  <2> HIDE DEF longer, before
  <2> QED BY <1>4, <2>1, <2>2
<1>7. longer = all
  <2>1. longer = [i \in 1 .. n |-> longer[i]]
    <3> HIDE DEF longer
    <3> QED BY <1>4, <1>5
  <2> HIDE DEF longer
  <2> QED BY <1>6, <2>1
<1> QED BY <1>2, <1>3, <1>7 DEF n

LEMMA WriteBlocksPublishes ==
    ASSUME TypeOK, PendingInv, WriteBlocks
    PROVE  LET block == Head(outgoing).block
           IN  /\ block \in Broadcasts \cup RoleChanges
               /\ Published' = IF IsBroadcast(block)
                                  THEN Append(Published, block)
                                  ELSE Published
<1> DEFINE n == Len(log)
           block == Head(outgoing).block
           before == [i \in 1 .. n - 1 |-> log[i].block]
<1>1. /\ outgoing # <<>> /\ outgoing' = <<>> /\ log' = log
      /\ log # <<>> /\ block = log[n].block
  BY DEF WriteBlocks, PendingInv
<1>2. n \in Nat \ {0} /\ n \in DOMAIN log
  BY <1>1, EmptySeq, LenProperties DEF TypeOK, QtTypeOK
<1>3. Len(outgoing) = 1
  <2>1. outgoing \in Seq([block : Blocks, to : SUBSET Users])
    BY DEF TypeOK
  <2>2. Len(outgoing) \in Nat /\ Len(outgoing) # 0
    BY <1>1, <2>1, EmptySeq, LenProperties
  <2>3. Len(outgoing) <= 1
    BY DEF PendingInv
  <2>4. \A k \in Nat : k # 0 /\ k <= 1 => k = 1
    OBVIOUS
  <2> QED BY <2>2, <2>3, <2>4
<1>4. block \in Broadcasts \cup RoleChanges
  BY <1>1, <1>2 DEF PendingInv
<1>5. /\ before \in Seq(Blocks)
      /\ block \in Blocks
      /\ [i \in 1 .. n |-> log[i].block] = Append(before, block)
  BY <1>1, BlocksOfLog
<1>6. Published = BroadcastsAmong(before)
  BY <1>3 DEF Published
<1>7. Published' = BroadcastsAmong([i \in 1 .. n |-> log[i].block])
  <2>1. Len(<<>>) = 0 /\ n - 0 = n
    BY <1>2
  <2> QED BY <1>1, <2>1 DEF Published
<1> HIDE DEF n, before, block
<1>8. BroadcastsAmong(Append(before, block)) =
          IF IsBroadcast(block) THEN Append(BroadcastsAmong(before), block)
                                ELSE BroadcastsAmong(before)
  BY <1>5, AmongAppend
<1> QED BY <1>4, <1>5, <1>6, <1>7, <1>8 DEF block

LEMMA WriteBlocksRefines ==
    ASSUME TypeOK, PendingInv, PastInv, WriteBlocks
    PROVE  [Group!Next]_Group!vars
<1> DEFINE o == Head(outgoing)
           block == o.block
<1>1. PICK failed \in SUBSET {s \in Reached(o.to) : peerClosed[s]} :
          /\ tx' = [s \in Sessions |->
                       IF s \in Reached(o.to) \ failed
                          THEN Append(tx[s], o.block) ELSE tx[s]]
          /\ sock' = [s \in Sessions |-> sock[s] /\ s \notin failed]
  BY DEF WriteBlocks
<1>2. UNCHANGED m_userSocket /\ outgoing # <<>>
  BY DEF WriteBlocks
<1>3. \A t \in Sessions : Settled(t)' <=> Settled(t)
  BY OthersPast, OthersSettle
<1>4. Members' = Members \ failed
  BY <1>1, <1>2 DEF Members
<1>5. /\ block \in Broadcasts \cup RoleChanges
      /\ Published' = IF IsBroadcast(block) THEN Append(Published, block)
                                            ELSE Published
  BY WriteBlocksPublishes
<1>6. block \in Blocks
  BY <1>5 DEF Blocks
<1>7. \A s \in Sessions :
          Delivered'[s] =
              IF s \in Reached(o.to) \ failed /\ IsBroadcast(block)
                 THEN Append(Delivered[s], block) ELSE Delivered[s]
  <2> SUFFICES ASSUME NEW s \in Sessions
               PROVE  BroadcastsAmong(tx'[s]) =
                          IF s \in Reached(o.to) \ failed /\ IsBroadcast(block)
                             THEN Append(BroadcastsAmong(tx[s]), block)
                             ELSE BroadcastsAmong(tx[s])
    BY DEF Delivered
  <2>1. tx[s] \in Seq(Blocks)
    BY DEF TypeOK, QtTypeOK
  <2>2. tx'[s] = IF s \in Reached(o.to) \ failed THEN Append(tx[s], block)
                                                 ELSE tx[s]
    BY <1>1
  <2> HIDE DEF block, o
  <2> QED BY <1>6, <2>1, <2>2, AmongAppend, ZenonT(30)
<1>8. Delivered' = [s \in Sessions |-> Delivered'[s]]
  BY DEF Delivered
<1>9. CASE IsBroadcast(block)
  <2>1. o.to = Users
    BY <1>2, <1>9 DEF PendingInv
  <2>2. Reached(o.to) = Members
    BY <2>1 DEF Reached, Members
  <2>3. block \in Broadcasts
    BY <1>5, <1>9 DEF IsBroadcast, RoleChanges
  <2>4. failed \in SUBSET Members
    BY <2>2
  <2> HIDE DEF block, o
  <2>5. Delivered' = [s \in Sessions |-> IF s \in Members \ failed
                                            THEN Append(Delivered[s], block)
                                            ELSE Delivered[s]]
    BY <1>7, <1>8, <1>9, <2>2
  <2>6. Group!Publish(block, failed)
    BY <1>3, <1>4, <1>5, <1>9, <2>5 DEF Group!Publish
  <2> QED BY <2>3, <2>4, <2>6 DEF Group!Next
<1>10. CASE ~IsBroadcast(block)
  <2>1. PICK u \in Users : o.to = {u}
    BY <1>2, <1>10 DEF PendingInv
  <2>2. failed \subseteq {m_userSocket[u]} /\ failed \subseteq Sessions
    BY <2>1 DEF Reached
  <2>3. Delivered' = Delivered
    BY <1>7, <1>8, <1>10 DEF Delivered
  <2>4. Published' = Published
    BY <1>5, <1>10
  <2>5. CASE failed = {}
    BY <1>3, <1>4, <2>3, <2>4, <2>5, GroupStutter
  <2>6. CASE failed # {}
    <3>1. m_userSocket[u] \in Sessions /\ failed = {m_userSocket[u]}
      BY <2>2, <2>6
    <3> QED BY <1>3, <1>4, <2>3, <2>4, <3>1, GroupLeave
  <2> QED BY <2>5, <2>6
<1> QED BY <1>9, <1>10

LEMMA OthersRefine ==
    ASSUME TypeOK, PastInv,
           \/ \E s \in Sessions : NewUser(s) \/ TakeBlocks(s) \/ ClientStep(s)
           \/ UNCHANGED vars
    PROVE  UNCHANGED Group!vars
<1>1. \A t \in Sessions : Settled(t)' <=> Settled(t)
  BY OthersPast, OthersSettle
<1>2. UNCHANGED <<sock, tx, outgoing, log, m_userSocket>>
  BY DEF NewUser, TakeBlocks, ClientStep, Connect, SendRequest, AckMessages,
         CloseClient, vars, socketVars, mainVars
<1>3. Members' = Members
  BY <1>2 DEF Members
<1>4. UNCHANGED <<Published, Delivered>>
  BY <1>2 DEF Published, Delivered
<1> QED BY <1>1, <1>3, <1>4, GroupStutter

LEMMA InitRefines ==
    ASSUME Init
    PROVE  Group!Init
<1>1. /\ \A s \in Sessions : ~sock[s] /\ pc[s] = "idle" /\ tx[s] = <<>>
      /\ log = <<>> /\ outgoing = <<>>
  BY DEF Init, QtInit, ThreadInit, EchoInit
<1>2. Members = {} /\ {s \in Sessions : Settled(s)} = {}
  BY <1>1 DEF Members, Settled, Announced
<1>3. [i \in 1 .. Len(log) - Len(outgoing) |-> log[i].block] = <<>>
  BY <1>1
<1>4. Published = <<>> /\ Delivered = [s \in Sessions |-> <<>>]
  BY <1>1, <1>3, AmongNone DEF Published, Delivered
<1> QED BY <1>2, <1>4 DEF Group!Init

\* The server implements GroupBroadcast, whatever the clients do and whatever
\* fails: every step joins, refuses or loses one session, publishes a block to
\* all members but those whose socket has failed, or changes nothing of that
\* (echoserver.cpp:140-251, 279-297).
THEOREM Refinement == Spec => ImplementsGroupBroadcast
<1> DEFINE IInv == TypeOK /\ IdentityInv /\ PendingInv /\ PastInv
<1>1. Init => IInv
  BY InitType, InitIdentity, InitPending, InitPast
<1>2. IInv /\ [Next]_vars => IInv'
  BY NextType, NextIdentity, PendingStep, NextPast
<1>3. IInv /\ [Next]_vars => [Group!Next]_Group!vars
  <2> SUFFICES ASSUME IInv, [Next]_vars
               PROVE  [Group!Next]_Group!vars
    OBVIOUS
  <2>1. CASE Dispatch
    BY <2>1, NewUserRefines, SlotRefines
  <2>2. CASE WriteBlocks
    BY <2>2, WriteBlocksRefines
  <2>3. CASE \E s \in Sessions : Worker(s)
    BY <2>3, WorkerRefines
  <2>4. CASE \/ \E s \in Sessions :
                    NewUser(s) \/ TakeBlocks(s) \/ ClientStep(s)
             \/ UNCHANGED vars
    BY <2>4, OthersRefine
  <2> QED BY <2>1, <2>2, <2>3, <2>4 DEF Next, Main, MainStep
<1> QED BY <1>1, <1>2, <1>3, InitRefines, PTL
        DEF Spec, ImplementsGroupBroadcast, Group!Spec
=============================================================================
