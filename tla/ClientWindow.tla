---------------------------- MODULE ClientWindow ----------------------------
(***************************************************************************)
(* EchoClient's message tab after login: the table of messages, the map    *)
(* from message ids to row numbers, the delete and modify buttons, the     *)
(* administrator's tab with its two lists of members, and the slot         *)
(* readServerResponse() that the socket's readyRead() runs.                *)
(*                                                                         *)
(* The server is reduced to what concerns one session.  Its worker has     *)
(* announced it, reads the message list row by row, sends it and then what *)
(* the user's role calls for.  The main thread puts the session into       *)
(* m_userSocket at some time, may remove it again, and changes the table,  *)
(* for this and for other users, telling the session if it is in the map.  *)
(* So changes come before, while and after the list is read, and may be    *)
(* told before it, twice or not at all.                                    *)
(*                                                                         *)
(* The window is one thread.  A dialog runs an event loop of its own, so   *)
(* blocks are read while it is open, but its user cannot use the window.   *)
(* A box that a block opens within the slot holds up the blocks behind it. *)
(***************************************************************************)
EXTENDS Protocol, SequencesExt

CONSTANTS
    InitRows,      \* the server's table when the session is announced
    Members,       \* the rows of table users
    Authors,       \* users who write messages
    MaxPublished,  \* bound: changes and blocks of the main thread
    MaxBlocks      \* bound: these and the requests of the user together

ASSUME RowsAssumption ==
    /\ InitRows \in Seq(MessageRows)
    /\ \A i \in DOMAIN InitRows : InitRows[i].id = i

ASSUME MembersAssumption ==
    /\ Members \in Seq(UserRows)
    /\ \A i \in DOMAIN Members : Members[i].name = i

ASSUME AuthorsAssumption == Authors \subseteq Users
ASSUME BoundsAssumption == MaxPublished \in Nat /\ MaxBlocks \in Nat

VARIABLES
    store,              \* table messages: message_id |-> name and text
    lastId,             \* largest message_id given
    published,          \* changes and blocks of the main thread so far
    membership,         \* connectedUser() "queued", session "in" map, or "out"
    stage,              \* the worker is "reading" the list, has "read" it or
                        \* "sent" it, or is past the role, "serving"
    fetched,            \* rows its query has given
    outgoing,           \* <<>>, or the block of a slot that is yet to write it
    astray,             \* history: something the window cannot make good
    network,            \* blocks sent and not arrived
    buffer,             \* blocks arrived in the socket and not read
    connected,          \* readyRead() is connected to readServerResponse()
    slot,               \* readServerResponse() is not running ("idle"), at a
                        \* block ("reading"), or behind a "box"; or it has
                        \* "ended" the program
    m_messages,         \* rows of the table, row r at r + 1
    m_messageIdRowNum,  \* message_id |-> row number
    moderatorMode,      \* the two buttons are visible
    m_userList,         \* names on the administrator's tab
    m_moderatorList,
    modifying,          \* <<>>, or the message the open dialog is for
    requests            \* blocks written to the server

workerVars == <<stage, fetched>>
mainVars == <<store, lastId, published, membership, outgoing>>
serverVars == <<mainVars, workerVars, astray>>
socketVars == <<network, buffer, connected, slot>>
tableVars == <<m_messages, m_messageIdRowNum, moderatorMode>>
adminVars == <<m_userList, m_moderatorList>>
userVars == <<modifying, requests>>
windowVars == <<buffer, connected, slot, tableVars, adminVars, userVars>>
vars == <<serverVars, socketVars, tableVars, adminVars, userVars>>

Init ==
    /\ store = [id \in DOMAIN InitRows |->
                   [name |-> InitRows[id].name, text |-> InitRows[id].text]]
    /\ lastId = Len(InitRows)
    /\ published = 0
    /\ membership = "queued"
    /\ stage = "reading"
    /\ fetched = <<>>
    /\ outgoing = <<>>
    /\ astray = FALSE
    /\ network = <<>>
    /\ buffer = <<>>
    /\ connected = FALSE
    /\ slot = "idle"
    /\ m_messages = <<>>
    /\ m_messageIdRowNum = <<>>
    /\ moderatorMode = FALSE
    /\ m_userList = <<>>
    /\ m_moderatorList = <<>>
    /\ modifying = <<>>
    /\ requests = <<>>

-----------------------------------------------------------------------------
\* The session's worker.

ListSent == stage \in {"sent", "serving"}

\* The query stands before the row of this id, or has not been executed.
ToBeRead(id) ==
    stage = "reading" /\ \A i \in DOMAIN fetched : fetched[i].id < id

ReadRow ==
    /\ stage = "reading"
    /\ \E id \in DOMAIN store :
           /\ ToBeRead(id)
           /\ \A other \in DOMAIN store : ToBeRead(other) => id <= other
           /\ fetched' = Append(fetched, [id |-> id, name |-> store[id].name,
                                          text |-> store[id].text])
    /\ UNCHANGED <<mainVars, stage, astray, network, windowVars>>

\* next() has returned false.
EndRows ==
    /\ stage = "reading"
    /\ \A id \in DOMAIN store : ~ToBeRead(id)
    /\ stage' = "read"
    /\ UNCHANGED <<mainVars, fetched, astray, network, windowVars>>

SendList ==
    /\ stage = "read"
    /\ stage' = "sent"
    /\ fetched' = <<>>
    /\ network' =
           Append(network, [ind |-> "SEND_INIT_MESSAGES", rows |-> fetched])
    /\ UNCHANGED <<mainVars, astray, windowVars>>

\* The query is not active: no list is sent.
FailList ==
    /\ stage = "reading"
    /\ fetched = <<>>
    /\ stage' = "sent"
    /\ astray' = TRUE
    /\ UNCHANGED <<mainVars, fetched, network, windowVars>>

\* authorize() finds an administrator, a moderator or neither.
SendRole ==
    /\ stage = "sent"
    /\ stage' = "serving"
    /\ \/ network' = Append(network, [ind |-> "USER_MODERATOR_LIST",
                                      rows |-> Members])
       \/ network' = Append(network, [ind |-> "INIT_MODERATOR"])
       \/ UNCHANGED network
    /\ UNCHANGED <<mainVars, fetched, astray, windowVars>>

-----------------------------------------------------------------------------
\* The main thread.

\* addNewUserToMap().
EnterMap ==
    /\ outgoing = <<>>
    /\ membership = "queued"
    /\ membership' = "in"
    /\ UNCHANGED <<store, lastId, published, outgoing, workerVars, astray,
                   network, windowVars>>

\* removeUserFromMap(), by name: for another login of this user.
LeaveMap ==
    /\ outgoing = <<>>
    /\ membership = "in"
    /\ membership' = "out"
    /\ UNCHANGED <<store, lastId, published, outgoing, workerVars, astray,
                   network, windowVars>>

Publish ==
    /\ outgoing = <<>>
    /\ published < MaxPublished
    /\ published + Len(requests) < MaxBlocks
    /\ published' = published + 1
    /\ UNCHANGED <<membership, workerVars, windowVars>>

\* What a slot does after its query.  The worker may go on before the block
\* is written; once the list is sent this makes no difference to the window.
Tell(block) ==
    IF membership # "in" THEN UNCHANGED <<outgoing, network>>
    ELSE IF ListSent
       THEN network' = Append(network, block) /\ UNCHANGED outgoing
       ELSE outgoing' = <<block>> /\ UNCHANGED network

\* A change that neither the list nor a block tells of.
Missed(id) == membership # "in" /\ ~ToBeRead(id)

\* A change whose block may come before the list, or again after it.
Early == membership = "in" /\ ~ListSent

\* sendMessage().  Id 0 comes of a failed second query.
PublishMessage ==
    /\ Publish
    /\ lastId < MaxMessageId
    /\ lastId' = lastId + 1
    /\ \E text \in Texts, user \in Authors, id \in {lastId', 0} :
           /\ store' = [i \in DOMAIN store \cup {lastId'} |->
                           IF i = lastId' THEN [name |-> user, text |-> text]
                                          ELSE store[i]]
           /\ Tell([ind |-> "ADD_MESSAGE", id |-> id, name |-> user,
                    text |-> text])
           /\ astray' = (astray \/ Early \/ Missed(lastId') \/ id = 0)

\* deleteMessage(), also of a message that another request has deleted.
PublishDeletion ==
    /\ Publish
    /\ \E id \in 0 .. lastId :
           /\ store' = [i \in DOMAIN store \ {id} |-> store[i]]
           /\ Tell([ind |-> "DELETE_MESSAGE", id |-> id])
           /\ astray' = (\/ astray
                         \/ Early
                         \/ id \in DOMAIN store /\ Missed(id)
                         \/ id \notin DOMAIN store /\ membership = "in")
    /\ UNCHANGED lastId

\* modifyMessage(), also of a message that has been deleted.
PublishModification ==
    /\ Publish
    /\ \E id \in 0 .. lastId, text \in Texts :
           /\ store' = [i \in DOMAIN store |->
                           IF i = id THEN [store[i] EXCEPT !.text = text]
                                     ELSE store[i]]
           /\ Tell([ind |-> "MODIFY_MESSAGE", id |-> id, text |-> text])
           /\ astray' = (\/ astray
                         \/ Early
                         \/ id \in DOMAIN store /\ Missed(id))
    /\ UNCHANGED lastId

\* changeUserRole() of this user, and getUserPasswordHalf(), of any user: the
\* window does the same with each half.
PublishBlock ==
    /\ Publish
    /\ membership = "in"
    /\ \E block \in RoleChanges \cup
              [ind : {"USER_GET_PASSWORD_HALF"}, half : {NoName}] :
           network' = Append(network, block)
    /\ UNCHANGED <<store, lastId, outgoing, astray>>

WriteBlock ==
    /\ outgoing # <<>>
    /\ network' = network \o outgoing
    /\ outgoing' = <<>>
    /\ UNCHANGED <<store, lastId, published, membership, workerVars, astray,
                   windowVars>>

-----------------------------------------------------------------------------
\* readServerResponse().

\* addMessage() for each of some rows: each is appended to the table, and the
\* map gives the last row an id was appended in.
addMessages(rows) ==
    LET ids == {row.id : row \in ToSet(rows)}
        LastOf(id) == CHOOSE i \in DOMAIN rows :
                        /\ rows[i].id = id
                        /\ \A j \in DOMAIN rows : rows[j].id = id => j <= i
    IN  /\ m_messages' = m_messages \o rows
        /\ m_messageIdRowNum' =
               [id \in DOMAIN m_messageIdRowNum \cup ids |->
                    IF id \in ids THEN Len(m_messages) + LastOf(id) - 1
                                  ELSE m_messageIdRowNum[id]]

addMessage(block) ==
    addMessages(<<[id |-> block.id, name |-> block.name,
                   text |-> block.text]>>)

\* operator[] of an id the map does not have inserts row number 0.
RowNum(id) ==
    IF id \in DOMAIN m_messageIdRowNum THEN m_messageIdRowNum[id] ELSE 0

\* removeRow() of a row the table does not have does nothing.
RemoveRow(row) ==
    m_messages' = IF row < Len(m_messages) THEN RemoveAt(m_messages, row + 1)
                                           ELSE m_messages

\* Mutant of deleteMessageResponse: every row number is decremented.
deleteShiftingAll(id) ==
    /\ RemoveRow(RowNum(id))
    /\ m_messageIdRowNum' = [i \in DOMAIN m_messageIdRowNum \ {id} |->
                                 m_messageIdRowNum[i] - 1]

\* Mutant of deleteMessageResponse: the row numbers stay.
deleteWithoutShift(id) ==
    /\ RemoveRow(RowNum(id))
    /\ m_messageIdRowNum' = [i \in DOMAIN m_messageIdRowNum \ {id} |->
                                 m_messageIdRowNum[i]]

deleteMessageResponse(id) ==
    /\ RemoveRow(RowNum(id))
    /\ m_messageIdRowNum' =
           [i \in DOMAIN m_messageIdRowNum \ {id} |->
                IF m_messageIdRowNum[i] > RowNum(id)
                   THEN m_messageIdRowNum[i] - 1 ELSE m_messageIdRowNum[i]]

\* Mutant of modifyResponse: the map is not asked whether it has the id.
modifyAnyRow(id, text) ==
    /\ m_messages' = IF RowNum(id) < Len(m_messages)
                        THEN [m_messages EXCEPT ![RowNum(id) + 1].text = text]
                        ELSE m_messages
    /\ UNCHANGED <<m_messageIdRowNum, slot>>

\* item() of a row the table does not have is a null pointer.
modifyResponse(id, text) ==
    /\ IF id \in DOMAIN m_messageIdRowNum
          THEN IF RowNum(id) < Len(m_messages)
                  THEN /\ m_messages' =
                              [m_messages EXCEPT ![RowNum(id) + 1].text = text]
                       /\ UNCHANGED slot
                  ELSE slot' = "ended" /\ UNCHANGED m_messages
          ELSE UNCHANGED <<m_messages, slot>>
    /\ UNCHANGED m_messageIdRowNum

\* The event loop finds that blocks have arrived.  While the slot waits for a
\* box, readyRead() is not emitted again.
ReadyRead ==
    /\ slot \in {"idle", "box"}
    /\ \E arrived \in 1 .. Len(network) :
           /\ buffer' = buffer \o SubSeq(network, 1, arrived)
           /\ network' = SubSeq(network, arrived + 1, Len(network))
    /\ slot' = IF slot = "idle" /\ connected THEN "reading" ELSE slot
    /\ UNCHANGED <<serverVars, connected, tableVars, adminVars, userVars>>

\* dialogResult(), queued until the login dialog has closed.  It does not ask
\* whether the socket has something to read.
DialogResult ==
    /\ ~connected
    /\ connected' = TRUE
    /\ UNCHANGED <<serverVars, network, buffer, slot, tableVars, adminVars,
                   userVars>>

\* The names of the rows with a role, in the order of the rows.
NamesOf(rows, role) ==
    LET names[n \in 0 .. Len(rows)] ==
            IF n = 0 THEN <<>>
            ELSE IF rows[n].role = role
                    THEN Append(names[n - 1], rows[n].name)
                    ELSE names[n - 1]
    IN  names[Len(rows)]

\* connect_to_client_database(): the notes open, or a modal box says they did
\* not.
ConnectNotes == slot' \in {"reading", "box"}

\* One turn of the loop.
HandleBlock(block) ==
    \/ /\ block.ind = "ADD_MESSAGE"
       /\ addMessage(block)
       /\ UNCHANGED <<slot, moderatorMode, adminVars, requests>>
    \/ /\ block.ind = "SEND_INIT_MESSAGES"
       /\ addMessages(block.rows)
       /\ requests' = Append(requests, [ind |-> "GOT_MESSAGE_LIST"])
       /\ UNCHANGED <<slot, moderatorMode, adminVars>>
    \/ /\ block.ind = "DELETE_MESSAGE"
       /\ deleteMessageResponse(block.id)
       /\ UNCHANGED <<slot, moderatorMode, adminVars, requests>>
    \/ /\ block.ind = "MODIFY_MESSAGE"
       /\ modifyResponse(block.id, block.text)
       /\ UNCHANGED <<moderatorMode, adminVars, requests>>
    \/ /\ block.ind = "USER_MODERATOR_LIST"
       /\ m_moderatorList' = m_moderatorList \o NamesOf(block.rows, "m")
       /\ m_userList' = m_userList \o NamesOf(block.rows, "u")
       /\ moderatorMode' = TRUE
       /\ UNCHANGED <<slot, m_messages, m_messageIdRowNum, requests>>
    \/ /\ block.ind \in {"SET_NEW_MODERATOR", "INIT_MODERATOR"}
       /\ moderatorMode' = TRUE
       /\ UNCHANGED <<slot, m_messages, m_messageIdRowNum, adminVars,
                      requests>>
    \/ /\ block.ind = "DELETE_MODERATOR"
       /\ moderatorMode' = FALSE
       /\ UNCHANGED <<slot, m_messages, m_messageIdRowNum, adminVars,
                      requests>>
    \/ /\ block.ind = "USER_GET_PASSWORD_HALF"
       /\ ConnectNotes
       /\ UNCHANGED <<tableVars, adminVars, requests>>

ReadBlock ==
    /\ slot = "reading"
    /\ buffer # <<>>
    /\ buffer' = Tail(buffer)
    /\ HandleBlock(Head(buffer))
    /\ UNCHANGED <<serverVars, network, connected, modifying>>

EndReading ==
    /\ slot = "reading"
    /\ buffer = <<>>
    /\ slot' = "idle"
    /\ UNCHANGED <<serverVars, network, buffer, connected, tableVars,
                   adminVars, userVars>>

-----------------------------------------------------------------------------
\* The user.

\* The window is shown, runs nothing and no dialog covers it.
Usable ==
    /\ connected
    /\ slot = "idle"
    /\ modifying = <<>>

\* writeBlock() and flush().
Request(block) ==
    /\ published + Len(requests) < MaxBlocks
    /\ requests' = Append(requests, block)

sendMessage ==
    /\ Usable
    /\ \E text \in Texts : Request([ind |-> "ADD_MESSAGE", text |-> text])
    /\ UNCHANGED <<serverVars, socketVars, tableVars, adminVars, modifying>>

deleteMessageRequest ==
    /\ Usable
    /\ moderatorMode
    /\ \E curRow \in DOMAIN m_messages :
           Request([ind |-> "DELETE_MESSAGE", id |-> m_messages[curRow].id])
    /\ UNCHANGED <<serverVars, socketVars, tableVars, adminVars, modifying>>

\* modifyRequest() up to the dialog: it keeps id and text of the row, whatever
\* becomes of the row, or of the buttons, while the dialog is open.
OpenModifyDialog ==
    /\ Usable
    /\ moderatorMode
    /\ \E curRow \in DOMAIN m_messages : modifying' = <<m_messages[curRow]>>
    /\ UNCHANGED <<serverVars, socketVars, tableVars, adminVars, requests>>

AcceptModifyDialog ==
    /\ slot = "idle"
    /\ modifying # <<>>
    /\ modifying' = <<>>
    /\ LET message == Head(modifying)
       IN  \E newText \in Texts \ {message.text} :
               Request([ind |-> "MODIFY_MESSAGE", id |-> message.id,
                        text |-> newText])
    /\ UNCHANGED <<serverVars, socketVars, tableVars, adminVars>>

\* Cancel, or OK with the old text or none.
CancelModifyDialog ==
    /\ slot = "idle"
    /\ modifying # <<>>
    /\ modifying' = <<>>
    /\ UNCHANGED <<serverVars, socketVars, tableVars, adminVars, requests>>

\* Mutant of MoveItem: takeItem() of the last item.
MoveLastItem(ind, from, to, row) ==
    /\ Request([ind |-> ind, who |-> from[row]])
    /\ to' = Append(to, from[row])
    /\ from' = RemoveAt(from, Len(from))

\* The request is for the current item, which then goes to the other list.
MoveItem(ind, from, to, row) ==
    /\ Request([ind |-> ind, who |-> from[row]])
    /\ to' = Append(to, from[row])
    /\ from' = RemoveAt(from, row)

addModeratorRequest ==
    /\ Usable
    /\ \E row \in DOMAIN m_userList :
           MoveItem("SET_NEW_MODERATOR", m_userList, m_moderatorList, row)
    /\ UNCHANGED <<serverVars, socketVars, tableVars, modifying>>

deleteModeratorRequest ==
    /\ Usable
    /\ \E row \in DOMAIN m_moderatorList :
           MoveItem("DELETE_MODERATOR", m_moderatorList, m_userList, row)
    /\ UNCHANGED <<serverVars, socketVars, tableVars, modifying>>

\* Mutant of CloseBox: the slot returns, as if from the loop.
CloseBoxReturning ==
    /\ slot = "box"
    /\ slot' = "idle"
    /\ UNCHANGED <<serverVars, network, buffer, connected, tableVars,
                   adminVars, userVars>>

\* The user closes the box, and the loop goes on.
CloseBox ==
    /\ slot = "box"
    /\ slot' = "reading"
    /\ UNCHANGED <<serverVars, network, buffer, connected, tableVars,
                   adminVars, userVars>>

-----------------------------------------------------------------------------
Worker ==
    \/ ReadRow
    \/ EndRows
    \/ SendList
    \/ FailList
    \/ SendRole

Main ==
    \/ EnterMap
    \/ LeaveMap
    \/ PublishMessage
    \/ PublishDeletion
    \/ PublishModification
    \/ PublishBlock
    \/ WriteBlock

EventLoop ==
    \/ ReadyRead
    \/ DialogResult
    \/ ReadBlock
    \/ EndReading

User ==
    \/ sendMessage
    \/ deleteMessageRequest
    \/ OpenModifyDialog
    \/ AcceptModifyDialog
    \/ CancelModifyDialog
    \/ addModeratorRequest
    \/ deleteModeratorRequest
    \/ CloseBox

Next == Worker \/ Main \/ EventLoop \/ User

\* The event loop of the client; server and user do as they like.
Spec == Init /\ [][Next]_vars /\ WF_vars(EventLoop)

-----------------------------------------------------------------------------
\* Type invariant.
TypeOK ==
    /\ DOMAIN store \subseteq 1 .. lastId
    /\ store \in [DOMAIN store -> [name : Users, text : Texts]]
    /\ lastId \in MessageIds
    /\ published \in 0 .. MaxPublished
    /\ membership \in {"queued", "in", "out"}
    /\ stage \in {"reading", "read", "sent", "serving"}
    /\ fetched \in Seq(MessageRows)
    /\ outgoing \in Seq(Blocks)
    /\ astray \in BOOLEAN
    /\ network \in Seq(Blocks)
    /\ buffer \in Seq(Blocks)
    /\ connected \in BOOLEAN
    /\ slot \in {"idle", "reading", "box", "ended"}
    /\ m_messages \in Seq(MessageRows)
    /\ DOMAIN m_messageIdRowNum \subseteq MessageIds
    /\ m_messageIdRowNum \in [DOMAIN m_messageIdRowNum -> Nat]
    /\ moderatorMode \in BOOLEAN
    /\ m_userList \in Seq(Users)
    /\ m_moderatorList \in Seq(Users)
    /\ modifying \in Seq(MessageRows)
    /\ requests \in Seq(Requests)

\* Safety: the map and the table are inverse to each other after every block,
\* whatever was deleted above or below (deleteMessageResponse,
\* echoclient.cpp:414): a later deletion or modification hits the row of its
\* message.  What sets astray are the only ways to another end: the list was
\* not sent (serverthread.cpp:66), an addition came with id 0 (echoserver.cpp:
\* 192), a message was deleted again (208), a change was told before the list
\* was sent or told to nobody (serverthread.cpp:58, echoserver.cpp:140, 173).
RowMapAgrees ==
    ~astray =>
        /\ DOMAIN m_messageIdRowNum = {row.id : row \in ToSet(m_messages)}
        /\ \A i \in DOMAIN m_messages :
               m_messageIdRowNum[m_messages[i].id] = i - 1

\* Safety: a window that has been sent its list and has read everything shows
\* the server's table, in the order of the ids, but for the same causes:
\* changes made while the list was being read, before the session was in the
\* map, are in the list or come after it; blocks of modified messages that
\* are gone, of roles and of halves came in between (serverthread.cpp:58-83,
\* readServerResponse, echoclient.cpp:255).
WindowFollowsStore ==
    ~astray /\ ListSent /\ buffer \o network = <<>> =>
        /\ {<<row.id, row.name, row.text>> : row \in ToSet(m_messages)}
               = {<<id, store[id].name, store[id].text>> :
                      id \in DOMAIN store}
        /\ \A i, j \in DOMAIN m_messages :
               i < j => m_messages[i].id < m_messages[j].id

\* The role a member has once the server has handled the requests.
RoleAsked(member) ==
    LET about == {i \in DOMAIN requests :
                      /\ requests[i].ind \in {"SET_NEW_MODERATOR",
                                              "DELETE_MODERATOR"}
                      /\ requests[i].who = member.name}
    IN  IF about = {} THEN member.role
        ELSE IF requests[Max(about)].ind = "SET_NEW_MODERATOR" THEN "m"
        ELSE "u"

\* Safety: a member who is no administrator is on one of the two lists, once,
\* and on the one its role will have when the server has handled the requests
\* in the order of writing, however often the member was moved
\* (addModeratorRequest, echoclient.cpp:471).
ListsFollowRequests ==
    LET members == m_userList \o m_moderatorList
    IN  members # <<>> =>
            \A member \in ToSet(Members) :
                LET role == RoleAsked(member)
                    count == Cardinality({i \in DOMAIN members :
                                              members[i] = member.name})
                IN  /\ count = IF role = "a" THEN 0 ELSE 1
                    /\ role = "m" <=> member.name \in ToSet(m_moderatorList)

\* Liveness: unless a user leaves the box of the notes open for ever, what
\* arrives once readyRead() is connected is read, with all that was in the
\* socket before, or the program ends (echoclient.cpp:216, 266, 420, 658).
\* What arrived before the connection waits for the next block.
ArrivalsAreRead ==
    \/ <>[](slot = "box")
    \/ connected /\ network # <<>> ~>
           slot = "ended" \/ buffer \o network = <<>>
=============================================================================
