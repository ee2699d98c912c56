-------------------------- MODULE SharedDescriptor --------------------------
(***************************************************************************)
(* The connections of the server as its two kinds of threads share them.   *)
(* new_user() gives the descriptor of the main thread's QTcpSocket to the  *)
(* worker's SecureSocket: both objects take bytes from the connection, and *)
(* either closes the descriptor, whose number the next connection gets,    *)
(* while the other object may still use it.                                *)
(*                                                                         *)
(* The writers in Active send MaxBlocks blocks at most, when they will:    *)
(* what the blocks say is ChatServer's.                                    *)
(***************************************************************************)
EXTENDS SecureSocket

CONSTANTS
    Active,     \* bound: the writers that write
    MaxBlocks,  \* bound: blocks they write together
    Closers     \* bound: the sessions whose client may close its end

ASSUME SessionsAssumption == IsFiniteSet(Sessions)
ASSUME BlocksAssumption == MaxBlocks \in Nat

\* As many numbers as there are connections; the lowest free one is next.
Numbers == 1 .. Cardinality(Sessions)

VARIABLES
    fd,            \* number given to the connection when accepted, or 0
    behind,        \* the connection a number stands for now, none or one
    mainSocket,    \* the QTcpSocket of nextPendingConnection()
    workerSocket,  \* the SecureSocket of the session's ServerThread
    clientSocket,  \* the SecureSocket of the session's client
    up,            \* parts on their way from the client
    down,          \* parts on their way to the client
    disturbed      \* history: something may have cost the session a block

socketVars == <<fd, behind, mainSocket, workerSocket, clientSocket>>
vars == <<cryptVars, socketVars, up, down, disturbed>>

Init ==
    /\ SecureInit
    /\ fd = [s \in Sessions |-> 0]
    /\ behind = [n \in Numbers |-> {}]
    /\ mainSocket = [s \in Sessions |-> "none"]
    /\ workerSocket = [s \in Sessions |-> "none"]
    /\ clientSocket = [s \in Sessions |-> "none"]
    /\ up = [s \in Sessions |-> <<>>]
    /\ down = [s \in Sessions |-> <<>>]
    /\ disturbed = [s \in Sessions |-> FALSE]

\* The connection that the objects of session s use, one if any.
Reach(s) == IF fd[s] = 0 THEN {} ELSE behind[fd[s]]

Close(n) == behind' = [behind EXCEPT ![n] = {}]

\* The server has not closed the connection.
Connected(s) == \E n \in Numbers : s \in behind[n]

\* The client has closed it and all it sent has been taken.
AtEnd(s) == clientSocket[s] = "closed" /\ up[s] = <<>>

Disturb(ss) ==
    disturbed' = [s \in Sessions |-> disturbed[s] \/ s \in ss]

-----------------------------------------------------------------------------
\* The main thread.

FreeNumbers == {n \in Numbers : behind[n] = {}}

\* The connection of a new client has been accepted.
new_user(s) ==
    /\ clientSocket[s] = "none"
    /\ FreeNumbers # {}
    /\ clientSocket' = [clientSocket EXCEPT ![s] = "open"]
    /\ fd' = [fd EXCEPT ![s] = Min(FreeNumbers)]
    /\ behind' = [behind EXCEPT ![Min(FreeNumbers)] = {s}]
    /\ mainSocket' = [mainSocket EXCEPT ![s] = "open"]
    /\ workerSocket' = [workerSocket EXCEPT ![s] = "new"]
    /\ UNCHANGED <<cryptVars, up, down, disturbed>>

\* Its socket notifier finds bytes: they go into a buffer nobody reads.
MainTakes(s) ==
    /\ mainSocket[s] = "open"
    /\ \E t \in Reach(s) :
           /\ \E n \in 1 .. Len(up[t]) :
                  up' = [up EXCEPT ![t] = SubSeq(@, n + 1, Len(@))]
           /\ Disturb({t})
    /\ UNCHANGED <<cryptVars, socketVars, down>>

\* Mutant of MainDisconnects: deleteLater() is not connected.
MainKeepsSocket(s) ==
    /\ mainSocket[s] = "open"
    /\ \E t \in Reach(s) : AtEnd(t)
    /\ mainSocket' = [mainSocket EXCEPT ![s] = "closed"]
    /\ UNCHANGED <<cryptVars, fd, behind, workerSocket, clientSocket, up,
                   down, disturbed>>

\* End of file: disconnected(), deleteLater().
MainDisconnects(s) ==
    /\ mainSocket[s] = "open"
    /\ \E t \in Reach(s) : AtEnd(t)
    /\ Close(fd[s])
    /\ mainSocket' = [mainSocket EXCEPT ![s] = "closed"]
    /\ UNCHANGED <<cryptVars, fd, workerSocket, clientSocket, up, down,
                   disturbed>>

\* The number stands for nothing when the notifier is polled: it is disabled.
MainGoesDeaf(s) ==
    /\ mainSocket[s] = "open"
    /\ Reach(s) = {}
    /\ mainSocket' = [mainSocket EXCEPT ![s] = "deaf"]
    /\ UNCHANGED <<cryptVars, fd, behind, workerSocket, clientSocket, up,
                   down, disturbed>>

-----------------------------------------------------------------------------
\* A worker.  Its run() starts when it will.

SetSocketDescriptor(s) ==
    /\ workerSocket[s] = "new"
    /\ workerSocket' =
           [workerSocket EXCEPT ![s] = IF Reach(s) = {} THEN "closed"
                                                        ELSE "open"]
    /\ UNCHANGED <<cryptVars, fd, behind, mainSocket, clientSocket, up, down,
                   disturbed>>

\* The program of e waits for more to arrive.
Waits(e) == Reads(e) /\ buffer[e] = <<>>

\* waitForReadyRead(), between two runs of manageUserQuery().
WorkerTakes(s) ==
    LET e == <<s, "server">>
    IN  /\ workerSocket[s] = "open"
        /\ Waits(e)
        /\ \E t \in Reach(s) : \E n \in 1 .. Len(up[t]) :
               /\ buffer' = [buffer EXCEPT ![e] = SubSeq(up[t], 1, n)]
               /\ up' = [up EXCEPT ![t] = SubSeq(@, n + 1, Len(@))]
               /\ Disturb(IF t # s \/ IsHead(up[t][n]) THEN {s, t} ELSE {})
        /\ UNCHANGED <<m_usedIV, accepted, writing, written, socketVars, down>>

\* disconnectFromHost() of disconnectedUser(), or waitForReadyRead() at the end
\* of file: whatever the number stands for is closed.
WorkerCloses(s) ==
    /\ workerSocket[s] = "open"
    /\ Waits(<<s, "server">>)
    /\ \E t \in Reach(s) : AtEnd(t)
    /\ Close(fd[s])
    /\ workerSocket' = [workerSocket EXCEPT ![s] = "closed"]
    /\ UNCHANGED <<cryptVars, fd, mainSocket, clientSocket, up, down, disturbed>>

\* The number stands for nothing: an error, and nothing is left to close.
WorkerFails(s) ==
    /\ workerSocket[s] = "open"
    /\ Waits(<<s, "server">>)
    /\ Reach(s) = {}
    /\ workerSocket' = [workerSocket EXCEPT ![s] = "closed"]
    /\ UNCHANGED <<cryptVars, fd, behind, mainSocket, clientSocket, up, down,
                   disturbed>>

\* run() returns (INCORRECT_CERTIFACATE): nobody deletes m_tcpSocket.
WorkerLeaves(s) ==
    /\ workerSocket[s] = "open"
    /\ Waits(<<s, "server">>)
    /\ accepted[<<s, "server">>] = <<>>
    /\ workerSocket' = [workerSocket EXCEPT ![s] = "left"]
    /\ UNCHANGED <<cryptVars, fd, behind, mainSocket, clientSocket, up, down,
                   disturbed>>

-----------------------------------------------------------------------------
\* The client.

ClientTakes(s) ==
    LET e == <<s, "client">>
    IN  /\ clientSocket[s] = "open"
        /\ Waits(e)
        /\ \E n \in 1 .. Len(down[s]) :
               /\ buffer' = [buffer EXCEPT ![e] = SubSeq(down[s], 1, n)]
               /\ down' = [down EXCEPT ![s] = SubSeq(@, n + 1, Len(@))]
               /\ Disturb(IF IsHead(down[s][n]) THEN {s} ELSE {})
        /\ UNCHANGED <<m_usedIV, accepted, writing, written, socketVars, up>>

ClientCloses(s) ==
    /\ s \in Closers
    /\ clientSocket[s] = "open"
    /\ Waits(<<s, "client">>)
    /\ clientSocket' = [clientSocket EXCEPT ![s] = "closed"]
    /\ UNCHANGED <<cryptVars, fd, behind, mainSocket, workerSocket, up, down,
                   disturbed>>

-----------------------------------------------------------------------------
\* Blocks.

IsOpen(w) ==
    IF w[2] = "client" THEN clientSocket[w[1]] = "open"
                       ELSE workerSocket[w[1]] = "open"

\* The program of w calls writeBlock().  By chance the IV may be in use.
BeginBlock(w) ==
    /\ w \in Active
    /\ MapThenSumSet(LAMBDA v : written[v], Writers) < MaxBlocks
    /\ IsOpen(w)
    /\ w[2] # "main" => Waits(EndOf(w))
    /\ EncryptBlock(w)
    /\ Disturb(IF writing'[w][1].iv \in IVsInUse(w[1]) THEN {w[1]} ELSE {})
    /\ UNCHANGED <<socketVars, up, down>>

ClientWrites(s) ==
    LET w == <<s, "client">>
    IN  /\ writing[w] # <<>>
        /\ up' = IF Connected(s) THEN [up EXCEPT ![s] = @ \o <<Head(writing[w])>>]
                                 ELSE up
        /\ writing' = [writing EXCEPT ![w] = Tail(@)]
        /\ UNCHANGED <<m_usedIV, buffer, accepted, written, socketVars, down,
                       disturbed>>

\* Whatever connection the number stands for gets the bytes.
ServerWrites(w) ==
    LET s == w[1]
    IN  /\ w[2] # "client"
        /\ writing[w] # <<>>
        /\ IF IsOpen(w) /\ Reach(s) # {}
              THEN /\ \E t \in Reach(s) : \E bytes \in Written(w) :
                          /\ down' = [down EXCEPT ![t] = @ \o bytes]
                          /\ Disturb(IF t # s \/ Collides(w) THEN {s, t} ELSE {})
                   /\ writing' = [writing EXCEPT ![w] = Tail(@)]
                   /\ UNCHANGED workerSocket
              ELSE /\ workerSocket' = [workerSocket EXCEPT ![s] = "closed"]
                   /\ writing' = [writing EXCEPT ![w] = <<>>]
                   /\ UNCHANGED <<down, disturbed>>
        /\ UNCHANGED <<m_usedIV, buffer, accepted, written, fd, behind,
                       mainSocket, clientSocket, up>>

ReadsBlock(e) == readBlock(e) /\ UNCHANGED <<socketVars, up, down, disturbed>>

-----------------------------------------------------------------------------
Main(s) ==
    \/ new_user(s)
    \/ MainTakes(s)
    \/ MainDisconnects(s)
    \/ MainGoesDeaf(s)

Worker(s) ==
    \/ SetSocketDescriptor(s)
    \/ WorkerTakes(s)
    \/ ReadsBlock(<<s, "server">>)
    \/ WorkerCloses(s)
    \/ WorkerFails(s)
    \/ WorkerLeaves(s)

Client(s) ==
    \/ ClientTakes(s)
    \/ ReadsBlock(<<s, "client">>)
    \/ ClientCloses(s)

Next ==
    \/ \E s \in Sessions : Main(s) \/ Worker(s) \/ Client(s) \/ ClientWrites(s)
    \/ \E w \in Writers : BeginBlock(w) \/ ServerWrites(w)

Spec == Init /\ [][Next]_vars

\* The event loops of both programs and the worker run.
FairSpec ==
    /\ Spec
    /\ \A s \in Sessions :
           /\ WF_vars(Main(s))
           /\ WF_vars(Worker(s))
           /\ WF_vars(ReadsBlock(<<s, "client">>))
           /\ WF_vars(ClientWrites(s))
    /\ \A w \in Writers : WF_vars(ServerWrites(w))

-----------------------------------------------------------------------------
TypeOK ==
    /\ SecureTypeOK
    /\ fd \in [Sessions -> {0} \cup Numbers]
    /\ behind \in [Numbers -> SUBSET Sessions]
    /\ \A n \in Numbers : Cardinality(behind[n]) <= 1
    /\ mainSocket \in [Sessions -> {"none", "open", "closed", "deaf"}]
    /\ workerSocket \in [Sessions -> {"none", "new", "open", "closed", "left"}]
    /\ clientSocket \in [Sessions -> {"none", "open", "closed"}]
    /\ disturbed \in [Sessions -> BOOLEAN]

\* Safety: what readBlock() gives to a program was written by the other end of
\* the same session, whatever other connection, other thread or half a block
\* its bytes have been mixed with, and no block comes twice or before an
\* earlier one of its writer (securesocket.cpp:52-73, echoserver.cpp:98).
AcceptedAsWritten ==
    \A e \in Ends : \A i \in DOMAIN accepted[e] :
        /\ EndOf(accepted[e][i].from) = Peer(e)
        /\ \A j \in DOMAIN accepted[e] :
               i < j /\ accepted[e][i].from = accepted[e][j].from
                   => accepted[e][i].n < accepted[e][j].n

\* Nothing of session s is under way.
AtRest(s) ==
    /\ clientSocket[s] = "open"
    /\ workerSocket[s] = "open"
    /\ up[s] = <<>>
    /\ down[s] = <<>>
    /\ \A e \in {s} \X Sides : buffer[e] = <<>>
    /\ \A w \in Writers : w[1] = s => writing[w] = <<>>

\* The other end of the writer has accepted the message.
IsAccepted(message) ==
    \E i \in DOMAIN accepted[Peer(EndOf(message.from))] :
        accepted[Peer(EndOf(message.from))][i] = message

\* Safety: a block gets lost only if the main thread took bytes of the
\* connection (echoserver.cpp:98), it was read in part (serverthread.cpp:132),
\* two threads wrote at once (securesocket.cpp:19), two IVs were equal by chance
\* (securesocket.cpp:62), or the number stood for another connection.
LossHasCause ==
    \A s \in Sessions : AtRest(s) /\ ~disturbed[s] =>
        \A w \in Writers : w[1] = s =>
            \A n \in 1 .. written[w] : IsAccepted([from |-> w, n |-> n])

\* Liveness: a thread that has taken bytes comes to the end of them, whatever
\* they are: the loop of manageUserQuery() and that of readServerResponse() go
\* on while peek() gives a byte (serverthread.cpp:243, echoclient.cpp:266).
BuffersAreEmptied == \A e \in Ends : buffer[e] # <<>> ~> buffer[e] = <<>>

\* Liveness: the descriptor of a client that has closed is free again, also when
\* its worker has left its socket open, and whatever other session's objects
\* still use the number (echoserver.cpp:106, serverthread.cpp:43).
NumbersAreFreed ==
    \A s \in Sessions :
        clientSocket[s] = "closed" /\ fd[s] # 0 ~>
            \A n \in Numbers : s \notin behind[n]
=============================================================================
