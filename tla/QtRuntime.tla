----------------------------- MODULE QtRuntime ------------------------------
(***************************************************************************)
(* What the server uses of Qt and of TCP: the queue of events posted to    *)
(* the main thread (a signal emitted by a worker thread and connected to a *)
(* slot of an object that lives in the main thread), and one connection    *)
(* per session.                                                            *)
(*                                                                         *)
(* A write to a socket that is not connected has no effect.  A write to a  *)
(* socket whose peer has closed may succeed (the kernel takes the bytes)   *)
(* or fail, and a failed write closes the socket.  Closing it emits        *)
(* disconnected(), which reaches ServerThread::disconnectedUser only if    *)
(* run() has got as far as connecting the two.                             *)
(***************************************************************************)
EXTENDS Protocol

\* A signal with its arguments; "sess" is the thread it concerns.  "seen" is
\* not in the code: it is the length of the log when the emitting thread read
\* the role that let the request through.
Events ==
    [signal : {"connectedUser"}, sess : Sessions, name : Users]
        \cup [signal : {"disconnected"}, sess : Sessions]
        \cup [signal : {"removeUser", "getUserPasswordHalf"}, name : Users]
        \cup [signal : {"userAuthenticationFailed"}]
        \cup [signal : {"addMessage"}, name : Users, text : Texts]
        \cup [signal : {"deleteMessage"}, name : Users, id : MessageIds,
              seen : Nat]
        \cup [signal : {"modifyMessage"}, name : Users, id : MessageIds,
              text : Texts, seen : Nat]
        \cup [signal : {"changeUserRole"}, name : Users, him : Users,
              role : {"m", "u"}, seen : Nat]

VARIABLES
    eventQueue,     \* events posted to the main thread, oldest first
    log,            \* history: the signals applied, each with its block
    sock,           \* the server's SecureSocket is in ConnectedState
    slotConnected,  \* disconnected() is connected to disconnectedUser()
    rx,             \* blocks the client has sent and the server not yet read
    tx,             \* every block the server has written, oldest first
    peerClosed      \* the client has closed its end

QtTypeOK ==
    /\ eventQueue \in Seq(Events)
    /\ log \in Seq([event : Events, block : Blocks])
    /\ sock \in [Sessions -> BOOLEAN]
    /\ slotConnected \in [Sessions -> BOOLEAN]
    /\ rx \in [Sessions -> Seq(Requests)]
    /\ tx \in [Sessions -> Seq(Blocks)]
    /\ peerClosed \in [Sessions -> BOOLEAN]

socketVars == <<sock, slotConnected, rx, tx, peerClosed>>

QtInit ==
    /\ eventQueue = <<>>
    /\ log = <<>>
    /\ sock = [s \in Sessions |-> FALSE]
    /\ slotConnected = [s \in Sessions |-> FALSE]
    /\ rx = [s \in Sessions |-> <<>>]
    /\ tx = [s \in Sessions |-> <<>>]
    /\ peerClosed = [s \in Sessions |-> FALSE]

\* emit, from a worker thread.
Post(event) == eventQueue' = Append(eventQueue, event)

\* Mutant of LoseConnection: nobody is told.
LoseConnectionQuietly(s) ==
    /\ sock' = [sock EXCEPT ![s] = FALSE]
    /\ UNCHANGED eventQueue

\* The worker finds the connection closed: the slot's object lives in the
\* main thread, so the call is queued.
LoseConnection(s) ==
    /\ sock' = [sock EXCEPT ![s] = FALSE]
    /\ IF slotConnected[s]
          THEN Post([signal |-> "disconnected", sess |-> s])
          ELSE UNCHANGED eventQueue

\* writeBlock(block), flush(), from the worker.
WriteBlock(s, block) ==
    \/ /\ sock[s]
       /\ tx' = [tx EXCEPT ![s] = Append(@, block)]
       /\ UNCHANGED <<sock, eventQueue>>
    \/ /\ sock[s]
       /\ peerClosed[s]
       /\ LoseConnection(s)
       /\ UNCHANGED tx
    \/ /\ ~sock[s]
       /\ UNCHANGED <<sock, tx, eventQueue>>
=============================================================================
