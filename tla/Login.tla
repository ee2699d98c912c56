------------------------------- MODULE Login --------------------------------
(***************************************************************************)
(* The handshake between a ConnectDialog and the ServerThread of its       *)
(* connection, with a server that may just be starting and may end.  The   *)
(* client sends a session key, encrypted for the server, and a name; the   *)
(* server answers with a challenge for the private key of that name, and   *)
(* to the client's answer with LOGIN_OK or LOGIN_DENIED.  Each side waits  *)
(* with time-outs.  After an error the dialog stays, and its user may      *)
(* connect again: abort() closes the old connection, whose thread goes on  *)
(* by itself.                                                              *)
(*                                                                         *)
(* What a dialog holds (its two key files, password and name) is fixed     *)
(* when it connects: "form".  A block that cannot be decrypted is one that *)
(* was read before all of it had arrived.                                  *)
(***************************************************************************)
EXTENDS ServerStartup, Cryption

CONSTANTS
    MaxAttempts  \* bound: connections the dialog makes

ASSUME AttemptsAssumption == MaxAttempts \in Nat

Attempts == 1 .. MaxAttempts

\* The server's public key is the right one, another's, or no key; the name
\* is in table users, with the public key of pair 1; the private key file is
\* that of a pair, made with the password "right", or, for 0, cannot be read.
Forms == [serverKey : {"right", "other", "none"}, known : BOOLEAN,
          skFile : 0 .. 2, password : {"right", "wrong"}]

SkFile(f) == generateClientRSAPiar(f.skFile, "right").sk
UsersPk == generateClientRSAPiar(1, "right").pk

\* The texts the dialog shows in a box, and none before the first.
Messages == {"", "Server PK is not correctly specified.",
             "Server dose not response.", "Server authentication error.",
             "Check authentication data.", "Login Error"}

VARIABLES
    attempt,   \* the dialog's current connection, 0 before any
    form,      \* form[a]: what the dialog held when it connected
    dialog,    \* what the dialog waits for, or its end
    message,   \* the text of the last message box
    server,    \* server[a]: where the thread of connection a is
    taken,     \* taken[a]: the arguments of the constructor of that thread
    open,      \* open[a]: neither side has closed the connection
    toServer,  \* blocks on their way to the thread
    toClient,  \* blocks on their way to the dialog, or in its socket
    late       \* a block, or the rest of one, may come after its reader has
               \* stopped to wait for it: the network is slow, or it is not

clientVars == <<attempt, form, dialog, message>>
linkVars == <<open, toServer, toClient>>
threadVars == <<server, taken>>
vars == <<mainVars, clientVars, threadVars, linkVars, late>>

Init ==
    /\ StartupInit
    /\ attempt = 0
    /\ form = [a \in Attempts |->
                  [serverKey |-> "none", known |-> FALSE, skFile |-> 0,
                   password |-> "wrong"]]
    /\ dialog = "ready"
    /\ message = ""
    /\ server = [a \in Attempts |-> "none"]
    /\ taken = [a \in Attempts |-> [path |-> "", database |-> "unset"]]
    /\ open = [a \in Attempts |-> FALSE]
    /\ toServer = [a \in Attempts |-> <<>>]
    /\ toClient = [a \in Attempts |-> <<>>]
    /\ late \in BOOLEAN

\* The blocks of both directions.  What follows a code is no cipher of a text.
Hello == [ind |-> "hello"]
Answer(text) == [ind |-> "answer", text |-> text]
Verdict(ind) == [ind |-> ind, cipher |-> [pk |-> 0, text |-> EmptyText]]

\* challenge() of connection a takes a text of its own.
Question(a) == generateTextForChecking(UsersPk, a)

-----------------------------------------------------------------------------
\* The dialog.  connected() runs authenticate(), one function to its end.

Shut(a) == open' = [open EXCEPT ![a] = FALSE]

\* connect() needs a server that listens; the kernel completes it.
Connect ==
    /\ dialog = "ready"
    /\ attempt < MaxAttempts
    /\ listening
    /\ mainThread \notin {"quit", "terminated"}
    /\ attempt' = attempt + 1
    /\ server' = [server EXCEPT ![attempt'] = "backlog"]
    /\ UNCHANGED <<mainVars, taken, toClient>>

\* authenticate() up to its first wait.
SendHello ==
    \E f \in Forms :
        /\ form' = [form EXCEPT ![attempt'] = f]
        /\ IF f.serverKey = "none"
              THEN /\ message' = "Server PK is not correctly specified."
                   /\ dialog' = "closed"
                   /\ UNCHANGED toServer
              ELSE /\ toServer' = [toServer EXCEPT ![attempt'] = <<Hello>>]
                   /\ dialog' = "challenge"
                   /\ UNCHANGED message

\* Mutant of ConnectToServer: abort() is not called.
ConnectAnew ==
    /\ Connect
    /\ SendHello
    /\ open' = [open EXCEPT ![attempt'] = dialog' = "challenge"]

\* connectToServer(), and authenticate() in the slot of connected().
ConnectToServer ==
    /\ Connect
    /\ SendHello
    /\ open' = [a \in Attempts |-> IF a = attempt' THEN dialog' = "challenge"
                                  ELSE open[a] /\ a # attempt]

\* close(): the connection stays open until the dialog, and the program with
\* it, has gone.
Close ==
    /\ dialog' = "closed"
    /\ Shut(attempt)

GiveUp(text) ==
    /\ message' = text
    /\ Close
    /\ UNCHANGED <<mainVars, attempt, form, threadVars, toServer, toClient>>

\* Mutant of NoChallenge: the wait has no time-out.
NoChallengeOnClose ==
    /\ dialog = "challenge"
    /\ toClient[attempt] = <<>>
    /\ ~open[attempt]
    /\ GiveUp("Server dose not response.")

\* waitForReadyRead(10000) is false: after 10 s, or because of a close.
NoChallenge ==
    /\ dialog = "challenge"
    /\ toClient[attempt] = <<>>
    /\ \/ late
       \/ ~open[attempt]
       \/ server[attempt] \in {"dropped", "stuck"}
    /\ GiveUp("Server dose not response.")

\* A part of a block.
BadChallenge ==
    /\ dialog = "challenge"
    /\ toClient[attempt] # <<>>
    /\ late
    /\ GiveUp("Server authentication error.")

\* Whatever the block is, it is decrypted with the private key.
AnswerChallenge ==
    LET f == form[attempt]
        text == checkClientSK(SkFile(f), f.password,
                              Head(toClient[attempt]).cipher)
    IN  /\ dialog = "challenge"
        /\ toClient[attempt] # <<>>
        /\ f.skFile # 0
        /\ dialog' = "verdict"
        /\ toClient' = [toClient EXCEPT ![attempt] = Tail(@)]
        /\ toServer' = IF open[attempt]
                          THEN [toServer EXCEPT ![attempt] =
                                    Append(@, Answer(text))]
                          ELSE toServer
        /\ UNCHANGED <<mainVars, attempt, form, message, threadVars, open>>

\* The private key file cannot be read: the exception of FileSource leaves the
\* slot and ends the program.
FailToReadSK ==
    /\ dialog = "challenge"
    /\ toClient[attempt] # <<>>
    /\ form[attempt].skFile = 0
    /\ Close
    /\ UNCHANGED <<mainVars, attempt, form, message, threadVars, toServer,
                   toClient>>

\* After an error the dialog stays; its button is enabled again by the close
\* of the connection (displayError()) or by an edit of the form.
ReadVerdict ==
    /\ dialog = "verdict"
    /\ toClient[attempt] # <<>>
    /\ toClient' = [toClient EXCEPT ![attempt] = Tail(@)]
    /\ IF Head(toClient[attempt]).ind = "LOGIN_OK"
          THEN dialog' = "accepted" /\ UNCHANGED message
          ELSE dialog' = "ready" /\ message' = "Check authentication data."
    /\ UNCHANGED <<mainVars, attempt, form, threadVars, open, toServer>>

\* waitForReadyRead() is false after 30 s or because of a close, or a part of
\* the block has come; readBlock() then gives an empty block, and the box has
\* no text but its title.
NoVerdict ==
    /\ dialog = "verdict"
    /\ \/ late
       \/ toClient[attempt] = <<>> /\ ~open[attempt]
    /\ dialog' = "ready"
    /\ message' = "Login Error"
    /\ UNCHANGED <<mainVars, attempt, form, threadVars, linkVars>>

\* The user quits: reject().
Quit ==
    /\ dialog = "ready"
    /\ dialog' = "closed"
    /\ open' = [a \in Attempts |-> open[a] /\ a # attempt]
    /\ UNCHANGED <<mainVars, attempt, form, message, threadVars, toServer,
                   toClient>>

-----------------------------------------------------------------------------
\* The thread of connection a.

Running == mainThread \notin {"quit", "terminated"}

\* The main thread is in an event loop also while it shows a box.
new_user(a) ==
    /\ Running
    /\ server[a] = "backlog"
    /\ server' = [server EXCEPT ![a] = "hello"]
    /\ taken' = [taken EXCEPT ![a] = [path |-> server_sk_file_path,
                                     database |-> database]]
    /\ UNCHANGED <<mainVars, clientVars, linkVars>>

\* run() has come to authenticate().
Authenticates(a) == Running /\ server[a] = "hello"

ReadsKey(a) == taken[a].path = "serverKey" /\ device

\* With the program go its sockets.
Terminate ==
    /\ EndProgram("terminated")
    /\ open' = [a \in Attempts |-> FALSE]
    /\ UNCHANGED <<clientVars, threadVars, toServer, toClient>>

\* FileSource or BERDecode() throws, and nothing in the thread catches it.
FailToReadKey(a) ==
    /\ Authenticates(a)
    /\ ~ReadsKey(a)
    /\ Terminate

Send(a, block) ==
    toClient' = IF open[a] THEN [toClient EXCEPT ![a] = Append(@, block)]
                           ELSE toClient

\* Nothing, or a part, has come in 30 s, or for another key: the decryption
\* of the session key throws.
NoSessionKey(a) ==
    \/ toServer[a] = <<>> /\ ~open[a]
    \/ late
    \/ toServer[a] # <<>> /\ form[a].serverKey # "right"

\* Mutant of Drop: nothing catches the exception.
DropUncaught(a) ==
    /\ Authenticates(a)
    /\ ReadsKey(a)
    /\ NoSessionKey(a)
    /\ Terminate

\* INCORRECT_CERTIFACATE: run() returns.
Drop(a) ==
    /\ Authenticates(a)
    /\ ReadsKey(a)
    /\ NoSessionKey(a)
    /\ server' = [server EXCEPT ![a] = "dropped"]
    /\ UNCHANGED <<mainVars, clientVars, taken, linkVars>>

\* The session key and the name have been read.
GotHello(a) ==
    /\ Authenticates(a)
    /\ ReadsKey(a)
    /\ toServer[a] # <<>>
    /\ form[a].serverKey = "right"

\* get_user() of an object that does not exist: its mutex is any memory.  The
\* program ends, or the thread waits for ever, or the query is as in UnknownUser.
UseUnsetDatabase(a) ==
    /\ GotHello(a)
    /\ taken[a].database = "unset"
    /\ \/ Terminate
       \/ /\ server' = [server EXCEPT ![a] = "stuck"]
          /\ UNCHANGED <<mainVars, clientVars, taken, linkVars>>

\* Mutant of Deny: the result of authenticate() is sent as it is.
DenyByResult(a) ==
    /\ server' = [server EXCEPT ![a] = "denied"]
    /\ Send(a, Verdict("USER_NOT_FOUND"))
    /\ Shut(a)

\* LOGIN_DENIED, disconnectFromHost().
Deny(a) ==
    /\ server' = [server EXCEPT ![a] = "denied"]
    /\ Send(a, Verdict("LOGIN_DENIED"))
    /\ Shut(a)

\* USER_NOT_FOUND: no such row, or no active query.
UnknownUser(a) ==
    /\ GotHello(a)
    /\ form[a].known => taken[a].database # "open"
    /\ toServer' = [toServer EXCEPT ![a] = Tail(@)]
    /\ Deny(a)
    /\ UNCHANGED <<mainVars, clientVars, taken>>

Challenge(a) ==
    /\ GotHello(a)
    /\ form[a].known
    /\ taken[a].database = "open"
    /\ toServer' = [toServer EXCEPT ![a] = Tail(@)]
    /\ server' = [server EXCEPT ![a] = "challenge"]
    /\ Send(a, [ind |-> "challenge", cipher |-> Question(a).cipher])
    /\ UNCHANGED <<mainVars, clientVars, taken, open>>

\* CHALLENGE_FAILED: no answer in 10 s, a close, or another answer.
FailChallenge(a) ==
    /\ Running
    /\ server[a] = "challenge"
    /\ \/ toServer[a] = <<>> /\ ~open[a]
       \/ late
       \/ toServer[a] # <<>> /\ Head(toServer[a]).text # Question(a).text
    /\ Deny(a)
    /\ UNCHANGED <<mainVars, clientVars, taken, toServer>>

\* Mutant of PassChallenge: the answer is not compared.
PassAnyAnswer(a) ==
    /\ Running
    /\ server[a] = "challenge"
    /\ toServer[a] # <<>>
    /\ toServer' = [toServer EXCEPT ![a] = Tail(@)]
    /\ server' = [server EXCEPT ![a] = "passed"]
    /\ Send(a, Verdict("LOGIN_OK"))
    /\ UNCHANGED <<mainVars, clientVars, taken, open>>

PassChallenge(a) ==
    /\ Running
    /\ server[a] = "challenge"
    /\ toServer[a] # <<>>
    /\ Head(toServer[a]).text = Question(a).text
    /\ toServer' = [toServer EXCEPT ![a] = Tail(@)]
    /\ server' = [server EXCEPT ![a] = "passed"]
    /\ Send(a, Verdict("LOGIN_OK"))
    /\ UNCHANGED <<mainVars, clientVars, taken, open>>

-----------------------------------------------------------------------------
Client ==
    \/ ConnectToServer
    \/ NoChallenge
    \/ BadChallenge
    \/ AnswerChallenge
    \/ FailToReadSK
    \/ ReadVerdict
    \/ NoVerdict
    \/ Quit

Thread(a) ==
    \/ new_user(a)
    \/ FailToReadKey(a)
    \/ Drop(a)
    \/ UseUnsetDatabase(a)
    \/ UnknownUser(a)
    \/ Challenge(a)
    \/ FailChallenge(a)
    \/ PassChallenge(a)

\* The user of the server.
ServerUser ==
    \/ /\ Startup
       /\ UNCHANGED <<clientVars, threadVars, linkVars>>
    \/ /\ QuitServer
       /\ open' = [a \in Attempts |-> FALSE]
       /\ UNCHANGED <<clientVars, threadVars, toServer, toClient>>

Next ==
    /\ Client \/ ServerUser \/ \E a \in Attempts : Thread(a)
    /\ UNCHANGED late

Spec == Init /\ [][Next]_vars

\* authenticate() and the threads run; what the users click is not required.
DialogRuns == NoChallenge \/ BadChallenge \/ AnswerChallenge \/ FailToReadSK
                  \/ ReadVerdict \/ NoVerdict

FairSpec ==
    /\ Spec
    /\ WF_vars(DialogRuns /\ UNCHANGED late)
    /\ \A a \in Attempts : WF_vars(Thread(a) /\ UNCHANGED late)

-----------------------------------------------------------------------------
\* Type invariant.
TypeOK ==
    /\ StartupTypeOK
    /\ attempt \in 0 .. MaxAttempts
    /\ form \in [Attempts -> Forms]
    /\ dialog \in {"ready", "challenge", "verdict", "accepted", "closed"}
    /\ message \in Messages
    /\ server \in [Attempts -> {"none", "backlog", "hello", "challenge",
                               "dropped", "stuck", "denied", "passed"}]
    /\ taken \in [Attempts -> [path : KeyPaths, database : Databases]]
    /\ open \in [Attempts -> BOOLEAN]
    /\ toServer \in [Attempts -> Seq({Hello} \cup
                         {Answer(text) : text \in {EmptyText} \cup Attempts})]
    /\ \A a \in Attempts :
           toClient[a] \in Seq({Verdict("LOGIN_OK"), Verdict("LOGIN_DENIED"),
                               [ind |-> "challenge",
                                cipher |-> Question(a).cipher]})
    /\ late \in BOOLEAN

\* Safety: a dialog that has closed as accepted has a thread that has passed
\* it, under a known name whose private key it holds and has unlocked with the
\* password; neither an earlier attempt's blocks, nor a refusal taken for a
\* challenge, nor a time-out on either side lets it in (authenticate() of both
\* programs: connectdialog.cpp:232, serverthread.cpp:178).
AcceptedIsPassed ==
    dialog = "accepted" =>
        /\ server[attempt] = "passed"
        /\ form[attempt].known
        /\ form[attempt].skFile = 1
        /\ form[attempt].password = "right"

\* Safety: a dialog that tries again, after a LOGIN_OK that came too late for
\* it, leaves at most one connection on which a thread has logged it in
\* (abort(), connectdialog.cpp:185): two would be one user twice, whom the
\* server's map has once.
OneSession ==
    \A a, b \in Attempts :
        (\A c \in {a, b} : open[c] /\ server[c] = "passed") => a = b

\* Safety: nothing a client sends, or leaves out, ends the server: an exception
\* leaves a thread only if the key file is missing or no key, or if the
\* connection was accepted while the dialog or the box of the database was
\* still open (serverthread.cpp:182-206, echoserver.cpp:54-65).
OnlyBadStartTerminates ==
    mainThread = "terminated" =>
        \E a \in Attempts :
            /\ server[a] = "hello"
            /\ ~ReadsKey(a) \/ taken[a].database = "unset"

\* Liveness: no side waits for the other for good, also when nothing is late
\* and a wait times out only if what it waits for will not come, and when the
\* server ends meanwhile: every attempt ends for the dialog, and its thread has
\* ended or serves (connectdialog.cpp:274 and 305, serverthread.cpp:22 and
\* 151), or is stuck in a mutex that does not exist.
AttemptsEnd ==
    \A a \in Attempts :
        attempt = a /\ dialog = "challenge" ~>
            /\ attempt = a => dialog \notin {"challenge", "verdict"}
            /\ \/ server[a] \in {"dropped", "denied", "passed", "stuck"}
               \/ ~Running
=============================================================================
