---------------------------- MODULE LoginProofs ----------------------------
(***************************************************************************)
(* Whom the server lets in, for any number of attempts and every kind of   *)
(* form: a verdict that reaches the dialog was sent by the thread of this  *)
(* connection, and that thread passes only who opened its challenge.       *)
(***************************************************************************)
EXTENDS Login, TLAPS

ToServer == {Hello} \cup {Answer(text) : text \in {EmptyText} \cup Attempts}
ToClient(a) ==
    {Verdict("LOGIN_OK"), Verdict("LOGIN_DENIED"),
     [ind |-> "challenge", cipher |-> Question(a).cipher]}

-----------------------------------------------------------------------------
(* The inductive invariant.                                                *)

\* The dialog waits, or has been accepted, only on a connection.
DialogInv ==
    /\ DOMAIN toClient = Attempts
    /\ dialog \in {"challenge", "verdict", "accepted"} => attempt \in Attempts

\* Only the current connection can be open; of a later one there is nothing.
AttemptsInv ==
    \A a \in Attempts :
        /\ open[a] => a = attempt
        /\ a > attempt => /\ server[a] = "none"
                          /\ toServer[a] = <<>>
                          /\ toClient[a] = <<>>

HoldsKey(a) == form[a].skFile = 1 /\ form[a].password = "right"

\* The hello is first and is gone when the challenge is sent; an answer has
\* the text of the challenge only if the private key was opened for it.
ToServerInv ==
    \A a \in Attempts : \A i \in 1 .. Len(toServer[a]) :
        \/ /\ toServer[a][i] = Hello
           /\ i = 1
           /\ server[a] \in {"backlog", "hello", "dropped", "stuck"}
        \/ \E text \in {EmptyText} \cup Attempts :
              /\ toServer[a][i] = Answer(text)
              /\ text = a => HoldsKey(a)

\* LOGIN_OK is on its way only from a thread that has passed its client.
VerdictInv ==
    \A a \in Attempts : \A i \in 1 .. Len(toClient[a]) :
        toClient[a][i].ind = "LOGIN_OK" => server[a] = "passed"

\* A thread passes only a client it has asked, and it asks a known name.
PassedInv ==
    /\ \A a \in Attempts :
           /\ server[a] \in {"challenge", "passed"} => form[a].known
           /\ server[a] = "passed" => HoldsKey(a)
    /\ dialog = "accepted" => server[attempt] = "passed"

IInv ==
    /\ TypeOK
    /\ DialogInv
    /\ AttemptsInv
    /\ ToServerInv
    /\ VerdictInv
    /\ PassedInv
    /\ OnlyBadStartTerminates

-----------------------------------------------------------------------------
(* Operators.                                                              *)

\* A block appended comes last, the others stay where they were.
LEMMA AppendElements ==
    ASSUME NEW S, NEW s \in Seq(S), NEW e \in S, NEW i \in 1 .. Len(Append(s, e))
    PROVE  /\ Append(s, e) \in Seq(S)
           /\ \/ i \in 1 .. Len(s) /\ Append(s, e)[i] = s[i]
              \/ i = Len(s) + 1 /\ Append(s, e)[i] = e
  <1>1. /\ Append(s, e) \in Seq(S)
        /\ Len(Append(s, e)) = Len(s) + 1
        /\ Len(s) \in Nat
    OBVIOUS
  <1>2. CASE i = Len(s) + 1
    BY <1>1, <1>2
  <1>3. CASE i # Len(s) + 1
    <2>1. i \in 1 .. Len(s)
      BY <1>1, <1>3
    <2>. QED  BY <1>1, <2>1
  <1>. QED  BY <1>2, <1>3

\* Without its first block a sequence has the others, each one place earlier.
LEMMA TailElements ==
    ASSUME NEW S, NEW s \in Seq(S), s # <<>>, NEW i \in 1 .. Len(Tail(s))
    PROVE  /\ Tail(s) \in Seq(S)
           /\ i + 1 \in 1 .. Len(s)
           /\ i + 1 # 1
           /\ Tail(s)[i] = s[i + 1]
  <1>1. Len(s) \in Nat /\ Len(s) # 0
    OBVIOUS
  <1>2. Len(Tail(s)) = Len(s) - 1 /\ Tail(s) \in Seq(S)
    BY <1>1
  <1>. QED  BY <1>1, <1>2

\* The first block of a queue that is not empty is one of its blocks.
LEMMA HeadElement ==
    ASSUME NEW S, NEW s \in Seq(S), s # <<>>
    PROVE  /\ Head(s) \in S
           /\ Head(s) = s[1]
           /\ 1 \in 1 .. Len(s)
           /\ Tail(s) \in Seq(S)
  <1>1. Len(s) \in Nat /\ Len(s) # 0
    OBVIOUS
  <1>. QED  BY <1>1

\* The text of the challenge comes only out of its own cipher, and only with
\* the private key of the name unlocked by its password.
LEMMA OnlyKeyOpensChallenge ==
    ASSUME NEW a \in Attempts, NEW f \in Forms, NEW block \in ToClient(a)
    PROVE  LET text == checkClientSK(SkFile(f), f.password, block.cipher)
           IN  /\ text \in {EmptyText} \cup Attempts
               /\ text = a => f.skFile = 1 /\ f.password = "right"
  <1>1. SkFile(f) = [lockedBy |-> [sha256 |-> "right"], pair |-> f.skFile]
    BY DEF SkFile, generateClientRSAPiar, getHashFromPassword
  <1>2. Question(a) = [text |-> a, cipher |-> [pk |-> 1, text |-> a]]
    BY DEF Question, generateTextForChecking, UsersPk, generateClientRSAPiar
  <1>3. block.cipher = [pk |-> 0, text |-> EmptyText]
            \/ block.cipher = [pk |-> 1, text |-> a]
    BY <1>2 DEF ToClient, Verdict
  <1>4. a # EmptyText
    BY AttemptsAssumption DEF Attempts, EmptyText
  <1>5. SkFile(f).lockedBy = getHashFromPassword(f.password)
            => f.password = "right"
    <2>1. [sha256 |-> "right"].sha256 = "right"
      OBVIOUS
    <2>2. [sha256 |-> f.password].sha256 = f.password
      OBVIOUS
    <2>. QED  BY <1>1, <2>1, <2>2 DEF getHashFromPassword
  <1>. QED  BY <1>1, <1>3, <1>4, <1>5 DEF checkClientSK

\* What TypeOK says of the two queues, with their sets of blocks named.
LEMMA QueuesTyped ==
    ASSUME TypeOK
    PROVE  /\ toServer \in [Attempts -> Seq(ToServer)]
           /\ \A a \in Attempts : toClient[a] \in Seq(ToClient(a))
           /\ \A a \in Attempts : Verdict("LOGIN_OK") \in ToClient(a)
           /\ \A a \in Attempts : Verdict("LOGIN_DENIED") \in ToClient(a)
           /\ Hello \in ToServer
           /\ attempt \in Nat
           /\ \A a \in Attempts : a \in Nat
  <1>1. /\ toServer \in [Attempts -> Seq(ToServer)]
        /\ \A a \in Attempts : toClient[a] \in Seq(ToClient(a))
    BY DEF TypeOK, ToServer, ToClient
  <1>2. attempt \in Nat /\ \A a \in Attempts : a \in Nat
    BY AttemptsAssumption DEF TypeOK, Attempts
  <1>. QED  BY <1>1, <1>2 DEF ToServer, ToClient

\* Sent on a connection, a block comes last in its queue, or is lost.
LEMMA Sent ==
    ASSUME TypeOK, DialogInv, NEW a \in Attempts, NEW block \in ToClient(a),
           Send(a, block)
    PROVE  /\ DOMAIN toClient' = Attempts
           /\ \A b \in Attempts : toClient'[b] \in Seq(ToClient(b))
           /\ \A b \in Attempts : b # a => toClient'[b] = toClient[b]
           /\ ~open[a] => toClient'[a] = toClient[a]
           /\ \A i \in 1 .. Len(toClient'[a]) :
                  \/ i \in 1 .. Len(toClient[a])
                     /\ toClient'[a][i] = toClient[a][i]
                  \/ toClient'[a][i] = block
  <1>1. toClient[a] \in Seq(ToClient(a)) /\ DOMAIN toClient = Attempts
    BY QueuesTyped DEF DialogInv
  <1>2. CASE open[a]
    <2>1. toClient' = [toClient EXCEPT ![a] = Append(toClient[a], block)]
      BY <1>2 DEF Send
    <2>2. toClient'[a] = Append(toClient[a], block)
      BY <1>1, <2>1
    <2>3. toClient'[a] \in Seq(ToClient(a))
      BY <1>1, <2>2
    <2>4. DOMAIN toClient' = Attempts
          /\ \A b \in Attempts : b # a => toClient'[b] = toClient[b]
      BY <1>1, <2>1
    <2>5. \A b \in Attempts : toClient'[b] \in Seq(ToClient(b))
      BY <2>3, <2>4, QueuesTyped
    <2>6. ASSUME NEW i \in 1 .. Len(toClient'[a])
          PROVE  \/ i \in 1 .. Len(toClient[a])
                    /\ toClient'[a][i] = toClient[a][i]
                 \/ toClient'[a][i] = block
      BY <1>1, <2>2, AppendElements
    <2>. QED  BY <1>2, <2>4, <2>5, <2>6
  <1>3. CASE ~open[a]
    BY <1>1, <1>3, QueuesTyped DEF Send
  <1>. QED  BY <1>2, <1>3

-----------------------------------------------------------------------------
(* Steps that only close connections, or move neither thread nor block.    *)

LEMMA QuietStep ==
    ASSUME IInv, TypeOK', OnlyBadStartTerminates',
           UNCHANGED <<attempt, form, server, toServer, toClient>>,
           \A a \in Attempts : open'[a] => open[a],
           dialog' \in {dialog, "ready", "closed"}
    PROVE  IInv'
  <1>1. DialogInv'
    BY DEF IInv, DialogInv
  <1>2. AttemptsInv'
    BY DEF IInv, AttemptsInv
  <1>3. ToServerInv'
    BY DEF IInv, ToServerInv, HoldsKey
  <1>4. VerdictInv'
    BY DEF IInv, VerdictInv
  <1>5. PassedInv'
    BY DEF IInv, PassedInv, HoldsKey
  <1>. QED  BY <1>1, <1>2, <1>3, <1>4, <1>5 DEF IInv

\* The server's user, before and while the server serves.
LEMMA StartupStep ==
    ASSUME IInv, Startup, UNCHANGED <<clientVars, threadVars, linkVars>>,
           UNCHANGED late
    PROVE  IInv'
  <1>. USE DEF IInv, clientVars, threadVars, linkVars
  <1>1. TypeOK'
    <2>1. StartupTypeOK'
      BY DEF TypeOK, StartupTypeOK, Startup, browseServerKeyFile, runServer,
             dialogResult, DismissOpenError, RemoveDevice, Databases
    <2>. QED  BY <2>1 DEF TypeOK
  <1>2. OnlyBadStartTerminates'
    <2>1. mainThread' = "terminated" => mainThread = "terminated"
      BY DEF Startup, browseServerKeyFile, runServer, dialogResult,
             DismissOpenError, RemoveDevice
    <2>2. device' => device
      BY DEF Startup, browseServerKeyFile, runServer, dialogResult,
             DismissOpenError, RemoveDevice, TypeOK, StartupTypeOK
    <2>. QED  BY <2>1, <2>2 DEF OnlyBadStartTerminates, ReadsKey
  <1>. QED  BY <1>1, <1>2, QuietStep

LEMMA QuitServerStep ==
    ASSUME IInv, QuitServer, open' = [a \in Attempts |-> FALSE],
           UNCHANGED <<clientVars, threadVars, toServer, toClient>>,
           UNCHANGED late
    PROVE  IInv'
  <1>. USE DEF IInv, clientVars, threadVars, QuitServer, EndProgram
  <1>1. TypeOK'
    BY DEF TypeOK, StartupTypeOK
  <1>2. OnlyBadStartTerminates'
    BY DEF OnlyBadStartTerminates
  <1>. QED  BY <1>1, <1>2, QuietStep

\* The program is ended by a thread whose key file or database is not there.
LEMMA TerminateStep ==
    ASSUME IInv, NEW a \in Attempts, Terminate, UNCHANGED late,
           server[a] = "hello", ~ReadsKey(a) \/ taken[a].database = "unset"
    PROVE  IInv'
  <1>. USE DEF IInv, clientVars, threadVars, Terminate, EndProgram
  <1>1. TypeOK'
    BY DEF TypeOK, StartupTypeOK
  <1>2. OnlyBadStartTerminates'
    BY DEF OnlyBadStartTerminates, ReadsKey
  <1>. QED  BY <1>1, <1>2, QuietStep

\* The dialog closes.
LEMMA CloseStep ==
    ASSUME IInv, UNCHANGED late, dialog' = "closed", message' \in Messages,
           \/ open' = [open EXCEPT ![attempt] = FALSE]
           \/ open' = [a \in Attempts |-> open[a] /\ a # attempt],
           UNCHANGED <<mainVars, attempt, form, threadVars, toServer,
                       toClient>>
    PROVE  IInv'
  <1>. USE DEF IInv, threadVars, mainVars
  <1>1. open' \in [Attempts -> BOOLEAN]
        /\ \A a \in Attempts : open'[a] => open[a]
    BY DEF TypeOK
  <1>2. TypeOK'
    BY <1>1 DEF TypeOK, StartupTypeOK
  <1>3. OnlyBadStartTerminates'
    BY DEF OnlyBadStartTerminates, ReadsKey
  <1>. QED  BY <1>1, <1>2, <1>3, QuietStep

LEMMA NoVerdictStep ==
    ASSUME IInv, NoVerdict, UNCHANGED late
    PROVE  IInv'
  <1>. USE DEF IInv, NoVerdict, threadVars, linkVars, mainVars
  <1>1. TypeOK'
    <2>1. StartupTypeOK' /\ message' \in Messages
      BY DEF TypeOK, StartupTypeOK, Messages
    <2>. QED  BY <2>1 DEF TypeOK
  <1>2. OnlyBadStartTerminates'
    BY DEF OnlyBadStartTerminates, ReadsKey
  <1>3. \A a \in Attempts : open'[a] => open[a]
    OBVIOUS
  <1>. QED  BY <1>1, <1>2, <1>3, QuietStep

LEMMA ClosingSteps ==
    ASSUME IInv, UNCHANGED late,
           NoChallenge \/ BadChallenge \/ FailToReadSK \/ Quit
    PROVE  IInv'
  <1>1. CASE NoChallenge
    <2>1. message' \in Messages
      BY <1>1 DEF Messages, NoChallenge, GiveUp
    <2>. QED
      BY <1>1, <2>1, CloseStep DEF NoChallenge, GiveUp, Close, Shut
  <1>2. CASE BadChallenge
    <2>1. message' \in Messages
      BY <1>2 DEF Messages, BadChallenge, GiveUp
    <2>. QED
      BY <1>2, <2>1, CloseStep DEF BadChallenge, GiveUp, Close, Shut
  <1>3. message \in Messages
    BY DEF IInv, TypeOK
  <1>4. CASE FailToReadSK
    BY <1>3, <1>4, CloseStep DEF FailToReadSK, Close, Shut
  <1>5. CASE Quit
    BY <1>3, <1>5, CloseStep DEF Quit
  <1>. QED  BY <1>1, <1>2, <1>4, <1>5

-----------------------------------------------------------------------------
(* The dialog connects, answers and reads its verdict.                     *)

LEMMA ConnectStep ==
    ASSUME IInv, ConnectToServer, UNCHANGED late
    PROVE  IInv'
  <1>. USE DEF IInv
  <1>0. attempt' = attempt + 1 /\ attempt < MaxAttempts
    BY DEF ConnectToServer, Connect
  <1>1. /\ attempt' \in Attempts
        /\ attempt' > attempt
        /\ attempt' = attempt + 1
        /\ dialog = "ready"
        /\ dialog' \in {"closed", "challenge"}
        /\ server' = [server EXCEPT ![attempt'] = "backlog"]
        /\ UNCHANGED <<mainVars, taken, toClient>>
        /\ mainThread # "terminated"
    <2>1. attempt' \in Attempts /\ attempt' > attempt
      BY <1>0, AttemptsAssumption DEF TypeOK, Attempts
    <2>2. dialog' \in {"closed", "challenge"}
      BY DEF ConnectToServer, SendHello
    <2>. QED  BY <1>0, <2>1, <2>2 DEF ConnectToServer, Connect
  <1>2. PICK f \in Forms :
            /\ form' = [form EXCEPT ![attempt'] = f]
            /\ \/ toServer' = toServer
               \/ toServer' = [toServer EXCEPT ![attempt'] = <<Hello>>]
            /\ message' \in {message, "Server PK is not correctly specified."}
    BY DEF ConnectToServer, SendHello
  <1>3. open' = [a \in Attempts |-> IF a = attempt' THEN dialog' = "challenge"
                                    ELSE open[a] /\ a # attempt]
    BY DEF ConnectToServer
  <1>4. /\ server[attempt'] = "none"
        /\ toServer[attempt'] = <<>>
        /\ toClient[attempt'] = <<>>
    BY <1>1 DEF AttemptsInv
  <1>5. /\ server' \in [Attempts -> {"none", "backlog", "hello", "challenge",
                               "dropped", "stuck", "denied", "passed"}]
        /\ server'[attempt'] = "backlog"
        /\ \A a \in Attempts : a # attempt' => server'[a] = server[a]
    BY <1>1 DEF TypeOK
  <1>6. /\ form' \in [Attempts -> Forms]
        /\ \A a \in Attempts : a # attempt' => form'[a] = form[a]
    BY <1>1, <1>2 DEF TypeOK
  <1>7. /\ toServer' \in [Attempts -> Seq(ToServer)]
        /\ toServer'[attempt'] \in {<<>>, <<Hello>>}
        /\ \A a \in Attempts : a # attempt' => toServer'[a] = toServer[a]
    <2>1. <<Hello>> \in Seq(ToServer) /\ <<>> \in Seq(ToServer)
      BY QueuesTyped
    <2>. QED  BY <1>1, <1>2, <1>4, <2>1, QueuesTyped
  <1>8. TypeOK'
    <2>1. StartupTypeOK'
      BY <1>1 DEF TypeOK, StartupTypeOK, mainVars
    <2>2. attempt' \in 0 .. MaxAttempts /\ dialog' \in {"ready", "challenge",
              "verdict", "accepted", "closed"}
      BY <1>1, AttemptsAssumption DEF Attempts
    <2>4. message' \in Messages
      BY <1>2 DEF Messages, TypeOK
    <2>3. open' \in [Attempts -> BOOLEAN]
      BY <1>3 DEF TypeOK
    <2>. QED  BY <1>1, <1>5, <1>6, <1>7, <2>1, <2>2, <2>3, <2>4
            DEF TypeOK, ToServer
  <1>9. DialogInv'
    BY <1>1 DEF DialogInv
  <1>10. AttemptsInv'
    <2>. SUFFICES ASSUME NEW a \in Attempts
                  PROVE  (/\ open[a] => a = attempt
                          /\ a > attempt => /\ server[a] = "none"
                                            /\ toServer[a] = <<>>
                                            /\ toClient[a] = <<>>)'
      BY DEF AttemptsInv
    <2>1. open'[a] => a = attempt'
      BY <1>3 DEF AttemptsInv
    <2>2. a > attempt' => a > attempt /\ a # attempt'
      BY <1>1, QueuesTyped
    <2>. QED  BY <1>1, <1>5, <1>7, <2>1, <2>2 DEF AttemptsInv
  <1>11. ToServerInv'
    <2>. SUFFICES ASSUME NEW a \in Attempts, NEW i \in 1 .. Len(toServer'[a])
                  PROVE  (\/ /\ toServer[a][i] = Hello
                             /\ i = 1
                             /\ server[a] \in {"backlog", "hello", "dropped",
                                               "stuck"}
                          \/ \E text \in {EmptyText} \cup Attempts :
                                /\ toServer[a][i] = Answer(text)
                                /\ text = a => HoldsKey(a))'
      BY DEF ToServerInv
    <2>1. CASE a = attempt'
      <3>1. toServer'[a] = <<Hello>> /\ i = 1
        <4>1. CASE toServer'[attempt'] = <<>>
          BY <2>1, <4>1
        <4>2. CASE toServer'[attempt'] = <<Hello>>
          BY <2>1, <4>2
        <4>. QED  BY <1>7, <4>1, <4>2
      <3>. QED  BY <1>5, <2>1, <3>1
    <2>2. CASE a # attempt'
      <3>1. toServer'[a] = toServer[a] /\ server'[a] = server[a]
        BY <1>5, <1>7, <2>2
      <3>2. HoldsKey(a)' = HoldsKey(a)
        BY <1>6, <2>2 DEF HoldsKey
      <3>. QED  BY <3>1, <3>2 DEF ToServerInv
    <2>. QED  BY <2>1, <2>2
  <1>12. VerdictInv'
    <2>. SUFFICES ASSUME NEW a \in Attempts, NEW i \in 1 .. Len(toClient'[a]),
                         toClient'[a][i].ind = "LOGIN_OK"
                  PROVE  server'[a] = "passed"
      BY DEF VerdictInv
    <2>1. a # attempt'
      BY <1>1, <1>4
    <2>. QED  BY <1>1, <1>5, <2>1 DEF VerdictInv
  <1>13. PassedInv'
    BY <1>1, <1>5, <1>6 DEF PassedInv, HoldsKey
  <1>14. OnlyBadStartTerminates'
    BY <1>1 DEF OnlyBadStartTerminates, mainVars
  <1>. QED  BY <1>8, <1>9, <1>10, <1>11, <1>12, <1>13, <1>14

LEMMA AnswerChallengeStep ==
    ASSUME IInv, AnswerChallenge, UNCHANGED late
    PROVE  IInv'
  <1>. USE DEF IInv
  <1>. DEFINE f == form[attempt]
              text == checkClientSK(SkFile(f), f.password,
                                    Head(toClient[attempt]).cipher)
  <1>1. /\ attempt \in Attempts
        /\ toClient[attempt] # <<>>
        /\ dialog' = "verdict"
        /\ toClient' = [toClient EXCEPT ![attempt] = Tail(toClient[attempt])]
        /\ toServer' = IF open[attempt]
                          THEN [toServer EXCEPT ![attempt] =
                                    Append(toServer[attempt], Answer(text))]
                          ELSE toServer
        /\ UNCHANGED <<mainVars, attempt, form, message, threadVars, open>>
    BY DEF AnswerChallenge, DialogInv
  <1>2. /\ toServer \in [Attempts -> Seq(ToServer)]
        /\ DOMAIN toClient = Attempts
        /\ \A a \in Attempts : toClient[a] \in Seq(ToClient(a))
        /\ f \in Forms
    BY <1>1, QueuesTyped DEF DialogInv, TypeOK
  <1>3. Head(toClient[attempt]) \in ToClient(attempt)
    BY <1>1, <1>2, HeadElement
  <1>4. /\ text \in {EmptyText} \cup Attempts
        /\ text = attempt => HoldsKey(attempt)
    BY <1>1, <1>2, <1>3, OnlyKeyOpensChallenge DEF HoldsKey
  <1>. HIDE DEF text
  <1>5. /\ DOMAIN toClient' = Attempts
        /\ toClient'[attempt] = Tail(toClient[attempt])
        /\ \A a \in Attempts : toClient'[a] \in Seq(ToClient(a))
        /\ \A a \in Attempts : a # attempt => toClient'[a] = toClient[a]
    <2>1. Tail(toClient[attempt]) \in Seq(ToClient(attempt))
      BY <1>1, <1>2, HeadElement
    <2>. QED  BY <1>1, <1>2, <2>1
  <1>6. Answer(text) \in ToServer
    BY <1>4 DEF ToServer
  <1>7. /\ toServer' \in [Attempts -> Seq(ToServer)]
        /\ \/ toServer'[attempt] = toServer[attempt]
           \/ toServer'[attempt] = Append(toServer[attempt], Answer(text))
        /\ \A a \in Attempts : a # attempt => toServer'[a] = toServer[a]
    BY <1>1, <1>2, <1>6
  <1>8. TypeOK'
    BY <1>1, <1>5, <1>7
       DEF TypeOK, StartupTypeOK, threadVars, mainVars, ToServer, ToClient
  <1>9. DialogInv'
    BY <1>1, <1>5 DEF DialogInv
  <1>10. AttemptsInv'
    <2>1. attempt \in Nat /\ ~(attempt > attempt)
      BY QueuesTyped
    <2>. QED  BY <1>1, <1>5, <1>7, <2>1 DEF AttemptsInv, threadVars
  <1>11. ToServerInv'
    <2>. SUFFICES ASSUME NEW a \in Attempts, NEW i \in 1 .. Len(toServer'[a])
                  PROVE  (\/ /\ toServer[a][i] = Hello
                             /\ i = 1
                             /\ server[a] \in {"backlog", "hello", "dropped",
                                               "stuck"}
                          \/ \E t \in {EmptyText} \cup Attempts :
                                /\ toServer[a][i] = Answer(t)
                                /\ t = a => HoldsKey(a))'
      BY DEF ToServerInv
    <2>1. \/ i \in 1 .. Len(toServer[a]) /\ toServer'[a][i] = toServer[a][i]
          \/ a = attempt /\ toServer'[a][i] = Answer(text)
      <3>1. CASE toServer'[a] = toServer[a]
        BY <3>1
      <3>2. CASE /\ a = attempt
                 /\ toServer'[a] = Append(toServer[attempt], Answer(text))
        <4>1. toServer[attempt] \in Seq(ToServer)
          BY <1>1, <1>2
        <4>. QED  BY <1>6, <3>2, <4>1, AppendElements
      <3>. QED  BY <1>7, <3>1, <3>2
    <2>2. HoldsKey(a)' = HoldsKey(a) /\ server' = server
      BY <1>1 DEF HoldsKey, threadVars
    <2>3. CASE i \in 1 .. Len(toServer[a]) /\ toServer'[a][i] = toServer[a][i]
      BY <2>2, <2>3 DEF ToServerInv
    <2>4. CASE a = attempt /\ toServer'[a][i] = Answer(text)
      BY <1>4, <2>2, <2>4
    <2>. QED  BY <2>1, <2>3, <2>4
  <1>12. VerdictInv'
    <2>. SUFFICES ASSUME NEW a \in Attempts, NEW i \in 1 .. Len(toClient'[a]),
                         toClient'[a][i].ind = "LOGIN_OK"
                  PROVE  server'[a] = "passed"
      BY DEF VerdictInv
    <2>1. \E j \in 1 .. Len(toClient[a]) : toClient'[a][i] = toClient[a][j]
      BY <1>1, <1>2, <1>5, TailElements
    <2>. QED  BY <1>1, <2>1 DEF VerdictInv, threadVars
  <1>13. PassedInv'
    BY <1>1 DEF PassedInv, HoldsKey, threadVars
  <1>14. OnlyBadStartTerminates'
    BY <1>1 DEF OnlyBadStartTerminates, ReadsKey, mainVars, threadVars
  <1>. QED  BY <1>8, <1>9, <1>10, <1>11, <1>12, <1>13, <1>14

\* The verdict that is read is of this connection.
LEMMA ReadVerdictStep ==
    ASSUME IInv, ReadVerdict, UNCHANGED late
    PROVE  IInv'
  <1>. USE DEF IInv
  <1>1. /\ attempt \in Attempts
        /\ toClient[attempt] # <<>>
        /\ toClient' = [toClient EXCEPT ![attempt] = Tail(toClient[attempt])]
        /\ dialog' \in {"accepted", "ready"}
        /\ dialog' = "accepted" => Head(toClient[attempt]).ind = "LOGIN_OK"
        /\ message' \in Messages
        /\ UNCHANGED <<mainVars, attempt, form, threadVars, open, toServer>>
    BY DEF ReadVerdict, DialogInv, TypeOK, Messages
  <1>2. /\ DOMAIN toClient = Attempts
        /\ \A a \in Attempts : toClient[a] \in Seq(ToClient(a))
    BY QueuesTyped DEF DialogInv
  <1>3. /\ DOMAIN toClient' = Attempts
        /\ toClient'[attempt] = Tail(toClient[attempt])
        /\ \A a \in Attempts : toClient'[a] \in Seq(ToClient(a))
        /\ \A a \in Attempts : a # attempt => toClient'[a] = toClient[a]
    <2>1. Tail(toClient[attempt]) \in Seq(ToClient(attempt))
      BY <1>1, <1>2, HeadElement
    <2>. QED  BY <1>1, <1>2, <2>1
  <1>4. TypeOK'
    BY <1>1, <1>3 DEF TypeOK, StartupTypeOK, threadVars, mainVars, ToClient
  <1>5. DialogInv'
    BY <1>1, <1>3 DEF DialogInv
  <1>6. AttemptsInv'
    <2>1. attempt \in Nat /\ ~(attempt > attempt)
      BY QueuesTyped
    <2>. QED  BY <1>1, <1>3, <2>1 DEF AttemptsInv, threadVars
  <1>7. ToServerInv'
    BY <1>1 DEF ToServerInv, HoldsKey, threadVars
  <1>8. VerdictInv'
    <2>. SUFFICES ASSUME NEW a \in Attempts, NEW i \in 1 .. Len(toClient'[a]),
                         toClient'[a][i].ind = "LOGIN_OK"
                  PROVE  server'[a] = "passed"
      BY DEF VerdictInv
    <2>1. \E j \in 1 .. Len(toClient[a]) : toClient'[a][i] = toClient[a][j]
      BY <1>1, <1>2, <1>3, TailElements
    <2>. QED  BY <1>1, <2>1 DEF VerdictInv, threadVars
  <1>9. PassedInv'
    <2>1. dialog' = "accepted" => server[attempt] = "passed"
      BY <1>1, <1>2, HeadElement DEF VerdictInv
    <2>. QED  BY <1>1, <2>1 DEF PassedInv, HoldsKey, threadVars
  <1>10. OnlyBadStartTerminates'
    BY <1>1 DEF OnlyBadStartTerminates, ReadsKey, mainVars, threadVars
  <1>. QED  BY <1>4, <1>5, <1>6, <1>7, <1>8, <1>9, <1>10

-----------------------------------------------------------------------------
(* The thread of a connection.                                             *)

\* It is accepted, dropped, or stuck: no block moves.
LEMMA ThreadMoves ==
    ASSUME IInv, UNCHANGED late, NEW a \in Attempts, Running,
           NEW state \in {"hello", "dropped", "stuck"},
           \/ state = "hello" /\ server[a] = "backlog"
           \/ state # "hello" /\ server[a] = "hello",
           server' = [server EXCEPT ![a] = state],
           taken' \in [Attempts -> [path : KeyPaths, database : Databases]],
           UNCHANGED <<mainVars, clientVars, linkVars>>
    PROVE  IInv'
  <1>. USE DEF IInv, mainVars, clientVars, linkVars
  <1>1. /\ server'[a] = state
        /\ \A b \in Attempts : b # a => server'[b] = server[b]
        /\ server' \in [Attempts -> {"none", "backlog", "hello", "challenge",
                               "dropped", "stuck", "denied", "passed"}]
    BY DEF TypeOK
  <1>2. TypeOK'
    BY <1>1 DEF TypeOK, StartupTypeOK
  <1>3. DialogInv'
    BY DEF DialogInv
  <1>4. AttemptsInv'
    BY <1>1 DEF AttemptsInv
  <1>5. ToServerInv'
    <2>1. \A b \in Attempts :
              server[b] \in {"backlog", "hello", "dropped", "stuck"} =>
                  server'[b] \in {"backlog", "hello", "dropped", "stuck"}
      BY <1>1
    <2>. QED  BY <2>1 DEF ToServerInv, HoldsKey
  <1>6. VerdictInv'
    BY <1>1 DEF VerdictInv
  <1>7. PassedInv'
    <2>1. \A b \in Attempts : server'[b] \in {"challenge", "passed"} =>
                                  server'[b] = server[b]
      BY <1>1
    <2>2. dialog = "accepted" => attempt # a
      BY DEF PassedInv
    <2>3. dialog = "accepted" => server'[attempt] = server[attempt]
      BY <1>1, <2>2 DEF DialogInv
    <2>. QED  BY <2>1, <2>3 DEF PassedInv, HoldsKey
  <1>8. OnlyBadStartTerminates'
    BY DEF Running, OnlyBadStartTerminates
  <1>. QED  BY <1>2, <1>3, <1>4, <1>5, <1>6, <1>7, <1>8

\* It takes the first block of its client, or none, sends one, and goes on.
LEMMA ThreadAnswers ==
    ASSUME IInv, UNCHANGED late, NEW a \in Attempts, Running,
           server[a] \in {"hello", "challenge"},
           NEW state \in {"challenge", "denied", "passed"},
           NEW block \in ToClient(a), Send(a, block),
           block.ind = "LOGIN_OK" => state = "passed",
           server' = [server EXCEPT ![a] = state],
           \/ /\ toServer[a] # <<>>
              /\ toServer' = [toServer EXCEPT ![a] = Tail(toServer[a])]
           \/ server[a] = "challenge" /\ toServer' = toServer,
           state # "denied" => form[a].known,
           state = "passed" => HoldsKey(a),
           open' \in {open, [open EXCEPT ![a] = FALSE]},
           UNCHANGED <<mainVars, clientVars, taken>>
    PROVE  IInv'
  <1>. USE DEF IInv, mainVars, clientVars
  <1>1. /\ server'[a] = state
        /\ \A b \in Attempts : b # a => server'[b] = server[b]
        /\ server' \in [Attempts -> {"none", "backlog", "hello", "challenge",
                               "dropped", "stuck", "denied", "passed"}]
    BY DEF TypeOK
  <1>2. /\ open' \in [Attempts -> BOOLEAN]
        /\ \A b \in Attempts : open'[b] => open[b]
    BY DEF TypeOK
  <1>3. /\ toServer' \in [Attempts -> Seq(ToServer)]
        /\ \A b \in Attempts : b # a => toServer'[b] = toServer[b]
        /\ \/ toServer'[a] = Tail(toServer[a]) /\ toServer[a] # <<>>
           \/ toServer'[a] = toServer[a] /\ server[a] = "challenge"
    <2>1. toServer[a] # <<>> => Tail(toServer[a]) \in Seq(ToServer)
      BY QueuesTyped, HeadElement
    <2>. QED  BY <2>1, QueuesTyped
  <1>4. /\ DOMAIN toClient' = Attempts
        /\ \A b \in Attempts : toClient'[b] \in Seq(ToClient(b))
        /\ \A b \in Attempts : b # a => toClient'[b] = toClient[b]
        /\ \A i \in 1 .. Len(toClient'[a]) :
               \/ i \in 1 .. Len(toClient[a])
                  /\ toClient'[a][i] = toClient[a][i]
               \/ toClient'[a][i] = block
    BY Sent
  <1>5. TypeOK'
    BY <1>1, <1>2, <1>3, <1>4
       DEF TypeOK, StartupTypeOK, ToServer, ToClient
  <1>6. DialogInv'
    BY <1>4 DEF DialogInv
  <1>7. AttemptsInv'
    <2>1. ~(a > attempt)
      BY DEF AttemptsInv
    <2>2. \A b \in Attempts : b > attempt => b # a
      BY <2>1
    <2>3. \A b \in Attempts : open'[b] => b = attempt
      BY <1>2 DEF AttemptsInv
    <2>4. ASSUME NEW b \in Attempts, b > attempt
          PROVE  /\ server'[b] = "none"
                 /\ toServer'[b] = <<>>
                 /\ toClient'[b] = <<>>
      <3>1. b # a
        BY <2>2, <2>4
      <3>2. server[b] = "none" /\ toServer[b] = <<>> /\ toClient[b] = <<>>
        BY <2>4 DEF AttemptsInv
      <3>. QED  BY <1>1, <1>3, <1>4, <3>1, <3>2
    <2>5. attempt' = attempt
      OBVIOUS
    <2>. QED  BY <2>3, <2>4, <2>5 DEF AttemptsInv
  <1>8. ToServerInv'
    <2>. SUFFICES ASSUME NEW b \in Attempts, NEW i \in 1 .. Len(toServer'[b])
                  PROVE  (\/ /\ toServer[b][i] = Hello
                             /\ i = 1
                             /\ server[b] \in {"backlog", "hello", "dropped",
                                               "stuck"}
                          \/ \E t \in {EmptyText} \cup Attempts :
                                /\ toServer[b][i] = Answer(t)
                                /\ t = b => HoldsKey(b))'
      BY DEF ToServerInv
    <2>1. HoldsKey(b)' = HoldsKey(b)
      BY DEF HoldsKey
    <2>2. CASE b # a
      BY <1>1, <1>3, <2>1, <2>2 DEF ToServerInv
    <2>3. CASE b = a /\ toServer'[a] = toServer[a] /\ server[a] = "challenge"
      BY <2>1, <2>3 DEF ToServerInv
    <2>4. CASE b = a /\ toServer'[a] = Tail(toServer[a]) /\ toServer[a] # <<>>
      <3>1. /\ i + 1 \in 1 .. Len(toServer[a])
            /\ i + 1 # 1
            /\ toServer'[a][i] = toServer[a][i + 1]
        <4>1. toServer[a] \in Seq(ToServer)
          BY QueuesTyped
        <4>. QED  BY <2>4, <4>1, TailElements
      <3>. QED  BY <2>1, <2>4, <3>1 DEF ToServerInv
    <2>. QED  BY <1>3, <2>2, <2>3, <2>4
  <1>9. VerdictInv'
    <2>. SUFFICES ASSUME NEW b \in Attempts, NEW i \in 1 .. Len(toClient'[b]),
                         toClient'[b][i].ind = "LOGIN_OK"
                  PROVE  server'[b] = "passed"
      BY DEF VerdictInv
    <2>1. CASE b # a
      BY <1>1, <1>4, <2>1 DEF VerdictInv
    <2>2. CASE b = a
      <3>1. \A j \in 1 .. Len(toClient[a]) : toClient[a][j].ind # "LOGIN_OK"
        BY DEF VerdictInv
      <3>. QED  BY <1>1, <1>4, <2>2, <3>1
    <2>. QED  BY <2>1, <2>2
  <1>10. PassedInv'
    <2>1. \A b \in Attempts : HoldsKey(b)' = HoldsKey(b)
      BY DEF HoldsKey
    <2>2. \A b \in Attempts :
              /\ server'[b] \in {"challenge", "passed"} => form[b].known
              /\ server'[b] = "passed" => HoldsKey(b)
      BY <1>1 DEF PassedInv
    <2>3. dialog = "accepted" => attempt # a
      BY DEF PassedInv
    <2>4. dialog = "accepted" => server'[attempt] = server[attempt]
      BY <1>1, <2>3 DEF DialogInv
    <2>. QED  BY <2>1, <2>2, <2>4 DEF PassedInv
  <1>11. OnlyBadStartTerminates'
    BY DEF Running, OnlyBadStartTerminates
  <1>. QED  BY <1>5, <1>6, <1>7, <1>8, <1>9, <1>10, <1>11

LEMMA new_userStep ==
    ASSUME IInv, UNCHANGED late, NEW a \in Attempts, new_user(a)
    PROVE  IInv'
  <1>1. taken' \in [Attempts -> [path : KeyPaths, database : Databases]]
    BY DEF IInv, TypeOK, StartupTypeOK, new_user
  <1>. QED  BY <1>1, ThreadMoves DEF new_user

LEMMA DropStep ==
    ASSUME IInv, UNCHANGED late, NEW a \in Attempts, Drop(a)
    PROVE  IInv'
  <1>1. taken' \in [Attempts -> [path : KeyPaths, database : Databases]]
    BY DEF IInv, TypeOK, Drop
  <1>. QED  BY <1>1, ThreadMoves DEF Drop, Authenticates

LEMMA UseUnsetDatabaseStep ==
    ASSUME IInv, UNCHANGED late, NEW a \in Attempts, UseUnsetDatabase(a)
    PROVE  IInv'
  <1>1. /\ Running
        /\ server[a] = "hello"
        /\ taken[a].database = "unset"
    BY DEF UseUnsetDatabase, GotHello, Authenticates
  <1>2. CASE Terminate
    BY <1>1, <1>2, TerminateStep
  <1>3. CASE /\ server' = [server EXCEPT ![a] = "stuck"]
             /\ UNCHANGED <<mainVars, clientVars, taken, linkVars>>
    <2>1. taken' \in [Attempts -> [path : KeyPaths, database : Databases]]
      BY <1>3 DEF IInv, TypeOK
    <2>. QED  BY <1>1, <1>3, <2>1, ThreadMoves
  <1>. QED  BY <1>2, <1>3 DEF UseUnsetDatabase

\* The two verdicts and the challenge are blocks of the connection.
LEMMA SentBlocks ==
    ASSUME NEW a \in Attempts
    PROVE  /\ Verdict("LOGIN_OK") \in ToClient(a)
           /\ Verdict("LOGIN_DENIED") \in ToClient(a)
           /\ Verdict("LOGIN_DENIED").ind = "LOGIN_DENIED"
           /\ [ind |-> "challenge", cipher |-> Question(a).cipher]
                  \in ToClient(a)
           /\ [ind |-> "challenge", cipher |-> Question(a).cipher].ind
                  = "challenge"
  BY DEF ToClient, Verdict

LEMMA UnknownUserStep ==
    ASSUME IInv, UNCHANGED late, NEW a \in Attempts, UnknownUser(a)
    PROVE  IInv'
  <1>1. /\ Running
        /\ server[a] = "hello"
        /\ toServer[a] # <<>>
        /\ toServer' = [toServer EXCEPT ![a] = Tail(toServer[a])]
        /\ server' = [server EXCEPT ![a] = "denied"]
        /\ Send(a, Verdict("LOGIN_DENIED"))
        /\ open' = [open EXCEPT ![a] = FALSE]
        /\ UNCHANGED <<mainVars, clientVars, taken>>
    BY DEF UnknownUser, GotHello, Authenticates, Deny, Shut
  <1>. QED  BY <1>1, ThreadAnswers, SentBlocks

LEMMA ChallengeStep ==
    ASSUME IInv, UNCHANGED late, NEW a \in Attempts, Challenge(a)
    PROVE  IInv'
  <1>1. /\ Running
        /\ server[a] = "hello"
        /\ toServer[a] # <<>>
        /\ form[a].known
        /\ toServer' = [toServer EXCEPT ![a] = Tail(toServer[a])]
        /\ server' = [server EXCEPT ![a] = "challenge"]
        /\ Send(a, [ind |-> "challenge", cipher |-> Question(a).cipher])
        /\ UNCHANGED <<mainVars, clientVars, taken, open>>
    BY DEF Challenge, GotHello, Authenticates
  <1>. QED  BY <1>1, ThreadAnswers, SentBlocks

LEMMA FailChallengeStep ==
    ASSUME IInv, UNCHANGED late, NEW a \in Attempts, FailChallenge(a)
    PROVE  IInv'
  <1>1. /\ Running
        /\ server[a] = "challenge"
        /\ toServer' = toServer
        /\ server' = [server EXCEPT ![a] = "denied"]
        /\ Send(a, Verdict("LOGIN_DENIED"))
        /\ open' = [open EXCEPT ![a] = FALSE]
        /\ UNCHANGED <<mainVars, clientVars, taken>>
    BY DEF FailChallenge, Deny, Shut
  <1>. QED  BY <1>1, ThreadAnswers, SentBlocks

\* Who is passed has answered with the text of the challenge, which only the
\* private key of the name gives.
LEMMA PassChallengeStep ==
    ASSUME IInv, UNCHANGED late, NEW a \in Attempts, PassChallenge(a)
    PROVE  IInv'
  <1>1. /\ Running
        /\ server[a] = "challenge"
        /\ toServer[a] # <<>>
        /\ toServer' = [toServer EXCEPT ![a] = Tail(toServer[a])]
        /\ server' = [server EXCEPT ![a] = "passed"]
        /\ Send(a, Verdict("LOGIN_OK"))
        /\ UNCHANGED <<mainVars, clientVars, taken, open>>
        /\ Head(toServer[a]).text = Question(a).text
    BY DEF PassChallenge
  <1>2. form[a].known
    BY <1>1 DEF IInv, PassedInv
  <1>3. Question(a).text = a
    BY DEF Question, generateTextForChecking
  <1>4. 1 \in 1 .. Len(toServer[a]) /\ Head(toServer[a]) = toServer[a][1]
    BY <1>1, QueuesTyped, HeadElement DEF IInv
  <1>5. PICK text \in {EmptyText} \cup Attempts :
            /\ toServer[a][1] = Answer(text)
            /\ text = a => HoldsKey(a)
    BY <1>1, <1>4 DEF IInv, ToServerInv
  <1>6. Answer(text).text = text
    BY DEF Answer
  <1>7. HoldsKey(a)
    BY <1>1, <1>3, <1>4, <1>5, <1>6
  <1>. QED  BY <1>1, <1>2, <1>7, ThreadAnswers, SentBlocks

-----------------------------------------------------------------------------
(* The invariant.                                                          *)

LEMMA Initially ==
    ASSUME Init
    PROVE  IInv
  <1>1. 0 \in 0 .. MaxAttempts /\ "" \in Messages
    BY AttemptsAssumption DEF Messages
  <1>2. [serverKey |-> "none", known |-> FALSE, skFile |-> 0,
         password |-> "wrong"] \in Forms
    BY DEF Forms
  <1>3. [path |-> "", database |-> "unset"]
            \in [path : KeyPaths, database : Databases]
    BY DEF KeyPaths, Databases
  <1>4. /\ <<>> \in Seq(ToServer)
        /\ \A a \in Attempts : <<>> \in Seq(ToClient(a))
        /\ \A i \in 1 .. Len(<<>>) : FALSE
    OBVIOUS
  <1>5. TypeOK
    <2>1. StartupTypeOK
      BY DEF Init, StartupInit, StartupTypeOK, KeyPaths, Databases
    <2>2. form \in [Attempts -> Forms]
      BY <1>2 DEF Init
    <2>3. taken \in [Attempts -> [path : KeyPaths, database : Databases]]
      BY <1>3 DEF Init
    <2>4. toServer \in [Attempts -> Seq(ToServer)]
          /\ \A a \in Attempts : toClient[a] \in Seq(ToClient(a))
      BY <1>4 DEF Init
    <2>. QED
      BY <1>1, <2>1, <2>2, <2>3, <2>4 DEF Init, TypeOK, ToServer, ToClient
  <1>6. DialogInv /\ AttemptsInv /\ PassedInv
    BY DEF Init, DialogInv, AttemptsInv, PassedInv
  <1>7. OnlyBadStartTerminates
    BY DEF Init, StartupInit, OnlyBadStartTerminates
  <1>8. ToServerInv /\ VerdictInv
    <2>1. \A a \in Attempts : toServer[a] = <<>> /\ toClient[a] = <<>>
      BY DEF Init
    <2>. QED  BY <1>4, <2>1 DEF ToServerInv, VerdictInv
  <1>. QED  BY <1>5, <1>6, <1>7, <1>8 DEF IInv

LEMMA Inductive ==
    ASSUME IInv, [Next]_vars
    PROVE  IInv'
  <1>1. CASE UNCHANGED vars
    <2>. USE <1>1 DEF vars, clientVars, threadVars, linkVars, mainVars
    <2>1. dialog' \in {dialog, "ready", "closed"}
          /\ \A a \in Attempts : open'[a] => open[a]
      OBVIOUS
    <2>2. TypeOK'
      BY DEF IInv, TypeOK, StartupTypeOK
    <2>3. OnlyBadStartTerminates'
      BY DEF IInv, OnlyBadStartTerminates, ReadsKey
    <2>. QED  BY <2>1, <2>2, <2>3, QuietStep
  <1>2. CASE Next
    <2>1. UNCHANGED late
      BY <1>2 DEF Next
    <2>2. CASE Client
      <3>1. CASE ConnectToServer
        BY <2>1, <3>1, ConnectStep
      <3>2. CASE NoChallenge \/ BadChallenge \/ FailToReadSK \/ Quit
        BY <2>1, <3>2, ClosingSteps
      <3>3. CASE AnswerChallenge
        BY <2>1, <3>3, AnswerChallengeStep
      <3>4. CASE ReadVerdict
        BY <2>1, <3>4, ReadVerdictStep
      <3>5. CASE NoVerdict
        BY <2>1, <3>5, NoVerdictStep
      <3>. QED  BY <2>2, <3>1, <3>2, <3>3, <3>4, <3>5 DEF Client
    <2>3. CASE ServerUser
      BY <2>1, <2>3, StartupStep, QuitServerStep DEF ServerUser
    <2>4. ASSUME NEW a \in Attempts, Thread(a)
          PROVE  IInv'
      <3>1. CASE new_user(a)
        BY <2>1, <3>1, new_userStep
      <3>2. CASE FailToReadKey(a)
        BY <2>1, <3>2, TerminateStep DEF FailToReadKey, Authenticates
      <3>3. CASE Drop(a)
        BY <2>1, <3>3, DropStep
      <3>4. CASE UseUnsetDatabase(a)
        BY <2>1, <3>4, UseUnsetDatabaseStep
      <3>5. CASE UnknownUser(a)
        BY <2>1, <3>5, UnknownUserStep
      <3>6. CASE Challenge(a)
        BY <2>1, <3>6, ChallengeStep
      <3>7. CASE FailChallenge(a)
        BY <2>1, <3>7, FailChallengeStep
      <3>8. CASE PassChallenge(a)
        BY <2>1, <3>8, PassChallengeStep
      <3>. QED
        BY <2>4, <3>1, <3>2, <3>3, <3>4, <3>5, <3>6, <3>7, <3>8 DEF Thread
    <2>. QED  BY <1>2, <2>2, <2>3, <2>4 DEF Next
  <1>. QED  BY <1>1, <1>2

LEMMA Always == Spec => []IInv
  BY Initially, Inductive, PTL DEF Spec

\* TypeOK holds in every reachable state, for any number of attempts.
THEOREM Typing == Spec => []TypeOK
  BY Always, PTL DEF IInv

\* AcceptedIsPassed: a dialog that has closed as accepted was passed by the
\* thread of its own connection, under a known name whose private key it has
\* unlocked (authenticate() of both programs).
THEOREM Acceptance == Spec => []AcceptedIsPassed
  <1>1. IInv => AcceptedIsPassed
    BY DEF IInv, DialogInv, PassedInv, HoldsKey, AcceptedIsPassed
  <1>. QED  BY <1>1, Always, PTL

\* OneSession: of all the connections a dialog has made, one at most is open
\* and logged in (abort() in connectToServer()).
THEOREM Sessions == Spec => []OneSession
  <1>1. IInv => OneSession
    BY DEF IInv, AttemptsInv, OneSession
  <1>. QED  BY <1>1, Always, PTL

\* OnlyBadStartTerminates: whatever clients send, the server is ended only by
\* a thread that has no key file, or no database yet (ServerThread::run()).
THEOREM Termination == Spec => []OnlyBadStartTerminates
  BY Always, PTL DEF IInv
=============================================================================
