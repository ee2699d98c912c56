---------------------------- MODULE SecureSocket ----------------------------
(***************************************************************************)
(* Class SecureSocket, the same in both programs: blocks of bytes on a TCP *)
(* connection, each encrypted under an IV of its own.  Both programs have  *)
(* called startEncryptedMode() before they first call writeBlock().        *)
(*                                                                         *)
(* The bytes of a block are two parts: its head (the IV and the lengths)   *)
(* and the rest (the cipher), so that a block can arrive in part, or       *)
(* without its beginning.  What QDataStream makes of bytes that do not     *)
(* start with a head, or end too early, is no block: it takes some of what *)
(* has arrived, how much depends on the bytes.                             *)
(*                                                                         *)
(* writeBlock() inserts into m_usedIV an array made by fromRawData(), which*)
(* points to the stack of the call: once the call has returned, a test for *)
(* that IV reads what other calls have left there, and may fail.           *)
(***************************************************************************)
EXTENDS Cryption, FiniteSetsExt

CONSTANTS
    Sessions,  \* connections, each with a session key of its own
    MaxIV      \* bound: IVs the runs use

ASSUME IVAssumption == MaxIV \in Nat

\* Two SecureSocket objects for each session, and the threads that write them.
Sides == {"server", "client"}
Ends == Sessions \X Sides
Writers == Sessions \X {"main", "worker", "client"}
EndOf(w) == IF w[2] = "client" THEN w ELSE <<w[1], "server">>
Peer(e) == <<e[1], IF e[2] = "client" THEN "server" ELSE "client">>

\* The other thread that writes the same object.
Others(w) == {v \in Writers : EndOf(v) = EndOf(w) /\ v # w}

Messages == [from : Writers, n : Nat \ {0}]
IVs == 1 .. MaxIV

VARIABLES
    m_usedIV,  \* m_usedIV[e]: the IVs e has read, the IVs it has written
    buffer,    \* parts e has taken from its connection and not yet parsed
    accepted,  \* messages readBlock() has given to the program of e
    writing,   \* parts of the block that writer w is writing
    written    \* number of blocks writer w has begun

cryptVars == <<m_usedIV, buffer, accepted, writing, written>>

SecureTypeOK ==
    /\ m_usedIV \in [Ends -> [read : SUBSET IVs, written : SUBSET IVs]]
    /\ \A e \in Ends : accepted[e] \in Seq(Messages)
    /\ written \in [Writers -> Nat]
    /\ \A w \in Writers : Len(writing[w]) <= 2

SecureInit ==
    /\ m_usedIV = [e \in Ends |-> [read |-> {}, written |-> {}]]
    /\ buffer = [e \in Ends |-> <<>>]
    /\ accepted = [e \in Ends |-> <<>>]
    /\ writing = [w \in Writers |-> <<>>]
    /\ written = [w \in Writers |-> 0]

\* m_usedIV.contains(iv) of e.
Contains(e, iv) ==
    {iv \in m_usedIV[e].read}
        \cup (IF iv \in m_usedIV[e].written THEN {TRUE} ELSE {})

-----------------------------------------------------------------------------
\* writeBlock().

IsHead(part) == part.half = "head"

Block(e, iv, message) ==
    <<[half |-> "head", iv |-> iv, message |-> message],
      [half |-> "rest", cipher |-> encryptMessage(e[1], iv, message)]>>

\* The IVs the two ends of a session have used.
IVsInUse(s) ==
    UNION {m_usedIV[e].read \cup m_usedIV[e].written : e \in {s} \X Sides}

\* IVs are random; which of those not in use it is makes no difference.
RandomIVs(s) == IVs \cap 1 .. (Max(IVsInUse(s) \cup {0}) + 1)

\* Mutant of EncryptBlock: a slot runs within another call of writeBlock().
EncryptBlockWithin(w) ==
    LET e == EndOf(w)
    IN  /\ written' = [written EXCEPT ![w] = @ + 1]
        /\ \E iv \in RandomIVs(w[1]) :
               /\ FALSE \in Contains(e, iv)
               /\ m_usedIV' =
                      [m_usedIV EXCEPT ![e].written = @ \cup {iv}]
               /\ writing' = [writing EXCEPT ![w] = @ \o
                      Block(e, iv, [from |-> w, n |-> written'[w]])]
        /\ UNCHANGED <<buffer, accepted>>

\* Up to the call of QTcpSocket::write().
EncryptBlock(w) ==
    LET e == EndOf(w)
    IN  /\ writing[w] = <<>>
        /\ written' = [written EXCEPT ![w] = @ + 1]
        /\ \E iv \in RandomIVs(w[1]) :
               /\ FALSE \in Contains(e, iv)
               /\ m_usedIV' =
                      [m_usedIV EXCEPT ![e].written = @ \cup {iv}]
               /\ writing' = [writing EXCEPT ![w] =
                      Block(e, iv, [from |-> w, n |-> written'[w]])]
        /\ UNCHANGED <<buffer, accepted>>

Collides(w) == \E v \in Others(w) : writing[v] # <<>>

\* The bytes that the next step of write() adds to the stream: those of two
\* threads that write one object at once may be mixed, or get lost in its
\* write buffer.
Written(w) ==
    {<<Head(writing[w])>>} \cup (IF Collides(w) THEN {<<>>} ELSE {})

\* A thread reads between its own calls of writeBlock().
Reads(e) == writing[<<e[1], IF e[2] = "client" THEN "client" ELSE "worker">>] = <<>>

-----------------------------------------------------------------------------
\* readBlock(), of a socket with bytes in its buffer.

\* Bytes of a whole block, or of one whose head has another block's rest.
StartsWithBlock(parts) ==
    Len(parts) >= 2 /\ IsHead(parts[1]) /\ ~IsHead(parts[2])

IsWhole(parts) ==
    StartsWithBlock(parts) /\ parts[2].cipher.message = parts[1].message

Drop(e, n) == buffer' = [buffer EXCEPT ![e] = SubSeq(@, n + 1, Len(@))]

\* Mutant of ReadNoBlock: what is too short is put back (rollback).
ReadNoBlockLater(e) ==
    /\ ~IsWhole(buffer[e])
    /\ \E n \in 1 .. Len(buffer[e]) :
           Drop(e, IF IsHead(buffer[e][1]) THEN 0 ELSE n)
    /\ UNCHANGED <<m_usedIV, accepted>>

\* What in >> pair takes is not a block: it gives an empty cipher, and the
\* exception of substr() in decryptMessage() is caught.
ReadNoBlock(e) ==
    /\ ~IsWhole(buffer[e])
    /\ \E n \in 1 .. Len(buffer[e]) : Drop(e, n)
    /\ UNCHANGED <<m_usedIV, accepted>>

\* Mutant of ReadUsedIV: the IV is inserted before it is looked for.
ReadInsertedIV(e) ==
    LET iv == buffer[e][1].iv
    IN  /\ StartsWithBlock(buffer[e])
        /\ m_usedIV' = [m_usedIV EXCEPT ![e].read = @ \cup {iv}]
        /\ Drop(e, 2)
        /\ UNCHANGED accepted

\* An IV that this side has read, or used itself.
ReadUsedIV(e) ==
    /\ StartsWithBlock(buffer[e])
    /\ TRUE \in Contains(e, buffer[e][1].iv)
    /\ Drop(e, 2)
    /\ UNCHANGED <<m_usedIV, accepted>>

\* The IV is inserted whether or not the block is authentic.  The insertion
\* may get lost while the other thread writes the set.
Decrypt(e) ==
    /\ StartsWithBlock(buffer[e])
    /\ LET iv == buffer[e][1].iv
           res == decryptMessage(e[1], iv, buffer[e][2].cipher)
       IN  /\ FALSE \in Contains(e, iv)
           /\ \/ m_usedIV' = [m_usedIV EXCEPT ![e].read = @ \cup {iv}]
              \/ /\ \E w \in Writers : EndOf(w) = e /\ writing[w] # <<>>
                 /\ UNCHANGED m_usedIV
           /\ accepted' = IF res.valid
                             THEN [accepted EXCEPT ![e] =
                                       Append(@, res.message)]
                             ELSE accepted
    /\ Drop(e, 2)

readBlock(e) ==
    /\ Reads(e)
    /\ buffer[e] # <<>>
    /\ \/ ReadNoBlock(e)
       \/ ReadUsedIV(e)
       \/ Decrypt(e)
    /\ UNCHANGED <<writing, written>>
=============================================================================
