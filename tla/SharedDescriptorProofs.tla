----------------------- MODULE SharedDescriptorProofs -----------------------
(***************************************************************************)
(* What the sockets of both ends give to their programs, for any number of *)
(* connections, IVs and blocks, with two threads of the server that write  *)
(* one object and objects of other connections on its descriptor: blocks   *)
(* of the other end, in order, and all of them if nothing that costs one   *)
(* has happened.                                                           *)
(***************************************************************************)
EXTENDS SharedDescriptor, SequenceTheorems, FiniteSetTheorems,
        WellFoundedInduction, TLAPS

-----------------------------------------------------------------------------
(* Parts.                                                                  *)

MessageOf(part) == IF IsHead(part) THEN part.message ELSE part.cipher.message

From(part) == MessageOf(part).from

Heads == [half : {"head"}, iv : IVs, message : Messages]
Ciphers == [key : Sessions, iv : IVs, message : Messages]
Rests == [half : {"rest"}, cipher : Ciphers]

\* The rest is sealed with the key of its writer's session.
Parts == {part \in Heads \cup Rests :
              IsHead(part) \/ part.cipher.key = From(part)[1]}

\* The place of a part among those of its writer.
Rank(part) == 2 * MessageOf(part).n + (IF IsHead(part) THEN 0 ELSE 1)

\* The two make one block.
Follows(head, rest) ==
    /\ IsHead(head)
    /\ ~IsHead(rest)
    /\ rest.cipher.iv = head.iv
    /\ rest.cipher.message = head.message

\* What is on its way to the objects at end e of a connection.
Line(e) == IF e[2] = "client" THEN down[e[1]] ELSE up[e[1]]

WritersTo(e) == {w \in Writers : EndOf(w) = Peer(e)}

LEMMA EndFacts ==
    /\ \A e \in Ends : /\ e[1] \in Sessions
                       /\ e[2] \in Sides
                       /\ e = <<e[1], e[2]>>
                       /\ Peer(e) \in Ends
                       /\ Peer(e)[1] = e[1]
                       /\ Peer(Peer(e)) = e
                       /\ Peer(e) # e
    /\ \A w \in Writers : /\ w[1] \in Sessions
                          /\ w[2] \in {"main", "worker", "client"}
                          /\ w = <<w[1], w[2]>>
                          /\ EndOf(w) \in Ends
                          /\ EndOf(w)[1] = w[1]
                          /\ EndOf(w)[2] = "client" <=> w[2] = "client"
  BY DEF Ends, Sides, Peer, Writers, EndOf

LEMMA PartFacts ==
    ASSUME NEW p \in Parts
    PROVE  /\ MessageOf(p) \in Messages
           /\ From(p) \in Writers
           /\ MessageOf(p).n \in Nat \ {0}
           /\ Rank(p) \in Nat
           /\ IsHead(p) => p \in Heads
           /\ ~IsHead(p) => /\ p \in Rests
                            /\ p.cipher.key = From(p)[1]
<1>1. p \in Heads \cup Rests
  BY DEF Parts
<1>2. MessageOf(p) \in Messages
  BY <1>1 DEF MessageOf, Heads, Rests, Ciphers, IsHead
<1>3. From(p) \in Writers /\ MessageOf(p).n \in Nat \ {0}
  BY <1>2 DEF From, Messages
<1>4. Rank(p) \in Nat
  BY <1>3 DEF Rank
<1>5. IsHead(p) => p \in Heads
  BY <1>1 DEF IsHead, Rests
<1>6. ~IsHead(p) => p \in Rests /\ p.cipher.key = From(p)[1]
  BY <1>1 DEF IsHead, Heads, Parts
<1> QED BY <1>2, <1>3, <1>4, <1>5, <1>6

-----------------------------------------------------------------------------
(* Sequences of parts.                                                     *)

\* p is found in q, n places further.
Within(p, q) ==
    /\ p \in Seq(Parts)
    /\ \E n \in Nat : \A i \in 1 .. Len(p) :
           i + n \in 1 .. Len(q) /\ p[i] = q[i + n]

\* Each writer's parts are in the order of writing.
Sorted(parts) ==
    \A i, j \in 1 .. Len(parts) :
        i < j /\ From(parts[i]) = From(parts[j])
            => Rank(parts[i]) < Rank(parts[j])

Precede(p, q) ==
    \A i \in 1 .. Len(p), j \in 1 .. Len(q) :
        From(p[i]) = From(q[j]) => Rank(p[i]) < Rank(q[j])

LEMMA WithinItself ==
    ASSUME NEW p \in Seq(Parts)
    PROVE  Within(p, p)
  BY DEF Within

LEMMA Suffix ==
    ASSUME NEW q \in Seq(Parts), NEW n \in 0 .. Len(q),
           NEW p, p = SubSeq(q, n + 1, Len(q))
    PROVE  /\ p \in Seq(Parts)
           /\ Len(p) = Len(q) - n
           /\ \A i \in 1 .. Len(p) : p[i] = q[i + n]
           /\ Within(p, q)
<1>0. Len(q) \in Nat
  OBVIOUS
<1>1. \A i \in n + 1 .. Len(q) : q[i] \in Parts
  BY <1>0, ElementOfSeq
<1>2. /\ p \in Seq(Parts)
      /\ Len(p) = IF n + 1 <= Len(q) THEN Len(q) - (n + 1) + 1 ELSE 0
      /\ \A i \in 1 .. Len(q) - (n + 1) + 1 : p[i] = q[n + 1 + i - 1]
  <2>1. n + 1 \in Int /\ Len(q) \in Int
    BY <1>0
  <2> QED BY <1>1, <2>1, SubSeqProperties, SMT
<1>3. Len(p) = Len(q) - n
  BY <1>0, <1>2
<1>4. \A i \in 1 .. Len(p) : p[i] = q[i + n] /\ i + n \in 1 .. Len(q)
  <2> TAKE i \in 1 .. Len(p)
  <2>1. n + 1 + i - 1 = i + n /\ i \in 1 .. Len(q) - (n + 1) + 1
    BY <1>0, <1>3
  <2> QED BY <1>0, <1>2, <1>3, <2>1
<1>5. Within(p, q)
  <2>1. n \in Nat
    BY <1>0
  <2> QED BY <1>2, <1>4, <2>1 DEF Within
<1> QED BY <1>2, <1>3, <1>4, <1>5

\* What a block leaves of the buffer.
LEMMA SuffixTwo ==
    ASSUME NEW q \in Seq(Parts), Len(q) >= 2,
           NEW p, p = SubSeq(q, 2 + 1, Len(q))
    PROVE  /\ p \in Seq(Parts)
           /\ Len(p) = Len(q) - 2
           /\ \A i \in 1 .. Len(p) : p[i] = q[i + 2]
           /\ Within(p, q)
<1>1. Len(q) \in Nat
  OBVIOUS
<1>2. PICK n \in 0 .. Len(q) : n = 2
  BY <1>1
<1>3. p = SubSeq(q, n + 1, Len(q))
  BY <1>2
<1>4. /\ p \in Seq(Parts)
      /\ Len(p) = Len(q) - n
      /\ \A i \in 1 .. Len(p) : p[i] = q[i + n]
      /\ Within(p, q)
  BY <1>3, Suffix
<1> QED BY <1>2, <1>4

LEMMA Prefix ==
    ASSUME NEW q \in Seq(Parts), NEW n \in 0 .. Len(q),
           NEW p, p = SubSeq(q, 1, n)
    PROVE  /\ p \in Seq(Parts)
           /\ Len(p) = n
           /\ \A i \in 1 .. n : p[i] = q[i]
<1>0. Len(q) \in Nat
  OBVIOUS
<1>1. \A i \in 1 .. n : q[i] \in Parts
  BY <1>0, ElementOfSeq
<1>2. /\ p \in Seq(Parts)
      /\ Len(p) = IF 1 <= n THEN n - 1 + 1 ELSE 0
      /\ \A i \in 1 .. n - 1 + 1 : p[i] = q[1 + i - 1]
  <2>1. 1 \in Int /\ n \in Int
    OBVIOUS
  <2> QED BY <1>1, <2>1, SubSeqProperties, SMT
<1>3. Len(p) = n
  BY <1>2
<1>4. \A i \in 1 .. n : p[i] = q[i]
  <2> TAKE i \in 1 .. n
  <2>1. 1 + i - 1 = i /\ i \in 1 .. n - 1 + 1
    OBVIOUS
  <2> QED BY <1>2, <2>1
<1> QED BY <1>2, <1>3, <1>4

LEMMA EmptyNotOne == Len(<<>>) # 1
  BY EmptySeq

LEMMA OneMore ==
    ASSUME NEW q \in Seq(Parts), NEW part \in Parts
    PROVE  LET p == q \o <<part>>
           IN  /\ p \in Seq(Parts)
               /\ Len(p) = Len(q) + 1
               /\ \A i \in 1 .. Len(q) : p[i] = q[i]
               /\ p[Len(q) + 1] = part
<1>1. Append(q, part) = q \o <<part>>
  BY AppendIsConcat
<1> QED BY <1>1, AppendProperties

-----------------------------------------------------------------------------
(* The order of blocks.                                                    *)

\* The rank of what w writes next.
NextRank(w) == 2 * written[w] + 2 - Len(writing[w])

PartsTypeOK ==
    /\ SecureTypeOK
    /\ buffer \in [Ends -> Seq(Parts)]
    /\ up \in [Sessions -> Seq(Parts)]
    /\ down \in [Sessions -> Seq(Parts)]
    /\ writing \in [Writers -> Seq(Parts)]
    /\ accepted \in [Ends -> Seq(Messages)]

\* What a writer is writing are the last parts of its last block.
BlocksInv ==
    \A w \in Writers :
        /\ \A k \in 1 .. Len(writing[w]) :
               MessageOf(writing[w][k]) = [from |-> w, n |-> written[w]]
        /\ Len(writing[w]) = 2 => Follows(writing[w][1], writing[w][2])
        /\ Len(writing[w]) = 1 => ~IsHead(writing[w][1])

\* Bytes go from clients to servers, on whichever connection, and back.
SidesInv(e) ==
    /\ \A i \in 1 .. Len(buffer[e]) :
           From(buffer[e][i])[2] = "client" <=> e[2] = "server"
    /\ \A i \in 1 .. Len(Line(e)) :
           From(Line(e)[i])[2] = "client" <=> e[2] = "server"
    /\ e[2] = "server" =>
           \A i \in 1 .. Len(Line(e)) : From(Line(e)[i])[1] = e[1]

Old(part) == Rank(part) < NextRank(From(part))

\* The parts of a writer come in its order, the one it writes next is last.
OrderInv(e) ==
    /\ Sorted(buffer[e])
    /\ Sorted(Line(e))
    /\ Precede(buffer[e], Line(e))
    /\ \A i \in 1 .. Len(buffer[e]) : Old(buffer[e][i])
    /\ \A i \in 1 .. Len(Line(e)) : Old(Line(e)[i])

\* The part is of a later block than the message, if of the same writer.
Later(message, part) ==
    From(part) = message.from => 2 * message.n + 1 < Rank(part)

\* A message has been accepted once its rest has gone.
AcceptedInv(e) ==
    \A i \in 1 .. Len(accepted[e]) :
        /\ EndOf(accepted[e][i].from) = Peer(e)
        /\ 2 * accepted[e][i].n + 1 < NextRank(accepted[e][i].from)
        /\ \A j \in 1 .. Len(buffer[e]) : Later(accepted[e][i], buffer[e][j])
        /\ \A j \in 1 .. Len(Line(e)) : Later(accepted[e][i], Line(e)[j])
        /\ \A j \in 1 .. Len(accepted[e]) :
               i < j /\ accepted[e][i].from = accepted[e][j].from
                   => accepted[e][i].n < accepted[e][j].n

EndInv(e) == SidesInv(e) /\ OrderInv(e) /\ AcceptedInv(e)

SafeInv == PartsTypeOK /\ BlocksInv /\ \A e \in Ends : EndInv(e)

\* TypeOK of SafeInv in the form that steps use it.
LEMMA SafeFacts ==
    ASSUME SafeInv
    PROVE  /\ \A e \in Ends : /\ buffer[e] \in Seq(Parts)
                              /\ Len(buffer[e]) \in Nat
                              /\ Line(e) \in Seq(Parts)
                              /\ Len(Line(e)) \in Nat
                              /\ accepted[e] \in Seq(Messages)
                              /\ Len(accepted[e]) \in Nat
           /\ \A w \in Writers : /\ writing[w] \in Seq(Parts)
                                 /\ Len(writing[w]) \in 0 .. 2
                                 /\ written[w] \in Nat
                                 /\ NextRank(w) \in Nat
                                 /\ NextRank(w) <= 2 * written[w] + 2
           /\ \A p \in Parts : Rank(p) \in Nat /\ From(p) \in Writers
<1>1. \A e \in Ends : /\ buffer[e] \in Seq(Parts)
                      /\ Line(e) \in Seq(Parts)
                      /\ accepted[e] \in Seq(Messages)
  BY EndFacts DEF SafeInv, PartsTypeOK, Line
<1>2. ASSUME NEW w \in Writers
      PROVE  /\ writing[w] \in Seq(Parts)
             /\ Len(writing[w]) \in 0 .. 2
             /\ written[w] \in Nat
  <2>1. writing[w] \in Seq(Parts) /\ Len(writing[w]) <= 2
    BY DEF SafeInv, PartsTypeOK, SecureTypeOK
  <2>2. Len(writing[w]) \in Nat
    BY <2>1
  <2>3. Len(writing[w]) \in 0 .. 2
    <3>1. \A k \in Nat : k <= 2 => k \in 0 .. 2
      OBVIOUS
    <3> QED BY <2>1, <2>2, <3>1, Zenon
  <2>4. written[w] \in Nat
    BY DEF SafeInv, PartsTypeOK, SecureTypeOK
  <2> QED BY <2>1, <2>3, <2>4
<1>3. ASSUME NEW w \in Writers
      PROVE  NextRank(w) \in Nat /\ NextRank(w) <= 2 * written[w] + 2
  <2>1. \A k \in Nat, l \in 0 .. 2 :
            2 * k + 2 - l \in Nat /\ 2 * k + 2 - l <= 2 * k + 2
    OBVIOUS
  <2> QED BY <1>2, <2>1 DEF NextRank
<1>4. \A p \in Parts : Rank(p) \in Nat /\ From(p) \in Writers
  BY PartFacts
<1>5. \A e \in Ends : /\ Len(buffer[e]) \in Nat
                      /\ Len(Line(e)) \in Nat
                      /\ Len(accepted[e]) \in Nat
  BY <1>1
<1> QED BY <1>1, <1>2, <1>3, <1>4, <1>5

LEMMA AcceptedTyped ==
    ASSUME SafeInv, NEW e \in Ends, NEW i \in 1 .. Len(accepted[e])
    PROVE  /\ accepted[e][i] \in Messages
           /\ accepted[e][i].from \in Writers
           /\ accepted[e][i].n \in Nat
<1>1. accepted[e] \in Seq(Messages)
  BY SafeFacts
<1>2. accepted[e][i] \in Messages
  BY <1>1, ElementOfSeq
<1> QED BY <1>2 DEF Messages

\* A new value of NextRank, written out.
GrownRanks ==
    \A v \in Writers :
        /\ 2 * written'[v] + 2 - Len(writing'[v]) \in Nat
        /\ NextRank(v) <= 2 * written'[v] + 2 - Len(writing'[v])

LEMMA SameRanks ==
    ASSUME SafeInv, UNCHANGED <<writing, written>>
    PROVE  GrownRanks
  BY SafeFacts DEF GrownRanks, NextRank

\* Nothing comes to an end that was not there in the same order.
LEMMA ShrinkEnd ==
    ASSUME SafeInv, GrownRanks, NEW e \in Ends,
           accepted'[e] = accepted[e],
           Within(buffer'[e], buffer[e]),
           Within(Line(e)', Line(e))
    PROVE  EndInv(e)'
<1> DEFINE b == buffer[e]
           bb == buffer'[e]
           l == Line(e)
           ll == Line(e)'
           acc == accepted[e]
           Ranks(v) == 2 * written'[v] + 2 - Len(writing'[v])
<1>1. /\ b \in Seq(Parts) /\ l \in Seq(Parts)
      /\ Len(b) \in Nat /\ Len(l) \in Nat
      /\ \A p \in Parts : Rank(p) \in Nat /\ From(p) \in Writers
      /\ \A v \in Writers : NextRank(v) \in Nat
  BY SafeFacts
<1>2. PICK m \in Nat : \A i \in 1 .. Len(bb) :
          i + m \in 1 .. Len(b) /\ bb[i] = b[i + m]
  BY DEF Within
<1>3. PICK n \in Nat : \A i \in 1 .. Len(ll) :
          i + n \in 1 .. Len(l) /\ ll[i] = l[i + n]
  BY DEF Within
<1>4. \A i, j \in Nat : i < j => i + m < j + m /\ i + n < j + n
  OBVIOUS
<1>5. /\ bb \in Seq(Parts) /\ Len(bb) \in Nat
      /\ ll \in Seq(Parts) /\ Len(ll) \in Nat
  BY DEF Within
<1>6. \A i \in 1 .. Len(bb) : bb[i] \in Parts /\ i \in Nat
  BY <1>5
<1>7. \A i \in 1 .. Len(ll) : ll[i] \in Parts /\ i \in Nat
  BY <1>5
<1>8. /\ accepted'[e] = acc
      /\ \A i \in 1 .. Len(acc) : acc[i].from \in Writers /\ acc[i].n \in Nat
  BY AcceptedTyped
<1>9. EndInv(e)
  BY DEF SafeInv
<1>10. \A v \in Writers : Ranks(v) \in Nat /\ NextRank(v) <= Ranks(v)
  BY DEF GrownRanks
<1> HIDE DEF b, bb, l, ll, acc, Ranks
<1>11. SidesInv(e)'
  <2>1. /\ \A i \in 1 .. Len(b) :
               From(b[i])[2] = "client" <=> e[2] = "server"
        /\ \A i \in 1 .. Len(l) :
               From(l[i])[2] = "client" <=> e[2] = "server"
        /\ e[2] = "server" => \A i \in 1 .. Len(l) : From(l[i])[1] = e[1]
    BY <1>9 DEF EndInv, SidesInv, b, l
  <2>2. /\ \A i \in 1 .. Len(bb) :
               From(bb[i])[2] = "client" <=> e[2] = "server"
        /\ \A i \in 1 .. Len(ll) :
               From(ll[i])[2] = "client" <=> e[2] = "server"
        /\ e[2] = "server" => \A i \in 1 .. Len(ll) : From(ll[i])[1] = e[1]
    BY <2>1, <1>2, <1>3
  <2> QED BY <2>2 DEF SidesInv, bb, ll
<1>12. OrderInv(e)'
  <2>1. /\ Sorted(b) /\ Sorted(l) /\ Precede(b, l)
        /\ \A i \in 1 .. Len(b) : Old(b[i])
        /\ \A i \in 1 .. Len(l) : Old(l[i])
    BY <1>9 DEF EndInv, OrderInv, b, l
  <2>2. Sorted(bb)
    BY <2>1, <1>2, <1>4, <1>6 DEF Sorted
  <2>3. Sorted(ll)
    BY <2>1, <1>3, <1>4, <1>7 DEF Sorted
  <2>4. Precede(bb, ll)
    BY <2>1, <1>2, <1>3 DEF Precede
  <2>5. \A p \in Parts : Old(p) => Rank(p) < Ranks(From(p))
    BY <1>1, <1>10 DEF Old
  <2>6. /\ \A i \in 1 .. Len(bb) : Rank(bb[i]) < Ranks(From(bb[i]))
        /\ \A i \in 1 .. Len(ll) : Rank(ll[i]) < Ranks(From(ll[i]))
    BY <2>1, <2>5, <1>2, <1>3, <1>6, <1>7
  <2> QED
    BY <2>2, <2>3, <2>4, <2>6 DEF OrderInv, Old, NextRank, Ranks, bb, ll
<1>13. AcceptedInv(e)'
  <2>1. \A i \in 1 .. Len(acc) :
            /\ EndOf(acc[i].from) = Peer(e)
            /\ 2 * acc[i].n + 1 < NextRank(acc[i].from)
            /\ \A j \in 1 .. Len(b) : Later(acc[i], b[j])
            /\ \A j \in 1 .. Len(l) : Later(acc[i], l[j])
            /\ \A j \in 1 .. Len(acc) :
                   i < j /\ acc[i].from = acc[j].from => acc[i].n < acc[j].n
    BY <1>9 DEF EndInv, AcceptedInv, b, l, acc
  <2>2. ASSUME NEW i \in 1 .. Len(acc)
        PROVE  2 * acc[i].n + 1 < Ranks(acc[i].from)
    <3>1. /\ acc[i].n \in Nat
          /\ NextRank(acc[i].from) \in Nat
          /\ Ranks(acc[i].from) \in Nat
          /\ 2 * acc[i].n + 1 < NextRank(acc[i].from)
          /\ NextRank(acc[i].from) <= Ranks(acc[i].from)
      BY <2>1, <1>1, <1>8, <1>10
    <3> QED BY <3>1
  <2>3. \A i \in 1 .. Len(acc) :
            /\ \A j \in 1 .. Len(bb) : Later(acc[i], bb[j])
            /\ \A j \in 1 .. Len(ll) : Later(acc[i], ll[j])
    BY <2>1, <1>2, <1>3
  <2> QED
    BY <2>1, <2>2, <2>3, <1>8 DEF AcceptedInv, NextRank, Ranks, bb, ll, acc
<1> QED BY <1>11, <1>12, <1>13 DEF EndInv

\* The types of up and down are those of the lines.
LEMMA LinesTyped ==
    ASSUME up' = [s \in Sessions |-> up'[s]],
           down' = [s \in Sessions |-> down'[s]],
           \A e \in Ends : Line(e)' \in Seq(Parts)
    PROVE  /\ up' \in [Sessions -> Seq(Parts)]
           /\ down' \in [Sessions -> Seq(Parts)]
<1>1. ASSUME NEW s \in Sessions
      PROVE  up'[s] \in Seq(Parts) /\ down'[s] \in Seq(Parts)
  <2>1. <<s, "server">> \in Ends /\ <<s, "client">> \in Ends
    BY DEF Ends, Sides
  <2>2. /\ Line(<<s, "server">>)' = up'[s]
        /\ Line(<<s, "client">>)' = down'[s]
    BY DEF Line
  <2> QED BY <2>1, <2>2
<1> QED BY <1>1

\* Nothing of what the invariant is about changes.
LEMMA QuietSafe ==
    ASSUME SafeInv, UNCHANGED <<cryptVars, up, down>>
    PROVE  SafeInv'
<1>1. /\ UNCHANGED <<m_usedIV, buffer, accepted, writing, written>>
      /\ \A e \in Ends : Line(e)' = Line(e)
  BY DEF cryptVars, Line
<1>2. PartsTypeOK'
  BY <1>1 DEF SafeInv, PartsTypeOK, SecureTypeOK
<1>3. BlocksInv'
  BY <1>1 DEF SafeInv, BlocksInv
<1>4. \A e \in Ends : EndInv(e)'
  BY <1>1, SafeFacts, SameRanks, WithinItself, ShrinkEnd
<1> QED BY <1>2, <1>3, <1>4 DEF SafeInv

\* Parts are taken from buffers and lines, and dropped.
LEMMA ShrinkSafe ==
    ASSUME SafeInv,
           UNCHANGED <<accepted, writing, written>>,
           m_usedIV' \in [Ends -> [read : SUBSET IVs, written : SUBSET IVs]],
           buffer' = [e \in Ends |-> buffer'[e]],
           up' = [s \in Sessions |-> up'[s]],
           down' = [s \in Sessions |-> down'[s]],
           \A e \in Ends : /\ Within(buffer'[e], buffer[e])
                           /\ Within(Line(e)', Line(e))
    PROVE  SafeInv'
<1>1. PartsTypeOK'
  <2>1. buffer' \in [Ends -> Seq(Parts)]
    BY DEF Within
  <2>2. /\ up' \in [Sessions -> Seq(Parts)]
        /\ down' \in [Sessions -> Seq(Parts)]
    BY LinesTyped DEF Within
  <2> QED BY <2>1, <2>2 DEF SafeInv, PartsTypeOK, SecureTypeOK
<1>2. BlocksInv'
  BY DEF SafeInv, BlocksInv
<1>3. \A e \in Ends : EndInv(e)'
  BY SameRanks, ShrinkEnd
<1> QED BY <1>1, <1>2, <1>3 DEF SafeInv

\* writeBlock() begins: the two parts are those to be written next.
LEMMA BeginSafe ==
    ASSUME SafeInv, NEW w \in Writers, EncryptBlock(w), UNCHANGED <<up, down>>
    PROVE  SafeInv'
<1>1. PICK iv \in RandomIVs(w[1]) :
          /\ m_usedIV' = [m_usedIV EXCEPT ![EndOf(w)].written = @ \cup {iv}]
          /\ writing' = [writing EXCEPT ![w] =
                 Block(EndOf(w), iv, [from |-> w, n |-> written'[w]])]
  BY DEF EncryptBlock
<1>2. /\ iv \in IVs
      /\ writing[w] = <<>>
      /\ written' = [written EXCEPT ![w] = @ + 1]
      /\ UNCHANGED <<buffer, accepted>>
  BY <1>1 DEF EncryptBlock, RandomIVs
<1> DEFINE message == [from |-> w, n |-> written'[w]]
           head == [half |-> "head", iv |-> iv, message |-> message]
           rest == [half |-> "rest",
                    cipher |-> [key |-> w[1], iv |-> iv, message |-> message]]
<1>3. /\ written \in [Writers -> Nat]
      /\ written' \in [Writers -> Nat]
      /\ written'[w] = written[w] + 1
      /\ message \in Messages
  BY <1>2 DEF SafeInv, PartsTypeOK, SecureTypeOK, Messages
<1>4. writing' = [writing EXCEPT ![w] = <<head, rest>>]
  BY <1>1, EndFacts DEF Block, encryptMessage
<1>5. /\ head \in Parts /\ IsHead(head) /\ MessageOf(head) = message
      /\ rest \in Parts /\ ~IsHead(rest) /\ MessageOf(rest) = message
      /\ Follows(head, rest)
  BY <1>2, <1>3, EndFacts
     DEF Parts, Heads, Rests, Ciphers, IsHead, MessageOf, From, Follows
<1> HIDE DEF head, rest
<1>6. /\ <<head, rest>> \in Seq(Parts)
      /\ Len(<<head, rest>>) = 2
      /\ <<head, rest>>[1] = head /\ <<head, rest>>[2] = rest
  BY <1>5
<1>7. /\ writing \in [Writers -> Seq(Parts)]
      /\ writing' \in [Writers -> Seq(Parts)]
      /\ writing'[w] = <<head, rest>>
      /\ \A v \in Writers \ {w} : writing'[v] = writing[v]
  BY <1>4, <1>6 DEF SafeInv, PartsTypeOK
<1>8. PartsTypeOK'
  <2>1. m_usedIV' \in [Ends -> [read : SUBSET IVs, written : SUBSET IVs]]
    <3>1. /\ m_usedIV \in [Ends -> [read : SUBSET IVs, written : SUBSET IVs]]
          /\ EndOf(w) \in Ends
      BY EndFacts DEF SafeInv, PartsTypeOK, SecureTypeOK
    <3> QED BY <1>1, <1>2, <3>1
  <2>2. \A v \in Writers : Len(writing'[v]) <= 2
    <3>1. Len(writing'[w]) <= 2
      BY <1>6, <1>7
    <3>2. \A v \in Writers : Len(writing[v]) <= 2
      BY DEF SafeInv, PartsTypeOK, SecureTypeOK
    <3> QED BY <1>7, <3>1, <3>2
  <2> QED
    BY <1>2, <1>3, <1>7, <2>1, <2>2 DEF SafeInv, PartsTypeOK, SecureTypeOK
<1>9. BlocksInv'
  <2>1. ASSUME NEW v \in Writers, NEW k \in 1 .. Len(writing'[v])
        PROVE  MessageOf(writing'[v][k]) = [from |-> v, n |-> written'[v]]
    <3>1. CASE v = w
      <4>0. k \in 1 .. 2
        BY <1>6, <1>7, <2>1, <3>1
      <4>1. k = 1 \/ k = 2
        BY <4>0
      <4> QED BY <1>5, <1>6, <1>7, <3>1, <4>1
    <3>2. CASE v # w
      <4>1. written'[v] = written[v] /\ writing'[v] = writing[v]
        BY <1>2, <1>3, <1>7, <3>2
      <4> QED BY <2>1, <4>1 DEF SafeInv, BlocksInv
    <3> QED BY <3>1, <3>2
  <2>2. ASSUME NEW v \in Writers
        PROVE  /\ Len(writing'[v]) = 2 =>
                      Follows(writing'[v][1], writing'[v][2])
               /\ Len(writing'[v]) = 1 => ~IsHead(writing'[v][1])
    <3>1. CASE v = w
      BY <1>5, <1>6, <1>7, <3>1
    <3>2. CASE v # w
      <4>1. writing'[v] = writing[v]
        BY <1>7, <3>2
      <4> QED BY <4>1 DEF SafeInv, BlocksInv
    <3> QED BY <3>1, <3>2
  <2> QED BY <2>1, <2>2 DEF BlocksInv
<1>10. GrownRanks
  <2>1. ASSUME NEW v \in Writers
        PROVE  /\ 2 * written'[v] + 2 - Len(writing'[v]) \in Nat
               /\ NextRank(v) <= 2 * written'[v] + 2 - Len(writing'[v])
    <3>1. CASE v = w
      <4>1. Len(writing[w]) = 0 /\ Len(writing'[w]) = 2
        BY <1>2, <1>6, <1>7
      <4>2. NextRank(w) = 2 * written[w] + 2
        BY <1>3, <4>1 DEF NextRank
      <4> QED BY <1>3, <3>1, <4>1, <4>2
    <3>2. CASE v # w
      <4>1. written'[v] = written[v] /\ writing'[v] = writing[v]
        BY <1>2, <1>3, <1>7, <3>2
      <4> QED BY <4>1, SafeFacts DEF NextRank
    <3> QED BY <3>1, <3>2
  <2> QED BY <2>1 DEF GrownRanks
<1>11. ASSUME NEW e \in Ends
       PROVE  EndInv(e)'
  <2>1. Line(e)' = Line(e) /\ buffer'[e] = buffer[e]
    BY <1>2 DEF Line
  <2>2. Within(buffer[e], buffer[e]) /\ Within(Line(e), Line(e))
    BY SafeFacts, WithinItself
  <2> QED BY <1>2, <1>10, <2>1, <2>2, ShrinkEnd
<1> QED BY <1>8, <1>9, <1>11 DEF SafeInv

\* A part leaves a writer, or all of them do.
LEMMA Advance ==
    ASSUME SafeInv, NEW w \in Writers, writing[w] # <<>>, UNCHANGED written,
           NEW next \in {Tail(writing[w]), <<>>},
           writing' = [writing EXCEPT ![w] = next]
    PROVE  /\ writing' \in [Writers -> Seq(Parts)]
           /\ \A v \in Writers : Len(writing'[v]) <= 2
           /\ BlocksInv'
           /\ GrownRanks
           /\ NextRank(w) < 2 * written'[w] + 2 - Len(writing'[w])
           /\ Head(writing[w]) \in Parts
           /\ From(Head(writing[w])) = w
           /\ Rank(Head(writing[w])) = NextRank(w)
<1> DEFINE parts == writing[w]
           length == Len(parts)
<1>1. /\ parts \in Seq(Parts)
      /\ length \in {1, 2}
      /\ written[w] \in Nat
      /\ writing \in [Writers -> Seq(Parts)]
  BY SafeFacts, EmptySeq DEF SafeInv, PartsTypeOK
<1>2. /\ \A k \in 1 .. length :
             MessageOf(parts[k]) = [from |-> w, n |-> written[w]]
      /\ length = 2 => Follows(parts[1], parts[2])
      /\ length = 1 => ~IsHead(parts[1])
  BY DEF SafeInv, BlocksInv
<1>3. /\ Head(parts) = parts[1]
      /\ Tail(parts) \in Seq(Parts)
      /\ Len(Tail(parts)) = length - 1
      /\ \A i \in 1 .. Len(Tail(parts)) : Tail(parts)[i] = parts[i + 1]
  BY <1>1, HeadTailProperties
<1>4. /\ parts[1] \in Parts
      /\ MessageOf(parts[1]) = [from |-> w, n |-> written[w]]
      /\ IsHead(parts[1]) <=> length = 2
  BY <1>1, <1>2, ElementOfSeq DEF Follows
<1>5. From(parts[1]) = w /\ MessageOf(parts[1]).n = written[w]
  BY <1>4 DEF From
<1>6. Rank(parts[1]) = NextRank(w)
  <2>1. CASE length = 2
    BY <1>1, <1>4, <1>5, <2>1 DEF Rank, NextRank
  <2>2. CASE length = 1
    BY <1>1, <1>4, <1>5, <2>2 DEF Rank, NextRank
  <2> QED BY <1>1, <2>1, <2>2
<1>7. /\ next \in Seq(Parts)
      /\ Len(next) = 0 \/ (Len(next) = 1 /\ length = 2 /\ next[1] = parts[2])
  <2>1. CASE next = <<>>
    BY <2>1, EmptySeq
  <2>2. CASE next = Tail(parts)
    <3>1. 1 + 1 = 2 /\ 1 - 1 = 0 /\ 2 - 1 = 1
      OBVIOUS
    <3> QED BY <1>1, <1>3, <2>2, <3>1
  <2> QED BY <2>1, <2>2
<1>8. /\ writing' \in [Writers -> Seq(Parts)]
      /\ writing'[w] = next
      /\ \A v \in Writers \ {w} : writing'[v] = writing[v]
  BY <1>1, <1>7
<1>9. BlocksInv'
  <2>1. ASSUME NEW v \in Writers, NEW k \in 1 .. Len(writing'[v])
        PROVE  MessageOf(writing'[v][k]) = [from |-> v, n |-> written'[v]]
    <3>1. CASE v = w
      <4>1. k = 1 /\ length = 2 /\ next[1] = parts[2]
        BY <1>7, <1>8, <2>1, <3>1
      <4>2. 2 \in 1 .. length
        BY <4>1
      <4> QED BY <1>2, <1>8, <3>1, <4>1, <4>2
    <3>2. CASE v # w
      BY <1>8, <2>1, <3>2 DEF SafeInv, BlocksInv
    <3> QED BY <3>1, <3>2
  <2>2. ASSUME NEW v \in Writers
        PROVE  /\ Len(writing'[v]) = 2 =>
                      Follows(writing'[v][1], writing'[v][2])
               /\ Len(writing'[v]) = 1 => ~IsHead(writing'[v][1])
    <3>1. CASE v = w
      BY <1>2, <1>7, <1>8, <3>1 DEF Follows
    <3>2. CASE v # w
      BY <1>8, <3>2 DEF SafeInv, BlocksInv
    <3> QED BY <3>1, <3>2
  <2> QED BY <2>1, <2>2 DEF BlocksInv
<1>10. /\ 2 * written'[w] + 2 - Len(writing'[w]) \in Nat
       /\ NextRank(w) < 2 * written'[w] + 2 - Len(writing'[w])
  <2>1. Len(next) \in Nat /\ Len(next) < length
    BY <1>1, <1>7
  <2>2. \A k, i, j \in Nat : i < j /\ j <= 2 =>
            2 * k + 2 - i \in Nat /\ 2 * k + 2 - j < 2 * k + 2 - i
    OBVIOUS
  <2> QED BY <1>1, <1>8, <2>1, <2>2 DEF NextRank
<1>11. GrownRanks
  <2>1. ASSUME NEW v \in Writers
        PROVE  /\ 2 * written'[v] + 2 - Len(writing'[v]) \in Nat
               /\ NextRank(v) <= 2 * written'[v] + 2 - Len(writing'[v])
    <3>1. CASE v = w
      BY <1>10, <3>1, SafeFacts
    <3>2. CASE v # w
      BY <1>8, <3>2, SafeFacts DEF NextRank
    <3> QED BY <3>1, <3>2
  <2> QED BY <2>1 DEF GrownRanks
<1>12. \A v \in Writers : Len(writing'[v]) <= 2
  <2>1. Len(next) <= 2
    BY <1>7
  <2>2. \A v \in Writers : Len(writing[v]) <= 2
    BY DEF SafeInv, PartsTypeOK, SecureTypeOK
  <2> QED BY <1>8, <2>1, <2>2
<1> QED BY <1>3, <1>4, <1>5, <1>6, <1>8, <1>9, <1>10, <1>11, <1>12

\* Parts of a writer get lost.
LEMMA LoseSafe ==
    ASSUME SafeInv, NEW w \in Writers, writing[w] # <<>>,
           NEW next \in {Tail(writing[w]), <<>>},
           writing' = [writing EXCEPT ![w] = next],
           UNCHANGED <<m_usedIV, buffer, accepted, written, up, down>>
    PROVE  SafeInv'
<1>1. /\ writing' \in [Writers -> Seq(Parts)]
      /\ \A v \in Writers : Len(writing'[v]) <= 2
      /\ BlocksInv'
      /\ GrownRanks
  BY Advance
<1>2. PartsTypeOK'
  BY <1>1 DEF SafeInv, PartsTypeOK, SecureTypeOK
<1>3. ASSUME NEW e \in Ends
      PROVE  EndInv(e)'
  <2>1. Line(e)' = Line(e)
    BY DEF Line
  <2> QED BY <1>1, <2>1, SafeFacts, WithinItself, ShrinkEnd
<1> QED BY <1>1, <1>2, <1>3 DEF SafeInv

\* A writer's next part comes last on a line.
LEMMA WriteSafe ==
    ASSUME SafeInv, NEW w \in Writers, writing[w] # <<>>,
           writing' = [writing EXCEPT ![w] = Tail(@)],
           UNCHANGED <<m_usedIV, buffer, accepted, written>>,
           up' = [s \in Sessions |-> up'[s]],
           down' = [s \in Sessions |-> down'[s]],
           NEW e \in Ends,
           w[2] = "client" <=> e[2] = "server",
           e[2] = "server" => w[1] = e[1],
           Line(e)' = Line(e) \o <<Head(writing[w])>>,
           \A d \in Ends \ {e} : Line(d)' = Line(d)
    PROVE  SafeInv'
<1> DEFINE part == Head(writing[w])
<1>1. writing' = [writing EXCEPT ![w] = Tail(writing[w])]
  OBVIOUS
<1>2. /\ writing' \in [Writers -> Seq(Parts)]
      /\ \A v \in Writers : Len(writing'[v]) <= 2
      /\ BlocksInv'
      /\ GrownRanks
      /\ NextRank(w) < 2 * written'[w] + 2 - Len(writing'[w])
      /\ part \in Parts
      /\ From(part) = w
      /\ Rank(part) = NextRank(w)
  BY <1>1, Advance
<1> DEFINE l == Line(e)
           ll == Line(e)'
<1>3. /\ l \in Seq(Parts) /\ Len(l) \in Nat
      /\ ll \in Seq(Parts) /\ Len(ll) = Len(l) + 1
      /\ \A i \in 1 .. Len(l) : ll[i] = l[i]
      /\ ll[Len(l) + 1] = part
  BY <1>2, SafeFacts, OneMore
<1>4. PartsTypeOK'
  <2>1. \A d \in Ends : Line(d)' \in Seq(Parts)
    BY <1>3, SafeFacts
  <2>2. up' \in [Sessions -> Seq(Parts)] /\ down' \in [Sessions -> Seq(Parts)]
    BY <2>1, LinesTyped
  <2> QED BY <1>2, <2>2 DEF SafeInv, PartsTypeOK, SecureTypeOK
<1>5. ASSUME NEW d \in Ends \ {e}
      PROVE  EndInv(d)'
  BY <1>2, SafeFacts, WithinItself, ShrinkEnd
<1>6. EndInv(e)'
  <2> DEFINE b == buffer[e]
             acc == accepted[e]
             Ranks(v) == 2 * written'[v] + 2 - Len(writing'[v])
  <2>1. /\ b \in Seq(Parts) /\ Len(b) \in Nat
        /\ \A p \in Parts : Rank(p) \in Nat /\ From(p) \in Writers
        /\ \A v \in Writers : NextRank(v) \in Nat
    BY SafeFacts
  <2>2. /\ buffer'[e] = b /\ accepted'[e] = acc
        /\ \A i \in 1 .. Len(acc) : acc[i].from \in Writers /\ acc[i].n \in Nat
    BY AcceptedTyped
  <2>3. \A v \in Writers : Ranks(v) \in Nat /\ NextRank(v) <= Ranks(v)
    BY <1>2 DEF GrownRanks
  <2>4. NextRank(w) < Ranks(w)
    BY <1>2
  <2>5. EndInv(e)
    BY DEF SafeInv
  <2>6. \A i \in 1 .. Len(ll) : i \in 1 .. Len(l) \/ i = Len(l) + 1
    BY <1>3
  <2>7. /\ \A i \in 1 .. Len(b) : b[i] \in Parts
        /\ \A i \in 1 .. Len(l) : l[i] \in Parts
        /\ \A i \in 1 .. Len(ll) : ll[i] \in Parts
    BY <1>3, <2>1
  <2> HIDE DEF b, acc, l, ll, part, Ranks
  <2>8. SidesInv(e)'
    <3>1. /\ \A i \in 1 .. Len(b) :
                 From(b[i])[2] = "client" <=> e[2] = "server"
          /\ \A i \in 1 .. Len(l) :
                 From(l[i])[2] = "client" <=> e[2] = "server"
          /\ e[2] = "server" => \A i \in 1 .. Len(l) : From(l[i])[1] = e[1]
      BY <2>5 DEF EndInv, SidesInv, b, l
    <3>2. /\ \A i \in 1 .. Len(ll) :
                 From(ll[i])[2] = "client" <=> e[2] = "server"
          /\ e[2] = "server" =>
                 \A i \in 1 .. Len(ll) : From(ll[i])[1] = e[1]
      BY <3>1, <1>2, <1>3, <2>6
    <3> QED BY <3>1, <3>2, <2>2 DEF SidesInv, ll
  <2>9. OrderInv(e)'
    <3>1. /\ Sorted(b) /\ Sorted(l) /\ Precede(b, l)
          /\ \A i \in 1 .. Len(b) : Old(b[i])
          /\ \A i \in 1 .. Len(l) : Old(l[i])
      BY <2>5 DEF EndInv, OrderInv, b, l
    <3>2. Sorted(ll)
      <4>1. ASSUME NEW i \in 1 .. Len(ll), NEW j \in 1 .. Len(ll),
                   i < j, From(ll[i]) = From(ll[j])
            PROVE  Rank(ll[i]) < Rank(ll[j])
        <5>1. i \in 1 .. Len(l)
          BY <1>3, <4>1
        <5>2. CASE j \in 1 .. Len(l)
          BY <1>3, <3>1, <4>1, <5>1, <5>2 DEF Sorted
        <5>3. CASE j = Len(l) + 1
          <6>1. Old(l[i]) /\ ll[i] = l[i] /\ ll[j] = part
            BY <1>3, <3>1, <5>1, <5>3
          <6> QED BY <1>2, <4>1, <6>1 DEF Old
        <5> QED BY <2>6, <5>2, <5>3
      <4> QED BY <4>1 DEF Sorted
    <3>3. Precede(b, ll)
      <4>1. ASSUME NEW i \in 1 .. Len(b), NEW j \in 1 .. Len(ll),
                   From(b[i]) = From(ll[j])
            PROVE  Rank(b[i]) < Rank(ll[j])
        <5>1. CASE j \in 1 .. Len(l)
          BY <1>3, <3>1, <4>1, <5>1 DEF Precede
        <5>2. CASE j = Len(l) + 1
          BY <1>2, <1>3, <3>1, <4>1, <5>2 DEF Old
        <5> QED BY <2>6, <5>1, <5>2
      <4> QED BY <4>1 DEF Precede
    <3>4. \A p \in Parts : Old(p) => Rank(p) < Ranks(From(p))
      BY <2>1, <2>3 DEF Old
    <3>5. \A i \in 1 .. Len(b) : Rank(b[i]) < Ranks(From(b[i]))
      BY <3>1, <3>4, <2>7
    <3>6. \A i \in 1 .. Len(ll) : Rank(ll[i]) < Ranks(From(ll[i]))
      BY <1>2, <1>3, <2>4, <2>6, <2>7, <3>1, <3>4
    <3> QED
      BY <2>2, <3>1, <3>2, <3>3, <3>5, <3>6
         DEF OrderInv, Old, NextRank, Ranks, ll
  <2>10. AcceptedInv(e)'
    <3>1. \A i \in 1 .. Len(acc) :
              /\ EndOf(acc[i].from) = Peer(e)
              /\ 2 * acc[i].n + 1 < NextRank(acc[i].from)
              /\ \A j \in 1 .. Len(b) : Later(acc[i], b[j])
              /\ \A j \in 1 .. Len(l) : Later(acc[i], l[j])
              /\ \A j \in 1 .. Len(acc) :
                     i < j /\ acc[i].from = acc[j].from => acc[i].n < acc[j].n
      BY <2>5 DEF EndInv, AcceptedInv, b, l, acc
    <3>2. ASSUME NEW i \in 1 .. Len(acc)
          PROVE  2 * acc[i].n + 1 < Ranks(acc[i].from)
      <4>1. /\ 2 * acc[i].n + 1 < NextRank(acc[i].from)
            /\ NextRank(acc[i].from) <= Ranks(acc[i].from)
            /\ acc[i].n \in Nat
            /\ NextRank(acc[i].from) \in Nat
            /\ Ranks(acc[i].from) \in Nat
        BY <2>1, <2>2, <2>3, <3>1
      <4> QED BY <4>1
    <3>3. ASSUME NEW i \in 1 .. Len(acc), NEW j \in 1 .. Len(ll)
          PROVE  Later(acc[i], ll[j])
      <4>1. CASE j \in 1 .. Len(l)
        BY <1>3, <3>1, <4>1
      <4>2. CASE j = Len(l) + 1
        <5>1. /\ ll[j] = part /\ From(part) = w
              /\ Rank(part) = NextRank(w)
              /\ 2 * acc[i].n + 1 < NextRank(acc[i].from)
          BY <1>2, <1>3, <3>1, <4>2
        <5> QED BY <5>1 DEF Later
      <4> QED BY <2>6, <4>1, <4>2
    <3> QED
      BY <2>2, <3>1, <3>2, <3>3 DEF AcceptedInv, NextRank, Ranks, ll
  <2> QED BY <2>8, <2>9, <2>10 DEF EndInv
<1> QED BY <1>2, <1>4, <1>5, <1>6 DEF SafeInv

\* An empty buffer gets the first parts of a line: a client's of its own, a
\* server's of any.
LEMMA TakeSafe ==
    ASSUME SafeInv, NEW e \in Ends, NEW d \in Ends,
           d[2] = e[2], e[2] = "client" => d = e,
           NEW n \in 1 .. Len(Line(d)),
           buffer[e] = <<>>,
           buffer' = [buffer EXCEPT ![e] = SubSeq(Line(d), 1, n)],
           Line(d)' = SubSeq(Line(d), n + 1, Len(Line(d))),
           \A c \in Ends \ {d} : Line(c)' = Line(c),
           up' = [s \in Sessions |-> up'[s]],
           down' = [s \in Sessions |-> down'[s]],
           UNCHANGED <<m_usedIV, accepted, writing, written>>
    PROVE  SafeInv'
<1> DEFINE q == Line(d)
<1>1. /\ q \in Seq(Parts) /\ Len(q) \in Nat
      /\ n \in Nat /\ n \in 0 .. Len(q)
  BY SafeFacts
<1>2. /\ buffer'[e] \in Seq(Parts)
      /\ Len(buffer'[e]) = n
      /\ \A i \in 1 .. n : buffer'[e][i] = q[i]
      /\ \A c \in Ends \ {e} : buffer'[c] = buffer[c]
      /\ buffer' = [c \in Ends |-> buffer'[c]]
  <2>1. buffer'[e] = SubSeq(q, 1, n)
    BY DEF SafeInv, PartsTypeOK
  <2>2. /\ \A c \in Ends \ {e} : buffer'[c] = buffer[c]
        /\ buffer' = [c \in Ends |-> buffer'[c]]
    BY DEF SafeInv, PartsTypeOK
  <2> DEFINE bb == buffer'[e]
  <2>3. bb = SubSeq(q, 1, n)
    BY <2>1
  <2> HIDE DEF q, bb
  <2>4. /\ bb \in Seq(Parts)
        /\ Len(bb) = n
        /\ \A i \in 1 .. n : bb[i] = q[i]
    BY <1>1, <2>3, Prefix
  <2> QED BY <2>2, <2>4 DEF bb
<1>3. /\ Line(d)' \in Seq(Parts)
      /\ Len(Line(d)') = Len(q) - n
      /\ \A i \in 1 .. Len(Line(d)') : Line(d)'[i] = q[i + n]
      /\ Within(Line(d)', q)
  <2>1. Line(d)' = SubSeq(q, n + 1, Len(q))
    OBVIOUS
  <2> HIDE DEF q
  <2> QED BY <1>1, <2>1, Suffix
<1>4. \A c \in Ends : Within(Line(c)', Line(c))
  BY <1>3, SafeFacts, WithinItself
<1>5. GrownRanks
  BY SameRanks
<1>6. PartsTypeOK'
  <2>1. \A c \in Ends : Line(c)' \in Seq(Parts)
    BY <1>4 DEF Within
  <2>2. up' \in [Sessions -> Seq(Parts)] /\ down' \in [Sessions -> Seq(Parts)]
    BY <2>1, LinesTyped
  <2>3. \A c \in Ends : buffer'[c] \in Seq(Parts)
    BY <1>2, SafeFacts
  <2> QED BY <1>2, <2>2, <2>3 DEF SafeInv, PartsTypeOK, SecureTypeOK
<1>7. BlocksInv'
  BY DEF SafeInv, BlocksInv
<1>8. ASSUME NEW c \in Ends \ {e}
      PROVE  EndInv(c)'
  BY <1>2, <1>4, <1>5, SafeFacts, WithinItself, ShrinkEnd
<1>9. EndInv(e)'
  <2> DEFINE bb == buffer'[e]
             l == Line(e)
             ll == Line(e)'
             acc == accepted[e]
  <2>1. /\ l \in Seq(Parts) /\ Len(l) \in Nat
        /\ \A p \in Parts : Rank(p) \in Nat /\ From(p) \in Writers
        /\ \A v \in Writers : NextRank(v) \in Nat
    BY SafeFacts
  <2>2. /\ accepted'[e] = acc
        /\ \A i \in 1 .. Len(acc) : acc[i].from \in Writers /\ acc[i].n \in Nat
    BY AcceptedTyped
  <2>3. EndInv(e) /\ EndInv(d)
    BY DEF SafeInv
  <2>4. \/ /\ d = e /\ q = l
           /\ \A i \in 1 .. Len(ll) :
                  i + n \in 1 .. Len(q) /\ ll[i] = q[i + n] /\ i \in Nat
        \/ e[2] = "server" /\ d[1] # e[1] /\ ll = l
    <3>1. CASE d = e
      <4>1. \A i \in 1 .. Len(ll) : i + n \in 1 .. Len(q) /\ i \in Nat
        BY <1>1, <1>3, <3>1
      <4> QED BY <1>3, <3>1, <4>1
    <3>2. CASE d # e
      BY <3>2, EndFacts DEF Ends, Sides
    <3> QED BY <3>1, <3>2
  <2>5. \A i, j \in Nat : i < j => i < j + n
    BY <1>1
  <2>6. \A i \in 1 .. n : i \in 1 .. Len(q) /\ i \in Nat
    BY <1>1
  <2>7. \A i \in 1 .. Len(bb) : bb[i] = q[i] /\ i \in 1 .. n
    BY <1>2
  <2>8. ll \in Seq(Parts) /\ Len(ll) \in Nat
    BY <1>4 DEF Within
  <2>9. \A i \in 1 .. Len(q) : q[i] \in Parts
    BY <1>1
  <2> HIDE DEF bb, l, ll, acc, q
  <2>10. /\ \A i \in 1 .. Len(q) :
                From(q[i])[2] = "client" <=> e[2] = "server"
         /\ \A i \in 1 .. Len(l) :
                From(l[i])[2] = "client" <=> e[2] = "server"
         /\ e[2] = "server" => \A i \in 1 .. Len(q) : From(q[i])[1] = d[1]
         /\ e[2] = "server" => \A i \in 1 .. Len(l) : From(l[i])[1] = e[1]
    BY <2>3 DEF EndInv, SidesInv, l, q
  <2>11. /\ Sorted(q) /\ Sorted(l)
         /\ \A i \in 1 .. Len(q) : Old(q[i])
         /\ \A i \in 1 .. Len(l) : Old(l[i])
    BY <2>3 DEF EndInv, OrderInv, l, q
  <2>12. \A i \in 1 .. Len(acc) :
             /\ EndOf(acc[i].from) = Peer(e)
             /\ 2 * acc[i].n + 1 < NextRank(acc[i].from)
             /\ \A j \in 1 .. Len(l) : Later(acc[i], l[j])
             /\ \A j \in 1 .. Len(acc) :
                    i < j /\ acc[i].from = acc[j].from => acc[i].n < acc[j].n
    BY <2>3 DEF EndInv, AcceptedInv, l, acc
  <2>13. SidesInv(e)'
    <3>1. \A i \in 1 .. Len(bb) :
              From(bb[i])[2] = "client" <=> e[2] = "server"
      <4>1. \A i \in 1 .. Len(bb) : bb[i] = q[i] /\ i \in 1 .. Len(q)
        BY <2>6, <2>7
      <4> QED BY <2>10, <4>1
    <3>2. /\ \A i \in 1 .. Len(ll) :
                 From(ll[i])[2] = "client" <=> e[2] = "server"
          /\ e[2] = "server" =>
                 \A i \in 1 .. Len(ll) : From(ll[i])[1] = e[1]
      <4>1. CASE ll = l
        BY <2>10, <4>1
      <4>2. CASE d = e /\ \A i \in 1 .. Len(ll) :
                     i + n \in 1 .. Len(q) /\ ll[i] = q[i + n]
        BY <2>10, <4>2
      <4> QED BY <2>4, <4>1, <4>2
    <3> QED BY <3>1, <3>2 DEF SidesInv, bb, ll
  <2>14. OrderInv(e)'
    <3>1. Sorted(bb)
      BY <2>6, <2>7, <2>11 DEF Sorted
    <3>2. Sorted(ll)
      <4>1. CASE d = e /\ \A i \in 1 .. Len(ll) :
                     i + n \in 1 .. Len(q) /\ ll[i] = q[i + n] /\ i \in Nat
        <5>1. \A i, j \in Nat : i < j => i + n < j + n
          BY <1>1
        <5>2. ASSUME NEW i \in 1 .. Len(ll), NEW j \in 1 .. Len(ll),
                     i < j, From(ll[i]) = From(ll[j])
              PROVE  Rank(ll[i]) < Rank(ll[j])
          <6>1. /\ i + n \in 1 .. Len(q) /\ ll[i] = q[i + n]
                /\ j + n \in 1 .. Len(q) /\ ll[j] = q[j + n]
                /\ i + n < j + n
            BY <4>1, <5>1, <5>2
          <6> QED BY <2>11, <5>2, <6>1 DEF Sorted
        <5> QED BY <5>2 DEF Sorted
      <4>2. CASE ll = l
        BY <2>11, <4>2
      <4> QED BY <2>4, <4>1, <4>2
    <3>3. Precede(bb, ll)
      <4>1. ASSUME NEW i \in 1 .. Len(bb), NEW j \in 1 .. Len(ll),
                   From(bb[i]) = From(ll[j])
            PROVE  Rank(bb[i]) < Rank(ll[j])
        <5>1. i \in 1 .. Len(q) /\ i \in Nat /\ bb[i] = q[i]
          BY <2>6, <2>7, <4>1
        <5>2. CASE d = e /\ j + n \in 1 .. Len(q) /\ ll[j] = q[j + n]
          <6>1. i < j + n
            BY <1>1, <2>7, <2>8, <4>1
          <6> QED BY <2>11, <4>1, <5>1, <5>2, <6>1 DEF Sorted
        <5>3. CASE e[2] = "server" /\ d[1] # e[1] /\ ll = l
          <6>1. From(q[i])[1] = d[1]
            BY <2>10, <5>1, <5>3
          <6>2. From(ll[j])[1] = e[1]
            BY <2>10, <4>1, <5>3
          <6> QED BY <4>1, <5>1, <5>3, <6>1, <6>2
        <5> QED BY <2>4, <5>2, <5>3
      <4> QED BY <4>1 DEF Precede
    <3>4. /\ \A i \in 1 .. Len(bb) : Old(bb[i])
          /\ \A i \in 1 .. Len(ll) : Old(ll[i])
      BY <2>4, <2>6, <2>7, <2>11
    <3> QED
      BY <3>1, <3>2, <3>3, <3>4 DEF OrderInv, Old, NextRank, bb, ll
  <2>15. AcceptedInv(e)'
    <3>1. ASSUME NEW i \in 1 .. Len(acc)
          PROVE  /\ \A j \in 1 .. Len(bb) : Later(acc[i], bb[j])
                 /\ \A j \in 1 .. Len(ll) : Later(acc[i], ll[j])
      <4>1. CASE d = e /\ q = l
        BY <2>4, <2>6, <2>7, <2>12, <4>1
      <4>2. CASE e[2] = "server" /\ d[1] # e[1] /\ ll = l
        <5>1. acc[i].from[1] = e[1]
          <6>1. EndOf(acc[i].from) = Peer(e) /\ acc[i].from \in Writers
            BY <2>2, <2>12
          <6> QED BY <6>1, EndFacts
        <5>2. \A j \in 1 .. Len(bb) : From(bb[j]) # acc[i].from
          BY <2>6, <2>7, <2>10, <4>2, <5>1
        <5> QED BY <2>12, <4>2, <5>2 DEF Later
      <4> QED BY <2>4, <4>1, <4>2
    <3> QED
      BY <2>2, <2>12, <3>1 DEF AcceptedInv, NextRank, bb, ll
  <2> QED BY <2>13, <2>14, <2>15 DEF EndInv
<1> QED BY <1>6, <1>7, <1>8, <1>9 DEF SafeInv

\* A block is authentic only if it is of this session, from the other side:
\* its message comes after what has been accepted, and before what is to come.
LEMMA AcceptSafe ==
    ASSUME SafeInv, NEW e \in Ends,
           StartsWithBlock(buffer[e]),
           decryptMessage(e[1], buffer[e][1].iv, buffer[e][2].cipher).valid,
           accepted' = [accepted EXCEPT ![e] =
                            Append(@, buffer[e][2].cipher.message)],
           Drop(e, 2),
           m_usedIV' \in [Ends -> [read : SUBSET IVs, written : SUBSET IVs]],
           UNCHANGED <<writing, written, up, down>>
    PROVE  SafeInv'
<1> DEFINE b == buffer[e]
           bb == buffer'[e]
           acc == accepted[e]
           message == b[2].cipher.message
<1>1. /\ b \in Seq(Parts) /\ Len(b) \in Nat /\ Len(b) >= 2
      /\ acc \in Seq(Messages) /\ Len(acc) \in Nat
      /\ 2 \in 1 .. Len(b) /\ 2 \in 0 .. Len(b)
      /\ \A p \in Parts : Rank(p) \in Nat /\ From(p) \in Writers
      /\ \A v \in Writers : NextRank(v) \in Nat
  BY SafeFacts DEF StartsWithBlock
<1>2. /\ b[2] \in Parts /\ ~IsHead(b[2])
      /\ b[2].cipher.key = e[1]
  <2>1. ~IsHead(b[2]) /\ b[2] \in Parts
    BY <1>1 DEF StartsWithBlock
  <2>2. decryptMessage(e[1], b[1].iv, b[2].cipher).valid
            => b[2].cipher.key = e[1]
    BY DEF decryptMessage
  <2> QED BY <2>1, <2>2
<1>3. /\ message = MessageOf(b[2])
      /\ message \in Messages
      /\ message.from = From(b[2])
      /\ message.from \in Writers
      /\ message.from[1] = e[1]
      /\ message.n \in Nat
      /\ Rank(b[2]) = 2 * message.n + 1
  <2>1. message = MessageOf(b[2]) /\ message.from = From(b[2])
    BY <1>2 DEF MessageOf, From
  <2>2. /\ MessageOf(b[2]) \in Messages
        /\ From(b[2]) \in Writers
        /\ MessageOf(b[2]).n \in Nat
        /\ b[2].cipher.key = From(b[2])[1]
    BY <1>2, PartFacts
  <2>3. Rank(b[2]) = 2 * MessageOf(b[2]).n + 1
    BY <1>2 DEF Rank
  <2> QED BY <1>2, <2>1, <2>2, <2>3
<1>4. /\ buffer' = [buffer EXCEPT ![e] = SubSeq(b, 2 + 1, Len(b))]
      /\ buffer \in [Ends -> Seq(Parts)]
  BY DEF Drop, SafeInv, PartsTypeOK
<1>5. /\ bb \in Seq(Parts) /\ Len(bb) = Len(b) - 2
      /\ \A i \in 1 .. Len(bb) : bb[i] = b[i + 2]
      /\ Within(bb, b)
      /\ \A c \in Ends \ {e} : buffer'[c] = buffer[c]
  <2>1. bb = SubSeq(b, 2 + 1, Len(b))
    BY <1>4
  <2>2. \A c \in Ends \ {e} : buffer'[c] = buffer[c]
    BY <1>4
  <2> HIDE DEF b, bb
  <2>3. /\ bb \in Seq(Parts) /\ Len(bb) = Len(b) - 2
        /\ \A i \in 1 .. Len(bb) : bb[i] = b[i + 2]
        /\ Within(bb, b)
    BY <1>1, <2>1, SuffixTwo
  <2> QED BY <2>2, <2>3
<1>6. /\ accepted'[e] = Append(acc, message)
      /\ accepted' \in [Ends -> Seq(Messages)]
      /\ \A c \in Ends \ {e} : accepted'[c] = accepted[c]
  <2>1. accepted \in [Ends -> Seq(Messages)]
    BY DEF SafeInv, PartsTypeOK
  <2>2. Append(acc, message) \in Seq(Messages)
    BY <1>1, <1>3
  <2> QED BY <2>1, <2>2
<1>7. \A c \in Ends : Line(c)' = Line(c)
  BY DEF Line
<1>8. GrownRanks
  BY SameRanks
<1>9. PartsTypeOK'
  <2>1. \A c \in Ends : buffer'[c] \in Seq(Parts)
    BY <1>5, SafeFacts
  <2>2. buffer' \in [Ends -> Seq(Parts)]
    BY <1>4, <2>1
  <2>3. \A c \in Ends : accepted'[c] \in Seq(Messages)
    BY <1>6
  <2> QED BY <1>6, <2>2, <2>3 DEF SafeInv, PartsTypeOK, SecureTypeOK
<1>10. BlocksInv'
  BY DEF SafeInv, BlocksInv
<1>11. ASSUME NEW c \in Ends \ {e}
       PROVE  EndInv(c)'
  BY <1>5, <1>6, <1>7, <1>8, SafeFacts, WithinItself, ShrinkEnd
<1>12. EndInv(e)'
  <2> DEFINE l == Line(e)
             acc2 == accepted'[e]
  <2>1. l \in Seq(Parts) /\ Len(l) \in Nat /\ Line(e)' = l
    BY <1>7, SafeFacts
  <2>2. EndInv(e)
    BY DEF SafeInv
  <2>3. /\ \A i \in 1 .. Len(acc) : acc[i].from \in Writers /\ acc[i].n \in Nat
        /\ acc2 \in Seq(Messages)
        /\ Len(acc2) = Len(acc) + 1
        /\ \A i \in 1 .. Len(acc) : acc2[i] = acc[i]
        /\ acc2[Len(acc) + 1] = message
    <3>1. \A i \in 1 .. Len(acc) : acc[i].from \in Writers /\ acc[i].n \in Nat
      BY AcceptedTyped
    <3>2. acc2 = Append(acc, message)
      BY <1>6
    <3> HIDE DEF acc, acc2, message
    <3> QED BY <1>1, <1>3, <3>1, <3>2, AppendProperties
  <2>4. \A i \in 1 .. Len(acc2) : i \in 1 .. Len(acc) \/ i = Len(acc) + 1
    BY <1>1, <2>3
  <2>5. \A i \in 1 .. Len(bb) :
            i \in Nat /\ i + 2 \in 1 .. Len(b) /\ 2 < i + 2 /\ bb[i] = b[i + 2]
    BY <1>1, <1>5
  <2> HIDE DEF b, bb, acc, message, l, acc2
  <2>6. SidesInv(e)'
    <3>1. /\ \A i \in 1 .. Len(b) :
                 From(b[i])[2] = "client" <=> e[2] = "server"
          /\ \A i \in 1 .. Len(l) :
                 From(l[i])[2] = "client" <=> e[2] = "server"
          /\ e[2] = "server" => \A i \in 1 .. Len(l) : From(l[i])[1] = e[1]
      BY <2>2 DEF EndInv, SidesInv, b, l
    <3>2. \A i \in 1 .. Len(bb) :
              From(bb[i])[2] = "client" <=> e[2] = "server"
      BY <2>5, <3>1
    <3> QED BY <2>1, <3>1, <3>2 DEF SidesInv, bb
  <2>7. /\ Sorted(b) /\ Sorted(l) /\ Precede(b, l)
        /\ \A i \in 1 .. Len(b) : Old(b[i])
        /\ \A i \in 1 .. Len(l) : Old(l[i])
    BY <2>2 DEF EndInv, OrderInv, b, l
  <2>8. OrderInv(e)'
    <3>1. Sorted(bb)
      <4>1. \A i, j \in Nat : i < j => i + 2 < j + 2
        OBVIOUS
      <4> QED BY <2>5, <2>7, <4>1 DEF Sorted
    <3>2. Precede(bb, l)
      BY <2>5, <2>7 DEF Precede
    <3>3. \A i \in 1 .. Len(bb) : Old(bb[i])
      BY <2>5, <2>7
    <3> QED
      BY <2>1, <2>7, <3>1, <3>2, <3>3 DEF OrderInv, Old, NextRank, bb
  <2>9. /\ \A j \in 1 .. Len(bb) : Later(message, bb[j])
        /\ \A j \in 1 .. Len(l) : Later(message, l[j])
        /\ 2 * message.n + 1 < NextRank(message.from)
        /\ EndOf(message.from) = Peer(e)
    <3>1. \A j \in 1 .. Len(bb) : Later(message, bb[j])
      BY <1>1, <1>3, <2>5, <2>7 DEF Sorted, Later
    <3>2. \A j \in 1 .. Len(l) : Later(message, l[j])
      BY <1>1, <1>3, <2>7 DEF Precede, Later
    <3>3. 2 * message.n + 1 < NextRank(message.from)
      BY <1>1, <1>3, <2>7 DEF Old
    <3>4. message.from[2] = "client" <=> e[2] = "server"
      BY <1>1, <1>3, <2>2 DEF EndInv, SidesInv, b
    <3>5. EndOf(message.from) = Peer(e)
      BY <1>3, <3>4, EndFacts DEF EndOf, Peer, Ends, Sides
    <3> QED BY <3>1, <3>2, <3>3, <3>5
  <2>10. \A i \in 1 .. Len(acc) :
             /\ EndOf(acc[i].from) = Peer(e)
             /\ 2 * acc[i].n + 1 < NextRank(acc[i].from)
             /\ \A j \in 1 .. Len(b) : Later(acc[i], b[j])
             /\ \A j \in 1 .. Len(l) : Later(acc[i], l[j])
             /\ \A j \in 1 .. Len(acc) :
                    i < j /\ acc[i].from = acc[j].from => acc[i].n < acc[j].n
    BY <2>2 DEF EndInv, AcceptedInv, b, l, acc
  <2>11. ASSUME NEW i \in 1 .. Len(acc), acc[i].from = message.from
         PROVE  acc[i].n < message.n
    <3>1. 2 * acc[i].n + 1 < 2 * message.n + 1
      BY <1>1, <1>3, <2>10, <2>11 DEF Later
    <3>2. \A k, m \in Nat : 2 * k + 1 < 2 * m + 1 => k < m
      OBVIOUS
    <3> QED BY <1>3, <2>3, <3>1, <3>2
  <2>12. ASSUME NEW i \in 1 .. Len(acc2)
         PROVE  /\ EndOf(acc2[i].from) = Peer(e)
                /\ 2 * acc2[i].n + 1 < NextRank(acc2[i].from)
                /\ \A j \in 1 .. Len(bb) : Later(acc2[i], bb[j])
                /\ \A j \in 1 .. Len(l) : Later(acc2[i], l[j])
    <3>1. CASE i \in 1 .. Len(acc)
      BY <2>3, <2>5, <2>10, <3>1
    <3>2. CASE i = Len(acc) + 1
      BY <2>3, <2>9, <3>2
    <3> QED BY <2>4, <3>1, <3>2
  <2>13. ASSUME NEW i \in 1 .. Len(acc2), NEW j \in 1 .. Len(acc2),
                i < j, acc2[i].from = acc2[j].from
         PROVE  acc2[i].n < acc2[j].n
    <3>1. i \in 1 .. Len(acc) /\ acc2[i] = acc[i]
      BY <1>1, <2>3, <2>13
    <3>2. CASE j \in 1 .. Len(acc)
      BY <2>3, <2>10, <2>13, <3>1, <3>2
    <3>3. CASE j = Len(acc) + 1
      BY <2>3, <2>11, <2>13, <3>1, <3>3
    <3> QED BY <2>4, <3>2, <3>3
  <2>14. AcceptedInv(e)'
    BY <2>1, <2>12, <2>13 DEF AcceptedInv, NextRank, bb, acc2
  <2> QED BY <2>6, <2>8, <2>14 DEF EndInv
<1> QED BY <1>9, <1>10, <1>11, <1>12 DEF SafeInv

-----------------------------------------------------------------------------
(* Descriptors.                                                            *)

\* A number stands for one connection at most, and for that of a client that
\* has not closed as long as its session has it.
NumbersInv ==
    /\ fd \in [Sessions -> {0} \cup Numbers]
    /\ behind \in [Numbers -> SUBSET Sessions]
    /\ \A n \in Numbers : \A s, t \in behind[n] : s = t
    /\ mainSocket \in [Sessions -> {"none", "open", "closed", "deaf"}]
    /\ workerSocket \in [Sessions -> {"none", "new", "open", "closed", "left"}]
    /\ clientSocket \in [Sessions -> {"none", "open", "closed"}]
    /\ disturbed \in [Sessions -> BOOLEAN]
    /\ \A s \in Sessions : clientSocket[s] = "open" =>
           fd[s] \in Numbers /\ s \in behind[fd[s]]

\* A connection that has not been accepted is nowhere.
UnusedInv ==
    \A s \in Sessions : clientSocket[s] = "none" =>
        /\ workerSocket[s] = "none"
        /\ \A n \in Numbers : s \notin behind[n]
        /\ \A w \in Writers : w[1] = s => written[w] = 0 /\ writing[w] = <<>>
        /\ \A e \in Ends : e[1] = s => buffer[e] = <<>> /\ Line(e) = <<>>

LEMMA LeastNatural ==
    ASSUME NEW S, S \subseteq Nat, S # {}
    PROVE  \E x \in S : \A y \in S : x <= y
<1> DEFINE less == OpToRel(<, Nat)
<1>1. IsWellFoundedOn(less, Nat)
  BY NatLessThanWellFounded
<1>2. \E x \in S : \A y \in S : ~(<<y, x>> \in less)
  <2> HIDE DEF less
  <2> QED BY <1>1, WFMin
<1>3. PICK x \in S : \A y \in S : ~(<<y, x>> \in less)
  BY <1>2
<1>4. \A y \in S : ~(y < x)
  BY <1>3 DEF OpToRel
<1>5. \A y \in S : x <= y
  BY <1>4
<1> QED BY <1>5

\* new_user() gives out a number that stands for nothing.
LEMMA FreeNumber ==
    ASSUME FreeNumbers # {}
    PROVE  /\ Min(FreeNumbers) \in FreeNumbers
           /\ FreeNumbers \subseteq Numbers \ {0}
<1>1. Cardinality(Sessions) \in Nat
  BY SessionsAssumption, FS_CardinalityType
<1>2. Numbers \subseteq Nat \ {0}
  BY <1>1 DEF Numbers
<1>3. FreeNumbers \subseteq Numbers
  BY DEF FreeNumbers
<1>4. \E x \in FreeNumbers : \A y \in FreeNumbers : x <= y
  BY <1>2, <1>3, LeastNatural
<1> QED BY <1>2, <1>3, <1>4 DEF Min

\* What a session's objects reach is one connection.
LEMMA ReachFacts ==
    ASSUME NumbersInv, UnusedInv, NEW s \in Sessions
    PROVE  /\ Reach(s) \subseteq Sessions
           /\ \A t, u \in Reach(s) : t = u
           /\ \A t \in Reach(s) : clientSocket[t] # "none"
           /\ Reach(s) # {} => fd[s] \in Numbers /\ Reach(s) = behind[fd[s]]
           /\ clientSocket[s] = "open" => Reach(s) = {s} /\ Connected(s)
<1>1. Cardinality(Sessions) \in Nat
  BY SessionsAssumption, FS_CardinalityType
<1>2. 0 \notin Numbers
  BY <1>1 DEF Numbers
<1>3. fd[s] = 0 => Reach(s) = {}
  BY DEF Reach
<1>4. fd[s] # 0 => fd[s] \in Numbers /\ Reach(s) = behind[fd[s]]
  BY DEF Reach, NumbersInv
<1>5. \A n \in Numbers : behind[n] \subseteq Sessions
  BY DEF NumbersInv
<1>6. \A t \in Reach(s) : clientSocket[t] # "none"
  BY <1>3, <1>4, <1>5 DEF UnusedInv
<1>7. clientSocket[s] = "open" => Reach(s) = {s} /\ Connected(s)
  BY <1>2, <1>4 DEF NumbersInv, Connected
<1>8. \A t, u \in Reach(s) : t = u
  BY <1>3, <1>4 DEF NumbersInv
<1> QED BY <1>3, <1>4, <1>5, <1>6, <1>7, <1>8

\* Only the descriptor of a client that has closed is closed.
LEMMA CloseNumber ==
    ASSUME NumbersInv, UnusedInv, NEW s \in Sessions, NEW t \in Reach(s),
           AtEnd(t), Close(fd[s])
    PROVE  /\ behind' \in [Numbers -> SUBSET Sessions]
           /\ \A n \in Numbers : behind'[n] \subseteq behind[n]
           /\ \A u \in Sessions : clientSocket[u] = "open" =>
                  u \in behind'[fd[u]]
<1>1. /\ fd[s] \in Numbers
      /\ t \in behind[fd[s]]
      /\ t \in Sessions
      /\ clientSocket[t] = "closed"
  BY ReachFacts DEF AtEnd
<1>2. behind' = [behind EXCEPT ![fd[s]] = {}]
  BY DEF Close
<1>3. /\ behind' \in [Numbers -> SUBSET Sessions]
      /\ \A n \in Numbers : behind'[n] \subseteq behind[n]
      /\ \A n \in Numbers : n # fd[s] => behind'[n] = behind[n]
  BY <1>1, <1>2 DEF NumbersInv
<1>4. ASSUME NEW u \in Sessions, clientSocket[u] = "open"
      PROVE  u \in behind'[fd[u]]
  <2>1. fd[u] \in Numbers /\ u \in behind[fd[u]]
    BY <1>4 DEF NumbersInv
  <2>2. fd[u] # fd[s]
    BY <1>1, <1>4, <2>1 DEF NumbersInv
  <2> QED BY <1>3, <2>1, <2>2
<1> QED BY <1>3, <1>4

LEMMA NumbersStep ==
    ASSUME NumbersInv, UnusedInv, [Next]_vars
    PROVE  NumbersInv'
<1>1. \A ss : Disturb(ss) => disturbed' \in [Sessions -> BOOLEAN]
  BY DEF Disturb, NumbersInv
<1>2. CASE UNCHANGED vars
  BY <1>2 DEF vars, socketVars, NumbersInv
<1>3. ASSUME NEW s \in Sessions, new_user(s)
      PROVE  NumbersInv'
  <2> DEFINE n == Min(FreeNumbers)
  <2>1. n \in Numbers /\ n # 0 /\ behind[n] = {}
    BY <1>3, FreeNumber DEF new_user, FreeNumbers
  <2>2. /\ clientSocket[s] = "none"
        /\ clientSocket' = [clientSocket EXCEPT ![s] = "open"]
        /\ fd' = [fd EXCEPT ![s] = n]
        /\ behind' = [behind EXCEPT ![n] = {s}]
        /\ mainSocket' = [mainSocket EXCEPT ![s] = "open"]
        /\ workerSocket' = [workerSocket EXCEPT ![s] = "new"]
        /\ disturbed' = disturbed
    BY <1>3 DEF new_user
  <2> HIDE DEF n
  <2>3. \A u \in Sessions : clientSocket'[u] = "open" =>
            fd'[u] \in Numbers /\ u \in behind'[fd'[u]]
    BY <2>1, <2>2 DEF NumbersInv
  <2>4. /\ fd' \in [Sessions -> {0} \cup Numbers]
        /\ behind' \in [Numbers -> SUBSET Sessions]
        /\ \A k \in Numbers : \A u, t \in behind'[k] : u = t
    BY <2>1, <2>2 DEF NumbersInv
  <2>5. /\ mainSocket' \in [Sessions -> {"none", "open", "closed", "deaf"}]
        /\ workerSocket' \in
               [Sessions -> {"none", "new", "open", "closed", "left"}]
        /\ clientSocket' \in [Sessions -> {"none", "open", "closed"}]
        /\ disturbed' \in [Sessions -> BOOLEAN]
    BY <2>2 DEF NumbersInv
  <2> QED BY <2>3, <2>4, <2>5 DEF NumbersInv
<1>4. ASSUME NEW s \in Sessions, MainTakes(s)
      PROVE  NumbersInv'
  BY <1>1, <1>4 DEF MainTakes, socketVars, NumbersInv
<1>5. ASSUME NEW s \in Sessions, MainDisconnects(s)
      PROVE  NumbersInv'
  <2>1. PICK t \in Reach(s) : AtEnd(t)
    BY <1>5 DEF MainDisconnects
  <2>2. /\ behind' \in [Numbers -> SUBSET Sessions]
        /\ \A n \in Numbers : behind'[n] \subseteq behind[n]
        /\ \A u \in Sessions : clientSocket[u] = "open" =>
               u \in behind'[fd[u]]
    BY <1>5, <2>1, CloseNumber DEF MainDisconnects
  <2>3. /\ mainSocket' \in [Sessions -> {"none", "open", "closed", "deaf"}]
        /\ UNCHANGED <<fd, workerSocket, clientSocket, disturbed>>
    BY <1>5 DEF MainDisconnects, NumbersInv
  <2> QED BY <2>2, <2>3 DEF NumbersInv
<1>6. ASSUME NEW s \in Sessions, MainGoesDeaf(s)
      PROVE  NumbersInv'
  BY <1>6 DEF MainGoesDeaf, NumbersInv
<1>7. ASSUME NEW s \in Sessions, SetSocketDescriptor(s)
      PROVE  NumbersInv'
  BY <1>7 DEF SetSocketDescriptor, NumbersInv
<1>8. ASSUME NEW s \in Sessions, WorkerTakes(s)
      PROVE  NumbersInv'
  BY <1>1, <1>8 DEF WorkerTakes, socketVars, NumbersInv
<1>9. ASSUME NEW s \in Sessions, WorkerCloses(s)
      PROVE  NumbersInv'
  <2>1. PICK t \in Reach(s) : AtEnd(t)
    BY <1>9 DEF WorkerCloses
  <2>2. /\ behind' \in [Numbers -> SUBSET Sessions]
        /\ \A n \in Numbers : behind'[n] \subseteq behind[n]
        /\ \A u \in Sessions : clientSocket[u] = "open" =>
               u \in behind'[fd[u]]
    BY <1>9, <2>1, CloseNumber DEF WorkerCloses
  <2>3. /\ workerSocket[s] = "open"
        /\ workerSocket' = [workerSocket EXCEPT ![s] = "closed"]
        /\ UNCHANGED <<fd, mainSocket, clientSocket, disturbed>>
    BY <1>9 DEF WorkerCloses
  <2> QED BY <2>2, <2>3 DEF NumbersInv
<1>10. ASSUME NEW s \in Sessions, WorkerFails(s)
       PROVE  NumbersInv'
  BY <1>10 DEF WorkerFails, NumbersInv
<1>11. ASSUME NEW s \in Sessions, WorkerLeaves(s)
       PROVE  NumbersInv'
  BY <1>11 DEF WorkerLeaves, NumbersInv
<1>12. ASSUME NEW s \in Sessions, ClientTakes(s)
       PROVE  NumbersInv'
  BY <1>1, <1>12 DEF ClientTakes, socketVars, NumbersInv
<1>13. ASSUME NEW s \in Sessions, ClientCloses(s)
       PROVE  NumbersInv'
  BY <1>13 DEF ClientCloses, NumbersInv
<1>14. ASSUME NEW s \in Sessions, ClientWrites(s)
       PROVE  NumbersInv'
  BY <1>14 DEF ClientWrites, socketVars, NumbersInv
<1>15. ASSUME NEW e, ReadsBlock(e)
       PROVE  NumbersInv'
  BY <1>15 DEF ReadsBlock, socketVars, NumbersInv
<1>16. ASSUME NEW w \in Writers, BeginBlock(w)
       PROVE  NumbersInv'
  BY <1>1, <1>16 DEF BeginBlock, socketVars, NumbersInv
<1>17. ASSUME NEW w \in Writers, ServerWrites(w)
       PROVE  NumbersInv'
  <2>1. /\ w[1] \in Sessions
        /\ UNCHANGED <<fd, behind, mainSocket, clientSocket>>
    BY <1>17, EndFacts DEF ServerWrites
  <2>2. CASE IsOpen(w) /\ Reach(w[1]) # {}
    BY <1>1, <1>17, <2>1, <2>2 DEF ServerWrites, NumbersInv
  <2>3. CASE ~(IsOpen(w) /\ Reach(w[1]) # {})
    <3>1. /\ workerSocket' = [workerSocket EXCEPT ![w[1]] = "closed"]
          /\ disturbed' = disturbed
      BY <1>17, <2>3 DEF ServerWrites
    <3> QED BY <2>1, <3>1 DEF NumbersInv
  <2> QED BY <2>2, <2>3
<1>18. CASE Next
  BY <1>18, <1>3, <1>4, <1>5, <1>6, <1>7, <1>8, <1>9, <1>10, <1>11, <1>12,
     <1>13, <1>14, <1>15, <1>16, <1>17 DEF Next, Main, Worker, Client
<1> QED BY <1>2, <1>18

\* Who changes the client's socket, and the rest.
LEMMA ClientSteps ==
    ASSUME [Next]_vars
    PROVE  \/ UNCHANGED clientSocket
           \/ \E s \in Sessions : new_user(s) \/ ClientCloses(s)
<1>1. ASSUME NEW s \in Sessions, Main(s)
      PROVE  UNCHANGED clientSocket \/ new_user(s)
  BY <1>1 DEF Main, MainTakes, MainDisconnects, MainGoesDeaf, socketVars
<1>2. ASSUME NEW s \in Sessions, Worker(s)
      PROVE  UNCHANGED clientSocket
  BY <1>2 DEF Worker, SetSocketDescriptor, WorkerTakes, WorkerCloses,
              WorkerFails, WorkerLeaves, ReadsBlock, socketVars
<1>3. ASSUME NEW s \in Sessions, Client(s) \/ ClientWrites(s)
      PROVE  UNCHANGED clientSocket \/ ClientCloses(s)
  BY <1>3 DEF Client, ClientTakes, ClientWrites, ReadsBlock, socketVars
<1>4. ASSUME NEW w \in Writers, BeginBlock(w) \/ ServerWrites(w)
      PROVE  UNCHANGED clientSocket
  BY <1>4 DEF BeginBlock, ServerWrites, socketVars
<1>5. CASE UNCHANGED vars
  BY <1>5 DEF vars, socketVars
<1> QED BY <1>1, <1>2, <1>3, <1>4, <1>5 DEF Next

LEMMA UnusedStep ==
    ASSUME SafeInv, NumbersInv, UnusedInv, [Next]_vars
    PROVE  UnusedInv'
<1> SUFFICES ASSUME NEW s \in Sessions, clientSocket'[s] = "none"
             PROVE  /\ workerSocket'[s] = "none"
                    /\ \A n \in Numbers : s \notin behind'[n]
                    /\ \A w \in Writers :
                           w[1] = s => written'[w] = 0 /\ writing'[w] = <<>>
                    /\ \A e \in Ends :
                           e[1] = s => buffer'[e] = <<>> /\ Line(e)' = <<>>
  BY DEF UnusedInv
<1> DEFINE Unused == /\ workerSocket'[s] = "none"
                     /\ \A n \in Numbers : s \notin behind'[n]
                     /\ \A w \in Writers : w[1] = s =>
                            written'[w] = 0 /\ writing'[w] = <<>>
                     /\ \A e \in Ends :
                            e[1] = s => buffer'[e] = <<>> /\ Line(e)' = <<>>
<1>1. clientSocket[s] = "none"
  <2>1. ASSUME NEW t \in Sessions, new_user(t) \/ ClientCloses(t)
        PROVE  clientSocket[s] = "none"
    BY <2>1 DEF new_user, ClientCloses, NumbersInv
  <2> QED BY <2>1, ClientSteps
<1>2. /\ workerSocket[s] = "none"
      /\ \A n \in Numbers : s \notin behind[n]
      /\ \A w \in Writers : w[1] = s => written[w] = 0 /\ writing[w] = <<>>
      /\ \A e \in Ends : e[1] = s => buffer[e] = <<>> /\ Line(e) = <<>>
      /\ up[s] = <<>> /\ down[s] = <<>>
  <2>1. <<s, "server">> \in Ends /\ <<s, "client">> \in Ends
    BY DEF Ends, Sides
  <2>2. Line(<<s, "server">>) = up[s] /\ Line(<<s, "client">>) = down[s]
    BY DEF Line
  <2> QED BY <1>1, <2>1, <2>2 DEF UnusedInv
<1>3. ASSUME up'[s] = up[s], down'[s] = down[s]
      PROVE  \A e \in Ends : e[1] = s => Line(e)' = <<>>
  BY <1>2, <1>3 DEF Line
<1>4. \A t \in Sessions : s \notin Reach(t)
  BY <1>1, ReachFacts
<1>5. CASE UNCHANGED vars
  BY <1>2, <1>3, <1>5 DEF vars, cryptVars, socketVars
<1>6. ASSUME NEW t \in Sessions, new_user(t)
      PROVE  Unused
  <2>1. t # s
    BY <1>6 DEF new_user, NumbersInv
  <2>2. \A n \in Numbers : behind'[n] \subseteq behind[n] \cup {t}
    BY <1>6 DEF new_user, NumbersInv
  <2> QED BY <1>2, <1>3, <1>6, <2>1, <2>2 DEF new_user, cryptVars, NumbersInv
<1>7. ASSUME NEW t \in Sessions, MainTakes(t)
      PROVE  Unused
  <2>1. up'[s] = up[s]
    BY <1>4, <1>7, ReachFacts DEF MainTakes, SafeInv, PartsTypeOK
  <2> QED BY <1>2, <1>3, <1>7, <2>1 DEF MainTakes, cryptVars, socketVars
<1>8. ASSUME NEW n \in Numbers \cup {0}, Close(n)
      PROVE  \A k \in Numbers : s \notin behind'[k]
  BY <1>2, <1>8 DEF Close, NumbersInv
<1>9. ASSUME NEW t \in Sessions, MainDisconnects(t)
      PROVE  Unused
  <2>1. fd[t] \in Numbers \cup {0}
    BY DEF NumbersInv
  <2> QED BY <1>2, <1>3, <1>8, <1>9, <2>1 DEF MainDisconnects, cryptVars
<1>10. ASSUME NEW t \in Sessions, MainGoesDeaf(t)
       PROVE  Unused
  BY <1>2, <1>3, <1>10 DEF MainGoesDeaf, cryptVars
<1>11. ASSUME NEW t \in Sessions, SetSocketDescriptor(t)
       PROVE  Unused
  BY <1>2, <1>3, <1>11 DEF SetSocketDescriptor, cryptVars, NumbersInv
<1>12. ASSUME NEW t \in Sessions, WorkerTakes(t)
       PROVE  Unused
  <2>1. t # s
    BY <1>2, <1>12 DEF WorkerTakes
  <2>2. up'[s] = up[s]
    BY <1>4, <1>12, ReachFacts DEF WorkerTakes, SafeInv, PartsTypeOK
  <2>3. \A e \in Ends : e[1] = s => buffer'[e] = buffer[e]
    BY <1>12, <2>1 DEF WorkerTakes, SafeInv, PartsTypeOK
  <2> QED BY <1>2, <1>3, <1>12, <2>2, <2>3 DEF WorkerTakes, socketVars
<1>13. ASSUME NEW t \in Sessions, WorkerCloses(t)
       PROVE  Unused
  <2>1. fd[t] \in Numbers \cup {0} /\ t # s
    BY <1>2, <1>13 DEF WorkerCloses, NumbersInv
  <2> QED
    BY <1>2, <1>3, <1>8, <1>13, <2>1 DEF WorkerCloses, cryptVars, NumbersInv
<1>14. ASSUME NEW t \in Sessions, WorkerFails(t)
       PROVE  Unused
  BY <1>2, <1>3, <1>14 DEF WorkerFails, cryptVars, NumbersInv
<1>15. ASSUME NEW t \in Sessions, WorkerLeaves(t)
       PROVE  Unused
  BY <1>2, <1>3, <1>15 DEF WorkerLeaves, cryptVars, NumbersInv
<1>16. ASSUME NEW t \in Sessions, ClientTakes(t)
       PROVE  Unused
  <2>1. t # s
    BY <1>1, <1>16 DEF ClientTakes
  <2>2. down'[s] = down[s]
    BY <1>16, <2>1 DEF ClientTakes, SafeInv, PartsTypeOK
  <2>3. \A e \in Ends : e[1] = s => buffer'[e] = buffer[e]
    BY <1>16, <2>1 DEF ClientTakes, SafeInv, PartsTypeOK
  <2> QED BY <1>2, <1>3, <1>16, <2>2, <2>3 DEF ClientTakes, socketVars
<1>17. ASSUME NEW t \in Sessions, ClientCloses(t)
       PROVE  Unused
  BY <1>2, <1>3, <1>17 DEF ClientCloses, cryptVars
<1>18. ASSUME NEW t \in Sessions, ClientWrites(t)
       PROVE  Unused
  <2>1. t # s /\ <<t, "client">> \in Writers
    BY <1>2, <1>18 DEF ClientWrites, Writers
  <2>2. up'[s] = up[s]
    BY <1>18, <2>1 DEF ClientWrites, SafeInv, PartsTypeOK
  <2>3. \A w \in Writers : w[1] = s => writing'[w] = writing[w]
    BY <1>18, <2>1 DEF ClientWrites, SafeInv, PartsTypeOK
  <2> QED BY <1>2, <1>3, <1>18, <2>2, <2>3 DEF ClientWrites, socketVars
<1>19. ASSUME NEW e \in Ends, ReadsBlock(e)
       PROVE  Unused
  <2>1. e[1] # s
    BY <1>2, <1>19 DEF ReadsBlock, readBlock
  <2>2. \A d \in Ends : d[1] = s => buffer'[d] = buffer[d]
    BY <1>19, <2>1
       DEF ReadsBlock, readBlock, ReadNoBlock, ReadUsedIV, Decrypt, Drop,
           SafeInv, PartsTypeOK
  <2> QED
    BY <1>2, <1>3, <1>19, <2>2 DEF ReadsBlock, readBlock, socketVars
<1>20. ASSUME NEW w \in Writers, BeginBlock(w)
       PROVE  Unused
  <2>1. w[1] # s
    BY <1>1, <1>2, <1>20 DEF BeginBlock, IsOpen
  <2>2. \A v \in Writers : v[1] = s =>
            writing'[v] = writing[v] /\ written'[v] = written[v]
    BY <1>20, <2>1
       DEF BeginBlock, EncryptBlock, SafeInv, PartsTypeOK, SecureTypeOK
  <2> QED
    BY <1>2, <1>3, <1>20, <2>2 DEF BeginBlock, EncryptBlock, socketVars
<1>21. ASSUME NEW w \in Writers, ServerWrites(w)
       PROVE  Unused
  <2>1. w[1] # s /\ w[1] \in Sessions
    BY <1>2, <1>21, EndFacts DEF ServerWrites
  <2>2. /\ UNCHANGED <<m_usedIV, buffer, accepted, written, fd, behind, up>>
        /\ \A v \in Writers : v[1] = s => writing'[v] = writing[v]
    BY <1>21, <2>1 DEF ServerWrites, SafeInv, PartsTypeOK
  <2>3. workerSocket'[s] = workerSocket[s]
    BY <1>21, <2>1 DEF ServerWrites, NumbersInv
  <2>4. down'[s] = down[s]
    <3>1. \/ UNCHANGED down
          \/ \E t \in Reach(w[1]) : \E bytes \in Written(w) :
                 down' = [down EXCEPT ![t] = @ \o bytes]
      BY <1>21 DEF ServerWrites
    <3>2. down \in [Sessions -> Seq(Parts)]
      BY DEF SafeInv, PartsTypeOK
    <3>3. ASSUME NEW t \in Reach(w[1]), NEW bytes,
                 down' = [down EXCEPT ![t] = @ \o bytes]
          PROVE  down'[s] = down[s]
      <4>1. t # s
        BY <1>4, <2>1
      <4> QED BY <3>2, <3>3, <4>1
    <3> QED BY <3>1, <3>3
  <2> QED BY <1>2, <1>3, <2>2, <2>3, <2>4
<1>22. CASE Next
  <2>1. \A t \in Sessions : <<t, "server">> \in Ends /\ <<t, "client">> \in Ends
    BY DEF Ends, Sides
  <2> HIDE DEF Unused
  <2>2. Unused
    BY <1>22, <2>1, <1>6, <1>7, <1>9, <1>10, <1>11, <1>12, <1>13, <1>14,
       <1>15, <1>16, <1>17, <1>18, <1>19, <1>20, <1>21
       DEF Next, Main, Worker, Client
  <2> QED BY <2>2 DEF Unused
<1> QED BY <1>5, <1>22

LEMMA SafeStep ==
    ASSUME SafeInv, NumbersInv, UnusedInv, [Next]_vars
    PROVE  SafeInv'
<1>1. ASSUME UNCHANGED <<cryptVars, up, down>>
      PROVE  SafeInv'
  BY <1>1, QuietSafe
<1>2. /\ up \in [Sessions -> Seq(Parts)]
      /\ down \in [Sessions -> Seq(Parts)]
      /\ buffer \in [Ends -> Seq(Parts)]
      /\ accepted \in [Ends -> Seq(Messages)]
      /\ m_usedIV \in [Ends -> [read : SUBSET IVs, written : SUBSET IVs]]
  BY DEF SafeInv, PartsTypeOK, SecureTypeOK
<1>3. \A t \in Sessions : /\ <<t, "server">> \in Ends
                          /\ <<t, "client">> \in Ends
                          /\ Line(<<t, "server">>) = up[t]
                          /\ Line(<<t, "server">>)' = up'[t]
                          /\ Line(<<t, "client">>) = down[t]
                          /\ Line(<<t, "client">>)' = down'[t]
  BY DEF Ends, Sides, Line
<1>4. \A e \in Ends : e = <<e[1], "server">> \/ e = <<e[1], "client">>
  BY DEF Ends, Sides
<1>5. ASSUME NEW s \in Sessions, MainTakes(s)
      PROVE  SafeInv'
  <2>1. PICK t \in Reach(s) :
            /\ \E n \in 1 .. Len(up[t]) :
                   up' = [up EXCEPT ![t] = SubSeq(@, n + 1, Len(@))]
            /\ Disturb({t})
    BY <1>5 DEF MainTakes
  <2>2. PICK n \in 1 .. Len(up[t]) :
            up' = [up EXCEPT ![t] = SubSeq(@, n + 1, Len(@))]
    BY <2>1
  <2>3. t \in Sessions
    BY ReachFacts
  <2>4. UNCHANGED <<cryptVars, down>>
    BY <1>5 DEF MainTakes
  <2>5. n \in 0 .. Len(up[t])
    OBVIOUS
  <2>6. Within(SubSeq(up[t], n + 1, Len(up[t])), up[t])
    BY <1>2, <2>3, <2>5, Suffix
  <2>7. /\ up' = [u \in Sessions |-> up'[u]]
        /\ up'[t] = SubSeq(up[t], n + 1, Len(up[t]))
        /\ \A u \in Sessions \ {t} : up'[u] = up[u]
    BY <1>2, <2>2, <2>3
  <2>8. ASSUME NEW e \in Ends
        PROVE  Within(buffer'[e], buffer[e]) /\ Within(Line(e)', Line(e))
    <3>1. Within(buffer'[e], buffer[e])
      BY <2>4, SafeFacts, WithinItself DEF cryptVars
    <3>2. Within(Line(e)', Line(e))
      <4>1. e[1] \in Sessions
        BY EndFacts
      <4>2. CASE e = <<t, "server">>
        BY <1>3, <2>3, <2>6, <2>7, <4>2
      <4>3. CASE e # <<t, "server">>
        <5>1. Line(e)' = Line(e)
          BY <1>3, <1>4, <2>4, <2>7, <4>1, <4>3 DEF Line
        <5> QED BY <5>1, SafeFacts, WithinItself
      <4> QED BY <4>2, <4>3
    <3> QED BY <3>1, <3>2
  <2> QED BY <1>2, <2>4, <2>7, <2>8, ShrinkSafe DEF cryptVars
<1>6. ASSUME NEW s \in Sessions, WorkerTakes(s)
      PROVE  SafeInv'
  <2> DEFINE e == <<s, "server">>
  <2>1. PICK t \in Reach(s) : \E n \in 1 .. Len(up[t]) :
            /\ buffer' = [buffer EXCEPT ![e] = SubSeq(up[t], 1, n)]
            /\ up' = [up EXCEPT ![t] = SubSeq(@, n + 1, Len(@))]
    BY <1>6 DEF WorkerTakes
  <2>2. PICK n \in 1 .. Len(up[t]) :
            /\ buffer' = [buffer EXCEPT ![e] = SubSeq(up[t], 1, n)]
            /\ up' = [up EXCEPT ![t] = SubSeq(@, n + 1, Len(@))]
    BY <2>1
  <2>3. t \in Sessions
    BY ReachFacts
  <2>4. /\ buffer[e] = <<>>
        /\ UNCHANGED <<m_usedIV, accepted, writing, written, down>>
    BY <1>6 DEF WorkerTakes, Waits
  <2>5. /\ up' = [u \in Sessions |-> up'[u]]
        /\ up'[t] = SubSeq(up[t], n + 1, Len(up[t]))
        /\ \A u \in Sessions \ {t} : up'[u] = up[u]
    BY <1>2, <2>2, <2>3
  <2> DEFINE d == <<t, "server">>
  <2>6. /\ e \in Ends /\ d \in Ends /\ d[2] = e[2] /\ e[2] # "client"
        /\ Line(d) = up[t] /\ Line(d)' = up'[t]
    BY <1>3, <2>3
  <2>7. \A c \in Ends \ {d} : Line(c)' = Line(c)
    BY <1>3, <1>4, <2>4, <2>5, EndFacts DEF Line
  <2>8. down' = [u \in Sessions |-> down'[u]]
    BY <1>2, <2>4
  <2> HIDE DEF d, e
  <2>9. /\ n \in 1 .. Len(Line(d))
        /\ buffer' = [buffer EXCEPT ![e] = SubSeq(Line(d), 1, n)]
        /\ Line(d)' = SubSeq(Line(d), n + 1, Len(Line(d)))
    BY <2>2, <2>5, <2>6
  <2>10. up' = [u \in Sessions |-> up'[u]]
    BY <2>5
  <2> QED BY <2>4, <2>6, <2>7, <2>8, <2>9, <2>10, TakeSafe
<1>7. ASSUME NEW s \in Sessions, ClientTakes(s)
      PROVE  SafeInv'
  <2> DEFINE e == <<s, "client">>
  <2>1. PICK n \in 1 .. Len(down[s]) :
            /\ buffer' = [buffer EXCEPT ![e] = SubSeq(down[s], 1, n)]
            /\ down' = [down EXCEPT ![s] = SubSeq(@, n + 1, Len(@))]
    BY <1>7 DEF ClientTakes
  <2>2. /\ buffer[e] = <<>>
        /\ UNCHANGED <<m_usedIV, accepted, writing, written, up>>
    BY <1>7 DEF ClientTakes, Waits
  <2>3. /\ down' = [u \in Sessions |-> down'[u]]
        /\ down'[s] = SubSeq(down[s], n + 1, Len(down[s]))
        /\ \A u \in Sessions \ {s} : down'[u] = down[u]
    BY <1>2, <2>1
  <2>4. e \in Ends /\ Line(e) = down[s] /\ Line(e)' = down'[s]
    BY <1>3
  <2>5. \A c \in Ends \ {e} : Line(c)' = Line(c)
    BY <1>3, <1>4, <2>2, <2>3, EndFacts DEF Line
  <2>6. up' = [u \in Sessions |-> up'[u]]
    BY <1>2, <2>2
  <2> HIDE DEF e
  <2> QED BY <2>1, <2>2, <2>3, <2>4, <2>5, <2>6, TakeSafe
<1>8. ASSUME NEW s \in Sessions, ClientWrites(s)
      PROVE  SafeInv'
  <2> DEFINE w == <<s, "client">>
             e == <<s, "server">>
  <2>1. /\ writing[w] # <<>>
        /\ up' = IF Connected(s)
                    THEN [up EXCEPT ![s] = @ \o <<Head(writing[w])>>]
                    ELSE up
        /\ writing' = [writing EXCEPT ![w] = Tail(@)]
        /\ UNCHANGED <<m_usedIV, buffer, accepted, written, down>>
    BY <1>8 DEF ClientWrites
  <2>2. w \in Writers /\ e \in Ends
    BY DEF Writers, Ends, Sides
  <2>3. CASE Connected(s)
    <3>1. /\ up' = [u \in Sessions |-> up'[u]]
          /\ up'[s] = up[s] \o <<Head(writing[w])>>
          /\ \A u \in Sessions \ {s} : up'[u] = up[u]
      BY <1>2, <2>1, <2>3
    <3>2. Line(e)' = Line(e) \o <<Head(writing[w])>>
      BY <1>3, <3>1
    <3>3. \A c \in Ends \ {e} : Line(c)' = Line(c)
      BY <1>3, <1>4, <2>1, <3>1, EndFacts DEF Line
    <3>4. down' = [u \in Sessions |-> down'[u]]
      BY <1>2, <2>1
    <3>5. w[2] = "client" /\ e[2] = "server" /\ w[1] = e[1]
      OBVIOUS
    <3> HIDE DEF w, e
    <3> QED
      BY <2>1, <2>2, <3>1, <3>2, <3>3, <3>4, <3>5, WriteSafe
  <2>4. CASE ~Connected(s)
    <3>1. /\ UNCHANGED <<m_usedIV, buffer, accepted, written, up, down>>
          /\ writing' = [writing EXCEPT ![w] = Tail(writing[w])]
      BY <2>1, <2>4
    <3> HIDE DEF w
    <3> QED BY <2>1, <2>2, <3>1, LoseSafe
  <2> QED BY <2>3, <2>4
<1>9. ASSUME NEW w \in Writers, ServerWrites(w)
      PROVE  SafeInv'
  <2>1. /\ w[2] # "client"
        /\ writing[w] # <<>>
        /\ w[1] \in Sessions
        /\ UNCHANGED <<m_usedIV, buffer, accepted, written, up>>
    BY <1>9, EndFacts DEF ServerWrites
  <2>2. CASE IsOpen(w) /\ Reach(w[1]) # {}
    <3>1. PICK t \in Reach(w[1]), bytes \in Written(w) :
              down' = [down EXCEPT ![t] = @ \o bytes]
      BY <1>9, <2>2 DEF ServerWrites
    <3>2. /\ t \in Sessions
          /\ bytes = <<Head(writing[w])>> \/ bytes = <<>>
          /\ writing' = [writing EXCEPT ![w] = Tail(@)]
      BY <1>9, <2>1, <2>2, <3>1, ReachFacts DEF ServerWrites, Written
    <3>3. CASE bytes = <<Head(writing[w])>>
      <4> DEFINE e == <<t, "client">>
      <4>1. /\ down' = [u \in Sessions |-> down'[u]]
            /\ down'[t] = down[t] \o <<Head(writing[w])>>
            /\ \A u \in Sessions \ {t} : down'[u] = down[u]
        BY <1>2, <3>1, <3>2, <3>3
      <4>2. e \in Ends /\ Line(e)' = Line(e) \o <<Head(writing[w])>>
        BY <1>3, <3>2, <4>1
      <4>3. \A c \in Ends \ {e} : Line(c)' = Line(c)
        BY <1>3, <1>4, <2>1, <4>1, EndFacts DEF Line
      <4>4. up' = [u \in Sessions |-> up'[u]]
        BY <1>2, <2>1
      <4>5. e[2] = "client"
        OBVIOUS
      <4> HIDE DEF e
      <4> QED
        BY <2>1, <3>2, <4>1, <4>2, <4>3, <4>4, <4>5, WriteSafe
    <3>4. CASE bytes = <<>>
      <4>1. down[t] \o <<>> = down[t]
        BY <1>2, <3>2, ConcatEmptySeq
      <4>2. down' = down
        BY <1>2, <3>1, <3>2, <3>4, <4>1
      <4>3. writing' = [writing EXCEPT ![w] = Tail(writing[w])]
        BY <3>2
      <4> QED BY <2>1, <4>2, <4>3, LoseSafe
    <3> QED BY <3>2, <3>3, <3>4
  <2>3. CASE ~(IsOpen(w) /\ Reach(w[1]) # {})
    <3>1. writing' = [writing EXCEPT ![w] = <<>>] /\ UNCHANGED down
      BY <1>9, <2>3 DEF ServerWrites
    <3> QED BY <2>1, <3>1, LoseSafe
  <2> QED BY <2>2, <2>3
<1>10. ASSUME NEW w \in Writers, BeginBlock(w)
       PROVE  SafeInv'
  BY <1>10, BeginSafe DEF BeginBlock
<1>11. ASSUME NEW e \in Ends, ReadsBlock(e)
       PROVE  SafeInv'
  <2>1. UNCHANGED <<writing, written, up, down>> /\ buffer[e] # <<>>
    BY <1>11 DEF ReadsBlock, readBlock
  <2>2. \A c \in Ends : Line(c)' = Line(c)
    BY <2>1 DEF Line
  <2>3. /\ buffer[e] \in Seq(Parts) /\ Len(buffer[e]) \in Nat
        /\ up' = [s \in Sessions |-> up'[s]]
        /\ down' = [s \in Sessions |-> down'[s]]
    BY <1>2, <2>1
  <2>4. ASSUME NEW n \in 0 .. Len(buffer[e]), Drop(e, n), UNCHANGED accepted,
               m_usedIV' \in [Ends -> [read : SUBSET IVs, written : SUBSET IVs]]
        PROVE  SafeInv'
    <3>1. /\ buffer' = [c \in Ends |-> buffer'[c]]
          /\ buffer'[e] = SubSeq(buffer[e], n + 1, Len(buffer[e]))
          /\ \A c \in Ends \ {e} : buffer'[c] = buffer[c]
      BY <1>2, <2>4 DEF Drop
    <3>2. Within(buffer'[e], buffer[e])
      BY <2>3, <3>1, Suffix
    <3>3. \A c \in Ends : Within(buffer'[c], buffer[c])
      BY <3>1, <3>2, SafeFacts, WithinItself
    <3>4. \A c \in Ends : Within(Line(c)', Line(c))
      BY <2>2, SafeFacts, WithinItself
    <3> QED BY <2>1, <2>3, <2>4, <3>1, <3>3, <3>4, ShrinkSafe
  <2>5. CASE ReadNoBlock(e)
    <3>1. PICK n \in 1 .. Len(buffer[e]) : Drop(e, n)
      BY <2>5 DEF ReadNoBlock
    <3>2. n \in 0 .. Len(buffer[e])
      OBVIOUS
    <3> QED BY <1>2, <2>4, <2>5, <3>1, <3>2 DEF ReadNoBlock
  <2>6. StartsWithBlock(buffer[e]) => 2 \in 0 .. Len(buffer[e])
    BY <2>3 DEF StartsWithBlock
  <2>7. CASE ReadUsedIV(e)
    BY <1>2, <2>4, <2>6, <2>7 DEF ReadUsedIV
  <2>8. CASE Decrypt(e)
    <3> DEFINE iv == buffer[e][1].iv
               res == decryptMessage(e[1], iv, buffer[e][2].cipher)
    <3>1. /\ StartsWithBlock(buffer[e])
          /\ Drop(e, 2)
          /\ \/ m_usedIV' = [m_usedIV EXCEPT ![e].read = @ \cup {iv}]
             \/ UNCHANGED m_usedIV
          /\ accepted' = IF res.valid
                            THEN [accepted EXCEPT ![e] =
                                      Append(@, res.message)]
                            ELSE accepted
      BY <2>8 DEF Decrypt
    <3>2. iv \in IVs
      <4>1. 1 \in 1 .. Len(buffer[e])
        BY <2>3, <2>6, <3>1
      <4>2. buffer[e][1] \in Heads
        BY <2>3, <3>1, <4>1, PartFacts, ElementOfSeq DEF StartsWithBlock
      <4> QED BY <4>2 DEF Heads
    <3>3. m_usedIV' \in [Ends -> [read : SUBSET IVs, written : SUBSET IVs]]
      <4> HIDE DEF iv, res
      <4>1. CASE m_usedIV' = [m_usedIV EXCEPT ![e].read = @ \cup {iv}]
        BY <1>2, <3>2, <4>1
      <4> QED BY <1>2, <3>1, <4>1
    <3>4. CASE res.valid
      <4>1. res.message = buffer[e][2].cipher.message
        BY <3>4 DEF decryptMessage
      <4>2. accepted' = [accepted EXCEPT ![e] =
                             Append(@, buffer[e][2].cipher.message)]
        BY <3>1, <3>4, <4>1
      <4> QED BY <2>1, <3>1, <3>3, <3>4, <4>2, AcceptSafe
    <3>5. CASE ~res.valid
      BY <2>4, <2>6, <3>1, <3>3, <3>5
    <3> QED BY <3>4, <3>5
  <2> QED BY <1>11, <2>5, <2>7, <2>8 DEF ReadsBlock, readBlock
<1>12. CASE UNCHANGED vars
  BY <1>1, <1>12 DEF vars
<1>13. CASE Next
  BY <1>13, <1>1, <1>3, <1>5, <1>6, <1>7, <1>8, <1>9, <1>10, <1>11
     DEF Next, Main, Worker, Client, new_user, MainDisconnects, MainGoesDeaf,
         SetSocketDescriptor, WorkerCloses, WorkerFails, WorkerLeaves,
         ClientCloses
<1> QED BY <1>12, <1>13

-----------------------------------------------------------------------------
(* What has been written and nothing has happened to.                      *)

\* The session's objects use its descriptor, and nothing has disturbed it.
Live(s) ==
    /\ clientSocket[s] = "open"
    /\ workerSocket[s] \in {"new", "open"}
    /\ ~disturbed[s]

\* A head, its rest, a head, ...
Chained(parts) ==
    /\ Len(parts) > 0 => IsHead(parts[1])
    /\ \A i \in 1 .. Len(parts) - 1 :
           IF IsHead(parts[i]) THEN Follows(parts[i], parts[i + 1])
                               ELSE IsHead(parts[i + 1])

Complete(parts) == Len(parts) > 0 => ~IsHead(parts[Len(parts)])

\* All bytes are of this session.
OwnInv(e) ==
    /\ \A i \in 1 .. Len(buffer[e]) : From(buffer[e][i])[1] = e[1]
    /\ \A i \in 1 .. Len(Line(e)) : From(Line(e)[i])[1] = e[1]

\* They are whole blocks, but for one whose rest is to be written next.
StreamInv(e) ==
    /\ Chained(buffer[e])
    /\ Complete(buffer[e])
    /\ Chained(Line(e))
    /\ \A w \in WritersTo(e) : Len(writing[w]) = 1 =>
           /\ Len(Line(e)) > 0
           /\ Follows(Line(e)[Len(Line(e))], writing[w][1])
    /\ ~Complete(Line(e)) => \E w \in WritersTo(e) : Len(writing[w]) = 1

\* The part is on its way to the program of e.
FliesTo(e, part) ==
    \/ \E i \in 1 .. Len(buffer[e]) : buffer[e][i] = part
    \/ \E i \in 1 .. Len(Line(e)) : Line(e)[i] = part
    \/ \E w \in WritersTo(e) : \E k \in 1 .. Len(writing[w]) :
           writing[w][k] = part

\* Every message is on its way or has been accepted.
LocatedInv(e) ==
    \A w \in WritersTo(e) : \A n \in 1 .. written[w] :
        \/ \E i \in 1 .. Len(accepted[e]) :
               accepted[e][i] = [from |-> w, n |-> n]
        \/ \E part \in Parts :
               /\ FliesTo(e, part)
               /\ ~IsHead(part)
               /\ MessageOf(part) = [from |-> w, n |-> n]

\* An IV on its way is new to e, and that of one block.
IVsInv(e) ==
    \A p \in Parts : FliesTo(e, p) /\ IsHead(p) =>
        /\ p.iv \in m_usedIV[Peer(e)].written
        /\ p.iv \notin m_usedIV[e].read \cup m_usedIV[e].written
        /\ \A q \in Parts :
               FliesTo(e, q) /\ IsHead(q) /\ q.iv = p.iv => q = p

HealthInv(e) == OwnInv(e) /\ StreamInv(e) /\ LocatedInv(e) /\ IVsInv(e)

LiveInv == \A e \in Ends : Live(e[1]) => HealthInv(e)

\* Nothing happens between the ends but that the other direction goes on.
LEMMA HealthKept ==
    ASSUME NEW e \in Ends, HealthInv(e),
           buffer'[e] = buffer[e], Line(e)' = Line(e),
           accepted'[e] = accepted[e],
           \A w \in WritersTo(e) :
               writing'[w] = writing[w] /\ written'[w] = written[w],
           m_usedIV'[Peer(e)].written = m_usedIV[Peer(e)].written,
           m_usedIV'[e].read = m_usedIV[e].read,
           m_usedIV'[e].written \cap m_usedIV[Peer(e)].written
               \subseteq m_usedIV[e].written
    PROVE  HealthInv(e)'
<1>1. \A p \in Parts : FliesTo(e, p)' <=> FliesTo(e, p)
  BY DEF FliesTo
<1>2. OwnInv(e)' /\ StreamInv(e)'
  BY DEF HealthInv, OwnInv, StreamInv
<1>3. LocatedInv(e)'
  BY <1>1 DEF HealthInv, LocatedInv
<1>4. IVsInv(e)'
  BY <1>1 DEF HealthInv, IVsInv
<1> QED BY <1>2, <1>3, <1>4 DEF HealthInv

\* Whole blocks get into an empty buffer.
LEMMA HealthTake ==
    ASSUME SafeInv, NEW e \in Ends, HealthInv(e),
           NEW n \in 1 .. Len(Line(e)), ~IsHead(Line(e)[n]),
           buffer[e] = <<>>,
           buffer'[e] = SubSeq(Line(e), 1, n),
           Line(e)' = SubSeq(Line(e), n + 1, Len(Line(e))),
           UNCHANGED <<m_usedIV, accepted, writing, written>>
    PROVE  HealthInv(e)'
<1> DEFINE l == Line(e)
           bb == buffer'[e]
           ll == Line(e)'
<1>1. /\ l \in Seq(Parts) /\ Len(l) \in Nat
      /\ n \in Nat /\ n >= 1 /\ n <= Len(l) /\ n \in 0 .. Len(l)
  BY SafeFacts
<1>2. /\ Len(bb) = n
      /\ \A i \in 1 .. n : bb[i] = l[i]
      /\ Len(ll) = Len(l) - n
      /\ \A i \in 1 .. Len(ll) : ll[i] = l[i + n]
  <2>1. bb = SubSeq(l, 1, n) /\ ll = SubSeq(l, n + 1, Len(l))
    OBVIOUS
  <2> HIDE DEF l, bb, ll
  <2> QED BY <1>1, <2>1, Prefix, Suffix
<1>3. Len(buffer[e]) = 0
  BY EmptySeq
<1>4. /\ \A i \in 1 .. Len(l) : From(l[i])[1] = e[1]
      /\ Chained(l)
      /\ \A w \in WritersTo(e) : Len(writing[w]) = 1 =>
             Len(l) > 0 /\ Follows(l[Len(l)], writing[w][1])
      /\ ~Complete(l) => \E w \in WritersTo(e) : Len(writing[w]) = 1
  BY DEF HealthInv, OwnInv, StreamInv
<1>5. WritersTo(e)' = WritersTo(e)
  BY DEF WritersTo
<1> HIDE DEF l, bb, ll
<1>6. /\ \A i \in 1 .. Len(ll) : i + n \in 1 .. Len(l)
      /\ \A i \in 1 .. n : i \in 1 .. Len(l)
      /\ \A i \in 1 .. n - 1 : i \in 1 .. Len(l) - 1 /\ i + 1 \in 1 .. n
      /\ \A i \in 1 .. Len(ll) - 1 :
             /\ i + n \in 1 .. Len(l) - 1
             /\ i \in 1 .. Len(ll) /\ i + 1 \in 1 .. Len(ll)
             /\ (i + 1) + n = (i + n) + 1
  BY <1>1, <1>2
<1>7. \A i \in 1 .. Len(l) : i \in 1 .. n \/ i - n \in 1 .. Len(ll)
  BY <1>1, <1>2
<1>8. OwnInv(e)'
  <2>1. /\ \A i \in 1 .. Len(bb) : From(bb[i])[1] = e[1]
        /\ \A i \in 1 .. Len(ll) : From(ll[i])[1] = e[1]
    <3>1. ASSUME NEW i \in 1 .. Len(bb)
          PROVE  From(bb[i])[1] = e[1]
      <4>1. i \in 1 .. Len(l) /\ bb[i] = l[i]
        BY <1>2, <1>6
      <4> QED BY <1>4, <4>1
    <3>2. ASSUME NEW i \in 1 .. Len(ll)
          PROVE  From(ll[i])[1] = e[1]
      <4>1. i + n \in 1 .. Len(l) /\ ll[i] = l[i + n]
        BY <1>2, <1>6
      <4> QED BY <1>4, <4>1
    <3> QED BY <3>1, <3>2
  <2> QED BY <2>1 DEF OwnInv, bb, ll
<1>9. Chained(bb) /\ Complete(bb)
  <2>1. Len(bb) > 0 => IsHead(bb[1])
    BY <1>1, <1>2, <1>4 DEF Chained
  <2>2. \A i \in 1 .. Len(bb) - 1 :
            IF IsHead(bb[i]) THEN Follows(bb[i], bb[i + 1])
                             ELSE IsHead(bb[i + 1])
    <3> TAKE i \in 1 .. Len(bb) - 1
    <3>1. /\ i \in 1 .. n /\ i + 1 \in 1 .. n /\ i \in 1 .. Len(l) - 1
          /\ bb[i] = l[i] /\ bb[i + 1] = l[i + 1]
      <4>1. i \in 1 .. n - 1
        BY <1>2
      <4>2. /\ i \in 1 .. n /\ i + 1 \in 1 .. n /\ i \in 1 .. Len(l) - 1
        BY <1>1, <1>6, <4>1
      <4> QED BY <1>2, <4>2
    <3> QED BY <1>4, <3>1 DEF Chained
  <2>3. Complete(bb)
    BY <1>1, <1>2 DEF Complete, l
  <2> QED BY <2>1, <2>2, <2>3 DEF Chained
<1>10. Chained(ll)
  <2>1. Len(ll) > 0 => IsHead(ll[1])
    <3>1. ASSUME Len(ll) > 0
          PROVE  IsHead(l[n + 1]) /\ ll[1] = l[n + 1]
      <4>1. n \in 1 .. Len(l) - 1 /\ 1 \in 1 .. Len(ll) /\ 1 + n = n + 1
        BY <1>1, <1>2, <3>1
      <4> QED BY <1>2, <1>4, <4>1 DEF Chained, l
    <3> QED BY <3>1
  <2>2. \A i \in 1 .. Len(ll) - 1 :
            IF IsHead(ll[i]) THEN Follows(ll[i], ll[i + 1])
                             ELSE IsHead(ll[i + 1])
    <3> TAKE i \in 1 .. Len(ll) - 1
    <3>1. /\ i + n \in 1 .. Len(l) - 1
          /\ ll[i] = l[i + n] /\ ll[i + 1] = l[(i + n) + 1]
      BY <1>2, <1>6
    <3> QED BY <1>4, <3>1 DEF Chained
  <2> QED BY <2>1, <2>2 DEF Chained
<1>11. StreamInv(e)'
  <2>1. CASE Len(ll) = 0
    <3>1. Len(l) = n /\ ~IsHead(l[Len(l)])
      BY <1>1, <1>2, <2>1 DEF l
    <3>2. \A w \in WritersTo(e) : Len(writing[w]) # 1
      BY <1>4, <3>1 DEF Follows
    <3>3. Complete(ll)
      BY <2>1 DEF Complete
    <3> QED BY <1>5, <1>9, <1>10, <3>2, <3>3 DEF StreamInv, bb, ll
  <2>2. CASE Len(ll) > 0
    <3>1. ll[Len(ll)] = l[Len(l)]
      <4>1. Len(ll) \in 1 .. Len(ll) /\ Len(ll) + n = Len(l)
        BY <1>1, <1>2, <2>2
      <4> QED BY <1>2, <4>1
    <3>2. Complete(l) => Complete(ll)
      BY <1>1, <2>2, <3>1 DEF Complete
    <3>3. /\ \A w \in WritersTo(e) : Len(writing[w]) = 1 =>
                 Len(ll) > 0 /\ Follows(ll[Len(ll)], writing[w][1])
          /\ ~Complete(ll) => \E w \in WritersTo(e) : Len(writing[w]) = 1
      <4>1. ASSUME NEW w \in WritersTo(e), Len(writing[w]) = 1
            PROVE  Len(ll) > 0 /\ Follows(ll[Len(ll)], writing[w][1])
        BY <1>4, <2>2, <3>1, <4>1, Zenon
      <4> QED BY <1>4, <3>2, <4>1, Zenon
    <3> QED BY <1>5, <1>9, <1>10, <3>3 DEF StreamInv, bb, ll
  <2>3. Len(ll) = 0 \/ Len(ll) > 0
    BY <1>1, <1>2
  <2> QED BY <2>1, <2>2, <2>3
<1>12. \A p : FliesTo(e, p)' <=> FliesTo(e, p)
  <2>1. \A p : (\E i \in 1 .. Len(l) : l[i] = p)
                   <=> \/ \E i \in 1 .. Len(bb) : bb[i] = p
                       \/ \E i \in 1 .. Len(ll) : ll[i] = p
    <3>1. ASSUME NEW i \in 1 .. Len(l)
          PROVE  \/ \E j \in 1 .. Len(bb) : bb[j] = l[i]
                 \/ \E j \in 1 .. Len(ll) : ll[j] = l[i]
      <4>1. CASE i \in 1 .. n
        BY <1>2, <4>1
      <4>2. CASE i - n \in 1 .. Len(ll)
        <5>1. (i - n) + n = i
          BY <1>1
        <5> QED BY <1>2, <4>2, <5>1
      <4> QED BY <1>7, <4>1, <4>2
    <3>2. /\ \A i \in 1 .. Len(bb) : \E j \in 1 .. Len(l) : l[j] = bb[i]
          /\ \A i \in 1 .. Len(ll) : \E j \in 1 .. Len(l) : l[j] = ll[i]
      BY <1>2, <1>6
    <3>3. ASSUME NEW p, NEW i \in 1 .. Len(l), l[i] = p
          PROVE  \/ \E j \in 1 .. Len(bb) : bb[j] = p
                 \/ \E j \in 1 .. Len(ll) : ll[j] = p
      BY <3>1, <3>3
    <3>4. ASSUME NEW p,
                 \/ \E j \in 1 .. Len(bb) : bb[j] = p
                 \/ \E j \in 1 .. Len(ll) : ll[j] = p
          PROVE  \E i \in 1 .. Len(l) : l[i] = p
      BY <3>2, <3>4
    <3> QED BY <3>3, <3>4, Zenon
  <2>2. \A p : ~ \E i \in 1 .. Len(buffer[e]) : buffer[e][i] = p
    BY <1>3
  <2> QED BY <1>5, <2>1, <2>2 DEF FliesTo, bb, ll, l
<1>13. LocatedInv(e)'
  BY <1>5, <1>12 DEF HealthInv, LocatedInv
<1>14. IVsInv(e)'
  BY <1>12 DEF HealthInv, IVsInv
<1> QED BY <1>8, <1>11, <1>13, <1>14 DEF HealthInv

LEMMA WritersToFacts ==
    ASSUME NEW e \in Ends, NEW w \in WritersTo(e)
    PROVE  w \in Writers /\ EndOf(w) = Peer(e) /\ w[1] = e[1]
  BY EndFacts DEF WritersTo

\* A block begins: its parts are on their way, its IV is new to both ends.
LEMMA HealthBegin ==
    ASSUME SafeInv, NEW e \in Ends, HealthInv(e), NEW w \in WritersTo(e),
           EncryptBlock(w), UNCHANGED <<up, down>>,
           writing'[w][1].iv \notin IVsInUse(e[1])
    PROVE  HealthInv(e)'
<1>0. /\ w \in Writers /\ EndOf(w) = Peer(e) /\ w[1] = e[1]
      /\ Peer(e) \in Ends /\ Peer(e) # e
      /\ WritersTo(e)' = WritersTo(e)
  BY WritersToFacts, EndFacts DEF WritersTo
<1>1. PICK iv \in RandomIVs(w[1]) :
          /\ m_usedIV' = [m_usedIV EXCEPT ![Peer(e)].written = @ \cup {iv}]
          /\ writing' = [writing EXCEPT ![w] =
                 Block(Peer(e), iv, [from |-> w, n |-> written'[w]])]
  BY <1>0 DEF EncryptBlock
<1>2. /\ iv \in IVs
      /\ writing[w] = <<>>
      /\ written' = [written EXCEPT ![w] = @ + 1]
      /\ UNCHANGED <<buffer, accepted>>
  BY <1>1 DEF EncryptBlock, RandomIVs
<1> DEFINE message == [from |-> w, n |-> written'[w]]
           head == [half |-> "head", iv |-> iv, message |-> message]
           rest == [half |-> "rest",
                    cipher |-> [key |-> w[1], iv |-> iv, message |-> message]]
<1>3. /\ written \in [Writers -> Nat]
      /\ written'[w] = written[w] + 1
      /\ \A v \in Writers \ {w} : written'[v] = written[v]
      /\ message \in Messages
  BY <1>0, <1>2 DEF SafeInv, PartsTypeOK, SecureTypeOK, Messages
<1>4. /\ writing \in [Writers -> Seq(Parts)]
      /\ writing' = [writing EXCEPT ![w] = <<head, rest>>]
  BY <1>0, <1>1, EndFacts
     DEF Block, encryptMessage, SafeInv, PartsTypeOK
<1>5. /\ head \in Parts /\ IsHead(head) /\ head.iv = iv
      /\ rest \in Parts /\ ~IsHead(rest) /\ MessageOf(rest) = message
  BY <1>0, <1>2, <1>3, EndFacts
     DEF Parts, Heads, Rests, Ciphers, IsHead, MessageOf, From
<1>6. message = [from |-> w, n |-> written[w] + 1]
  BY <1>3
<1> HIDE DEF head, rest, message
<1>7. /\ writing'[w] = <<head, rest>>
      /\ Len(writing'[w]) = 2 /\ Len(writing[w]) = 0
      /\ writing'[w][1] = head /\ writing'[w][2] = rest
      /\ \A v \in Writers \ {w} : writing'[v] = writing[v]
  BY <1>0, <1>2, <1>4
<1>8. iv \notin IVsInUse(e[1])
  BY <1>5, <1>7
<1>9. Line(e)' = Line(e) /\ buffer'[e] = buffer[e] /\ accepted'[e] = accepted[e]
  BY <1>2 DEF Line
<1>10. \A v \in WritersTo(e) :
           /\ Len(writing'[v]) = 1 <=> Len(writing[v]) = 1
           /\ Len(writing[v]) = 1 => writing'[v] = writing[v]
  BY <1>7, WritersToFacts
<1>11. OwnInv(e)'
  BY <1>9 DEF HealthInv, OwnInv
<1>12. StreamInv(e)'
  BY <1>0, <1>7, <1>9, <1>10 DEF HealthInv, StreamInv
<1>13. \A p : FliesTo(e, p)' <=> FliesTo(e, p) \/ p = head \/ p = rest
  <2>1. ASSUME NEW p
        PROVE  (\E k \in 1 .. Len(writing'[w]) : writing'[w][k] = p)
                   <=> p = head \/ p = rest
    <3>1. \A k \in 1 .. 2 : k = 1 \/ k = 2
      OBVIOUS
    <3>2. 1 \in 1 .. 2 /\ 2 \in 1 .. 2
      OBVIOUS
    <3> QED BY <1>7, <3>1, <3>2, Zenon
  <2>2. ASSUME NEW p
        PROVE  (\E v \in WritersTo(e) : \E k \in 1 .. Len(writing'[v]) :
                    writing'[v][k] = p)
               <=> \/ \E v \in WritersTo(e) : \E k \in 1 .. Len(writing[v]) :
                          writing[v][k] = p
                   \/ p = head
                   \/ p = rest
    <3>1. \A k \in 1 .. Len(writing[w]) : FALSE
      BY <1>7
    <3>2. \A v \in WritersTo(e) : v # w => writing'[v] = writing[v]
      BY <1>7, WritersToFacts
    <3>3. ASSUME NEW v \in WritersTo(e), NEW k \in 1 .. Len(writing'[v]),
                 writing'[v][k] = p
          PROVE  \/ \E u \in WritersTo(e) : \E j \in 1 .. Len(writing[u]) :
                        writing[u][j] = p
                 \/ p = head
                 \/ p = rest
      <4>1. CASE v = w
        BY <2>1, <3>3, <4>1
      <4>2. CASE v # w
        BY <3>2, <3>3, <4>2
      <4> QED BY <4>1, <4>2
    <3>4. ASSUME NEW v \in WritersTo(e), NEW k \in 1 .. Len(writing[v]),
                 writing[v][k] = p
          PROVE  \E u \in WritersTo(e) : \E j \in 1 .. Len(writing'[u]) :
                     writing'[u][j] = p
      BY <3>1, <3>2, <3>4
    <3>5. ASSUME p = head \/ p = rest
          PROVE  \E u \in WritersTo(e) : \E j \in 1 .. Len(writing'[u]) :
                     writing'[u][j] = p
      BY <2>1, <3>5
    <3> QED BY <3>3, <3>4, <3>5, Zenon
  <2> QED BY <1>0, <1>9, <2>2 DEF FliesTo
<1>14. LocatedInv(e)'
  <2>1. ASSUME NEW v \in WritersTo(e), NEW n \in 1 .. written'[v]
        PROVE  \/ \E i \in 1 .. Len(accepted'[e]) :
                      accepted'[e][i] = [from |-> v, n |-> n]
               \/ \E part \in Parts :
                      /\ FliesTo(e, part)'
                      /\ ~IsHead(part)
                      /\ MessageOf(part) = [from |-> v, n |-> n]
    <3>1. CASE n \in 1 .. written[v]
      <4>1. \/ \E i \in 1 .. Len(accepted[e]) :
                   accepted[e][i] = [from |-> v, n |-> n]
            \/ \E part \in Parts :
                   /\ FliesTo(e, part)
                   /\ ~IsHead(part)
                   /\ MessageOf(part) = [from |-> v, n |-> n]
        BY <3>1 DEF HealthInv, LocatedInv
      <4> QED BY <1>9, <1>13, <4>1
    <3>2. CASE n \notin 1 .. written[v]
      <4>1. v = w
        BY <1>3, <2>1, <3>2, WritersToFacts
      <4>2. n = written[w] + 1
        BY <1>0, <1>3, <2>1, <3>2, <4>1
      <4>3. PICK part \in Parts : part = rest
        BY <1>5
      <4>4. FliesTo(e, part)'
        BY <1>13, <4>3
      <4> QED BY <1>5, <1>6, <4>1, <4>2, <4>3, <4>4
    <3> QED BY <3>1, <3>2
  <2> QED BY <1>0, <2>1 DEF LocatedInv
<1>15. IVsInv(e)'
  <2>1. /\ m_usedIV'[e] = m_usedIV[e]
        /\ m_usedIV'[Peer(e)].written = m_usedIV[Peer(e)].written \cup {iv}
    BY <1>0, <1>1 DEF SafeInv, PartsTypeOK, SecureTypeOK
  <2>2. iv \notin m_usedIV[e].read \cup m_usedIV[e].written
                  \cup m_usedIV[Peer(e)].written
    <3>1. e \in {e[1]} \X Sides /\ Peer(e) \in {e[1]} \X Sides
      BY EndFacts DEF Ends, Sides, Peer
    <3> QED BY <1>8, <3>1 DEF IVsInUse
  <2>3. \A p \in Parts : FliesTo(e, p) /\ IsHead(p) =>
            /\ p.iv \in m_usedIV[Peer(e)].written
            /\ p.iv \notin m_usedIV[e].read \cup m_usedIV[e].written
            /\ \A q \in Parts :
                   FliesTo(e, q) /\ IsHead(q) /\ q.iv = p.iv => q = p
    BY DEF HealthInv, IVsInv
  <2>4. \A p \in Parts : FliesTo(e, p)' /\ IsHead(p) =>
            FliesTo(e, p) \/ p = head
    BY <1>5, <1>13
  <2>5. ASSUME NEW p \in Parts, FliesTo(e, p)', IsHead(p)
        PROVE  /\ p.iv \in m_usedIV'[Peer(e)].written
               /\ p.iv \notin m_usedIV'[e].read \cup m_usedIV'[e].written
               /\ \A q \in Parts :
                      FliesTo(e, q)' /\ IsHead(q) /\ q.iv = p.iv => q = p
    <3>1. CASE FliesTo(e, p)
      BY <1>5, <2>1, <2>2, <2>3, <2>4, <2>5, <3>1
    <3>2. CASE p = head
      BY <1>5, <2>1, <2>2, <2>3, <2>4, <3>2
    <3> QED BY <2>4, <2>5, <3>1, <3>2
  <2> QED BY <2>5 DEF IVsInv
<1> QED BY <1>11, <1>12, <1>14, <1>15 DEF HealthInv

\* The next part of the one writer that is within a block gets on the line.
LEMMA HealthWrite ==
    ASSUME SafeInv, NEW e \in Ends, HealthInv(e), NEW w \in WritersTo(e),
           writing[w] # <<>>,
           \A v \in WritersTo(e) \ {w} : writing[v] = <<>>,
           writing' = [writing EXCEPT ![w] = Tail(@)],
           Line(e)' = Line(e) \o <<Head(writing[w])>>,
           buffer'[e] = buffer[e],
           UNCHANGED <<m_usedIV, accepted, written>>
    PROVE  HealthInv(e)'
<1> DEFINE parts == writing[w]
           length == Len(parts)
           l == Line(e)
           ll == Line(e)'
<1>1. /\ w \in Writers
      /\ w[1] = e[1]
      /\ WritersTo(e)' = WritersTo(e)
      /\ writing \in [Writers -> Seq(Parts)]
  BY WritersToFacts DEF WritersTo, SafeInv, PartsTypeOK
<1>2. /\ parts \in Seq(Parts)
      /\ length \in {1, 2}
  BY <1>1, SafeFacts, EmptySeq
<1>3. /\ Head(parts) = parts[1]
      /\ Len(Tail(parts)) = length - 1
      /\ \A i \in 1 .. Len(Tail(parts)) : Tail(parts)[i] = parts[i + 1]
      /\ parts[1] \in Parts
  BY <1>2, HeadTailProperties, ElementOfSeq
<1>4. /\ length = 2 => Follows(parts[1], parts[2])
      /\ length = 1 => ~IsHead(parts[1])
      /\ MessageOf(parts[1]).from = w
  <2>1. MessageOf(parts[1]) = [from |-> w, n |-> written[w]]
    BY <1>1, <1>2 DEF SafeInv, BlocksInv
  <2> QED BY <1>1, <2>1 DEF SafeInv, BlocksInv
<1>5. /\ writing'[w] = Tail(parts)
      /\ \A v \in WritersTo(e) : v # w =>
             writing'[v] = <<>> /\ Len(writing'[v]) = 0 /\ writing[v] = <<>>
  BY <1>1, WritersToFacts, EmptySeq
<1>6. /\ l \in Seq(Parts) /\ Len(l) \in Nat
      /\ ll \in Seq(Parts) /\ Len(ll) = Len(l) + 1
      /\ \A i \in 1 .. Len(l) : ll[i] = l[i]
      /\ ll[Len(l) + 1] = parts[1]
  BY <1>3, SafeFacts, OneMore
<1>7. /\ \A i \in 1 .. Len(l) : From(l[i])[1] = e[1]
      /\ Chained(l)
      /\ length = 1 => Len(l) > 0 /\ Follows(l[Len(l)], parts[1])
      /\ ~Complete(l) => \E v \in WritersTo(e) : Len(writing[v]) = 1
  BY DEF HealthInv, OwnInv, StreamInv
<1>8. \A i \in 1 .. Len(ll) : i \in 1 .. Len(l) \/ i = Len(l) + 1
  BY <1>6
<1>9. /\ \A i \in 1 .. Len(Tail(parts)) :
             length = 2 /\ i = 1 /\ Tail(parts)[i] = parts[2]
      /\ length = 2 => Tail(parts)[1] = parts[2] /\ Len(Tail(parts)) = 1
      /\ length = 1 => Len(Tail(parts)) = 0
  BY <1>2, <1>3
<1> HIDE DEF parts, length, l, ll
<1>10. OwnInv(e)'
  <2>1. \A i \in 1 .. Len(ll) : From(ll[i])[1] = e[1]
    BY <1>1, <1>4, <1>6, <1>7, <1>8 DEF From
  <2> QED BY <2>1 DEF HealthInv, OwnInv, ll
<1>11. Chained(ll)
  <2>1. length = 2 => Complete(l)
    <3>1. ASSUME length = 2, NEW v \in WritersTo(e), Len(writing[v]) = 1
          PROVE  FALSE
      <4>1. CASE v = w
        <5>1. length = Len(writing[w])
          BY DEF length, parts
        <5>2. length \in Nat
          BY <1>2
        <5>3. \A k \in Nat : k = 2 => k # 1
          OBVIOUS
        <5> QED BY <3>1, <4>1, <5>1, <5>2, <5>3, Zenon
      <4>2. CASE v # w
        <5>1. writing[v] = <<>>
          BY <1>5, <4>2, Zenon
        <5> QED BY <3>1, <5>1, EmptyNotOne, Zenon
      <4> QED BY <4>1, <4>2
    <3> QED BY <1>7, <3>1
  <2>2. Len(ll) > 0 => IsHead(ll[1])
    <3>1. CASE Len(l) = 0
      BY <1>2, <1>4, <1>6, <1>7, <3>1 DEF Follows
    <3>2. CASE Len(l) > 0
      <4>1. 1 \in 1 .. Len(l)
        BY <1>6, <3>2
      <4>2. ll[1] = l[1]
        BY <1>6, <4>1
      <4> QED BY <1>7, <3>2, <4>2 DEF Chained
    <3> QED BY <1>6, <3>1, <3>2
  <2>3. ASSUME NEW i \in 1 .. Len(ll) - 1
        PROVE  IF IsHead(ll[i]) THEN Follows(ll[i], ll[i + 1])
                                ELSE IsHead(ll[i + 1])
    <3>1. /\ i \in 1 .. Len(l) /\ ll[i] = l[i]
          /\ i \in 1 .. Len(l) - 1 \/ i = Len(l)
      BY <1>6
    <3>2. CASE i \in 1 .. Len(l) - 1
      <4>1. i + 1 \in 1 .. Len(l)
        BY <1>6, <3>2
      <4> QED BY <1>6, <1>7, <3>1, <3>2, <4>1 DEF Chained
    <3>3. CASE i = Len(l)
      <4>1. ll[i] = l[Len(l)] /\ ll[i + 1] = parts[1] /\ Len(l) > 0
        BY <1>6, <3>1, <3>3
      <4>2. CASE length = 1
        BY <1>7, <4>1, <4>2 DEF Follows
      <4>3. CASE length = 2
        BY <1>4, <2>1, <4>1, <4>3 DEF Follows, Complete
      <4> QED BY <1>2, <4>2, <4>3
    <3> QED BY <3>1, <3>2, <3>3
  <2> QED BY <2>2, <2>3 DEF Chained
<1>12. StreamInv(e)'
  <2>1. ll[Len(ll)] = parts[1] /\ Len(ll) > 0
    BY <1>6
  <2>2. ASSUME NEW v \in WritersTo(e), Len(writing'[v]) = 1
        PROVE  Follows(ll[Len(ll)], writing'[v][1])
    <3>1. v = w
      <4>1. v # w => writing'[v] = <<>>
        BY <1>5, Zenon
      <4> QED BY <2>2, <4>1, EmptyNotOne, Zenon
    <3>2. length = 2 /\ writing'[v][1] = parts[2]
      BY <1>2, <1>5, <1>9, <2>2, <3>1
    <3> QED BY <1>4, <2>1, <3>2
  <2>3. ASSUME ~Complete(ll)
        PROVE  Len(writing'[w]) = 1
    <3>1. IsHead(parts[1])
      BY <2>1, <2>3 DEF Complete
    <3> QED BY <1>2, <1>4, <1>5, <1>9, <3>1
  <2>4. Chained(buffer[e]) /\ Complete(buffer[e])
    BY DEF HealthInv, StreamInv
  <2> QED BY <1>1, <1>11, <2>1, <2>2, <2>3, <2>4 DEF StreamInv, ll
<1>13. \A p : FliesTo(e, p)' <=> FliesTo(e, p)
  <2>1. ASSUME NEW p
        PROVE  (\E i \in 1 .. Len(ll) : ll[i] = p)
                   <=> (\E i \in 1 .. Len(l) : l[i] = p) \/ parts[1] = p
    <3>1. \A i \in 1 .. Len(l) : i \in 1 .. Len(ll)
      BY <1>6
    <3>2. Len(l) + 1 \in 1 .. Len(ll)
      BY <1>6
    <3> QED BY <1>6, <1>8, <3>1, <3>2
  <2>2. ASSUME NEW p
        PROVE  (\E k \in 1 .. Len(parts) : parts[k] = p)
                   <=> \/ parts[1] = p
                       \/ \E k \in 1 .. Len(Tail(parts)) : Tail(parts)[k] = p
    <3>1. length = Len(parts)
      BY DEF length
    <3>2. CASE length = 2
      <4>1. \A k \in 1 .. 2 : k = 1 \/ k = 2
        OBVIOUS
      <4>2. 1 \in 1 .. 2 /\ 2 \in 1 .. 2 /\ 1 \in 1 .. 1
        OBVIOUS
      <4>3. \A k \in 1 .. 1 : k = 1
        OBVIOUS
      <4> QED BY <1>9, <3>1, <3>2, <4>1, <4>2, <4>3
    <3>3. CASE length = 1
      <4>1. /\ \A k \in 1 .. 1 : k = 1
            /\ 1 \in 1 .. 1
            /\ \A k \in 1 .. 0 : FALSE
        OBVIOUS
      <4> QED BY <1>9, <3>1, <3>3, <4>1
    <3> QED BY <1>2, <3>2, <3>3
  <2>3. ASSUME NEW p
        PROVE  (\E v \in WritersTo(e) : \E k \in 1 .. Len(writing[v]) :
                    writing[v][k] = p)
               <=> \E k \in 1 .. Len(parts) : parts[k] = p
    <3>1. \A v \in WritersTo(e) : v # w =>
              ~ \E k \in 1 .. Len(writing[v]) : writing[v][k] = p
      BY <1>5, EmptySeq
    <3> QED BY <3>1, Zenon DEF parts
  <2>4. ASSUME NEW p
        PROVE  (\E v \in WritersTo(e) : \E k \in 1 .. Len(writing'[v]) :
                    writing'[v][k] = p)
               <=> \E k \in 1 .. Len(Tail(parts)) : Tail(parts)[k] = p
    <3>1. \A v \in WritersTo(e) : v # w =>
              ~ \E k \in 1 .. Len(writing'[v]) : writing'[v][k] = p
      BY <1>5
    <3> QED BY <1>5, <3>1, Zenon
  <2> QED BY <1>1, <2>1, <2>2, <2>3, <2>4 DEF FliesTo, l, ll
<1>14. LocatedInv(e)'
  BY <1>1, <1>13 DEF HealthInv, LocatedInv
<1>15. IVsInv(e)'
  BY <1>13 DEF HealthInv, IVsInv
<1> QED BY <1>10, <1>12, <1>14, <1>15 DEF HealthInv

\* The buffer starts with a block, which is new to e and authentic.
LEMMA HealthRead ==
    ASSUME SafeInv, NEW e \in Ends, HealthInv(e), ReadsBlock(e)
    PROVE  HealthInv(e)'
<1> DEFINE b == buffer[e]
           bb == buffer'[e]
           message == MessageOf(b[2])
<1>0. /\ Peer(e) \in Ends /\ Peer(e) # e
      /\ WritersTo(e)' = WritersTo(e)
  BY EndFacts DEF WritersTo
<1>1. /\ b \in Seq(Parts) /\ Len(b) \in Nat
      /\ b # <<>>
      /\ UNCHANGED <<writing, written, up, down>>
      /\ Line(e)' = Line(e)
  BY SafeFacts DEF ReadsBlock, readBlock, Line
<1>2. Len(b) > 0
  BY <1>1, EmptySeq
<1>3. /\ Chained(b) /\ Complete(b)
      /\ \A i \in 1 .. Len(b) : From(b[i])[1] = e[1]
  BY DEF HealthInv, StreamInv, OwnInv
<1>4. /\ Len(b) >= 2
      /\ IsHead(b[1]) /\ Follows(b[1], b[2])
      /\ b[1] \in Parts /\ b[2] \in Parts
  <2>1. IsHead(b[1])
    BY <1>2, <1>3 DEF Chained
  <2>2. Len(b) # 1
    BY <1>2, <1>3, <2>1 DEF Complete
  <2>3. Len(b) >= 2
    <3>1. \A k \in Nat : k > 0 /\ k # 1 => k >= 2
      OBVIOUS
    <3> HIDE DEF b
    <3> QED BY <1>1, <1>2, <2>2, <3>1
  <2>4. 1 \in 1 .. Len(b) - 1 /\ 1 \in 1 .. Len(b) /\ 2 \in 1 .. Len(b)
    BY <1>1, <2>3
  <2>5. Follows(b[1], b[1 + 1])
    BY <1>3, <2>1, <2>4 DEF Chained
  <2> QED BY <1>1, <2>1, <2>3, <2>4, <2>5
<1>5. /\ StartsWithBlock(b) /\ IsWhole(b)
      /\ b[2].cipher.iv = b[1].iv
      /\ b[2].cipher.message = message
      /\ b[2].cipher.key = e[1]
  <2>1. ~IsHead(b[2]) /\ b[2].cipher.message = b[1].message
    BY <1>4 DEF Follows
  <2>2. 2 \in 1 .. Len(b)
    BY <1>1, <1>4
  <2>3. b[2].cipher.key = e[1]
    BY <1>3, <1>4, <2>1, <2>2, PartFacts
  <2> QED
    BY <1>4, <2>1, <2>3 DEF StartsWithBlock, IsWhole, Follows, MessageOf
<1>6. FliesTo(e, b[1])
  <2>1. 1 \in 1 .. Len(b)
    BY <1>1, <1>4
  <2> QED BY <2>1 DEF FliesTo
<1>7. b[1].iv \notin m_usedIV[e].read \cup m_usedIV[e].written
  BY <1>4, <1>6 DEF HealthInv, IVsInv
<1>8. /\ ~ReadNoBlock(e)
      /\ ~ReadUsedIV(e)
  BY <1>5, <1>7 DEF ReadNoBlock, ReadUsedIV, Contains
<1>9. Decrypt(e)
  BY <1>8 DEF ReadsBlock, readBlock
<1>10. /\ \/ m_usedIV' = [m_usedIV EXCEPT ![e].read = @ \cup {b[1].iv}]
          \/ m_usedIV' = m_usedIV
       /\ accepted' = [accepted EXCEPT ![e] = Append(@, message)]
       /\ Drop(e, 2)
  <2>1. decryptMessage(e[1], b[1].iv, b[2].cipher)
            = [valid |-> TRUE, message |-> message]
    BY <1>5 DEF decryptMessage
  <2> QED BY <1>9, <2>1 DEF Decrypt
<1>11. /\ m_usedIV'[Peer(e)] = m_usedIV[Peer(e)]
       /\ m_usedIV'[e].written = m_usedIV[e].written
       /\ m_usedIV'[e].read \subseteq m_usedIV[e].read \cup {b[1].iv}
  <2>1. m_usedIV \in [Ends -> [read : SUBSET IVs, written : SUBSET IVs]]
    BY DEF SafeInv, PartsTypeOK, SecureTypeOK
  <2> HIDE DEF b
  <2>2. CASE m_usedIV' = [m_usedIV EXCEPT ![e].read = @ \cup {b[1].iv}]
    BY <1>0, <2>1, <2>2
  <2>3. CASE m_usedIV' = m_usedIV
    BY <2>3
  <2> QED BY <1>10, <2>2, <2>3
<1>12. /\ accepted[e] \in Seq(Messages)
       /\ message \in Messages
       /\ accepted'[e] = Append(accepted[e], message)
  <2>1. message \in Messages
    BY <1>4, PartFacts
  <2> QED BY <1>10, <2>1, SafeFacts DEF SafeInv, PartsTypeOK
<1>13. /\ Len(accepted'[e]) = Len(accepted[e]) + 1
       /\ Len(accepted[e]) \in Nat
       /\ \A i \in 1 .. Len(accepted[e]) : accepted'[e][i] = accepted[e][i]
       /\ accepted'[e][Len(accepted[e]) + 1] = message
  <2> HIDE DEF message
  <2> QED BY <1>12, AppendProperties
<1>14. /\ Len(bb) = Len(b) - 2
       /\ \A i \in 1 .. Len(bb) : bb[i] = b[i + 2]
  <2>1. PICK n \in 0 .. Len(b) : n = 2
    BY <1>1, <1>4
  <2>2. bb = SubSeq(b, n + 1, Len(b))
    BY <1>10, <2>1 DEF Drop, SafeInv, PartsTypeOK
  <2> HIDE DEF b, bb
  <2>3. b \in Seq(Parts) /\ n \in 0 .. Len(b)
    BY <1>1, <2>1
  <2>4. Len(bb) = Len(b) - n /\ \A i \in 1 .. Len(bb) : bb[i] = b[i + n]
    BY <2>2, <2>3, Suffix
  <2> QED BY <2>1, <2>4
<1>15. /\ \A i \in 1 .. Len(bb) : i + 2 \in 1 .. Len(b) /\ 1 < i + 2
       /\ \A i \in 1 .. Len(bb) - 1 :
              /\ i + 2 \in 1 .. Len(b) - 1
              /\ i \in 1 .. Len(bb) /\ i + 1 \in 1 .. Len(bb)
              /\ (i + 1) + 2 = (i + 2) + 1
       /\ \A i \in 1 .. Len(b) : i = 1 \/ i = 2 \/ i - 2 \in 1 .. Len(bb)
       /\ \A i \in 1 .. Len(b) : (i - 2) + 2 = i
  BY <1>1, <1>4, <1>14
<1>16. \A w \in WritersTo(e) :
          writing[w] \in Seq(Parts) /\ Len(writing[w]) \in 0 .. 2
  BY SafeFacts, WritersToFacts
<1> HIDE DEF b, bb, message
\* No other part is the head that has been read.
<1>17. ASSUME NEW p, FliesTo(e, p)'
       PROVE  p # b[1] /\ FliesTo(e, p)
  <2>1. CASE \E i \in 1 .. Len(bb) : bb[i] = p
    <3>1. PICK i \in 1 .. Len(bb) : bb[i] = p
      BY <2>1
    <3>2. /\ i + 2 \in 1 .. Len(b) /\ 1 < i + 2 /\ p = b[i + 2]
          /\ 1 \in 1 .. Len(b)
      BY <1>1, <1>4, <1>14, <1>15, <3>1
    <3>3. Sorted(b)
      BY DEF SafeInv, EndInv, OrderInv, b
    <3>4. p # b[1]
      <4>1. ASSUME p = b[1]
            PROVE  Rank(b[1]) < Rank(b[1])
        BY <3>2, <3>3, <4>1 DEF Sorted
      <4>2. Rank(b[1]) \in Nat
        BY <1>4, PartFacts
      <4> QED BY <4>1, <4>2
    <3> QED BY <3>2, <3>4 DEF FliesTo, b
  <2>2. CASE \E i \in 1 .. Len(Line(e)) : Line(e)[i] = p
    <3>1. PICK i \in 1 .. Len(Line(e)) : Line(e)[i] = p
      BY <2>2
    <3>2. Precede(b, Line(e))
      BY DEF SafeInv, EndInv, OrderInv, b
    <3>3. p # b[1]
      <4>1. 1 \in 1 .. Len(b)
        BY <1>1, <1>4
      <4>2. ASSUME p = b[1]
            PROVE  Rank(b[1]) < Rank(b[1])
        BY <3>1, <3>2, <4>1, <4>2 DEF Precede
      <4>3. Rank(b[1]) \in Nat
        BY <1>4, PartFacts
      <4> QED BY <4>2, <4>3
    <3> QED BY <3>1, <3>3 DEF FliesTo
  <2>3. CASE \E w \in WritersTo(e) : \E k \in 1 .. Len(writing[w]) :
                 writing[w][k] = p
    <3>0. PICK w \in WritersTo(e) : \E k \in 1 .. Len(writing[w]) :
              writing[w][k] = p
      BY <2>3
    <3>1. PICK k \in 1 .. Len(writing[w]) : writing[w][k] = p
      BY <3>0
    <3>2. ASSUME p = b[1]
          PROVE  FALSE
      <4>1. w \in Writers
        BY <3>0, WritersToFacts
      <4>2. MessageOf(p) = [from |-> w, n |-> written[w]]
        BY <3>1, <4>1 DEF SafeInv, BlocksInv
      <4>3. From(p) = w /\ MessageOf(p).n = written[w]
        BY <4>2 DEF From
      <4>4. Rank(p) = 2 * written[w]
        <5>1. written[w] \in Nat
          BY <4>1, SafeFacts
        <5> QED BY <1>4, <3>2, <4>3, <5>1 DEF Rank
      <4>5. Rank(p) < NextRank(w)
        <5>1. 1 \in 1 .. Len(b)
          BY <1>1, <1>4
        <5>2. Old(b[1])
          BY <5>1 DEF SafeInv, EndInv, OrderInv, b
        <5> QED BY <3>2, <4>3, <5>2 DEF Old
      <4>6. Len(writing[w]) = 1
        <5>1. Len(writing[w]) \in {1, 2} /\ written[w] \in Nat
          BY <1>16, <3>0, <4>1, SafeFacts
        <5>2. \A n \in Nat, j \in {1, 2} : 2 * n < 2 * n + 2 - j => j = 1
          OBVIOUS
        <5>3. 2 * written[w] < 2 * written[w] + 2 - Len(writing[w])
          BY <4>4, <4>5 DEF NextRank
        <5> QED BY <5>1, <5>2, <5>3
      <4>7. ~IsHead(writing[w][1]) /\ k = 1
        <5>1. k \in 1 .. 1
          BY <3>1, <4>6
        <5>2. k = 1
          BY <5>1
        <5>3. ~IsHead(writing[w][1])
          BY <4>1, <4>6 DEF SafeInv, BlocksInv
        <5> QED BY <5>2, <5>3
      <4> QED BY <1>4, <3>1, <3>2, <4>7
    <3> QED BY <3>0, <3>1, <3>2 DEF FliesTo
  <2>4. \/ \E i \in 1 .. Len(bb) : bb[i] = p
        \/ \E i \in 1 .. Len(Line(e)) : Line(e)[i] = p
        \/ \E w \in WritersTo(e) : \E k \in 1 .. Len(writing[w]) :
               writing[w][k] = p
    BY <1>0, <1>1, <1>17 DEF FliesTo, bb
  <2> QED BY <2>1, <2>2, <2>3, <2>4
<1>18. ASSUME NEW p, FliesTo(e, p), p # b[1], p # b[2]
       PROVE  FliesTo(e, p)'
  <2>1. ASSUME NEW i \in 1 .. Len(b), b[i] = p
        PROVE  \E j \in 1 .. Len(bb) : bb[j] = p
    <3>1. i - 2 \in 1 .. Len(bb) /\ (i - 2) + 2 = i
      BY <1>15, <1>18, <2>1
    <3> QED BY <1>14, <2>1, <3>1
  <2> QED BY <1>0, <1>1, <1>18, <2>1 DEF FliesTo, b, bb
<1>19. OwnInv(e)'
  <2>1. ASSUME NEW i \in 1 .. Len(bb)
        PROVE  From(bb[i])[1] = e[1]
    BY <1>3, <1>14, <1>15
  <2> QED BY <1>1, <2>1 DEF HealthInv, OwnInv, bb
<1>20. Chained(bb)
  <2>1. Len(bb) > 0 => IsHead(bb[1])
    <3>1. ASSUME Len(bb) > 0
          PROVE  IsHead(b[2 + 1]) /\ bb[1] = b[2 + 1]
      <4>1. 2 \in 1 .. Len(b) - 1 /\ 1 \in 1 .. Len(bb) /\ 1 + 2 = 2 + 1
        BY <1>1, <1>14, <3>1
      <4>2. ~IsHead(b[2])
        BY <1>4 DEF Follows
      <4> QED BY <1>3, <1>14, <4>1, <4>2 DEF Chained
    <3> QED BY <3>1
  <2>2. ASSUME NEW i \in 1 .. Len(bb) - 1
        PROVE  IF IsHead(bb[i]) THEN Follows(bb[i], bb[i + 1])
                                ELSE IsHead(bb[i + 1])
    <3>1. /\ i + 2 \in 1 .. Len(b) - 1
          /\ bb[i] = b[i + 2] /\ bb[i + 1] = b[(i + 2) + 1]
      BY <1>14, <1>15
    <3> QED BY <1>3, <3>1 DEF Chained
  <2> QED BY <2>1, <2>2 DEF Chained
<1>21. Complete(bb)
  <2>1. ASSUME Len(bb) > 0
        PROVE  bb[Len(bb)] = b[Len(b)] /\ Len(b) > 0
    <3>1. Len(bb) \in 1 .. Len(bb) /\ Len(bb) + 2 = Len(b)
      BY <1>1, <1>14, <2>1
    <3> QED BY <1>2, <1>14, <3>1
  <2> QED BY <1>3, <2>1 DEF Complete
<1>22. StreamInv(e)'
  BY <1>0, <1>1, <1>20, <1>21 DEF HealthInv, StreamInv, bb
<1>23. LocatedInv(e)'
  <2>1. ASSUME NEW w \in WritersTo(e), NEW n \in 1 .. written[w]
        PROVE  \/ \E i \in 1 .. Len(accepted'[e]) :
                      accepted'[e][i] = [from |-> w, n |-> n]
               \/ \E part \in Parts :
                      /\ FliesTo(e, part)'
                      /\ ~IsHead(part)
                      /\ MessageOf(part) = [from |-> w, n |-> n]
    <3>1. \/ \E i \in 1 .. Len(accepted[e]) :
                 accepted[e][i] = [from |-> w, n |-> n]
          \/ \E part \in Parts :
                 /\ FliesTo(e, part)
                 /\ ~IsHead(part)
                 /\ MessageOf(part) = [from |-> w, n |-> n]
      BY DEF HealthInv, LocatedInv
    <3>2. CASE \E i \in 1 .. Len(accepted[e]) :
                   accepted[e][i] = [from |-> w, n |-> n]
      <4>1. \A i \in 1 .. Len(accepted[e]) : i \in 1 .. Len(accepted'[e])
        BY <1>13
      <4> QED BY <1>13, <3>2, <4>1
    <3>3. ASSUME NEW part \in Parts, FliesTo(e, part), ~IsHead(part),
                 MessageOf(part) = [from |-> w, n |-> n]
          PROVE  \/ \E i \in 1 .. Len(accepted'[e]) :
                        accepted'[e][i] = [from |-> w, n |-> n]
                 \/ FliesTo(e, part)'
      <4>1. CASE part = b[2]
        <5>1. Len(accepted[e]) + 1 \in 1 .. Len(accepted'[e])
          BY <1>13
        <5>2. message = [from |-> w, n |-> n]
          BY <3>3, <4>1 DEF message
        <5> QED BY <1>13, <5>1, <5>2
      <4>2. CASE part # b[2]
        BY <1>4, <1>18, <3>3, <4>2
      <4> QED BY <4>1, <4>2
    <3> QED BY <3>1, <3>2, <3>3
  <2> QED BY <1>0, <1>1, <2>1 DEF LocatedInv
<1>24. IVsInv(e)'
  <2>1. \A p \in Parts : FliesTo(e, p) /\ IsHead(p) =>
            /\ p.iv \in m_usedIV[Peer(e)].written
            /\ p.iv \notin m_usedIV[e].read \cup m_usedIV[e].written
            /\ \A q \in Parts :
                   FliesTo(e, q) /\ IsHead(q) /\ q.iv = p.iv => q = p
    BY DEF HealthInv, IVsInv
  <2>2. FliesTo(e, b[1]) /\ IsHead(b[1]) /\ b[1] \in Parts
    BY <1>4, <1>6
  <2>3. ASSUME NEW p \in Parts, FliesTo(e, p)', IsHead(p)
        PROVE  /\ p.iv \in m_usedIV'[Peer(e)].written
               /\ p.iv \notin m_usedIV'[e].read \cup m_usedIV'[e].written
               /\ \A q \in Parts :
                      FliesTo(e, q)' /\ IsHead(q) /\ q.iv = p.iv => q = p
    <3>1. FliesTo(e, p) /\ p # b[1]
      BY <1>17, <2>3
    <3>2. p.iv # b[1].iv
      BY <2>1, <2>2, <2>3, <3>1
    <3> QED BY <1>11, <1>17, <2>1, <2>3, <3>1, <3>2
  <2> QED BY <2>3 DEF IVsInv
<1> QED BY <1>19, <1>22, <1>23, <1>24 DEF HealthInv

\* What has been disturbed stays so.
LEMMA DisturbedStays ==
    ASSUME NumbersInv, [Next]_vars, NEW s \in Sessions, ~disturbed'[s]
    PROVE  ~disturbed[s]
<1>1. \A ss : Disturb(ss) => ~disturbed[s]
  BY DEF Disturb
<1>2. ASSUME NEW t \in Sessions, Main(t)
      PROVE  ~disturbed[s]
  BY <1>1, <1>2 DEF Main, new_user, MainTakes, MainDisconnects, MainGoesDeaf
<1>3. ASSUME NEW t \in Sessions, Worker(t)
      PROVE  ~disturbed[s]
  BY <1>1, <1>3 DEF Worker, SetSocketDescriptor, WorkerTakes, WorkerCloses,
              WorkerFails, WorkerLeaves, ReadsBlock
<1>4. ASSUME NEW t \in Sessions, Client(t) \/ ClientWrites(t)
      PROVE  ~disturbed[s]
  BY <1>1, <1>4 DEF Client, ClientTakes, ClientCloses, ClientWrites, ReadsBlock
<1>5. ASSUME NEW w \in Writers, BeginBlock(w)
      PROVE  ~disturbed[s]
  BY <1>1, <1>5 DEF BeginBlock
<1>6. ASSUME NEW w \in Writers, ServerWrites(w)
      PROVE  ~disturbed[s]
  BY <1>1, <1>6 DEF ServerWrites
<1>7. CASE UNCHANGED vars
  BY <1>7 DEF vars
<1> QED BY <1>2, <1>3, <1>4, <1>5, <1>6, <1>7 DEF Next

\* A session is live from its beginning on.
LEMMA LiveBefore ==
    ASSUME NumbersInv, [Next]_vars, NEW s \in Sessions, Live(s)'
    PROVE  new_user(s) \/ Live(s)
<1>1. /\ clientSocket'[s] = "open"
      /\ workerSocket'[s] \in {"new", "open"}
      /\ ~disturbed'[s]
  BY DEF Live
<1>2. ~disturbed[s]
  BY <1>1, DisturbedStays
<1>3. clientSocket[s] = "open" \/ new_user(s)
  <2>1. ASSUME NEW t \in Sessions, new_user(t)
        PROVE  clientSocket[s] = "open" \/ new_user(s)
    BY <1>1, <2>1 DEF new_user, NumbersInv
  <2>2. ASSUME NEW t \in Sessions, ClientCloses(t)
        PROVE  clientSocket[s] = "open"
    BY <1>1, <2>2 DEF ClientCloses, NumbersInv
  <2> QED BY <1>1, <2>1, <2>2, ClientSteps
<1>4. workerSocket[s] \in {"new", "open"} \/ new_user(s)
  <2>1. ASSUME NEW t \in Sessions, Main(t)
        PROVE  workerSocket[s] \in {"new", "open"} \/ new_user(s)
    BY <1>1, <2>1 DEF Main, new_user, MainTakes, MainDisconnects,
                      MainGoesDeaf, socketVars, NumbersInv
  <2>2. ASSUME NEW t \in Sessions, Worker(t)
        PROVE  workerSocket[s] \in {"new", "open"}
    BY <1>1, <2>2 DEF Worker, SetSocketDescriptor, WorkerTakes, WorkerCloses,
                      WorkerFails, WorkerLeaves, ReadsBlock, socketVars,
                      NumbersInv
  <2>3. ASSUME NEW t \in Sessions, Client(t) \/ ClientWrites(t)
        PROVE  UNCHANGED workerSocket
    BY <2>3 DEF Client, ClientTakes, ClientCloses, ClientWrites, ReadsBlock,
                socketVars
  <2>4. ASSUME NEW w \in Writers, BeginBlock(w)
        PROVE  UNCHANGED workerSocket
    BY <2>4 DEF BeginBlock, socketVars
  <2>5. ASSUME NEW w \in Writers, ServerWrites(w)
        PROVE  workerSocket[s] \in {"new", "open"}
    <3>1. \/ UNCHANGED workerSocket
          \/ workerSocket' = [workerSocket EXCEPT ![w[1]] = "closed"]
      BY <2>5 DEF ServerWrites
    <3> QED BY <1>1, <3>1 DEF NumbersInv
  <2>6. CASE UNCHANGED vars
    BY <1>1, <2>6 DEF vars, socketVars
  <2> QED BY <1>1, <2>1, <2>2, <2>3, <2>4, <2>5, <2>6 DEF Next
<1> QED BY <1>2, <1>3, <1>4 DEF Live

\* A connection that has just been accepted.
LEMMA HealthNew ==
    ASSUME SafeInv, UnusedInv, NEW e \in Ends, new_user(e[1])
    PROVE  HealthInv(e)'
<1>1. /\ buffer[e] = <<>> /\ Line(e) = <<>>
      /\ \A w \in WritersTo(e) : written[w] = 0 /\ writing[w] = <<>>
  BY WritersToFacts, EndFacts DEF UnusedInv, new_user
<1>2. /\ WritersTo(e)' = WritersTo(e)
      /\ buffer'[e] = <<>> /\ Line(e)' = <<>>
      /\ \A w \in WritersTo(e) : written'[w] = 0 /\ writing'[w] = <<>>
  BY <1>1 DEF new_user, cryptVars, Line, WritersTo
<1>3. Len(<<>>) = 0 /\ \A i \in 1 .. 0 : FALSE
  BY EmptySeq
<1>4. ~(0 = 1) /\ ~(0 > 0)
  OBVIOUS
<1>5. OwnInv(e)'
  BY <1>2, <1>3 DEF OwnInv
<1>6. Chained(<<>>) /\ Complete(<<>>)
  BY <1>3 DEF Chained, Complete
<1>7. StreamInv(e)'
  BY <1>2, <1>3, <1>4, <1>6 DEF StreamInv
<1>8. LocatedInv(e)'
  BY <1>2, <1>3 DEF LocatedInv
<1>9. \A p : ~FliesTo(e, p)'
  BY <1>2, <1>3 DEF FliesTo
<1>10. IVsInv(e)'
  BY <1>9 DEF IVsInv
<1> QED BY <1>5, <1>7, <1>8, <1>10 DEF HealthInv

\* Nothing of the session changes.
LEMMA HealthElsewhere ==
    ASSUME NEW e \in Ends, HealthInv(e),
           Line(e)' = Line(e),
           \A d \in Ends : d[1] = e[1] =>
               /\ buffer'[d] = buffer[d]
               /\ accepted'[d] = accepted[d]
               /\ m_usedIV'[d] = m_usedIV[d],
           \A w \in Writers : w[1] = e[1] =>
               writing'[w] = writing[w] /\ written'[w] = written[w]
    PROVE  HealthInv(e)'
<1>1. Peer(e) \in Ends /\ Peer(e)[1] = e[1]
  BY EndFacts
<1>2. \A w \in WritersTo(e) :
          writing'[w] = writing[w] /\ written'[w] = written[w]
  BY WritersToFacts
<1>3. /\ buffer'[e] = buffer[e]
      /\ accepted'[e] = accepted[e]
      /\ m_usedIV'[e] = m_usedIV[e]
      /\ m_usedIV'[Peer(e)] = m_usedIV[Peer(e)]
  BY <1>1
<1>4. m_usedIV'[e].written \cap m_usedIV[Peer(e)].written
          \subseteq m_usedIV[e].written
  BY <1>3
<1> QED BY <1>2, <1>3, <1>4, HealthKept

\* A block is begun: by a writer to e, by one of the other direction, or
\* elsewhere.
LEMMA HealthAtBegin ==
    ASSUME SafeInv, NEW e \in Ends, HealthInv(e), ~disturbed'[e[1]],
           NEW w \in Writers, BeginBlock(w)
    PROVE  HealthInv(e)'
<1>1. /\ EncryptBlock(w)
      /\ UNCHANGED <<up, down>>
      /\ Line(e)' = Line(e)
      /\ e[1] \in Sessions
      /\ Peer(e) \in Ends /\ Peer(e) # e /\ Peer(Peer(e)) = e
      /\ Peer(e)[1] = e[1]
  BY EndFacts DEF BeginBlock, Line
<1>2. w[1] = e[1] => writing'[w][1].iv \notin IVsInUse(e[1])
  <2>1. Disturb(IF writing'[w][1].iv \in IVsInUse(w[1]) THEN {w[1]} ELSE {})
    BY DEF BeginBlock
  <2>2. ASSUME w[1] = e[1], writing'[w][1].iv \in IVsInUse(e[1])
        PROVE  FALSE
    BY <1>1, <2>1, <2>2 DEF Disturb
  <2> QED BY <2>2
<1>3. CASE EndOf(w) = Peer(e)
  <2>1. w \in WritersTo(e) /\ w[1] = e[1]
    BY <1>1, <1>3, EndFacts DEF WritersTo
  <2> QED BY <1>1, <1>2, <2>1, HealthBegin
<1>4. PICK iv :
          /\ m_usedIV' = [m_usedIV EXCEPT ![EndOf(w)].written = @ \cup {iv}]
          /\ writing' = [writing EXCEPT ![w] =
                 Block(EndOf(w), iv, [from |-> w, n |-> written'[w]])]
  BY <1>1 DEF EncryptBlock
<1>5. /\ writing \in [Writers -> Seq(Parts)]
      /\ written \in [Writers -> Nat]
      /\ m_usedIV \in [Ends -> [read : SUBSET IVs, written : SUBSET IVs]]
      /\ EndOf(w) \in Ends
      /\ written' = [written EXCEPT ![w] = @ + 1]
      /\ UNCHANGED <<buffer, accepted>>
  BY <1>1, EndFacts DEF SafeInv, PartsTypeOK, SecureTypeOK, EncryptBlock
<1>6. \A v \in Writers : v # w =>
          writing'[v] = writing[v] /\ written'[v] = written[v]
  BY <1>4, <1>5
<1>7. CASE EndOf(w) = e
  <2>1. w[1] = e[1]
    BY <1>7, EndFacts
  <2>2. writing'[w][1].iv = iv
    <3>1. writing'[w] = Block(e, iv, [from |-> w, n |-> written'[w]])
      BY <1>4, <1>5, <1>7
    <3> QED BY <3>1 DEF Block
  <2>3. iv \notin m_usedIV[Peer(e)].written
    <3>1. Peer(e) \in {e[1]} \X Sides
      BY EndFacts DEF Ends, Sides, Peer
    <3> QED BY <1>2, <2>1, <2>2, <3>1 DEF IVsInUse
  <2>4. /\ m_usedIV'[Peer(e)] = m_usedIV[Peer(e)]
        /\ m_usedIV'[e].read = m_usedIV[e].read
        /\ m_usedIV'[e].written = m_usedIV[e].written \cup {iv}
    BY <1>1, <1>4, <1>5, <1>7
  <2>5. m_usedIV'[e].written \cap m_usedIV[Peer(e)].written
            \subseteq m_usedIV[e].written
    BY <2>3, <2>4
  <2>6. \A v \in WritersTo(e) :
            writing'[v] = writing[v] /\ written'[v] = written[v]
    <3>1. \A v \in WritersTo(e) : v \in Writers /\ v # w
      BY <1>1, <1>7, WritersToFacts
    <3> QED BY <1>6, <3>1
  <2>7. m_usedIV'[Peer(e)].written = m_usedIV[Peer(e)].written
    BY <2>4
  <2> QED BY <1>1, <1>5, <2>4, <2>5, <2>6, <2>7, HealthKept
<1>8. CASE w[1] # e[1]
  <2>1. \A d \in Ends : d[1] = e[1] => d # EndOf(w)
    BY <1>8, EndFacts
  <2>2. \A d \in Ends : d[1] = e[1] => m_usedIV'[d] = m_usedIV[d]
    BY <1>4, <1>5, <2>1
  <2>3. \A v \in Writers : v[1] = e[1] =>
            writing'[v] = writing[v] /\ written'[v] = written[v]
    BY <1>6, <1>8
  <2> QED BY <1>1, <1>5, <2>2, <2>3, HealthElsewhere
<1>9. w[1] = e[1] => EndOf(w) = e \/ EndOf(w) = Peer(e)
  BY EndFacts DEF EndOf, Peer, Ends, Sides
<1> QED BY <1>3, <1>7, <1>8, <1>9

\* A part is written to the connection of session e[1], or of another.
LEMMA HealthAtClientWrite ==
    ASSUME SafeInv, NumbersInv, UnusedInv, NEW e \in Ends, HealthInv(e),
           Live(e[1]), NEW s \in Sessions, ClientWrites(s)
    PROVE  HealthInv(e)'
<1> DEFINE w == <<s, "client">>
<1>1. /\ w \in Writers
      /\ writing[w] # <<>>
      /\ writing' = [writing EXCEPT ![w] = Tail(@)]
      /\ up' = IF Connected(s) THEN [up EXCEPT ![s] = @ \o <<Head(writing[w])>>]
                               ELSE up
      /\ UNCHANGED <<m_usedIV, buffer, accepted, written, down>>
  BY DEF ClientWrites, Writers
<1>2. /\ writing \in [Writers -> Seq(Parts)]
      /\ up \in [Sessions -> Seq(Parts)]
      /\ e[1] \in Sessions /\ e[2] \in Sides
  BY EndFacts DEF SafeInv, PartsTypeOK
<1>3. \A v \in Writers : v # w => writing'[v] = writing[v]
  BY <1>1, <1>2
<1>4. CASE e = <<s, "server">>
  <2>1. Connected(s)
    BY <1>4, ReachFacts DEF Live
  <2>2. up'[s] = up[s] \o <<Head(writing[w])>>
    BY <1>1, <1>2, <2>1
  <2>3. Line(e)' = Line(e) \o <<Head(writing[w])>>
    BY <1>4, <2>2 DEF Line
  <2>4. w \in WritersTo(e) /\ \A v \in WritersTo(e) : v = w
    <3>1. EndOf(w) = Peer(e)
      BY <1>4 DEF EndOf, Peer
    <3>2. ASSUME NEW v \in WritersTo(e)
          PROVE  v = w
      <4>1. v \in Writers /\ EndOf(v) = <<s, "client">>
        BY <1>4, WritersToFacts DEF Peer
      <4>2. v[2] = "client"
        BY <4>1, EndFacts
      <4> QED BY <4>1, <4>2 DEF EndOf
    <3> QED BY <1>1, <3>1, <3>2 DEF WritersTo
  <2>5. buffer'[e] = buffer[e]
    BY <1>1
  <2>6. UNCHANGED <<m_usedIV, accepted, written>>
    BY <1>1
  <2> HIDE DEF w
  <2> QED BY <1>1, <2>3, <2>4, <2>5, <2>6, HealthWrite
<1>5. CASE e # <<s, "server">>
  <2>1. Line(e)' = Line(e)
    <3>1. CASE e[2] = "client"
      BY <1>1, <3>1 DEF Line
    <3>2. CASE e[2] # "client"
      <4>1. e[1] # s
        BY <1>2, <1>5, <3>2, EndFacts DEF Sides
      <4>2. up'[e[1]] = up[e[1]]
        BY <1>1, <1>2, <4>1
      <4> QED BY <3>2, <4>2 DEF Line
    <3> QED BY <3>1, <3>2
  <2>2. \A v \in WritersTo(e) :
            writing'[v] = writing[v] /\ written'[v] = written[v]
    <3>1. ASSUME NEW v \in WritersTo(e)
          PROVE  v # w
      <4>1. EndOf(v) = Peer(e) /\ v \in Writers /\ e = Peer(Peer(e))
        BY WritersToFacts, EndFacts
      <4>2. ASSUME v = w
            PROVE  e = <<s, "server">>
        BY <4>1, <4>2 DEF EndOf, Peer
      <4> QED BY <1>5, <4>2
    <3> QED BY <1>1, <1>3, <3>1, WritersToFacts
  <2>3. /\ m_usedIV'[e].written \cap m_usedIV[Peer(e)].written
               \subseteq m_usedIV[e].written
        /\ m_usedIV'[e].read = m_usedIV[e].read
        /\ m_usedIV'[Peer(e)].written = m_usedIV[Peer(e)].written
        /\ buffer'[e] = buffer[e]
        /\ accepted'[e] = accepted[e]
    BY <1>1
  <2> QED BY <2>1, <2>2, <2>3, HealthKept
<1> QED BY <1>4, <1>5

LEMMA HealthAtServerWrite ==
    ASSUME SafeInv, NumbersInv, UnusedInv, NEW e \in Ends, HealthInv(e),
           Live(e[1]), Live(e[1])', NEW w \in Writers, ServerWrites(w)
    PROVE  HealthInv(e)'
<1>1. /\ w[1] \in Sessions /\ w[2] # "client"
      /\ writing[w] # <<>>
      /\ UNCHANGED <<m_usedIV, buffer, accepted, written, up>>
      /\ e[1] \in Sessions /\ e[2] \in Sides
      /\ writing \in [Writers -> Seq(Parts)]
      /\ down \in [Sessions -> Seq(Parts)]
  BY EndFacts DEF ServerWrites, SafeInv, PartsTypeOK
<1>2. \A v \in Writers : v # w => writing'[v] = writing[v]
  <2>1. \/ writing' = [writing EXCEPT ![w] = Tail(@)]
        \/ writing' = [writing EXCEPT ![w] = <<>>]
    BY DEF ServerWrites
  <2> QED BY <1>1, <2>1
<1>3. \A ss : Disturb(ss) => e[1] \notin ss
  BY <1>1 DEF Disturb, Live
<1>4. /\ m_usedIV'[e].written \cap m_usedIV[Peer(e)].written
             \subseteq m_usedIV[e].written
      /\ m_usedIV'[e].read = m_usedIV[e].read
      /\ m_usedIV'[Peer(e)].written = m_usedIV[Peer(e)].written
      /\ buffer'[e] = buffer[e]
      /\ accepted'[e] = accepted[e]
  BY <1>1
<1>5. CASE w \notin WritersTo(e)
  <2>1. \A v \in WritersTo(e) :
            writing'[v] = writing[v] /\ written'[v] = written[v]
    BY <1>1, <1>2, <1>5, WritersToFacts
  <2>2. Line(e)' = Line(e)
    <3>1. CASE e[2] = "server"
      BY <1>1, <3>1 DEF Line
    <3>2. CASE e[2] = "client"
      <4>1. w[1] # e[1]
        BY <1>1, <1>5, <3>2 DEF WritersTo, EndOf, Peer
      <4>2. \/ UNCHANGED down
            \/ \E t \in Reach(w[1]) : \E bytes \in Written(w) :
                   /\ down' = [down EXCEPT ![t] = @ \o bytes]
                   /\ Disturb(IF t # w[1] \/ Collides(w) THEN {w[1], t} ELSE {})
        BY DEF ServerWrites
      <4>3. ASSUME NEW t \in Reach(w[1]), NEW bytes,
                   down' = [down EXCEPT ![t] = @ \o bytes],
                   Disturb(IF t # w[1] \/ Collides(w) THEN {w[1], t} ELSE {})
            PROVE  down'[e[1]] = down[e[1]]
        <5>1. t # e[1]
          BY <1>3, <4>1, <4>3
        <5> QED BY <1>1, <4>3, <5>1
      <4>4. down'[e[1]] = down[e[1]]
        BY <4>2, <4>3
      <4> QED BY <3>2, <4>4 DEF Line
    <3> QED BY <1>1, <3>1, <3>2 DEF Sides
  <2> QED BY <1>4, <2>1, <2>2, HealthKept
<1>6. CASE w \in WritersTo(e)
  <2>1. w[1] = e[1] /\ e[2] = "client"
    <3>1. EndOf(w) = Peer(e) /\ w[1] = e[1]
      BY <1>6, WritersToFacts
    <3>2. EndOf(w)[2] = "server"
      BY <1>1 DEF EndOf
    <3>3. Peer(e)[2] = "server" => e[2] = "client"
      BY DEF Peer
    <3> QED BY <3>1, <3>2, <3>3
  <2>2. Reach(w[1]) = {e[1]}
    BY <1>1, <2>1, ReachFacts DEF Live
  <2>3. IsOpen(w)
    <3>1. ASSUME ~IsOpen(w)
          PROVE  FALSE
      <4>1. workerSocket' = [workerSocket EXCEPT ![w[1]] = "closed"]
        BY <3>1 DEF ServerWrites
      <4>2. workerSocket'[e[1]] = "closed"
        BY <1>1, <2>1, <4>1 DEF NumbersInv
      <4> QED BY <4>2 DEF Live
    <3> QED BY <3>1
  <2>4. PICK t \in Reach(w[1]), bytes \in Written(w) :
            /\ down' = [down EXCEPT ![t] = @ \o bytes]
            /\ Disturb(IF t # w[1] \/ Collides(w) THEN {w[1], t} ELSE {})
    BY <2>2, <2>3 DEF ServerWrites
  <2>5. t = e[1] /\ ~Collides(w)
    BY <1>3, <2>1, <2>2, <2>4
  <2>6. bytes = <<Head(writing[w])>>
    BY <2>4, <2>5 DEF Written
  <2>7. Line(e)' = Line(e) \o <<Head(writing[w])>>
    <3>1. down'[e[1]] = down[e[1]] \o <<Head(writing[w])>>
      BY <1>1, <2>4, <2>5, <2>6
    <3> QED BY <2>1, <3>1 DEF Line
  <2>8. \A v \in WritersTo(e) \ {w} : writing[v] = <<>>
    <3>1. ASSUME NEW v \in WritersTo(e) \ {w}
          PROVE  v \in Others(w)
      BY <1>6, WritersToFacts DEF Others
    <3> QED BY <2>5, <3>1 DEF Collides
  <2>9. writing' = [writing EXCEPT ![w] = Tail(@)]
    BY <2>2, <2>3 DEF ServerWrites
  <2>10. UNCHANGED <<m_usedIV, accepted, written>>
    BY <1>1
  <2> QED BY <1>1, <1>4, <1>6, <2>7, <2>8, <2>9, <2>10, HealthWrite
<1> QED BY <1>5, <1>6

\* Bytes that another object takes are not the session's.
LEMMA HealthAtMainTake ==
    ASSUME SafeInv, NumbersInv, UnusedInv, NEW e \in Ends, HealthInv(e),
           ~disturbed'[e[1]], NEW s \in Sessions, MainTakes(s)
    PROVE  HealthInv(e)'
<1>1. /\ up \in [Sessions -> Seq(Parts)]
      /\ e[1] \in Sessions
      /\ UNCHANGED <<cryptVars, down>>
  BY EndFacts DEF SafeInv, PartsTypeOK, MainTakes
<1>2. PICK t \in Reach(s) :
          /\ \E n \in 1 .. Len(up[t]) :
                 up' = [up EXCEPT ![t] = SubSeq(@, n + 1, Len(@))]
          /\ Disturb({t})
  BY DEF MainTakes
<1>3. t # e[1]
  BY <1>1, <1>2 DEF Disturb
<1>4. up'[e[1]] = up[e[1]]
  BY <1>1, <1>2, <1>3
<1>5. Line(e)' = Line(e)
  BY <1>1, <1>4 DEF Line
<1> QED BY <1>1, <1>5, HealthElsewhere DEF cryptVars

LEMMA HealthAtWorkerTake ==
    ASSUME SafeInv, NEW e \in Ends, HealthInv(e), ~disturbed'[e[1]],
           NEW s \in Sessions, WorkerTakes(s)
    PROVE  HealthInv(e)'
<1> DEFINE d == <<s, "server">>
<1>1. /\ up \in [Sessions -> Seq(Parts)]
      /\ buffer \in [Ends -> Seq(Parts)]
      /\ e[1] \in Sessions /\ e[2] \in Sides
      /\ d \in Ends
      /\ buffer[d] = <<>>
      /\ UNCHANGED <<m_usedIV, accepted, writing, written, down>>
  BY EndFacts DEF SafeInv, PartsTypeOK, WorkerTakes, Waits, Ends, Sides
<1>2. PICK t \in Reach(s) : \E n \in 1 .. Len(up[t]) :
          /\ buffer' = [buffer EXCEPT ![d] = SubSeq(up[t], 1, n)]
          /\ up' = [up EXCEPT ![t] = SubSeq(@, n + 1, Len(@))]
          /\ Disturb(IF t # s \/ IsHead(up[t][n]) THEN {s, t} ELSE {})
  BY DEF WorkerTakes
<1>3. PICK n \in 1 .. Len(up[t]) :
          /\ buffer' = [buffer EXCEPT ![d] = SubSeq(up[t], 1, n)]
          /\ up' = [up EXCEPT ![t] = SubSeq(@, n + 1, Len(@))]
          /\ Disturb(IF t # s \/ IsHead(up[t][n]) THEN {s, t} ELSE {})
  BY <1>2
<1>4. e[1] \in {s, t} => t = s /\ ~IsHead(up[t][n])
  BY <1>1, <1>3 DEF Disturb
<1>5. CASE e = d
  <2>1. t = s /\ ~IsHead(up[s][n]) /\ Line(e) = up[s] /\ Line(e)' = up'[s]
    BY <1>4, <1>5 DEF Line
  <2>2. /\ n \in 1 .. Len(Line(e))
        /\ ~IsHead(Line(e)[n])
        /\ buffer'[e] = SubSeq(Line(e), 1, n)
        /\ Line(e)' = SubSeq(Line(e), n + 1, Len(Line(e)))
    BY <1>1, <1>3, <1>5, <2>1
  <2>3. buffer[e] = <<>> /\ UNCHANGED <<m_usedIV, accepted, writing, written>>
    BY <1>1, <1>5
  <2> QED BY <2>2, <2>3, HealthTake
<1>6. CASE e # d
  <2>1. buffer'[e] = buffer[e]
    BY <1>1, <1>3, <1>6
  <2>2. Line(e)' = Line(e)
    <3>1. CASE e[2] = "client"
      BY <1>1, <3>1 DEF Line
    <3>2. CASE e[2] = "server"
      <4>1. e[1] # s
        BY <1>6, <3>2, EndFacts
      <4>2. t # e[1]
        BY <1>4, <4>1
      <4>3. up'[e[1]] = up[e[1]]
        BY <1>1, <1>3, <4>2
      <4> QED BY <3>2, <4>3 DEF Line
    <3> QED BY <1>1, <3>1, <3>2 DEF Sides
  <2>3. \A w \in WritersTo(e) :
            writing'[w] = writing[w] /\ written'[w] = written[w]
    BY <1>1
  <2> QED BY <1>1, <2>1, <2>2, <2>3, HealthKept
<1> QED BY <1>5, <1>6

LEMMA HealthAtClientTake ==
    ASSUME SafeInv, NEW e \in Ends, HealthInv(e), ~disturbed'[e[1]],
           NEW s \in Sessions, ClientTakes(s)
    PROVE  HealthInv(e)'
<1> DEFINE d == <<s, "client">>
<1>1. /\ down \in [Sessions -> Seq(Parts)]
      /\ buffer \in [Ends -> Seq(Parts)]
      /\ e[1] \in Sessions /\ e[2] \in Sides
      /\ d \in Ends
      /\ buffer[d] = <<>>
      /\ UNCHANGED <<m_usedIV, accepted, writing, written, up>>
  BY EndFacts DEF SafeInv, PartsTypeOK, ClientTakes, Waits, Ends, Sides
<1>2. PICK n \in 1 .. Len(down[s]) :
          /\ buffer' = [buffer EXCEPT ![d] = SubSeq(down[s], 1, n)]
          /\ down' = [down EXCEPT ![s] = SubSeq(@, n + 1, Len(@))]
          /\ Disturb(IF IsHead(down[s][n]) THEN {s} ELSE {})
  BY DEF ClientTakes
<1>3. CASE e = d
  <2>1. ~IsHead(down[s][n])
    BY <1>1, <1>2, <1>3 DEF Disturb
  <2>2. Line(e) = down[s] /\ Line(e)' = down'[s]
    BY <1>3 DEF Line
  <2>3. /\ n \in 1 .. Len(Line(e))
        /\ ~IsHead(Line(e)[n])
        /\ buffer'[e] = SubSeq(Line(e), 1, n)
        /\ Line(e)' = SubSeq(Line(e), n + 1, Len(Line(e)))
    BY <1>1, <1>2, <1>3, <2>1, <2>2
  <2>4. buffer[e] = <<>> /\ UNCHANGED <<m_usedIV, accepted, writing, written>>
    BY <1>1, <1>3
  <2> QED BY <2>3, <2>4, HealthTake
<1>4. CASE e # d
  <2>1. buffer'[e] = buffer[e]
    BY <1>1, <1>2, <1>4
  <2>2. Line(e)' = Line(e)
    <3>1. CASE e[2] = "server"
      BY <1>1, <3>1 DEF Line
    <3>2. CASE e[2] = "client"
      <4>1. e[1] # s
        BY <1>4, <3>2, EndFacts
      <4>2. down'[e[1]] = down[e[1]]
        BY <1>1, <1>2, <4>1
      <4> QED BY <3>2, <4>2 DEF Line
    <3> QED BY <1>1, <3>1, <3>2 DEF Sides
  <2>3. \A w \in WritersTo(e) :
            writing'[w] = writing[w] /\ written'[w] = written[w]
    BY <1>1
  <2> QED BY <1>1, <2>1, <2>2, <2>3, HealthKept
<1> QED BY <1>3, <1>4

\* The other end of a session reads, or another session's.
LEMMA HealthAtRead ==
    ASSUME SafeInv, NEW e \in Ends, HealthInv(e),
           NEW d \in Ends, ReadsBlock(d)
    PROVE  HealthInv(e)'
<1>1. CASE d = e
  BY <1>1, HealthRead
<1>2. CASE d # e
  <2>1. /\ UNCHANGED <<writing, written, up, down>>
        /\ buffer \in [Ends -> Seq(Parts)]
        /\ accepted \in [Ends -> Seq(Messages)]
        /\ m_usedIV \in [Ends -> [read : SUBSET IVs, written : SUBSET IVs]]
    BY DEF ReadsBlock, readBlock, SafeInv, PartsTypeOK, SecureTypeOK
  <2>2. ReadNoBlock(d) \/ ReadUsedIV(d) \/ Decrypt(d)
    BY DEF ReadsBlock, readBlock
  <2>3. buffer'[e] = buffer[e]
    BY <1>2, <2>1, <2>2 DEF ReadNoBlock, ReadUsedIV, Decrypt, Drop
  <2>4. accepted'[e] = accepted[e]
    BY <1>2, <2>1, <2>2 DEF ReadNoBlock, ReadUsedIV, Decrypt
  <2>5. \/ UNCHANGED m_usedIV
        \/ \E iv : m_usedIV' = [m_usedIV EXCEPT ![d].read = @ \cup {iv}]
    BY <2>2 DEF ReadNoBlock, ReadUsedIV, Decrypt
  <2>6. /\ m_usedIV'[e] = m_usedIV[e]
        /\ m_usedIV'[Peer(e)].written = m_usedIV[Peer(e)].written
    <3>1. Peer(e) \in Ends
      BY EndFacts
    <3>2. CASE UNCHANGED m_usedIV
      BY <3>2
    <3>3. CASE \E iv :
                   m_usedIV' = [m_usedIV EXCEPT ![d].read = @ \cup {iv}]
      <4>1. PICK iv : m_usedIV' = [m_usedIV EXCEPT ![d].read = @ \cup {iv}]
        BY <3>3
      <4>2. \A c \in Ends : m_usedIV'[c].written = m_usedIV[c].written
        BY <2>1, <4>1
      <4>3. m_usedIV'[e] = m_usedIV[e]
        BY <1>2, <2>1, <4>1
      <4> QED BY <3>1, <4>2, <4>3
    <3> QED BY <2>5, <3>2, <3>3
  <2>7. Line(e)' = Line(e)
    BY <2>1 DEF Line
  <2>8. m_usedIV'[e].written \cap m_usedIV[Peer(e)].written
            \subseteq m_usedIV[e].written
    BY <2>6
  <2>9. \A w \in WritersTo(e) :
            writing'[w] = writing[w] /\ written'[w] = written[w]
    BY <2>1
  <2> QED BY <2>3, <2>4, <2>6, <2>7, <2>8, <2>9, HealthKept
<1> QED BY <1>1, <1>2

LEMMA LiveStep ==
    ASSUME SafeInv, NumbersInv, UnusedInv, LiveInv, [Next]_vars
    PROVE  LiveInv'
<1> SUFFICES ASSUME NEW e \in Ends, Live(e[1])'
             PROVE  HealthInv(e)'
  BY DEF LiveInv
<1>1. e[1] \in Sessions /\ ~disturbed'[e[1]]
  BY EndFacts DEF Live
<1>2. CASE new_user(e[1])
  BY <1>2, HealthNew
<1>3. CASE ~new_user(e[1])
  <2>1. Live(e[1]) /\ HealthInv(e)
    BY <1>1, <1>3, LiveBefore DEF LiveInv
  <2>2. ASSUME UNCHANGED <<cryptVars, up, down>>
        PROVE  HealthInv(e)'
    <3>1. Line(e)' = Line(e)
      BY <2>2 DEF Line
    <3> QED BY <2>1, <2>2, <3>1, HealthElsewhere DEF cryptVars
  <2>3. ASSUME NEW s \in Sessions, Main(s)
        PROVE  HealthInv(e)'
    <3>1. CASE MainTakes(s)
      BY <1>1, <2>1, <3>1, HealthAtMainTake
    <3>2. CASE new_user(s) \/ MainDisconnects(s) \/ MainGoesDeaf(s)
      BY <2>2, <3>2 DEF new_user, MainDisconnects, MainGoesDeaf
    <3> QED BY <2>3, <3>1, <3>2 DEF Main
  <2>4. ASSUME NEW s \in Sessions, Worker(s)
        PROVE  HealthInv(e)'
    <3>1. CASE WorkerTakes(s)
      BY <1>1, <2>1, <3>1, HealthAtWorkerTake
    <3>2. CASE ReadsBlock(<<s, "server">>)
      <4>1. <<s, "server">> \in Ends
        BY DEF Ends, Sides
      <4> QED BY <2>1, <3>2, <4>1, HealthAtRead
    <3>3. CASE \/ SetSocketDescriptor(s)
               \/ WorkerCloses(s)
               \/ WorkerFails(s)
               \/ WorkerLeaves(s)
      BY <2>2, <3>3 DEF SetSocketDescriptor, WorkerCloses, WorkerFails,
                        WorkerLeaves
    <3> QED BY <2>4, <3>1, <3>2, <3>3 DEF Worker
  <2>5. ASSUME NEW s \in Sessions, Client(s)
        PROVE  HealthInv(e)'
    <3>1. CASE ClientTakes(s)
      BY <1>1, <2>1, <3>1, HealthAtClientTake
    <3>2. CASE ReadsBlock(<<s, "client">>)
      <4>1. <<s, "client">> \in Ends
        BY DEF Ends, Sides
      <4> QED BY <2>1, <3>2, <4>1, HealthAtRead
    <3>3. CASE ClientCloses(s)
      BY <2>2, <3>3 DEF ClientCloses
    <3> QED BY <2>5, <3>1, <3>2, <3>3 DEF Client
  <2>6. ASSUME NEW s \in Sessions, ClientWrites(s)
        PROVE  HealthInv(e)'
    BY <2>1, <2>6, HealthAtClientWrite
  <2>7. ASSUME NEW w \in Writers, BeginBlock(w)
        PROVE  HealthInv(e)'
    BY <1>1, <2>1, <2>7, HealthAtBegin
  <2>8. ASSUME NEW w \in Writers, ServerWrites(w)
        PROVE  HealthInv(e)'
    BY <2>1, <2>8, HealthAtServerWrite
  <2>9. CASE UNCHANGED vars
    BY <2>2, <2>9 DEF vars
  <2> QED BY <2>3, <2>4, <2>5, <2>6, <2>7, <2>8, <2>9 DEF Next
<1> QED BY <1>2, <1>3

-----------------------------------------------------------------------------
(* The invariant.                                                          *)

IInv == SafeInv /\ NumbersInv /\ UnusedInv /\ LiveInv

LEMMA Initially == Init => IInv
<1> SUFFICES ASSUME Init
             PROVE  IInv
  OBVIOUS
<1>1. /\ m_usedIV = [e \in Ends |-> [read |-> {}, written |-> {}]]
      /\ buffer = [e \in Ends |-> <<>>]
      /\ accepted = [e \in Ends |-> <<>>]
      /\ writing = [w \in Writers |-> <<>>]
      /\ written = [w \in Writers |-> 0]
      /\ up = [s \in Sessions |-> <<>>]
      /\ down = [s \in Sessions |-> <<>>]
  BY DEF Init, SecureInit
<1>2. Len(<<>>) = 0 /\ <<>> \in Seq(Parts) /\ <<>> \in Seq(Messages)
  BY EmptySeq
<1>3. \A e \in Ends : /\ buffer[e] = <<>>
                      /\ Line(e) = <<>>
                      /\ accepted[e] = <<>>
  BY <1>1, EndFacts DEF Line
<1>4. \A i \in 1 .. 0 : FALSE
  OBVIOUS
<1>5. PartsTypeOK
  <2>1. \A w \in Writers : Len(writing[w]) <= 2
    BY <1>1, <1>2
  <2>2. SecureTypeOK
    BY <1>1, <1>2, <2>1 DEF SecureTypeOK
  <2> QED BY <1>1, <1>2, <2>2 DEF PartsTypeOK
<1>6. BlocksInv
  BY <1>1, <1>2, <1>4 DEF BlocksInv
<1>7. \A e \in Ends : EndInv(e)
  <2> TAKE e \in Ends
  <2>1. SidesInv(e)
    BY <1>2, <1>3, <1>4 DEF SidesInv
  <2>2. OrderInv(e)
    BY <1>2, <1>3, <1>4 DEF OrderInv, Sorted, Precede
  <2>3. AcceptedInv(e)
    BY <1>2, <1>3, <1>4 DEF AcceptedInv
  <2> QED BY <2>1, <2>2, <2>3 DEF EndInv
<1>8. NumbersInv
  BY DEF Init, NumbersInv
<1>9. UnusedInv
  <2>1. \A s \in Sessions : /\ workerSocket[s] = "none"
                            /\ \A n \in Numbers : s \notin behind[n]
    BY DEF Init
  <2>2. \A w \in Writers : written[w] = 0 /\ writing[w] = <<>>
    BY <1>1
  <2> QED BY <1>3, <2>1, <2>2 DEF UnusedInv
<1>10. LiveInv
  BY EndFacts DEF Init, LiveInv, Live
<1> QED BY <1>5, <1>6, <1>7, <1>8, <1>9, <1>10 DEF IInv, SafeInv

LEMMA Inductive ==
    ASSUME IInv, [Next]_vars
    PROVE  IInv'
  BY SafeStep, NumbersStep, UnusedStep, LiveStep DEF IInv

\* The state of the connections and of the objects that use them, at every
\* step of either program.
LEMMA Always == Spec => []IInv
<1>1. IInv /\ [Next]_vars => IInv'
  BY Inductive
<1> QED BY <1>1, Initially, PTL DEF Spec

-----------------------------------------------------------------------------
(* What the runs check.                                                    *)

\* A descriptor's number stands for one connection at most, whichever of the
\* two objects that share it closes it (echoserver.cpp:106,
\* serverthread.cpp:43), and a writer has at most one block in hand.
THEOREM Typing == Spec => []TypeOK
<1>1. IInv => TypeOK
  <2> SUFFICES ASSUME IInv
               PROVE  TypeOK
    OBVIOUS
  <2>1. SecureTypeOK
    BY DEF IInv, SafeInv, PartsTypeOK
  <2>2. ASSUME NEW n \in Numbers
        PROVE  Cardinality(behind[n]) <= 1
    <3>1. CASE behind[n] = {}
      <4>1. Cardinality(behind[n]) = 0
        BY <3>1, FS_EmptySet
      <4> QED BY <4>1
    <3>2. CASE behind[n] # {}
      <4>1. PICK s : s \in behind[n]
        BY <3>2
      <4>2. behind[n] = {s}
        BY <4>1 DEF IInv, NumbersInv
      <4>3. Cardinality(behind[n]) = 1
        BY <4>2, FS_Singleton
      <4> QED BY <4>3
    <3> QED BY <3>1, <3>2
  <2> QED BY <2>1, <2>2 DEF TypeOK, IInv, NumbersInv
<1> QED BY <1>1, Always, PTL

\* readBlock() gives to a program what the other end of its session has
\* written, no block twice and none before an earlier one of its writer,
\* whatever bytes of other connections, other threads or half a block it has
\* to parse (securesocket.cpp:52-73).
THEOREM Acceptance == Spec => []AcceptedAsWritten
<1>1. IInv => AcceptedAsWritten
  <2> SUFFICES ASSUME IInv, NEW e \in Ends
               PROVE  \A i \in DOMAIN accepted[e] :
                          /\ EndOf(accepted[e][i].from) = Peer(e)
                          /\ \A j \in DOMAIN accepted[e] :
                                 i < j /\ accepted[e][i].from
                                              = accepted[e][j].from
                                     => accepted[e][i].n < accepted[e][j].n
    BY DEF AcceptedAsWritten
  <2>1. AcceptedInv(e)
    BY DEF IInv, SafeInv, EndInv
  <2>2. DOMAIN accepted[e] = 1 .. Len(accepted[e])
    BY SafeFacts DEF IInv
  <2> QED BY <2>1, <2>2 DEF AcceptedInv
<1> QED BY <1>1, Always, PTL

\* When nothing of a session is under way, all that either end has written has
\* been given to the program of the other, unless one of the five causes has
\* come in (echoserver.cpp:98, serverthread.cpp:132, securesocket.cpp:19,
\* securesocket.cpp:62, or a number given twice): there is no sixth.
THEOREM Losses == Spec => []LossHasCause
<1>1. IInv => LossHasCause
  <2> SUFFICES ASSUME IInv, NEW s \in Sessions, AtRest(s), ~disturbed[s],
                      NEW w \in Writers, w[1] = s, NEW n \in 1 .. written[w]
               PROVE  IsAccepted([from |-> w, n |-> n])
    BY DEF LossHasCause
  <2> DEFINE e == Peer(EndOf(w))
  <2>1. /\ e \in Ends /\ e[1] = s
        /\ w \in WritersTo(e)
        /\ e \in {s} \X Sides
    <3>1. EndOf(w) \in Ends /\ EndOf(w)[1] = s
      BY EndFacts
    <3>2. e \in Ends /\ e[1] = s /\ Peer(e) = EndOf(w)
      BY <3>1, EndFacts
    <3> QED BY <3>2, EndFacts DEF WritersTo
  <2>2. LocatedInv(e)
    BY <2>1 DEF IInv, LiveInv, Live, AtRest, HealthInv
  <2>3. buffer[e] = <<>> /\ Line(e) = <<>>
    BY <2>1 DEF AtRest, Line
  <2>4. \A v \in WritersTo(e) : writing[v] = <<>>
    BY <2>1, WritersToFacts DEF AtRest
  <2>5. Len(<<>>) = 0 /\ \A i \in 1 .. 0 : FALSE
    BY EmptySeq
  <2>6. \A part : ~FliesTo(e, part)
    BY <2>3, <2>4, <2>5 DEF FliesTo
  <2>7. \E i \in 1 .. Len(accepted[e]) :
            accepted[e][i] = [from |-> w, n |-> n]
    BY <2>1, <2>2, <2>6 DEF LocatedInv
  <2>8. DOMAIN accepted[e] = 1 .. Len(accepted[e])
    BY <2>1, SafeFacts DEF IInv
  <2> QED BY <2>7, <2>8 DEF IsAccepted
<1> QED BY <1>1, Always, PTL
=============================================================================
