------------------------- MODULE ClientWindowProofs -------------------------
(***************************************************************************)
(* Theorems about the client's window, for any table and any members, any  *)
(* number of users, texts, ids, changes and requests, in whatever order    *)
(* the worker and the main thread go on, and whatever the user does.       *)
(*                                                                         *)
(* Those about the two lists and the types come first.  Those about the    *)
(* table rest on what the blocks that have been sent and not been read     *)
(* will do to it, whether they are on the way or in the socket.            *)
(***************************************************************************)
EXTENDS ClientWindow, SequenceTheorems, FiniteSetTheorems,
        WellFoundedInduction, TLAPS

Unread == buffer \o network

\* The part of TypeOK about the server's table, the blocks and the rows.
TableTypeOK ==
    /\ lastId \in MessageIds
    /\ DOMAIN store \subseteq 1 .. lastId
    /\ network \in Seq(Blocks)
    /\ buffer \in Seq(Blocks)
    /\ m_messages \in Seq(MessageRows)

-----------------------------------------------------------------------------
\* The unread blocks.

UnreadGrows(block) ==
    /\ DOMAIN Unread' = 1 .. Len(Unread) + 1
    /\ \A i \in DOMAIN Unread : Unread'[i] = Unread[i]
    /\ Unread'[Len(Unread) + 1] = block

UnreadShrinks(block) ==
    /\ 1 \in DOMAIN Unread /\ Unread[1] = block
    /\ \A i \in DOMAIN Unread' :
           i + 1 \in DOMAIN Unread /\ Unread'[i] = Unread[i + 1]
    /\ \A i \in DOMAIN Unread :
           i > 1 => i - 1 \in DOMAIN Unread' /\ Unread'[i - 1] = Unread[i]

LEMMA UnreadType ==
    ASSUME TableTypeOK
    PROVE  /\ Unread \in Seq(Blocks)
           /\ Len(Unread) \in Nat
           /\ DOMAIN Unread = 1 .. Len(Unread)
           /\ \A i \in DOMAIN Unread : Unread[i] \in Blocks
<1>1. Unread \in Seq(Blocks)
  BY ConcatProperties DEF TableTypeOK, Unread
<1> QED BY <1>1, LenProperties, ElementOfSeq

LEMMA NetworkGrows ==
    ASSUME TableTypeOK, NEW block \in Blocks,
           network' = Append(network, block), UNCHANGED buffer
    PROVE  UnreadGrows(block) /\ network' \in Seq(Blocks)
<1>1. Unread' = Append(Unread, block) /\ network' \in Seq(Blocks)
  <2>1. Append(network, block) = network \o <<block>>
        /\ Append(Unread, block) = Unread \o <<block>>
        /\ network' \in Seq(Blocks)
    BY UnreadType, AppendIsConcat, AppendProperties DEF TableTypeOK
  <2>2. <<block>> \in Seq(Blocks)
    OBVIOUS
  <2>3. (buffer \o network) \o <<block>> = buffer \o (network \o <<block>>)
    <3>1. buffer \in Seq(Blocks) /\ network \in Seq(Blocks)
      BY DEF TableTypeOK
    <3> QED BY ONLY <2>2, <3>1, ConcatAssociative
  <2> QED BY <2>1, <2>3 DEF Unread
<1>2. /\ Unread' \in Seq(Blocks)
      /\ Len(Unread') = Len(Unread) + 1
      /\ \A i \in 1 .. Len(Unread) : Unread'[i] = Unread[i]
      /\ Unread'[Len(Unread) + 1] = block
  BY <1>1, UnreadType, AppendProperties
<1>3. DOMAIN Unread' = 1 .. Len(Unread) + 1
  BY <1>2, LenProperties
<1> QED BY <1>1, <1>2, <1>3, UnreadType DEF UnreadGrows

LEMMA ReadShrinks ==
    ASSUME TableTypeOK, ReadBlock
    PROVE  /\ UnreadShrinks(Head(buffer))
           /\ Head(buffer) \in Blocks
           /\ buffer' \in Seq(Blocks)
<1>1. buffer # <<>> /\ buffer' = Tail(buffer) /\ UNCHANGED network
  BY DEF ReadBlock
<1>2. /\ Head(buffer) \in Blocks
      /\ buffer' \in Seq(Blocks)
      /\ Len(buffer') = Len(buffer) - 1
      /\ \A i \in 1 .. Len(buffer') : buffer'[i] = buffer[i + 1]
      /\ Head(buffer) = buffer[1]
  BY <1>1, HeadTailProperties DEF TableTypeOK
<1> DEFINE b == Len(buffer)
           n == Len(network)
<1>3. b \in Nat \ {0} /\ n \in Nat
  BY <1>1, EmptySeq, LenProperties DEF TableTypeOK
<1>4. /\ Len(Unread) = b + n /\ DOMAIN Unread = 1 .. b + n
      /\ \A i \in 1 .. b + n :
             Unread[i] = IF i <= b THEN buffer[i] ELSE network[i - b]
  BY UnreadType, ConcatProperties DEF TableTypeOK, Unread
<1>5. /\ Unread' \in Seq(Blocks)
      /\ Len(Unread') = b - 1 + n
      /\ \A i \in 1 .. b - 1 + n :
             Unread'[i] = IF i <= b - 1 THEN buffer'[i]
                                        ELSE network[i - (b - 1)]
  BY <1>1, <1>2, ConcatProperties DEF TableTypeOK, Unread
<1>6. DOMAIN Unread' = 1 .. b - 1 + n
  BY <1>5, LenProperties
<1>7. ASSUME NEW i \in 1 .. b - 1 + n
      PROVE  i + 1 \in 1 .. b + n /\ Unread'[i] = Unread[i + 1]
  <2>1. i + 1 \in 1 .. b + n
    BY <1>3
  <2>2. CASE i <= b - 1
    BY <1>2, <1>3, <1>4, <1>5, <2>1, <2>2
  <2>3. CASE i > b - 1
    <3>1. Unread'[i] = network[i - (b - 1)]
      BY <1>3, <1>5, <2>3
    <3>2. Unread[i + 1] = network[(i + 1) - b]
      BY <1>3, <1>4, <2>1, <2>3
    <3>3. i - (b - 1) = (i + 1) - b
      BY <1>3
    <3> QED BY <2>1, <3>1, <3>2, <3>3
  <2> QED BY <1>3, <2>2, <2>3
<1>8. ASSUME NEW i \in 1 .. b + n, i > 1
      PROVE  i - 1 \in 1 .. b - 1 + n /\ Unread'[i - 1] = Unread[i]
  <2>1. i - 1 \in 1 .. b - 1 + n /\ (i - 1) + 1 = i
    BY <1>3, <1>8
  <2> QED BY <1>7, <2>1
<1>9. 1 \in 1 .. b + n /\ Unread[1] = Head(buffer)
  BY <1>2, <1>3, <1>4
<1> QED BY <1>2, <1>4, <1>6, <1>7, <1>8, <1>9 DEF UnreadShrinks

LEMMA ArrivalKeepsUnread ==
    ASSUME TableTypeOK, ReadyRead
    PROVE  /\ UNCHANGED Unread
           /\ network' \in Seq(Blocks)
           /\ buffer' \in Seq(Blocks)
<1>1. PICK arrived \in 1 .. Len(network) :
          /\ buffer' = buffer \o SubSeq(network, 1, arrived)
          /\ network' = SubSeq(network, arrived + 1, Len(network))
  BY DEF ReadyRead
<1>2. /\ network \in Seq(Blocks)
      /\ Len(network) \in Nat
      /\ \A i \in 1 .. Len(network) : network[i] \in Blocks
  BY LenProperties, ElementOfSeq DEF TableTypeOK
<1>3. /\ SubSeq(network, 1, arrived) \in Seq(Blocks)
      /\ SubSeq(network, arrived + 1, Len(network)) \in Seq(Blocks)
  <2>1. /\ \A i \in 1 .. arrived : network[i] \in Blocks
        /\ \A i \in arrived + 1 .. Len(network) : network[i] \in Blocks
    BY <1>2
  <2> QED BY <1>2, <2>1, SubSeqProperties
<1>4. SubSeq(network, 1, arrived) \o SubSeq(network, arrived + 1, Len(network))
          = network
  <2>1. SubSeq(network, 1, Len(network)) = network
    BY <1>2, SubSeqFull
  <2>2. /\ 1 \in 1 .. Len(network) + 1
        /\ arrived \in 1 - 1 .. Len(network)
        /\ Len(network) \in arrived .. Len(network)
    BY <1>2
  <2> QED BY <1>2, <2>1, <2>2, ConcatAdjacentSubSeq
<1>5. (buffer \o SubSeq(network, 1, arrived))
          \o SubSeq(network, arrived + 1, Len(network))
      = buffer \o network
  <2>1. PICK first \in Seq(Blocks), rest \in Seq(Blocks) :
            /\ first = SubSeq(network, 1, arrived)
            /\ rest = SubSeq(network, arrived + 1, Len(network))
    BY <1>3
  <2>2. buffer \in Seq(Blocks)
    BY DEF TableTypeOK
  <2>3. (buffer \o first) \o rest = buffer \o (first \o rest)
    BY <2>2, ConcatAssociative, SMTT(30)
  <2> QED BY <1>4, <2>1, <2>3
<1>6. buffer' \in Seq(Blocks)
  BY <1>1, <1>3, ConcatProperties DEF TableTypeOK
<1> QED BY <1>1, <1>3, <1>5, <1>6 DEF Unread

-----------------------------------------------------------------------------
\* Numbers.

\* A nonempty set of naturals has a least element.
LEMMA LeastNatural ==
    ASSUME NEW S, S \subseteq Nat, S # {}
    PROVE  \E x \in S : \A y \in S : x <= y
<1> DEFINE less == OpToRel(<, Nat)
<1>1. IsWellFoundedOn(less, Nat)
  BY NatLessThanWellFounded
<1>2. \E x \in S : \A y \in S : ~(<<y, x>> \in less)
  <2> HIDE DEF less
  <2> QED BY <1>1, WFMin
<1>3. PICK x \in S : \A y \in S : ~(<<y, x>> \in less)
  BY <1>2
<1>4. \A y \in S : ~(y < x)
  BY <1>3 DEF OpToRel
<1>5. \A y \in S : x <= y
  BY <1>4
<1> QED BY <1>5

\* A nonempty bounded set of naturals has a greatest element, and Max is it.
LEMMA GreatestNatural ==
    ASSUME NEW n \in Nat, NEW S, S \subseteq 1 .. n, S # {}
    PROVE  Max(S) \in S /\ \A y \in S : Max(S) >= y
<1> DEFINE T == {n - y : y \in S}
<1>1. T \subseteq Nat
  <2> SUFFICES ASSUME NEW y \in S PROVE n - y \in Nat
    OBVIOUS
  <2> QED OBVIOUS
<1>2. T # {}
  <2> PICK y \in S : TRUE
    OBVIOUS
  <2>1. n - y \in T
    OBVIOUS
  <2> QED BY <2>1
<1>3. PICK t \in T : \A y \in T : t <= y
  <2> HIDE DEF T
  <2> QED BY <1>1, <1>2, LeastNatural
<1>4. PICK x \in S : t = n - x
  BY <1>3
<1>5. \A y \in S : x >= y
  <2> SUFFICES ASSUME NEW y \in S PROVE x >= y
    OBVIOUS
  <2>1. n - x <= n - y
    BY <1>3, <1>4
  <2> QED BY <2>1
<1> QED BY <1>5 DEF Max
\* RemoveAt leaves out one element; those after it move up by one place.
LEMMA RemovedAt ==
    ASSUME NEW S, NEW s \in Seq(S), NEW k \in 1 .. Len(s)
    PROVE  /\ RemoveAt(s, k) \in Seq(S)
           /\ Len(RemoveAt(s, k)) = Len(s) - 1
           /\ \A r \in 1 .. Len(s) - 1 :
                  \/ r < k /\ RemoveAt(s, k)[r] = s[r]
                  \/ r >= k /\ RemoveAt(s, k)[r] = s[r + 1]
<1> DEFINE n == Len(s)
           head == SubSeq(s, 1, k - 1)
           tail == SubSeq(s, k + 1, n)
<1>1. n \in Nat /\ k \in 1 .. n /\ \A r \in 1 .. n : s[r] \in S
  BY LenProperties, ElementOfSeq
<1>4. /\ head \in Seq(S) /\ Len(head) = k - 1
      /\ \A r \in 1 .. k - 1 : head[r] = s[r]
  <2>1. /\ \A r \in 1 .. k - 1 : s[r] \in S
        /\ 1 \in Int /\ k - 1 \in Int /\ (k - 1) - 1 + 1 = k - 1
        /\ \A r \in 1 .. k - 1 : 1 + r - 1 = r
        /\ IF 1 <= k - 1 THEN TRUE ELSE k - 1 = 0
    BY <1>1
  <2> QED BY <2>1, SubSeqProperties
<1>5. /\ tail \in Seq(S) /\ Len(tail) = n - k
      /\ \A r \in 1 .. n - k : tail[r] = s[r + k]
  <2> DEFINE first == k + 1
  <2>1. /\ \A r \in first .. n : s[r] \in S
        /\ first \in Int /\ n \in Int /\ n - first + 1 = n - k
        /\ \A r \in 1 .. n - k : first + r - 1 = r + k
        /\ first <= n \/ n - k = 0
    BY <1>1
  <2> HIDE DEF n, first
  <2>2. /\ SubSeq(s, first, n) \in Seq(S)
        /\ Len(SubSeq(s, first, n)) = IF first <= n THEN n - first + 1 ELSE 0
        /\ \A r \in 1 .. n - first + 1 :
               SubSeq(s, first, n)[r] = s[first + r - 1]
    BY <2>1, SubSeqProperties
  <2>3. tail = SubSeq(s, first, n)
    BY DEF first, n
  <2> QED BY <2>1, <2>2, <2>3
<1>6. RemoveAt(s, k) = head \o tail
  BY DEF RemoveAt
<1> HIDE DEF head, tail
<1>7. /\ head \o tail \in Seq(S)
      /\ Len(head \o tail) = n - 1
      /\ \A r \in 1 .. n - 1 :
             (head \o tail)[r] = IF r <= k - 1 THEN head[r]
                                              ELSE tail[r - (k - 1)]
  <2>1. /\ head \o tail \in Seq(S)
        /\ Len(head \o tail) = Len(head) + Len(tail)
        /\ \A r \in 1 .. Len(head) + Len(tail) :
               (head \o tail)[r] = IF r <= Len(head) THEN head[r]
                                                    ELSE tail[r - Len(head)]
    BY <1>4, <1>5, ConcatProperties
  <2>2. Len(head) + Len(tail) = n - 1
    BY <1>1, <1>4, <1>5
  <2> QED BY <1>4, <2>1, <2>2
<1>9. ASSUME NEW r \in 1 .. n - 1
      PROVE  \/ r < k /\ (head \o tail)[r] = s[r]
             \/ r >= k /\ (head \o tail)[r] = s[r + 1]
  <2>1. CASE r <= k - 1
    <3>1. r \in 1 .. k - 1 /\ r < k
      BY <1>1, <2>1
    <3> QED BY <1>4, <1>7, <2>1, <3>1
  <2>2. CASE ~(r <= k - 1)
    <3>1. /\ r - (k - 1) \in 1 .. n - k
          /\ r - (k - 1) + k = r + 1
          /\ r >= k
      BY <1>1, <2>2
    <3> QED BY <1>5, <1>7, <2>2, <3>1
  <2> QED BY <2>1, <2>2
<1> QED BY <1>6, <1>7, <1>9


-----------------------------------------------------------------------------
\* The names of the members with a role.

\* The recursive function of NamesOf: the names among the first 0 .. k rows.
Named(rows, role, k, f) ==
    f = [n \in 0 .. k |->
            IF n = 0 THEN <<>>
            ELSE IF rows[n].role = role THEN Append(f[n - 1], rows[n].name)
                                        ELSE f[n - 1]]

LEMMA NamedExists ==
    ASSUME NEW rows, NEW role, NEW k \in Nat
    PROVE  \E f : Named(rows, role, k, f)
<1> DEFINE S == {n \in Nat : ~ \E f : Named(rows, role, n, f)}
<1> SUFFICES ASSUME S # {} PROVE FALSE
  OBVIOUS
<1>1. PICK m \in S : \A n \in S : m <= n
  <2>1. S \subseteq Nat
    OBVIOUS
  <2> HIDE DEF S
  <2> QED BY <2>1, LeastNatural
<1>2. m # 0
  <2>1. Named(rows, role, 0, [n \in 0 .. 0 |-> <<>>])
    BY DEF Named
  <2> QED BY <1>1, <2>1
<1>3. m \in Nat /\ m - 1 \in Nat /\ m - 1 \notin S
  <2>1. m \in Nat
    BY <1>1
  <2> QED BY <1>1, <1>2, <2>1
<1>4. PICK f : Named(rows, role, m - 1, f)
  BY <1>3
<1> DEFINE More(before, n) == IF rows[n].role = role
                                 THEN Append(before, rows[n].name)
                                 ELSE before
           g == [n \in 0 .. m |->
                    IF n < m THEN f[n] ELSE More(f[m - 1], m)]
<1>5. Named(rows, role, m, g)
  <2>1. \A n \in 0 .. m - 1 :
            f[n] = IF n = 0 THEN <<>> ELSE More(f[n - 1], n)
    BY <1>4 DEF Named
  <2> HIDE DEF More
  <2>2. ASSUME NEW n \in 0 .. m
        PROVE  g[n] = IF n = 0 THEN <<>> ELSE More(g[n - 1], n)
    <3>1. CASE n = 0
      BY <1>2, <1>3, <2>1, <3>1
    <3>2. CASE n # 0
      <4>1. n - 1 \in 0 .. m /\ n - 1 < m
        BY <1>3, <3>2
      <4>2. g[n - 1] = f[n - 1]
        BY <4>1
      <4>3. CASE n < m
        <5>1. n \in 0 .. m - 1
          BY <1>3, <4>3
        <5>2. g[n] = f[n]
          BY <4>3
        <5> QED BY <2>1, <3>2, <4>2, <5>1, <5>2
      <4>4. CASE n = m
        BY <3>2, <4>2, <4>4
      <4> QED BY <1>3, <4>3, <4>4
    <3> QED BY <3>1, <3>2
  <2>3. g = [n \in 0 .. m |-> IF n = 0 THEN <<>> ELSE More(g[n - 1], n)]
    BY <2>2
  <2> HIDE DEF g
  <2> QED BY <2>3 DEF Named, More
<1> QED BY <1>1, <1>5

\* names are the numbers of the first k rows that have the role, each once.
NamesUpTo(names, rows, role, k) ==
    /\ names \in Seq(1 .. k)
    /\ \A j \in DOMAIN names : rows[names[j]].role = role
    /\ \A i, j \in DOMAIN names : names[i] = names[j] => i = j
    /\ \A n \in 1 .. k :
           rows[n].role = role => \E j \in DOMAIN names : names[j] = n

LEMMA NamesNext ==
    ASSUME NEW rows, NEW role, NEW k \in Nat, NEW names,
           NamesUpTo(names, rows, role, k), rows[k + 1].name = k + 1
    PROVE  NamesUpTo(IF rows[k + 1].role = role
                        THEN Append(names, rows[k + 1].name) ELSE names,
                     rows, role, k + 1)
<1>1. /\ names \in Seq(1 .. k)
      /\ Len(names) \in Nat
      /\ DOMAIN names = 1 .. Len(names)
      /\ \A j \in DOMAIN names : names[j] \in 1 .. k
  BY LenProperties, ElementOfSeq DEF NamesUpTo
<1>2. /\ \A n \in 1 .. k + 1 : n \in 1 .. k \/ n = k + 1
      /\ \A n \in 1 .. k : n \in 1 .. k + 1 /\ n # k + 1
      /\ k + 1 \in 1 .. k + 1
  OBVIOUS
<1>3. names \in Seq(1 .. k + 1)
  BY <1>1, <1>2
<1>4. CASE rows[k + 1].role # role
  <2>1. NamesUpTo(names, rows, role, k + 1)
    BY <1>2, <1>3, <1>4 DEF NamesUpTo
  <2> QED BY <1>4, <2>1
<1>5. CASE rows[k + 1].role = role
  <2> DEFINE more == Append(names, k + 1)
             l == Len(names)
  <2>1. /\ more \in Seq(1 .. k + 1)
        /\ Len(more) = l + 1
        /\ \A j \in 1 .. l : more[j] = names[j]
        /\ more[l + 1] = k + 1
    BY <1>2, <1>3, AppendProperties
  <2>2. /\ DOMAIN more = 1 .. l + 1
        /\ \A j \in 1 .. l + 1 : j \in 1 .. l \/ j = l + 1
        /\ \A j \in 1 .. l : j \in 1 .. l + 1
        /\ l + 1 \in 1 .. l + 1
    <3>1. DOMAIN more = 1 .. Len(more)
      BY <2>1, LenProperties
    <3> HIDE DEF more, l
    <3>2. l \in Nat
      BY <1>1 DEF l
    <3> QED BY <2>1, <3>1, <3>2
  <2> HIDE DEF more, l
  <2>0. /\ \A j \in 1 .. l : rows[names[j]].role = role
        /\ DOMAIN names = 1 .. l
    BY <1>1 DEF NamesUpTo, l
  <2>3. \A j \in 1 .. l + 1 : rows[more[j]].role = role
    BY <1>5, <2>0, <2>1, <2>2
  <2>4. \A i, j \in 1 .. l + 1 : more[i] = more[j] => i = j
    BY <1>1, <1>2, <2>1, <2>2 DEF NamesUpTo, l
  <2>5. \A n \in 1 .. k + 1 : rows[n].role = role =>
            \E j \in 1 .. l + 1 : more[j] = n
    BY <1>1, <1>2, <2>1, <2>2 DEF NamesUpTo, l
  <2>6. NamesUpTo(more, rows, role, k + 1)
    BY <2>1, <2>2, <2>3, <2>4, <2>5 DEF NamesUpTo
  <2> QED BY <1>5, <2>6 DEF more
<1> QED BY <1>4, <1>5

\* The two lists start with the members of their role, each once.
LEMMA NamesOfMembers ==
    ASSUME NEW role
    PROVE  NamesUpTo(NamesOf(Members, role), Members, role, Len(Members))
<1> DEFINE k == Len(Members)
           f == CHOOSE f : Named(Members, role, k, f)
<1>1. /\ k \in Nat
      /\ DOMAIN Members = 1 .. k
      /\ \A i \in 1 .. k : Members[i].name = i
  BY MembersAssumption, LenProperties
<1>2. Named(Members, role, k, f)
  BY <1>1, NamedExists
<1>3. NamesOf(Members, role) = f[k]
  BY DEF NamesOf, Named
<1> HIDE DEF f
<1>4. \A n \in 0 .. k :
          f[n] = IF n = 0 THEN <<>>
                 ELSE IF Members[n].role = role
                         THEN Append(f[n - 1], Members[n].name)
                         ELSE f[n - 1]
  BY <1>2 DEF Named
<1> DEFINE S == {n \in 0 .. k : ~NamesUpTo(f[n], Members, role, n)}
<1>5. S = {}
  <2> SUFFICES ASSUME S # {} PROVE FALSE
    OBVIOUS
  <2>1. PICK m \in S : \A n \in S : m <= n
    <3>1. S \subseteq Nat
      OBVIOUS
    <3> HIDE DEF S
    <3> QED BY <3>1, LeastNatural
  <2>2. m \in 0 .. k /\ ~NamesUpTo(f[m], Members, role, m)
    BY <2>1
  <2>3. m # 0
    <3>1. NamesUpTo(<<>>, Members, role, 0)
      BY DEF NamesUpTo
    <3>2. 0 \in 0 .. k
      BY <1>1
    <3> QED BY <1>4, <2>2, <3>1, <3>2
  <2>4. m - 1 \in 0 .. k /\ m - 1 \in Nat /\ (m - 1) + 1 = m /\ m \in 1 .. k
    <3> HIDE DEF k
    <3> QED BY <1>1, <2>2, <2>3
  <2>5. m - 1 \notin S
    <3> HIDE DEF S
    <3> QED BY <2>1, <2>4
  <2>6. NamesUpTo(f[m - 1], Members, role, m - 1)
    BY <2>4, <2>5
  <2> HIDE DEF S, k
  <2>7. NamesUpTo(IF Members[(m - 1) + 1].role = role
                     THEN Append(f[m - 1], Members[(m - 1) + 1].name)
                     ELSE f[m - 1],
                  Members, role, (m - 1) + 1)
    BY <1>1, <2>4, <2>6, NamesNext
  <2>8. f[m] = IF Members[m].role = role
                  THEN Append(f[m - 1], Members[m].name) ELSE f[m - 1]
    BY <1>4, <2>2, <2>3
  <2> QED BY <2>2, <2>4, <2>7, <2>8
<1>6. k \in 0 .. k
  BY <1>1
<1> QED BY <1>3, <1>5, <1>6

-----------------------------------------------------------------------------
\* The two lists and the requests.

RoleCodes == {"SET_NEW_MODERATOR", "DELETE_MODERATOR"}
RoleOf(request) == IF request.ind = "SET_NEW_MODERATOR" THEN "m" ELSE "u"
Concerns(request, name) == request.ind \in RoleCodes /\ request.who = name

\* One more request changes the role asked for the one it is about.
LEMMA RoleAskedNext ==
    ASSUME requests \in Seq(Requests), NEW request \in Requests,
           requests' = Append(requests, request), NEW member
    PROVE  RoleAsked(member)' = IF Concerns(request, member.name)
                                   THEN RoleOf(request) ELSE RoleAsked(member)
<1> DEFINE k == Len(requests)
           about(queue) == {i \in DOMAIN queue :
                                /\ queue[i].ind \in {"SET_NEW_MODERATOR",
                                                     "DELETE_MODERATOR"}
                                /\ queue[i].who = member.name}
<1>1. /\ k \in Nat /\ DOMAIN requests = 1 .. k
      /\ DOMAIN requests' = 1 .. k + 1
      /\ \A i \in 1 .. k : requests'[i] = requests[i]
      /\ requests'[k + 1] = request
  <2>1. requests' \in Seq(Requests) /\ Len(requests') = k + 1
        /\ \A i \in 1 .. k : requests'[i] = requests[i]
        /\ requests'[k + 1] = request
    BY AppendProperties
  <2> QED BY <2>1, LenProperties
<1>2. /\ RoleAsked(member) =
             IF about(requests) = {} THEN member.role
             ELSE RoleOf(requests[Max(about(requests))])
      /\ RoleAsked(member)' =
             IF about(requests') = {} THEN member.role
             ELSE RoleOf(requests'[Max(about(requests'))])
  BY DEF RoleAsked, RoleOf
<1> HIDE DEF k
<1>3. /\ \A i \in 1 .. k + 1 : i \in 1 .. k \/ i = k + 1
      /\ \A i \in 1 .. k : i \in 1 .. k + 1 /\ i # k + 1 /\ ~(i >= k + 1)
      /\ k + 1 \in 1 .. k + 1 /\ k + 1 \in Nat
  BY <1>1
<1>4. CASE Concerns(request, member.name)
  <2>1. k + 1 \in about(requests') /\ about(requests') \subseteq 1 .. k + 1
    BY <1>1, <1>3, <1>4 DEF Concerns, RoleCodes
  <2>2. /\ Max(about(requests')) \in about(requests')
        /\ \A y \in about(requests') : Max(about(requests')) >= y
    <3> HIDE DEF about
    <3> QED BY <1>3, <2>1, GreatestNatural
  <2>3. Max(about(requests')) = k + 1
    <3> HIDE DEF about
    <3> QED BY <1>3, <2>1, <2>2
  <2> QED BY <1>1, <1>2, <1>4, <2>1, <2>3
<1>5. CASE ~Concerns(request, member.name)
  <2>1. about(requests') = about(requests)
    BY <1>1, <1>3, <1>5 DEF Concerns, RoleCodes
  <2>2. about(requests) \subseteq 1 .. k
    BY <1>1
  <2>3. about(requests) # {} => Max(about(requests)) \in 1 .. k
    <3> HIDE DEF about
    <3> QED BY <1>1, <2>2, GreatestNatural
  <2> QED BY <1>1, <1>2, <1>5, <2>1, <2>3
<1> QED BY <1>4, <1>5

\* What a slot has yet to write is one block, for every session.
OneOutgoing ==
    outgoing # <<>> => \E block \in Broadcasts : outgoing = <<block>>

\* The list of the members is sent once, and read before anyone is moved.
MembersDue ==
    /\ \A i \in DOMAIN Unread :
           Unread[i].ind = "USER_MODERATOR_LIST" =>
               /\ Unread[i].rows = Members
               /\ stage = "serving"
               /\ m_userList = <<>>
               /\ m_moderatorList = <<>>
    /\ \A i, j \in DOMAIN Unread :
           /\ Unread[i].ind = "USER_MODERATOR_LIST"
           /\ Unread[j].ind = "USER_MODERATOR_LIST"
           => i = j
    /\ stage # "serving" => m_userList = <<>> /\ m_moderatorList = <<>>

\* A name is in one place of one list.
Distinct(list, other) ==
    /\ \A i, j \in DOMAIN list : list[i] = list[j] => i = j
    /\ \A i, j \in DOMAIN other : other[i] = other[j] => i = j
    /\ \A i \in DOMAIN list, j \in DOMAIN other : list[i] # other[j]

On(name, list) == \E i \in DOMAIN list : list[i] = name

\* A member is on the list of the role that was asked last for it.
ListsPlaced ==
    /\ Distinct(m_userList, m_moderatorList)
    /\ IF m_userList = <<>> /\ m_moderatorList = <<>>
          THEN \A i \in DOMAIN requests : requests[i].ind \notin RoleCodes
          ELSE \A n \in DOMAIN Members :
                   /\ RoleAsked(Members[n]) = "u" <=> On(n, m_userList)
                   /\ RoleAsked(Members[n]) = "m" <=> On(n, m_moderatorList)

\* The part of TypeOK that TableTypeOK and RowMapAgrees leave.
\* The parts of TypeOK about the server and about the two lists.
ServerTypeOK ==
    /\ DOMAIN store \subseteq 1 .. lastId
    /\ store \in [DOMAIN store -> [name : Users, text : Texts]]
    /\ lastId \in MessageIds
    /\ published \in 0 .. MaxPublished
    /\ membership \in {"queued", "in", "out"}
    /\ stage \in {"reading", "read", "sent", "serving"}
    /\ fetched \in Seq(MessageRows)
    /\ outgoing \in Seq(Blocks)
    /\ astray \in BOOLEAN

ListTypeOK ==
    /\ m_userList \in Seq(Users)
    /\ m_moderatorList \in Seq(Users)
    /\ requests \in Seq(Requests)

\* Moving a name from one list to the other leaves it in one place.
LEMMA MovedName ==
    ASSUME NEW from \in Seq(Users), NEW to \in Seq(Users),
           Distinct(from, to), NEW row \in DOMAIN from
    PROVE  /\ Append(to, from[row]) \in Seq(Users)
           /\ RemoveAt(from, row) \in Seq(Users)
           /\ Append(to, from[row]) # <<>>
           /\ Distinct(RemoveAt(from, row), Append(to, from[row]))
           /\ \A n : On(n, RemoveAt(from, row)) <=>
                         On(n, from) /\ n # from[row]
           /\ \A n : On(n, Append(to, from[row])) <=>
                         On(n, to) \/ n = from[row]
<1> DEFINE k == Len(from)
           l == Len(to)
           less == RemoveAt(from, row)
           more == Append(to, from[row])
<1>1. /\ k \in Nat /\ l \in Nat
      /\ DOMAIN from = 1 .. k /\ DOMAIN to = 1 .. l
      /\ from[row] \in Users
  BY LenProperties, ElementOfSeq
<1>2. /\ less \in Seq(Users)
      /\ Len(less) = k - 1
      /\ \A r \in 1 .. k - 1 : \/ r < row /\ less[r] = from[r]
                               \/ r >= row /\ less[r] = from[r + 1]
  BY <1>1, RemovedAt
<1>3. /\ more \in Seq(Users)
      /\ Len(more) = l + 1
      /\ \A j \in 1 .. l : more[j] = to[j]
      /\ more[l + 1] = from[row]
  BY <1>1, AppendProperties
<1>4. DOMAIN less = 1 .. k - 1 /\ DOMAIN more = 1 .. l + 1
  BY <1>2, <1>3, LenProperties
<1> HIDE DEF less, more, k, l
<1>5. /\ \A r \in 1 .. k - 1 : r \in 1 .. k /\ r + 1 \in 1 .. k
      /\ \A r \in 1 .. k : /\ r < row => r \in 1 .. k - 1
                           /\ r > row => r - 1 \in 1 .. k - 1
                           /\ r < row \/ r > row \/ r = row
      /\ row \in 1 .. k
  BY <1>1
<1>6. ASSUME NEW r \in 1 .. k - 1
      PROVE  \E q \in 1 .. k : /\ q # row
                               /\ less[r] = from[q]
                               /\ q = IF r < row THEN r ELSE r + 1
  BY <1>1, <1>2, <1>5
<1>7. ASSUME NEW q \in 1 .. k, q # row
      PROVE  \E r \in 1 .. k - 1 : less[r] = from[q]
  <2>1. CASE q < row
    BY <1>1, <1>2, <1>5, <2>1
  <2>2. CASE q > row
    <3>1. q - 1 \in 1 .. k - 1 /\ ~(q - 1 < row) /\ (q - 1) + 1 = q
      BY <1>1, <1>5, <2>2
    <3> QED BY <1>2, <3>1
  <2> QED BY <1>5, <1>7, <2>1, <2>2
<1>8. /\ \A j \in 1 .. l + 1 : j \in 1 .. l \/ j = l + 1
      /\ \A j \in 1 .. l : j \in 1 .. l + 1
      /\ l + 1 \in 1 .. l + 1
  BY <1>1
<1>9. /\ \A i, j \in 1 .. k : from[i] = from[j] => i = j
      /\ \A i, j \in 1 .. l : to[i] = to[j] => i = j
      /\ \A i \in 1 .. k, j \in 1 .. l : from[i] # to[j]
  BY <1>1 DEF Distinct
<1>10. ASSUME NEW i \in 1 .. k - 1, NEW j \in 1 .. k - 1, less[i] = less[j]
       PROVE  i = j
  <2>1. (IF i < row THEN i ELSE i + 1) = (IF j < row THEN j ELSE j + 1)
    BY <1>6, <1>9, <1>10
  <2> QED BY <1>1, <1>5, <2>1
<1>11. \A i, j \in 1 .. l + 1 : more[i] = more[j] => i = j
  BY <1>3, <1>5, <1>8, <1>9
<1>12. \A i \in 1 .. k - 1, j \in 1 .. l + 1 : less[i] # more[j]
  BY <1>3, <1>5, <1>6, <1>8, <1>9
<1>13. Distinct(less, more)
  BY <1>4, <1>10, <1>11, <1>12 DEF Distinct
<1>14. \A n : On(n, less) <=> On(n, from) /\ n # from[row]
  <2>1. ASSUME NEW n, On(n, less)
        PROVE  On(n, from) /\ n # from[row]
    BY <1>1, <1>4, <1>5, <1>6, <1>9, <2>1, SMTT(30) DEF On
  <2>2. ASSUME NEW n, On(n, from), n # from[row]
        PROVE  On(n, less)
    BY <1>1, <1>4, <1>7, <2>2 DEF On
  <2> QED BY <2>1, <2>2
<1>15. \A n : On(n, more) <=> On(n, to) \/ n = from[row]
  BY <1>1, <1>3, <1>4, <1>8 DEF On
<1>16. more # <<>>
  BY <1>1, <1>3
<1> QED BY <1>2, <1>3, <1>13, <1>14, <1>15, <1>16 DEF less, more

LEMMA SameLists ==
    ASSUME ListsPlaced, UNCHANGED <<m_userList, m_moderatorList, requests>>
    PROVE  ListsPlaced'
<1>1. \A member : RoleAsked(member)' = RoleAsked(member)
  BY DEF RoleAsked
<1> QED BY <1>1 DEF ListsPlaced, Distinct, On

LEMMA OtherRequest ==
    ASSUME ListsPlaced, ListTypeOK, NEW request \in Requests,
           request.ind \notin RoleCodes,
           requests' = Append(requests, request),
           UNCHANGED <<m_userList, m_moderatorList>>
    PROVE  ListsPlaced' /\ requests' \in Seq(Requests)
<1>1. /\ requests \in Seq(Requests)
      /\ requests' \in Seq(Requests)
      /\ Len(requests') = Len(requests) + 1
      /\ \A i \in 1 .. Len(requests) : requests'[i] = requests[i]
      /\ requests'[Len(requests) + 1] = request
  BY AppendProperties DEF ListTypeOK
<1>2. /\ DOMAIN requests = 1 .. Len(requests)
      /\ DOMAIN requests' = 1 .. Len(requests')
      /\ Len(requests) \in Nat
  BY <1>1, LenProperties
<1>3. \A i \in DOMAIN requests' :
          \/ i \in DOMAIN requests /\ requests'[i] = requests[i]
          \/ requests'[i] = request
  BY <1>1, <1>2
<1>4. \A member : RoleAsked(member)' = RoleAsked(member)
  BY <1>1, RoleAskedNext DEF Concerns
<1> QED BY <1>1, <1>3, <1>4 DEF ListsPlaced, Distinct, On

\* A member that is moved is asked for, and then has, the other role.
LEMMA MoveKeepsLists ==
    ASSUME ListsPlaced, ListTypeOK,
           \/ addModeratorRequest
           \/ deleteModeratorRequest
    PROVE  /\ ListsPlaced'
           /\ m_userList' \in Seq(Users)
           /\ m_moderatorList' \in Seq(Users)
           /\ requests' \in Seq(Requests)
<1>1. /\ m_userList \in Seq(Users)
      /\ m_moderatorList \in Seq(Users)
      /\ requests \in Seq(Requests)
      /\ \A i \in DOMAIN m_userList : m_userList[i] \in Users
      /\ \A i \in DOMAIN m_moderatorList : m_moderatorList[i] \in Users
      /\ Distinct(m_userList, m_moderatorList)
      /\ Distinct(m_moderatorList, m_userList)
  BY LenProperties, ElementOfSeq DEF ListTypeOK, ListsPlaced, Distinct
<1>2. \A n \in DOMAIN Members : Members[n].name = n
  BY MembersAssumption
<1>3. CASE addModeratorRequest
  <2>1. PICK row \in DOMAIN m_userList :
            MoveItem("SET_NEW_MODERATOR", m_userList, m_moderatorList, row)
    BY <1>3 DEF addModeratorRequest
  <2> DEFINE name == m_userList[row]
             request == [ind |-> "SET_NEW_MODERATOR", who |-> name]
  <2>2. /\ requests' = Append(requests, request)
        /\ m_moderatorList' = Append(m_moderatorList, name)
        /\ m_userList' = RemoveAt(m_userList, row)
    BY <2>1 DEF MoveItem, Request
  <2>3. /\ request \in Requests
        /\ RoleOf(request) = "m"
        /\ \A n : Concerns(request, n) <=> n = name
    BY <1>1 DEF Requests, RoleOf, Concerns, RoleCodes
  <2> HIDE DEF request
  <2>4. requests' \in Seq(Requests)
    BY <1>1, <2>2, <2>3, AppendProperties
  <2>5. \A n \in DOMAIN Members :
            RoleAsked(Members[n])' = IF n = name THEN "m"
                                                 ELSE RoleAsked(Members[n])
    <3>1. \A member : RoleAsked(member)' =
              IF member.name = name THEN "m" ELSE RoleAsked(member)
      BY <1>1, <2>2, <2>3, RoleAskedNext
    <3> QED BY <1>2, <3>1
  <2>6. /\ m_moderatorList' \in Seq(Users)
        /\ m_userList' \in Seq(Users)
        /\ m_moderatorList' # <<>>
        /\ Distinct(m_userList, m_moderatorList)'
        /\ \A n : On(n, m_userList)' <=> On(n, m_userList) /\ n # name
        /\ \A n : On(n, m_moderatorList)' <=>
                      On(n, m_moderatorList) \/ n = name
    <3> DEFINE less == RemoveAt(m_userList, row)
               more == Append(m_moderatorList, name)
    <3>1. /\ more \in Seq(Users) /\ less \in Seq(Users) /\ more # <<>>
          /\ Distinct(less, more)
          /\ \A n : On(n, less) <=> On(n, m_userList) /\ n # name
          /\ \A n : On(n, more) <=> On(n, m_moderatorList) \/ n = name
      BY <1>1, <2>1, MovedName
    <3>2. m_userList' = less /\ m_moderatorList' = more
      BY <2>2
    <3> HIDE DEF less, more, name
    <3> QED BY <3>1, <3>2 DEF Distinct, On
  <2>7. m_userList # <<>>
    BY <2>1, <1>1
  <2>8. ListsPlaced'
    BY <2>5, <2>6, <2>7 DEF ListsPlaced
  <2> QED BY <2>4, <2>6, <2>8
<1>4. CASE deleteModeratorRequest
  <2>1. PICK row \in DOMAIN m_moderatorList :
            MoveItem("DELETE_MODERATOR", m_moderatorList, m_userList, row)
    BY <1>4 DEF deleteModeratorRequest
  <2> DEFINE name == m_moderatorList[row]
             request == [ind |-> "DELETE_MODERATOR", who |-> name]
  <2>2. /\ requests' = Append(requests, request)
        /\ m_userList' = Append(m_userList, name)
        /\ m_moderatorList' = RemoveAt(m_moderatorList, row)
    BY <2>1 DEF MoveItem, Request
  <2>3. /\ request \in Requests
        /\ RoleOf(request) = "u"
        /\ \A n : Concerns(request, n) <=> n = name
    BY <1>1 DEF Requests, RoleOf, Concerns, RoleCodes
  <2> HIDE DEF request
  <2>4. requests' \in Seq(Requests)
    BY <1>1, <2>2, <2>3, AppendProperties
  <2>5. \A n \in DOMAIN Members :
            RoleAsked(Members[n])' = IF n = name THEN "u"
                                                 ELSE RoleAsked(Members[n])
    <3>1. \A member : RoleAsked(member)' =
              IF member.name = name THEN "u" ELSE RoleAsked(member)
      BY <1>1, <2>2, <2>3, RoleAskedNext
    <3> QED BY <1>2, <3>1
  <2>6. /\ m_moderatorList' \in Seq(Users)
        /\ m_userList' \in Seq(Users)
        /\ m_userList' # <<>>
        /\ Distinct(m_userList, m_moderatorList)'
        /\ \A n : On(n, m_moderatorList)' <=>
                      On(n, m_moderatorList) /\ n # name
        /\ \A n : On(n, m_userList)' <=> On(n, m_userList) \/ n = name
    <3> DEFINE less == RemoveAt(m_moderatorList, row)
               more == Append(m_userList, name)
    <3>1. /\ more \in Seq(Users) /\ less \in Seq(Users) /\ more # <<>>
          /\ Distinct(less, more)
          /\ \A n : On(n, less) <=> On(n, m_moderatorList) /\ n # name
          /\ \A n : On(n, more) <=> On(n, m_userList) \/ n = name
      BY <1>1, <2>1, MovedName
    <3>2. m_moderatorList' = less /\ m_userList' = more
      BY <2>2
    <3> HIDE DEF less, more, name
    <3> QED BY <3>1, <3>2 DEF Distinct, On
  <2>7. m_moderatorList # <<>>
    BY <2>1, <1>1
  <2>8. ListsPlaced'
    BY <2>5, <2>6, <2>7 DEF ListsPlaced
  <2> QED BY <2>4, <2>6, <2>8
<1> QED BY <1>3, <1>4

\* The list of the members fills both lists.
LEMMA MembersRead ==
    ASSUME ListsPlaced, ListTypeOK, m_userList = <<>>, m_moderatorList = <<>>,
           m_userList' = m_userList \o NamesOf(Members, "u"),
           m_moderatorList' = m_moderatorList \o NamesOf(Members, "m"),
           UNCHANGED requests
    PROVE  /\ ListsPlaced'
           /\ m_userList' \in Seq(Users)
           /\ m_moderatorList' \in Seq(Users)
<1> DEFINE k == Len(Members)
<1>1. /\ k \in Nat /\ DOMAIN Members = 1 .. k
      /\ \A n \in 1 .. k : n \in Users /\ Members[n].role \in Roles
    <2>1. \A n \in DOMAIN Members : Members[n] \in UserRows
      BY MembersAssumption, ElementOfSeq, LenProperties
    <2> QED BY <2>1, MembersAssumption, LenProperties DEF UserRows
<1>2. /\ NamesUpTo(NamesOf(Members, "u"), Members, "u", k)
      /\ NamesUpTo(NamesOf(Members, "m"), Members, "m", k)
  BY NamesOfMembers
<1>3. /\ m_userList' = NamesOf(Members, "u")
      /\ m_moderatorList' = NamesOf(Members, "m")
  BY <1>2, ConcatEmptySeq DEF NamesUpTo
<1> HIDE DEF k
<1>4. /\ m_userList' \in Seq(1 .. k)
      /\ m_moderatorList' \in Seq(1 .. k)
      /\ \A i \in DOMAIN m_userList' : /\ m_userList'[i] \in 1 .. k
                                       /\ Members[m_userList'[i]].role = "u"
      /\ \A i \in DOMAIN m_moderatorList' :
             /\ m_moderatorList'[i] \in 1 .. k
             /\ Members[m_moderatorList'[i]].role = "m"
  <2>1. m_userList' \in Seq(1 .. k) /\ m_moderatorList' \in Seq(1 .. k)
    BY <1>2, <1>3 DEF NamesUpTo
  <2>2. \A list \in Seq(1 .. k) : \A i \in DOMAIN list : list[i] \in 1 .. k
    BY LenProperties, ElementOfSeq
  <2> QED BY <1>2, <1>3, <2>1, <2>2 DEF NamesUpTo
<1>5. m_userList' \in Seq(Users) /\ m_moderatorList' \in Seq(Users)
  BY <1>1, <1>4
<1>6. Distinct(m_userList, m_moderatorList)'
  BY <1>2, <1>3, <1>4 DEF Distinct, NamesUpTo
<1>7. \A n \in 1 .. k : /\ Members[n].role = "u" <=> On(n, m_userList)'
                        /\ Members[n].role = "m" <=> On(n, m_moderatorList)'
  BY <1>2, <1>3, <1>4 DEF On, NamesUpTo
<1>8. \A i \in DOMAIN requests : requests[i].ind \notin RoleCodes
  BY DEF ListsPlaced
<1>9. \A member : RoleAsked(member)' = member.role
  BY <1>8 DEF RoleAsked, RoleCodes
<1> QED BY <1>1, <1>5, <1>6, <1>7, <1>8, <1>9 DEF ListsPlaced

-----------------------------------------------------------------------------
\* The server's steps: types, and what is sent.

FullInv == TypeOK /\ OneOutgoing /\ MembersDue /\ ListsPlaced

\* A step sends a block or none; the list of the members, as it begins to
\* serve.
Sends ==
    \/ UNCHANGED network
    \/ \E block \in Blocks :
           /\ network' = Append(network, block)
           /\ \/ block.ind # "USER_MODERATOR_LIST"
              \/ /\ block = [ind |-> "USER_MODERATOR_LIST", rows |-> Members]
                 /\ stage = "sent"
                 /\ stage' = "serving"

ServerStepOK ==
    /\ ServerTypeOK'
    /\ OneOutgoing'
    /\ Sends
    /\ stage = "serving" => stage' = "serving"
    /\ UNCHANGED windowVars

LEMMA BroadcastKinds ==
    ASSUME NEW block \in Broadcasts
    PROVE  /\ block \in Blocks
           /\ block.ind # "USER_MODERATOR_LIST"
           /\ <<block>> \in Seq(Blocks)
<1>1. block \in Blocks /\ block.ind # "USER_MODERATOR_LIST"
  BY DEF Blocks, Broadcasts
<1> QED BY <1>1

LEMMA ServerTypes == TypeOK => ServerTypeOK /\ TableTypeOK /\ ListTypeOK
BY DEF TypeOK, ServerTypeOK, TableTypeOK, ListTypeOK

LEMMA WorkerStep ==
    ASSUME TypeOK, OneOutgoing, Worker
    PROVE  ServerStepOK
<1>1. /\ ServerTypeOK
      /\ UNCHANGED <<store, lastId, published, membership, outgoing>>
      /\ UNCHANGED windowVars
  BY ServerTypes DEF Worker, ReadRow, EndRows, SendList, FailList, SendRole,
                     mainVars
<1>2. OneOutgoing'
  BY <1>1 DEF OneOutgoing
<1>3. ASSUME stage' \in {"reading", "read", "sent", "serving"},
             fetched' \in Seq(MessageRows), astray' \in BOOLEAN
      PROVE  ServerTypeOK'
  BY <1>1, <1>3 DEF ServerTypeOK
<1>4. CASE ReadRow
  <2>1. PICK id \in DOMAIN store :
            fetched' = Append(fetched, [id |-> id, name |-> store[id].name,
                                        text |-> store[id].text])
    BY <1>4 DEF ReadRow
  <2>2. id \in MessageIds
    BY <1>1, IdsAssumption DEF ServerTypeOK, MessageIds
  <2>3. store[id].name \in Users /\ store[id].text \in Texts
    BY <1>1 DEF ServerTypeOK
  <2> DEFINE row == [id |-> id, name |-> store[id].name,
                     text |-> store[id].text]
  <2>4. row \in MessageRows
    BY <2>2, <2>3 DEF MessageRows
  <2> HIDE DEF row
  <2>5. fetched' \in Seq(MessageRows)
    BY <1>1, <2>1, <2>4, AppendProperties DEF ServerTypeOK, row
  <2>6. UNCHANGED <<stage, astray, network>>
    BY <1>4 DEF ReadRow
  <2>7. ServerTypeOK'
    BY <1>1, <1>3, <2>5, <2>6 DEF ServerTypeOK
  <2> QED BY <1>1, <1>2, <2>6, <2>7 DEF ServerStepOK, Sends
<1>5. CASE EndRows
  <2>1. stage = "reading" /\ stage' = "read"
        /\ UNCHANGED <<fetched, astray, network>>
    BY <1>5 DEF EndRows
  <2>2. ServerTypeOK'
    BY <1>1, <1>3, <2>1 DEF ServerTypeOK
  <2> QED BY <1>1, <1>2, <2>1, <2>2 DEF ServerStepOK, Sends
<1>6. CASE SendList
  <2> DEFINE block == [ind |-> "SEND_INIT_MESSAGES", rows |-> fetched]
  <2>1. /\ stage = "read" /\ stage' = "sent" /\ fetched' = <<>>
        /\ UNCHANGED astray /\ network' = Append(network, block)
    BY <1>6 DEF SendList
  <2>2. block \in Blocks /\ block.ind # "USER_MODERATOR_LIST"
    BY <1>1 DEF ServerTypeOK, Blocks, Answers
  <2>3. fetched' \in Seq(MessageRows)
    BY <2>1
  <2>4. ServerTypeOK'
    BY <1>1, <1>3, <2>1, <2>3 DEF ServerTypeOK
  <2> HIDE DEF block
  <2> QED BY <1>1, <1>2, <2>1, <2>2, <2>4 DEF ServerStepOK, Sends
<1>7. CASE FailList
  <2>1. /\ stage = "reading" /\ stage' = "sent" /\ astray' = TRUE
        /\ UNCHANGED <<fetched, network>>
    BY <1>7 DEF FailList
  <2>2. ServerTypeOK'
    BY <1>1, <1>3, <2>1 DEF ServerTypeOK
  <2> QED BY <1>1, <1>2, <2>1, <2>2 DEF ServerStepOK, Sends
<1>8. CASE SendRole
  <2> DEFINE members == [ind |-> "USER_MODERATOR_LIST", rows |-> Members]
             role == [ind |-> "INIT_MODERATOR"]
  <2>1. /\ stage = "sent" /\ stage' = "serving"
        /\ UNCHANGED <<fetched, astray>>
        /\ \/ network' = Append(network, members)
           \/ network' = Append(network, role)
           \/ UNCHANGED network
    BY <1>8 DEF SendRole
  <2>2. members \in Blocks
    BY MembersAssumption DEF Blocks, Answers
  <2>3. role \in Blocks /\ role.ind # "USER_MODERATOR_LIST"
    BY DEF Blocks, Answers
  <2>4. ServerTypeOK'
    BY <1>1, <1>3, <2>1 DEF ServerTypeOK
  <2> HIDE DEF role
  <2>5. Sends
    BY <2>1, <2>2, <2>3 DEF Sends
  <2> QED BY <1>1, <1>2, <2>1, <2>4, <2>5 DEF ServerStepOK
<1> QED BY <1>4, <1>5, <1>6, <1>7, <1>8 DEF Worker

LEMMA ToldBlock ==
    ASSUME TypeOK, OneOutgoing, outgoing = <<>>, NEW block \in Broadcasts,
           Tell(block)
    PROVE  Sends /\ outgoing' \in Seq(Blocks) /\ OneOutgoing'
<1>1. /\ block \in Blocks
      /\ block.ind # "USER_MODERATOR_LIST"
      /\ <<block>> \in Seq(Blocks)
  BY BroadcastKinds
<1>2. \/ UNCHANGED <<outgoing, network>>
      \/ network' = Append(network, block) /\ UNCHANGED outgoing
      \/ outgoing' = <<block>> /\ UNCHANGED network
  BY DEF Tell
<1>3. outgoing \in Seq(Blocks)
  BY DEF TypeOK
<1> QED BY <1>1, <1>2, <1>3 DEF Sends, OneOutgoing

LEMMA MainStep ==
    ASSUME TypeOK, OneOutgoing, Main
    PROVE  ServerStepOK
<1>1. /\ ServerTypeOK
      /\ UNCHANGED <<stage, fetched>>
      /\ UNCHANGED windowVars
  BY ServerTypes DEF Main, EnterMap, LeaveMap, PublishMessage,
                     PublishDeletion, PublishModification, PublishBlock,
                     WriteBlock, Publish, workerVars
<1>2. ASSUME Publish
      PROVE  /\ outgoing = <<>>
             /\ published' \in 0 .. MaxPublished
             /\ UNCHANGED membership
  <2>1. \A n \in 0 .. MaxPublished :
            n < MaxPublished => n + 1 \in 0 .. MaxPublished
    BY BoundsAssumption
  <2> QED BY <1>1, <1>2, <2>1 DEF Publish, ServerTypeOK
<1>3. lastId \in Nat /\ lastId \in MessageIds
  BY <1>1, IdsAssumption DEF ServerTypeOK, MessageIds
<1>4. \A id \in 0 .. lastId : id \in MessageIds
  BY <1>3, IdsAssumption DEF MessageIds
<1>5. CASE EnterMap \/ LeaveMap
  <2>1. /\ UNCHANGED <<store, lastId, published, outgoing, astray, network>>
        /\ membership' \in {"queued", "in", "out"}
    BY <1>5 DEF EnterMap, LeaveMap
  <2>2. ServerTypeOK' /\ OneOutgoing'
    BY <1>1, <2>1 DEF ServerTypeOK, OneOutgoing
  <2> QED BY <1>1, <2>1, <2>2 DEF ServerStepOK, Sends
<1>6. CASE PublishMessage
  <2>1. PICK text \in Texts, user \in Authors, id \in {lastId', 0} :
            /\ store' = [i \in DOMAIN store \cup {lastId'} |->
                            IF i = lastId' THEN [name |-> user, text |-> text]
                                           ELSE store[i]]
            /\ Tell([ind |-> "ADD_MESSAGE", id |-> id, name |-> user,
                     text |-> text])
            /\ astray' = (astray \/ Early \/ Missed(lastId') \/ id = 0)
    BY <1>6 DEF PublishMessage
  <2>2. Publish /\ lastId < MaxMessageId /\ lastId' = lastId + 1
    BY <1>6 DEF PublishMessage
  <2>3. lastId' \in MessageIds /\ id \in MessageIds /\ user \in Users
    BY <1>3, <2>2, IdsAssumption, AuthorsAssumption DEF MessageIds
  <2>4. [ind |-> "ADD_MESSAGE", id |-> id, name |-> user, text |-> text]
            \in Broadcasts
    BY <2>3 DEF Broadcasts
  <2>5. Sends /\ outgoing' \in Seq(Blocks) /\ OneOutgoing'
    BY <1>2, <2>1, <2>2, <2>4, ToldBlock
  <2>6. /\ DOMAIN store' = DOMAIN store \cup {lastId'}
        /\ store' \in [DOMAIN store' -> [name : Users, text : Texts]]
    BY <1>1, <2>1, <2>3 DEF ServerTypeOK
  <2>7. DOMAIN store' \subseteq 1 .. lastId'
    BY <1>1, <1>3, <2>2, <2>6 DEF ServerTypeOK
  <2>8. astray' \in BOOLEAN
    BY <1>1, <2>1 DEF ServerTypeOK
  <2>9. ServerTypeOK'
    BY <1>1, <1>2, <2>2, <2>3, <2>5, <2>6, <2>7, <2>8 DEF ServerTypeOK
  <2> QED BY <1>1, <2>5, <2>9 DEF ServerStepOK
<1>7. CASE PublishDeletion
  <2>1. PICK id \in 0 .. lastId :
            /\ store' = [i \in DOMAIN store \ {id} |-> store[i]]
            /\ Tell([ind |-> "DELETE_MESSAGE", id |-> id])
            /\ astray' = (\/ astray
                          \/ Early
                          \/ id \in DOMAIN store /\ Missed(id)
                          \/ id \notin DOMAIN store /\ membership = "in")
    BY <1>7 DEF PublishDeletion
  <2>2. Publish /\ UNCHANGED lastId
    BY <1>7 DEF PublishDeletion
  <2>3. [ind |-> "DELETE_MESSAGE", id |-> id] \in Broadcasts
    BY <1>4 DEF Broadcasts
  <2>4. Sends /\ outgoing' \in Seq(Blocks) /\ OneOutgoing'
    BY <1>2, <2>1, <2>2, <2>3, ToldBlock
  <2>5. /\ DOMAIN store' \subseteq DOMAIN store
        /\ store' \in [DOMAIN store' -> [name : Users, text : Texts]]
        /\ astray' \in BOOLEAN
    BY <1>1, <2>1 DEF ServerTypeOK
  <2>6. ServerTypeOK'
    BY <1>1, <1>2, <2>2, <2>4, <2>5 DEF ServerTypeOK
  <2> QED BY <1>1, <2>4, <2>6 DEF ServerStepOK
<1>8. CASE PublishModification
  <2>1. PICK id \in 0 .. lastId, text \in Texts :
            /\ store' = [i \in DOMAIN store |->
                            IF i = id THEN [store[i] EXCEPT !.text = text]
                                      ELSE store[i]]
            /\ Tell([ind |-> "MODIFY_MESSAGE", id |-> id, text |-> text])
            /\ astray' = (\/ astray
                          \/ Early
                          \/ id \in DOMAIN store /\ Missed(id))
    BY <1>8 DEF PublishModification
  <2>2. Publish /\ UNCHANGED lastId
    BY <1>8 DEF PublishModification
  <2>3. [ind |-> "MODIFY_MESSAGE", id |-> id, text |-> text] \in Broadcasts
    BY <1>4 DEF Broadcasts
  <2>4. Sends /\ outgoing' \in Seq(Blocks) /\ OneOutgoing'
    BY <1>2, <2>1, <2>2, <2>3, ToldBlock
  <2>5. /\ DOMAIN store' = DOMAIN store
        /\ store' \in [DOMAIN store' -> [name : Users, text : Texts]]
        /\ astray' \in BOOLEAN
    BY <1>1, <2>1 DEF ServerTypeOK
  <2>6. ServerTypeOK'
    BY <1>1, <1>2, <2>2, <2>4, <2>5 DEF ServerTypeOK
  <2> QED BY <1>1, <2>4, <2>6 DEF ServerStepOK
<1>9. CASE PublishBlock
  <2>1. PICK block \in RoleChanges \cup
                 [ind : {"USER_GET_PASSWORD_HALF"}, half : {NoName}] :
            network' = Append(network, block)
    BY <1>9 DEF PublishBlock
  <2>2. block \in Blocks /\ block.ind # "USER_MODERATOR_LIST"
    BY DEF Blocks, RoleChanges, Broadcasts
  <2>3. Publish /\ UNCHANGED <<store, lastId, outgoing, astray>>
    BY <1>9 DEF PublishBlock
  <2>4. ServerTypeOK' /\ OneOutgoing'
    BY <1>1, <1>2, <2>3 DEF ServerTypeOK, OneOutgoing
  <2> QED BY <1>1, <2>1, <2>2, <2>4 DEF ServerStepOK, Sends
<1>10. CASE WriteBlock
  <2>1. PICK block \in Broadcasts : outgoing = <<block>>
    BY <1>10 DEF WriteBlock, OneOutgoing
  <2>2. /\ network' = network \o <<block>> /\ outgoing' = <<>>
        /\ UNCHANGED <<store, lastId, published, membership, astray>>
    BY <1>10, <2>1 DEF WriteBlock
  <2>3. network' = Append(network, block)
    BY <2>2, BroadcastKinds, AppendIsConcat DEF TypeOK
  <2>4. ServerTypeOK' /\ OneOutgoing'
    BY <1>1, <2>2 DEF ServerTypeOK, OneOutgoing
  <2> QED BY <1>1, <2>3, <2>4, BroadcastKinds DEF ServerStepOK, Sends
<1> QED BY <1>5, <1>6, <1>7, <1>8, <1>9, <1>10 DEF Main

LEMMA ServerKeepsFull ==
    ASSUME FullInv, Worker \/ Main
    PROVE  FullInv'
<1>1. ServerStepOK /\ TypeOK /\ TableTypeOK /\ MembersDue /\ ListsPlaced
  BY WorkerStep, MainStep, ServerTypes DEF FullInv
<1>2. /\ UNCHANGED <<buffer, connected, slot, m_messages, m_messageIdRowNum,
                     moderatorMode, m_userList, m_moderatorList, modifying,
                     requests>>
      /\ ServerTypeOK'
      /\ OneOutgoing'
  BY <1>1 DEF ServerStepOK, windowVars, tableVars, adminVars, userVars
<1>3. CASE UNCHANGED network
  <2>1. TypeOK'
    BY <1>1, <1>2, <1>3 DEF TypeOK, ServerTypeOK
  <2>2. MembersDue'
    <3>1. UNCHANGED Unread
      BY <1>2, <1>3 DEF Unread
    <3> QED BY <1>1, <1>2, <3>1 DEF MembersDue, ServerStepOK
  <2> QED BY <1>1, <1>2, <2>1, <2>2, SameLists DEF FullInv
<1>4. CASE ~UNCHANGED network
  <2>1. PICK block \in Blocks :
            /\ network' = Append(network, block)
            /\ \/ block.ind # "USER_MODERATOR_LIST"
               \/ /\ block = [ind |-> "USER_MODERATOR_LIST", rows |-> Members]
                  /\ stage = "sent"
                  /\ stage' = "serving"
    BY <1>1, <1>4 DEF ServerStepOK, Sends
  <2>2. /\ UnreadGrows(block) /\ network' \in Seq(Blocks)
        /\ DOMAIN Unread = 1 .. Len(Unread)
        /\ Len(Unread) \in Nat
    BY <1>1, <1>2, <2>1, NetworkGrows, UnreadType
  <2>3. TypeOK'
    BY <1>1, <1>2, <2>2 DEF TypeOK, ServerTypeOK
  <2>4. \A i \in DOMAIN Unread' :
            \/ i \in DOMAIN Unread /\ Unread'[i] = Unread[i]
            \/ i = Len(Unread) + 1 /\ Unread'[i] = block
    BY <2>2 DEF UnreadGrows
  <2>5. MembersDue'
    <3>1. CASE block.ind # "USER_MODERATOR_LIST"
      BY <1>1, <1>2, <2>4, <3>1 DEF MembersDue, ServerStepOK
    <3>2. CASE /\ block = [ind |-> "USER_MODERATOR_LIST", rows |-> Members]
               /\ stage = "sent"
               /\ stage' = "serving"
      <4>1. /\ \A i \in DOMAIN Unread : Unread[i].ind # "USER_MODERATOR_LIST"
            /\ m_userList = <<>> /\ m_moderatorList = <<>>
        BY <1>1, <3>2 DEF MembersDue
      <4>2. block.rows = Members
        BY <3>2
      <4> QED BY <1>2, <2>4, <3>2, <4>1, <4>2 DEF MembersDue
    <3> QED BY <2>1, <3>1, <3>2
  <2> QED BY <1>1, <1>2, <2>3, <2>5, SameLists DEF FullInv
<1> QED BY <1>3, <1>4

-----------------------------------------------------------------------------
\* The window's steps: types and lists.

MapTypeOK ==
    /\ DOMAIN m_messageIdRowNum \subseteq MessageIds
    /\ m_messageIdRowNum \in [DOMAIN m_messageIdRowNum -> Nat]

LEMMA AddedTypes ==
    ASSUME m_messages \in Seq(MessageRows), MapTypeOK,
           NEW rows \in Seq(MessageRows), addMessages(rows)
    PROVE  m_messages' \in Seq(MessageRows) /\ MapTypeOK'
<1> DEFINE n == Len(m_messages)
           k == Len(rows)
           ids == {row.id : row \in ToSet(rows)}
           LastOf(id) == CHOOSE i \in DOMAIN rows :
                            /\ rows[i].id = id
                            /\ \A j \in DOMAIN rows :
                                   rows[j].id = id => j <= i
<1>1. /\ n \in Nat /\ k \in Nat /\ DOMAIN rows = 1 .. k
      /\ \A i \in 1 .. k : rows[i].id \in MessageIds
  <2>1. \A i \in 1 .. k : rows[i] \in MessageRows
    BY ElementOfSeq, LenProperties
  <2> QED BY <2>1, LenProperties DEF MessageRows
<1>2. /\ m_messages' = m_messages \o rows
      /\ m_messageIdRowNum' =
             [id \in DOMAIN m_messageIdRowNum \cup ids |->
                  IF id \in ids THEN n + LastOf(id) - 1
                                ELSE m_messageIdRowNum[id]]
  BY DEF addMessages
<1>3. \A id : id \in ids <=> \E i \in 1 .. k : rows[i].id = id
  BY <1>1 DEF ToSet
<1>4. ASSUME NEW id \in ids
      PROVE  LastOf(id) \in 1 .. k
  <2> DEFINE S == {i \in 1 .. k : rows[i].id = id}
  <2>1. Max(S) \in S /\ \A y \in S : Max(S) >= y
    <3>1. S \subseteq 1 .. k /\ S # {}
      BY <1>3
    <3> HIDE DEF S
    <3> QED BY <1>1, <3>1, GreatestNatural
  <2>2. \E i \in DOMAIN rows : /\ rows[i].id = id
                               /\ \A j \in DOMAIN rows :
                                      rows[j].id = id => j <= i
    <3>1. \A j \in 1 .. k : rows[j].id = id => j <= Max(S)
      <4>1. \A j \in S : j <= Max(S)
        <5>1. Max(S) \in Nat /\ S \subseteq Nat
          BY <1>1, <2>1
        <5> HIDE DEF S
        <5> QED BY <2>1, <5>1
      <4> QED BY <4>1
    <3> QED BY <1>1, <2>1, <3>1
  <2> QED BY <1>1, <2>2
<1>5. \A id \in ids : n + LastOf(id) - 1 \in Nat
  <2> HIDE DEF ids, LastOf, n, k
  <2>1. \A i \in 1 .. k : n + i - 1 \in Nat
    BY <1>1
  <2> QED BY <1>4, <2>1
<1>6. ids \subseteq MessageIds
  BY <1>1, <1>3
<1> HIDE DEF ids, LastOf, n, k
<1>7. MapTypeOK'
  BY <1>2, <1>5, <1>6 DEF MapTypeOK
<1>8. m_messages' \in Seq(MessageRows)
  BY <1>2, ConcatProperties
<1> QED BY <1>7, <1>8

LEMMA RowNumber ==
    ASSUME MapTypeOK, NEW id
    PROVE  RowNum(id) \in Nat
BY DEF MapTypeOK, RowNum

LEMMA DeletedTypes ==
    ASSUME m_messages \in Seq(MessageRows), MapTypeOK, NEW id,
           deleteMessageResponse(id)
    PROVE  m_messages' \in Seq(MessageRows) /\ MapTypeOK'
<1> DEFINE row == RowNum(id)
<1>1. row \in Nat /\ Len(m_messages) \in Nat
  BY RowNumber, LenProperties
<1>2. m_messages' \in Seq(MessageRows)
  <2>1. row < Len(m_messages) => row + 1 \in 1 .. Len(m_messages)
    BY <1>1
  <2> QED BY <2>1, RemovedAt DEF deleteMessageResponse, RemoveRow
<1>3. m_messageIdRowNum' =
          [i \in DOMAIN m_messageIdRowNum \ {id} |->
               IF m_messageIdRowNum[i] > row
                  THEN m_messageIdRowNum[i] - 1 ELSE m_messageIdRowNum[i]]
  BY DEF deleteMessageResponse
<1> HIDE DEF row
<1>4. \A m \in Nat : (IF m > row THEN m - 1 ELSE m) \in Nat
  BY <1>1
<1>5. MapTypeOK'
  BY <1>3, <1>4 DEF MapTypeOK
<1> QED BY <1>2, <1>5

LEMMA ModifiedTypes ==
    ASSUME m_messages \in Seq(MessageRows), MapTypeOK,
           NEW id, NEW text \in Texts, modifyResponse(id, text)
    PROVE  m_messages' \in Seq(MessageRows) /\ MapTypeOK'
<1>1. MapTypeOK'
  BY DEF modifyResponse, MapTypeOK
<1>2. CASE UNCHANGED m_messages
  BY <1>1, <1>2
<1>3. CASE /\ RowNum(id) < Len(m_messages)
           /\ m_messages' = [m_messages EXCEPT ![RowNum(id) + 1].text = text]
  <2> DEFINE k == RowNum(id) + 1
             row == [m_messages[k] EXCEPT !.text = text]
  <2>1. k \in 1 .. Len(m_messages)
    BY <1>3, RowNumber, LenProperties
  <2>2. row \in MessageRows
    <3>1. m_messages[k] \in MessageRows
      BY <2>1, ElementOfSeq
    <3> QED BY <3>1 DEF MessageRows
  <2>3. m_messages' = [m_messages EXCEPT ![k] = row]
    BY <1>3
  <2> HIDE DEF row, k
  <2> QED BY <1>1, <2>1, <2>2, <2>3, ExceptSeq
<1> QED BY <1>2, <1>3 DEF modifyResponse

LEMMA BlockFields ==
    ASSUME NEW b \in Blocks
    PROVE  /\ b.ind = "ADD_MESSAGE" =>
                  [id |-> b.id, name |-> b.name, text |-> b.text]
                      \in MessageRows
           /\ b.ind = "MODIFY_MESSAGE" => b.text \in Texts
           /\ b.ind = "SEND_INIT_MESSAGES" => b.rows \in Seq(MessageRows)
BY DEF Blocks, Broadcasts, RoleChanges, Answers, MessageRows

\* The types that reading a block concerns.
LEMMA ReadTypes ==
    ASSUME TypeOK, ReadBlock
    PROVE  /\ m_messages' \in Seq(MessageRows)
           /\ MapTypeOK'
           /\ slot' \in {"idle", "reading", "box", "ended"}
           /\ moderatorMode' \in BOOLEAN
<1> DEFINE b == Head(buffer)
<1>1. HandleBlock(b) /\ b \in Blocks
  BY ReadShrinks, ServerTypes DEF ReadBlock
<1>2. /\ m_messages \in Seq(MessageRows) /\ MapTypeOK
      /\ slot \in {"idle", "reading", "box", "ended"}
      /\ moderatorMode \in BOOLEAN
  BY DEF TypeOK, MapTypeOK
<1> HIDE DEF b
<1>3. CASE b.ind = "ADD_MESSAGE"
  <2> DEFINE rows == <<[id |-> b.id, name |-> b.name, text |-> b.text]>>
  <2>1. rows \in Seq(MessageRows)
    BY <1>1, <1>3, BlockFields
  <2>2. addMessages(rows) /\ UNCHANGED <<slot, moderatorMode>>
    BY <1>1, <1>3 DEF HandleBlock, addMessage
  <2> HIDE DEF rows
  <2> QED BY <1>2, <2>1, <2>2, AddedTypes
<1>4. CASE b.ind = "SEND_INIT_MESSAGES"
  <2>1. addMessages(b.rows) /\ UNCHANGED <<slot, moderatorMode>>
    BY <1>1, <1>4 DEF HandleBlock
  <2> QED BY <1>1, <1>2, <1>4, <2>1, AddedTypes, BlockFields
<1>5. CASE b.ind = "DELETE_MESSAGE"
  <2>1. deleteMessageResponse(b.id) /\ UNCHANGED <<slot, moderatorMode>>
    BY <1>1, <1>5 DEF HandleBlock
  <2> QED BY <1>2, <2>1, DeletedTypes
<1>6. CASE b.ind = "MODIFY_MESSAGE"
  <2>1. modifyResponse(b.id, b.text) /\ UNCHANGED moderatorMode
    BY <1>1, <1>6 DEF HandleBlock
  <2>2. UNCHANGED slot \/ slot' = "ended"
    BY <2>1 DEF modifyResponse
  <2> QED BY <1>1, <1>2, <1>6, <2>1, <2>2, ModifiedTypes, BlockFields
<1>7. CASE b.ind \notin {"ADD_MESSAGE", "SEND_INIT_MESSAGES",
                         "DELETE_MESSAGE", "MODIFY_MESSAGE"}
  <2>1. /\ UNCHANGED <<m_messages, m_messageIdRowNum>>
        /\ moderatorMode' \in BOOLEAN
        /\ slot' = slot \/ slot' \in {"reading", "box"}
    BY <1>1, <1>2, <1>7 DEF HandleBlock, ConnectNotes, tableVars
  <2> QED BY <1>2, <2>1 DEF MapTypeOK
<1> QED BY <1>3, <1>4, <1>5, <1>6, <1>7

\* The window reads a block.
LEMMA ReadKeepsFull ==
    ASSUME FullInv, ReadBlock
    PROVE  FullInv'
<1> USE DEF FullInv
<1> DEFINE block == Head(buffer)
<1>0. TableTypeOK /\ ListTypeOK
  BY ServerTypes
<1>1. /\ UnreadShrinks(block) /\ block \in Blocks
      /\ buffer' \in Seq(Blocks)
  BY <1>0, ReadShrinks
<1>2. /\ HandleBlock(block)
      /\ UNCHANGED <<store, lastId, published, membership, stage, fetched,
                     outgoing, astray, network, connected, modifying>>
  BY DEF ReadBlock, serverVars, mainVars, workerVars
<1>3. block.ind = "USER_MODERATOR_LIST" =>
          /\ block.rows = Members
          /\ m_userList = <<>> /\ m_moderatorList = <<>>
          /\ stage = "serving"
          /\ \A i \in DOMAIN Unread :
                 Unread[i].ind = "USER_MODERATOR_LIST" => i = 1
  BY <1>1 DEF MembersDue, UnreadShrinks
<1>4. \A i \in DOMAIN Unread' :
          /\ i + 1 \in DOMAIN Unread /\ Unread'[i] = Unread[i + 1]
          /\ i + 1 # 1
          /\ i \in Nat
  <2>1. /\ DOMAIN Unread = 1 .. Len(Unread) /\ Len(Unread) \in Nat
        /\ DOMAIN Unread' \subseteq Nat \ {0}
    <3>1. Unread \in Seq(Blocks) /\ Unread' \in Seq(Blocks)
      BY <1>0, <1>1, <1>2, UnreadType, ConcatProperties
         DEF TableTypeOK, Unread
    <3>2. Len(Unread') \in Nat /\ DOMAIN Unread' = 1 .. Len(Unread')
      BY <3>1, LenProperties
    <3>3. \A n \in Nat : 1 .. n \subseteq Nat \ {0}
      OBVIOUS
    <3> QED BY <1>0, <3>1, <3>2, <3>3, UnreadType
  <2>2. \A i \in Nat \ {0} : i + 1 # 1
    OBVIOUS
  <2> QED BY <1>1, <2>1, <2>2 DEF UnreadShrinks
<1> HIDE DEF block
<1>5. OneOutgoing'
  BY <1>2 DEF OneOutgoing
<1>6. ASSUME ListTypeOK'
      PROVE  TypeOK'
  BY <1>1, <1>2, <1>6, ReadTypes DEF TypeOK, ListTypeOK, MapTypeOK
<1>7. CASE block.ind = "USER_MODERATOR_LIST"
  <2>1. /\ m_userList' = m_userList \o NamesOf(Members, "u")
        /\ m_moderatorList' = m_moderatorList \o NamesOf(Members, "m")
        /\ UNCHANGED requests
    BY <1>2, <1>3, <1>7 DEF HandleBlock
  <2>2. /\ ListsPlaced'
        /\ m_userList' \in Seq(Users) /\ m_moderatorList' \in Seq(Users)
    BY <1>0, <1>3, <1>7, <2>1, MembersRead
  <2>3. TypeOK'
    BY <1>0, <1>6, <2>1, <2>2 DEF ListTypeOK
  <2>4. \A i \in DOMAIN Unread' : Unread'[i].ind # "USER_MODERATOR_LIST"
    BY <1>3, <1>4, <1>7
  <2>5. MembersDue'
    BY <1>2, <1>3, <1>7, <2>4 DEF MembersDue
  <2> QED BY <1>5, <2>2, <2>3, <2>5
<1>8. CASE block.ind # "USER_MODERATOR_LIST"
  <2>1. UNCHANGED <<m_userList, m_moderatorList>>
    BY <1>2, <1>8 DEF HandleBlock, adminVars
  <2>2. requests' = requests
        \/ requests' = Append(requests, [ind |-> "GOT_MESSAGE_LIST"])
    BY <1>2, <1>8 DEF HandleBlock
  <2>3. ListsPlaced' /\ requests' \in Seq(Requests)
    <3>1. CASE requests' = requests
      BY <1>0, <2>1, <3>1, SameLists DEF ListTypeOK
    <3>2. CASE requests' = Append(requests, [ind |-> "GOT_MESSAGE_LIST"])
      <4>1. /\ [ind |-> "GOT_MESSAGE_LIST"] \in Requests
            /\ [ind |-> "GOT_MESSAGE_LIST"].ind \notin RoleCodes
        BY DEF Requests, RoleCodes
      <4> QED BY <1>0, <2>1, <3>2, <4>1, OtherRequest
    <3> QED BY <2>2, <3>1, <3>2
  <2>4. TypeOK'
    BY <1>0, <1>6, <2>1, <2>3 DEF ListTypeOK
  <2>5. MembersDue'
    <3>1. \A i, j \in DOMAIN Unread' : i + 1 = j + 1 => i = j
      BY <1>4
    <3> QED BY <1>2, <1>4, <2>1, <3>1 DEF MembersDue
  <2> QED BY <1>5, <2>3, <2>4, <2>5
<1> QED BY <1>7, <1>8

\* The user sends a request that is not about a role, opens and closes the
\* dialog of a modification or closes a box.
LEMMA UserKeepsFull ==
    ASSUME FullInv, User
    PROVE  FullInv'
<1> USE DEF FullInv
<1>1. /\ UNCHANGED <<store, lastId, published, membership, stage, fetched,
                     outgoing, astray, network, buffer, connected,
                     m_messages, m_messageIdRowNum, moderatorMode>>
      /\ UNCHANGED Unread
      /\ slot' = slot \/ slot' = "reading"
  BY DEF User, sendMessage, deleteMessageRequest, OpenModifyDialog,
         AcceptModifyDialog, CancelModifyDialog, addModeratorRequest,
         deleteModeratorRequest, CloseBox, serverVars, mainVars, workerVars,
         socketVars, tableVars, Unread
<1>2. /\ OneOutgoing'
      /\ ListTypeOK
      /\ modifying' \in Seq(MessageRows) /\ ListTypeOK' => TypeOK'
  <2>1. OneOutgoing'
    BY <1>1 DEF OneOutgoing
  <2>2. ListTypeOK
    BY DEF TypeOK, ListTypeOK
  <2>3. ASSUME modifying' \in Seq(MessageRows), ListTypeOK'
        PROVE  TypeOK'
    <3>1. slot' \in {"idle", "reading", "box", "ended"}
      BY <1>1 DEF TypeOK
    <3> QED BY <1>1, <2>3, <3>1 DEF TypeOK, ListTypeOK
  <2> QED BY <2>1, <2>2, <2>3
<1>3. CASE addModeratorRequest \/ deleteModeratorRequest
  <2>1. /\ ListsPlaced'
        /\ m_userList' \in Seq(Users)
        /\ m_moderatorList' \in Seq(Users)
        /\ requests' \in Seq(Requests)
    BY <1>2, <1>3, MoveKeepsLists
  <2>2. modifying' = modifying
    BY <1>3 DEF addModeratorRequest, deleteModeratorRequest
  <2>3. ~(m_userList = <<>> /\ m_moderatorList = <<>>)
    BY <1>3 DEF addModeratorRequest, deleteModeratorRequest
  <2>4. stage = "serving"
        /\ \A i \in DOMAIN Unread : Unread[i].ind # "USER_MODERATOR_LIST"
    BY <2>3 DEF MembersDue
  <2>5. MembersDue'
    BY <1>1, <2>4 DEF MembersDue
  <2> QED BY <1>2, <2>1, <2>2, <2>5 DEF ListTypeOK, TypeOK
<1>4. ASSUME UNCHANGED <<m_userList, m_moderatorList>>,
             ListsPlaced', modifying' \in Seq(MessageRows),
             requests' \in Seq(Requests)
      PROVE  FullInv'
  <2>1. MembersDue'
    BY <1>1, <1>4 DEF MembersDue
  <2> QED BY <1>2, <1>4, <2>1 DEF ListTypeOK
<1>5. /\ m_messages \in Seq(MessageRows)
      /\ modifying \in Seq(MessageRows)
      /\ requests \in Seq(Requests)
      /\ \A r \in DOMAIN m_messages :
             m_messages[r] \in MessageRows /\ m_messages[r].id \in MessageIds
  <2>1. \A r \in DOMAIN m_messages : m_messages[r] \in MessageRows
    BY ElementOfSeq, LenProperties DEF TypeOK
  <2> QED BY <2>1 DEF TypeOK, MessageRows
<1>6. CASE sendMessage
  <2>1. PICK text \in Texts :
            requests' = Append(requests, [ind |-> "ADD_MESSAGE", text |-> text])
    BY <1>6 DEF sendMessage, Request
  <2>2. /\ [ind |-> "ADD_MESSAGE", text |-> text] \in Requests
        /\ [ind |-> "ADD_MESSAGE", text |-> text].ind \notin RoleCodes
    BY DEF Requests, RoleCodes
  <2>3. UNCHANGED <<m_userList, m_moderatorList, modifying>>
    BY <1>6 DEF sendMessage, adminVars
  <2> QED BY <1>2, <1>4, <1>5, <2>1, <2>2, <2>3, OtherRequest
<1>7. CASE deleteMessageRequest
  <2>1. PICK r \in DOMAIN m_messages :
            requests' = Append(requests, [ind |-> "DELETE_MESSAGE",
                                          id |-> m_messages[r].id])
    BY <1>7 DEF deleteMessageRequest, Request
  <2>2. /\ [ind |-> "DELETE_MESSAGE", id |-> m_messages[r].id] \in Requests
        /\ [ind |-> "DELETE_MESSAGE", id |-> m_messages[r].id].ind
               \notin RoleCodes
    BY <1>5 DEF Requests, RoleCodes
  <2>3. UNCHANGED <<m_userList, m_moderatorList, modifying>>
    BY <1>7 DEF deleteMessageRequest, adminVars
  <2> QED BY <1>2, <1>4, <1>5, <2>1, <2>2, <2>3, OtherRequest
<1>8. CASE OpenModifyDialog
  <2>1. modifying' \in Seq(MessageRows)
    <3>1. PICK r \in DOMAIN m_messages : modifying' = <<m_messages[r]>>
      BY <1>8 DEF OpenModifyDialog
    <3>2. \A row \in MessageRows : <<row>> \in Seq(MessageRows)
      OBVIOUS
    <3> QED BY <1>5, <3>1, <3>2
  <2>2. UNCHANGED <<m_userList, m_moderatorList, requests>>
    BY <1>8 DEF OpenModifyDialog, adminVars
  <2> QED BY <1>2, <1>4, <1>5, <2>1, <2>2, SameLists
<1>9. CASE AcceptModifyDialog
  <2> DEFINE message == Head(modifying)
  <2>1. modifying # <<>> /\ modifying' = <<>>
    BY <1>9 DEF AcceptModifyDialog
  <2>2. message \in MessageRows
    BY <1>5, <2>1, HeadTailProperties
  <2>3. PICK text \in Texts :
            requests' = Append(requests, [ind |-> "MODIFY_MESSAGE",
                                          id |-> message.id, text |-> text])
    BY <1>9 DEF AcceptModifyDialog, Request
  <2> HIDE DEF message
  <2>4. /\ [ind |-> "MODIFY_MESSAGE", id |-> message.id, text |-> text]
               \in Requests
        /\ [ind |-> "MODIFY_MESSAGE", id |-> message.id, text |-> text].ind
               \notin RoleCodes
    BY <2>2 DEF Requests, RoleCodes, MessageRows
  <2>5. UNCHANGED <<m_userList, m_moderatorList>>
    BY <1>9 DEF AcceptModifyDialog, adminVars
  <2>6. modifying' \in Seq(MessageRows)
    BY <2>1
  <2> QED BY <1>2, <1>4, <2>3, <2>4, <2>5, <2>6, OtherRequest
<1>10. CASE CancelModifyDialog
  <2>1. modifying' \in Seq(MessageRows)
    BY <1>10 DEF CancelModifyDialog
  <2>2. UNCHANGED <<m_userList, m_moderatorList, requests>>
    BY <1>10 DEF CancelModifyDialog, adminVars
  <2> QED BY <1>2, <1>4, <1>5, <2>1, <2>2, SameLists
<1>11. CASE CloseBox
  <2>1. UNCHANGED <<m_userList, m_moderatorList, requests, modifying>>
    BY <1>11 DEF CloseBox, adminVars, userVars
  <2> QED BY <1>4, <1>5, <2>1, SameLists
<1> QED BY <1>3, <1>6, <1>7, <1>8, <1>9, <1>10, <1>11 DEF User

LEMMA NextKeepsFull ==
    ASSUME FullInv, [Next]_vars
    PROVE  FullInv'
<1>1. CASE Worker \/ Main
  BY <1>1, ServerKeepsFull
<1>2. CASE ReadBlock
  BY <1>2, ReadKeepsFull
<1>3. CASE User
  BY <1>3, UserKeepsFull
<1>4. CASE ReadyRead \/ DialogResult \/ EndReading \/ UNCHANGED vars
  <2>1. /\ UNCHANGED <<store, lastId, published, membership, stage, fetched,
                       outgoing, astray, m_messages, m_messageIdRowNum,
                       moderatorMode, m_userList, m_moderatorList, modifying,
                       requests>>
        /\ connected' \in BOOLEAN
        /\ slot' \in {"idle", "reading", "box", "ended"}
    BY <1>4 DEF FullInv, TypeOK, ReadyRead, DialogResult, EndReading, vars,
                serverVars, mainVars, workerVars, socketVars, tableVars,
                adminVars, userVars
  <2>2. UNCHANGED Unread /\ network' \in Seq(Blocks) /\ buffer' \in Seq(Blocks)
    <3>1. CASE ReadyRead
      BY <3>1, ArrivalKeepsUnread, ServerTypes DEF FullInv
    <3>2. CASE DialogResult \/ EndReading \/ UNCHANGED vars
      BY <3>2 DEF DialogResult, EndReading, vars, socketVars, Unread,
                  FullInv, TypeOK
    <3> QED BY <1>4, <3>1, <3>2
  <2>3. TypeOK' /\ OneOutgoing'
    BY <2>1, <2>2 DEF FullInv, TypeOK, OneOutgoing
  <2>4. MembersDue'
    BY <2>1, <2>2 DEF FullInv, MembersDue
  <2>5. ListsPlaced'
    BY <2>1, SameLists DEF FullInv
  <2> QED BY <2>3, <2>4, <2>5 DEF FullInv
<1> QED BY <1>1, <1>2, <1>3, <1>4 DEF Next, EventLoop

LEMMA InitFull ==
    ASSUME Init
    PROVE  FullInv
<1>1. /\ Len(InitRows) \in Nat
      /\ DOMAIN InitRows = 1 .. Len(InitRows)
      /\ \A i \in DOMAIN InitRows :
             InitRows[i] \in MessageRows /\ InitRows[i].id = i
  BY RowsAssumption, LenProperties, ElementOfSeq
<1>2. /\ DOMAIN store = DOMAIN InitRows
      /\ store \in [DOMAIN store -> [name : Users, text : Texts]]
  <2>1. \A i \in DOMAIN InitRows :
            InitRows[i].name \in Users /\ InitRows[i].text \in Texts
    BY <1>1 DEF MessageRows
  <2> QED BY <2>1 DEF Init
<1>3. lastId \in MessageIds
  <2>1. CASE Len(InitRows) = 0
    BY <2>1, IdsAssumption DEF Init, MessageIds
  <2>2. CASE Len(InitRows) # 0
    <3>1. Len(InitRows) \in DOMAIN InitRows
      BY <1>1, <2>2
    <3> QED BY <1>1, <3>1 DEF Init, MessageRows
  <2> QED BY <2>1, <2>2
<1>4. /\ 0 \in 0 .. MaxPublished
      /\ <<>> \in Seq(Users) /\ <<>> \in Seq(MessageRows)
      /\ <<>> \in Seq(Requests) /\ <<>> \in Seq(Blocks)
      /\ DOMAIN <<>> = {}
  BY BoundsAssumption
<1>5. m_messageIdRowNum \in [DOMAIN m_messageIdRowNum -> Nat]
      /\ DOMAIN m_messageIdRowNum \subseteq MessageIds
  <2>1. <<>> \in [{} -> Nat]
    OBVIOUS
  <2> QED BY <1>4, <2>1 DEF Init
<1>6. DOMAIN store \subseteq 1 .. lastId
  BY <1>1, <1>2 DEF Init
<1>7. TypeOK
  BY <1>2, <1>3, <1>4, <1>5, <1>6 DEF Init, TypeOK
<1>8. OneOutgoing
  BY DEF Init, OneOutgoing
<1>9. MembersDue
  <2>1. Unread = <<>>
    BY <1>4, ConcatEmptySeq DEF Init, Unread
  <2>2. DOMAIN Unread = {}
    BY <2>1
  <2> QED BY <2>2 DEF Init, MembersDue
<1>10. ListsPlaced
  BY <1>4 DEF Init, ListsPlaced, Distinct
<1> QED BY <1>7, <1>8, <1>9, <1>10 DEF FullInv

\* TypeOK, in every reachable state and for all values of the constants.
THEOREM Typing == Spec => []TypeOK
<1>1. Init => FullInv
  BY InitFull
<1>2. FullInv /\ [Next]_vars => FullInv'
  BY NextKeepsFull
<1>3. FullInv => TypeOK
  BY DEF FullInv
<1> QED BY <1>1, <1>2, <1>3, PTL DEF Spec

\* A member who is no administrator is on one of the two lists, once, and on
\* that of the role that was asked last for it, for any members and any number
\* of moves (addModeratorRequest, echoclient.cpp:471).
THEOREM ListsFollow == Spec => []ListsFollowRequests
<1>1. Init => FullInv
  BY InitFull
<1>2. FullInv /\ [Next]_vars => FullInv'
  BY NextKeepsFull
<1>3. FullInv => ListsFollowRequests
  <2> DEFINE members == m_userList \o m_moderatorList
             u == Len(m_userList)
             m == Len(m_moderatorList)
             Places(n) == {i \in DOMAIN members : members[i] = n}
  <2> SUFFICES ASSUME FullInv, members # <<>>, NEW n \in DOMAIN Members
               PROVE  /\ Cardinality(Places(n)) =
                             IF RoleAsked(Members[n]) = "a" THEN 0 ELSE 1
                      /\ RoleAsked(Members[n]) = "m" <=>
                             n \in ToSet(m_moderatorList)
    <3>1. /\ \A member \in ToSet(Members) :
                 \E n \in DOMAIN Members : member = Members[n]
          /\ \A n \in DOMAIN Members : Members[n].name = n
      BY MembersAssumption DEF ToSet
    <3> HIDE DEF members
    <3>2. ASSUME members # <<>>, FullInv, NEW member \in ToSet(Members)
          PROVE  /\ Cardinality(Places(member.name)) =
                        IF RoleAsked(member) = "a" THEN 0 ELSE 1
                 /\ RoleAsked(member) = "m" <=>
                        member.name \in ToSet(m_moderatorList)
      <4>1. PICK n \in DOMAIN Members :
                member = Members[n] /\ member.name = n
        BY <3>1, <3>2
      <4>2. /\ Cardinality(Places(n)) =
                   IF RoleAsked(Members[n]) = "a" THEN 0 ELSE 1
            /\ RoleAsked(Members[n]) = "m" <=> n \in ToSet(m_moderatorList)
        BY <3>2
      <4> QED BY <4>1, <4>2
    <3> QED BY <3>2 DEF ListsFollowRequests, members
  <2>1. /\ m_userList \in Seq(Users) /\ m_moderatorList \in Seq(Users)
        /\ u \in Nat /\ m \in Nat
        /\ DOMAIN m_userList = 1 .. u /\ DOMAIN m_moderatorList = 1 .. m
    BY LenProperties DEF FullInv, TypeOK
  <2>2. /\ members \in Seq(Users)
        /\ Len(members) = u + m
        /\ \A i \in 1 .. u + m :
               members[i] = IF i <= u THEN m_userList[i]
                                      ELSE m_moderatorList[i - u]
    BY <2>1, ConcatProperties
  <2>3. DOMAIN members = 1 .. u + m
    BY <2>2, LenProperties
  <2>4. m_userList # <<>> \/ m_moderatorList # <<>>
    BY <2>1, ConcatEmptySeq
  <2>5. /\ RoleAsked(Members[n]) = "u" <=> On(n, m_userList)
        /\ RoleAsked(Members[n]) = "m" <=> On(n, m_moderatorList)
        /\ Distinct(m_userList, m_moderatorList)
    BY <2>4 DEF FullInv, ListsPlaced
  <2>6. RoleAsked(Members[n]) \in {"a", "m", "u"}
    <3>1. Members[n].role \in Roles
      <4>1. Members[n] \in UserRows
        BY MembersAssumption, ElementOfSeq, LenProperties
      <4> QED BY <4>1 DEF UserRows
    <3> QED BY <3>1 DEF RoleAsked, Roles
  <2> HIDE DEF members, u, m
  <2>7. ASSUME NEW i \in 1 .. u + m, members[i] = n
        PROVE  \/ i \in 1 .. u /\ m_userList[i] = n
               \/ i - u \in 1 .. m /\ m_moderatorList[i - u] = n
    BY <2>1, <2>2, <2>7
  <2>8. /\ \A i \in 1 .. u : i \in 1 .. u + m /\ members[i] = m_userList[i]
        /\ \A i \in 1 .. m :
               i + u \in 1 .. u + m /\ members[i + u] = m_moderatorList[i]
    <3>1. \A i \in 1 .. m : i + u \in 1 .. u + m /\ ~(i + u <= u)
                            /\ (i + u) - u = i
      BY <2>1
    <3> QED BY <2>1, <2>2, <3>1
  <2>9. \A i, j \in 1 .. u + m : members[i] = n /\ members[j] = n => i = j
    <3> SUFFICES ASSUME NEW i \in 1 .. u + m, NEW j \in 1 .. u + m,
                        members[i] = n, members[j] = n
                 PROVE  i = j
      OBVIOUS
    <3>1. CASE i \in 1 .. u /\ m_userList[i] = n
      <4>1. j \in 1 .. u /\ m_userList[j] = n
        BY <2>1, <2>5, <2>7, <3>1 DEF Distinct
      <4> QED BY <2>1, <2>5, <3>1, <4>1 DEF Distinct
    <3>2. CASE i - u \in 1 .. m /\ m_moderatorList[i - u] = n
      <4>1. j - u \in 1 .. m /\ m_moderatorList[j - u] = n
        BY <2>1, <2>5, <2>7, <3>2 DEF Distinct
      <4>2. i - u = j - u
        BY <2>1, <2>5, <3>2, <4>1 DEF Distinct
      <4> QED BY <2>1, <4>2
    <3> QED BY <2>7, <3>1, <3>2
  <2>10. RoleAsked(Members[n]) = "m" <=> n \in ToSet(m_moderatorList)
    BY <2>5 DEF On, ToSet
  <2>11. CASE RoleAsked(Members[n]) = "a"
    <3>1. Places(n) = {}
      BY <2>1, <2>3, <2>5, <2>7, <2>11 DEF On
    <3> QED BY <2>10, <2>11, <3>1, FS_EmptySet
  <2>12. CASE RoleAsked(Members[n]) # "a"
    <3>1. PICK i \in 1 .. u + m : members[i] = n
      BY <2>1, <2>5, <2>6, <2>8, <2>12 DEF On
    <3>2. Places(n) = {i}
      BY <2>3, <2>9, <3>1
    <3> QED BY <2>10, <2>12, <3>2, FS_Singleton
  <2> QED BY <2>11, <2>12
<1> QED BY <1>1, <1>2, <1>3, PTL DEF Spec

-----------------------------------------------------------------------------
\* The table: what the unread blocks will do to it.

\* The rows a block brings, and what it does to the row of a message.
RowsOf(block) ==
    IF block.ind = "ADD_MESSAGE"
       THEN <<[id |-> block.id, name |-> block.name, text |-> block.text]>>
    ELSE IF block.ind = "SEND_INIT_MESSAGES" THEN block.rows
    ELSE <<>>

Inserts(block, id) == \E i \in DOMAIN RowsOf(block) : RowsOf(block)[i].id = id
Modifies(block, id) == block.ind = "MODIFY_MESSAGE" /\ block.id = id
Deletes(block, id) == block.ind = "DELETE_MESSAGE" /\ block.id = id
Sets(block, id) == Inserts(block, id) \/ Modifies(block, id)

RowIn(block, id) ==
    RowsOf(block)[CHOOSE i \in DOMAIN RowsOf(block) :
                      RowsOf(block)[i].id = id]
NameIn(block, id) == RowIn(block, id).name
TextIn(block, id) ==
    IF block.ind = "MODIFY_MESSAGE" THEN block.text ELSE RowIn(block, id).text

\* A block that does nothing to the rows.
Aside(block) ==
    block.ind \notin {"ADD_MESSAGE", "SEND_INIT_MESSAGES",
                      "DELETE_MESSAGE", "MODIFY_MESSAGE"}

RowIds == {row.id : row \in ToSet(m_messages)}
Shows(id, text) ==
    \E r \in DOMAIN m_messages :
        m_messages[r].id = id /\ m_messages[r].text = text

MapAgrees ==
    /\ DOMAIN m_messageIdRowNum = RowIds
    /\ \A i \in DOMAIN m_messages :
           m_messageIdRowNum[m_messages[i].id] = i - 1

\* Ids grow down the table, then along the rows of the unread blocks.
IdsGrow ==
    /\ \A r \in DOMAIN m_messages : m_messages[r].id \in 1 .. lastId
    /\ \A r, q \in DOMAIN m_messages :
           r < q => m_messages[r].id < m_messages[q].id
    /\ \A i \in DOMAIN Unread : \A id \in Nat :
           Inserts(Unread[i], id) =>
               /\ id \in 1 .. lastId
               /\ \A r \in DOMAIN m_messages : m_messages[r].id < id
    /\ \A i, j \in DOMAIN Unread : \A id, other \in Nat :
           i < j /\ Inserts(Unread[i], id) /\ Inserts(Unread[j], other) =>
               id < other

RowsGrow ==
    \A i \in DOMAIN Unread : \A p, q \in DOMAIN RowsOf(Unread[i]) :
        p < q => RowsOf(Unread[i])[p].id < RowsOf(Unread[i])[q].id

\* A deletion comes once, after the insertion.
DeletionsDue ==
    /\ \A i \in DOMAIN Unread :
           Unread[i].ind = "DELETE_MESSAGE" =>
               /\ Unread[i].id \in (1 .. lastId) \ DOMAIN store
               /\ \/ Unread[i].id \in RowIds
                  \/ \E j \in DOMAIN Unread :
                         j < i /\ Inserts(Unread[j], Unread[i].id)
    /\ \A i, j \in DOMAIN Unread :
           /\ Unread[i].ind = "DELETE_MESSAGE"
           /\ Unread[j].ind = "DELETE_MESSAGE"
           /\ Unread[i].id = Unread[j].id
           => i = j

\* What the table lacks will be inserted, what it has too much deleted.
RowsDue ==
    /\ \A id \in DOMAIN store :
           id \in RowIds \/ \E i \in DOMAIN Unread : Inserts(Unread[i], id)
    /\ \A id \in RowIds :
           \/ id \in DOMAIN store
           \/ \E i \in DOMAIN Unread : Deletes(Unread[i], id)
    /\ \A i \in DOMAIN Unread : \A id \in Nat :
           Inserts(Unread[i], id) =>
               \/ id \in DOMAIN store
               \/ \E j \in DOMAIN Unread : i < j /\ Deletes(Unread[j], id)

\* The last unread block that sets the text of a message sets it to that of
\* the store; if there is none the row has it.
TextsDue ==
    \A id \in DOMAIN store :
        \/ \E i \in DOMAIN Unread :
               /\ Sets(Unread[i], id)
               /\ TextIn(Unread[i], id) = store[id].text
               /\ \A j \in DOMAIN Unread : i < j => ~Sets(Unread[j], id)
        \/ /\ Shows(id, store[id].text)
           /\ \A i \in DOMAIN Unread : ~Sets(Unread[i], id)

\* A message has one author.
NamesDue ==
    /\ \A r \in DOMAIN m_messages :
           m_messages[r].id \in DOMAIN store =>
               m_messages[r].name = store[m_messages[r].id].name
    /\ \A i \in DOMAIN Unread : \A id \in DOMAIN store :
           Inserts(Unread[i], id) => NameIn(Unread[i], id) = store[id].name

DueInv ==
    /\ IdsGrow
    /\ RowsGrow
    /\ DeletionsDue
    /\ RowsDue
    /\ TextsDue
    /\ NamesDue

\* Before the list is sent: the rows fetched so far are those of the table,
\* and the others are yet to be read.
ListDue ==
    /\ m_messages = <<>>
    /\ m_messageIdRowNum = <<>>
    /\ \A i \in DOMAIN Unread : Aside(Unread[i])
    /\ \A i, j \in DOMAIN fetched : i < j => fetched[i].id < fetched[j].id
    /\ \A i \in DOMAIN fetched :
           /\ fetched[i].id \in DOMAIN store
           /\ fetched[i].name = store[fetched[i].id].name
           /\ fetched[i].text = store[fetched[i].id].text
    /\ \A id \in DOMAIN store :
           ToBeRead(id) \/ \E i \in DOMAIN fetched : fetched[i].id = id

WindowInv ==
    ~astray =>
        /\ outgoing = <<>>
        /\ IF ListSent THEN MapAgrees /\ DueInv ELSE ListDue

-----------------------------------------------------------------------------
\* The table and the map.

LEMMA RowsType ==
    ASSUME m_messages \in Seq(MessageRows)
    PROVE  /\ Len(m_messages) \in Nat
           /\ DOMAIN m_messages = 1 .. Len(m_messages)
           /\ \A r \in DOMAIN m_messages : m_messages[r] \in MessageRows
           /\ \A id : id \in RowIds <=>
                  \E r \in DOMAIN m_messages : m_messages[r].id = id
BY LenProperties, ElementOfSeq DEF RowIds, ToSet

\* addMessage() of rows whose ids are new.
LEMMA AddedRow ==
    ASSUME m_messages \in Seq(MessageRows), MapAgrees,
           NEW rows \in Seq(MessageRows), addMessages(rows),
           \A i, j \in DOMAIN rows : rows[i].id = rows[j].id => i = j,
           \A i \in DOMAIN rows : rows[i].id \notin RowIds
    PROVE  /\ MapAgrees'
           /\ m_messages' \in Seq(MessageRows)
           /\ DOMAIN rows = 1 .. Len(rows) /\ Len(rows) \in Nat
           /\ DOMAIN m_messages' = 1 .. Len(m_messages) + Len(rows)
           /\ \A r \in DOMAIN m_messages : m_messages'[r] = m_messages[r]
           /\ \A i \in DOMAIN rows :
                  /\ i + Len(m_messages) \in DOMAIN m_messages'
                  /\ m_messages'[i + Len(m_messages)] = rows[i]
           /\ \A r \in DOMAIN m_messages' :
                  \/ r \in DOMAIN m_messages
                  \/ \E i \in DOMAIN rows : r = i + Len(m_messages)
<1> DEFINE n == Len(m_messages)
           k == Len(rows)
           ids == {row.id : row \in ToSet(rows)}
           LastOf(id) == CHOOSE i \in DOMAIN rows :
                            /\ rows[i].id = id
                            /\ \A j \in DOMAIN rows :
                                   rows[j].id = id => j <= i
<1>1. /\ n \in Nat /\ DOMAIN m_messages = 1 .. n
      /\ k \in Nat /\ DOMAIN rows = 1 .. k
  BY RowsType, LenProperties
<1>2. /\ m_messages' = m_messages \o rows
      /\ m_messageIdRowNum' =
             [id \in DOMAIN m_messageIdRowNum \cup ids |->
                  IF id \in ids THEN n + LastOf(id) - 1
                                ELSE m_messageIdRowNum[id]]
  BY DEF addMessages
<1>3. /\ m_messages' \in Seq(MessageRows)
      /\ DOMAIN m_messages' = 1 .. n + k
      /\ \A r \in 1 .. n + k :
             m_messages'[r] = IF r <= n THEN m_messages[r] ELSE rows[r - n]
  BY <1>2, ConcatProperties, LenProperties
<1>4. \A r \in 1 .. n : r \in 1 .. n + k /\ m_messages'[r] = m_messages[r]
  BY <1>1, <1>3
<1>5. ASSUME NEW i \in 1 .. k
      PROVE  i + n \in 1 .. n + k /\ m_messages'[i + n] = rows[i]
  <2>1. i + n \in 1 .. n + k /\ ~(i + n <= n) /\ (i + n) - n = i
    BY <1>1
  <2> QED BY <1>3, <2>1
<1>6. ASSUME NEW r \in 1 .. n + k
      PROVE  r \in 1 .. n \/ \E i \in 1 .. k : r = i + n
  <2>1. r <= n \/ (r - n \in 1 .. k /\ r = (r - n) + n)
    BY <1>1
  <2> QED BY <1>1, <2>1
<1>7. \A id : id \in ids <=> \E i \in 1 .. k : rows[i].id = id
  BY <1>1 DEF ToSet
<1>8. \A i \in 1 .. k : LastOf(rows[i].id) = i
  BY <1>1
<1> HIDE DEF ids, LastOf
<1>9. DOMAIN m_messageIdRowNum' = {row.id : row \in ToSet(m_messages')}
  <2>1. DOMAIN m_messageIdRowNum' = RowIds \cup ids
    BY <1>2 DEF MapAgrees, RowIds
  <2>2. ASSUME NEW id
        PROVE  id \in RowIds \cup ids <=>
                   \E r \in 1 .. n + k : m_messages'[r].id = id
    <3>1. ASSUME NEW r \in 1 .. n, m_messages[r].id = id
          PROVE  r \in 1 .. n + k /\ m_messages'[r].id = id
      BY <1>4, <3>1
    <3>2. ASSUME NEW i \in 1 .. k, rows[i].id = id
          PROVE  i + n \in 1 .. n + k /\ m_messages'[i + n].id = id
      BY <1>5, <3>2
    <3>3. ASSUME NEW r \in 1 .. n + k, m_messages'[r].id = id
          PROVE  id \in RowIds \cup ids
      <4>1. CASE r \in 1 .. n
        BY <1>1, <1>4, <3>3, <4>1, RowsType
      <4>2. CASE \E i \in 1 .. k : r = i + n
        BY <1>5, <1>7, <3>3, <4>2
      <4> QED BY <1>6, <4>1, <4>2
    <3>4. id \in RowIds => \E r \in 1 .. n : m_messages[r].id = id
      BY <1>1, RowsType
    <3> QED BY <1>7, <3>1, <3>2, <3>3, <3>4
  <2>3. ToSet(m_messages') = {m_messages'[r] : r \in 1 .. n + k}
    BY <1>3 DEF ToSet
  <2>4. \A id : id \in {row.id : row \in ToSet(m_messages')} <=>
                    \E r \in 1 .. n + k : m_messages'[r].id = id
    BY <2>3
  <2> QED BY <2>1, <2>2, <2>4
<1>10. ASSUME NEW r \in 1 .. n + k
       PROVE  m_messageIdRowNum'[m_messages'[r].id] = r - 1
  <2>1. CASE r \in 1 .. n
    <3>1. /\ m_messages'[r].id = m_messages[r].id
          /\ m_messages[r].id \in RowIds
      BY <1>1, <1>4, <2>1, RowsType
    <3>2. m_messages[r].id \notin ids
      BY <1>1, <1>7, <3>1
    <3>3. m_messageIdRowNum[m_messages[r].id] = r - 1
      BY <1>1, <2>1 DEF MapAgrees
    <3>4. m_messages[r].id \in DOMAIN m_messageIdRowNum
      BY <3>1 DEF MapAgrees, RowIds
    <3> QED BY <1>2, <3>1, <3>2, <3>3, <3>4
  <2>2. CASE \E i \in 1 .. k : r = i + n
    <3>1. PICK i \in 1 .. k : r = i + n
      BY <2>2
    <3>2. m_messages'[r].id = rows[i].id /\ rows[i].id \in ids
      BY <1>5, <1>7, <3>1
    <3>3. m_messageIdRowNum'[rows[i].id] = n + i - 1
      BY <1>2, <1>8, <3>2
    <3> QED BY <1>1, <3>1, <3>2, <3>3
  <2> QED BY <1>6, <2>1, <2>2
<1>11. MapAgrees'
  BY <1>3, <1>9, <1>10 DEF MapAgrees, RowIds
<1> QED BY <1>1, <1>3, <1>4, <1>5, <1>6, <1>11

LEMMA DeletedRow ==
    ASSUME m_messages \in Seq(MessageRows), MapAgrees,
           NEW k \in DOMAIN m_messages, deleteMessageResponse(m_messages[k].id)
    PROVE  /\ MapAgrees'
           /\ m_messages' \in Seq(MessageRows)
           /\ \A r \in DOMAIN m_messages' :
                  \/ r < k /\ r \in DOMAIN m_messages
                           /\ m_messages'[r] = m_messages[r]
                  \/ r >= k /\ r + 1 \in DOMAIN m_messages
                            /\ m_messages'[r] = m_messages[r + 1]
           /\ \A r \in DOMAIN m_messages :
                  \/ r < k /\ r \in DOMAIN m_messages'
                           /\ m_messages'[r] = m_messages[r]
                  \/ r > k /\ r - 1 \in DOMAIN m_messages'
                           /\ m_messages'[r - 1] = m_messages[r]
                  \/ r = k
<1> DEFINE n == Len(m_messages)
           id == m_messages[k].id
<1>1. /\ n \in Nat /\ DOMAIN m_messages = 1 .. n /\ k \in 1 .. n
      /\ \A r \in 1 .. n : m_messages[r] \in MessageRows
  BY RowsType
<1>2. id \in DOMAIN m_messageIdRowNum /\ RowNum(id) = k - 1
  BY <1>1 DEF MapAgrees, RowIds, RowNum, ToSet
<1>3. m_messages' = RemoveAt(m_messages, k)
  <2>1. (k - 1) + 1 = k /\ k - 1 < n
    BY <1>1
  <2> QED BY <1>2, <2>1 DEF deleteMessageResponse, RemoveRow
<1>7. /\ m_messages' \in Seq(MessageRows)
      /\ Len(m_messages') = n - 1
      /\ \A r \in 1 .. n - 1 :
             \/ r < k /\ m_messages'[r] = m_messages[r]
             \/ r >= k /\ m_messages'[r] = m_messages[r + 1]
  BY <1>1, <1>3, RemovedAt
<1>8. DOMAIN m_messages' = 1 .. n - 1
  BY <1>7, LenProperties
<1>10. \A r \in 1 .. n - 1 :
           \/ r < k /\ r \in 1 .. n /\ m_messages'[r] = m_messages[r]
           \/ r >= k /\ r + 1 \in 1 .. n /\ m_messages'[r] = m_messages[r + 1]
  BY <1>1, <1>7
<1>11. ASSUME NEW r \in 1 .. n
       PROVE  \/ r < k /\ r \in 1 .. n - 1 /\ m_messages'[r] = m_messages[r]
              \/ r > k /\ r - 1 \in 1 .. n - 1
                       /\ m_messages'[r - 1] = m_messages[r]
              \/ r = k
  <2>1. CASE r < k
    <3>1. r \in 1 .. n - 1 /\ ~(r >= k)
      BY <1>1, <2>1
    <3> QED BY <1>7, <2>1, <3>1
  <2>2. CASE r > k
    <3>1. r - 1 \in 1 .. n - 1 /\ ~(r - 1 < k) /\ (r - 1) + 1 = r
      BY <1>1, <2>2
    <3> QED BY <1>7, <2>2, <3>1
  <2> QED BY <1>1, <2>1, <2>2
<1>12. /\ DOMAIN m_messageIdRowNum' = DOMAIN m_messageIdRowNum \ {id}
       /\ \A i \in DOMAIN m_messageIdRowNum \ {id} :
              m_messageIdRowNum'[i] =
                  IF m_messageIdRowNum[i] > k - 1
                     THEN m_messageIdRowNum[i] - 1 ELSE m_messageIdRowNum[i]
  BY <1>2 DEF deleteMessageResponse
\* The map tells two rows of one id apart: there are none.
<1>13. ASSUME NEW r \in 1 .. n, m_messages[r].id = id
       PROVE  r = k
  <2>1. r - 1 = k - 1
    BY <1>1, <1>13 DEF MapAgrees
  <2> QED BY <1>1, <2>1
<1>14. ASSUME NEW i
       PROVE  i \in DOMAIN m_messageIdRowNum' <=>
                  \E r \in 1 .. n - 1 : m_messages'[r].id = i
  <2>1. i \in DOMAIN m_messageIdRowNum <=>
            \E r \in 1 .. n : m_messages[r].id = i
    BY <1>1 DEF MapAgrees, RowIds, ToSet
  <2>2. ASSUME NEW r \in 1 .. n, m_messages[r].id = i, i # id
        PROVE  \E q \in 1 .. n - 1 : m_messages'[q].id = i
    BY <1>11, <2>2
  <2>3. ASSUME NEW q \in 1 .. n - 1, m_messages'[q].id = i
        PROVE  i # id /\ \E r \in 1 .. n : m_messages[r].id = i
    <3>1. PICK r \in 1 .. n : r # k /\ m_messages'[q] = m_messages[r]
      <4>1. q < k => q # k
        BY <1>1
      <4>2. q >= k => q + 1 # k
        BY <1>1
      <4> QED BY <1>10, <4>1, <4>2
    <3> QED BY <1>13, <2>3, <3>1
  <2> QED BY <1>12, <2>1, <2>2, <2>3
<1>15. ASSUME NEW r \in 1 .. n - 1
       PROVE  m_messageIdRowNum'[m_messages'[r].id] = r - 1
  <2>1. m_messages'[r].id \in DOMAIN m_messageIdRowNum'
    BY <1>14
  <2>2. CASE r < k /\ r \in 1 .. n /\ m_messages'[r] = m_messages[r]
    <3>1. m_messageIdRowNum[m_messages'[r].id] = r - 1 /\ ~(r - 1 > k - 1)
      BY <1>1, <2>2 DEF MapAgrees
    <3> QED BY <1>12, <2>1, <3>1
  <2>3. CASE r >= k /\ r + 1 \in 1 .. n /\ m_messages'[r] = m_messages[r + 1]
    <3>1. m_messageIdRowNum[m_messages'[r].id] = (r + 1) - 1
      BY <1>1, <2>3 DEF MapAgrees
    <3>2. (r + 1) - 1 > k - 1 /\ (r + 1) - 1 - 1 = r - 1
      BY <1>1, <2>3
    <3> QED BY <1>12, <2>1, <3>1, <3>2
  <2> QED BY <1>10, <2>2, <2>3
<1>16. MapAgrees'
  <2>1. DOMAIN m_messageIdRowNum' = {row.id : row \in ToSet(m_messages')}
    BY <1>8, <1>14 DEF ToSet
  <2> QED BY <1>8, <1>15, <2>1 DEF MapAgrees, RowIds
<1> QED BY <1>1, <1>7, <1>8, <1>10, <1>11, <1>16

LEMMA ModifiedRow ==
    ASSUME m_messages \in Seq(MessageRows), MapAgrees,
           NEW id, NEW text \in Texts, modifyResponse(id, text)
    PROVE  /\ MapAgrees'
           /\ m_messages' \in Seq(MessageRows)
           /\ DOMAIN m_messages' = DOMAIN m_messages
           /\ \A r \in DOMAIN m_messages :
                  /\ m_messages'[r].id = m_messages[r].id
                  /\ m_messages'[r].name = m_messages[r].name
                  /\ m_messages'[r].text =
                         IF m_messages[r].id = id THEN text
                                                  ELSE m_messages[r].text
<1>1. CASE id \notin DOMAIN m_messageIdRowNum
  BY <1>1, RowsType DEF modifyResponse, MapAgrees, RowIds
<1>2. CASE id \in DOMAIN m_messageIdRowNum
  <2>1. PICK k \in DOMAIN m_messages : m_messages[k].id = id
    BY <1>2, RowsType DEF MapAgrees, RowIds
  <2>2. /\ k \in 1 .. Len(m_messages)
        /\ Len(m_messages) \in Nat
        /\ DOMAIN m_messages = 1 .. Len(m_messages)
        /\ m_messages[k] \in MessageRows
    BY RowsType
  <2>3. RowNum(id) + 1 = k /\ RowNum(id) < Len(m_messages)
    BY <1>2, <2>1, <2>2 DEF RowNum, MapAgrees
  <2> DEFINE row == [m_messages[k] EXCEPT !.text = text]
  <2>4. row \in MessageRows /\ row.id = id /\ row.text = text
        /\ row.name = m_messages[k].name
    BY <2>1, <2>2 DEF MessageRows
  <2>5. m_messages' = [m_messages EXCEPT ![k] = row]
    BY <1>2, <2>3 DEF modifyResponse
  <2> HIDE DEF row
  <2>6. /\ m_messages' \in Seq(MessageRows)
        /\ DOMAIN m_messages' = DOMAIN m_messages
        /\ \A r \in DOMAIN m_messages :
               m_messages'[r] = IF r = k THEN row ELSE m_messages[r]
    BY <2>2, <2>4, <2>5, ExceptSeq
  <2>7. ASSUME NEW r \in DOMAIN m_messages, m_messages[r].id = id
        PROVE  r = k
    <3>1. r - 1 = k - 1
      BY <2>1, <2>7 DEF MapAgrees
    <3> QED BY <2>2, <3>1
  <2>8. \A r \in DOMAIN m_messages :
            /\ m_messages'[r].id = m_messages[r].id
            /\ m_messages'[r].name = m_messages[r].name
            /\ m_messages'[r].text =
                   IF m_messages[r].id = id THEN text ELSE m_messages[r].text
    BY <2>1, <2>4, <2>6, <2>7
  <2>9. MapAgrees'
    <3>1. UNCHANGED m_messageIdRowNum
      BY DEF modifyResponse
    <3>2. {row1.id : row1 \in ToSet(m_messages')}
              = {row1.id : row1 \in ToSet(m_messages)}
      BY <2>6, <2>8 DEF ToSet
    <3> QED BY <2>6, <2>8, <3>1, <3>2 DEF MapAgrees, RowIds
  <2> QED BY <2>6, <2>8, <2>9
<1> QED BY <1>1, <1>2

-----------------------------------------------------------------------------
\* What reading a block does to the rows.
-----------------------------------------------------------------------------
\* What reading a block does to the rows.

BlockRead(b) ==
    /\ MapAgrees'
    /\ m_messages' \in Seq(MessageRows)
    /\ \A id \in Nat :
           id \in RowIds' <=> \/ id \in RowIds /\ ~Deletes(b, id)
                             \/ Inserts(b, id)
    /\ \A r, q \in DOMAIN m_messages' :
           r < q => m_messages'[r].id < m_messages'[q].id
    /\ \A r \in DOMAIN m_messages' :
           /\ IF Sets(b, m_messages'[r].id)
                 THEN m_messages'[r].text = TextIn(b, m_messages'[r].id)
                 ELSE Shows(m_messages'[r].id, m_messages'[r].text)
           /\ \/ /\ Inserts(b, m_messages'[r].id)
                 /\ m_messages'[r].name = NameIn(b, m_messages'[r].id)
              \/ \E q \in DOMAIN m_messages :
                     /\ m_messages[q].id = m_messages'[r].id
                     /\ m_messages[q].name = m_messages'[r].name

\* A block that brings rows brings rows with ids; the others bring none.
LEMMA BroughtRows ==
    ASSUME NEW b \in Blocks
    PROVE  /\ RowsOf(b) \in Seq(MessageRows)
           /\ DOMAIN RowsOf(b) \subseteq Nat
           /\ \A i \in DOMAIN RowsOf(b) : RowsOf(b)[i].id \in Nat
           /\ b.ind \notin {"ADD_MESSAGE", "SEND_INIT_MESSAGES"} =>
                  \A id : ~Inserts(b, id)
<1>1. RowsOf(b) \in Seq(MessageRows)
  <2>1. CASE b.ind = "ADD_MESSAGE"
    BY <2>1, BlockFields DEF RowsOf
  <2>2. CASE b.ind = "SEND_INIT_MESSAGES"
    BY <2>2, BlockFields DEF RowsOf
  <2>3. CASE b.ind \notin {"ADD_MESSAGE", "SEND_INIT_MESSAGES"}
    BY <2>3 DEF RowsOf
  <2> QED BY <2>1, <2>2, <2>3
<1>2. /\ DOMAIN RowsOf(b) \subseteq Nat
      /\ \A i \in DOMAIN RowsOf(b) : RowsOf(b)[i] \in MessageRows
  BY <1>1, LenProperties, ElementOfSeq
<1>3. b.ind \notin {"ADD_MESSAGE", "SEND_INIT_MESSAGES"} =>
          \A id : ~Inserts(b, id)
  BY DEF Inserts, RowsOf
<1> QED BY <1>1, <1>2, <1>3, IdsAssumption DEF MessageRows, MessageIds

\* An aside does nothing to any row.
LEMMA AsideRows ==
    ASSUME NEW b \in Blocks, Aside(b)
    PROVE  \A id : ~Inserts(b, id) /\ ~Deletes(b, id) /\ ~Sets(b, id)
BY BroughtRows DEF Aside, Deletes, Modifies, Sets

\* Rows of growing ids: each is the one that is meant by its id.
LEMMA RowMeant ==
    ASSUME NEW b \in Blocks,
           \A p, q \in DOMAIN RowsOf(b) :
               p < q => RowsOf(b)[p].id < RowsOf(b)[q].id,
           NEW i \in DOMAIN RowsOf(b)
    PROVE  RowIn(b, RowsOf(b)[i].id) = RowsOf(b)[i]
<1> DEFINE rows == RowsOf(b)
<1>1. /\ DOMAIN rows \subseteq Nat
      /\ \A p \in DOMAIN rows : rows[p].id \in Nat
  BY BroughtRows
<1> HIDE DEF rows
<1>2. ASSUME NEW p \in DOMAIN rows, rows[p].id = rows[i].id, p # i
      PROVE  FALSE
  <2>1. p < i \/ i < p
    BY <1>1, <1>2 DEF rows
  <2>2. rows[p].id < rows[i].id \/ rows[i].id < rows[p].id
    BY <1>2, <2>1 DEF rows
  <2> QED BY <1>1, <1>2, <2>2 DEF rows
<1>3. (CHOOSE p \in DOMAIN rows : rows[p].id = rows[i].id) = i
  BY <1>2 DEF rows
<1> QED BY <1>3 DEF RowIn, rows

LEMMA RowIdsNat ==
    ASSUME m_messages \in Seq(MessageRows)
    PROVE  \A r \in DOMAIN m_messages : m_messages[r].id \in Nat
BY RowsType, IdsAssumption DEF MessageRows, MessageIds

\* Ids of rows after a step, when those before it are known to be numbers.
LEMMA RowIdsNext ==
    ASSUME m_messages' \in Seq(MessageRows)
    PROVE  /\ \A id : id \in RowIds' <=>
                  \E r \in DOMAIN m_messages' : m_messages'[r].id = id
           /\ \A r \in DOMAIN m_messages' : m_messages'[r].id \in Nat
           /\ DOMAIN m_messages' \subseteq Nat
<1>1. /\ DOMAIN m_messages' = 1 .. Len(m_messages')
      /\ \A r \in DOMAIN m_messages' : m_messages'[r] \in MessageRows
  BY LenProperties, ElementOfSeq
<1>2. \A r \in DOMAIN m_messages' : m_messages'[r].id \in Nat
  BY <1>1, IdsAssumption DEF MessageRows, MessageIds
<1>3. ToSet(m_messages') = {m_messages'[r] : r \in DOMAIN m_messages'}
  BY DEF ToSet
<1>4. RowIds' = {row.id : row \in ToSet(m_messages')}
  BY DEF RowIds
<1> QED BY <1>1, <1>2, <1>3, <1>4

LEMMA InsertionRead ==
    ASSUME TableTypeOK, MapAgrees, IdsGrow, NEW b \in Blocks,
           b.ind \in {"ADD_MESSAGE", "SEND_INIT_MESSAGES"},
           addMessages(RowsOf(b)),
           \A p, q \in DOMAIN RowsOf(b) :
               p < q => RowsOf(b)[p].id < RowsOf(b)[q].id,
           \A id \in Nat : Inserts(b, id) =>
               \A r \in DOMAIN m_messages : m_messages[r].id < id
    PROVE  BlockRead(b)
<1> DEFINE n == Len(m_messages)
           rows == RowsOf(b)
<1>0. /\ rows \in Seq(MessageRows)
      /\ \A id : Inserts(b, id) <=> \E i \in DOMAIN rows : rows[i].id = id
      /\ \A i, j \in DOMAIN rows : i < j => rows[i].id < rows[j].id
      /\ \A i \in DOMAIN rows :
             /\ rows[i].text = TextIn(b, rows[i].id)
             /\ rows[i].name = NameIn(b, rows[i].id)
             /\ \A r \in DOMAIN m_messages : m_messages[r].id < rows[i].id
  <2>1. \A i \in DOMAIN rows :
            RowIn(b, rows[i].id) = rows[i] /\ rows[i].id \in Nat
    BY BroughtRows, RowMeant
  <2>2. \A id : Inserts(b, id) <=> \E i \in DOMAIN rows : rows[i].id = id
    BY DEF Inserts
  <2>3. rows \in Seq(MessageRows)
    BY BroughtRows
  <2> QED BY <2>1, <2>2, <2>3 DEF TextIn, NameIn
<1>00. addMessages(rows)
  OBVIOUS
<1> HIDE DEF rows
<1>1. /\ m_messages \in Seq(MessageRows)
      /\ n \in Nat /\ DOMAIN m_messages = 1 .. n
      /\ \A r \in DOMAIN m_messages : m_messages[r].id \in Nat
  BY RowsType, RowIdsNat DEF TableTypeOK
<1>2. /\ DOMAIN rows = 1 .. Len(rows) /\ Len(rows) \in Nat
      /\ \A i \in DOMAIN rows : rows[i].id \in Nat
  <2>1. \A i \in DOMAIN rows : rows[i] \in MessageRows
    BY <1>0, LenProperties, ElementOfSeq
  <2> QED BY <1>0, <2>1, LenProperties, IdsAssumption
          DEF MessageRows, MessageIds
<1>3. \A i, j \in DOMAIN rows : rows[i].id = rows[j].id => i = j
  <2> SUFFICES ASSUME NEW i \in DOMAIN rows, NEW j \in DOMAIN rows,
                      rows[i].id = rows[j].id, i # j
               PROVE  FALSE
    OBVIOUS
  <2>1. i < j \/ j < i
    BY <1>2
  <2> QED BY <1>0, <1>2, <2>1
<1>4. ASSUME NEW i \in DOMAIN rows
      PROVE  rows[i].id \notin RowIds
  <2>1. \A r \in DOMAIN m_messages : m_messages[r].id # rows[i].id
    BY <1>0, <1>1, <1>2
  <2> QED BY <1>1, <2>1, RowsType
<1>5. /\ MapAgrees'
      /\ m_messages' \in Seq(MessageRows)
      /\ DOMAIN m_messages' = 1 .. n + Len(rows)
      /\ \A r \in DOMAIN m_messages : m_messages'[r] = m_messages[r]
      /\ \A i \in DOMAIN rows :
             /\ i + n \in DOMAIN m_messages'
             /\ m_messages'[i + n] = rows[i]
      /\ \A r \in DOMAIN m_messages' :
             r \in DOMAIN m_messages \/ \E i \in DOMAIN rows : r = i + n
  BY <1>0, <1>00, <1>1, <1>3, <1>4, AddedRow
<1>6. \A r \in DOMAIN m_messages : r \in DOMAIN m_messages'
  BY <1>1, <1>2, <1>5
<1>7. ~\E id : Deletes(b, id) \/ Modifies(b, id)
  BY DEF Deletes, Modifies
<1>8. ASSUME NEW id \in Nat
      PROVE  id \in RowIds' <=> \/ id \in RowIds /\ ~Deletes(b, id)
                               \/ Inserts(b, id)
  <2>1. id \in RowIds' <=> \E r \in DOMAIN m_messages' : m_messages'[r].id = id
    BY <1>5, RowIdsNext
  <2>2. id \in RowIds <=> \E r \in DOMAIN m_messages : m_messages[r].id = id
    BY <1>1, RowsType
  <2>3. ASSUME NEW r \in DOMAIN m_messages', m_messages'[r].id = id
        PROVE  id \in RowIds \/ Inserts(b, id)
    BY <1>0, <1>5, <2>2, <2>3
  <2>4. id \in RowIds => id \in RowIds'
    BY <1>5, <1>6, <2>1, <2>2
  <2>5. ASSUME Inserts(b, id)
        PROVE  id \in RowIds'
    <3>1. PICK i \in DOMAIN rows : rows[i].id = id
      BY <1>0, <2>5
    <3>2. i + n \in DOMAIN m_messages' /\ m_messages'[i + n].id = id
      BY <1>5, <3>1
    <3> QED BY <2>1, <3>2
  <2> QED BY <1>7, <2>1, <2>3, <2>4, <2>5
<1>9. ASSUME NEW r \in DOMAIN m_messages', NEW q \in DOMAIN m_messages', r < q
      PROVE  m_messages'[r].id < m_messages'[q].id
  <2>1. CASE r \in DOMAIN m_messages /\ q \in DOMAIN m_messages
    BY <1>5, <1>9, <2>1 DEF IdsGrow
  <2>2. CASE r \in DOMAIN m_messages /\ \E i \in DOMAIN rows : q = i + n
    BY <1>0, <1>5, <2>2
  <2>3. CASE /\ \E i \in DOMAIN rows : r = i + n
             /\ \E i \in DOMAIN rows : q = i + n
    <3>1. PICK i \in DOMAIN rows, j \in DOMAIN rows : r = i + n /\ q = j + n
      BY <2>3
    <3>2. i < j
      BY <1>1, <1>2, <1>9, <3>1
    <3> QED BY <1>0, <1>5, <3>1, <3>2
  <2>4. CASE (\E i \in DOMAIN rows : r = i + n) /\ q \in DOMAIN m_messages
    BY <1>1, <1>2, <1>9, <2>4
  <2> QED BY <1>5, <2>1, <2>2, <2>3, <2>4
<1>10. ASSUME NEW r \in DOMAIN m_messages'
       PROVE  /\ IF Sets(b, m_messages'[r].id)
                    THEN m_messages'[r].text = TextIn(b, m_messages'[r].id)
                    ELSE Shows(m_messages'[r].id, m_messages'[r].text)
              /\ \/ /\ Inserts(b, m_messages'[r].id)
                    /\ m_messages'[r].name = NameIn(b, m_messages'[r].id)
                 \/ \E q \in DOMAIN m_messages :
                        /\ m_messages[q].id = m_messages'[r].id
                        /\ m_messages[q].name = m_messages'[r].name
  <2>1. CASE r \in DOMAIN m_messages
    <3>1. m_messages[r].id \in Nat /\ m_messages[r].id \in RowIds
      BY <1>1, <2>1, RowsType
    <3>2. ~Inserts(b, m_messages[r].id)
      BY <1>0, <1>4, <3>1
    <3>3. ~Sets(b, m_messages[r].id)
      BY <1>7, <3>2 DEF Sets
    <3>4. Shows(m_messages[r].id, m_messages[r].text)
      BY <2>1 DEF Shows
    <3> QED BY <1>5, <2>1, <3>3, <3>4
  <2>2. CASE \E i \in DOMAIN rows : r = i + n
    <3>1. PICK i \in DOMAIN rows : r = i + n
      BY <2>2
    <3>2. m_messages'[r] = rows[i] /\ rows[i].id \in Nat
      BY <1>2, <1>5, <3>1
    <3>3. Inserts(b, rows[i].id) /\ Sets(b, rows[i].id)
      BY <1>0 DEF Sets
    <3> QED BY <1>0, <3>2, <3>3
  <2> QED BY <1>5, <2>1, <2>2
<1> QED BY <1>5, <1>8, <1>9, <1>10 DEF BlockRead

LEMMA DeletionRead ==
    ASSUME TableTypeOK, MapAgrees, IdsGrow,
           NEW b \in Blocks, b.ind = "DELETE_MESSAGE", b.id \in RowIds,
           deleteMessageResponse(b.id)
    PROVE  BlockRead(b)
<1>1. /\ m_messages \in Seq(MessageRows)
      /\ DOMAIN m_messages \subseteq Nat
      /\ \A r \in DOMAIN m_messages : m_messages[r].id \in Nat
  BY RowsType, RowIdsNat DEF TableTypeOK
<1>2. PICK k \in DOMAIN m_messages : m_messages[k].id = b.id
  BY <1>1, RowsType
<1>3. /\ MapAgrees'
      /\ m_messages' \in Seq(MessageRows)
      /\ \A r \in DOMAIN m_messages' :
             \/ r < k /\ r \in DOMAIN m_messages
                      /\ m_messages'[r] = m_messages[r]
             \/ r >= k /\ r + 1 \in DOMAIN m_messages
                       /\ m_messages'[r] = m_messages[r + 1]
      /\ \A r \in DOMAIN m_messages :
             \/ r < k /\ r \in DOMAIN m_messages'
                      /\ m_messages'[r] = m_messages[r]
             \/ r > k /\ r - 1 \in DOMAIN m_messages'
                      /\ m_messages'[r - 1] = m_messages[r]
             \/ r = k
  BY <1>1, <1>2, DeletedRow
<1>4. DOMAIN m_messages' \subseteq Nat
  BY <1>3, RowIdsNext
<1>5. ASSUME NEW r \in DOMAIN m_messages, r # k
      PROVE  m_messages[r].id # b.id
  <2>1. r < k \/ k < r
    BY <1>1, <1>5
  <2> QED BY <1>1, <1>2, <2>1 DEF IdsGrow
<1>6. ASSUME NEW r \in DOMAIN m_messages'
      PROVE  \E q \in DOMAIN m_messages :
                 q # k /\ m_messages'[r] = m_messages[q]
  <2>1. (r < k => r # k) /\ (r >= k => r + 1 # k)
    BY <1>1, <1>4
  <2> QED BY <1>3, <2>1
<1>7. ~\E id : Inserts(b, id) \/ Modifies(b, id)
  BY BroughtRows DEF Modifies
<1>8. ASSUME NEW id \in Nat
      PROVE  id \in RowIds' <=> \/ id \in RowIds /\ ~Deletes(b, id)
                               \/ Inserts(b, id)
  <2>1. id \in RowIds' <=> \E r \in DOMAIN m_messages' : m_messages'[r].id = id
    BY <1>3, RowIdsNext
  <2>2. id \in RowIds <=> \E r \in DOMAIN m_messages : m_messages[r].id = id
    BY <1>1, RowsType
  <2>3. Deletes(b, id) <=> id = b.id
    BY DEF Deletes
  <2>4. id \in RowIds' => id \in RowIds /\ id # b.id
    BY <1>5, <1>6, <2>1, <2>2
  <2>5. ASSUME NEW r \in DOMAIN m_messages, m_messages[r].id = id, id # b.id
        PROVE  id \in RowIds'
    BY <1>2, <1>3, <2>1, <2>5
  <2> QED BY <1>7, <2>2, <2>3, <2>4, <2>5
<1>9. ASSUME NEW r \in DOMAIN m_messages', NEW q \in DOMAIN m_messages', r < q
      PROVE  m_messages'[r].id < m_messages'[q].id
  <2>1. PICK i \in DOMAIN m_messages, j \in DOMAIN m_messages :
            /\ i < j
            /\ m_messages'[r] = m_messages[i]
            /\ m_messages'[q] = m_messages[j]
    <3>1. r < k /\ q >= k => r < q + 1
      BY <1>1, <1>4
    <3>2. r >= k /\ q >= k => r + 1 < q + 1
      BY <1>1, <1>4, <1>9
    <3>3. ~(r >= k /\ q < k)
      BY <1>1, <1>4, <1>9
    <3> QED BY <1>3, <1>9, <3>1, <3>2, <3>3
  <2> QED BY <2>1 DEF IdsGrow
<1>10. ASSUME NEW r \in DOMAIN m_messages'
       PROVE  /\ ~Sets(b, m_messages'[r].id)
              /\ Shows(m_messages'[r].id, m_messages'[r].text)
              /\ \E q \in DOMAIN m_messages :
                     /\ m_messages[q].id = m_messages'[r].id
                     /\ m_messages[q].name = m_messages'[r].name
  BY <1>6, <1>7 DEF Sets, Shows
<1> QED BY <1>3, <1>8, <1>9, <1>10 DEF BlockRead

LEMMA ModificationRead ==
    ASSUME TableTypeOK, MapAgrees, IdsGrow,
           NEW b \in Blocks, b.ind = "MODIFY_MESSAGE", b.text \in Texts,
           modifyResponse(b.id, b.text)
    PROVE  BlockRead(b)
<1>1. m_messages \in Seq(MessageRows)
  BY DEF TableTypeOK
<1>2. /\ MapAgrees'
      /\ m_messages' \in Seq(MessageRows)
      /\ DOMAIN m_messages' = DOMAIN m_messages
      /\ \A r \in DOMAIN m_messages :
             /\ m_messages'[r].id = m_messages[r].id
             /\ m_messages'[r].name = m_messages[r].name
             /\ m_messages'[r].text =
                    IF m_messages[r].id = b.id THEN b.text
                                               ELSE m_messages[r].text
  BY <1>1, ModifiedRow
<1>3. \A id : /\ ~Inserts(b, id) /\ ~Deletes(b, id)
              /\ Sets(b, id) <=> id = b.id
              /\ TextIn(b, id) = b.text
  BY BroughtRows DEF Deletes, Modifies, Sets, TextIn
<1>4. \A id : id \in RowIds' <=> id \in RowIds
  BY <1>1, <1>2, RowsType, RowIdsNext
<1>5. \A r, q \in DOMAIN m_messages' :
          r < q => m_messages'[r].id < m_messages'[q].id
  BY <1>2 DEF IdsGrow
<1>6. ASSUME NEW r \in DOMAIN m_messages'
      PROVE  /\ IF Sets(b, m_messages'[r].id)
                   THEN m_messages'[r].text = TextIn(b, m_messages'[r].id)
                   ELSE Shows(m_messages'[r].id, m_messages'[r].text)
             /\ \E q \in DOMAIN m_messages :
                    /\ m_messages[q].id = m_messages'[r].id
                    /\ m_messages[q].name = m_messages'[r].name
  <2>1. CASE m_messages[r].id = b.id
    BY <1>2, <1>3, <2>1
  <2>2. CASE m_messages[r].id # b.id
    <3>1. Shows(m_messages[r].id, m_messages[r].text)
      BY <1>2 DEF Shows
    <3> QED BY <1>2, <1>3, <2>2, <3>1
  <2> QED BY <2>1, <2>2
<1> QED BY <1>2, <1>3, <1>4, <1>5, <1>6 DEF BlockRead

LEMMA ReadEffect ==
    ASSUME TableTypeOK, MapAgrees, DueInv, ReadBlock
    PROVE  BlockRead(Head(buffer))
<1> DEFINE b == Head(buffer)
<1>1. /\ HandleBlock(b)
      /\ b \in Blocks
      /\ 1 \in DOMAIN Unread /\ Unread[1] = b
      /\ DOMAIN Unread \subseteq Nat
  BY ReadShrinks, UnreadType DEF ReadBlock, UnreadShrinks
<1> HIDE DEF b
<1>2. CASE b.ind \in {"ADD_MESSAGE", "SEND_INIT_MESSAGES"}
  <2>1. addMessages(RowsOf(b))
    BY <1>1, <1>2 DEF HandleBlock, addMessage, RowsOf
  <2>2. \A p, q \in DOMAIN RowsOf(b) :
            p < q => RowsOf(b)[p].id < RowsOf(b)[q].id
    BY <1>1 DEF DueInv, RowsGrow
  <2>3. \A id \in Nat : Inserts(b, id) =>
            \A r \in DOMAIN m_messages : m_messages[r].id < id
    BY <1>1 DEF DueInv, IdsGrow
  <2> QED BY <1>1, <1>2, <2>1, <2>2, <2>3, InsertionRead DEF DueInv, b
<1>4. CASE b.ind = "DELETE_MESSAGE"
  <2>1. b.id \in RowIds
    <3>1. ~\E j \in DOMAIN Unread : j < 1
      BY <1>1, UnreadType
    <3> QED BY <1>1, <1>4, <3>1 DEF DueInv, DeletionsDue
  <2>2. deleteMessageResponse(b.id)
    BY <1>1, <1>4 DEF HandleBlock
  <2> QED BY <1>1, <1>4, <2>1, <2>2, DeletionRead DEF DueInv, b
<1>5. CASE b.ind = "MODIFY_MESSAGE"
  <2>1. modifyResponse(b.id, b.text) /\ b.text \in Texts
    BY <1>1, <1>5, BlockFields DEF HandleBlock
  <2> QED BY <1>1, <1>5, <2>1, ModificationRead DEF DueInv, b
<1>6. CASE Aside(b)
  <2>1. UNCHANGED <<m_messages, m_messageIdRowNum>>
    BY <1>1, <1>6 DEF HandleBlock, Aside, tableVars
  <2>2. \A id : ~Inserts(b, id) /\ ~Deletes(b, id) /\ ~Sets(b, id)
    BY <1>1, <1>6, AsideRows
  <2>3. MapAgrees' /\ RowIds' = RowIds
    BY <2>1 DEF MapAgrees, RowIds
  <2>4. \A r \in DOMAIN m_messages : Shows(m_messages[r].id, m_messages[r].text)
    BY DEF Shows
  <2> QED BY <2>1, <2>2, <2>3, <2>4
          DEF BlockRead, DueInv, IdsGrow, TableTypeOK, b
<1> QED BY <1>2, <1>4, <1>5, <1>6 DEF b, Aside

-----------------------------------------------------------------------------
\* A block less to be read.

LEMMA ReadKeepsDue ==
    ASSUME TableTypeOK, MapAgrees, DueInv, ReadBlock
    PROVE  MapAgrees' /\ DueInv'
<1> DEFINE b == Head(buffer)
<1>1. UnreadShrinks(b) /\ BlockRead(b) /\ b \in Blocks
      /\ buffer' \in Seq(Blocks)
  BY ReadShrinks, ReadEffect
<1> HIDE DEF b
<1>2. UNCHANGED <<store, lastId, network>>
  BY DEF ReadBlock, serverVars, mainVars
<1>3. /\ DOMAIN Unread \subseteq Nat
      /\ 1 \in DOMAIN Unread /\ Unread[1] = b
      /\ \A i \in DOMAIN Unread : i = 1 \/ i > 1
  BY <1>1, UnreadType DEF UnreadShrinks
<1>4. TableTypeOK' /\ MapAgrees'
  BY <1>1, <1>2 DEF TableTypeOK, BlockRead
<1>5. DOMAIN Unread' \subseteq Nat \ {0}
  <2>1. Unread' \in Seq(Blocks)
    BY <1>1, <1>2, ConcatProperties DEF TableTypeOK, Unread
  <2> QED BY <2>1, LenProperties
<1>6. /\ \A i \in DOMAIN Unread' :
             /\ i + 1 \in DOMAIN Unread /\ i + 1 > 1
             /\ Unread'[i] = Unread[i + 1]
      /\ \A i \in DOMAIN Unread :
             i > 1 => i - 1 \in DOMAIN Unread' /\ Unread'[i - 1] = Unread[i]
  <2>1. \A i \in DOMAIN Unread' : i + 1 > 1
    BY <1>5
  <2> QED BY <1>1, <2>1 DEF UnreadShrinks
<1>7. /\ \A id : id \in RowIds' <=>
             \E r \in DOMAIN m_messages' : m_messages'[r].id = id
      /\ \A r \in DOMAIN m_messages' : m_messages'[r].id \in Nat
      /\ RowIds' \subseteq Nat
  BY <1>1, RowIdsNext DEF BlockRead
<1>8. /\ \A id : id \in RowIds <=>
             \E r \in DOMAIN m_messages : m_messages[r].id = id
      /\ RowIds \subseteq Nat
  BY RowsType, RowIdsNat DEF TableTypeOK
<1>9. lastId \in Nat /\ DOMAIN store \subseteq Nat
  BY IdsAssumption DEF TableTypeOK, MessageIds
<1>10. \A id \in Nat :
           id \in RowIds' <=> \/ id \in RowIds /\ ~Deletes(b, id)
                             \/ Inserts(b, id)
  BY <1>1 DEF BlockRead
<1>11. IdsGrow'
  <2>1. \A id \in RowIds : id \in 1 .. lastId
    BY <1>8 DEF DueInv, IdsGrow
  <2>2. \A id \in RowIds' : id \in 1 .. lastId
    BY <1>3, <1>7, <1>10, <2>1 DEF DueInv, IdsGrow
  <2>3. \A r \in DOMAIN m_messages' : m_messages'[r].id \in 1 .. lastId
    BY <1>7, <2>2
  <2>4. \A r, q \in DOMAIN m_messages' :
            r < q => m_messages'[r].id < m_messages'[q].id
    BY <1>1 DEF BlockRead
  <2>5. ASSUME NEW i \in DOMAIN Unread', NEW id \in Nat,
               Inserts(Unread'[i], id)
        PROVE  /\ id \in 1 .. lastId
               /\ \A r \in DOMAIN m_messages' : m_messages'[r].id < id
    <3>1. PICK k \in DOMAIN Unread : 1 < k /\ Unread'[i] = Unread[k]
      BY <1>3, <1>5, <1>6
    <3>2. id \in 1 .. lastId
      BY <2>5, <3>1 DEF DueInv, IdsGrow
    <3>3. \A other \in RowIds : other < id
      BY <1>8, <2>5, <3>1 DEF DueInv, IdsGrow
    <3>4. \A other \in Nat : Inserts(b, other) => other < id
      BY <1>3, <2>5, <3>1 DEF DueInv, IdsGrow
    <3>5. \A r \in DOMAIN m_messages' : m_messages'[r].id < id
      BY <1>7, <1>10, <3>3, <3>4
    <3> QED BY <3>2, <3>5
  <2>6. ASSUME NEW i \in DOMAIN Unread', NEW j \in DOMAIN Unread', i < j,
               NEW id \in Nat, NEW other \in Nat,
               Inserts(Unread'[i], id), Inserts(Unread'[j], other)
        PROVE  id < other
    <3>1. i + 1 < j + 1
      BY <1>5, <2>6
    <3> QED BY <1>6, <2>6, <3>1 DEF DueInv, IdsGrow
  <2> QED BY <1>2, <2>3, <2>4, <2>5, <2>6 DEF IdsGrow
<1>12. DeletionsDue'
  <2>1. ASSUME NEW i \in DOMAIN Unread', Unread'[i].ind = "DELETE_MESSAGE"
        PROVE  /\ Unread'[i].id \in (1 .. lastId) \ DOMAIN store
               /\ \/ Unread'[i].id \in RowIds'
                  \/ \E j \in DOMAIN Unread' :
                         j < i /\ Inserts(Unread'[j], Unread'[i].id)
    <3>1. PICK k \in DOMAIN Unread :
              k = i + 1 /\ 1 < k /\ Unread'[i] = Unread[k]
      BY <1>6
    <3>2. Unread[k].id \in (1 .. lastId) \ DOMAIN store
      BY <2>1, <3>1 DEF DueInv, DeletionsDue
    <3>3. Unread[k].id \in Nat /\ ~Deletes(b, Unread[k].id)
      <4>1. b.ind = "DELETE_MESSAGE" => b.id # Unread[k].id
        BY <1>3, <2>1, <3>1 DEF DueInv, DeletionsDue
      <4> QED BY <3>2, <4>1 DEF Deletes
    <3>4. CASE Unread[k].id \in RowIds
      BY <1>10, <3>1, <3>2, <3>3, <3>4
    <3>5. CASE \E j \in DOMAIN Unread :
                  j < k /\ Inserts(Unread[j], Unread[k].id)
      <4>1. PICK j \in DOMAIN Unread : j < k /\ Inserts(Unread[j], Unread[k].id)
        BY <3>5
      <4>2. CASE j = 1
        BY <1>3, <1>10, <3>1, <3>2, <3>3, <4>1, <4>2
      <4>3. CASE j > 1
        <5>1. j - 1 \in DOMAIN Unread' /\ Unread'[j - 1] = Unread[j]
          BY <1>6, <4>3
        <5>2. j - 1 < i
          BY <1>3, <1>5, <3>1, <4>1
        <5> QED BY <3>1, <3>2, <4>1, <5>1, <5>2
      <4> QED BY <1>3, <4>2, <4>3
    <3> QED BY <2>1, <3>1, <3>4, <3>5 DEF DueInv, DeletionsDue
  <2>2. ASSUME NEW i \in DOMAIN Unread', NEW j \in DOMAIN Unread',
               Unread'[i].ind = "DELETE_MESSAGE",
               Unread'[j].ind = "DELETE_MESSAGE",
               Unread'[i].id = Unread'[j].id
        PROVE  i = j
    <3>1. i + 1 = j + 1
      BY <1>6, <2>2 DEF DueInv, DeletionsDue
    <3> QED BY <1>5, <3>1
  <2> QED BY <1>2, <2>1, <2>2 DEF DeletionsDue
\* A message of the store is in no deletion.
<1>13. \A id \in DOMAIN store : \A i \in DOMAIN Unread : ~Deletes(Unread[i], id)
  BY DEF DueInv, DeletionsDue, Deletes
<1>14. RowsDue'
  <2>1. ASSUME NEW id \in DOMAIN store
        PROVE  \/ id \in RowIds'
               \/ \E i \in DOMAIN Unread' : Inserts(Unread'[i], id)
    <3>1. CASE id \in RowIds
      BY <1>3, <1>9, <1>10, <1>13, <3>1
    <3>2. CASE \E i \in DOMAIN Unread : Inserts(Unread[i], id)
      BY <1>3, <1>6, <1>9, <1>10, <3>2
    <3> QED BY <3>1, <3>2 DEF DueInv, RowsDue
  <2>2. ASSUME NEW id \in RowIds'
        PROVE  \/ id \in DOMAIN store
               \/ \E i \in DOMAIN Unread' : Deletes(Unread'[i], id)
    <3>1. \/ id \in DOMAIN store
          \/ \E i \in DOMAIN Unread : i > 1 /\ Deletes(Unread[i], id)
      BY <1>3, <1>7, <1>10 DEF DueInv, RowsDue
    <3> QED BY <1>6, <3>1
  <2>3. ASSUME NEW i \in DOMAIN Unread', NEW id \in Nat,
               Inserts(Unread'[i], id)
        PROVE  \/ id \in DOMAIN store
               \/ \E j \in DOMAIN Unread' : i < j /\ Deletes(Unread'[j], id)
    <3>1. PICK k \in DOMAIN Unread :
              k = i + 1 /\ 1 < k /\ Unread'[i] = Unread[k]
      BY <1>6
    <3>2. CASE \E j \in DOMAIN Unread : k < j /\ Deletes(Unread[j], id)
      <4>1. PICK j \in DOMAIN Unread : k < j /\ Deletes(Unread[j], id)
        BY <3>2
      <4>2. j > 1 /\ i < j - 1
        BY <1>3, <1>5, <3>1, <4>1
      <4> QED BY <1>6, <4>1, <4>2
    <3> QED BY <2>3, <3>1, <3>2 DEF DueInv, RowsDue
  <2> QED BY <1>2, <2>1, <2>2, <2>3 DEF RowsDue
<1>15. TextsDue'
  <2>1. ASSUME NEW id \in DOMAIN store
        PROVE  \/ \E i \in DOMAIN Unread' :
                      /\ Sets(Unread'[i], id)
                      /\ TextIn(Unread'[i], id) = store[id].text
                      /\ \A j \in DOMAIN Unread' :
                             i < j => ~Sets(Unread'[j], id)
               \/ /\ Shows(id, store[id].text)'
                  /\ \A i \in DOMAIN Unread' : ~Sets(Unread'[i], id)
    <3>1. id \in Nat /\ ~Deletes(b, id)
      BY <1>3, <1>9, <1>13
    <3>2. CASE /\ Sets(b, id)
               /\ TextIn(b, id) = store[id].text
               /\ \A j \in DOMAIN Unread : 1 < j => ~Sets(Unread[j], id)
      <4>1. id \in RowIds \/ Inserts(b, id)
        BY <1>3, <3>2 DEF DueInv, RowsDue, Sets
      <4>2. PICK r \in DOMAIN m_messages' : m_messages'[r].id = id
        BY <1>7, <1>10, <3>1, <4>1
      <4>3. m_messages'[r].text = store[id].text
        BY <1>1, <3>2, <4>2 DEF BlockRead
      <4>4. \A i \in DOMAIN Unread' : ~Sets(Unread'[i], id)
        BY <1>6, <3>2
      <4> QED BY <1>2, <4>2, <4>3, <4>4 DEF Shows
    <3>3. CASE \E i \in DOMAIN Unread :
                   /\ i > 1
                   /\ Sets(Unread[i], id)
                   /\ TextIn(Unread[i], id) = store[id].text
                   /\ \A j \in DOMAIN Unread : i < j => ~Sets(Unread[j], id)
      <4>1. PICK i \in DOMAIN Unread :
                /\ i > 1
                /\ Sets(Unread[i], id)
                /\ TextIn(Unread[i], id) = store[id].text
                /\ \A j \in DOMAIN Unread : i < j => ~Sets(Unread[j], id)
        BY <3>3
      <4>2. i - 1 \in DOMAIN Unread' /\ Unread'[i - 1] = Unread[i]
        BY <1>6, <4>1
      <4>3. ASSUME NEW j \in DOMAIN Unread', i - 1 < j
            PROVE  ~Sets(Unread'[j], id)
        <5>1. i < j + 1
          BY <1>3, <1>5, <4>3
        <5> QED BY <1>6, <4>1, <5>1
      <4> QED BY <4>1, <4>2, <4>3
    <3>4. CASE /\ Shows(id, store[id].text)
               /\ \A i \in DOMAIN Unread : ~Sets(Unread[i], id)
      <4>1. id \in RowIds
        BY <1>8, <3>4 DEF Shows
      <4>2. PICK r \in DOMAIN m_messages' : m_messages'[r].id = id
        BY <1>7, <1>10, <3>1, <4>1
      <4>3. Shows(id, m_messages'[r].text)
        BY <1>1, <1>3, <3>4, <4>2 DEF BlockRead
      <4>4. \A q, p \in DOMAIN m_messages :
                m_messages[q].id = id /\ m_messages[p].id = id => q = p
        <5> SUFFICES ASSUME NEW q \in DOMAIN m_messages,
                            NEW p \in DOMAIN m_messages,
                            m_messages[q].id = id, m_messages[p].id = id,
                            q # p
                     PROVE  FALSE
          OBVIOUS
        <5>1. q < p \/ p < q
          BY RowsType DEF TableTypeOK
        <5> QED BY <3>1, <5>1 DEF DueInv, IdsGrow
      <4>5. m_messages'[r].text = store[id].text
        BY <3>4, <4>3, <4>4 DEF Shows
      <4>6. \A i \in DOMAIN Unread' : ~Sets(Unread'[i], id)
        BY <1>6, <3>4
      <4> QED BY <1>2, <4>2, <4>5, <4>6 DEF Shows
    <3> QED BY <1>3, <3>2, <3>3, <3>4 DEF DueInv, TextsDue
  <2> QED BY <1>2, <2>1 DEF TextsDue
<1>16. RowsGrow'
  BY <1>6 DEF DueInv, RowsGrow
<1>17. NamesDue'
  <2>1. ASSUME NEW r \in DOMAIN m_messages', m_messages'[r].id \in DOMAIN store
        PROVE  m_messages'[r].name = store[m_messages'[r].id].name
    <3>1. CASE /\ Inserts(b, m_messages'[r].id)
               /\ m_messages'[r].name = NameIn(b, m_messages'[r].id)
      BY <1>3, <2>1, <3>1 DEF DueInv, NamesDue
    <3>2. CASE \E q \in DOMAIN m_messages :
                   /\ m_messages[q].id = m_messages'[r].id
                   /\ m_messages[q].name = m_messages'[r].name
      BY <2>1, <3>2 DEF DueInv, NamesDue
    <3> QED BY <1>1, <3>1, <3>2 DEF BlockRead
  <2>2. ASSUME NEW i \in DOMAIN Unread', NEW id \in DOMAIN store,
               Inserts(Unread'[i], id)
        PROVE  NameIn(Unread'[i], id) = store[id].name
    BY <1>6, <2>2 DEF DueInv, NamesDue
  <2> QED BY <1>2, <2>1, <2>2 DEF NamesDue
<1> QED BY <1>4, <1>11, <1>12, <1>14, <1>15, <1>16, <1>17 DEF DueInv

-----------------------------------------------------------------------------
\* A block more.

\* A block is sent, and nothing is read.
Told(block) ==
    /\ network' = Append(network, block)
    /\ UNCHANGED <<buffer, m_messages, m_messageIdRowNum>>

LEMMA PublishedAt ==
    ASSUME TableTypeOK, NEW block, UnreadGrows(block)
    PROVE  /\ DOMAIN Unread \subseteq Nat
           /\ Len(Unread) + 1 \notin DOMAIN Unread
           /\ Len(Unread) + 1 \in DOMAIN Unread'
           /\ Unread'[Len(Unread) + 1] = block
           /\ \A i \in DOMAIN Unread :
                  /\ i \in DOMAIN Unread'
                  /\ i < Len(Unread) + 1
                  /\ Unread'[i] = Unread[i]
           /\ \A i \in DOMAIN Unread' :
                  i \in DOMAIN Unread \/ i = Len(Unread) + 1
BY UnreadType DEF UnreadGrows

\* What the cases share.
LEMMA PublishedBlock ==
    ASSUME TableTypeOK, NEW block \in Blocks, Told(block)
    PROVE  /\ RowIds' = RowIds
           /\ \A id, t : Shows(id, t)' <=> Shows(id, t)
           /\ \E n \in Nat :
                  /\ n \notin DOMAIN Unread
                  /\ n \in DOMAIN Unread' /\ Unread'[n] = block
                  /\ \A i \in DOMAIN Unread :
                         i \in DOMAIN Unread' /\ i < n /\ Unread'[i] = Unread[i]
                  /\ \A i \in DOMAIN Unread' : i \in DOMAIN Unread \/ i = n
                  /\ \A i \in DOMAIN Unread' : ~(n < i)
<1>1. UnreadGrows(block)
  BY NetworkGrows DEF Told
<1>2. UNCHANGED m_messages
  BY DEF Told
<1> DEFINE n == Len(Unread) + 1
<1>3. /\ n \in Nat
      /\ n \notin DOMAIN Unread
      /\ n \in DOMAIN Unread' /\ Unread'[n] = block
      /\ \A i \in DOMAIN Unread :
             i \in DOMAIN Unread' /\ i < n /\ Unread'[i] = Unread[i]
      /\ \A i \in DOMAIN Unread' : i \in DOMAIN Unread \/ i = n
  BY <1>1, PublishedAt, UnreadType
<1> HIDE DEF n
<1>4. \A i \in DOMAIN Unread' : ~(n < i)
  BY <1>3, UnreadType
<1>5. RowIds' = RowIds /\ \A id, t : Shows(id, t)' <=> Shows(id, t)
  BY <1>2 DEF RowIds, Shows
<1> QED BY <1>1, <1>2, <1>3, <1>4, <1>5

LEMMA MessagePublished ==
    ASSUME TableTypeOK, DueInv, NEW text \in Texts, NEW user \in Users,
           lastId < MaxMessageId, lastId' = lastId + 1,
           store' = [i \in DOMAIN store \cup {lastId'} |->
                        IF i = lastId' THEN [name |-> user, text |-> text]
                                       ELSE store[i]],
           Told([ind |-> "ADD_MESSAGE", id |-> lastId', name |-> user,
                 text |-> text])
    PROVE  DueInv'
<1> DEFINE new == lastId + 1
           block == [ind |-> "ADD_MESSAGE", id |-> new, name |-> user,
                     text |-> text]
<1>2. /\ lastId' = new /\ lastId \in Nat /\ new \in MessageIds
      /\ \A id \in DOMAIN store : id \in 1 .. lastId
  BY IdsAssumption DEF TableTypeOK, MessageIds
<1>3. block \in Blocks /\ Told(block)
  BY <1>2 DEF Blocks, Broadcasts
<1>6. /\ block.ind = "ADD_MESSAGE"
      /\ DOMAIN RowsOf(block) = {1}
      /\ \A id : Inserts(block, id) <=> id = new
      /\ \A id : Sets(block, id) <=> id = new
      /\ \A id : ~Deletes(block, id)
      /\ TextIn(block, new) = text
      /\ NameIn(block, new) = user
  <2> DEFINE row == [id |-> new, name |-> user, text |-> text]
  <2>1. RowsOf(block) = <<row>>
    BY DEF RowsOf
  <2>2. row.id = new /\ row.name = user /\ row.text = text
    OBVIOUS
  <2> HIDE DEF row
  <2>3. DOMAIN RowsOf(block) = {1} /\ RowsOf(block)[1] = row
    BY <2>1
  <2>4. \A id : Inserts(block, id) <=> id = new
    BY <2>2, <2>3 DEF Inserts
  <2>5. RowIn(block, new) = row
    BY <2>2, <2>3 DEF RowIn
  <2> QED BY <2>2, <2>3, <2>4, <2>5
          DEF Modifies, Sets, Deletes, TextIn, NameIn
<1> HIDE DEF block
<1>7. /\ DOMAIN store' = DOMAIN store \cup {new}
      /\ store'[new].text = text /\ store'[new].name = user
      /\ \A id \in DOMAIN store : store'[id] = store[id] /\ id # new
  BY <1>2
<1>5. UNCHANGED m_messages
  BY DEF Told
<1> HIDE DEF new
<1>8. PICK n \in Nat :
          /\ n \notin DOMAIN Unread
          /\ n \in DOMAIN Unread' /\ Unread'[n] = block
          /\ \A i \in DOMAIN Unread :
                 i \in DOMAIN Unread' /\ i < n /\ Unread'[i] = Unread[i]
          /\ \A i \in DOMAIN Unread' : i \in DOMAIN Unread \/ i = n
          /\ \A i \in DOMAIN Unread' : ~(n < i)
  BY <1>3, PublishedBlock
<1>9. RowIds' = RowIds /\ \A id, t : Shows(id, t)' <=> Shows(id, t)
  BY <1>3, PublishedBlock
<1>10. new \in Nat /\ \A id \in 1 .. lastId : id \in 1 .. new /\ id < new
  BY <1>2 DEF new
<1>11. new \in 1 .. new
  BY <1>2 DEF new
<1>12. IdsGrow'
  <2>1. \A r \in DOMAIN m_messages :
            m_messages[r].id \in 1 .. new /\ m_messages[r].id < new
    BY <1>10 DEF DueInv, IdsGrow
  <2>2. ASSUME NEW i \in DOMAIN Unread', NEW id \in Nat, Inserts(Unread'[i], id)
        PROVE  /\ id \in 1 .. new
               /\ \A r \in DOMAIN m_messages : m_messages[r].id < id
    <3>1. CASE i \in DOMAIN Unread
      BY <1>8, <1>10, <2>2, <3>1 DEF DueInv, IdsGrow
    <3>2. CASE i = n
      BY <1>6, <1>8, <1>11, <2>1, <2>2, <3>2
    <3> QED BY <1>8, <3>1, <3>2
  <2>3. ASSUME NEW i \in DOMAIN Unread', NEW j \in DOMAIN Unread', i < j,
               NEW id \in Nat, NEW other \in Nat,
               Inserts(Unread'[i], id), Inserts(Unread'[j], other)
        PROVE  id < other
    <3>1. i \in DOMAIN Unread
      BY <1>8, <2>3
    <3>2. CASE j \in DOMAIN Unread
      BY <1>8, <2>3, <3>1, <3>2 DEF DueInv, IdsGrow
    <3>3. CASE j = n
      BY <1>6, <1>8, <1>10, <2>3, <3>1, <3>3 DEF DueInv, IdsGrow
    <3> QED BY <1>8, <3>2, <3>3
  <2> QED BY <1>2, <1>5, <2>1, <2>2, <2>3 DEF DueInv, IdsGrow
<1>13. DeletionsDue'
  <2>1. ASSUME NEW i \in DOMAIN Unread', Unread'[i].ind = "DELETE_MESSAGE"
        PROVE  i \in DOMAIN Unread /\ Unread'[i] = Unread[i]
    BY <1>6, <1>8, <2>1
  <2>2. ASSUME NEW i \in DOMAIN Unread', Unread'[i].ind = "DELETE_MESSAGE"
        PROVE  /\ Unread'[i].id \in (1 .. new) \ DOMAIN store'
               /\ \/ Unread'[i].id \in RowIds
                  \/ \E j \in DOMAIN Unread' :
                         j < i /\ Inserts(Unread'[j], Unread'[i].id)
    <3>1. Unread[i].id \in (1 .. lastId) \ DOMAIN store
      BY <2>1, <2>2 DEF DueInv, DeletionsDue
    <3>2. Unread[i].id \in (1 .. new) \ DOMAIN store'
      <4>1. Unread[i].id # new /\ Unread[i].id \in 1 .. new
        BY <1>2, <1>10, <3>1
      <4> QED BY <1>7, <3>1, <4>1
    <3>3. \/ Unread[i].id \in RowIds
          \/ \E j \in DOMAIN Unread : j < i /\ Inserts(Unread[j], Unread[i].id)
      BY <2>1, <2>2 DEF DueInv, DeletionsDue
    <3> QED BY <1>8, <2>1, <2>2, <3>2, <3>3
  <2> QED BY <1>2, <1>9, <2>1, <2>2 DEF DueInv, DeletionsDue
<1>14. RowsDue'
  <2>1. ASSUME NEW id \in DOMAIN store'
        PROVE  \/ id \in RowIds
               \/ \E i \in DOMAIN Unread' : Inserts(Unread'[i], id)
    BY <1>6, <1>7, <1>8 DEF DueInv, RowsDue
  <2>2. ASSUME NEW id \in RowIds
        PROVE  \/ id \in DOMAIN store'
               \/ \E i \in DOMAIN Unread' : Deletes(Unread'[i], id)
    BY <1>7, <1>8 DEF DueInv, RowsDue
  <2>3. ASSUME NEW i \in DOMAIN Unread', NEW id \in Nat, Inserts(Unread'[i], id)
        PROVE  \/ id \in DOMAIN store'
               \/ \E j \in DOMAIN Unread' : i < j /\ Deletes(Unread'[j], id)
    <3>1. CASE i \in DOMAIN Unread
      BY <1>7, <1>8, <2>3, <3>1 DEF DueInv, RowsDue
    <3>2. CASE i = n
      BY <1>6, <1>7, <1>8, <2>3, <3>2
    <3> QED BY <1>8, <3>1, <3>2
  <2> QED BY <1>9, <2>1, <2>2, <2>3 DEF RowsDue
<1>15. TextsDue'
  <2>1. ASSUME NEW id \in DOMAIN store'
        PROVE  \/ \E i \in DOMAIN Unread' :
                      /\ Sets(Unread'[i], id)
                      /\ TextIn(Unread'[i], id) = store'[id].text
                      /\ \A j \in DOMAIN Unread' :
                             i < j => ~Sets(Unread'[j], id)
               \/ /\ Shows(id, store'[id].text)
                  /\ \A i \in DOMAIN Unread' : ~Sets(Unread'[i], id)
    <3>1. CASE id = new
      <4>1. \A j \in DOMAIN Unread' : ~(n < j)
        BY <1>8
      <4> QED BY <1>6, <1>7, <1>8, <3>1, <4>1
    <3>2. CASE id \in DOMAIN store
      <4>1. store'[id] = store[id] /\ ~Sets(block, id)
        BY <1>6, <1>7, <3>2
      <4> QED BY <1>8, <3>2, <4>1 DEF DueInv, TextsDue
    <3> QED BY <1>7, <3>1, <3>2
  <2> QED BY <1>9, <2>1 DEF TextsDue
<1>16. RowsGrow'
  BY <1>6, <1>8 DEF DueInv, RowsGrow
<1>17. NamesDue'
  <2>1. \A r \in DOMAIN m_messages :
            m_messages[r].id \in DOMAIN store' =>
                m_messages[r].name = store'[m_messages[r].id].name
    <3>1. \A r \in DOMAIN m_messages : m_messages[r].id # new
      BY <1>10 DEF DueInv, IdsGrow
    <3> QED BY <1>7, <3>1 DEF DueInv, NamesDue
  <2>2. ASSUME NEW i \in DOMAIN Unread', NEW id \in DOMAIN store',
               Inserts(Unread'[i], id)
        PROVE  NameIn(Unread'[i], id) = store'[id].name
    <3>1. CASE i = n
      BY <1>6, <1>7, <1>8, <2>2, <3>1
    <3>2. CASE i \in DOMAIN Unread
      <4>1. id # new
        BY <1>8, <1>10, <2>2, <3>2 DEF DueInv, IdsGrow
      <4> QED BY <1>7, <1>8, <2>2, <3>2, <4>1 DEF DueInv, NamesDue
    <3> QED BY <1>8, <3>1, <3>2
  <2> QED BY <1>5, <2>1, <2>2 DEF NamesDue
<1> QED BY <1>12, <1>13, <1>14, <1>15, <1>16, <1>17 DEF DueInv

LEMMA DeletionPublished ==
    ASSUME TableTypeOK, DueInv, NEW gone \in DOMAIN store,
           lastId' = lastId,
           store' = [i \in DOMAIN store \ {gone} |-> store[i]],
           Told([ind |-> "DELETE_MESSAGE", id |-> gone])
    PROVE  DueInv'
<1> DEFINE block == [ind |-> "DELETE_MESSAGE", id |-> gone]
<1>2. lastId \in Nat /\ gone \in 1 .. lastId /\ gone \in MessageIds
  BY IdsAssumption DEF TableTypeOK, MessageIds
<1>3. block \in Blocks /\ Told(block)
  BY <1>2 DEF Blocks, Broadcasts
<1>5. /\ block.ind = "DELETE_MESSAGE" /\ block.id = gone
      /\ \A id : ~Sets(block, id) /\ ~Inserts(block, id)
      /\ \A id : Deletes(block, id) <=> id = gone
      /\ DOMAIN RowsOf(block) = {}
  <2>1. block.ind = "DELETE_MESSAGE" /\ block.id = gone
    OBVIOUS
  <2>2. DOMAIN RowsOf(block) = {}
    <3>1. RowsOf(block) = <<>>
      BY <2>1 DEF RowsOf
    <3> QED BY <3>1
  <2> HIDE DEF block
  <2>3. \A id : ~Sets(block, id) /\ ~Inserts(block, id)
    BY <1>3, <2>1, BroughtRows DEF Modifies, Sets
  <2>4. \A id : Deletes(block, id) <=> id = gone
    BY <2>1 DEF Deletes
  <2> QED BY <2>1, <2>2, <2>3, <2>4
<1> HIDE DEF block
<1>6. /\ UNCHANGED m_messages
      /\ RowIds' = RowIds
      /\ \A id, t : Shows(id, t)' <=> Shows(id, t)
  BY <1>3, PublishedBlock DEF Told
<1>7. PICK n \in Nat :
          /\ n \notin DOMAIN Unread
          /\ n \in DOMAIN Unread' /\ Unread'[n] = block
          /\ \A i \in DOMAIN Unread :
                 i \in DOMAIN Unread' /\ i < n /\ Unread'[i] = Unread[i]
          /\ \A i \in DOMAIN Unread' : i \in DOMAIN Unread \/ i = n
          /\ \A i \in DOMAIN Unread' : ~(n < i)
  BY <1>3, PublishedBlock
<1>8. /\ DOMAIN store' = DOMAIN store \ {gone}
      /\ \A id \in DOMAIN store' : store'[id] = store[id]
  OBVIOUS
<1>9. IdsGrow'
  <2>1. \A i \in DOMAIN Unread' : \A id \in Nat :
            Inserts(Unread'[i], id) =>
                i \in DOMAIN Unread /\ Unread'[i] = Unread[i]
    BY <1>5, <1>7
  <2> QED BY <1>2, <1>6, <2>1 DEF DueInv, IdsGrow
<1>10. DeletionsDue'
  <2>1. ASSUME NEW i \in DOMAIN Unread', Unread'[i].ind = "DELETE_MESSAGE"
        PROVE  /\ Unread'[i].id \in (1 .. lastId) \ DOMAIN store'
               /\ \/ Unread'[i].id \in RowIds
                  \/ \E j \in DOMAIN Unread' :
                         j < i /\ Inserts(Unread'[j], Unread'[i].id)
    <3>1. CASE i \in DOMAIN Unread
      <4>1. /\ Unread[i].id \in (1 .. lastId) \ DOMAIN store
            /\ \/ Unread[i].id \in RowIds
               \/ \E j \in DOMAIN Unread :
                      j < i /\ Inserts(Unread[j], Unread[i].id)
        BY <1>7, <2>1, <3>1 DEF DueInv, DeletionsDue
      <4> QED BY <1>7, <1>8, <3>1, <4>1
    <3>2. CASE i = n
      <4>1. gone \in RowIds \/ \E j \in DOMAIN Unread : Inserts(Unread[j], gone)
        BY DEF DueInv, RowsDue
      <4> QED BY <1>2, <1>5, <1>7, <1>8, <3>2, <4>1
    <3> QED BY <1>7, <3>1, <3>2
  <2>2. \A i \in DOMAIN Unread :
            Unread[i].ind = "DELETE_MESSAGE" => Unread[i].id # gone
    BY DEF DueInv, DeletionsDue
  <2>3. ASSUME NEW i \in DOMAIN Unread', NEW j \in DOMAIN Unread',
               Unread'[i].ind = "DELETE_MESSAGE",
               Unread'[j].ind = "DELETE_MESSAGE",
               Unread'[i].id = Unread'[j].id
        PROVE  i = j
    BY <1>5, <1>7, <2>2, <2>3 DEF DueInv, DeletionsDue
  <2> QED BY <1>2, <1>6, <2>1, <2>3 DEF DeletionsDue
<1>11. RowsDue'
  <2>1. ASSUME NEW id \in DOMAIN store'
        PROVE  \/ id \in RowIds
               \/ \E i \in DOMAIN Unread' : Inserts(Unread'[i], id)
    BY <1>7, <1>8 DEF DueInv, RowsDue
  <2>2. ASSUME NEW id \in RowIds
        PROVE  \/ id \in DOMAIN store'
               \/ \E i \in DOMAIN Unread' : Deletes(Unread'[i], id)
    BY <1>5, <1>7, <1>8 DEF DueInv, RowsDue
  <2>3. ASSUME NEW i \in DOMAIN Unread', NEW id \in Nat, Inserts(Unread'[i], id)
        PROVE  \/ id \in DOMAIN store'
               \/ \E j \in DOMAIN Unread' : i < j /\ Deletes(Unread'[j], id)
    <3>1. i \in DOMAIN Unread /\ Unread'[i] = Unread[i]
      BY <1>5, <1>7, <2>3
    <3> QED BY <1>5, <1>7, <1>8, <2>3, <3>1 DEF DueInv, RowsDue
  <2> QED BY <1>6, <2>1, <2>2, <2>3 DEF RowsDue
<1>12. TextsDue'
  <2>1. ASSUME NEW id \in DOMAIN store'
        PROVE  \/ \E i \in DOMAIN Unread' :
                      /\ Sets(Unread'[i], id)
                      /\ TextIn(Unread'[i], id) = store'[id].text
                      /\ \A j \in DOMAIN Unread' :
                             i < j => ~Sets(Unread'[j], id)
               \/ /\ Shows(id, store'[id].text)
                  /\ \A i \in DOMAIN Unread' : ~Sets(Unread'[i], id)
    BY <1>5, <1>7, <1>8 DEF DueInv, TextsDue
  <2> QED BY <1>6, <2>1 DEF TextsDue
<1>13. RowsGrow'
  BY <1>5, <1>7 DEF DueInv, RowsGrow
<1>14. NamesDue'
  <2>1. \A i \in DOMAIN Unread' : \A id :
            Inserts(Unread'[i], id) =>
                i \in DOMAIN Unread /\ Unread'[i] = Unread[i]
    BY <1>5, <1>7
  <2>2. ASSUME NEW i \in DOMAIN Unread', NEW id \in DOMAIN store',
               Inserts(Unread'[i], id)
        PROVE  NameIn(Unread'[i], id) = store'[id].name
    BY <1>8, <2>1, <2>2 DEF DueInv, NamesDue
  <2>3. \A r \in DOMAIN m_messages :
            m_messages[r].id \in DOMAIN store' =>
                m_messages[r].name = store'[m_messages[r].id].name
    BY <1>8 DEF DueInv, NamesDue
  <2> QED BY <1>6, <2>2, <2>3 DEF NamesDue
<1> QED BY <1>9, <1>10, <1>11, <1>12, <1>13, <1>14 DEF DueInv

\* Another block: the store changes in the text that it sets at most.
LEMMA OtherPublished ==
    ASSUME TableTypeOK, DueInv, NEW block \in Blocks, Told(block),
           block.ind \notin {"ADD_MESSAGE", "DELETE_MESSAGE",
                            "SEND_INIT_MESSAGES"},
           lastId' = lastId,
           DOMAIN store' = DOMAIN store,
           \A id \in DOMAIN store :
               /\ store'[id].name = store[id].name
               /\ store'[id].text = IF Sets(block, id) THEN TextIn(block, id)
                                                      ELSE store[id].text
    PROVE  DueInv'
<1>1. /\ \A id : ~Inserts(block, id) /\ ~Deletes(block, id)
      /\ DOMAIN RowsOf(block) = {}
  <2>1. RowsOf(block) = <<>>
    BY DEF RowsOf
  <2>2. DOMAIN RowsOf(block) = {}
    BY <2>1
  <2>3. \A id : ~Inserts(block, id) /\ ~Deletes(block, id)
    BY BroughtRows DEF Deletes
  <2> QED BY <2>2, <2>3
<1>2. /\ UNCHANGED m_messages
      /\ RowIds' = RowIds
      /\ \A id, t : Shows(id, t)' <=> Shows(id, t)
  BY PublishedBlock DEF Told
<1>3. PICK n \in Nat :
          /\ n \notin DOMAIN Unread
          /\ n \in DOMAIN Unread' /\ Unread'[n] = block
          /\ \A i \in DOMAIN Unread :
                 i \in DOMAIN Unread' /\ i < n /\ Unread'[i] = Unread[i]
          /\ \A i \in DOMAIN Unread' : i \in DOMAIN Unread \/ i = n
          /\ \A i \in DOMAIN Unread' : ~(n < i)
  BY PublishedBlock
<1>4. IdsGrow'
  <2>1. \A i \in DOMAIN Unread' : \A id \in Nat :
            Inserts(Unread'[i], id) =>
                i \in DOMAIN Unread /\ Unread'[i] = Unread[i]
    BY <1>1, <1>3
  <2> QED BY <1>1, <1>2, <2>1 DEF DueInv, IdsGrow
<1>5. DeletionsDue'
  <2>1. \A i \in DOMAIN Unread' :
            Unread'[i].ind = "DELETE_MESSAGE" =>
                i \in DOMAIN Unread /\ Unread'[i] = Unread[i]
    BY <1>1, <1>3
  <2>2. ASSUME NEW i \in DOMAIN Unread', Unread'[i].ind = "DELETE_MESSAGE"
        PROVE  /\ Unread'[i].id \in (1 .. lastId) \ DOMAIN store
               /\ \/ Unread'[i].id \in RowIds
                  \/ \E j \in DOMAIN Unread' :
                         j < i /\ Inserts(Unread'[j], Unread'[i].id)
    <3>1. /\ Unread[i].id \in (1 .. lastId) \ DOMAIN store
          /\ \/ Unread[i].id \in RowIds
             \/ \E j \in DOMAIN Unread :
                    j < i /\ Inserts(Unread[j], Unread[i].id)
      BY <2>1, <2>2 DEF DueInv, DeletionsDue
    <3> QED BY <1>3, <2>1, <2>2, <3>1
  <2> QED BY <1>1, <1>2, <2>1, <2>2 DEF DueInv, DeletionsDue
<1>6. RowsDue'
  <2>1. ASSUME NEW id \in DOMAIN store
        PROVE  \/ id \in RowIds
               \/ \E i \in DOMAIN Unread' : Inserts(Unread'[i], id)
    BY <1>3 DEF DueInv, RowsDue
  <2>2. ASSUME NEW id \in RowIds
        PROVE  \/ id \in DOMAIN store
               \/ \E i \in DOMAIN Unread' : Deletes(Unread'[i], id)
    BY <1>3 DEF DueInv, RowsDue
  <2>3. ASSUME NEW i \in DOMAIN Unread', NEW id \in Nat, Inserts(Unread'[i], id)
        PROVE  \/ id \in DOMAIN store
               \/ \E j \in DOMAIN Unread' : i < j /\ Deletes(Unread'[j], id)
    <3>1. i \in DOMAIN Unread /\ Unread'[i] = Unread[i]
      BY <1>1, <1>3, <2>3
    <3> QED BY <1>3, <2>3, <3>1 DEF DueInv, RowsDue
  <2> QED BY <1>1, <1>2, <2>1, <2>2, <2>3 DEF RowsDue
<1>7. TextsDue'
  <2>1. ASSUME NEW id \in DOMAIN store
        PROVE  \/ \E i \in DOMAIN Unread' :
                      /\ Sets(Unread'[i], id)
                      /\ TextIn(Unread'[i], id) = store'[id].text
                      /\ \A j \in DOMAIN Unread' :
                             i < j => ~Sets(Unread'[j], id)
               \/ /\ Shows(id, store'[id].text)
                  /\ \A i \in DOMAIN Unread' : ~Sets(Unread'[i], id)
    <3>1. CASE Sets(block, id)
      BY <1>1, <1>3, <3>1
    <3>2. CASE ~Sets(block, id)
      BY <1>1, <1>3, <3>2 DEF DueInv, TextsDue
    <3> QED BY <3>1, <3>2
  <2> QED BY <1>1, <1>2, <2>1 DEF TextsDue
<1>8. RowsGrow'
  BY <1>1, <1>3 DEF DueInv, RowsGrow
<1>9. NamesDue'
  <2>1. \A i \in DOMAIN Unread' : \A id :
            Inserts(Unread'[i], id) =>
                i \in DOMAIN Unread /\ Unread'[i] = Unread[i]
    BY <1>1, <1>3
  <2>2. ASSUME NEW i \in DOMAIN Unread', NEW id \in DOMAIN store,
               Inserts(Unread'[i], id)
        PROVE  NameIn(Unread'[i], id) = store'[id].name
    BY <2>1, <2>2 DEF DueInv, NamesDue
  <2>3. \A r \in DOMAIN m_messages :
            m_messages[r].id \in DOMAIN store =>
                m_messages[r].name = store'[m_messages[r].id].name
    BY DEF DueInv, NamesDue
  <2> QED BY <1>2, <2>2, <2>3 DEF NamesDue
<1> QED BY <1>4, <1>5, <1>6, <1>7, <1>8, <1>9 DEF DueInv

LEMMA AsidePublished ==
    ASSUME TableTypeOK, DueInv, NEW block \in Blocks, Aside(block),
           Told(block), UNCHANGED <<store, lastId>>
    PROVE  DueInv'
<1>1. \A id : ~Sets(block, id)
  BY AsideRows
<1>2. block.ind \notin {"ADD_MESSAGE", "DELETE_MESSAGE", "SEND_INIT_MESSAGES"}
  BY DEF Aside
<1> QED BY <1>1, <1>2, OtherPublished

LEMMA SameDue ==
    ASSUME MapAgrees, DueInv,
           UNCHANGED <<store, lastId, m_messages, m_messageIdRowNum, Unread>>
    PROVE  MapAgrees' /\ DueInv'
<1>1. RowIds' = RowIds /\ \A id, t : Shows(id, t)' <=> Shows(id, t)
  BY DEF RowIds, Shows
<1>2. MapAgrees'
  BY <1>1 DEF MapAgrees
<1>3. IdsGrow' /\ RowsGrow' /\ DeletionsDue' /\ RowsDue'
  BY <1>1 DEF DueInv, IdsGrow, RowsGrow, DeletionsDue, RowsDue
<1>4. TextsDue' /\ NamesDue'
  BY <1>1 DEF DueInv, TextsDue, NamesDue
<1> QED BY <1>2, <1>3, <1>4 DEF DueInv

-----------------------------------------------------------------------------
\* Every step.

\* What has gone astray stays so.
LEMMA AstrayStays ==
    ASSUME TypeOK, [Next]_vars, ~astray'
    PROVE  ~astray
<1>1. astray' = astray \/ astray' = TRUE \/ (astray => astray')
  <2>1. CASE Worker
    BY <2>1 DEF Worker, ReadRow, EndRows, SendList, FailList, SendRole
  <2>2. CASE PublishMessage \/ PublishDeletion \/ PublishModification
    BY <2>2 DEF PublishMessage, PublishDeletion, PublishModification
  <2>3. CASE EnterMap \/ LeaveMap \/ PublishBlock \/ WriteBlock
    BY <2>3 DEF EnterMap, LeaveMap, PublishBlock, WriteBlock
  <2>4. CASE EventLoop
    BY <2>4 DEF EventLoop, ReadyRead, DialogResult, ReadBlock, EndReading,
                serverVars
  <2>5. CASE User
    BY <2>5 DEF User, sendMessage, deleteMessageRequest, OpenModifyDialog,
                AcceptModifyDialog, CancelModifyDialog, addModeratorRequest,
                deleteModeratorRequest, CloseBox, serverVars
  <2>6. CASE UNCHANGED vars
    BY <2>6 DEF vars, serverVars
  <2> QED BY <2>1, <2>2, <2>3, <2>4, <2>5, <2>6 DEF Next, Main
<1> QED BY <1>1

\* The steps that concern neither the server nor the rows.
LEMMA WindowAside ==
    ASSUME TypeOK,
           ReadyRead \/ DialogResult \/ EndReading \/ User \/ UNCHANGED vars
    PROVE  /\ UNCHANGED <<store, lastId, stage, fetched, outgoing, astray>>
           /\ UNCHANGED <<m_messages, m_messageIdRowNum, Unread>>
<1>1. CASE ReadyRead
  <2>1. UNCHANGED Unread
    BY <1>1, ArrivalKeepsUnread, ServerTypes
  <2> QED BY <1>1, <2>1 DEF ReadyRead, serverVars, mainVars, workerVars,
                            tableVars
<1>2. CASE User
  BY <1>2 DEF User, sendMessage, deleteMessageRequest, OpenModifyDialog,
              AcceptModifyDialog, CancelModifyDialog, addModeratorRequest,
              deleteModeratorRequest, CloseBox, serverVars, mainVars,
              workerVars, socketVars, tableVars, Unread
<1>3. CASE DialogResult \/ EndReading \/ UNCHANGED vars
  BY <1>3 DEF DialogResult, EndReading, vars, serverVars, mainVars,
              workerVars, socketVars, tableVars, Unread
<1> QED BY <1>1, <1>2, <1>3

\* Once the list is sent, every change of the table is told.
LEMMA AfterList ==
    ASSUME TypeOK, ListSent, outgoing = <<>>, MapAgrees, DueInv,
           [Next]_vars, ~astray'
    PROVE  ListSent' /\ outgoing' = <<>> /\ MapAgrees' /\ DueInv'
<1>1. TableTypeOK /\ ServerTypeOK
  BY ServerTypes
<1>2. ASSUME UNCHANGED <<stage, outgoing, m_messages, m_messageIdRowNum>>,
             DueInv'
      PROVE  ListSent' /\ outgoing' = <<>> /\ MapAgrees' /\ DueInv'
  BY <1>2 DEF ListSent, MapAgrees, RowIds
<1>3. ASSUME NEW block, membership = "in", Tell(block)
      PROVE  network' = Append(network, block) /\ UNCHANGED outgoing
  BY <1>3 DEF Tell
<1>4. ASSUME membership # "in", NEW block, Tell(block)
      PROVE  UNCHANGED <<outgoing, network>>
  BY <1>4 DEF Tell
<1>5. \A id : membership # "in" => Missed(id)
  BY DEF Missed, ToBeRead, ListSent
<1>6. ASSUME Publish
      PROVE  /\ UNCHANGED <<buffer, m_messages, m_messageIdRowNum>>
             /\ UNCHANGED stage
  BY <1>6 DEF Publish, windowVars, workerVars, tableVars
<1>7. ASSUME UNCHANGED <<store, lastId, outgoing, m_messages,
                         m_messageIdRowNum, buffer, network>>,
             ListSent'
      PROVE  ListSent' /\ outgoing' = <<>> /\ MapAgrees' /\ DueInv'
  BY <1>7, SameDue DEF Unread
<1>8. CASE Worker
  <2>1. SendRole
    BY <1>8 DEF Worker, ReadRow, EndRows, SendList, FailList, ListSent
  <2>2. /\ UNCHANGED <<store, lastId, outgoing, m_messages,
                       m_messageIdRowNum, buffer>>
        /\ ListSent'
    BY <2>1 DEF SendRole, mainVars, windowVars, tableVars, ListSent
  <2>3. CASE UNCHANGED network
    BY <1>7, <2>2, <2>3
  <2>4. CASE ~UNCHANGED network
    <3>1. PICK block \in {[ind |-> "USER_MODERATOR_LIST", rows |-> Members],
                          [ind |-> "INIT_MODERATOR"]} :
              network' = Append(network, block)
      BY <2>1, <2>4 DEF SendRole
    <3>2. block \in Blocks /\ Aside(block)
      BY MembersAssumption DEF Blocks, Answers, Aside
    <3>3. DueInv'
      BY <1>1, <2>2, <3>1, <3>2, AsidePublished DEF Told
    <3> QED BY <2>2, <3>3 DEF MapAgrees, RowIds
  <2> QED BY <2>3, <2>4
<1>9. CASE EnterMap \/ LeaveMap
  BY <1>7, <1>9 DEF EnterMap, LeaveMap, windowVars, workerVars, tableVars,
                    ListSent
<1>10. CASE PublishMessage
  <2>1. PICK text \in Texts, user \in Authors, id \in {lastId', 0} :
            /\ store' = [i \in DOMAIN store \cup {lastId'} |->
                            IF i = lastId' THEN [name |-> user, text |-> text]
                                           ELSE store[i]]
            /\ Tell([ind |-> "ADD_MESSAGE", id |-> id, name |-> user,
                     text |-> text])
            /\ astray' = (astray \/ Early \/ Missed(lastId') \/ id = 0)
    BY <1>10 DEF PublishMessage
  <2>2. Publish /\ lastId < MaxMessageId /\ lastId' = lastId + 1
    BY <1>10 DEF PublishMessage
  <2>3. id = lastId' /\ membership = "in" /\ user \in Users
    BY <1>5, <2>1, AuthorsAssumption
  <2>4. /\ Told([ind |-> "ADD_MESSAGE", id |-> lastId', name |-> user,
                 text |-> text])
        /\ UNCHANGED outgoing
    BY <1>3, <1>6, <2>1, <2>2, <2>3 DEF Told
  <2>5. DueInv'
    BY <1>1, <2>1, <2>2, <2>3, <2>4, MessagePublished
  <2> QED BY <1>2, <1>6, <2>2, <2>4, <2>5
<1>11. CASE PublishDeletion
  <2>1. PICK id \in 0 .. lastId :
            /\ store' = [i \in DOMAIN store \ {id} |-> store[i]]
            /\ Tell([ind |-> "DELETE_MESSAGE", id |-> id])
            /\ astray' = (\/ astray
                          \/ Early
                          \/ id \in DOMAIN store /\ Missed(id)
                          \/ id \notin DOMAIN store /\ membership = "in")
    BY <1>11 DEF PublishDeletion
  <2>2. Publish /\ UNCHANGED lastId
    BY <1>11 DEF PublishDeletion
  <2>3. CASE id \in DOMAIN store
    <3>1. Told([ind |-> "DELETE_MESSAGE", id |-> id]) /\ UNCHANGED outgoing
      BY <1>3, <1>5, <1>6, <2>1, <2>2, <2>3 DEF Told
    <3>2. DueInv'
      BY <1>1, <2>1, <2>2, <2>3, <3>1, DeletionPublished
    <3> QED BY <1>2, <1>6, <2>2, <3>1, <3>2
  <2>4. CASE id \notin DOMAIN store
    <3>1. UNCHANGED <<outgoing, network>>
      BY <1>4, <2>1, <2>4
    <3>2. store' = store
      <4>1. DOMAIN store \ {id} = DOMAIN store
        BY <2>4
      <4>2. store = [i \in DOMAIN store |-> store[i]]
        BY <1>1 DEF ServerTypeOK
      <4> QED BY <2>1, <4>1, <4>2
    <3> QED BY <1>6, <1>7, <2>2, <3>1, <3>2 DEF ListSent
  <2> QED BY <2>3, <2>4
<1>12. CASE PublishModification
  <2>1. PICK id \in 0 .. lastId, text \in Texts :
            /\ store' = [i \in DOMAIN store |->
                            IF i = id THEN [store[i] EXCEPT !.text = text]
                                      ELSE store[i]]
            /\ Tell([ind |-> "MODIFY_MESSAGE", id |-> id, text |-> text])
            /\ astray' = (\/ astray
                          \/ Early
                          \/ id \in DOMAIN store /\ Missed(id))
    BY <1>12 DEF PublishModification
  <2>2. Publish /\ UNCHANGED lastId
    BY <1>12 DEF PublishModification
  <2> DEFINE block == [ind |-> "MODIFY_MESSAGE", id |-> id, text |-> text]
  <2>3. /\ DOMAIN store' = DOMAIN store
        /\ \A i \in DOMAIN store :
               /\ store'[i].name = store[i].name
               /\ store'[i].text = IF i = id THEN text ELSE store[i].text
    <3>1. \A i \in DOMAIN store : store[i] \in [name : Users, text : Texts]
      BY <1>1 DEF ServerTypeOK
    <3> QED BY <2>1, <3>1
  <2>4. /\ block \in Blocks
        /\ block.ind = "MODIFY_MESSAGE" /\ block.id = id /\ block.text = text
    <3>1. id \in MessageIds
      BY <1>1, IdsAssumption DEF ServerTypeOK, MessageIds
    <3> QED BY <3>1 DEF Blocks, Broadcasts
  <2>5. Tell(block)
    BY <2>1
  <2> HIDE DEF block
  <2>6. CASE membership = "in"
    <3>1. Told(block) /\ UNCHANGED outgoing
      BY <1>3, <1>6, <2>2, <2>5, <2>6 DEF Told
    <3>2. \A i : /\ Sets(block, i) <=> i = id
                 /\ TextIn(block, i) = text
      BY <2>4, BroughtRows DEF Sets, Modifies, TextIn
    <3>3. DueInv'
      BY <1>1, <2>2, <2>3, <2>4, <3>1, <3>2, OtherPublished
    <3> QED BY <1>2, <1>6, <2>2, <3>1, <3>3
  <2>7. CASE membership # "in"
    <3>1. id \notin DOMAIN store
      BY <1>5, <2>1, <2>7
    <3>2. UNCHANGED <<outgoing, network>>
      BY <1>4, <2>5, <2>7
    <3>3. store' = store
      <4>1. store = [i \in DOMAIN store |-> store[i]]
        BY <1>1 DEF ServerTypeOK
      <4> QED BY <2>1, <3>1, <4>1
    <3> QED BY <1>6, <1>7, <2>2, <3>2, <3>3 DEF ListSent
  <2> QED BY <2>6, <2>7
<1>13. CASE PublishBlock
  <2>1. PICK block \in RoleChanges \cup
                 [ind : {"USER_GET_PASSWORD_HALF"}, half : {NoName}] :
            network' = Append(network, block)
    BY <1>13 DEF PublishBlock
  <2>2. Publish /\ UNCHANGED <<store, lastId, outgoing>>
    BY <1>13 DEF PublishBlock
  <2>3. block \in Blocks /\ Aside(block)
    BY DEF Blocks, RoleChanges, Broadcasts, Aside
  <2>4. Told(block)
    BY <1>6, <2>1, <2>2 DEF Told
  <2>5. DueInv'
    BY <1>1, <2>2, <2>3, <2>4, AsidePublished
  <2> QED BY <1>2, <1>6, <2>2, <2>5
<1>14. ~WriteBlock
  BY DEF WriteBlock
<1>15. CASE ReadBlock
  <2>1. UNCHANGED <<stage, outgoing>>
    BY <1>15 DEF ReadBlock, serverVars, mainVars, workerVars
  <2> QED BY <1>1, <1>15, <2>1, ReadKeepsDue DEF ListSent
<1>16. CASE ReadyRead \/ DialogResult \/ EndReading \/ User \/ UNCHANGED vars
  BY <1>16, WindowAside, SameDue DEF ListSent
<1> QED BY <1>8, <1>9, <1>10, <1>11, <1>12, <1>13, <1>14, <1>15, <1>16
        DEF Next, Main, EventLoop

\* Before, a change is of a row the query has yet to give.
LEMMA BeforeList ==
    ASSUME TypeOK, ~ListSent, outgoing = <<>>, ListDue, [Next]_vars,
           ~astray', ~SendList
    PROVE  ~ListSent' /\ outgoing' = <<>> /\ ListDue'
<1>1. TableTypeOK /\ ServerTypeOK
  BY ServerTypes
<1>2. /\ fetched \in Seq(MessageRows)
      /\ Len(fetched) \in Nat
      /\ DOMAIN fetched = 1 .. Len(fetched)
      /\ DOMAIN store \subseteq Nat
      /\ lastId \in Nat
      /\ store = [i \in DOMAIN store |-> store[i]]
      /\ \A i \in DOMAIN fetched : fetched[i].id \in DOMAIN store
  BY <1>1, LenProperties, IdsAssumption
     DEF ServerTypeOK, MessageIds, ListDue
<1>3. ASSUME Publish, membership # "in", UNCHANGED <<outgoing, network>>
      PROVE  /\ UNCHANGED <<m_messages, m_messageIdRowNum, Unread, outgoing>>
             /\ UNCHANGED <<stage, fetched>>
  BY <1>3 DEF Publish, windowVars, workerVars, tableVars, Unread
<1>4. ASSUME UNCHANGED <<m_messages, m_messageIdRowNum, Unread, outgoing>>,
             UNCHANGED <<stage, fetched, store>>
      PROVE  ~ListSent' /\ outgoing' = <<>> /\ ListDue'
  BY <1>4 DEF ListSent, ListDue, ToBeRead
<1>5. \A id \in DOMAIN store :
          ToBeRead(id) => \A i \in DOMAIN fetched : fetched[i].id # id
  BY <1>2 DEF ToBeRead
<1>6. CASE ReadRow
  <2>1. PICK id \in DOMAIN store :
            /\ ToBeRead(id)
            /\ \A other \in DOMAIN store : ToBeRead(other) => id <= other
            /\ fetched' = Append(fetched, [id |-> id, name |-> store[id].name,
                                           text |-> store[id].text])
    BY <1>6 DEF ReadRow
  <2>2. UNCHANGED <<store, stage, outgoing, m_messages, m_messageIdRowNum,
                    Unread>>
    BY <1>6 DEF ReadRow, mainVars, windowVars, tableVars, Unread
  <2> DEFINE row == [id |-> id, name |-> store[id].name,
                     text |-> store[id].text]
             k == Len(fetched)
  <2>3. row \in MessageRows
    <3>1. id \in MessageIds
      BY <1>1, IdsAssumption DEF ServerTypeOK, MessageIds
    <3>2. store[id].name \in Users /\ store[id].text \in Texts
      BY <1>1 DEF ServerTypeOK
    <3> QED BY <3>1, <3>2 DEF MessageRows
  <2>4. row.id = id /\ row.name = store[id].name /\ row.text = store[id].text
    OBVIOUS
  <2>5. fetched' = Append(fetched, row)
    BY <2>1
  <2> HIDE DEF row
  <2>6. /\ fetched' \in Seq(MessageRows)
        /\ Len(fetched') = k + 1
        /\ \A i \in 1 .. k : fetched'[i] = fetched[i]
        /\ fetched'[k + 1] = row
    BY <1>2, <2>3, <2>5, AppendProperties
  <2>7. /\ DOMAIN fetched' = 1 .. k + 1
        /\ k \in Nat /\ k + 1 \in 1 .. k + 1 /\ DOMAIN fetched = 1 .. k
        /\ \A i \in 1 .. k + 1 : i \in 1 .. k \/ i = k + 1
        /\ \A i \in 1 .. k : i \in 1 .. k + 1 /\ ~(k + 1 < i)
        /\ ~(k + 1 < k + 1)
    <3>1. DOMAIN fetched' = 1 .. Len(fetched')
      BY <2>6, LenProperties
    <3> QED BY <1>2, <2>6, <3>1
  <2> HIDE DEF k
  <2>8. \A i \in 1 .. k : fetched[i].id < id
    BY <2>1, <2>7 DEF ToBeRead
  <2>9. \A i, j \in DOMAIN fetched' :
            i < j => fetched'[i].id < fetched'[j].id
    BY <2>4, <2>6, <2>7, <2>8 DEF ListDue
  <2>10. \A i \in DOMAIN fetched' :
             /\ fetched'[i].id \in DOMAIN store
             /\ fetched'[i].name = store[fetched'[i].id].name
             /\ fetched'[i].text = store[fetched'[i].id].text
    BY <2>4, <2>6, <2>7 DEF ListDue
  <2>11. ASSUME NEW other \in DOMAIN store
         PROVE  \/ ToBeRead(other)'
                \/ \E i \in DOMAIN fetched' : fetched'[i].id = other
    <3>1. CASE other = id
      BY <2>4, <2>6, <2>7, <3>1
    <3>2. CASE other # id /\ ToBeRead(other)
      <4>1. id < other
        BY <1>2, <2>1, <3>2
      <4> QED BY <2>2, <2>4, <2>6, <2>7, <3>2, <4>1 DEF ToBeRead
    <3>3. CASE \E i \in DOMAIN fetched : fetched[i].id = other
      BY <2>6, <2>7, <3>3
    <3> QED BY <3>1, <3>2, <3>3 DEF ListDue
  <2> QED BY <2>2, <2>9, <2>10, <2>11 DEF ListDue, ListSent
<1>7. CASE EndRows
  <2>1. /\ UNCHANGED <<store, fetched, outgoing, m_messages,
                       m_messageIdRowNum, Unread>>
        /\ stage' = "read"
        /\ \A id \in DOMAIN store : ~ToBeRead(id)
    BY <1>7 DEF EndRows, mainVars, windowVars, tableVars, Unread
  <2>2. ListDue'
    BY <2>1 DEF ListDue
  <2> QED BY <2>1, <2>2 DEF ListSent
<1>8. ~FailList /\ ~SendRole /\ ~WriteBlock
  BY DEF FailList, SendRole, WriteBlock, ListSent
<1>9. CASE EnterMap \/ LeaveMap
  BY <1>4, <1>9 DEF EnterMap, LeaveMap, windowVars, workerVars, tableVars,
                    Unread
<1>10. CASE PublishMessage
  <2>1. PICK text \in Texts, user \in Authors, id \in {lastId', 0} :
            /\ store' = [i \in DOMAIN store \cup {lastId'} |->
                            IF i = lastId' THEN [name |-> user, text |-> text]
                                           ELSE store[i]]
            /\ Tell([ind |-> "ADD_MESSAGE", id |-> id, name |-> user,
                     text |-> text])
            /\ astray' = (astray \/ Early \/ Missed(lastId') \/ id = 0)
    BY <1>10 DEF PublishMessage
  <2>2. Publish /\ lastId' = lastId + 1
    BY <1>10 DEF PublishMessage
  <2>3. membership # "in" /\ ToBeRead(lastId')
    BY <2>1 DEF Early, Missed
  <2>4. UNCHANGED <<outgoing, network>>
    BY <2>1, <2>3 DEF Tell
  <2>5. /\ UNCHANGED <<m_messages, m_messageIdRowNum, Unread, outgoing>>
        /\ UNCHANGED <<stage, fetched>>
    BY <1>3, <2>2, <2>3, <2>4
  <2>6. \A i \in DOMAIN store : i # lastId'
    BY <1>1, <1>2, <2>2 DEF ServerTypeOK
  <2>7. /\ DOMAIN store' = DOMAIN store \cup {lastId'}
        /\ \A i \in DOMAIN store : store'[i] = store[i]
    BY <2>1, <2>6
  <2>8. \A i : ToBeRead(i) => ToBeRead(i)'
    BY <2>5 DEF ToBeRead
  <2>9. ToBeRead(lastId)'
    BY <2>3, <2>5 DEF ToBeRead
  <2>10. \A i \in DOMAIN store' :
             ToBeRead(i)' \/ \E j \in DOMAIN fetched : fetched[j].id = i
    BY <2>7, <2>8, <2>9 DEF ListDue
  <2> QED BY <1>2, <2>5, <2>7, <2>10 DEF ListSent, ListDue
<1>11. CASE PublishDeletion
  <2>1. PICK id \in 0 .. lastId :
            /\ store' = [i \in DOMAIN store \ {id} |-> store[i]]
            /\ Tell([ind |-> "DELETE_MESSAGE", id |-> id])
            /\ astray' = (\/ astray
                          \/ Early
                          \/ id \in DOMAIN store /\ Missed(id)
                          \/ id \notin DOMAIN store /\ membership = "in")
    BY <1>11 DEF PublishDeletion
  <2>2. Publish
    BY <1>11 DEF PublishDeletion
  <2>3. membership # "in" /\ (id \in DOMAIN store => ToBeRead(id))
    BY <2>1 DEF Early, Missed
  <2>4. UNCHANGED <<outgoing, network>>
    BY <2>1, <2>3 DEF Tell
  <2>5. /\ UNCHANGED <<m_messages, m_messageIdRowNum, Unread, outgoing>>
        /\ UNCHANGED <<stage, fetched>>
    BY <1>3, <2>2, <2>3, <2>4
  <2>6. \A i \in DOMAIN fetched : fetched[i].id # id
    BY <1>2, <1>5, <2>3
  <2>7. /\ DOMAIN store' = DOMAIN store \ {id}
        /\ \A i \in DOMAIN store' : store'[i] = store[i]
    BY <2>1
  <2>8. \A i : ToBeRead(i) => ToBeRead(i)'
    BY <2>5 DEF ToBeRead
  <2> QED BY <2>5, <2>6, <2>7, <2>8 DEF ListSent, ListDue
<1>12. CASE PublishModification
  <2>1. PICK id \in 0 .. lastId, text \in Texts :
            /\ store' = [i \in DOMAIN store |->
                            IF i = id THEN [store[i] EXCEPT !.text = text]
                                      ELSE store[i]]
            /\ Tell([ind |-> "MODIFY_MESSAGE", id |-> id, text |-> text])
            /\ astray' = (\/ astray
                          \/ Early
                          \/ id \in DOMAIN store /\ Missed(id))
    BY <1>12 DEF PublishModification
  <2>2. Publish
    BY <1>12 DEF PublishModification
  <2>3. membership # "in" /\ (id \in DOMAIN store => ToBeRead(id))
    BY <2>1 DEF Early, Missed
  <2>4. UNCHANGED <<outgoing, network>>
    BY <2>1, <2>3 DEF Tell
  <2>5. /\ UNCHANGED <<m_messages, m_messageIdRowNum, Unread, outgoing>>
        /\ UNCHANGED <<stage, fetched>>
    BY <1>3, <2>2, <2>3, <2>4
  <2>6. \A i \in DOMAIN fetched : fetched[i].id # id
    BY <1>2, <1>5, <2>3
  <2>7. /\ DOMAIN store' = DOMAIN store
        /\ \A i \in DOMAIN store : i # id => store'[i] = store[i]
    BY <2>1
  <2>8. \A i : ToBeRead(i) => ToBeRead(i)'
    BY <2>5 DEF ToBeRead
  <2> QED BY <2>5, <2>6, <2>7, <2>8 DEF ListSent, ListDue
<1>13. CASE PublishBlock
  <2>1. PICK block \in RoleChanges \cup
                 [ind : {"USER_GET_PASSWORD_HALF"}, half : {NoName}] :
            network' = Append(network, block)
    BY <1>13 DEF PublishBlock
  <2>2. block \in Blocks /\ Aside(block)
    BY DEF Blocks, RoleChanges, Broadcasts, Aside
  <2>3. UNCHANGED <<store, outgoing, stage, fetched, m_messages,
                    m_messageIdRowNum, buffer>>
    BY <1>13 DEF PublishBlock, Publish, windowVars, workerVars, tableVars
  <2>4. UnreadGrows(block)
    BY <1>1, <2>1, <2>2, <2>3, NetworkGrows
  <2>5. \A i \in DOMAIN Unread' : Aside(Unread'[i])
    BY <1>1, <2>2, <2>4, PublishedAt DEF ListDue
  <2> QED BY <2>3, <2>5 DEF ListSent, ListDue, ToBeRead
<1>14. CASE ReadBlock
  <2>1. /\ UnreadShrinks(Head(buffer))
        /\ HandleBlock(Head(buffer))
        /\ UNCHANGED <<store, outgoing, stage, fetched>>
    BY <1>1, <1>14, ReadShrinks
       DEF ReadBlock, serverVars, mainVars, workerVars
  <2>2. Aside(Head(buffer)) /\ \A i \in DOMAIN Unread' : Aside(Unread'[i])
    BY <2>1 DEF ListDue, UnreadShrinks
  <2>3. UNCHANGED <<m_messages, m_messageIdRowNum>>
    BY <2>1, <2>2 DEF HandleBlock, Aside, tableVars
  <2> QED BY <2>1, <2>2, <2>3 DEF ListSent, ListDue, ToBeRead
<1>15. CASE ReadyRead \/ DialogResult \/ EndReading \/ User \/ UNCHANGED vars
  BY <1>4, <1>15, WindowAside
<1> QED BY <1>6, <1>7, <1>8, <1>9, <1>10, <1>11, <1>12, <1>13, <1>14, <1>15
        DEF Next, Worker, Main, EventLoop

\* The list tells what the table is.
LEMMA ListGoes ==
    ASSUME TypeOK, outgoing = <<>>, ListDue, SendList
    PROVE  ListSent' /\ outgoing' = <<>> /\ MapAgrees' /\ DueInv'
<1> DEFINE block == [ind |-> "SEND_INIT_MESSAGES", rows |-> fetched]
<1>1. TableTypeOK /\ ServerTypeOK
  BY ServerTypes
<1>2. /\ stage = "read" /\ stage' = "sent"
      /\ network' = Append(network, block)
      /\ UNCHANGED <<store, lastId, outgoing, buffer, m_messages,
                     m_messageIdRowNum>>
  BY DEF SendList, mainVars, windowVars, tableVars
<1>3. /\ fetched \in Seq(MessageRows)
      /\ DOMAIN store \subseteq 1 .. lastId
  BY <1>1 DEF ServerTypeOK
<1>4. block \in Blocks /\ RowsOf(block) = fetched
      /\ block.ind = "SEND_INIT_MESSAGES"
  BY <1>3 DEF Blocks, Answers, RowsOf
<1> HIDE DEF block
<1>5. \A p, q \in DOMAIN RowsOf(block) :
          p < q => RowsOf(block)[p].id < RowsOf(block)[q].id
  BY <1>4 DEF ListDue
<1>6. \A id : Inserts(block, id) <=> id \in DOMAIN store
  BY <1>2, <1>4 DEF Inserts, ListDue, ToBeRead
<1>7. \A id \in DOMAIN store : /\ TextIn(block, id) = store[id].text
                               /\ NameIn(block, id) = store[id].name
  <2> SUFFICES ASSUME NEW id \in DOMAIN store
               PROVE  /\ TextIn(block, id) = store[id].text
                      /\ NameIn(block, id) = store[id].name
    OBVIOUS
  <2>1. PICK i \in DOMAIN fetched : fetched[i].id = id
    BY <1>4, <1>6 DEF Inserts
  <2>2. RowIn(block, id) = fetched[i]
    BY <1>4, <1>5, <2>1, RowMeant
  <2> QED BY <1>4, <2>1, <2>2 DEF TextIn, NameIn, ListDue
<1>8. PICK n \in Nat :
          /\ n \notin DOMAIN Unread
          /\ n \in DOMAIN Unread' /\ Unread'[n] = block
          /\ \A i \in DOMAIN Unread :
                 i \in DOMAIN Unread' /\ i < n /\ Unread'[i] = Unread[i]
          /\ \A i \in DOMAIN Unread' : i \in DOMAIN Unread \/ i = n
          /\ \A i \in DOMAIN Unread' : ~(n < i)
  <2>1. Told(block)
    BY <1>2 DEF Told
  <2> QED BY <1>1, <1>4, <2>1, PublishedBlock
<1>9. \A i \in DOMAIN Unread : \A id :
          ~Inserts(Unread[i], id) /\ ~Deletes(Unread[i], id)
              /\ ~Sets(Unread[i], id)
  BY <1>1, UnreadType, AsideRows DEF ListDue
<1>10. /\ DOMAIN m_messages' = {} /\ RowIds' = {}
       /\ DOMAIN m_messageIdRowNum' = {}
  BY <1>2 DEF ListDue, RowIds, ToSet
<1>11. /\ \A i \in DOMAIN Unread' : \A id :
              /\ Inserts(Unread'[i], id) <=> i = n /\ id \in DOMAIN store
              /\ ~Deletes(Unread'[i], id)
       /\ \A id : Sets(block, id) <=> id \in DOMAIN store
  BY <1>4, <1>6, <1>8, <1>9 DEF Deletes, Sets, Modifies
<1>12. MapAgrees'
  BY <1>10 DEF MapAgrees
<1>13. IdsGrow'
  <2>1. ~(n < n)
    OBVIOUS
  <2> QED BY <1>2, <1>3, <1>10, <1>11, <2>1 DEF IdsGrow
<1>14. RowsGrow'
  <2>1. \A i \in DOMAIN Unread : DOMAIN RowsOf(Unread[i]) = {}
    BY DEF ListDue, Aside, RowsOf
  <2> QED BY <1>5, <1>8, <2>1 DEF RowsGrow
<1>15. DeletionsDue'
  <2>1. \A i \in DOMAIN Unread' : Unread'[i].ind # "DELETE_MESSAGE"
    BY <1>4, <1>8 DEF ListDue, Aside
  <2> QED BY <2>1 DEF DeletionsDue
<1>16. RowsDue'
  BY <1>2, <1>8, <1>10, <1>11 DEF RowsDue
<1>17. TextsDue'
  BY <1>2, <1>7, <1>8, <1>11 DEF TextsDue
<1>18. NamesDue'
  BY <1>2, <1>7, <1>8, <1>10, <1>11 DEF NamesDue
<1> QED BY <1>2, <1>12, <1>13, <1>14, <1>15, <1>16, <1>17, <1>18
        DEF DueInv, ListSent

LEMMA NextKeepsWindow ==
    ASSUME TypeOK, WindowInv, [Next]_vars
    PROVE  WindowInv'
<1> SUFFICES ASSUME ~astray'
             PROVE  /\ outgoing' = <<>>
                    /\ IF ListSent' THEN MapAgrees' /\ DueInv' ELSE ListDue'
  BY DEF WindowInv
<1>1. /\ outgoing = <<>>
      /\ IF ListSent THEN MapAgrees /\ DueInv ELSE ListDue
  BY AstrayStays DEF WindowInv
<1>2. CASE ListSent
  BY <1>1, <1>2, AfterList
<1>3. CASE ~ListSent /\ SendList
  BY <1>1, <1>3, ListGoes
<1>4. CASE ~ListSent /\ ~SendList
  BY <1>1, <1>4, BeforeList
<1> QED BY <1>2, <1>3, <1>4

LEMMA InitWindow ==
    ASSUME Init
    PROVE  WindowInv
<1>1. Unread = <<>> /\ DOMAIN Unread = {} /\ DOMAIN fetched = {}
  <2>1. <<>> \in Seq(Blocks)
    OBVIOUS
  <2> QED BY <2>1, ConcatEmptySeq DEF Init, Unread
<1>2. ListDue
  BY <1>1 DEF Init, ListDue, ToBeRead
<1> QED BY <1>2 DEF Init, WindowInv, ListSent

\* Row numbers and rows agree after every block, for any table, any changes
\* made by whomever before, while and after the list is read, and any portions
\* in which the blocks arrive (deleteMessageResponse, echoclient.cpp:414), as
\* long as the list is sent, no addition has id 0, no deletion is repeated, no
\* change is told before the list is sent and none of a row that the list
\* cannot show is told to nobody.
THEOREM RowNumbers == Spec => []RowMapAgrees
<1>1. Init => FullInv /\ WindowInv
  BY InitFull, InitWindow
<1>2. FullInv /\ WindowInv /\ [Next]_vars => FullInv' /\ WindowInv'
  BY NextKeepsFull, NextKeepsWindow DEF FullInv
<1>3. FullInv /\ WindowInv => RowMapAgrees
  <2> SUFFICES ASSUME FullInv, WindowInv, ~astray
               PROVE  MapAgrees
    BY DEF RowMapAgrees, MapAgrees, RowIds
  <2>1. CASE ~ListSent
    <3>1. m_messages = <<>> /\ DOMAIN m_messageIdRowNum = {}
      BY <2>1 DEF WindowInv, ListDue
    <3> QED BY <3>1 DEF MapAgrees, RowIds, ToSet
  <2> QED BY <2>1 DEF WindowInv
<1> QED BY <1>1, <1>2, <1>3, PTL DEF Spec

\* A window that has been sent its list and has read everything shows the
\* server's table, every message once, with its author and text and by
\* increasing id, on the same conditions (readServerResponse,
\* echoclient.cpp:255; serverthread.cpp:58-83).
THEOREM WindowFollows == Spec => []WindowFollowsStore
<1>1. Init => FullInv /\ WindowInv
  BY InitFull, InitWindow
<1>2. FullInv /\ WindowInv /\ [Next]_vars => FullInv' /\ WindowInv'
  BY NextKeepsFull, NextKeepsWindow DEF FullInv
<1>3. FullInv /\ WindowInv => WindowFollowsStore
  <2> SUFFICES ASSUME FullInv, WindowInv, ~astray, ListSent, Unread = <<>>
               PROVE  /\ {<<row.id, row.name, row.text>> :
                              row \in ToSet(m_messages)}
                             = {<<id, store[id].name, store[id].text>> :
                                    id \in DOMAIN store}
                      /\ \A i, j \in DOMAIN m_messages :
                             i < j => m_messages[i].id < m_messages[j].id
    BY DEF WindowFollowsStore, Unread
  <2>0. DueInv /\ m_messages \in Seq(MessageRows)
    BY DEF WindowInv, FullInv, TypeOK
  <2>1. /\ DOMAIN Unread = {}
        /\ \A id : id \in RowIds <=>
               \E r \in DOMAIN m_messages : m_messages[r].id = id
        /\ DOMAIN m_messages = 1 .. Len(m_messages)
        /\ Len(m_messages) \in Nat
    BY <2>0, RowsType
  <2>2. \A id : id \in RowIds <=> id \in DOMAIN store
    BY <2>0, <2>1 DEF DueInv, RowsDue
  <2>3. \A id \in DOMAIN store : Shows(id, store[id].text)
    BY <2>0, <2>1 DEF DueInv, TextsDue
  <2>4. ASSUME NEW q \in DOMAIN m_messages, NEW p \in DOMAIN m_messages,
               m_messages[q].id = m_messages[p].id
        PROVE  q = p
    <3> SUFFICES ASSUME q # p PROVE FALSE
      OBVIOUS
    <3>1. q < p \/ p < q
      BY <2>1
    <3>2. m_messages[q].id \in Nat /\ m_messages[p].id \in Nat
      BY <2>0, RowIdsNat
    <3> QED BY <2>0, <2>4, <3>1, <3>2 DEF DueInv, IdsGrow
  <2>5. \A r \in DOMAIN m_messages :
            /\ m_messages[r].id \in DOMAIN store
            /\ m_messages[r].name = store[m_messages[r].id].name
            /\ m_messages[r].text = store[m_messages[r].id].text
    BY <2>0, <2>1, <2>2, <2>3, <2>4 DEF Shows, DueInv, NamesDue
  <2>6. \A id \in DOMAIN store : \E r \in DOMAIN m_messages :
            m_messages[r].id = id
    BY <2>3 DEF Shows
  <2>7. {<<row.id, row.name, row.text>> : row \in ToSet(m_messages)}
            = {<<m_messages[r].id, m_messages[r].name, m_messages[r].text>> :
                   r \in DOMAIN m_messages}
    BY DEF ToSet
  <2>8. {<<m_messages[r].id, m_messages[r].name, m_messages[r].text>> :
             r \in DOMAIN m_messages}
            = {<<id, store[id].name, store[id].text>> : id \in DOMAIN store}
    BY <2>5, <2>6
  <2> QED BY <2>0, <2>7, <2>8 DEF DueInv, IdsGrow
<1> QED BY <1>1, <1>2, <1>3, PTL DEF Spec
=============================================================================
