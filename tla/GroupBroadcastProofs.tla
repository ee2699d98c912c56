------------------------ MODULE GroupBroadcastProofs ------------------------
(***************************************************************************)
(* Proofs about GroupBroadcast, for any sets of sessions and of blocks.    *)
(***************************************************************************)
EXTENDS GroupBroadcast, TLAPS

\* Type correctness of the abstract specification.
THEOREM TypeCorrect == Spec => []TypeOK
<1>1. Init => TypeOK
  BY DEF Init, TypeOK
<1>2. TypeOK /\ [Next]_vars => TypeOK'
  <2> SUFFICES ASSUME TypeOK, [Next]_vars PROVE TypeOK'
    OBVIOUS
  <2>1. ASSUME NEW s \in Sessions, Join(s) \/ Refuse(s) \/ Leave(s)
        PROVE  TypeOK'
    BY <2>1 DEF TypeOK, Join, Refuse, Leave
  <2>2. ASSUME NEW block \in Broadcasts, NEW lost \in SUBSET members,
               Publish(block, lost)
        PROVE  TypeOK'
    BY <2>2 DEF TypeOK, Publish
  <2>3. CASE UNCHANGED vars
    BY <2>3 DEF TypeOK, vars
  <2> QED BY <2>1, <2>2, <2>3 DEF Next
<1> QED BY <1>1, <1>2, PTL DEF Spec

\* The part of the sequence one session has: the body of ContiguousDelivery.
Contiguous(s, skipped) ==
    /\ ReceivedAfter(s, skipped)
    /\ s \in members => skipped + Len(delivered[s]) = Len(published)

\* Publishing a block keeps every session's part contiguous: it grows by the
\* block, if the session is a member that is not lost, or stays as it is.
LEMMA PublishKeepsContiguous ==
    ASSUME TypeOK, NEW block \in Broadcasts, NEW lost \in SUBSET members,
           Publish(block, lost),
           NEW s \in Sessions, NEW skipped \in 0 .. Len(published),
           Contiguous(s, skipped)
    PROVE  Contiguous(s, skipped)'
<1> DEFINE len == Len(published)
           got == Len(delivered[s])
<1>1. len \in Nat /\ got \in Nat /\ skipped \in Nat /\ skipped + got <= len
  BY DEF TypeOK, Contiguous, ReceivedAfter
<1>2. Len(published') = len + 1 /\ published'[len + 1] = block
  BY DEF TypeOK, Publish
<1>3. \A i \in 1 .. len : published'[i] = published[i]
  BY DEF TypeOK, Publish
<1>4. \A i \in 1 .. got :
          /\ skipped + i \in 1 .. len
          /\ published'[skipped + i] = delivered[s][i]
  <2> SUFFICES ASSUME NEW i \in 1 .. got
               PROVE  /\ skipped + i \in 1 .. len
                      /\ published'[skipped + i] = delivered[s][i]
    OBVIOUS
  <2>1. skipped + i \in 1 .. len
    BY <1>1
  <2>2. delivered[s][i] = published[skipped + i]
    BY DEF Contiguous, ReceivedAfter
  <2> QED BY <1>3, <2>1, <2>2
<1>5. CASE s \in members \ lost
  <2>1. Len(delivered'[s]) = got + 1 /\ delivered'[s][got + 1] = block
    BY <1>5 DEF Publish, TypeOK
  <2>2. \A i \in 1 .. got : delivered'[s][i] = delivered[s][i]
    BY <1>5 DEF Publish, TypeOK
  <2>3. skipped + got = len
    BY <1>5 DEF Contiguous
  <2>4. ASSUME NEW i \in 1 .. Len(delivered'[s])
        PROVE  delivered'[s][i] = published'[skipped + i]
    <3>1. CASE i \in 1 .. got
      BY <1>4, <2>2, <3>1
    <3>2. CASE i = got + 1
      <4>1. skipped + i = len + 1
        BY <1>1, <2>3, <3>2
      <4> QED BY <1>2, <2>1, <3>2, <4>1
    <3>3. i \in 1 .. got \/ i = got + 1
      <4> HIDE DEF got
      <4> QED BY <1>1, <2>1
    <3> QED BY <3>1, <3>2, <3>3
  <2>5. skipped + Len(delivered'[s]) = Len(published')
    <3> HIDE DEF got, len
    <3> QED BY <1>1, <1>2, <2>1, <2>3
  <2>6. skipped + Len(delivered'[s]) <= Len(published')
    <3> HIDE DEF got, len
    <3> QED BY <1>1, <1>2, <2>1, <2>3
  <2> QED BY <2>4, <2>5, <2>6 DEF Contiguous, ReceivedAfter
<1>6. CASE s \notin members \ lost
  <2>1. delivered'[s] = delivered[s] /\ s \notin members'
    BY <1>6 DEF Publish
  <2>2. skipped + Len(delivered'[s]) <= Len(published')
    <3> HIDE DEF len
    <3> QED BY <1>1, <1>2, <2>1
  <2> QED BY <1>4, <2>1, <2>2 DEF Contiguous, ReceivedAfter
<1> QED BY <1>5, <1>6

\* A session that has not joined has received nothing: needed because Join
\* makes it a member whose part must end with the published sequence.
OutsidersHaveNothing ==
    \A s \in Sessions : s \notin past => delivered[s] = <<>>

MembersAreKnown == members \subseteq past

Inv == ContiguousDelivery /\ OutsidersHaveNothing /\ MembersAreKnown

LEMMA InvInductive == TypeOK /\ Inv /\ [Next]_vars => Inv'
<1> SUFFICES ASSUME TypeOK, Inv, [Next]_vars PROVE Inv'
  OBVIOUS
<1> USE DEF Inv, MembersAreKnown, OutsidersHaveNothing
<1>0. /\ ContiguousDelivery =
             \A s \in Sessions :
                 \E skipped \in 0 .. Len(published) : Contiguous(s, skipped)
      /\ ContiguousDelivery' =
             \A s \in Sessions :
                 \E skipped \in 0 .. Len(published') :
                     Contiguous(s, skipped)'
  BY DEF ContiguousDelivery, Contiguous
<1>1. ASSUME NEW s \in Sessions, Join(s)
      PROVE  Inv'
  <2>1. ASSUME NEW r \in Sessions, r # s
        PROVE  \E skipped \in 0 .. Len(published') : Contiguous(r, skipped)'
    BY <1>0, <1>1, <2>1 DEF Join, Contiguous, ReceivedAfter
  <2>2. Contiguous(s, Len(published))'
    BY <1>1 DEF Join, Contiguous, ReceivedAfter, TypeOK
  <2>3. Len(published) \in 0 .. Len(published')
    BY <1>1 DEF Join, TypeOK
  <2>4. ContiguousDelivery'
    BY <1>0, <2>1, <2>2, <2>3
  <2> QED BY <1>1, <2>4 DEF Join
<1>2. ASSUME NEW s \in Sessions, Refuse(s)
      PROVE  Inv'
  BY <1>0, <1>2 DEF Refuse, Contiguous, ReceivedAfter
<1>3. ASSUME NEW s \in Sessions, Leave(s)
      PROVE  Inv'
  BY <1>0, <1>3 DEF Leave, Contiguous, ReceivedAfter
<1>4. ASSUME NEW block \in Broadcasts, NEW lost \in SUBSET members,
             Publish(block, lost)
      PROVE  Inv'
  <2>1. ASSUME NEW s \in Sessions
        PROVE  \E skipped \in 0 .. Len(published') : Contiguous(s, skipped)'
    <3>1. PICK skipped \in 0 .. Len(published) : Contiguous(s, skipped)
      BY <1>0
    <3>2. Contiguous(s, skipped)'
      BY <1>4, <3>1, PublishKeepsContiguous
    <3>3. skipped \in 0 .. Len(published')
      BY <1>4 DEF Publish, TypeOK
    <3> QED BY <3>2, <3>3
  <2> QED BY <1>0, <1>4, <2>1 DEF Publish
<1>5. CASE UNCHANGED vars
  BY <1>0, <1>5 DEF vars, Contiguous, ReceivedAfter
<1> QED BY <1>1, <1>2, <1>3, <1>4, <1>5 DEF Next

\* Every session receives one contiguous part of the published sequence, for
\* any number of sessions and blocks.
THEOREM DeliveryIsContiguous == Spec => []ContiguousDelivery
<1>1. Init => Inv
  BY DEF Init, Inv, ContiguousDelivery, OutsidersHaveNothing,
         MembersAreKnown, ReceivedAfter
<1> QED BY <1>1, TypeCorrect, InvInductive, PTL DEF Spec, Inv
=============================================================================
