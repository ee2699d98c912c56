------------------------- MODULE ClientNotesProofs -------------------------
(***************************************************************************)
(* The rows of the notes tab, for any texts and any bound: each one shows  *)
(* the note that is stored under its id.                                   *)
(***************************************************************************)
EXTENDS ClientNotes, FiniteSetTheorems, WellFoundedInduction, TLAPS

RowType == [id : Nat, text : Texts]

-----------------------------------------------------------------------------
(* The rows of a table.                                                    *)

\* The ids of D that a row of id k has before it, and k.
UpTo(D, k) == {i \in D : i <= k}

LEMMA LeastNatural ==
    ASSUME NEW S, S \subseteq Nat, S # {}
    PROVE  \E x \in S : \A y \in S : x <= y
  <1>. DEFINE less == OpToRel(<, Nat)
  <1>1. IsWellFoundedOn(less, Nat)
    BY NatLessThanWellFounded
  <1>2. \E x \in S : \A y \in S : ~(<<y, x>> \in less)
    <2>. HIDE DEF less
    <2>. QED  BY <1>1, WFMin
  <1>3. PICK x \in S : \A y \in S : ~(<<y, x>> \in less)
    BY <1>2
  <1>4. \A y \in S : ~(y < x)
    BY <1>3 DEF OpToRel
  <1>5. \A y \in S : x <= y
    BY <1>4
  <1>. QED  BY <1>5

\* Ids that are bounded are finitely many numbers.
LEMMA BoundedSet ==
    ASSUME NEW n \in Nat, NEW D, D \subseteq 1 .. n
    PROVE  IsFiniteSet(D) /\ D \subseteq Nat
  <1>1. IsFiniteSet(1 .. n) /\ 1 .. n \subseteq Nat
    <2>1. 1 \in Int /\ n \in Int
      OBVIOUS
    <2>. QED  BY <2>1, FS_Interval
  <1>. QED  BY <1>1, FS_Subset

\* One more id adds one to the count if it is in use, and nothing otherwise.
LEMMA UpToNext ==
    ASSUME NEW D, D \subseteq Nat, IsFiniteSet(D), NEW k \in Nat
    PROVE  /\ Cardinality(UpTo(D, k)) \in Nat
           /\ k + 1 \in D =>
                  Cardinality(UpTo(D, k + 1)) = Cardinality(UpTo(D, k)) + 1
           /\ k + 1 \notin D =>
                  Cardinality(UpTo(D, k + 1)) = Cardinality(UpTo(D, k))
  <1>1. IsFiniteSet(UpTo(D, k))
    BY FS_Subset DEF UpTo
  <1>2. k + 1 \notin UpTo(D, k)
    BY DEF UpTo
  <1>0. \A i \in Nat : i <= k + 1 <=> i <= k \/ i = k + 1
    OBVIOUS
  <1>3. CASE k + 1 \in D
    <2>1. UpTo(D, k + 1) = UpTo(D, k) \cup {k + 1}
      BY <1>0, <1>3, Zenon DEF UpTo
    <2>. QED  BY <1>1, <1>2, <1>3, <2>1, FS_AddElement, FS_CardinalityType
  <1>4. CASE k + 1 \notin D
    <2>1. UpTo(D, k + 1) = UpTo(D, k)
      BY <1>0, <1>4, Zenon DEF UpTo
    <2>. QED  BY <1>1, <1>4, <2>1, FS_CardinalityType
  <1>. QED  BY <1>3, <1>4

\* There is an id of every rank from 1 to the number of ids.
LEMMA RankExists ==
    ASSUME NEW n \in Nat, NEW D, D \subseteq 1 .. n,
           NEW r \in 1 .. Cardinality(D)
    PROVE  \E id \in D : Cardinality(UpTo(D, id)) = r
  <1>. DEFINE K == {k \in Nat : Cardinality(UpTo(D, k)) >= r}
  <1>1. IsFiniteSet(D) /\ D \subseteq Nat
    BY BoundedSet
  <1>2. Cardinality(D) \in Nat /\ r \in Nat /\ r >= 1 /\ r <= Cardinality(D)
    BY <1>1, FS_CardinalityType
  <1>3. UpTo(D, n) = D
    <2>1. \A i \in 1 .. n : i <= n
      OBVIOUS
    <2>. QED  BY <2>1, Zenon DEF UpTo
  <1>4. n \in K
    BY <1>2, <1>3
  <1>5. PICK k \in K : \A j \in K : k <= j
    BY <1>4, LeastNatural
  <1>6. UpTo(D, 0) = {}
    <2>1. \A i \in 1 .. n : ~(i <= 0)
      OBVIOUS
    <2>. QED  BY <2>1, Zenon DEF UpTo
  <1>7. k # 0
    BY <1>2, <1>6, FS_EmptySet
  <1>8. k - 1 \in Nat /\ (k - 1) + 1 = k
    BY <1>7
  <1>9. k - 1 \notin K
    BY <1>5, <1>8
  <1>10. /\ Cardinality(UpTo(D, k - 1)) \in Nat
         /\ k \in D =>
                Cardinality(UpTo(D, k)) = Cardinality(UpTo(D, k - 1)) + 1
         /\ k \notin D =>
                Cardinality(UpTo(D, k)) = Cardinality(UpTo(D, k - 1))
    <2>. HIDE DEF K
    <2>. QED  BY <1>1, <1>8, UpToNext, ZenonT(30)
  <1>11. /\ Cardinality(UpTo(D, k)) >= r
         /\ ~(Cardinality(UpTo(D, k - 1)) >= r)
    BY <1>8, <1>9
  <1>12. k \in D /\ Cardinality(UpTo(D, k)) = r
    BY <1>2, <1>10, <1>11
  <1>. QED  BY <1>12

\* Rows: each row is a note of the table, under its id.
LEMMA RowsOfTable ==
    ASSUME NEW n \in Nat, NEW D, D \subseteq 1 .. n, NEW notes \in [D -> Texts]
    PROVE  /\ Rows(notes) \in Seq(RowType)
           /\ \A r \in DOMAIN Rows(notes) :
                  /\ Rows(notes)[r].id \in D
                  /\ notes[Rows(notes)[r].id] = Rows(notes)[r].text
  <1>. DEFINE Id(r) == CHOOSE i \in D : Cardinality(UpTo(D, i)) = r
              Row(r) == [id |-> Id(r), text |-> notes[Id(r)]]
              N == Cardinality(D)
  <1>1. Rows(notes) = [r \in 1 .. N |-> Row(r)]
    BY DEF Rows, UpTo
  <1>2. N \in Nat
    BY BoundedSet, FS_CardinalityType
  <1>3. ASSUME NEW r \in 1 .. N
        PROVE  Id(r) \in D
    BY RankExists
  <1>. HIDE DEF Id, N
  <1>4. ASSUME NEW r \in 1 .. N
        PROVE  /\ Row(r) \in RowType
               /\ Row(r).id = Id(r)
               /\ Row(r).text = notes[Id(r)]
    <2>1. Id(r) \in Nat /\ notes[Id(r)] \in Texts
      BY <1>3, BoundedSet
    <2>. QED  BY <2>1 DEF RowType
  <1>. HIDE DEF Row
  <1>5. Rows(notes) \in Seq(RowType)
    BY <1>1, <1>2, <1>4
  <1>6. ASSUME NEW r \in DOMAIN Rows(notes)
        PROVE  /\ Rows(notes)[r].id \in D
               /\ notes[Rows(notes)[r].id] = Rows(notes)[r].text
    <2>1. r \in 1 .. N /\ Rows(notes)[r] = Row(r)
      BY <1>1
    <2>. QED  BY <1>3, <1>4, <2>1
  <1>. QED  BY <1>5, <1>6

-----------------------------------------------------------------------------
(* The invariant is TypeOK and RowsAreStored, together.                    *)

IInv == TypeOK /\ RowsAreStored

LEMMA Initially ==
    ASSUME Init
    PROVE  IInv
  <1>1. PICK text \in Texts : user_notes = <<text>>
    BY DEF Init
  <1>2. /\ DOMAIN user_notes = 1 .. 1
        /\ user_notes \in [DOMAIN user_notes -> Texts]
    BY <1>1
  <1>3. TypeOK
    <2>1. <<>> \in Seq([id : Nat, text : Texts])
      OBVIOUS
    <2>2. /\ DOMAIN user_notes \subseteq 1 .. seq
          /\ seq \in Nat
      BY <1>2 DEF Init
    <2>. QED  BY <1>2, <2>1, <2>2 DEF Init, TypeOK
  <1>4. RowsAreStored
    BY DEF Init, RowsAreStored
  <1>. QED  BY <1>3, <1>4 DEF IInv

\* The dialogs and the connection: the table and the rows stay.
LEMMA PasswordStep ==
    ASSUME IInv, ClickNotes \/ AnswerPrompt \/ HalfArrives \/ CloseBox
    PROVE  IInv'
  <1>1. UNCHANGED tableVars
    BY DEF ClickNotes, AnswerPrompt, HalfArrives, CloseBox
  <1>2. prompt' \in BOOLEAN /\ box' \in BOOLEAN /\ opened' \in BOOLEAN
    BY DEF IInv, TypeOK, ClickNotes, AnswerPrompt, HalfArrives, CloseBox
  <1>3. TypeOK'
    BY <1>1, <1>2 DEF IInv, TypeOK, tableVars
  <1>4. RowsAreStored'
    BY <1>1 DEF IInv, RowsAreStored, tableVars
  <1>. QED  BY <1>3, <1>4 DEF IInv

\* An INSERT leaves the stored notes as they are, and adds at most its own.
LEMMA Inserted ==
    ASSUME TypeOK, NEW id \in Nat \ {0}, NEW text \in Texts, Insert(id, text)
    PROVE  /\ DOMAIN user_notes' \subseteq 1 .. seq'
           /\ user_notes' \in [DOMAIN user_notes' -> Texts]
           /\ seq' \in Nat
           /\ \A i \in DOMAIN user_notes :
                  i \in DOMAIN user_notes' /\ user_notes'[i] = user_notes[i]
           /\ opened /\ id \notin DOMAIN user_notes =>
                  id \in DOMAIN user_notes' /\ user_notes'[id] = text
  <1>1. /\ DOMAIN user_notes \subseteq 1 .. seq
        /\ user_notes \in [DOMAIN user_notes -> Texts]
        /\ seq \in Nat
    BY DEF TypeOK
  <1>2. CASE opened /\ id \notin DOMAIN user_notes
    <2>1. /\ user_notes' = [i \in DOMAIN user_notes \cup {id} |->
                               IF i = id THEN text ELSE user_notes[i]]
          /\ seq' = IF id > seq THEN id ELSE seq
      BY <1>2 DEF Insert
    <2>2. seq' \in Nat /\ seq <= seq' /\ id <= seq'
      BY <1>1, <2>1
    <2>3. 1 .. seq \subseteq 1 .. seq' /\ id \in 1 .. seq'
      BY <1>1, <2>2
    <2>. QED  BY <1>1, <1>2, <2>1, <2>2, <2>3
  <1>3. CASE ~(opened /\ id \notin DOMAIN user_notes)
    BY <1>1, <1>3 DEF Insert
  <1>. QED  BY <1>2, <1>3

\* The id that follows the last one is free.
LEMMA FreeId ==
    ASSUME TypeOK
    PROVE  seq + 1 \in Nat \ {0} /\ seq + 1 \notin DOMAIN user_notes
  <1>1. \A n \in Nat : n + 1 \in Nat \ {0} /\ n + 1 \notin 1 .. n
    OBVIOUS
  <1>. QED  BY <1>1 DEF TypeOK

LEMMA ChatMessageStep ==
    ASSUME IInv, ChatMessage
    PROVE  IInv'
  <1>. USE DEF IInv
  <1>1. PICK text \in Texts : Insert(seq + 1, text)
    BY DEF ChatMessage
  <1>2. seq + 1 \in Nat \ {0}
    BY FreeId
  <1>3. /\ DOMAIN user_notes' \subseteq 1 .. seq'
        /\ user_notes' \in [DOMAIN user_notes' -> Texts]
        /\ seq' \in Nat
        /\ \A i \in DOMAIN user_notes :
               i \in DOMAIN user_notes' /\ user_notes'[i] = user_notes[i]
    BY <1>1, <1>2, Inserted
  <1>4. TypeOK'
    BY <1>3 DEF TypeOK, ChatMessage, passwordVars
  <1>5. RowsAreStored'
    BY <1>3 DEF RowsAreStored, ChatMessage
  <1>. QED  BY <1>4, <1>5

\* The id of a new row is that of the note, unless the notes are closed.
LEMMA addNoteRequestStep ==
    ASSUME IInv, addNoteRequest
    PROVE  IInv'
  <1>. USE DEF IInv
  <1>. DEFINE row(text) == [id |-> get_available_id, text |-> text]
  <1>1. PICK text \in Texts :
            /\ Insert(get_available_id, text)
            /\ m_notes' = Append(m_notes, row(text))
    BY DEF addNoteRequest
  <1>2. get_available_id \in Nat \ {0}
    BY FreeId DEF get_available_id
  <1>3. opened => get_available_id \notin DOMAIN user_notes
    BY FreeId DEF get_available_id
  <1>4. /\ DOMAIN user_notes' \subseteq 1 .. seq'
        /\ user_notes' \in [DOMAIN user_notes' -> Texts]
        /\ seq' \in Nat
        /\ \A i \in DOMAIN user_notes :
               i \in DOMAIN user_notes' /\ user_notes'[i] = user_notes[i]
        /\ opened => /\ get_available_id \in DOMAIN user_notes'
                     /\ user_notes'[get_available_id] = text
    BY <1>1, <1>2, <1>3, Inserted
  <1>5. /\ row(text) \in [id : Nat, text : Texts]
        /\ row(text).id = get_available_id
        /\ row(text).text = text
    BY <1>2
  <1>. HIDE DEF row
  <1>6. /\ m_notes' \in Seq([id : Nat, text : Texts])
        /\ \A r \in DOMAIN m_notes' :
               \/ r \in DOMAIN m_notes /\ m_notes'[r] = m_notes[r]
               \/ m_notes'[r] = row(text)
    <2>1. m_notes \in Seq([id : Nat, text : Texts])
      BY DEF TypeOK
    <2>. QED  BY <1>1, <1>5, <2>1
  <1>7. TypeOK'
    BY <1>4, <1>6 DEF TypeOK, addNoteRequest, passwordVars
  <1>8. RowsAreStored'
    <2>. SUFFICES ASSUME ~unsaved', NEW r \in DOMAIN m_notes'
                  PROVE  /\ m_notes'[r].id \in DOMAIN user_notes'
                         /\ user_notes'[m_notes'[r].id] = m_notes'[r].text
      BY DEF RowsAreStored
    <2>1. ~unsaved /\ opened
      BY DEF addNoteRequest, TypeOK
    <2>2. CASE r \in DOMAIN m_notes /\ m_notes'[r] = m_notes[r]
      BY <1>4, <2>1, <2>2 DEF RowsAreStored
    <2>3. CASE m_notes'[r] = row(text)
      BY <1>4, <1>5, <2>1, <2>3
    <2>. QED  BY <1>6, <2>2, <2>3
  <1>. QED  BY <1>7, <1>8

\* After a query of any kind the rows shown are those of the table.
LEMMA RefreshedStep ==
    ASSUME IInv, Refresh(user_notes'),
           DOMAIN user_notes' \subseteq DOMAIN user_notes,
           user_notes' \in [DOMAIN user_notes' -> Texts],
           UNCHANGED <<passwordVars, seq>>
    PROVE  IInv'
  <1>. USE DEF IInv
  <1>. DEFINE notes == user_notes'
  <1>1. seq \in Nat /\ DOMAIN notes \subseteq 1 .. seq
    BY DEF TypeOK
  <1>2. /\ Rows(notes) \in Seq([id : Nat, text : Texts])
        /\ \A r \in DOMAIN Rows(notes) :
               /\ Rows(notes)[r].id \in DOMAIN notes
               /\ notes[Rows(notes)[r].id] = Rows(notes)[r].text
    <2>. HIDE DEF notes
    <2>1. notes \in [DOMAIN notes -> Texts]
      BY DEF notes
    <2>. QED  BY <1>1, <2>1, RowsOfTable, ZenonT(30) DEF RowType
  <1>3. CASE opened
    <2>1. m_notes' = Rows(notes) /\ unsaved' = FALSE
      BY <1>3 DEF Refresh
    <2>2. TypeOK'
      BY <1>1, <1>2, <2>1 DEF TypeOK, passwordVars
    <2>. QED  BY <1>2, <2>1, <2>2 DEF RowsAreStored
  <1>4. CASE ~opened
    <2>1. m_notes' = <<>> /\ unsaved' = FALSE
      BY <1>4 DEF Refresh
    <2>2. TypeOK'
      <3>1. <<>> \in Seq([id : Nat, text : Texts])
        OBVIOUS
      <3>. QED  BY <1>1, <2>1, <3>1 DEF TypeOK, passwordVars
    <2>. QED  BY <2>1, <2>2 DEF RowsAreStored
  <1>. QED  BY <1>3, <1>4

LEMMA RefreshSteps ==
    ASSUME IInv, refreshNotesRequest \/ deleteNoteRequest \/ modifyNoteRequest
    PROVE  IInv'
  <1>1. user_notes \in [DOMAIN user_notes -> Texts]
    BY DEF IInv, TypeOK
  <1>2. CASE refreshNotesRequest
    BY <1>1, <1>2, RefreshedStep DEF refreshNotesRequest
  <1>3. CASE deleteNoteRequest
    <2>1. /\ DOMAIN user_notes' \subseteq DOMAIN user_notes
          /\ user_notes' \in [DOMAIN user_notes' -> Texts]
      BY <1>1, <1>3 DEF deleteNoteRequest
    <2>. QED  BY <1>3, <2>1, RefreshedStep DEF deleteNoteRequest
  <1>4. CASE modifyNoteRequest
    <2>1. /\ DOMAIN user_notes' \subseteq DOMAIN user_notes
          /\ user_notes' \in [DOMAIN user_notes' -> Texts]
      BY <1>1, <1>4 DEF modifyNoteRequest
    <2>. QED  BY <1>4, <2>1, RefreshedStep DEF modifyNoteRequest
  <1>. QED  BY <1>2, <1>3, <1>4

LEMMA Inductive ==
    ASSUME IInv, [Next]_vars
    PROVE  IInv'
  <1>1. CASE UNCHANGED vars
    BY <1>1 DEF IInv, TypeOK, RowsAreStored, vars, passwordVars, tableVars
  <1>2. CASE Next
    BY <1>2, PasswordStep, ChatMessageStep, addNoteRequestStep, RefreshSteps
       DEF Next
  <1>. QED  BY <1>1, <1>2

LEMMA Always == Spec => []IInv
  BY Initially, Inductive, PTL DEF Spec

\* TypeOK holds in every reachable state, for all values of the constants.
THEOREM Typing == Spec => []TypeOK
  BY Always, PTL DEF IInv

\* RowsAreStored: unless a note was added while the notes were closed, each
\* row shown is the note stored under its id, so that a deletion or a
\* modification hits the note that was selected (EchoClient's notes tab).
THEOREM RowsShown == Spec => []RowsAreStored
  BY Always, PTL DEF IInv
=============================================================================
