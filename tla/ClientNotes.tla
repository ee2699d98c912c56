---------------------------- MODULE ClientNotes -----------------------------
(***************************************************************************)
(* The notes tab of EchoClient's window.  The notes are a local database.  *)
(* A click on the tab asks for a password and, once it is typed, the       *)
(* server for the other half of it; the server writes the half somebody    *)
(* asked for to every client, and each client opens its notes anew with    *)
(* whatever half it gets.  Password and halves go no further than          *)
(* setPassword(), which the driver, QSQLITE, ignores: they are left out.   *)
(* open() succeeds or, for a reason that lies with the file, fails.        *)
(*                                                                         *)
(* The prompt for the password runs an event loop: blocks are read while   *)
(* it is open.  The box that tells of a failure opens in the slot that     *)
(* reads them: nothing goes on before it is closed.  The connection is the *)
(* program's default one, so addMessage() stores chat messages among the   *)
(* notes while they are open.  Which tab is shown is left open: the        *)
(* keyboard changes it without a click, so the buttons of the notes can be *)
(* reached at any time.                                                    *)
(***************************************************************************)
EXTENDS Naturals, Sequences, FiniteSets

CONSTANTS
    Texts,      \* texts of notes and chat messages
    MaxNoteId   \* bound: ids of notes, rows shown

ASSUME BoundAssumption == MaxNoteId \in Nat

VARIABLES
    prompt,             \* the password dialog is open
    box,                \* the box "Cannot open database." is open
    opened,             \* db_connection_ is open
    user_notes,         \* the stored notes: id |-> text
    seq,                \* sqlite_sequence of user_notes
    m_notes,            \* the rows shown
    unsaved             \* history: a row was shown that could not be stored

passwordVars == <<prompt, box, opened>>
tableVars == <<user_notes, seq, m_notes, unsaved>>
vars == <<passwordVars, tableVars>>

Init ==
    /\ prompt = FALSE
    /\ box = FALSE
    /\ opened = FALSE
    /\ \E text \in Texts : user_notes = <<text>>
    /\ seq = 1
    /\ m_notes = <<>>
    /\ unsaved = FALSE

-----------------------------------------------------------------------------
\* The tab.

\* No dialog covers the window.
Usable == ~prompt /\ ~box

\* tabBarTabChanged(1), up to the dialog; a click on the current tab counts.
ClickNotes ==
    /\ Usable
    /\ prompt' = TRUE
    /\ UNCHANGED <<box, opened, tableVars>>

\* OK, on which the half is asked for, or Cancel.
AnswerPrompt ==
    /\ prompt
    /\ ~box
    /\ prompt' = FALSE
    /\ UNCHANGED <<box, opened, tableVars>>

\* connect_to_client_database(), for a half that this user or another has
\* asked for: addDatabase() drops the connection there was.
HalfArrives ==
    /\ ~box
    /\ opened' \in BOOLEAN
    /\ box' = ~opened'
    /\ UNCHANGED <<prompt, tableVars>>

CloseBox ==
    /\ box
    /\ box' = FALSE
    /\ UNCHANGED <<prompt, opened, tableVars>>

-----------------------------------------------------------------------------
\* The notes.

\* Mutant of Insert: the table has no AUTOINCREMENT.
InsertKeepingSeq(id, text) ==
    /\ user_notes' = IF opened /\ id \notin DOMAIN user_notes
                        THEN [i \in DOMAIN user_notes \cup {id} |->
                                  IF i = id THEN text ELSE user_notes[i]]
                        ELSE user_notes
    /\ UNCHANGED seq

\* INSERT: it fails if the notes are closed or have the id.
Insert(id, text) ==
    IF opened /\ id \notin DOMAIN user_notes
       THEN /\ user_notes' = [i \in DOMAIN user_notes \cup {id} |->
                                  IF i = id THEN text ELSE user_notes[i]]
            /\ seq' = IF id > seq THEN id ELSE seq
       ELSE UNCHANGED <<user_notes, seq>>

\* addMessage() of a message of the chat.
ChatMessage ==
    /\ ~box
    /\ seq < MaxNoteId
    /\ \E text \in Texts : Insert(seq + 1, text)
    /\ UNCHANGED <<passwordVars, m_notes, unsaved>>

\* Mutant of get_available_id: the last id instead of the next.
last_id == IF opened THEN seq ELSE 1

\* A query on a closed database gives no row, and its value 0.
get_available_id == IF opened THEN seq + 1 ELSE 1

addNoteRequest ==
    /\ Usable
    /\ seq < MaxNoteId
    /\ Len(m_notes) < MaxNoteId
    /\ \E text \in Texts :
           /\ Insert(get_available_id, text)
           /\ m_notes' =
                  Append(m_notes, [id |-> get_available_id, text |-> text])
    /\ unsaved' = (unsaved \/ ~opened)
    /\ UNCHANGED passwordVars

\* The rows of SELECT * FROM user_notes, by id; none if they are closed.
Rows(notes) ==
    LET Rank(id) == Cardinality({i \in DOMAIN notes : i <= id})
    IN  [r \in 1 .. Cardinality(DOMAIN notes) |->
            LET id == CHOOSE i \in DOMAIN notes : Rank(i) = r
            IN  [id |-> id, text |-> notes[id]]]

\* refreshNotesRequest(), after a query that left the table at "notes".
Refresh(notes) ==
    /\ m_notes' = IF opened THEN Rows(notes) ELSE <<>>
    /\ unsaved' = FALSE

refreshNotesRequest ==
    /\ Usable
    /\ Refresh(user_notes)
    /\ UNCHANGED <<passwordVars, user_notes, seq>>

deleteNoteRequest ==
    /\ Usable
    /\ \E curRow \in DOMAIN m_notes :
           user_notes' =
               IF opened
                  THEN [id \in DOMAIN user_notes \ {m_notes[curRow].id} |->
                            user_notes[id]]
                  ELSE user_notes
    /\ Refresh(user_notes')
    /\ UNCHANGED <<passwordVars, seq>>

\* The step is the answer of its dialog: nothing changes the rows before it.
modifyNoteRequest ==
    /\ Usable
    /\ \E curRow \in DOMAIN m_notes :
           \E newText \in Texts \ {m_notes[curRow].text} :
               user_notes' =
                   [id \in DOMAIN user_notes |->
                        IF opened /\ id = m_notes[curRow].id
                           THEN newText ELSE user_notes[id]]
    /\ Refresh(user_notes')
    /\ UNCHANGED <<passwordVars, seq>>

-----------------------------------------------------------------------------
Next ==
    \/ ClickNotes
    \/ AnswerPrompt
    \/ HalfArrives
    \/ CloseBox
    \/ ChatMessage
    \/ addNoteRequest
    \/ refreshNotesRequest
    \/ deleteNoteRequest
    \/ modifyNoteRequest

Spec == Init /\ [][Next]_vars

-----------------------------------------------------------------------------
\* Type invariant.
TypeOK ==
    /\ prompt \in BOOLEAN
    /\ box \in BOOLEAN
    /\ opened \in BOOLEAN
    /\ DOMAIN user_notes \subseteq 1 .. seq
    /\ user_notes \in [DOMAIN user_notes -> Texts]
    /\ seq \in Nat
    /\ m_notes \in Seq([id : Nat, text : Texts])
    /\ unsaved \in BOOLEAN

\* Safety: unless a note was added while the database was closed, each row
\* shown is the note that is stored under its id, so that a deletion or a
\* modification hits the note its user has selected, with chat messages being
\* inserted and the database being closed and opened in between
\* (echoclient.cpp:534-624).
RowsAreStored ==
    ~unsaved =>
        \A r \in DOMAIN m_notes :
            /\ m_notes[r].id \in DOMAIN user_notes
            /\ user_notes[m_notes[r].id] = m_notes[r].text
=============================================================================
