---------------------------- MODULE ServerStartup ---------------------------
(***************************************************************************)
(* The start of the server and what may end it.  The constructor of        *)
(* EchoServer listens at once; the key file and the database come later,   *)
(* when the key dialog has been accepted, and each of its boxes runs the   *)
(* event loop, which accepts connections.  A thread takes the path and the *)
(* pointer to the database as they are when its connection is accepted.    *)
(* An exception that leaves run() ends the program.                        *)
(***************************************************************************)
EXTENDS Naturals, Sequences

\* What is at a path: nothing at the empty one, a usable key, another file.
KeyPaths == {"", "serverKey", "otherFile"}

\* The member database has no value before dialogResult() assigns it.
Databases == {"unset", "closed", "open"}

VARIABLES
    mainThread,          \* where the main thread is, or how the program ended
    listening,           \* listen() has succeeded
    keyPathLineEdit,     \* what the key dialog shows
    server_sk_file_path,
    database,
    device               \* the device with the key file is plugged in

mainVars == <<mainThread, listening, keyPathLineEdit, server_sk_file_path,
              database, device>>

StartupTypeOK ==
    /\ mainThread \in {"keyDialog", "dialogResult", "openError", "serving",
                       "quit", "terminated"}
    /\ listening \in BOOLEAN
    /\ keyPathLineEdit \in KeyPaths
    /\ server_sk_file_path \in KeyPaths
    /\ database \in Databases
    /\ device \in BOOLEAN

StartupInit ==
    /\ mainThread = "keyDialog"
    /\ listening \in BOOLEAN
    /\ keyPathLineEdit = ""
    /\ server_sk_file_path = ""
    /\ database = "unset"
    /\ device = TRUE

-----------------------------------------------------------------------------
\* A file of another device is refused, which changes nothing.
browseServerKeyFile ==
    /\ mainThread = "keyDialog"
    /\ device
    /\ keyPathLineEdit' \in KeyPaths \ {""}
    /\ UNCHANGED <<mainThread, listening, server_sk_file_path, database,
                   device>>

\* accept(); the button is enabled once a file has been chosen.  The signal
\* finished() is queued to dialogResult().
runServer ==
    /\ mainThread = "keyDialog"
    /\ keyPathLineEdit # ""
    /\ mainThread' = "dialogResult"
    /\ UNCHANGED <<listening, keyPathLineEdit, server_sk_file_path, database,
                   device>>

\* The path is assigned first.  Where the database cannot be opened, the box
\* of the constructor of SqlWrapper is shown before database is assigned.
dialogResult ==
    /\ mainThread = "dialogResult"
    /\ server_sk_file_path' = keyPathLineEdit
    /\ \/ mainThread' = "serving" /\ database' = "open"
       \/ mainThread' = "openError" /\ UNCHANGED database
    /\ UNCHANGED <<listening, keyPathLineEdit, device>>

\* The box is closed: the constructor returns, with the connection closed.
DismissOpenError ==
    /\ mainThread = "openError"
    /\ mainThread' = "serving"
    /\ database' = "closed"
    /\ UNCHANGED <<listening, keyPathLineEdit, server_sk_file_path, device>>

RemoveDevice ==
    /\ device
    /\ device' = FALSE
    /\ UNCHANGED <<mainThread, listening, keyPathLineEdit,
                   server_sk_file_path, database>>

Startup ==
    \/ browseServerKeyFile
    \/ runServer
    \/ dialogResult
    \/ DismissOpenError
    \/ RemoveDevice

-----------------------------------------------------------------------------
\* The program ends, whatever the main thread was doing.
EndProgram(how) ==
    /\ mainThread' = how
    /\ UNCHANGED <<listening, keyPathLineEdit, server_sk_file_path, database,
                   device>>

\* The key dialog is rejected, or the Quit button closes the window.
QuitServer ==
    /\ mainThread \in {"keyDialog", "serving"}
    /\ EndProgram("quit")
=============================================================================
