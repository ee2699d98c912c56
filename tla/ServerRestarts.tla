--------------------------- MODULE ServerRestarts ---------------------------
(***************************************************************************)
(* ChatServer with the server program ending and being started again.      *)
(*                                                                         *)
(* Whatever ends it (the quit button, an exception in a worker, a power    *)
(* cut), it ends at once: nothing waits for the threads, which main() does *)
(* not know, and what is queued, read or half sent is gone.  The database  *)
(* is what the queries that have returned have made it, as every query is  *)
(* a transaction of its own: a slot may end between its query and its      *)
(* blocks, and a thread between two rows.                                  *)
(*                                                                         *)
(* A client of the old program is not connected any more; its window stays *)
(* as it was.  Starting again is ServerStartup's; here the new program has *)
(* opened its database, and sessions that were idle may connect to it.     *)
(***************************************************************************)
EXTENDS ChatServer

CONSTANTS MaxRestarts  \* bound: times the program ends

ASSUME RestartAssumption == MaxRestarts \in Nat

VARIABLES restarts  \* times it has ended

restartVars == <<vars, restarts>>

\* Sessions the old program knew, or that waited for it to accept them.
Started == {s \in Sessions : pc[s] # "idle"}

ProgramEnds ==
    /\ restarts < MaxRestarts
    /\ restarts' = restarts + 1
    /\ eventQueue' = <<>>
    /\ outgoing' = <<>>
    /\ m_userSocket' = [u \in Users |-> NoSocket]
    /\ pc' = [s \in Sessions |-> IF s \in Started THEN "done" ELSE pc[s]]
    /\ sock' = [s \in Sessions |-> FALSE]
    /\ rx' = [s \in Sessions |-> <<>>]
    /\ rows' = [s \in Sessions |-> <<>>]
    /\ buffer' = [s \in Sessions |-> <<>>]
    /\ UNCHANGED <<slotConnected, tx, peerClosed, m_username,
                   m_clientDisconnected, seen, log, taken, clientVars>>

\* Mutant of Restart: all writes since the start were one transaction.
RestartUncommitted ==
    /\ ProgramEnds
    /\ roles' = InitRoles
    /\ messages' = InitMessages
    /\ UNCHANGED sqlite_sequence

\* Mutant of Restart: the largest id is counted in the program.
RestartRecounting ==
    /\ ProgramEnds
    /\ sqlite_sequence' = Max(DOMAIN messages \cup {0})
    /\ UNCHANGED <<roles, messages>>

Restart ==
    /\ ProgramEnds
    /\ UNCHANGED dbVars

RestartInit == Init /\ restarts = 0

RestartNext ==
    \/ Next /\ UNCHANGED restarts
    \/ Restart

RestartSpec == RestartInit /\ [][RestartNext]_restartVars

-----------------------------------------------------------------------------
\* Ids of the messages deleted so far, and of those modified.
LoggedIds(ind) ==
    {log[i].block.id : i \in {j \in DOMAIN log : log[j].block.ind = ind}}

\* Safety: a message that any client has ever been shown, in a list or when it
\* was added, is stored under that id, author and text until a request deletes
\* or modifies it, also when the program that showed it has ended since, and
\* when it ended between the insertion and the broadcast (echoserver.cpp:186).
ToldIsStored ==
    \A s \in Sessions :
        \A row \in {r \in AddedRows(s) :
                        r.id \notin LoggedIds("DELETE_MESSAGE")} :
            /\ row.id \in DOMAIN messages
            /\ messages[row.id].user = row.name
            /\ row.id \notin LoggedIds("MODIFY_MESSAGE") =>
                   messages[row.id].text = row.text
=============================================================================
