--------------------------- MODULE GroupBroadcast ---------------------------
(***************************************************************************)
(* What the server promises about the blocks it sends to everybody: they   *)
(* form one sequence, and each session receives, in that order and without *)
(* a gap, the part of it that was published while it was a member.  A      *)
(* session is a member at most once.                                       *)
(***************************************************************************)
EXTENDS Naturals, Sequences

CONSTANTS
    Sessions,
    Broadcasts  \* the blocks that can be published

VARIABLES
    members,    \* sessions a published block reaches
    past,       \* sessions that have joined or been refused
    published,  \* every block published, oldest first
    delivered   \* delivered[s]: the blocks s has received, oldest first

vars == <<members, past, published, delivered>>

Init ==
    /\ members = {}
    /\ past = {}
    /\ published = <<>>
    /\ delivered = [s \in Sessions |-> <<>>]

Join(s) ==
    /\ s \notin past
    /\ past' = past \cup {s}
    /\ members' = members \cup {s}
    /\ UNCHANGED <<published, delivered>>

Refuse(s) ==
    /\ s \notin past
    /\ past' = past \cup {s}
    /\ UNCHANGED <<members, published, delivered>>

Leave(s) ==
    /\ s \in members
    /\ members' = members \ {s}
    /\ UNCHANGED <<past, published, delivered>>

\* Mutant of Publish: an unreachable member stays one.
PublishKeepingLost(block, lost) ==
    /\ published' = Append(published, block)
    /\ delivered' = [s \in Sessions |-> IF s \in members \ lost
                                           THEN Append(delivered[s], block)
                                           ELSE delivered[s]]
    /\ UNCHANGED <<members, past>>

\* The members "lost" turn out to be unreachable and leave.
Publish(block, lost) ==
    /\ published' = Append(published, block)
    /\ delivered' = [s \in Sessions |-> IF s \in members \ lost
                                           THEN Append(delivered[s], block)
                                           ELSE delivered[s]]
    /\ members' = members \ lost
    /\ UNCHANGED past

Next ==
    \/ \E s \in Sessions : Join(s) \/ Refuse(s) \/ Leave(s)
    \/ \E block \in Broadcasts, lost \in SUBSET members : Publish(block, lost)

Spec == Init /\ [][Next]_vars

-----------------------------------------------------------------------------
TypeOK ==
    /\ members \subseteq Sessions
    /\ past \subseteq Sessions
    /\ published \in Seq(Broadcasts)
    /\ delivered \in [Sessions -> Seq(Broadcasts)]

\* delivered[s] is published without its first "skipped" blocks, up to some
\* point.
ReceivedAfter(s, skipped) ==
    /\ skipped + Len(delivered[s]) <= Len(published)
    /\ \A i \in 1 .. Len(delivered[s]) :
           delivered[s][i] = published[skipped + i]

\* Safety: every session has received one contiguous part of the published
\* sequence, and a member has received everything since that part began
\* (the loops over m_userSocket in echoserver.cpp).
ContiguousDelivery ==
    \A s \in Sessions :
        \E skipped \in 0 .. Len(published) :
            /\ ReceivedAfter(s, skipped)
            /\ s \in members =>
                   skipped + Len(delivered[s]) = Len(published)
=============================================================================
