------------------------------ MODULE MCServer ------------------------------
(* Small instances of Server. *)
EXTENDS Server

MCRank == [name \in Name |-> IF name = "ann" THEN 0 ELSE IF name = "bob" THEN 1 ELSE 2]

MCEntrants == { <<d.session_id, d.player_name>> : d \in Datagram }

\* To bound the runs, no socket fails but those connected to a1.
MCNext ==
    \/ Loop \/ Expire \/ \E d \in Datagram : Arrive(d)
    \/ /\ Refuse
       /\ \A i \in DOMAIN clients : clients'[i].failed => clients[i].addr = "a1"

MCSpec == ServerInit /\ [][MCNext]_allVars

FairMCSpec == MCSpec /\ ServerFairness

-----------------------------------------------------------------------------
From(addr, sid, name, turns) ==
    { [addr |-> addr, session_id |-> sid, player_name |-> name, turn_direction |-> t,
       form |-> "VALID"] : t \in turns }

Malformed(addr, sid, name, turn, form) ==
    [addr |-> addr, session_id |-> sid, player_name |-> name,
     turn_direction |-> turn, form |-> form]

\* Three players, two of which share a session; the other one comes back from
\* another socket, in a new session.
ReturnDatagrams ==
    From("a1", 1, "ann", {1}) \cup From("a2", 2, "bob", {0, 1})
        \cup From("a3", 2, "cec", {0}) \cup From("a3", 3, "ann", {1})

\* Two players and an observer.  The first player, whose first session is 0, starts
\* anew on its old socket, and some of what comes from there is malformed.
SilenceDatagrams ==
    From("a1", 1, "ann", {1}) \cup From("a1", 0, "ann", {2})
        \cup {Malformed("a1", 1, "ann", 2, form) : form \in {"EMPTY", "INVALID"}}
        \cup From("a2", 3, NoName, {0}) \cup From("a3", 4, "bob", {1})

\* An observer alone.
TwinDatagrams == From("a1", 1, NoName, {0})

\* One player, which starts anew on its old socket.
ReconnectDatagrams == From("a1", 1, "ann", {1}) \cup From("a1", 2, "ann", {1})
=============================================================================
