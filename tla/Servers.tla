------------------------------ MODULE Servers ------------------------------
(***************************************************************************)
(* The X-UI servers and their inbounds as an administrator manages them    *)
(* (apps/bot/handlers/admin/servers.py).  A server row is followed through *)
(* is_active and health_status, an inbound row through is_active; names,   *)
(* addresses, domains and credentials are left out.                        *)
(*                                                                         *)
(* Synchronising the inbounds loads the rows, asks the panel for its       *)
(* inbounds and then writes the columns that differ from what it loaded.   *)
(* The other operations read and write within one short transaction.       *)
(*                                                                         *)
(* The module has no specification of its own: a module that extends it    *)
(* says which subscriptions live on the servers (Subscriptions).           *)
(***************************************************************************)
EXTENDS Naturals, FiniteSets

CONSTANTS
    Servers,
    Inbounds,        \* ids a panel can give to its inbounds
    NoServer,
    MaxServerOps     \* bound: administrators' operations on servers

ASSUME ServersAssumption ==
    /\ NoServer \notin Servers
    /\ MaxServerOps \in Nat

VARIABLES
    server,     \* xui_servers
    inbound,    \* xui_inbounds
    sync,       \* the synchronisation that waits for a panel
    resynced,   \* history: servers off since a synchronisation turned an inbound on
    serverOps   \* bound counter

serverVars == <<server, inbound, sync, resynced, serverOps>>

\* is_active and health_status always change together: "healthy" is the
\* only active one.
ServerStates == {"absent", "healthy", "disabled", "deleted"}
InboundStates == {"absent", "on", "off"}
AllAbsent == [i \in Inbounds |-> "absent"]
NoSync == [server |-> NoServer, loaded |-> AllAbsent]

IsActive(v) == server[v] = "healthy"
Off(v) == server[v] \in {"disabled", "deleted"}

ServersTypeOK ==
    /\ server \in [Servers -> ServerStates]
    /\ inbound \in [Servers -> [Inbounds -> InboundStates]]
    /\ sync \in [server : Servers \cup {NoServer}, loaded : [Inbounds -> InboundStates]]
    /\ resynced \subseteq Servers
    /\ serverOps \in 0..MaxServerOps

\* The servers in old run, with every inbound; the others can still be added.
ServersInit(old) ==
    /\ server = [v \in Servers |-> IF v \in old THEN "healthy" ELSE "absent"]
    /\ inbound = [v \in Servers |-> [i \in Inbounds |-> IF v \in old THEN "on" ELSE "absent"]]
    /\ sync = NoSync
    /\ resynced = {}
    /\ serverOps = 0

ServerOp ==
    /\ serverOps < MaxServerOps
    /\ serverOps' = serverOps + 1

-----------------------------------------------------------------------------
AllOff(rows) == [i \in Inbounds |-> IF rows[i] = "on" THEN "off" ELSE rows[i]]

\* The last step of the dialogue: a panel that answered, with the inbounds
\* R it listed.  A panel that does not answer ends the dialogue.
AddServer(v, R) ==
    /\ ServerOp
    /\ server[v] = "absent"
    /\ sync.server # v               \* the new row has an id of its own
    /\ server' = [server EXCEPT ![v] = "healthy"]
    /\ inbound' = [inbound EXCEPT ![v] = [i \in Inbounds |-> IF i \in R THEN "on" ELSE "absent"]]
    /\ UNCHANGED <<sync, resynced>>

\* Switching a server on leaves its inbounds off.  A button that is still
\* on the screen works for a server that was deleted meanwhile.
ToggledInbounds(v) == IF IsActive(v) THEN AllOff(inbound[v]) ELSE inbound[v]

ToggleServer(v) ==
    /\ ServerOp
    /\ server[v] # "absent"
    /\ server' = [server EXCEPT ![v] = IF IsActive(v) THEN "disabled" ELSE "healthy"]
    /\ inbound' = [inbound EXCEPT ![v] = ToggledInbounds(v)]
    /\ resynced' = resynced \ {v}
    /\ UNCHANGED sync

\* Archived while it has active clients.  Otherwise the row is deleted; the
\* ORM first takes the inbounds off it, which their NOT NULL server_id
\* refuses: with an inbound the deletion fails and nothing is committed.
Archive(v) ==
    /\ server' = [server EXCEPT ![v] = "deleted"]
    /\ inbound' = [inbound EXCEPT ![v] = AllOff(inbound[v])]

\* HardDelete if the rows of the inbounds went with the server.
HardDelete_Cascade(v) ==
    /\ server' = [server EXCEPT ![v] = "absent"]
    /\ inbound' = [inbound EXCEPT ![v] = AllAbsent]

HardDelete(v) ==
    IF inbound[v] = AllAbsent
    THEN server' = [server EXCEPT ![v] = "absent"] /\ UNCHANGED inbound
    ELSE UNCHANGED <<server, inbound>>

DeleteServer(v, activeClients) ==
    /\ ServerOp
    /\ server[v] # "absent"
    /\ IF activeClients > 0
       THEN Archive(v) /\ resynced' = resynced \ {v}
       ELSE HardDelete(v) /\ UNCHANGED resynced
    /\ UNCHANGED sync

-----------------------------------------------------------------------------
SyncStart(v) ==
    /\ ServerOp
    /\ sync = NoSync
    /\ server[v] # "absent"
    /\ sync' = [server |-> v, loaded |-> inbound[v]]
    /\ UNCHANGED <<server, inbound, resynced>>

\* _sync_remote_inbounds of a panel that lists R.
Listed(old, R) ==
    [i \in Inbounds |-> IF i \in R THEN "on"
                        ELSE IF old[i] = "absent" THEN "absent" ELSE "off"]

\* Written with an UPDATE of every row.
Written_All(rows, R) == Listed(sync.loaded, R)

\* A row is written only if it differs from what the session loaded.
Written(rows, R) ==
    [i \in Inbounds |-> IF Listed(sync.loaded, R)[i] = sync.loaded[i] THEN rows[i]
                        ELSE Listed(sync.loaded, R)[i]]

\* Some inbound the panel lists was off or unknown.
TurnsOn(R) == \E i \in R : sync.loaded[i] # "on"

SyncEnd(R) ==
    /\ sync # NoSync
    /\ sync' = NoSync
    /\ IF server[sync.server] = "absent" THEN UNCHANGED <<inbound, resynced>>
       ELSE /\ inbound' = [inbound EXCEPT ![sync.server] = Written(@, R)]
            /\ resynced' = IF Off(sync.server) /\ TurnsOn(R)
                           THEN resynced \cup {sync.server} ELSE resynced
    /\ UNCHANGED <<server, serverOps>>

\* The panel does not answer, or the bot restarts.
SyncFails ==
    /\ sync # NoSync
    /\ sync' = NoSync
    /\ UNCHANGED <<server, inbound, resynced, serverOps>>

-----------------------------------------------------------------------------
(* A server that was switched off or archived has no active inbound left:  *)
(* the dialogue that gives a plan an inbound offers every active one, and  *)
(* a plan without one falls back on the oldest active one, whatever its    *)
(* server, and is then refused at the sale because the server is off.  The *)
(* exception is a synchronisation that found an inbound off or new; one    *)
(* that loaded the inbounds on, before the server went off, turns none on. *)
OffServerHasNoInbound ==
    \A v \in Servers : Off(v) /\ (\E i \in Inbounds : inbound[v][i] = "on") => v \in resynced
=============================================================================
