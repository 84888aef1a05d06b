------------------------------ MODULE ProxyPath ------------------------------
(***************************************************************************)
(* The way of game traffic: players, the ProxyServer of each node, the     *)
(* network and the hook of the game server with its engine.  A ProxyServer *)
(* keeps nothing between two datagrams, so it is two actions: a player's   *)
(* datagram is wrapped and sent to the server, the server's is unwrapped   *)
(* and sent to the player its header names.                                *)
(*                                                                         *)
(* Datagrams between nodes and server may be lost, duplicated, delayed and *)
(* reordered; at most MaxInFlight are on the way at a time.  The nodes'    *)
(* own requests to the server (header Self) are left to A2SNode.           *)
(***************************************************************************)
EXTENDS Hook

CONSTANTS Server,        \* the game server's real address
          MaxInFlight    \* bound: datagrams in flight

ASSUME PathAssumption ==
    /\ Server \notin Address \cup {None}
    /\ MaxInFlight \in Nat \ {0}

VARIABLES
    toServer,    \* wrapped datagrams <<node, player>> to the game server
    fromServer,  \* what sendto put on the network
    used,        \* history: used[c] are the nodes player c has sent to
    exposed,     \* history: players the server has answered by itself
    answered     \* the answer a player just got: <<player, sender>>

network == <<toServer, fromServer>>
pathVars == <<vars, network, used, exposed, answered>>

InFlight == Cardinality(toServer) + Cardinality(fromServer)

PathInit ==
    /\ Init
    /\ toServer = {}
    /\ fromServer = {}
    /\ used = [c \in Clients |-> {}]
    /\ exposed = {}
    /\ answered = None

\* ProxyServer::OnReceiveClientData: the header carries the address the
\* datagram came from.
ProxyOnReceiveClientData(n, c) ==
    /\ InFlight < MaxInFlight
    /\ toServer' = toServer \cup {<<n, c>>}
    /\ used' = [used EXCEPT ![c] = @ \cup {n}]
    /\ answered' = None
    /\ UNCHANGED <<vars, fromServer, exposed>>

\* recvfrom in the game server: the datagram may come again later.
ServerRecvfrom(n, c) ==
    /\ <<n, c>> \in toServer
    /\ RecvNewPeer(n, c) \/ RecvKnownPeer(n, c) \/ RecvSwitchedPeer(n, c)
    /\ toServer' \in {toServer, toServer \ {<<n, c>>}}
    /\ answered' = None
    /\ UNCHANGED <<fromServer, used, exposed>>

\* The engine answers a player it has heard.
ServerSendto(c) ==
    /\ via[c] # None
    /\ InFlight < MaxInFlight
    /\ Sendto(c)
    /\ fromServer' = fromServer \cup {io'}
    /\ exposed' = IF io'.op = "direct" THEN exposed \cup {c} ELSE exposed
    /\ answered' = None
    /\ UNCHANGED <<toServer, used>>

\* The node sends the payload to the player it served last.
MutantAnswersLastPlayer(m) ==
    /\ m \in fromServer
    /\ m.op = "wrapped"
    /\ \E c \in Clients : answered' = <<c, m.peer>>
    /\ fromServer' \in {fromServer, fromServer \ {m}}
    /\ UNCHANGED <<vars, toServer, used, exposed>>

\* ProxyServer::OnReceiveSourceServerProxyData at node m.peer: the payload
\* goes to the address in the header.
ProxyOnReceiveSourceServerData(m) ==
    /\ m \in fromServer
    /\ m.op = "wrapped"
    /\ answered' = <<m.real, m.peer>>
    /\ fromServer' \in {fromServer, fromServer \ {m}}
    /\ UNCHANGED <<vars, toServer, used, exposed>>

\* A datagram the hook did not wrap arrives from the server's own address.
DirectArrives(m) ==
    /\ m \in fromServer
    /\ m.op = "direct"
    /\ answered' = <<m.peer, Server>>
    /\ fromServer' \in {fromServer, fromServer \ {m}}
    /\ UNCHANGED <<vars, toServer, used, exposed>>

NetworkLoses ==
    /\ \/ \E m \in toServer : toServer' = toServer \ {m}
          /\ UNCHANGED fromServer
       \/ \E m \in fromServer : fromServer' = fromServer \ {m}
          /\ UNCHANGED toServer
    /\ answered' = None
    /\ UNCHANGED <<vars, used, exposed>>

\* Time passes, and strangers' out-of-band datagrams reach the server.
Elsewhere ==
    /\ Tick \/ RecvOutOfBand
    /\ answered' = None
    /\ UNCHANGED <<network, used, exposed>>

PathNext ==
    \/ \E n \in Nodes, c \in Clients :
          ProxyOnReceiveClientData(n, c) \/ ServerRecvfrom(n, c)
    \/ \E c \in Clients : ServerSendto(c)
    \/ \E m \in fromServer :
          ProxyOnReceiveSourceServerData(m) \/ DirectArrives(m)
    \/ NetworkLoses
    \/ Elsewhere

PathSpec == PathInit /\ [][PathNext]_pathVars

-----------------------------------------------------------------------------
\* Every variable keeps its type.
PathTypeOK ==
    /\ TypeOK
    /\ toServer \subseteq Nodes \X Clients
    /\ \A m \in fromServer : m.op \in {"wrapped", "direct"}
    /\ InFlight <= MaxInFlight
    /\ used \in [Clients -> SUBSET Nodes]
    /\ exposed \subseteq Clients
    /\ answered \in {None} \cup (Clients \X (Nodes \cup {Server}))

\* A player is answered through a node only if it used that node: the answer
\* always passes the player's own address translation and firewall.
AnswersComeFromUsedNodes ==
    answered = None \/ answered[2] = Server
                    \/ answered[2] \in used[answered[1]]

\* A route that a late datagram has turned back to an earlier node still is a
\* route to the player.
RoutesAreUsed ==
    \A c \in Connections : c.real \in Clients => c.proxy \in used[c.real]

R == INSTANCE Relay WITH heard <- {c \in Clients : via[c] # None}

\* The nodes and the hook implement Relay.
ImplementsRelay == R!Spec
=============================================================================
