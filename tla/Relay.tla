-------------------------------- MODULE Relay --------------------------------
(***************************************************************************)
(* What the nodes and the hook together promise players and engine: the    *)
(* engine hears only players who spoke to some node; it answers only whom  *)
(* it heard; an answer through a node comes from a node the player used;   *)
(* and only a player whose shelter was lost is answered by the server      *)
(* itself.                                                                 *)
(***************************************************************************)
CONSTANTS Clients, Nodes, Server, None

VARIABLES used,       \* used[c]: the nodes c has sent datagrams to
          heard,      \* players the engine has had a datagram from
          exposed,    \* players who may be answered by the server itself
          answered    \* the answer just delivered: a player and its sender

vars == <<used, heard, exposed, answered>>

Init ==
    /\ used = [c \in Clients |-> {}]
    /\ heard = {}
    /\ exposed = {}
    /\ answered = None

Speaks(c, n) ==
    /\ used' = [used EXCEPT ![c] = @ \cup {n}]
    /\ answered' = None
    /\ UNCHANGED <<heard, exposed>>

Hears(c) ==
    /\ used[c] # {}
    /\ heard' = heard \cup {c}
    /\ answered' = None
    /\ UNCHANGED <<used, exposed>>

Exposes(c) ==
    /\ c \in heard
    /\ exposed' = exposed \cup {c}
    /\ answered' = None
    /\ UNCHANGED <<used, heard>>

\* The player is answered from address s.
Answers(c, s) ==
    /\ c \in heard
    /\ s \in used[c] \/ (s = Server /\ c \in exposed)
    /\ answered' = <<c, s>>
    /\ UNCHANGED <<used, heard, exposed>>

Idles ==
    /\ answered' = None
    /\ UNCHANGED <<used, heard, exposed>>

Next ==
    \/ \E c \in Clients :
          \/ \E n \in Nodes : Speaks(c, n)
          \/ Hears(c)
          \/ Exposes(c)
          \/ \E s \in Nodes \cup {Server} : Answers(c, s)
    \/ Idles

Spec == Init /\ [][Next]_vars
=============================================================================
