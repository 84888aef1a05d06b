-------------------------------- MODULE Hook --------------------------------
(***************************************************************************)
(* The connection table of the game-server hook (leyzyremodule), from the  *)
(* moment FetchKey has returned: recvfrom() unwraps datagrams that carry   *)
(* the proxy password and remembers behind which node each player sits,    *)
(* sendto() wraps the engine's replies for that node.                      *)
(*                                                                         *)
(* An address stands for an (ip, port) pair.  A lastreply time stamp is    *)
(* kept as the age of the entry in ticks, `idle', which stops counting at  *)
(* ExpireAfter: the code only ever asks whether that age was reached.  The *)
(* order of the vector is not kept: GetConnection returns the first match, *)
(* and UniqueReal shows there is at most one.                              *)
(***************************************************************************)
EXTENDS Integers, FiniteSets

CONSTANTS Clients,      \* addresses of players
          Nodes,        \* addresses of the node workers' sockets
          None,         \* no address, no datagram
          Self,         \* the header (-1,-1): the node speaks for itself
          MaxConns,     \* MAXIPS - 3
          ExpireAfter,  \* ExpireAfterSeconds, in ticks
          CheckEvery    \* calls of ExpireConnections between two sweeps

Address == Clients \cup Nodes

ASSUME AddressesAssumption ==
    /\ Clients \cap Nodes = {}
    /\ None \notin Address
    /\ Self \notin Address
    /\ Self # None

ASSUME BoundsAssumption ==
    /\ MaxConns \in Nat \ {0}
    /\ ExpireAfter \in Nat \ {0}
    /\ CheckEvery \in Nat \ {0}

VARIABLES
    Connections,   \* the table: a set of udpconnection records
    nextcheck,     \* calls left until ExpireConnections sweeps again
    hookedsteam,   \* the engine's code has been patched
    statusip,      \* the node printed by the engine's "status" command
    faulted,       \* recvfrom dereferenced a null connection
    io             \* what the last call moved between network and engine

\* History, read by the properties only.
VARIABLES
    via,           \* the node that delivered an address's last datagram
    quiet,         \* ticks since then, stopping at ExpireAfter
    dropped,       \* addresses refused or cleared since then
    refusals       \* refusals in a row with an expired entry in the table

history == <<via, quiet, dropped, refusals>>
vars == <<Connections, nextcheck, hookedsteam, statusip, faulted, io, history>>

udpconnection ==
    [real: Address, proxy: Nodes, is_real: BOOLEAN,
     idle: 0..ExpireAfter, status: Nodes \cup {None}]

-----------------------------------------------------------------------------
(* The table's helpers.  A table is a record of the vector and nextcheck.  *)

\* Definitions named Mutant... are plausible bugs; nothing uses them but the
\* runs that show a property fails under them.
Expired(c) == c.idle >= ExpireAfter

GetConnection(conns, a) == {c \in conns : c.real = a}

ExpireConnections(t) ==
    IF t.nextcheck # 0
    THEN [t EXCEPT !.nextcheck = @ - 1]
    ELSE [conns |-> {c \in t.conns : ~Expired(c)}, nextcheck |-> CheckEvery]

FreshConnection(a, n, isReal) ==
    [real |-> a, proxy |-> n, is_real |-> isReal, idle |-> 0, status |-> None]

MutantNoSecondSweep(t, a, n, isReal) ==
    LET swept == ExpireConnections(t) IN
    IF GetConnection(swept.conns, a) # {} THEN swept
    ELSE IF Cardinality(swept.conns) >= MaxConns THEN swept
    ELSE [swept EXCEPT !.conns = @ \cup {FreshConnection(a, n, isReal)}]

NewConnection(t, a, n, isReal) ==
    LET swept == ExpireConnections(t) IN
    IF GetConnection(swept.conns, a) # {} THEN swept
    ELSE IF Cardinality(swept.conns) >= MaxConns THEN ExpireConnections(swept)
    ELSE [swept EXCEPT !.conns = @ \cup {FreshConnection(a, n, isReal)}]

Table == [conns |-> Connections, nextcheck |-> nextcheck]

\* What the engine, or the network, gets from a call.
NoIO            == [op |-> "none",      peer |-> None, real |-> None]
Unwrapped(n, a) == [op |-> "unwrapped", peer |-> n,    real |-> a]
Passed(a)       == [op |-> "passed",    peer |-> a,    real |-> a]
Wrapped(n, h)   == [op |-> "wrapped",   peer |-> n,    real |-> h]
Direct(a)       == [op |-> "direct",    peer |-> a,    real |-> a]

-----------------------------------------------------------------------------
Init ==
    /\ Connections = {}
    /\ nextcheck = 0
    /\ hookedsteam = FALSE
    /\ statusip = None
    /\ faulted = FALSE
    /\ io = NoIO
    /\ via = [a \in Address |-> None]
    /\ quiet = [a \in Address |-> ExpireAfter]
    /\ dropped = {}
    /\ refusals = 0

(* recvfrom: a datagram from node n with the right password.  The header   *)
(* names a client, or is Self, and then the node itself is the peer.       *)
RealAddress(n, h) == IF h = Self THEN n ELSE h

\* The engine is handed the payload as if the real peer had sent it.
HandOver(n, a) ==
    /\ io' = Unwrapped(n, a)
    /\ via' = [via EXCEPT ![a] = n]
    /\ quiet' = [quiet EXCEPT ![a] = 0]

\* The peer is unknown.  The datagram is unwrapped even when the table is
\* full and NewConnection gives up.
RecvNewPeer(n, h) ==
    LET a == RealAddress(n, h)
        t == NewConnection(Table, a, n, h = Self)
        admitted == GetConnection(t.conns, a) # {}
        stale == \E c \in Connections : Expired(c)
    IN
    /\ ~faulted
    /\ GetConnection(Connections, a) = {}
    /\ Connections' = t.conns
    /\ nextcheck' = t.nextcheck
    /\ HandOver(n, a)
    /\ dropped' = IF admitted THEN dropped \ {a} ELSE dropped \cup {a}
    /\ refusals' = IF admitted \/ ~stale THEN 0 ELSE refusals + 1
    /\ UNCHANGED <<hookedsteam, statusip, faulted>>

\* The address shown by "status", written once per entry.
StatusOf(c) == IF c.status = None THEN c.proxy ELSE c.status

WithStatus(c) == IF c.is_real THEN c ELSE [c EXCEPT !.status = StatusOf(c)]

ShownAfter(c) == IF c.is_real THEN statusip ELSE StatusOf(c)

MutantKeepsLastReply(n, h) ==
    LET a == RealAddress(n, h) IN
    /\ ~faulted
    /\ \E c \in GetConnection(Connections, a) :
          /\ c.proxy = n
          /\ Connections' = (Connections \ {c}) \cup {WithStatus(c)}
          /\ statusip' = ShownAfter(c)
    /\ HandOver(n, a)
    /\ UNCHANGED <<nextcheck, hookedsteam, faulted, dropped, refusals>>

\* The peer is known and still behind the same node.
RecvKnownPeer(n, h) ==
    LET a == RealAddress(n, h) IN
    /\ ~faulted
    /\ \E c \in GetConnection(Connections, a) :
          /\ c.proxy = n
          /\ Connections' = (Connections \ {c})
                               \cup {WithStatus([c EXCEPT !.idle = 0])}
          /\ statusip' = ShownAfter(c)
    /\ HandOver(n, a)
    /\ UNCHANGED <<nextcheck, hookedsteam, faulted, dropped, refusals>>

\* The old entry is erased only after NewConnection was asked for another.
MutantErasesLate(n, h) ==
    LET a == RealAddress(n, h) IN
    /\ ~faulted
    /\ \E c \in GetConnection(Connections, a) :
          /\ c.proxy # n
          /\ LET t == NewConnection(Table, a, n, h = Self)
                 found == GetConnection(t.conns \ {c}, a)
             IN
             /\ nextcheck' = t.nextcheck
             /\ Connections' = t.conns \ {c}
             /\ faulted' = (found = {})
    /\ HandOver(n, a)
    /\ dropped' = dropped \ {a}
    /\ refusals' = 0
    /\ UNCHANGED <<hookedsteam, statusip>>

\* The entry is edited in place, without a new statusstring.
MutantEditsInPlace(n, h) ==
    LET a == RealAddress(n, h) IN
    /\ ~faulted
    /\ \E c \in GetConnection(Connections, a) :
          /\ c.proxy # n
          /\ LET e == WithStatus([c EXCEPT !.idle = 0, !.proxy = n]) IN
             /\ Connections' = (Connections \ {c}) \cup {e}
             /\ statusip' = ShownAfter(e)
    /\ HandOver(n, a)
    /\ dropped' = dropped \ {a}
    /\ refusals' = 0
    /\ UNCHANGED <<nextcheck, hookedsteam, faulted>>

\* The entry only has its time stamp refreshed.
MutantIgnoresSwitch(n, h) ==
    LET a == RealAddress(n, h) IN
    /\ ~faulted
    /\ \E c \in GetConnection(Connections, a) :
          /\ c.proxy # n
          /\ Connections' = (Connections \ {c})
                               \cup {WithStatus([c EXCEPT !.idle = 0])}
          /\ statusip' = ShownAfter(c)
    /\ HandOver(n, a)
    /\ UNCHANGED <<nextcheck, hookedsteam, faulted, dropped, refusals>>

\* The peer has switched nodes: its entry is erased and made anew.  Were it
\* not there afterwards, connection->is_real would read through null.
RecvSwitchedPeer(n, h) ==
    LET a == RealAddress(n, h) IN
    /\ ~faulted
    /\ \E c \in GetConnection(Connections, a) :
          /\ c.proxy # n
          /\ LET t == NewConnection([Table EXCEPT !.conns = @ \ {c}],
                                    a, n, h = Self)
                 found == GetConnection(t.conns, a)
             IN
             /\ nextcheck' = t.nextcheck
             /\ \/ /\ found = {}
                   /\ faulted' = TRUE
                   /\ Connections' = t.conns
                   /\ UNCHANGED statusip
                \/ \E e \in found :
                      /\ faulted' = FALSE
                      /\ Connections' = (t.conns \ {e}) \cup {WithStatus(e)}
                      /\ statusip' = ShownAfter(e)
    /\ HandOver(n, a)
    /\ dropped' = dropped \ {a}
    /\ refusals' = 0
    /\ UNCHANGED hookedsteam

\* CheckSteamHooks: the first call empties the table, then looks for the code
\* to patch, and if it finds it puts a placeholder in statusip; later calls
\* return at once.
CheckSteamHooks ==
    /\ hookedsteam' = TRUE
    /\ IF hookedsteam
       THEN UNCHANGED <<Connections, statusip, dropped>>
       ELSE /\ Connections' = {}
            /\ statusip' \in {statusip, None}
            /\ dropped' = dropped \cup {c.real : c \in Connections}

\* An unproxied out-of-band datagram is blanked: the engine gets nothing.
RecvOutOfBand ==
    /\ ~faulted
    /\ CheckSteamHooks
    /\ io' = NoIO
    /\ UNCHANGED <<nextcheck, faulted, via, quiet, refusals>>

\* A datagram too short for the proxy header is passed on as it is.
RecvShort(a) ==
    /\ ~faulted
    /\ CheckSteamHooks
    /\ io' = Passed(a)
    /\ UNCHANGED <<nextcheck, faulted, via, quiet, refusals>>

\* A datagram without the password is passed on as it is.
RecvWrongPassword(a) ==
    /\ ~faulted
    /\ io' = Passed(a)
    /\ UNCHANGED <<Connections, nextcheck, hookedsteam, statusip, faulted,
                   history>>

\* A node that speaks for itself is answered without the wrapping.
MutantSelfUnwrapped(a) ==
    /\ ~faulted
    /\ \/ /\ {c \in GetConnection(Connections, a) : ~c.is_real} = {}
          /\ io' = Direct(a)
       \/ \E c \in GetConnection(Connections, a) :
             ~c.is_real /\ io' = Wrapped(c.proxy, a)
    /\ UNCHANGED <<Connections, nextcheck, hookedsteam, statusip, faulted,
                   history>>

\* The unwrapped reply goes to the destination of an earlier call.
MutantStaleDestination(a) ==
    /\ ~faulted
    /\ \/ /\ GetConnection(Connections, a) = {}
          /\ \E b \in Clients : io' = Direct(b)
       \/ \E c \in GetConnection(Connections, a) :
             io' = Wrapped(c.proxy, IF c.is_real THEN Self ELSE a)
    /\ UNCHANGED <<Connections, nextcheck, hookedsteam, statusip, faulted,
                   history>>

\* sendto: the engine answers a peer.  Nothing restricts whom it may address.
Sendto(a) ==
    /\ ~faulted
    /\ \/ /\ GetConnection(Connections, a) = {}
          /\ io' = Direct(a)
       \/ \E c \in GetConnection(Connections, a) :
             io' = Wrapped(c.proxy, IF c.is_real THEN Self ELSE a)
    /\ UNCHANGED <<Connections, nextcheck, hookedsteam, statusip, faulted,
                   history>>

-----------------------------------------------------------------------------
(* Time passes.                                                            *)

Older(age) == IF age = ExpireAfter THEN age ELSE age + 1

Tick ==
    /\ Connections' = {[c EXCEPT !.idle = Older(@)] : c \in Connections}
    /\ quiet' = [a \in Address |-> Older(quiet[a])]
    /\ io' = NoIO
    /\ UNCHANGED <<nextcheck, hookedsteam, statusip, faulted, via, dropped,
                   refusals>>

Next ==
    \/ \E n \in Nodes, h \in Clients \cup {Self} :
          \/ RecvNewPeer(n, h)
          \/ RecvKnownPeer(n, h)
          \/ RecvSwitchedPeer(n, h)
    \/ RecvOutOfBand
    \/ \E a \in Address :
          \/ RecvShort(a)
          \/ RecvWrongPassword(a)
          \/ Sendto(a)
    \/ Tick

Spec == Init /\ [][Next]_vars

-----------------------------------------------------------------------------
\* Every variable keeps its type.
TypeOK ==
    /\ Connections \subseteq udpconnection
    /\ nextcheck \in 0..CheckEvery
    /\ hookedsteam \in BOOLEAN
    /\ statusip \in Nodes \cup {None}
    /\ faulted \in BOOLEAN
    /\ io \in [op: {"none", "unwrapped", "passed", "wrapped", "direct"},
               peer: Address \cup {None}, real: Address \cup {None, Self}]
    /\ via \in [Address -> Nodes \cup {None}]
    /\ quiet \in [Address -> 0..ExpireAfter]
    /\ dropped \subseteq Address
    /\ refusals \in Nat

\* GetConnection returns the first match of a linear search: no address may
\* have two entries, or replies would follow the older one.
UniqueReal ==
    \A c, d \in Connections : c.real = d.real => c = d

\* Whatever the order in which a player's datagrams come through the nodes,
\* its entry points at the node that delivered the last one.
RoutedToLastNode ==
    \A c \in Connections :
        /\ c.proxy = via[c.real]
        /\ c.is_real <=> c.real \in Nodes

\* recvfrom, 914-917: the entry of a peer that switched nodes is always found
\* again, even in a full table, so it never reads through a null pointer.
SwitchNeverFaults == ~faulted

\* The table stays below the size NewConnection is meant to keep.
WithinCapacity == Cardinality(Connections) <= MaxConns

\* A player whose datagrams keep coming through a node keeps its entry until
\* CheckSteamHooks empties the table: no sweep takes it.
KeptWhileActive ==
    [][\A c \in Connections :
          \/ quiet[c.real] = ExpireAfter
          \/ hookedsteam' # hookedsteam
          \/ \E d \in Connections' : d.real = c.real]_vars

\* A reply leaves the server unwrapped, straight to a player who came through
\* a node, only after the player was silent for ExpireAfterSeconds, was refused
\* by a full table or lost its entry to CheckSteamHooks.
DirectOnlyForACause ==
    io.op = "direct" /\ via[io.peer] # None =>
        quiet[io.peer] = ExpireAfter \/ io.peer \in dropped

\* While the table holds an expired entry, new players are refused at most
\* half of CheckEvery times (rounded up) in a row before a sweep lets one in.
RefusedBriefly == 2 * refusals <= CheckEvery + 1

\* Once a player has an entry, each of its datagrams makes "status" name the
\* node it came through.
StatusFollowsNode ==
    [][ /\ io'.op = "unwrapped"
        /\ io'.real \in Clients
        /\ \E c \in Connections : c.real = io'.real
        => statusip' = io'.peer]_vars

(* What makes these invariants inductive.                                  *)

\* An entry is as old as its peer has been silent.
AgeIsSilence == \A c \in Connections : c.idle = quiet[c.real]

\* A peer without an entry was silent for long enough, refused or cleared.
Covered ==
    \A a \in Address :
        \/ via[a] = None
        \/ quiet[a] = ExpireAfter
        \/ a \in dropped
        \/ \E c \in Connections : c.real = a

\* Each refusal in a row used up two calls of the countdown, and the sweep it
\* ends with makes room.
RefusalBudget ==
    \/ 2 * refusals <= CheckEvery - nextcheck
    \/ Cardinality(Connections) < MaxConns /\ 2 * refusals <= CheckEvery + 1

\* The inductive invariant: no state of the table, reached by any order of
\* datagrams, sweeps and pauses, breaks any of the properties above.
TableInv ==
    /\ TypeOK
    /\ IsFiniteSet(Connections)
    /\ UniqueReal
    /\ RoutedToLastNode
    /\ SwitchNeverFaults
    /\ WithinCapacity
    /\ AgeIsSilence
    /\ Covered
    /\ RefusalBudget
    /\ DirectOnlyForACause
=============================================================================
