--------------------------- MODULE ProxyPathProofs ---------------------------
(***************************************************************************)
(* Proofs about the hook, and about nodes, network and hook together, for  *)
(* any sets of players and nodes and any bounds.                           *)
(*                                                                         *)
(* The first part, up to StatusIsCurrent, is about the hook's connection   *)
(* table alone: TableInv, checked by TLC in MCHook, is inductive; the      *)
(* lemmas say what ExpireConnections and NewConnection do to a table.  It  *)
(* uses the assumptions of Hook only.                                      *)
(*                                                                         *)
(* The second part shows that nodes, network and hook implement Relay.     *)
(* The invariant says what a datagram on the way, however late it is, has  *)
(* behind it: its player used that node, and the engine has heard it.      *)
(***************************************************************************)
EXTENDS ProxyPath, FiniteSetTheorems, TLAPS

-----------------------------------------------------------------------------
(* The hook.                                                               *)

TableType == [conns: SUBSET udpconnection, nextcheck: 0..CheckEvery]

\* An unexpired entry always survives ExpireConnections; an expired one goes
\* when the countdown has reached zero.
LEMMA ExpireFacts ==
    ASSUME NEW t \in TableType, IsFiniteSet(t.conns)
    PROVE  LET e == ExpireConnections(t) IN
           /\ e \in TableType
           /\ e.conns \subseteq t.conns
           /\ IsFiniteSet(e.conns)
           /\ Cardinality(e.conns) <= Cardinality(t.conns)
           /\ \A c \in t.conns : ~Expired(c) => c \in e.conns
           /\ t.nextcheck # 0 => e = [conns |-> t.conns,
                                      nextcheck |-> t.nextcheck - 1]
           /\ t.nextcheck = 0 =>
                 /\ e.nextcheck = CheckEvery
                 /\ \A c \in e.conns : ~Expired(c)
<1> DEFINE e == ExpireConnections(t)
<1>1. /\ t.conns \subseteq udpconnection
      /\ t.nextcheck \in 0..CheckEvery
      /\ t = [conns |-> t.conns, nextcheck |-> t.nextcheck]
  BY DEF TableType
<1>2. CASE t.nextcheck # 0
  <2>1. e = [conns |-> t.conns, nextcheck |-> t.nextcheck - 1]
    BY <1>1, <1>2 DEF ExpireConnections
  <2>2. Cardinality(t.conns) \in Nat
    BY FS_CardinalityType
  <2> QED BY <1>1, <1>2, <2>1, <2>2, BoundsAssumption DEF TableType
<1>3. CASE t.nextcheck = 0
  <2>1. e = [conns |-> {c \in t.conns : ~Expired(c)}, nextcheck |-> CheckEvery]
    BY <1>3 DEF ExpireConnections
  <2>2. e.conns \in SUBSET t.conns
    BY <2>1
  <2>3. IsFiniteSet(e.conns) /\ Cardinality(e.conns) <= Cardinality(t.conns)
    BY <2>2, FS_Subset
  <2> QED BY <1>1, <1>3, <2>1, <2>2, <2>3, BoundsAssumption DEF TableType
<1> QED BY <1>2, <1>3

\* NewConnection, asked for an address the table lacks: it either adds the new
\* entry to what a sweep left, or the table is full and it adds nothing.
NewIsAdmitted(t, r, new) ==
    \E kept \in SUBSET t.conns :
        /\ r.conns = kept \cup {new}
        /\ IsFiniteSet(kept)
        /\ Cardinality(kept) < MaxConns
        /\ \A c \in t.conns : ~Expired(c) => c \in kept

\* A refusal costs two calls of the countdown, or ends in a sweep.
NewIsRefused(t, r) ==
    /\ r.conns \subseteq t.conns
    /\ Cardinality(t.conns) >= MaxConns
    /\ \A c \in t.conns : ~Expired(c) => c \in r.conns
    /\ \/ r.nextcheck = t.nextcheck - 2
       \/ t.nextcheck = 1 /\ \A c \in r.conns : ~Expired(c)
       \/ \A c \in t.conns : ~Expired(c)

\* NewConnection, asked for an address the table lacks, adds the entry to what
\* its sweep left or finds the table full; either way the type and the bounds
\* of the table are kept.
LEMMA NewConnectionFacts ==
    ASSUME NEW t \in TableType, IsFiniteSet(t.conns),
           Cardinality(t.conns) <= MaxConns,
           NEW a \in Address, NEW n \in Nodes, NEW isReal \in BOOLEAN,
           GetConnection(t.conns, a) = {}
    PROVE  LET r == NewConnection(t, a, n, isReal) IN
           /\ r.conns \subseteq udpconnection
           /\ r.nextcheck \in 0..CheckEvery
           /\ IsFiniteSet(r.conns)
           /\ Cardinality(r.conns) <= MaxConns
           /\ \/ NewIsAdmitted(t, r, FreshConnection(a, n, isReal))
              \/ NewIsRefused(t, r)
<1> DEFINE s == ExpireConnections(t)
           new == FreshConnection(a, n, isReal)
           r == NewConnection(t, a, n, isReal)
<1>1. /\ s \in TableType
      /\ s.conns \subseteq t.conns
      /\ IsFiniteSet(s.conns)
      /\ Cardinality(s.conns) <= Cardinality(t.conns)
      /\ \A c \in t.conns : ~Expired(c) => c \in s.conns
      /\ t.nextcheck # 0 => s = [conns |-> t.conns,
                                 nextcheck |-> t.nextcheck - 1]
      /\ t.nextcheck = 0 =>
            /\ s.nextcheck = CheckEvery
            /\ \A c \in s.conns : ~Expired(c)
  BY ExpireFacts
<1>2. GetConnection(s.conns, a) = {}
  BY <1>1 DEF GetConnection
<1>3. /\ Cardinality(s.conns) \in Nat
      /\ Cardinality(t.conns) \in Nat
  BY <1>1, FS_CardinalityType
<1>4. CASE Cardinality(s.conns) >= MaxConns
  <2> DEFINE u == ExpireConnections(s)
  <2>1. r = u
    BY <1>2, <1>4 DEF NewConnection
  <2>2. /\ u \in TableType
        /\ u.conns \subseteq s.conns
        /\ IsFiniteSet(u.conns)
        /\ Cardinality(u.conns) <= Cardinality(s.conns)
        /\ \A c \in s.conns : ~Expired(c) => c \in u.conns
        /\ s.nextcheck # 0 => u = [conns |-> s.conns,
                                   nextcheck |-> s.nextcheck - 1]
        /\ s.nextcheck = 0 =>
              /\ u.nextcheck = CheckEvery
              /\ \A c \in u.conns : ~Expired(c)
    BY <1>1, ExpireFacts
  <2>3. /\ u.conns \subseteq udpconnection
        /\ u.nextcheck \in 0..CheckEvery
    BY <2>2 DEF TableType
  <2>4. Cardinality(u.conns) <= MaxConns
    <3>1. Cardinality(u.conns) \in Nat
      BY <2>2, FS_CardinalityType
    <3> QED BY <1>1, <1>3, <2>2, <3>1, BoundsAssumption
  <2>5. s.conns = t.conns
    <3>1. Cardinality(s.conns) = Cardinality(t.conns)
      BY <1>1, <1>3, <1>4, BoundsAssumption
    <3> QED BY <1>1, <3>1, FS_Subset
  <2>6. \/ u.nextcheck = t.nextcheck - 2
        \/ t.nextcheck = 1 /\ \A c \in u.conns : ~Expired(c)
        \/ \A c \in t.conns : ~Expired(c)
    <3>1. t.nextcheck \in 0..CheckEvery
      BY DEF TableType
    <3>2. CASE t.nextcheck = 0
      BY <1>1, <2>5, <3>2
    <3>3. CASE t.nextcheck = 1
      <4>1. s.nextcheck = 0
        BY <1>1, <3>3
      <4> QED BY <2>2, <3>3, <4>1
    <3>4. CASE t.nextcheck \notin {0, 1}
      <4>1. s.nextcheck = t.nextcheck - 1 /\ s.nextcheck # 0
        BY <1>1, <3>1, <3>4
      <4> QED BY <2>2, <3>1, <4>1
    <3> QED BY <3>2, <3>3, <3>4
  <2>7. NewIsRefused(t, u)
    <3>1. u.conns \subseteq t.conns /\ Cardinality(t.conns) >= MaxConns
      BY <1>4, <2>2, <2>5
    <3>2. \A c \in t.conns : ~Expired(c) => c \in u.conns
      BY <2>2, <2>5
    <3> QED BY <2>6, <3>1, <3>2 DEF NewIsRefused
  <2> QED BY <2>1, <2>2, <2>3, <2>4, <2>7
<1>5. CASE ~(Cardinality(s.conns) >= MaxConns)
  <2>1. r = [s EXCEPT !.conns = @ \cup {new}]
    BY <1>2, <1>5 DEF NewConnection
  <2>2. /\ r.conns = s.conns \cup {new}
        /\ r.nextcheck = s.nextcheck
        /\ s.nextcheck \in 0..CheckEvery
        /\ s.conns \subseteq udpconnection
    BY <1>1, <2>1 DEF TableType
  <2>3. new \in udpconnection
    BY BoundsAssumption DEF FreshConnection, udpconnection
  <2>4. Cardinality(s.conns) < MaxConns
    BY <1>3, <1>5, BoundsAssumption
  <2>5. IsFiniteSet(r.conns) /\ Cardinality(r.conns) <= MaxConns
    <3>1. /\ IsFiniteSet(s.conns \cup {new})
          /\ Cardinality(s.conns \cup {new}) =
               IF new \in s.conns THEN Cardinality(s.conns)
                                  ELSE Cardinality(s.conns) + 1
      BY <1>1, FS_AddElement
    <3> QED BY <1>3, <2>2, <2>4, <3>1, BoundsAssumption
  <2>6. NewIsAdmitted(t, r, new)
    BY <1>1, <2>2, <2>4 DEF NewIsAdmitted
  <2> QED BY <2>2, <2>3, <2>5, <2>6
<1> QED BY <1>4, <1>5

-----------------------------------------------------------------------------
(* TableInv holds initially and is kept by every action.                   *)

\* The empty table the module starts with satisfies the invariant.
LEMMA InitTableInv == Init => TableInv
<1> SUFFICES ASSUME Init PROVE TableInv
  OBVIOUS
<1>1. TypeOK
  <2>1. io \in [op: {"none", "unwrapped", "passed", "wrapped", "direct"},
                peer: Address \cup {None}, real: Address \cup {None, Self}]
    BY DEF Init, NoIO
  <2>2. /\ via \in [Address -> Nodes \cup {None}]
        /\ quiet \in [Address -> 0..ExpireAfter]
    BY BoundsAssumption DEF Init
  <2>3. hookedsteam \in BOOLEAN /\ faulted \in BOOLEAN
    BY Zenon DEF Init
  <2>4. /\ Connections \subseteq udpconnection
        /\ nextcheck \in 0..CheckEvery
        /\ statusip \in Nodes \cup {None}
        /\ dropped \subseteq Address
        /\ refusals \in Nat
    BY BoundsAssumption DEF Init
  <2> QED BY <2>1, <2>2, <2>3, <2>4 DEF TypeOK
<1>2. IsFiniteSet(Connections) /\ Cardinality(Connections) = 0
  BY FS_EmptySet DEF Init
<1>3. WithinCapacity /\ RefusalBudget
  BY <1>2, BoundsAssumption DEF Init, WithinCapacity, RefusalBudget
<1> QED
  BY <1>1, <1>2, <1>3
  DEF Init, TableInv, UniqueReal, RoutedToLastNode, SwitchNeverFaults,
      AgeIsSilence, Covered, DirectOnlyForACause, NoIO

\* What a delivery from a through n leaves in the history variables.
LEMMA HandOverFacts ==
    ASSUME TypeOK, NEW n \in Nodes, NEW h \in Clients \cup {Self},
           HandOver(n, RealAddress(n, h))
    PROVE  LET a == RealAddress(n, h) IN
           /\ a \in Address
           /\ (h = Self) <=> (a \in Nodes)
           /\ io' \in [op: {"none", "unwrapped", "passed", "wrapped",
                           "direct"},
                       peer: Address \cup {None},
                       real: Address \cup {None, Self}]
           /\ io'.op # "direct"
           /\ via' \in [Address -> Nodes \cup {None}]
           /\ quiet' \in [Address -> 0..ExpireAfter]
           /\ via'[a] = n
           /\ quiet'[a] = 0
           /\ \A b \in Address : b # a =>
                 via'[b] = via[b] /\ quiet'[b] = quiet[b]
<1>1. RealAddress(n, h) \in Address
  BY DEF RealAddress, Address
<1>2. (h = Self) <=> (RealAddress(n, h) \in Nodes)
  BY AddressesAssumption DEF RealAddress, Address
<1> QED
  BY <1>1, <1>2, BoundsAssumption DEF HandOver, TypeOK, Unwrapped, Address

\* The record a table is passed around in.
LEMMA TableFacts ==
    ASSUME TypeOK
    PROVE  /\ Table \in TableType
           /\ Table.conns = Connections
           /\ Table.nextcheck = nextcheck
  BY DEF TypeOK, Table, TableType

\* No step of recvfrom takes an unexpired entry without putting another one for
\* the same address in its place.
UnexpiredStay ==
    \A c \in Connections :
        ~Expired(c) => \E d \in Connections' : d.real = c.real

\* A datagram of `a' came through n and the table now holds `kept' and one
\* entry e for a: the common end of the three ways recvfrom can go.
LEMMA EntryKeepsTableInv ==
    ASSUME TableInv, NEW n \in Nodes, NEW h \in Clients \cup {Self},
           HandOver(n, RealAddress(n, h)),
           NEW kept \in SUBSET Connections,
           \A c \in kept : c.real # RealAddress(n, h),
           \A c \in Connections :
               c.real # RealAddress(n, h) /\ ~Expired(c) => c \in kept,
           Cardinality(kept) < MaxConns,
           NEW e \in udpconnection,
           e.real = RealAddress(n, h), e.proxy = n,
           e.is_real <=> (h = Self), e.idle = 0,
           Connections' = kept \cup {e},
           nextcheck' \in 0..CheckEvery,
           hookedsteam' \in BOOLEAN,
           statusip' \in Nodes \cup {None},
           faulted' = FALSE,
           dropped' \in {dropped, dropped \ {RealAddress(n, h)}},
           refusals' \in Nat,
           RefusalBudget'
    PROVE  TableInv' /\ UnexpiredStay
<1> DEFINE a == RealAddress(n, h)
<1>1. /\ a \in Address
      /\ (h = Self) <=> (a \in Nodes)
      /\ io' \in [op: {"none", "unwrapped", "passed", "wrapped", "direct"},
                  peer: Address \cup {None}, real: Address \cup {None, Self}]
      /\ io'.op # "direct"
      /\ via' \in [Address -> Nodes \cup {None}]
      /\ quiet' \in [Address -> 0..ExpireAfter]
      /\ via'[a] = n
      /\ quiet'[a] = 0
      /\ \A b \in Address : b # a =>
            via'[b] = via[b] /\ quiet'[b] = quiet[b]
  BY HandOverFacts DEF TableInv
<1>2. /\ Connections \subseteq udpconnection
      /\ \A c \in Connections : c.real \in Address
  BY DEF TableInv, TypeOK, udpconnection
<1>3. TypeOK'
  <2>1. Connections' \subseteq udpconnection
    BY <1>2
  <2>2. faulted' \in BOOLEAN
    OBVIOUS
  <2>3. dropped' \subseteq Address
    BY DEF TableInv, TypeOK
  <2> QED BY <1>1, <2>1, <2>2, <2>3 DEF TypeOK
<1>4. IsFiniteSet(Connections') /\ WithinCapacity'
  <2>1. IsFiniteSet(kept)
    BY FS_Subset DEF TableInv
  <2>2. /\ IsFiniteSet(kept \cup {e})
        /\ Cardinality(kept \cup {e}) =
             IF e \in kept THEN Cardinality(kept) ELSE Cardinality(kept) + 1
    BY <2>1, FS_AddElement
  <2>3. Cardinality(kept) \in Nat
    BY <2>1, FS_CardinalityType
  <2> QED BY <2>2, <2>3, BoundsAssumption DEF WithinCapacity
<1>5. UniqueReal'
  BY DEF TableInv, UniqueReal
<1>6. RoutedToLastNode'
  <2> SUFFICES ASSUME NEW c \in Connections'
               PROVE  /\ c.proxy = via'[c.real]
                      /\ c.is_real <=> c.real \in Nodes
    BY DEF RoutedToLastNode
  <2>1. CASE c = e
    BY <1>1, <2>1
  <2>2. CASE c \in kept
    <3>1. via'[c.real] = via[c.real]
      BY <1>1, <1>2, <2>2
    <3>2. c.proxy = via[c.real] /\ (c.is_real <=> c.real \in Nodes)
      BY <2>2 DEF TableInv, RoutedToLastNode
    <3> QED BY <3>1, <3>2
  <2> QED BY <2>1, <2>2
<1>7. AgeIsSilence'
  <2> SUFFICES ASSUME NEW c \in Connections' PROVE c.idle = quiet'[c.real]
    BY DEF AgeIsSilence
  <2>1. CASE c = e
    BY <1>1, <2>1
  <2>2. CASE c \in kept
    <3>1. quiet'[c.real] = quiet[c.real]
      BY <1>1, <1>2, <2>2
    <3> QED BY <2>2, <3>1 DEF TableInv, AgeIsSilence
  <2> QED BY <2>1, <2>2
<1>8. Covered'
  <2> SUFFICES ASSUME NEW b \in Address
               PROVE  \/ via'[b] = None
                      \/ quiet'[b] = ExpireAfter
                      \/ b \in dropped'
                      \/ \E c \in Connections' : c.real = b
    BY DEF Covered
  <2>1. CASE b = a
    BY <2>1
  <2>2. CASE b # a /\ \E c \in Connections : c.real = b
    <3> PICK c \in Connections : c.real = b
      BY <2>2
    <3>1. CASE Expired(c)
      <4>1. quiet[b] >= ExpireAfter
        BY <3>1 DEF TableInv, AgeIsSilence, Expired
      <4>2. quiet[b] \in 0..ExpireAfter
        BY DEF TableInv, TypeOK
      <4>3. quiet[b] = ExpireAfter
        BY <4>1, <4>2, BoundsAssumption
      <4> QED BY <1>1, <2>2, <4>3
    <3>2. CASE ~Expired(c)
      BY <2>2, <3>2
    <3> QED BY <3>1, <3>2
  <2>3. CASE b # a /\ ~\E c \in Connections : c.real = b
    <3>1. \/ via[b] = None
          \/ quiet[b] = ExpireAfter
          \/ b \in dropped
      BY <2>3 DEF TableInv, Covered
    <3>2. b \in dropped => b \in dropped'
      BY <2>3
    <3> QED BY <1>1, <2>3, <3>1, <3>2
  <2> QED BY <2>1, <2>2, <2>3
<1>9. SwitchNeverFaults' /\ DirectOnlyForACause'
  BY <1>1 DEF SwitchNeverFaults, DirectOnlyForACause
<1>10. UnexpiredStay
  BY DEF UnexpiredStay
<1> QED
  BY <1>3, <1>4, <1>5, <1>6, <1>7, <1>8, <1>9, <1>10 DEF TableInv

\* What the entry holds after recvfrom has set its status.
LEMMA StatusFacts ==
    ASSUME NEW c \in udpconnection, statusip \in Nodes \cup {None}
    PROVE  /\ WithStatus(c) \in udpconnection
           /\ WithStatus(c).real = c.real
           /\ WithStatus(c).proxy = c.proxy
           /\ WithStatus(c).is_real = c.is_real
           /\ WithStatus(c).idle = c.idle
           /\ ShownAfter(c) \in Nodes \cup {None}
<1>1. StatusOf(c) \in Nodes \cup {None}
  BY DEF StatusOf, udpconnection
<1>2. CASE c.is_real
  BY <1>2 DEF WithStatus, ShownAfter
<1>3. CASE ~c.is_real
  <2>1. WithStatus(c) = [c EXCEPT !.status = StatusOf(c)]
    BY <1>3 DEF WithStatus
  <2> QED BY <1>1, <1>3, <2>1 DEF ShownAfter, udpconnection
<1> QED BY <1>2, <1>3

\* What NewConnection writes into a new entry.
LEMMA FreshFacts ==
    ASSUME NEW a \in Address, NEW n \in Nodes, NEW isReal \in BOOLEAN
    PROVE  LET new == FreshConnection(a, n, isReal) IN
           /\ new \in udpconnection
           /\ new.real = a
           /\ new.proxy = n
           /\ new.is_real = isReal
           /\ new.idle = 0
  BY BoundsAssumption DEF FreshConnection, udpconnection

\* A datagram of a peer without an entry, in an empty, a full or any other
\* table, keeps the invariant and every entry that has not expired.
LEMMA NewPeerStep ==
    ASSUME TableInv, NEW n \in Nodes, NEW h \in Clients \cup {Self},
           RecvNewPeer(n, h)
    PROVE  TableInv' /\ UnexpiredStay
<1> DEFINE a == RealAddress(n, h)
           t == NewConnection(Table, a, n, h = Self)
           new == FreshConnection(a, n, h = Self)
<1>1. HandOver(n, a) /\ a \in Address
  BY HandOverFacts DEF TableInv, RecvNewPeer
<1>2. /\ Table \in TableType
      /\ Table.conns = Connections
      /\ Table.nextcheck = nextcheck
  BY TableFacts DEF TableInv
<1>3. /\ t.conns \subseteq udpconnection
      /\ t.nextcheck \in 0..CheckEvery
      /\ IsFiniteSet(t.conns)
      /\ Cardinality(t.conns) <= MaxConns
      /\ NewIsAdmitted(Table, t, new) \/ NewIsRefused(Table, t)
  <2>1. GetConnection(Connections, a) = {}
    BY DEF RecvNewPeer
  <2> QED
    BY <1>1, <1>2, <2>1, NewConnectionFacts DEF TableInv, WithinCapacity
<1>4. /\ Connections' = t.conns
      /\ nextcheck' = t.nextcheck
      /\ UNCHANGED <<hookedsteam, statusip, faulted>>
  BY DEF RecvNewPeer
<1>5. \A c \in Connections : c.real # a
  BY DEF RecvNewPeer, GetConnection
<1>6. CASE NewIsAdmitted(Table, t, new)
  <2>1. PICK kept \in SUBSET Connections :
            /\ t.conns = kept \cup {new}
            /\ Cardinality(kept) < MaxConns
            /\ \A c \in Connections : ~Expired(c) => c \in kept
    BY <1>2, <1>6 DEF NewIsAdmitted
  <2>2. /\ new \in udpconnection
        /\ new.real = a /\ new.proxy = n /\ new.idle = 0
        /\ new.is_real <=> (h = Self)
    BY <1>1, FreshFacts
  <2>3. GetConnection(t.conns, a) # {}
    BY <2>1, <2>2 DEF GetConnection
  <2>4. dropped' = dropped \ {a} /\ refusals' = 0
    BY <2>3 DEF RecvNewPeer
  <2>5. RefusalBudget'
    BY <1>3, <1>4, <2>4, BoundsAssumption DEF RefusalBudget
  <2>6. /\ hookedsteam' \in BOOLEAN
        /\ statusip' \in Nodes \cup {None}
        /\ faulted' = FALSE
    BY <1>4 DEF TableInv, TypeOK, SwitchNeverFaults
  <2> HIDE DEF new, t
  <2> QED
    BY <1>1, <1>3, <1>4, <1>5, <2>1, <2>2, <2>4, <2>5, <2>6,
       EntryKeepsTableInv
<1>7. CASE NewIsRefused(Table, t)
  <2>1. /\ t.conns \subseteq Connections
        /\ Cardinality(Connections) >= MaxConns
        /\ \A c \in Connections : ~Expired(c) => c \in t.conns
        /\ \/ t.nextcheck = nextcheck - 2
           \/ nextcheck = 1 /\ \A c \in t.conns : ~Expired(c)
           \/ \A c \in Connections : ~Expired(c)
    BY <1>2, <1>7 DEF NewIsRefused
  <2>2. GetConnection(t.conns, a) = {}
    BY <1>5, <2>1 DEF GetConnection
  <2>3. /\ dropped' = dropped \cup {a}
        /\ refusals' = IF \E c \in Connections : Expired(c)
                       THEN refusals + 1 ELSE 0
    BY <2>2 DEF RecvNewPeer
  <2>4. /\ io' \in [op: {"none", "unwrapped", "passed", "wrapped", "direct"},
                    peer: Address \cup {None},
                    real: Address \cup {None, Self}]
        /\ io'.op # "direct"
        /\ via' \in [Address -> Nodes \cup {None}]
        /\ quiet' \in [Address -> 0..ExpireAfter]
        /\ \A b \in Address : b # a =>
              via'[b] = via[b] /\ quiet'[b] = quiet[b]
    BY <1>1, HandOverFacts DEF TableInv
  <2>5. \A c \in Connections' :
          /\ c \in Connections
          /\ c.real \in Address
          /\ via'[c.real] = via[c.real]
          /\ quiet'[c.real] = quiet[c.real]
    BY <1>4, <1>5, <2>1, <2>4 DEF TableInv, TypeOK, udpconnection
  <2>6. TypeOK'
    BY <1>1, <1>3, <1>4, <2>3, <2>4 DEF TableInv, TypeOK
  <2>7. IsFiniteSet(Connections') /\ WithinCapacity'
    BY <1>3, <1>4 DEF WithinCapacity
  <2>8. UniqueReal' /\ RoutedToLastNode' /\ AgeIsSilence'
    BY <2>5
    DEF TableInv, UniqueReal, RoutedToLastNode, AgeIsSilence
  <2>9. Covered'
    <3> SUFFICES ASSUME NEW b \in Address
                 PROVE  \/ via'[b] = None
                        \/ quiet'[b] = ExpireAfter
                        \/ b \in dropped'
                        \/ \E c \in Connections' : c.real = b
      BY DEF Covered
    <3>1. CASE b = a
      BY <2>3, <3>1
    <3>2. CASE b # a /\ \E c \in Connections : c.real = b
      <4> PICK c \in Connections : c.real = b
        BY <3>2
      <4>1. CASE Expired(c)
        <5>1. quiet[b] >= ExpireAfter /\ quiet[b] \in 0..ExpireAfter
          BY <4>1 DEF TableInv, AgeIsSilence, Expired, TypeOK
        <5> QED BY <2>4, <3>2, <5>1, BoundsAssumption
      <4>2. CASE ~Expired(c)
        BY <1>4, <2>1, <4>2
      <4> QED BY <4>1, <4>2
    <3>3. CASE b # a /\ ~\E c \in Connections : c.real = b
      BY <2>3, <2>4, <3>3 DEF TableInv, Covered
    <3> QED BY <3>1, <3>2, <3>3
  <2>10. RefusalBudget'
    <3>1. /\ refusals \in Nat
          /\ nextcheck \in 0..CheckEvery
          /\ t.nextcheck \in 0..CheckEvery
      BY <1>3 DEF TableInv, TypeOK
    <3>2. Cardinality(Connections) \in Nat /\ Cardinality(t.conns) \in Nat
      BY <1>3, FS_CardinalityType DEF TableInv
    <3>3. 2 * refusals <= CheckEvery - nextcheck
      BY <2>1, <3>2, BoundsAssumption DEF TableInv, RefusalBudget
    <3>4. CASE \A c \in Connections : ~Expired(c)
      <4>1. refusals' = 0
        BY <2>3, <3>4
      <4> QED BY <1>4, <3>1, <4>1, BoundsAssumption DEF RefusalBudget
    <3>5. CASE /\ \E c \in Connections : Expired(c)
               /\ t.nextcheck = nextcheck - 2
      <4>1. refusals' = refusals + 1
        BY <2>3, <3>5
      <4> QED
        BY <1>4, <3>1, <3>3, <3>5, <4>1, BoundsAssumption DEF RefusalBudget
    <3>6. CASE /\ \E c \in Connections : Expired(c)
               /\ nextcheck = 1
               /\ \A c \in t.conns : ~Expired(c)
      <4>1. refusals' = refusals + 1
        BY <2>3, <3>6
      <4>2. t.conns # Connections
        BY <3>6
      <4>3. Cardinality(t.conns) < Cardinality(Connections)
        BY <2>1, <3>2, <4>2, FS_Subset DEF TableInv
      <4>4. Cardinality(Connections') < MaxConns
        BY <1>4, <3>2, <4>3, BoundsAssumption DEF TableInv, WithinCapacity
      <4> QED
        BY <3>1, <3>3, <3>6, <4>1, <4>4, BoundsAssumption DEF RefusalBudget
    <3> QED BY <2>1, <3>4, <3>5, <3>6
  <2>11. SwitchNeverFaults' /\ DirectOnlyForACause'
    BY <1>4, <2>4 DEF TableInv, SwitchNeverFaults, DirectOnlyForACause
  <2>12. UnexpiredStay
    BY <1>4, <2>1 DEF UnexpiredStay
  <2> QED
    BY <2>6, <2>7, <2>8, <2>9, <2>10, <2>11, <2>12 DEF TableInv
<1> QED BY <1>3, <1>6, <1>7

\* A datagram of a peer through the node its entry names: the entry becomes
\* young again.
LEMMA KnownPeerStep ==
    ASSUME TableInv, NEW n \in Nodes, NEW h \in Clients \cup {Self},
           RecvKnownPeer(n, h)
    PROVE  TableInv' /\ UnexpiredStay
<1> DEFINE a == RealAddress(n, h)
<1>1. PICK c \in Connections :
          /\ c.real = a
          /\ c.proxy = n
          /\ Connections' = (Connections \ {c})
                               \cup {WithStatus([c EXCEPT !.idle = 0])}
          /\ statusip' = ShownAfter(c)
  BY DEF RecvKnownPeer, GetConnection
<1> DEFINE kept == Connections \ {c}
           fresh == [c EXCEPT !.idle = 0]
           e == WithStatus(fresh)
<1>2. /\ HandOver(n, a)
      /\ UNCHANGED <<nextcheck, hookedsteam, faulted, dropped, refusals>>
  BY DEF RecvKnownPeer
<1>3. a \in Address /\ ((h = Self) <=> (a \in Nodes))
  BY <1>2, HandOverFacts DEF TableInv
<1>4. c \in udpconnection
  BY DEF TableInv, TypeOK
<1>5. /\ fresh \in udpconnection
      /\ fresh.real = c.real /\ fresh.proxy = c.proxy
      /\ fresh.is_real = c.is_real /\ fresh.idle = 0
  BY <1>4, BoundsAssumption DEF udpconnection
<1>6. /\ e \in udpconnection
      /\ e.real = a /\ e.proxy = n /\ e.idle = 0
      /\ e.is_real = c.is_real
      /\ statusip' \in Nodes \cup {None}
  BY <1>1, <1>4, <1>5, StatusFacts DEF TableInv, TypeOK
<1>7. e.is_real <=> (h = Self)
  BY <1>1, <1>3, <1>6 DEF TableInv, RoutedToLastNode
<1>8. \A d \in kept : d.real # a
  BY <1>1 DEF TableInv, UniqueReal
<1>9. /\ IsFiniteSet(kept)
      /\ Cardinality(kept) = Cardinality(Connections) - 1
      /\ Cardinality(Connections) \in Nat
  BY FS_RemoveElement, FS_CardinalityType DEF TableInv
<1>10. Cardinality(kept) < MaxConns
  BY <1>9, BoundsAssumption DEF TableInv, WithinCapacity
<1>11. RefusalBudget'
  <2>1. e \notin kept
    BY <1>6, <1>8
  <2>2. Cardinality(kept \cup {e}) = Cardinality(kept) + 1
    BY <1>9, <2>1, FS_AddElement
  <2>3. Cardinality(Connections') = Cardinality(Connections)
    BY <1>1, <1>9, <2>2
  <2> QED BY <1>2, <2>3 DEF TableInv, RefusalBudget
<1>12. /\ kept \in SUBSET Connections
       /\ \A d \in Connections : d.real # a /\ ~Expired(d) => d \in kept
  BY <1>1
<1>13. /\ nextcheck' \in 0..CheckEvery
       /\ hookedsteam' \in BOOLEAN
       /\ faulted' = FALSE
       /\ dropped' = dropped
       /\ refusals' \in Nat
  BY <1>2 DEF TableInv, TypeOK, SwitchNeverFaults
<1> HIDE DEF kept, e
<1>14. Connections' = kept \cup {e}
  BY <1>1 DEF kept, e
<1> QED
  BY <1>2, <1>6, <1>7, <1>8, <1>10, <1>11, <1>12, <1>13, <1>14,
     EntryKeepsTableInv

\* Erasing the old entry leaves room, so NewConnection admits the new one and
\* GetConnection finds it.
LEMMA SwitchedPeerStep ==
    ASSUME TableInv, NEW n \in Nodes, NEW h \in Clients \cup {Self},
           RecvSwitchedPeer(n, h)
    PROVE  TableInv' /\ UnexpiredStay
<1> DEFINE a == RealAddress(n, h)
           Erased(c) == [Table EXCEPT !.conns = @ \ {c}]
           T(c) == NewConnection(Erased(c), a, n, h = Self)
           new == FreshConnection(a, n, h = Self)
<1>1. PICK c \in Connections :
          /\ c.real = a
          /\ nextcheck' = T(c).nextcheck
          /\ \/ GetConnection(T(c).conns, a) = {}
             \/ \E e \in GetConnection(T(c).conns, a) :
                   /\ faulted' = FALSE
                   /\ Connections' = (T(c).conns \ {e}) \cup {WithStatus(e)}
                   /\ statusip' = ShownAfter(e)
  BY DEF RecvSwitchedPeer, GetConnection
<1> DEFINE rest == Connections \ {c}
           t == T(c)
<1>2. /\ HandOver(n, a)
      /\ dropped' = dropped \ {a}
      /\ refusals' = 0
      /\ hookedsteam' = hookedsteam
  BY DEF RecvSwitchedPeer
<1>3. a \in Address
  BY <1>2, HandOverFacts DEF TableInv
<1>4. /\ Erased(c) \in TableType
      /\ Erased(c).conns = rest
  BY TableFacts DEF TableInv, TableType
<1>5. \A d \in rest : d.real # a
  BY <1>1 DEF TableInv, UniqueReal
<1>6. /\ IsFiniteSet(rest)
      /\ Cardinality(rest) = Cardinality(Connections) - 1
      /\ Cardinality(Connections) \in Nat
  BY FS_RemoveElement, FS_CardinalityType DEF TableInv
<1>7. Cardinality(rest) < MaxConns /\ Cardinality(rest) <= MaxConns
  BY <1>6, BoundsAssumption DEF TableInv, WithinCapacity
<1>8. /\ t.nextcheck \in 0..CheckEvery
      /\ NewIsAdmitted(Erased(c), t, new) \/ NewIsRefused(Erased(c), t)
  <2>1. GetConnection(Erased(c).conns, a) = {}
    BY <1>4, <1>5 DEF GetConnection
  <2> HIDE DEF Erased
  <2> QED BY <1>3, <1>4, <1>6, <1>7, <2>1, NewConnectionFacts
<1>9. ~NewIsRefused(Erased(c), t)
  BY <1>4, <1>6, <1>7, BoundsAssumption DEF NewIsRefused
<1>10. PICK kept \in SUBSET rest :
           /\ t.conns = kept \cup {new}
           /\ Cardinality(kept) < MaxConns
           /\ \A d \in rest : ~Expired(d) => d \in kept
  BY <1>4, <1>8, <1>9 DEF NewIsAdmitted
<1>11. /\ new \in udpconnection
       /\ new.real = a /\ new.proxy = n /\ new.idle = 0
       /\ new.is_real <=> (h = Self)
  BY <1>3, FreshFacts
<1> HIDE DEF new, t
<1>12. GetConnection(t.conns, a) = {new}
  BY <1>5, <1>10, <1>11 DEF GetConnection
<1>13. /\ nextcheck' = t.nextcheck
       /\ faulted' = FALSE
       /\ Connections' = (t.conns \ {new}) \cup {WithStatus(new)}
       /\ statusip' = ShownAfter(new)
  BY <1>1, <1>12 DEF t
<1>14. new \notin kept
  BY <1>5, <1>10, <1>11
<1>15. Connections' = kept \cup {WithStatus(new)}
  BY <1>10, <1>13, <1>14
<1>16. /\ WithStatus(new) \in udpconnection
       /\ WithStatus(new).real = a /\ WithStatus(new).proxy = n
       /\ WithStatus(new).idle = 0
       /\ WithStatus(new).is_real <=> (h = Self)
       /\ statusip' \in Nodes \cup {None}
  BY <1>11, <1>13, StatusFacts DEF TableInv, TypeOK
<1>17. RefusalBudget'
  BY <1>2, <1>8, <1>13, BoundsAssumption DEF RefusalBudget
<1>18. /\ kept \in SUBSET Connections
       /\ \A d \in kept : d.real # a
       /\ \A d \in Connections : d.real # a /\ ~Expired(d) => d \in kept
  BY <1>1, <1>5, <1>10
<1>19. /\ nextcheck' \in 0..CheckEvery
       /\ hookedsteam' \in BOOLEAN
       /\ refusals' \in Nat
  BY <1>2, <1>8, <1>13 DEF TableInv, TypeOK
<1> QED
  BY <1>2, <1>10, <1>13, <1>15, <1>16, <1>17, <1>18, <1>19,
     EntryKeepsTableInv

\* Emptying the table when the engine is patched, whatever is handed on.
LEMMA HooksStep ==
    ASSUME TableInv, CheckSteamHooks,
           UNCHANGED <<nextcheck, faulted, via, quiet, refusals>>,
           io' \in [op: {"none", "passed"}, peer: Address \cup {None},
                   real: Address \cup {None}]
    PROVE  TableInv'
<1>1. io' \in [op: {"none", "unwrapped", "passed", "wrapped", "direct"},
              peer: Address \cup {None}, real: Address \cup {None, Self}]
  OBVIOUS
<1>2. DirectOnlyForACause'
  BY DEF DirectOnlyForACause
<1>3. hookedsteam' \in BOOLEAN
  BY Zenon DEF CheckSteamHooks
<1>4. CASE hookedsteam
  <2>1. UNCHANGED <<Connections, statusip, dropped>>
    BY <1>4 DEF CheckSteamHooks
  <2>2. TypeOK'
    BY <1>1, <1>3, <2>1 DEF TableInv, TypeOK
  <2> QED
    BY <1>2, <2>1, <2>2
    DEF TableInv, UniqueReal, RoutedToLastNode, SwitchNeverFaults,
        WithinCapacity, AgeIsSilence, Covered, RefusalBudget
<1>5. CASE ~hookedsteam
  <2>1. /\ Connections' = {}
        /\ statusip' \in {statusip, None}
        /\ dropped' = dropped \cup {c.real : c \in Connections}
    BY <1>5 DEF CheckSteamHooks
  <2>2. \A c \in Connections : c.real \in Address
    BY DEF TableInv, TypeOK, udpconnection
  <2>3. /\ statusip' \in Nodes \cup {None}
        /\ dropped' \subseteq Address
    BY <2>1, <2>2 DEF TableInv, TypeOK
  <2>4. TypeOK'
    BY <1>1, <1>3, <2>1, <2>3 DEF TableInv, TypeOK
  <2>5. IsFiniteSet(Connections') /\ Cardinality(Connections') = 0
    BY <2>1, FS_EmptySet
  <2>6. WithinCapacity' /\ RefusalBudget'
    <3>1. refusals \in Nat /\ nextcheck \in 0..CheckEvery
      BY DEF TableInv, TypeOK
    <3>2. 2 * refusals <= CheckEvery + 1
      BY <3>1, BoundsAssumption DEF TableInv, RefusalBudget
    <3> QED
      BY <2>5, <3>2, BoundsAssumption DEF WithinCapacity, RefusalBudget
  <2>7. Covered'
    BY <2>1 DEF TableInv, Covered
  <2> QED
    BY <1>2, <2>1, <2>4, <2>5, <2>6, <2>7
    DEF TableInv, UniqueReal, RoutedToLastNode, SwitchNeverFaults,
        AgeIsSilence
<1> QED BY <1>4, <1>5

\* sendto leaves the table alone, and sends unwrapped only to a peer without
\* an entry.
LEMMA SendtoStep ==
    ASSUME TableInv, NEW a \in Address, Sendto(a)
    PROVE  TableInv'
<1>1. UNCHANGED <<Connections, nextcheck, hookedsteam, statusip, faulted,
                  via, quiet, dropped, refusals>>
  BY DEF Sendto, history
<1>2. CASE GetConnection(Connections, a) = {} /\ io' = Direct(a)
  <2>1. io' \in [op: {"none", "unwrapped", "passed", "wrapped", "direct"},
                peer: Address \cup {None}, real: Address \cup {None, Self}]
    BY <1>2 DEF Direct
  <2>2. DirectOnlyForACause'
    <3>1. io'.peer = a
      BY <1>2 DEF Direct
    <3>2. \A c \in Connections : c.real # a
      BY <1>2 DEF GetConnection
    <3> QED
      BY <1>1, <3>1, <3>2 DEF TableInv, Covered, DirectOnlyForACause
  <2>3. TypeOK'
    BY <1>1, <2>1 DEF TableInv, TypeOK
  <2> QED
    BY <1>1, <2>2, <2>3
    DEF TableInv, UniqueReal, RoutedToLastNode, SwitchNeverFaults,
        WithinCapacity, AgeIsSilence, Covered, RefusalBudget
<1>3. CASE \E c \in GetConnection(Connections, a) :
              io' = Wrapped(c.proxy, IF c.is_real THEN Self ELSE a)
  <2>1. PICK c \in Connections :
            io' = Wrapped(c.proxy, IF c.is_real THEN Self ELSE a)
    BY <1>3 DEF GetConnection
  <2>2. c.proxy \in Address
    BY DEF TableInv, TypeOK, udpconnection, Address
  <2>3. /\ io' \in [op: {"none", "unwrapped", "passed", "wrapped", "direct"},
                   peer: Address \cup {None},
                   real: Address \cup {None, Self}]
        /\ io'.op # "direct"
    BY <2>1, <2>2 DEF Wrapped
  <2>4. TypeOK' /\ DirectOnlyForACause'
    BY <1>1, <2>3 DEF TableInv, TypeOK, DirectOnlyForACause
  <2> QED
    BY <1>1, <2>4
    DEF TableInv, UniqueReal, RoutedToLastNode, SwitchNeverFaults,
        WithinCapacity, AgeIsSilence, Covered, RefusalBudget
<1> QED BY <1>2, <1>3 DEF Sendto

\* A datagram without the password is passed on; only CheckSteamHooks may
\* change the table.
LEMMA WrongPasswordStep ==
    ASSUME TableInv, NEW a \in Address, RecvWrongPassword(a)
    PROVE  TableInv'
<1>1. UNCHANGED <<Connections, nextcheck, hookedsteam, statusip, faulted,
                  via, quiet, dropped, refusals>>
  BY DEF RecvWrongPassword, history
<1>2. /\ io' \in [op: {"none", "unwrapped", "passed", "wrapped", "direct"},
                 peer: Address \cup {None}, real: Address \cup {None, Self}]
      /\ io'.op # "direct"
  BY DEF RecvWrongPassword, Passed
<1>3. TypeOK' /\ DirectOnlyForACause'
  BY <1>1, <1>2 DEF TableInv, TypeOK, DirectOnlyForACause
<1> QED
  BY <1>1, <1>3
  DEF TableInv, UniqueReal, RoutedToLastNode, SwitchNeverFaults,
      WithinCapacity, AgeIsSilence, Covered, RefusalBudget

\* Time passes for entries and peers alike, so ages stay equal to silences.
LEMMA TickStep ==
    ASSUME TableInv, Tick
    PROVE  TableInv'
<1> DEFINE Aged(c) == [c EXCEPT !.idle = Older(@)]
<1>1. /\ Connections' = {Aged(c) : c \in Connections}
      /\ quiet' = [a \in Address |-> Older(quiet[a])]
      /\ io' = NoIO
      /\ UNCHANGED <<nextcheck, hookedsteam, statusip, faulted, via, dropped,
                     refusals>>
  BY DEF Tick
<1>2. \A x \in 0..ExpireAfter : Older(x) \in 0..ExpireAfter
  BY BoundsAssumption DEF Older
<1>3. \A c \in Connections :
        /\ c \in udpconnection
        /\ Aged(c) \in udpconnection
        /\ Aged(c).real = c.real
        /\ Aged(c).proxy = c.proxy
        /\ Aged(c).is_real = c.is_real
        /\ Aged(c).idle = Older(c.idle)
  BY <1>2 DEF TableInv, TypeOK, udpconnection
<1>4. TypeOK'
  <2>1. quiet' \in [Address -> 0..ExpireAfter]
    BY <1>1, <1>2 DEF TableInv, TypeOK
  <2>2. io' \in [op: {"none", "unwrapped", "passed", "wrapped", "direct"},
                peer: Address \cup {None}, real: Address \cup {None, Self}]
    BY <1>1 DEF NoIO
  <2>3. Connections' \subseteq udpconnection
    BY <1>1, <1>3
  <2> QED BY <1>1, <2>1, <2>2, <2>3 DEF TableInv, TypeOK
<1>5. /\ IsFiniteSet(Connections')
      /\ Cardinality(Connections') <= Cardinality(Connections)
  <2> DEFINE f == [c \in Connections |-> Aged(c)]
  <2> HIDE DEF Aged
  <2>1. f \in Surjection(Connections, Connections')
    BY <1>1 DEF Surjection
  <2> QED BY <2>1, FS_Surjection DEF TableInv
<1>6. WithinCapacity' /\ RefusalBudget'
  <2>1. /\ Cardinality(Connections) \in Nat
        /\ Cardinality(Connections') \in Nat
    BY <1>5, FS_CardinalityType DEF TableInv
  <2> QED
    BY <1>1, <1>5, <2>1, BoundsAssumption
    DEF TableInv, WithinCapacity, RefusalBudget
<1> HIDE DEF Aged
<1>7. UniqueReal'
  BY <1>1, <1>3 DEF TableInv, UniqueReal
<1>8. RoutedToLastNode'
  BY <1>1, <1>3 DEF TableInv, RoutedToLastNode
<1>9. AgeIsSilence'
  <2>1. \A c \in Connections : c.real \in Address
    BY <1>3 DEF udpconnection
  <2>2. \A c \in Connections : Aged(c).idle = quiet'[Aged(c).real]
    BY <1>1, <1>3, <2>1 DEF TableInv, AgeIsSilence
  <2> QED BY <1>1, <2>2 DEF AgeIsSilence
<1>10. Covered'
  <2>1. \A a \in Address : quiet[a] = ExpireAfter => quiet'[a] = ExpireAfter
    BY <1>1 DEF Older
  <2>2. \A a \in Address : (\E c \in Connections : c.real = a)
                            => \E c \in Connections' : c.real = a
    BY <1>1, <1>3
  <2> QED BY <1>1, <2>1, <2>2 DEF TableInv, Covered
<1>11. SwitchNeverFaults' /\ DirectOnlyForACause'
  BY <1>1 DEF TableInv, SwitchNeverFaults, DirectOnlyForACause, NoIO
<1> QED
  BY <1>4, <1>5, <1>6, <1>7, <1>8, <1>9, <1>10, <1>11 DEF TableInv

\* Every step of the hook keeps the invariant, one action at a time.
LEMMA NextKeepsTableInv == TableInv /\ [Next]_vars => TableInv'
<1> SUFFICES ASSUME TableInv, [Next]_vars PROVE TableInv'
  OBVIOUS
<1>1. ASSUME NEW n \in Nodes, NEW h \in Clients \cup {Self},
             \/ RecvNewPeer(n, h)
             \/ RecvKnownPeer(n, h)
             \/ RecvSwitchedPeer(n, h)
      PROVE  TableInv'
  BY <1>1, NewPeerStep, KnownPeerStep, SwitchedPeerStep
<1>2. CASE RecvOutOfBand
  <2>1. /\ CheckSteamHooks
        /\ UNCHANGED <<nextcheck, faulted, via, quiet, refusals>>
        /\ io' = NoIO
    BY <1>2 DEF RecvOutOfBand
  <2>2. io' \in [op: {"none", "passed"}, peer: Address \cup {None},
                real: Address \cup {None}]
    BY <2>1 DEF NoIO
  <2> QED BY <2>1, <2>2, HooksStep
<1>3. ASSUME NEW a \in Address, RecvShort(a) PROVE TableInv'
  <2>1. /\ CheckSteamHooks
        /\ UNCHANGED <<nextcheck, faulted, via, quiet, refusals>>
        /\ io' = Passed(a)
    BY <1>3 DEF RecvShort
  <2>2. io' \in [op: {"none", "passed"}, peer: Address \cup {None},
                real: Address \cup {None}]
    BY <2>1 DEF Passed
  <2> QED BY <2>1, <2>2, HooksStep
<1>4. ASSUME NEW a \in Address, RecvWrongPassword(a) PROVE TableInv'
  BY <1>4, WrongPasswordStep
<1>5. ASSUME NEW a \in Address, Sendto(a) PROVE TableInv'
  BY <1>5, SendtoStep
<1>6. CASE Tick
  BY <1>6, TickStep
<1>7. CASE UNCHANGED vars
  BY <1>7
  DEF vars, history, TableInv, TypeOK, UniqueReal, RoutedToLastNode,
      SwitchNeverFaults, WithinCapacity, AgeIsSilence, Covered,
      RefusalBudget, DirectOnlyForACause
<1> QED
  BY <1>1, <1>2, <1>3, <1>4, <1>5, <1>6, <1>7 DEF Next

-----------------------------------------------------------------------------
\* The table's inductive invariant holds for every number of players and
\* nodes and every table size, expiry and sweep period.
THEOREM TableInvariant == Spec => []TableInv
  BY InitTableInv, NextKeepsTableInv, PTL DEF Spec

\* Every variable of the hook keeps its type.
THEOREM TypeCorrect == Spec => []TypeOK
<1>1. TableInv => TypeOK
  BY DEF TableInv
<1> QED BY <1>1, TableInvariant, PTL

\* The lookup after a node switch (recvfrom, 914-917) always finds the entry.
THEOREM SwitchIsSafe == Spec => []SwitchNeverFaults
<1>1. TableInv => SwitchNeverFaults
  BY DEF TableInv
<1> QED BY <1>1, TableInvariant, PTL

\* Every address has at most one entry, and it names the node that delivered
\* the address's last datagram.
THEOREM RoutesAreCurrent == Spec => [](UniqueReal /\ RoutedToLastNode)
<1>1. TableInv => UniqueReal /\ RoutedToLastNode
  BY DEF TableInv
<1> QED BY <1>1, TableInvariant, PTL

\* A reply goes out unwrapped to a player who came through a node only after
\* a long silence, a refusal or the clearing of the table.
THEOREM LeaksHaveACause == Spec => []DirectOnlyForACause
<1>1. TableInv => DirectOnlyForACause
  BY DEF TableInv
<1> QED BY <1>1, TableInvariant, PTL

\* With an expired entry in the table, at most half of CheckEvery new players
\* (rounded up) are turned away in a row.
THEOREM RefusalsAreBounded == Spec => []RefusedBriefly
<1>1. TableInv => RefusedBriefly
  <2> SUFFICES ASSUME TableInv PROVE RefusedBriefly
    OBVIOUS
  <2>1. refusals \in Nat /\ nextcheck \in 0..CheckEvery
    BY DEF TableInv, TypeOK
  <2> QED
    BY <2>1, BoundsAssumption DEF TableInv, RefusalBudget, RefusedBriefly
<1> QED BY <1>1, TableInvariant, PTL

\* A player whose datagrams keep coming keeps its entry, except when the
\* engine is patched.
THEOREM ActivePlayersAreKept == Spec => KeptWhileActive
<1> DEFINE Kept ==
        \A c \in Connections :
            \/ quiet[c.real] = ExpireAfter
            \/ hookedsteam' # hookedsteam
            \/ \E d \in Connections' : d.real = c.real
<1>1. TableInv /\ [Next]_vars => [Kept]_vars
  <2> SUFFICES ASSUME TableInv, Next PROVE Kept
    OBVIOUS
  <2>1. UnexpiredStay => Kept
    <3> SUFFICES ASSUME UnexpiredStay, NEW c \in Connections, Expired(c)
                 PROVE  quiet[c.real] = ExpireAfter
      BY DEF UnexpiredStay
    <3>1. /\ quiet[c.real] >= ExpireAfter
          /\ quiet[c.real] \in 0..ExpireAfter
      BY DEF TableInv, AgeIsSilence, Expired, TypeOK, udpconnection
    <3> QED BY <3>1, BoundsAssumption
  <2>2. ASSUME NEW n \in Nodes, NEW h \in Clients \cup {Self},
               \/ RecvNewPeer(n, h)
               \/ RecvKnownPeer(n, h)
               \/ RecvSwitchedPeer(n, h)
        PROVE  Kept
    BY <2>1, <2>2, NewPeerStep, KnownPeerStep, SwitchedPeerStep
  <2>3. CheckSteamHooks => Kept
    BY DEF CheckSteamHooks, TableInv, TypeOK
  <2>4. Connections' = Connections => Kept
    OBVIOUS
  <2>5. Tick => Kept
    <3> SUFFICES ASSUME Tick, NEW c \in Connections
                 PROVE  \E d \in Connections' : d.real = c.real
      OBVIOUS
    <3>1. [c EXCEPT !.idle = Older(@)] \in Connections'
      BY DEF Tick
    <3>2. [c EXCEPT !.idle = Older(@)].real = c.real
      BY DEF TableInv, TypeOK, udpconnection
    <3> QED BY <3>1, <3>2
  <2> HIDE DEF Kept
  <2> QED
    BY <2>2, <2>3, <2>4, <2>5
    DEF Next, RecvOutOfBand, RecvShort, RecvWrongPassword, Sendto
<1> QED BY <1>1, TableInvariant, PTL DEF Spec, KeptWhileActive

-----------------------------------------------------------------------------
(* What "status" prints.                                                   *)

\* A statusstring, once written, names the node of its entry.
StatusIsOfEntry ==
    \A c \in Connections : c.status \in {None, c.proxy}

\* NewConnection adds at most the entry it was asked for.
LEMMA NewConnectionAdds ==
    ASSUME NEW t \in TableType, NEW a, NEW n, NEW isReal
    PROVE  \A c \in NewConnection(t, a, n, isReal).conns :
              c \in t.conns \/ c = FreshConnection(a, n, isReal)
<1> DEFINE s == ExpireConnections(t)
           new == FreshConnection(a, n, isReal)
           r == NewConnection(t, a, n, isReal)
<1>1. ASSUME NEW u \in TableType
      PROVE  /\ ExpireConnections(u) \in TableType
             /\ ExpireConnections(u).conns \subseteq u.conns
  BY <1>1, BoundsAssumption DEF ExpireConnections, TableType
<1>2. s \in TableType /\ s.conns \subseteq t.conns
  BY <1>1
<1>3. ExpireConnections(s).conns \subseteq t.conns
  BY <1>1, <1>2
<1> HIDE DEF s, new
<1>4. r = s \/ r = ExpireConnections(s) \/ r = [s EXCEPT !.conns = @ \cup {new}]
  BY Zenon DEF NewConnection, s, new
<1>5. [s EXCEPT !.conns = @ \cup {new}].conns = s.conns \cup {new}
  BY <1>2 DEF TableType
<1> QED BY <1>2, <1>3, <1>4, <1>5 DEF s, new

\* What a statusstring is worth after recvfrom has written it.
LEMMA StatusWritten ==
    ASSUME NEW c \in udpconnection, c.status \in {None, c.proxy}
    PROVE  /\ WithStatus(c).status \in {None, WithStatus(c).proxy}
           /\ ~c.is_real => ShownAfter(c) = c.proxy
<1>1. StatusOf(c) = c.proxy
  BY DEF StatusOf
<1>2. CASE c.is_real
  BY <1>2 DEF WithStatus
<1>3. CASE ~c.is_real
  <2>1. WithStatus(c) = [c EXCEPT !.status = StatusOf(c)]
    BY <1>3 DEF WithStatus
  <2> QED BY <1>1, <1>3, <2>1 DEF ShownAfter, udpconnection
<1> QED BY <1>2, <1>3

\* A datagram from n is shown as n's, if a client sent it and the table had an
\* entry for it.
ShownAsFrom(n, h) ==
    h # Self /\ GetConnection(Connections, h) # {} => statusip' = n

LEMMA NewPeerStatus ==
    ASSUME TableInv, StatusIsOfEntry,
           NEW n \in Nodes, NEW h \in Clients \cup {Self}, RecvNewPeer(n, h)
    PROVE  StatusIsOfEntry' /\ ShownAsFrom(n, h)
<1> DEFINE a == RealAddress(n, h)
           t == NewConnection(Table, a, n, h = Self)
<1>1. Connections' = t.conns /\ GetConnection(Connections, a) = {}
  BY DEF RecvNewPeer
<1>2. ASSUME NEW c \in t.conns PROVE c.status \in {None, c.proxy}
  <2>1. c \in Connections \/ c = FreshConnection(a, n, h = Self)
    BY TableFacts, NewConnectionAdds DEF TableInv
  <2>2. FreshConnection(a, n, h = Self).status = None
    BY DEF FreshConnection
  <2> QED BY <2>1, <2>2 DEF StatusIsOfEntry
<1> HIDE DEF t
<1> QED BY <1>1, <1>2 DEF StatusIsOfEntry, ShownAsFrom, RealAddress

LEMMA KnownPeerStatus ==
    ASSUME TableInv, StatusIsOfEntry,
           NEW n \in Nodes, NEW h \in Clients \cup {Self}, RecvKnownPeer(n, h)
    PROVE  StatusIsOfEntry' /\ ShownAsFrom(n, h)
<1> DEFINE a == RealAddress(n, h)
<1>1. PICK c \in Connections :
          /\ c.real = a
          /\ c.proxy = n
          /\ Connections' = (Connections \ {c})
                               \cup {WithStatus([c EXCEPT !.idle = 0])}
          /\ statusip' = ShownAfter(c)
  BY DEF RecvKnownPeer, GetConnection
<1> DEFINE fresh == [c EXCEPT !.idle = 0]
<1>2. c \in udpconnection /\ c.status \in {None, c.proxy}
  BY DEF TableInv, TypeOK, StatusIsOfEntry
<1>3. fresh \in udpconnection /\ fresh.status \in {None, fresh.proxy}
  BY <1>2, BoundsAssumption DEF udpconnection
<1>4. WithStatus(fresh).status \in {None, WithStatus(fresh).proxy}
  BY <1>3, StatusWritten
<1> HIDE DEF fresh
<1>5. StatusIsOfEntry'
  BY <1>1, <1>4 DEF StatusIsOfEntry, fresh
<1>6. h # Self => ~c.is_real
  BY <1>1, AddressesAssumption DEF TableInv, RoutedToLastNode, RealAddress
<1>7. ~c.is_real => statusip' = n
  BY <1>1, <1>2, StatusWritten
<1> QED BY <1>5, <1>6, <1>7 DEF ShownAsFrom

LEMMA SwitchedPeerStatus ==
    ASSUME TableInv, StatusIsOfEntry,
           NEW n \in Nodes, NEW h \in Clients \cup {Self},
           RecvSwitchedPeer(n, h)
    PROVE  StatusIsOfEntry' /\ ShownAsFrom(n, h)
<1> DEFINE a == RealAddress(n, h)
           Erased(c) == [Table EXCEPT !.conns = @ \ {c}]
           T(c) == NewConnection(Erased(c), a, n, h = Self)
           new == FreshConnection(a, n, h = Self)
<1>1. ~faulted'
  BY SwitchedPeerStep DEF TableInv, SwitchNeverFaults
<1>2. PICK c \in Connections :
          /\ c.real = a
          /\ \E e \in GetConnection(T(c).conns, a) :
                /\ Connections' = (T(c).conns \ {e}) \cup {WithStatus(e)}
                /\ statusip' = ShownAfter(e)
  BY <1>1 DEF RecvSwitchedPeer, GetConnection
<1>3. PICK e \in GetConnection(T(c).conns, a) :
          /\ Connections' = (T(c).conns \ {e}) \cup {WithStatus(e)}
          /\ statusip' = ShownAfter(e)
  BY <1>2
<1>4. /\ Erased(c) \in TableType
      /\ Erased(c).conns = Connections \ {c}
  BY TableFacts DEF TableInv, TableType
<1>5. a \in Address
  BY DEF RealAddress, Address
<1>6. /\ new \in udpconnection /\ new.real = a /\ new.proxy = n
      /\ new.is_real = (h = Self) /\ new.status = None
  BY <1>5, FreshFacts DEF FreshConnection
<1>7. \A d \in T(c).conns : d \in Connections \ {c} \/ d = new
  <2> HIDE DEF Erased
  <2> QED BY <1>4, NewConnectionAdds
<1> HIDE DEF T, new
<1>8. e = new
  BY <1>2, <1>7 DEF GetConnection, TableInv, UniqueReal
<1>9. \A d \in T(c).conns : d.status \in {None, d.proxy}
  BY <1>6, <1>7 DEF StatusIsOfEntry
<1>10. /\ WithStatus(new).status \in {None, WithStatus(new).proxy}
       /\ ~new.is_real => ShownAfter(new) = n
  BY <1>6, StatusWritten
<1>11. StatusIsOfEntry'
  BY <1>3, <1>8, <1>9, <1>10 DEF StatusIsOfEntry
<1>12. h # Self => statusip' = n
  BY <1>3, <1>6, <1>8, <1>10
<1> QED BY <1>11, <1>12 DEF ShownAsFrom

LEMMA NextKeepsStatus ==
    TableInv /\ StatusIsOfEntry /\ [Next]_vars => StatusIsOfEntry'
<1> SUFFICES ASSUME TableInv, StatusIsOfEntry, [Next]_vars
             PROVE  StatusIsOfEntry'
  OBVIOUS
<1>1. ASSUME NEW n \in Nodes, NEW h \in Clients \cup {Self},
             \/ RecvNewPeer(n, h)
             \/ RecvKnownPeer(n, h)
             \/ RecvSwitchedPeer(n, h)
      PROVE  StatusIsOfEntry'
  BY <1>1, NewPeerStatus, KnownPeerStatus, SwitchedPeerStatus
<1>2. CheckSteamHooks => StatusIsOfEntry'
  BY DEF CheckSteamHooks, StatusIsOfEntry
<1>3. Connections' = Connections => StatusIsOfEntry'
  BY DEF StatusIsOfEntry
<1>4. CASE Tick
  <2> SUFFICES ASSUME NEW d \in Connections'
               PROVE  d.status \in {None, d.proxy}
    BY DEF StatusIsOfEntry
  <2>1. PICK c \in Connections : d = [c EXCEPT !.idle = Older(@)]
    BY <1>4 DEF Tick
  <2>2. c \in udpconnection /\ c.status \in {None, c.proxy}
    BY DEF TableInv, TypeOK, StatusIsOfEntry
  <2> QED BY <2>1, <2>2 DEF udpconnection
<1> QED
  BY <1>1, <1>2, <1>3, <1>4
  DEF Next, vars, RecvOutOfBand, RecvShort, RecvWrongPassword, Sendto

\* recvfrom writes an entry's statusstring once, and makes a new entry when the
\* node changes: each datagram of a player with an entry makes "status" name
\* the node it came through, however often the player switches nodes.
THEOREM StatusIsCurrent == Spec => StatusFollowsNode
<1> DEFINE Inv == TableInv /\ StatusIsOfEntry
           Follows ==
               /\ io'.op = "unwrapped"
               /\ io'.real \in Clients
               /\ \E c \in Connections : c.real = io'.real
               => statusip' = io'.peer
<1>1. Init => Inv
  BY InitTableInv DEF Init, StatusIsOfEntry
<1>2. Inv /\ [Next]_vars => Inv'
  BY NextKeepsTableInv, NextKeepsStatus
<1>3. Inv /\ [Next]_vars => [Follows]_vars
  <2> SUFFICES ASSUME Inv, Next, io'.op = "unwrapped", io'.real \in Clients,
                      \E c \in Connections : c.real = io'.real
               PROVE  statusip' = io'.peer
    OBVIOUS
  <2>1. ASSUME NEW n \in Nodes, NEW h \in Clients \cup {Self},
               HandOver(n, RealAddress(n, h)), ShownAsFrom(n, h)
        PROVE  statusip' = io'.peer
    <3>1. io'.peer = n /\ io'.real = RealAddress(n, h)
      BY <2>1 DEF HandOver, Unwrapped
    <3>2. h # Self /\ h = io'.real
      BY <3>1, AddressesAssumption DEF RealAddress
    <3> QED BY <2>1, <3>1, <3>2 DEF ShownAsFrom, GetConnection
  <2>2. ASSUME NEW n \in Nodes, NEW h \in Clients \cup {Self},
               \/ RecvNewPeer(n, h)
               \/ RecvKnownPeer(n, h)
               \/ RecvSwitchedPeer(n, h)
        PROVE  statusip' = io'.peer
    <3>1. HandOver(n, RealAddress(n, h))
      BY <2>2 DEF RecvNewPeer, RecvKnownPeer, RecvSwitchedPeer
    <3>2. ShownAsFrom(n, h)
      BY <2>2, NewPeerStatus, KnownPeerStatus, SwitchedPeerStatus
    <3> QED BY <2>1, <3>1, <3>2
  <2>3. ~(RecvOutOfBand \/ Tick)
    BY DEF RecvOutOfBand, Tick, NoIO
  <2>4. \A a \in Address : ~(RecvShort(a) \/ RecvWrongPassword(a) \/ Sendto(a))
    BY DEF RecvShort, RecvWrongPassword, Sendto, Passed, Direct, Wrapped
  <2> QED BY <2>2, <2>3, <2>4 DEF Next
<1>4. Spec => []Inv
  BY <1>1, <1>2, PTL DEF Spec
<1> QED BY <1>3, <1>4, PTL DEF Spec, StatusFollowsNode

-----------------------------------------------------------------------------
(* Nodes, network and hook.                                                *)

\* A player the engine has heard was heard through a node it used.
HeardThroughUsed ==
    \A c \in Clients : via[c] # None => via[c] \in used[c]

\* What is on its way to the server was sent by its player.
SentIsUsed == \A d \in toServer : d[1] \in used[d[2]]

\* What is on its way back belongs to a player the engine has heard, and goes
\* through a node the player used or to one who is exposed.
AnswersAreDue ==
    \A m \in fromServer :
        \/ /\ m.op = "wrapped"
           /\ m.real \in Clients
           /\ via[m.real] # None
           /\ m.peer \in Nodes
           /\ m.peer \in used[m.real]
        \/ /\ m.op = "direct"
           /\ m.peer \in Clients
           /\ via[m.peer] # None
           /\ m.peer \in exposed

PathInv ==
    /\ TableInv
    /\ IsFiniteSet(toServer) /\ IsFiniteSet(fromServer)
    /\ InFlight <= MaxInFlight
    /\ toServer \subseteq Nodes \X Clients
    /\ used \in [Clients -> SUBSET Nodes]
    /\ exposed \subseteq Clients
    /\ answered \in {None} \cup (Clients \X (Nodes \cup {Server}))
    /\ HeardThroughUsed
    /\ SentIsUsed
    /\ AnswersAreDue
    /\ AnswersComeFromUsedNodes

-----------------------------------------------------------------------------
(* The parts of a step.                                                    *)

\* A datagram is put on the network while there is room.
LEMMA OneMoreInFlight ==
    ASSUME PathInv, InFlight < MaxInFlight, NEW x
    PROVE  /\ IsFiniteSet(toServer \cup {x}) /\ IsFiniteSet(fromServer \cup {x})
           /\ Cardinality(toServer \cup {x}) + Cardinality(fromServer) <= MaxInFlight
           /\ Cardinality(toServer) + Cardinality(fromServer \cup {x}) <= MaxInFlight
<1>1. IsFiniteSet(toServer) /\ IsFiniteSet(fromServer)
  BY DEF PathInv
<1>2. /\ Cardinality(toServer) \in Nat
      /\ Cardinality(fromServer) \in Nat
      /\ Cardinality(toServer) + Cardinality(fromServer) < MaxInFlight
      /\ MaxInFlight \in Nat
  BY <1>1, FS_CardinalityType, PathAssumption DEF InFlight
<1>3. /\ IsFiniteSet(toServer \cup {x})
      /\ \/ Cardinality(toServer \cup {x}) = Cardinality(toServer)
         \/ Cardinality(toServer \cup {x}) = Cardinality(toServer) + 1
  BY <1>1, FS_AddElement
<1>4. /\ IsFiniteSet(fromServer \cup {x})
      /\ \/ Cardinality(fromServer \cup {x}) = Cardinality(fromServer)
         \/ Cardinality(fromServer \cup {x}) = Cardinality(fromServer) + 1
  BY <1>1, FS_AddElement
<1> QED BY <1>2, <1>3, <1>4

\* Datagrams are taken off the network, or stay.
LEMMA NoMoreInFlight ==
    ASSUME PathInv, NEW s \in SUBSET toServer, NEW r \in SUBSET fromServer
    PROVE  /\ IsFiniteSet(s) /\ IsFiniteSet(r)
           /\ Cardinality(s) + Cardinality(r) <= MaxInFlight
<1>1. IsFiniteSet(toServer) /\ IsFiniteSet(fromServer)
  BY DEF PathInv
<1>2. /\ Cardinality(toServer) \in Nat
      /\ Cardinality(fromServer) \in Nat
      /\ Cardinality(toServer) + Cardinality(fromServer) <= MaxInFlight
      /\ MaxInFlight \in Nat
  BY <1>1, FS_CardinalityType, PathAssumption DEF InFlight, PathInv
<1>3. /\ IsFiniteSet(s) /\ Cardinality(s) <= Cardinality(toServer)
      /\ IsFiniteSet(r) /\ Cardinality(r) <= Cardinality(fromServer)
  BY <1>1, FS_Subset
<1>4. Cardinality(s) \in Nat /\ Cardinality(r) \in Nat
  BY <1>3, FS_CardinalityType
<1> QED BY <1>2, <1>3, <1>4

\* The history variables of the hook, as far as the path reads them.
LEMMA HookTypes ==
    ASSUME TableInv
    PROVE  /\ via \in [Address -> Nodes \cup {None}]
           /\ Clients \subseteq Address
           /\ \A c \in Connections : c.real \in Address /\ c.proxy \in Nodes
           /\ \A c \in Connections : /\ c.proxy = via[c.real]
                                     /\ c.is_real <=> c.real \in Nodes
BY DEF TableInv, TypeOK, RoutedToLastNode, udpconnection, Address

\* The parts of PathInv that a step which leaves the players' sides and the
\* hook's history alone cannot break.
LEMMA QuietStep ==
    ASSUME PathInv, TableInv', UNCHANGED <<via, used, exposed>>,
           toServer' \subseteq toServer, fromServer' \subseteq fromServer,
           answered' \in {None} \cup (Clients \X (Nodes \cup {Server})),
           AnswersComeFromUsedNodes'
    PROVE  PathInv'
<1>1. /\ IsFiniteSet(toServer') /\ IsFiniteSet(fromServer')
      /\ InFlight' <= MaxInFlight
  BY NoMoreInFlight DEF InFlight
<1>2. HeardThroughUsed' /\ SentIsUsed' /\ AnswersAreDue'
  BY DEF PathInv, HeardThroughUsed, SentIsUsed, AnswersAreDue
<1> QED BY <1>1, <1>2 DEF PathInv

-----------------------------------------------------------------------------
(* PathInv holds initially and is kept by every action, and every action   *)
(* is a step of Relay.                                                     *)

LEMMA InitPathInv == PathInit => PathInv /\ R!Init
<1> SUFFICES ASSUME PathInit PROVE PathInv /\ R!Init
  OBVIOUS
<1>1. TableInv
  BY InitTableInv DEF PathInit
<1>2. \A c \in Clients : via[c] = None
  BY DEF PathInit, Init, Address
<1>3. /\ IsFiniteSet(toServer) /\ IsFiniteSet(fromServer)
      /\ InFlight = 0
  BY FS_EmptySet DEF PathInit, InFlight
<1>4. used = [c \in Clients |-> {}] /\ exposed = {} /\ answered = None
  BY DEF PathInit
<1>5. PathInv
  <2>1. InFlight <= MaxInFlight
    BY <1>3, PathAssumption
  <2>2. HeardThroughUsed /\ SentIsUsed /\ AnswersAreDue
    BY <1>2 DEF PathInit, HeardThroughUsed, SentIsUsed, AnswersAreDue
  <2> QED
    BY <1>1, <1>3, <1>4, <2>1, <2>2
       DEF PathInit, PathInv, AnswersComeFromUsedNodes
<1>6. R!Init
  <2>1. {c \in Clients : via[c] # None} = {}
    BY <1>2
  <2> QED BY <1>4, <2>1 DEF R!Init
<1> QED BY <1>5, <1>6

\* A player's datagram is put on the way by a node.
LEMMA ClientDataStep ==
    ASSUME PathInv, NEW n \in Nodes, NEW c \in Clients,
           ProxyOnReceiveClientData(n, c)
    PROVE  PathInv' /\ R!Speaks(c, n)
<1>1. /\ toServer' = toServer \cup {<<n, c>>}
      /\ used' = [used EXCEPT ![c] = used[c] \cup {n}]
      /\ answered' = None
      /\ UNCHANGED <<vars, fromServer, exposed>>
      /\ InFlight < MaxInFlight
  BY DEF ProxyOnReceiveClientData
<1>2. /\ used \in [Clients -> SUBSET Nodes]
      /\ toServer \subseteq Nodes \X Clients
  BY DEF PathInv
<1>3. /\ used' \in [Clients -> SUBSET Nodes]
      /\ n \in used'[c]
      /\ \A d \in Clients : used[d] \subseteq used'[d]
  BY <1>1, <1>2
<1>4. TableInv'
  BY <1>1, NextKeepsTableInv DEF PathInv
<1>5. /\ IsFiniteSet(toServer') /\ IsFiniteSet(fromServer')
      /\ InFlight' <= MaxInFlight
  BY <1>1, OneMoreInFlight DEF InFlight, PathInv
<1>6. via' = via /\ toServer' \subseteq Nodes \X Clients
  BY <1>1, <1>2 DEF vars, history
<1>7. HeardThroughUsed'
  BY <1>3, <1>6 DEF PathInv, HeardThroughUsed
<1>8. SentIsUsed'
  <2> SUFFICES ASSUME NEW d \in toServer' PROVE d[1] \in used'[d[2]]
    BY DEF SentIsUsed
  <2>1. CASE d = <<n, c>>
    BY <1>3, <2>1
  <2>2. CASE d \in toServer
    BY <1>2, <1>3, <2>2 DEF PathInv, SentIsUsed
  <2> QED BY <1>1, <2>1, <2>2
<1>9. AnswersAreDue'
  <2> SUFFICES ASSUME NEW m \in fromServer'
               PROVE  \/ /\ m.op = "wrapped"
                         /\ m.real \in Clients
                         /\ via'[m.real] # None
                         /\ m.peer \in Nodes
                         /\ m.peer \in used'[m.real]
                      \/ /\ m.op = "direct"
                         /\ m.peer \in Clients
                         /\ via'[m.peer] # None
                         /\ m.peer \in exposed'
    BY DEF AnswersAreDue
  <2>1. m \in fromServer
    BY <1>1
  <2> QED BY <1>1, <1>3, <1>6, <2>1 DEF PathInv, AnswersAreDue
<1>10. PathInv'
  BY <1>1, <1>3, <1>4, <1>5, <1>6, <1>7, <1>8, <1>9
     DEF PathInv, AnswersComeFromUsedNodes
<1>11. R!Speaks(c, n)
  BY <1>1, <1>6 DEF R!Speaks
<1> QED BY <1>10, <1>11

\* recvfrom hands a datagram to the engine, at once or when it comes again.
LEMMA ServerRecvfromStep ==
    ASSUME PathInv, NEW n \in Nodes, NEW c \in Clients, ServerRecvfrom(n, c)
    PROVE  PathInv' /\ R!Hears(c)
<1>1. /\ <<n, c>> \in toServer
      /\ RecvNewPeer(n, c) \/ RecvKnownPeer(n, c) \/ RecvSwitchedPeer(n, c)
      /\ toServer' \subseteq toServer
      /\ answered' = None
      /\ UNCHANGED <<fromServer, used, exposed>>
  BY DEF ServerRecvfrom
<1>2. TableInv'
  BY <1>1, NextKeepsTableInv DEF PathInv, Next
<1>3. c # Self /\ c \in Address
  BY AddressesAssumption DEF Address
<1>4. via' = [via EXCEPT ![c] = n]
  BY <1>1, <1>3 DEF RecvNewPeer, RecvKnownPeer, RecvSwitchedPeer, HandOver, RealAddress
<1>5. /\ via \in [Address -> Nodes \cup {None}] /\ Clients \subseteq Address
  BY HookTypes DEF PathInv
<1>6. /\ via'[c] = n /\ n # None
      /\ \A d \in Clients : d # c => via'[d] = via[d]
      /\ n \in used[c]
  <2>1. n # None
    BY AddressesAssumption DEF Address
  <2> QED BY <1>1, <1>4, <1>5, <2>1 DEF PathInv, SentIsUsed
<1>7. /\ IsFiniteSet(toServer') /\ IsFiniteSet(fromServer')
      /\ InFlight' <= MaxInFlight
  BY <1>1, NoMoreInFlight DEF InFlight
<1>8. HeardThroughUsed'
  BY <1>1, <1>6 DEF PathInv, HeardThroughUsed
<1>9. SentIsUsed'
  BY <1>1 DEF PathInv, SentIsUsed
<1>10. AnswersAreDue'
  BY <1>1, <1>6 DEF PathInv, AnswersAreDue
<1>11. PathInv'
  BY <1>1, <1>2, <1>7, <1>8, <1>9, <1>10 DEF PathInv, AnswersComeFromUsedNodes
<1>12. {d \in Clients : via'[d] # None} = {d \in Clients : via[d] # None} \cup {c}
  BY <1>6
<1>13. R!Hears(c)
  BY <1>1, <1>6, <1>12 DEF R!Hears
<1> QED BY <1>11, <1>13

\* The engine answers a player: through the node in its entry, or by itself.
LEMMA ServerSendtoStep ==
    ASSUME PathInv, NEW c \in Clients, ServerSendto(c)
    PROVE  PathInv' /\ (R!Exposes(c) \/ R!Idles)
<1>1. /\ via[c] # None
      /\ InFlight < MaxInFlight
      /\ Sendto(c)
      /\ fromServer' = fromServer \cup {io'}
      /\ exposed' = IF io'.op = "direct" THEN exposed \cup {c} ELSE exposed
      /\ answered' = None
      /\ UNCHANGED <<toServer, used>>
  BY DEF ServerSendto
<1>2. c \in Address
  BY DEF Address
<1>3. TableInv'
  BY <1>1, <1>2, NextKeepsTableInv DEF PathInv, Next
<1>4. via' = via
  BY <1>1 DEF Sendto, history
<1>5. \/ io' = Direct(c)
      \/ \E e \in Connections : e.real = c /\ io' = Wrapped(e.proxy, IF e.is_real THEN Self ELSE c)
  BY <1>1 DEF Sendto, GetConnection
<1>6. \/ /\ io'.op = "direct" /\ io'.peer = c
      \/ /\ io'.op = "wrapped" /\ io'.real = c
         /\ io'.peer \in Nodes /\ io'.peer \in used[c]
  <2>1. CASE io' = Direct(c)
    BY <2>1 DEF Direct
  <2>2. ASSUME NEW e \in Connections, e.real = c,
               io' = Wrapped(e.proxy, IF e.is_real THEN Self ELSE c)
        PROVE  /\ io'.op = "wrapped" /\ io'.real = c
               /\ io'.peer \in Nodes /\ io'.peer \in used[c]
    <3>1. e.proxy = via[c] /\ e.proxy \in Nodes /\ (e.is_real <=> c \in Nodes)
      BY <2>2, HookTypes DEF PathInv
    <3>2. ~e.is_real
      BY <3>1, AddressesAssumption
    <3>3. e.proxy \in used[c]
      BY <1>1, <3>1 DEF PathInv, HeardThroughUsed
    <3> QED BY <2>2, <3>1, <3>2, <3>3 DEF Wrapped
  <2> QED BY <1>5, <2>1, <2>2
<1>7. /\ IsFiniteSet(toServer') /\ IsFiniteSet(fromServer')
      /\ InFlight' <= MaxInFlight
  BY <1>1, OneMoreInFlight DEF InFlight, PathInv
<1>8. HeardThroughUsed' /\ SentIsUsed'
  BY <1>1, <1>4 DEF PathInv, HeardThroughUsed, SentIsUsed
<1>9. exposed' \subseteq Clients /\ exposed \subseteq exposed'
  BY <1>1 DEF PathInv
<1>10. AnswersAreDue'
  <2> SUFFICES ASSUME NEW m \in fromServer'
               PROVE  \/ /\ m.op = "wrapped"
                         /\ m.real \in Clients
                         /\ via'[m.real] # None
                         /\ m.peer \in Nodes
                         /\ m.peer \in used'[m.real]
                      \/ /\ m.op = "direct"
                         /\ m.peer \in Clients
                         /\ via'[m.peer] # None
                         /\ m.peer \in exposed'
    BY DEF AnswersAreDue
  <2>1. CASE m \in fromServer
    BY <1>1, <1>4, <1>9, <2>1 DEF PathInv, AnswersAreDue
  <2>2. CASE m = io'
    BY <1>1, <1>4, <1>6, <2>2
  <2> QED BY <1>1, <2>1, <2>2
<1>11. PathInv'
  BY <1>1, <1>3, <1>7, <1>8, <1>9, <1>10 DEF PathInv, AnswersComeFromUsedNodes
<1>12. CASE io'.op = "direct"
  <2>1. R!Exposes(c)
    BY <1>1, <1>4, <1>12 DEF R!Exposes
  <2> QED BY <1>11, <2>1
<1>13. CASE io'.op # "direct"
  <2>1. R!Idles
    BY <1>1, <1>4, <1>13 DEF R!Idles
  <2> QED BY <1>11, <2>1
<1> QED BY <1>12, <1>13

\* A node hands an answer to the player its header names.
LEMMA SourceDataStep ==
    ASSUME PathInv, NEW m \in fromServer, ProxyOnReceiveSourceServerData(m)
    PROVE  PathInv' /\ R!Answers(m.real, m.peer) /\ m.real \in Clients /\ m.peer \in Nodes
<1>1. /\ m.op = "wrapped"
      /\ answered' = <<m.real, m.peer>>
      /\ fromServer' \subseteq fromServer
      /\ UNCHANGED <<vars, toServer, used, exposed>>
  BY DEF ProxyOnReceiveSourceServerData
<1>2. /\ m.real \in Clients /\ via[m.real] # None
      /\ m.peer \in Nodes /\ m.peer \in used[m.real]
  BY <1>1 DEF PathInv, AnswersAreDue
<1>3. TableInv' /\ via' = via
  BY <1>1, NextKeepsTableInv DEF PathInv, vars, history
<1>4. PathInv'
  BY <1>1, <1>2, <1>3, QuietStep DEF AnswersComeFromUsedNodes
<1>5. R!Answers(m.real, m.peer)
  BY <1>1, <1>2, <1>3 DEF R!Answers
<1> QED BY <1>2, <1>4, <1>5

\* A player gets an answer the hook did not wrap.
LEMMA DirectStep ==
    ASSUME PathInv, NEW m \in fromServer, DirectArrives(m)
    PROVE  PathInv' /\ R!Answers(m.peer, Server) /\ m.peer \in Clients
<1>1. /\ m.op = "direct"
      /\ answered' = <<m.peer, Server>>
      /\ fromServer' \subseteq fromServer
      /\ UNCHANGED <<vars, toServer, used, exposed>>
  BY DEF DirectArrives
<1>2. m.peer \in Clients /\ via[m.peer] # None /\ m.peer \in exposed
  BY <1>1 DEF PathInv, AnswersAreDue
<1>3. TableInv' /\ via' = via
  BY <1>1, NextKeepsTableInv DEF PathInv, vars, history
<1>4. PathInv'
  BY <1>1, <1>2, <1>3, QuietStep DEF AnswersComeFromUsedNodes
<1>5. R!Answers(m.peer, Server)
  BY <1>1, <1>2, <1>3 DEF R!Answers
<1> QED BY <1>2, <1>4, <1>5

\* The network, strangers and the clock do nothing Relay speaks of.
LEMMA IdleStep ==
    ASSUME PathInv, NetworkLoses \/ Elsewhere
    PROVE  PathInv' /\ R!Idles
<1>1. /\ toServer' \subseteq toServer /\ fromServer' \subseteq fromServer
      /\ answered' = None /\ via' = via
      /\ UNCHANGED <<used, exposed>>
      /\ [Next]_vars
  <2>1. CASE NetworkLoses
    BY <2>1 DEF NetworkLoses, vars, history
  <2>2. CASE Elsewhere
    BY <2>2 DEF Elsewhere, network, Tick, RecvOutOfBand, Next
  <2> QED BY <2>1, <2>2
<1>2. TableInv'
  BY <1>1, NextKeepsTableInv DEF PathInv
<1>3. PathInv'
  BY <1>1, <1>2, QuietStep DEF AnswersComeFromUsedNodes
<1>4. R!Idles
  BY <1>1 DEF R!Idles
<1> QED BY <1>3, <1>4

\* Every step keeps the invariant and is a step of Relay, or of nobody there.
LEMMA NextPathInv ==
    PathInv /\ [PathNext]_pathVars => PathInv' /\ [R!Next]_(R!vars)
<1> SUFFICES ASSUME PathInv, [PathNext]_pathVars
             PROVE  PathInv' /\ [R!Next]_(R!vars)
  OBVIOUS
<1>1. ASSUME NEW n \in Nodes, NEW c \in Clients,
             ProxyOnReceiveClientData(n, c) \/ ServerRecvfrom(n, c)
      PROVE  PathInv' /\ R!Next
  BY <1>1, ClientDataStep, ServerRecvfromStep DEF R!Next
<1>2. ASSUME NEW c \in Clients, ServerSendto(c)
      PROVE  PathInv' /\ R!Next
  BY <1>2, ServerSendtoStep DEF R!Next
<1>3. ASSUME NEW m \in fromServer,
             ProxyOnReceiveSourceServerData(m) \/ DirectArrives(m)
      PROVE  PathInv' /\ R!Next
  BY <1>3, SourceDataStep, DirectStep DEF R!Next
<1>4. ASSUME NetworkLoses \/ Elsewhere
      PROVE  PathInv' /\ R!Next
  BY <1>4, IdleStep DEF R!Next
<1>5. ASSUME UNCHANGED pathVars
      PROVE  PathInv' /\ UNCHANGED R!vars
  <2>1. UNCHANGED <<vars, via, toServer, fromServer, used, exposed, answered>>
    BY <1>5 DEF pathVars, network, vars, history
  <2>2. TableInv'
    BY <2>1, NextKeepsTableInv DEF PathInv
  <2>3. AnswersComeFromUsedNodes'
    BY <2>1 DEF PathInv, AnswersComeFromUsedNodes
  <2>4. PathInv'
    BY <2>1, <2>2, <2>3, QuietStep DEF PathInv
  <2>5. UNCHANGED R!vars
    BY <2>1 DEF R!vars
  <2> QED BY <2>4, <2>5
<1> QED BY <1>1, <1>2, <1>3, <1>4, <1>5 DEF PathNext

-----------------------------------------------------------------------------
\* The inductive invariant of players, nodes, network and hook holds in every
\* reachable state.
THEOREM PathInvariant == PathSpec => []PathInv
<1>1. PathInit => PathInv
  BY InitPathInv
<1>2. PathInv /\ [PathNext]_pathVars => PathInv'
  BY NextPathInv
<1> QED BY <1>1, <1>2, PTL DEF PathSpec

\* Types are kept and the network holds no more than its bound.
THEOREM PathTypes == PathSpec => []PathTypeOK
<1>1. PathInv => PathTypeOK
  BY DEF PathInv, PathTypeOK, TableInv, AnswersAreDue
<1> QED BY <1>1, PathInvariant, PTL

\* AnswersComeFromUsedNodes, however many datagrams are lost, late or doubled.
THEOREM AnswersUseUsedNodes == PathSpec => []AnswersComeFromUsedNodes
<1>1. PathInv => AnswersComeFromUsedNodes
  BY DEF PathInv
<1> QED BY <1>1, PathInvariant, PTL

\* A route a late datagram has turned back still is a route to the player.
THEOREM RoutesLeadToPlayers == PathSpec => []RoutesAreUsed
<1>1. PathInv => RoutesAreUsed
  <2> SUFFICES ASSUME PathInv, NEW c \in Connections, c.real \in Clients
               PROVE  c.proxy \in used[c.real]
    BY DEF RoutesAreUsed
  <2>1. c.proxy = via[c.real] /\ c.proxy \in Nodes
    BY HookTypes DEF PathInv
  <2>2. c.proxy # None
    BY <2>1, AddressesAssumption DEF Address
  <2> QED BY <2>1, <2>2 DEF PathInv, HeardThroughUsed
<1> QED BY <1>1, PathInvariant, PTL

\* The nodes and the hook implement Relay, for any numbers of players, nodes and
\* datagrams.
THEOREM PathImplementsRelay == PathSpec => ImplementsRelay
<1>1. PathInit => R!Init
  BY InitPathInv
<1>2. PathInv /\ [PathNext]_pathVars => [R!Next]_(R!vars)
  BY NextPathInv
<1> QED BY <1>1, <1>2, PathInvariant, PTL DEF PathSpec, ImplementsRelay, R!Spec
=============================================================================
