--------------------------- MODULE LauncherProofs ---------------------------
(***************************************************************************)
(* Proofs about the launcher, for any number of published versions, any    *)
(* settings and any frequency of its checks: what the loop over the        *)
(* settings makes of them, that the version on disk has its worker unless  *)
(* a restart of the machine, a failed write or a removal of the node came  *)
(* between, and that no worker is left behind.                             *)
(***************************************************************************)
EXTENDS Launcher, FiniteSetTheorems, WellFoundedInduction, TLAPS

-----------------------------------------------------------------------------
(* Induction, for sets of numbers.                                         *)

Less == {ss \in Nat \X Nat : ss[1] < ss[2]}

LEMMA LessIsWellFounded == IsWellFoundedOn(Less, Nat)
BY NatLessThanWellFounded, Zenon DEF OpToRel, Less

\* A set that holds 0 and the successor of each of its members below n holds
\* every number up to n: its complement has no least member.
LEMMA HoldsUpTo ==
    ASSUME NEW n \in Nat, NEW S, 0 \in S,
           \A k \in 0..(n - 1) : k \in S => k + 1 \in S
    PROVE  0..n \subseteq S
<1> SUFFICES ASSUME 0..n \ S # {} PROVE FALSE
  OBVIOUS
<1> DEFINE T == 0..n \ S
<1>1. T \subseteq Nat /\ T # {}
  OBVIOUS
<1>2. PICK m \in T : \A k \in T : <<k, m>> \notin Less
  <2> HIDE DEF T
  <2> QED BY <1>1, LessIsWellFounded, WFMin
<1>3. m \in 1..n /\ m - 1 \in 0..(n - 1)
  OBVIOUS
<1>4. <<m - 1, m>> \in Less
  <2>1. m - 1 \in Nat /\ m \in Nat /\ m - 1 < m
    BY <1>3
  <2>2. <<m - 1, m>> \in Nat \X Nat
    BY <2>1
  <2> QED BY <2>1, <2>2 DEF Less
<1>5. m - 1 \notin T
  <2> HIDE DEF T
  <2> QED BY <1>2, <1>4
<1> QED BY <1>3, <1>5

-----------------------------------------------------------------------------
(* The vector of servers, and the loop that fills it.                      *)

Vectors == UNION {[0..(n - 1) -> serverdata \cup {Null}] : n \in Nat}

ParsedData == [servers: Vectors, thrown: BOOLEAN]

LEMMA SizeIs ==
    ASSUME NEW n \in Nat, NEW v, DOMAIN v = 0..(n - 1)
    PROVE  Size(v) = n
<1>1. Cardinality(0..(n - 1)) = IF 0 > n - 1 THEN 0 ELSE n - 1 - 0 + 1
  BY FS_Interval
<1> QED BY <1>1 DEF Size

\* A vector's entries are numbered from 0.
LEMMA VectorFacts ==
    ASSUME NEW v \in Vectors
    PROVE  /\ Size(v) \in Nat
           /\ v \in [0..(Size(v) - 1) -> serverdata \cup {Null}]
<1>1. PICK n \in Nat : v \in [0..(n - 1) -> serverdata \cup {Null}]
  BY DEF Vectors
<1>2. Size(v) = n
  BY <1>1, SizeIs
<1> QED BY <1>1, <1>2

LEMMA VectorIs ==
    ASSUME NEW n \in Nat, NEW v \in [0..(n - 1) -> serverdata \cup {Null}]
    PROVE  v \in Vectors
BY DEF Vectors

LEMMA NoServersIsVector == NoServers \in Vectors /\ DOMAIN NoServers = {}
<1>1. NoServers \in [0..(0 - 1) -> serverdata \cup {Null}]
  BY DEF NoServers
<1>2. DOMAIN NoServers = {}
  BY DEF NoServers
<1> QED BY <1>1, <1>2, VectorIs

LEMMA ServerKeys ==
    /\ Null \notin serverdata
    /\ NewServer \in serverdata
    /\ \A s \in serverdata, k \in SUBSET Keys :
          /\ [s EXCEPT !.keys = s.keys \cup k] \in serverdata
          /\ [s EXCEPT !.keys = s.keys \cup k].keys = s.keys \cup k
    /\ Null.keys = {} /\ NewServer.keys = {}
<1>1. 0 \in Binary
  BY WebsiteAssumption DEF Binary
<1> QED BY <1>1 DEF Null, NewServer, serverdata

\* One setting makes the vector as long as its server's number asks for, and
\* adds its key to that server's, unless at() throws.
LEMMA ParseOne ==
    ASSUME NEW p \in ParsedData, NEW row \in Settings
    PROVE  LET q == ParseServerSetting(row, p)
               n == Size(p.servers)
               id == row.serverid
           IN /\ q \in ParsedData
              /\ p.thrown \/ id = n => q.thrown
              /\ ~p.thrown /\ id # n =>
                   /\ ~q.thrown
                   /\ DOMAIN q.servers = 0..(IF id < n THEN n - 1 ELSE id)
                   /\ \A i \in DOMAIN q.servers :
                         q.servers[i].keys =
                            (IF i < n THEN p.servers[i].keys ELSE {})
                            \cup (IF i = id THEN {row.key} \ {"deactivated"}
                                            ELSE {})
<1> DEFINE n == Size(p.servers)
           id == row.serverid
           last == IF id < n THEN n - 1 ELSE id
           grown == [i \in 0..last |-> IF i < n THEN p.servers[i] ELSE Null]
           serv == IF grown[id] = Null THEN NewServer ELSE grown[id]
           keys == IF row.key = "deactivated" THEN {} ELSE {row.key}
           changed == [serv EXCEPT !.keys = serv.keys \cup keys]
           q == ParseServerSetting(row, p)
<1>1. /\ n \in Nat /\ id \in Nat \ {0} /\ row.key \in Keys
      /\ p.servers \in [0..(n - 1) -> serverdata \cup {Null}]
      /\ p.thrown \in BOOLEAN
  BY VectorFacts DEF ParsedData, Settings
<1>2. CASE p.thrown \/ id = n
  <2>1. q = [p EXCEPT !.thrown = TRUE]
    BY <1>2 DEF ParseServerSetting
  <2>2. q \in ParsedData /\ q.thrown
    BY <2>1 DEF ParsedData
  <2> QED BY <1>2, <2>2
<1>3. CASE ~(p.thrown \/ id = n)
  <2>1. q = [p EXCEPT !.servers = [grown EXCEPT ![id] = changed]]
    BY <1>3, Zenon DEF ParseServerSetting
  <2>2. last + 1 \in Nat /\ id \in 0..last /\ last = (last + 1) - 1
    BY <1>1
  <2> HIDE DEF last
  <2>3. grown \in [0..last -> serverdata \cup {Null}]
    BY <1>1, <2>2
  <2>4. serv \in serverdata
    BY <2>2, <2>3, ServerKeys
  <2>5. keys \in SUBSET Keys /\ keys = {row.key} \ {"deactivated"}
    BY <1>1
  <2> HIDE DEF serv, keys
  <2>6. changed \in serverdata /\ changed.keys = serv.keys \cup keys
    BY <2>4, <2>5, ServerKeys
  <2>7. serv.keys = IF id < n THEN p.servers[id].keys ELSE {}
    <3>1. grown[id] = IF id < n THEN p.servers[id] ELSE Null
      BY <2>2
    <3>2. Null.keys = {} /\ NewServer.keys = {}
      BY ServerKeys
    <3> HIDE DEF grown
    <3>3. CASE grown[id] = Null
      <4>1. serv = NewServer
        BY <3>3 DEF serv
      <4> QED BY <3>1, <3>2, <3>3, <4>1
    <3>4. CASE grown[id] # Null
      <4>1. serv = grown[id]
        BY <3>4 DEF serv
      <4> QED BY <3>1, <3>4, <4>1
    <3> QED BY <3>3, <3>4
  <2> DEFINE v == [grown EXCEPT ![id] = changed]
  <2>8. v \in [0..((last + 1) - 1) -> serverdata \cup {Null}]
    BY <2>2, <2>3, <2>6
  <2>9. v \in Vectors
    BY <2>2, <2>8, VectorIs
  <2>10. ASSUME NEW i \in 0..last
         PROVE  v[i].keys = (IF i < n THEN p.servers[i].keys ELSE {})
                            \cup (IF i = id THEN keys ELSE {})
    <3>1. CASE i = id
      BY <3>1, <2>3, <2>6, <2>7
    <3>2. CASE i # id
      <4>1. v[i] = grown[i]
        BY <3>2, <2>3
      <4> QED BY <3>2, <4>1, ServerKeys
    <3> QED BY <3>1, <3>2
  <2> HIDE DEF v
  <2>11. q.servers = v /\ q.thrown = p.thrown /\ q \in ParsedData
    BY <2>1, <2>9, <1>1 DEF ParsedData, v
  <2>12. DOMAIN v = 0..last
    BY <2>2, <2>8
  <2> QED BY <1>3, <2>5, <2>10, <2>11, <2>12 DEF last
<1> HIDE DEF q
<1> QED BY <1>2, <1>3 DEF q

\* The loop of ParseServerSettings as a sequence of results.
Loop(rows, f) ==
    /\ f[0] = NothingParsed
    /\ \A i \in 1..Len(rows) :
          f[i] = ParseServerSetting(rows[Len(rows) - i + 1], f[i - 1])

\* The recursive function exists: what it is up to k can be continued.
LEMMA LoopIs ==
    ASSUME NEW rows \in Seq(Settings)
    PROVE  \E f : Loop(rows, f) /\ ParseServerSettings(rows) = f[Len(rows)]
<1> DEFINE n == Len(rows)
           One(i, p) == ParseServerSetting(rows[n - i + 1], p)
           IsLoop(k, f) ==
              f = [i \in 0..k |->
                      IF i = 0 THEN NothingParsed ELSE One(i, f[i - 1])]
           S == {k \in 0..n : \E f : IsLoop(k, f)}
<1>1. n \in Nat
  OBVIOUS
<1> HIDE DEF n, One
<1>2. 0 \in S
  <2>1. IsLoop(0, [i \in 0..0 |-> NothingParsed])
    OBVIOUS
  <2> HIDE DEF IsLoop
  <2>2. 0 \in 0..n
    BY <1>1
  <2> QED BY <2>1, <2>2
<1>3. ASSUME NEW k \in 0..(n - 1), k \in S PROVE k + 1 \in S
  <2>1. PICK f : IsLoop(k, f)
    BY <1>3
  <2> DEFINE g == [i \in 0..(k + 1) |->
                      IF i = k + 1 THEN One(k + 1, f[k]) ELSE f[i]]
  <2>2. ASSUME NEW i \in 0..(k + 1)
        PROVE  g[i] = IF i = 0 THEN NothingParsed ELSE One(i, g[i - 1])
    <3>1. CASE i = k + 1
      BY <3>1, <1>1
    <3>2. CASE i # k + 1
      <4>1. i \in 0..k /\ (i # 0 => i - 1 \in 0..k /\ i - 1 # k + 1)
        BY <3>2, <1>1
      <4>2. f[i] = IF i = 0 THEN NothingParsed ELSE One(i, f[i - 1])
        BY <2>1, <4>1
      <4> QED BY <3>2, <4>1, <4>2
    <3> QED BY <3>1, <3>2
  <2>3. IsLoop(k + 1, g)
    BY <2>2
  <2>4. k + 1 \in 0..n
    BY <1>1
  <2> HIDE DEF IsLoop, g
  <2> QED BY <2>3, <2>4
<1>4. n \in S
  <2> HIDE DEF S
  <2>1. 0..n \subseteq S
    BY <1>1, <1>2, <1>3, HoldsUpTo
  <2> QED BY <1>1, <2>1
<1>5. \E f : IsLoop(n, f)
  BY <1>4
<1> DEFINE f == CHOOSE f : IsLoop(n, f)
<1>6. IsLoop(n, f)
  <2> HIDE DEF IsLoop
  <2> QED BY <1>5
<1>7. ParseServerSettings(rows) = f[n]
  BY Zenon DEF ParseServerSettings, n, One
<1> HIDE DEF f
<1>8. Loop(rows, f)
  <2>1. f[0] = NothingParsed
    BY <1>1, <1>6
  <2>2. \A i \in 1..n : f[i] = One(i, f[i - 1])
    BY <1>1, <1>6
  <2> QED BY <2>1, <2>2 DEF Loop, n, One
<1> QED BY <1>7, <1>8 DEF n

LEMMA NothingIsParsed ==
    /\ NothingParsed \in ParsedData
    /\ DOMAIN NothingParsed.servers = {}
    /\ ~NothingParsed.thrown
    /\ Size(NothingParsed.servers) = 0
<1>1. Size(NoServers) = 0
  BY NoServersIsVector, FS_EmptySet DEF Size
<1> QED BY <1>1, NoServersIsVector DEF NothingParsed, ParsedData

\* Whatever the settings, a vector comes out.
LEMMA ParseTyped ==
    ASSUME NEW rows \in Seq(Settings)
    PROVE  ParseServerSettings(rows) \in ParsedData
<1> DEFINE n == Len(rows)
<1>1. n \in Nat
  OBVIOUS
<1>2. PICK f : Loop(rows, f) /\ ParseServerSettings(rows) = f[n]
  BY LoopIs
<1> DEFINE S == {k \in 0..n : f[k] \in ParsedData}
<1>3. 0 \in S
  BY <1>1, <1>2, NothingIsParsed DEF Loop
<1>4. ASSUME NEW k \in 0..(n - 1), k \in S PROVE k + 1 \in S
  <2>1. /\ k + 1 \in 1..n /\ (k + 1) - 1 = k
        /\ n - (k + 1) + 1 \in 1..n
    BY <1>1
  <2>2. f[k + 1] = ParseServerSetting(rows[n - (k + 1) + 1], f[k])
    BY <1>2, <2>1 DEF Loop
  <2>3. rows[n - (k + 1) + 1] \in Settings
    BY <2>1
  <2>4. f[k + 1] \in ParsedData
    BY <1>4, <2>2, <2>3, ParseOne
  <2> QED BY <1>1, <2>1, <2>4
<1>5. n \in S
  <2> HIDE DEF S
  <2>1. 0..n \subseteq S
    BY <1>1, <1>3, <1>4, HoldsUpTo
  <2> QED BY <1>1, <2>1
<1> QED BY <1>2, <1>5

\* The settings are in the order of their servers.
InOrder(rows) ==
    \A i, j \in DOMAIN rows : i < j => rows[i].serverid <= rows[j].serverid

\* What the last k of them amount to: the vector reaches up to the last
\* server, and each entry has the keys of its server's settings.
Describes(p, rows, k) ==
    /\ p \in ParsedData
    /\ ~p.thrown
    /\ k = 0 => Size(p.servers) = 0
    /\ k > 0 => Size(p.servers) = rows[Len(rows)].serverid + 1
    /\ \A id \in DOMAIN p.servers : \A key \in Keys :
          key \in p.servers[id].keys <=>
             /\ key # "deactivated"
             /\ \E j \in (Len(rows) - k + 1)..Len(rows) :
                   rows[j].serverid = id /\ rows[j].key = key

\* A setting before them belongs to none of the servers beyond the last one,
\* so at() never throws.
LEMMA DescribesOneMore ==
    ASSUME NEW rows \in Seq(Settings), InOrder(rows),
           NEW k \in 0..(Len(rows) - 1), NEW p, Describes(p, rows, k)
    PROVE  Describes(ParseServerSetting(rows[Len(rows) - k], p), rows, k + 1)
<1> DEFINE n == Len(rows)
           row == rows[n - k]
           id == row.serverid
           size == Size(p.servers)
           q == ParseServerSetting(row, p)
<1>1. /\ n \in Nat /\ k \in Nat /\ k + 1 > 0
      /\ n - k \in 1..n /\ n \in 1..n /\ n - (k + 1) + 1 = n - k
  OBVIOUS
<1>2. /\ row \in Settings /\ id \in Nat \ {0} /\ row.key \in Keys
      /\ rows[n].serverid \in Nat
      /\ id <= rows[n].serverid
  <2>1. row \in Settings /\ rows[n] \in Settings
    BY <1>1
  <2>2. id \in Nat \ {0} /\ row.key \in Keys /\ rows[n].serverid \in Nat
    BY <2>1 DEF Settings
  <2>3. k # 0 => id <= rows[n].serverid
    <3>1. n - k \in DOMAIN rows /\ n \in DOMAIN rows
      BY <1>1
    <3>2. k # 0 => n - k < n
      BY <1>1
    <3> HIDE DEF n
    <3> QED BY <3>1, <3>2 DEF InOrder
  <2>4. k = 0 => row = rows[n]
    BY <1>1
  <2> QED BY <2>1, <2>2, <2>3, <2>4
<1>3. /\ p \in ParsedData /\ ~p.thrown
      /\ size \in Nat
      /\ DOMAIN p.servers = 0..(size - 1)
  BY VectorFacts DEF Describes, ParsedData
<1>4. id # size
  BY <1>2, <1>3 DEF Describes
<1>5. /\ q \in ParsedData /\ ~q.thrown
      /\ DOMAIN q.servers = 0..(IF id < size THEN size - 1 ELSE id)
      /\ \A i \in DOMAIN q.servers :
            q.servers[i].keys =
               (IF i < size THEN p.servers[i].keys ELSE {})
               \cup (IF i = id THEN {row.key} \ {"deactivated"} ELSE {})
  BY <1>2, <1>3, <1>4, ParseOne
<1> HIDE DEF q
<1>6. (IF id < size THEN size - 1 ELSE id) = rows[n].serverid
  BY <1>1, <1>2, <1>3, <1>4 DEF Describes
<1>7. Size(q.servers) = rows[n].serverid + 1
  <2>1. DOMAIN q.servers = 0..((rows[n].serverid + 1) - 1)
    BY <1>2, <1>5, <1>6
  <2> QED BY <1>2, <2>1, SizeIs
<1>8. ASSUME NEW i \in DOMAIN q.servers, NEW key \in Keys
      PROVE  key \in q.servers[i].keys <=>
                /\ key # "deactivated"
                /\ \E j \in (n - (k + 1) + 1)..n :
                      rows[j].serverid = i /\ rows[j].key = key
  <2> DEFINE Said(j) == rows[j].serverid = i /\ rows[j].key = key
  <2>1. i \in Nat /\ i <= rows[n].serverid
    BY <1>2, <1>5, <1>6
  <2>2. i < size =>
           (key \in p.servers[i].keys <=>
               key # "deactivated" /\ \E j \in (n - k + 1)..n : Said(j))
    BY <2>1, <1>3 DEF Describes
  <2>3. ~(i < size) => ~(\E j \in (n - k + 1)..n : Said(j))
    <3>1. ~(i < size) => k = 0
      BY <2>1, <1>2, <1>3 DEF Describes
    <3> QED BY <3>1, <1>1
  <2>4. (\E j \in (n - (k + 1) + 1)..n : Said(j))
           <=> Said(n - k) \/ \E j \in (n - k + 1)..n : Said(j)
    <3> HIDE DEF Said, n
    <3>1. \A j \in Int : j \in (n - (k + 1) + 1)..n
                            <=> j = n - k \/ j \in (n - k + 1)..n
      BY <1>1
    <3> QED BY <1>1, <3>1
  <2>5. key \in q.servers[i].keys <=>
           \/ i < size /\ key \in p.servers[i].keys
           \/ i = id /\ key = row.key /\ key # "deactivated"
    BY <1>5
  <2> QED BY <2>2, <2>3, <2>4, <2>5
<1> QED BY <1>1, <1>5, <1>7, <1>8 DEF Describes, q

\* The loop in order, from the last setting to the first.
LEMMA ParseOrdered ==
    ASSUME NEW rows \in Seq(Settings), InOrder(rows)
    PROVE  Describes(ParseServerSettings(rows), rows, Len(rows))
<1> DEFINE n == Len(rows)
<1>1. n \in Nat
  OBVIOUS
<1>2. PICK f : Loop(rows, f) /\ ParseServerSettings(rows) = f[n]
  BY LoopIs
<1> DEFINE S == {k \in 0..n : Describes(f[k], rows, k)}
<1>3. 0 \in S
  <2>1. f[0] = NothingParsed
    BY <1>2 DEF Loop
  <2>2. Describes(f[0], rows, 0)
    BY <2>1, NothingIsParsed DEF Describes
  <2> QED BY <1>1, <2>2
<1>4. ASSUME NEW k \in 0..(n - 1), k \in S PROVE k + 1 \in S
  <2>1. k + 1 \in 1..n /\ (k + 1) - 1 = k /\ n - (k + 1) + 1 = n - k
    BY <1>1
  <2>2. f[k + 1] = ParseServerSetting(rows[n - k], f[k])
    BY <1>2, <2>1 DEF Loop
  <2>3. Describes(f[k + 1], rows, k + 1)
    BY <1>4, <2>2, DescribesOneMore
  <2> QED BY <1>1, <2>1, <2>3
<1>5. n \in S
  <2> HIDE DEF S
  <2>1. 0..n \subseteq S
    BY <1>1, <1>3, <1>4, HoldsUpTo
  <2> QED BY <1>1, <2>1
<1> QED BY <1>2, <1>5

-----------------------------------------------------------------------------
(* The inductive invariant.                                                *)

\* From the moment the servers were ended until new ones are there.
Updating ==
    {"DownloadUpdate", "WriteUpdate", "OpenVersion", "WriteVersion",
     "UpdateServers"}

\* No child of the launcher runs while an update or settings are fetched, so
\* none can be forgotten with the old servers, or keep the worker's file busy.
ServersEndFirst ==
    pc \in Updating => Nulls(Servers) = {} /\ Alive(Servers) = {}

RoundsStartWithFirst == pc # "CheckServerOnline" => slot = 0

\* A node the website has never known has never learnt of a version.
VersionsNeedRegistration ==
    ~registered /\ ~spoilt
        => latestversion = 0 /\ ourversion = 0 /\ versionfile = 0

VersionsArePublished ==
    /\ latestversion <= published
    /\ ourversion <= published
    /\ versionfile <= published
    /\ pc # "down" /\ ~spoilt => versionfile <= ourversion

\* Before an update is written the version on disk is older than what is
\* published; and the update is at least as new as the version saved after it.
\* The exceptions are those of UpToDateHasTheWorker.
UpdateIsNewer ==
    ~crashed /\ ~spoilt =>
        /\ pc = "WriteUpdate" =>
              /\ versionfile = 0 \/ versionfile < published
              /\ latestversion > 0 => webdata >= latestversion
        /\ pc = "OpenVersion" /\ latestversion > 0
              => workerfile >= latestversion
        /\ pc = "WriteVersion" /\ ourversion > 0
              => workerfile >= ourversion

LauncherInv ==
    /\ TypeOK
    /\ Servers \in Vectors
    /\ OrphansOnlyAfterCrash
    /\ ServersEndFirst
    /\ RoundsStartWithFirst
    /\ VersionsNeedRegistration
    /\ VersionsArePublished
    /\ UpdateIsNewer
    /\ UpToDateHasTheWorker

\* The versions' part of it, which only depends on these variables.
Versions ==
    /\ VersionsNeedRegistration
    /\ VersionsArePublished
    /\ UpdateIsNewer
    /\ UpToDateHasTheWorker

\* Ending servers without a null pointer ends them all.
LEMMA KillFacts ==
    ASSUME NEW v \in Vectors, Nulls(v) = {}
    PROVE  /\ KillRunningServers(v) \in Vectors
           /\ Size(KillRunningServers(v)) = Size(v)
           /\ Nulls(KillRunningServers(v)) = {}
           /\ Alive(KillRunningServers(v)) = {}
<1> DEFINE n == Size(v)
           ended == KillRunningServers(v)
<1>1. n \in Nat /\ v \in [0..(n - 1) -> serverdata \cup {Null}]
  BY VectorFacts
<1>2. \A i \in 0..(n - 1) : v[i] \in serverdata
  BY <1>1 DEF Nulls
<1>3. ended = [i \in 0..(n - 1) |-> [v[i] EXCEPT !.pid = "none"]]
  BY <1>1 DEF KillRunningServers
<1> HIDE DEF n, ended
<1>4. \A i \in 0..(n - 1) :
         ended[i] \in serverdata /\ ended[i].pid = "none"
  BY <1>2, <1>3 DEF serverdata
<1>5. ended \in Vectors
  BY <1>1, <1>3, <1>4, VectorIs
<1>6. DOMAIN ended = 0..(n - 1)
  BY <1>3
<1>7. Size(ended) = n
  BY <1>1, <1>6, SizeIs
<1>8. Nulls(ended) = {}
  BY <1>4, <1>6, ServerKeys DEF Nulls
<1>9. Alive(ended) = {}
  BY <1>4, <1>6 DEF Alive
<1> QED BY <1>5, <1>7, <1>8, <1>9 DEF n, ended

LEMMA InitLauncherInv == Init => LauncherInv
<1> SUFFICES ASSUME Init PROVE LauncherInv
  OBVIOUS
<1>1. /\ MaxVersion \in Nat
      /\ 0 \in 0..MaxVersion /\ 0 \in 0..WebCheckFrequency
  BY WebsiteAssumption
<1>2. /\ Servers \in Vectors /\ DOMAIN Servers = {} /\ Size(Servers) = 0
      /\ DOMAIN Servers = 0..(0 - 1)
  BY NoServersIsVector, FS_EmptySet DEF Init, Size
<1>3. TypeOK
  <2>1. /\ DOMAIN Servers = 0..(Size(Servers) - 1)
        /\ \A i \in DOMAIN Servers : Servers[i] \in serverdata \cup {Null}
    BY <1>2
  <2>2. webdata \in Binary /\ workerfile \in Binary /\ slot \in 0..Size(Servers)
    BY <1>1, <1>2 DEF Init, Binary
  <2> QED BY <1>1, <2>1, <2>2, Zenon DEF Init, TypeOK
<1>4. Versions
  BY DEF Init, Versions, VersionsNeedRegistration, VersionsArePublished,
         UpdateIsNewer, UpToDateHasTheWorker
<1> QED BY <1>2, <1>3, <1>4 DEF Init, LauncherInv, OrphansOnlyAfterCrash,
           ServersEndFirst, RoundsStartWithFirst, Updating, Versions

\* A vector has the type that TypeOK asks for.
LEMMA VectorTypes ==
    ASSUME NEW v \in Vectors
    PROVE  /\ DOMAIN v = 0..(Size(v) - 1)
           /\ \A i \in DOMAIN v : v[i] \in serverdata \cup {Null}
           /\ DOMAIN v \subseteq Nat
           /\ Size(v) \in Nat
BY VectorFacts

LEMMA NoServersFacts ==
    /\ NoServers \in Vectors
    /\ Size(NoServers) = 0
    /\ Nulls(NoServers) = {}
    /\ Alive(NoServers) = {}
BY NoServersIsVector, FS_EmptySet DEF Size, Nulls, Alive

-----------------------------------------------------------------------------
(* The launcher's steps.                                                   *)

LEMMA StartKeepsInv == ASSUME LauncherInv, Start PROVE LauncherInv'
<1>1. TypeOK'
  <2>1. webdata' \in Binary
    BY DEF Start, Binary
  <2> QED BY <2>1, NoServersFacts, VectorTypes, WebsiteAssumption
          DEF LauncherInv, TypeOK, Start, web, files, others,
              RoundsStartWithFirst
<1>2. Versions'
  BY WebsiteAssumption
     DEF LauncherInv, TypeOK, Start, web, files, others, Versions,
         VersionsNeedRegistration, VersionsArePublished, UpdateIsNewer,
         UpToDateHasTheWorker
<1> QED BY <1>1, <1>2, NoServersFacts
        DEF LauncherInv, Versions, Start, others, OrphansOnlyAfterCrash,
            ServersEndFirst, RoundsStartWithFirst, Updating

LEMMA RoundKeepsInv == ASSUME LauncherInv, Round PROVE LauncherInv'
<1>1. TypeOK'
  BY WebsiteAssumption
     DEF LauncherInv, TypeOK, Round, web, files, others, Size
<1>2. Versions'
  BY DEF LauncherInv, TypeOK, Round, web, files, others, Versions,
         VersionsNeedRegistration, VersionsArePublished, UpdateIsNewer,
         UpToDateHasTheWorker
<1> QED BY <1>1, <1>2
        DEF LauncherInv, Versions, Round, others, OrphansOnlyAfterCrash,
            ServersEndFirst, RoundsStartWithFirst, Updating

\* What the website answers about versions is 0 or published.
LEMMA NeedsUpdateKeepsInv ==
    ASSUME LauncherInv, NeedsUpdate PROVE LauncherInv'
<1>1. /\ published \in 0..MaxVersion /\ MaxVersion \in Nat
      /\ latestversion \in 0..MaxVersion /\ ourversion \in 0..MaxVersion
      /\ registered \in BOOLEAN /\ justloaded \in BOOLEAN
  BY WebsiteAssumption DEF LauncherInv, TypeOK
<1>2. /\ latestversion' \in 0..published
      /\ ~registered /\ ~spoilt => latestversion' = 0
      /\ pc' \in {"KillAndUpdate", "KillAndRestart", "CheckServerOnline"}
  <2>1. CASE (\E anything \in BOOLEAN : Continue(anything))
              /\ UNCHANGED latestversion
    BY <2>1, <1>1
       DEF Continue, LauncherInv, VersionsArePublished,
           VersionsNeedRegistration
  <2>2. ASSUME NEW reply \in FetchWebData(CheckVer(registered, published,
                                                   ourversion)),
               IF reply = UpToDate
               THEN Continue(FALSE) /\ UNCHANGED latestversion
               ELSE /\ latestversion' = Atoi(reply)
                    /\ Continue(~(ourversion > Atoi(reply)))
        PROVE  /\ latestversion' \in 0..published
               /\ ~registered /\ ~spoilt => latestversion' = 0
               /\ pc' \in {"KillAndUpdate", "KillAndRestart",
                           "CheckServerOnline"}
    <3>1. reply = IF ~registered THEN Message
                  ELSE IF published > ourversion THEN published ELSE UpToDate
      BY DEF FetchWebData, CheckVer, IsOutdated
    <3>2. /\ Atoi(reply) \in 0..published
          /\ ~registered => Atoi(reply) = 0
      BY <3>1, <1>1 DEF Atoi, Message, UpToDate
    <3>3. pc' \in {"KillAndUpdate", "KillAndRestart", "CheckServerOnline"}
      BY <2>2 DEF Continue
    <3>4. CASE reply = UpToDate
      BY <2>2, <3>3, <3>4, <1>1
         DEF LauncherInv, VersionsArePublished, VersionsNeedRegistration
    <3>5. CASE reply # UpToDate
      BY <2>2, <3>2, <3>3, <3>5
    <3> QED BY <3>4, <3>5
  <2> QED BY <2>1, <2>2 DEF NeedsUpdate
<1>3. /\ UNCHANGED <<web, files, ourversion, checkwebcounter, justloaded,
                     Servers, webdata, others>>
      /\ pc = "NeedsUpdate"
  BY DEF NeedsUpdate
<1>4. TypeOK'
  BY <1>1, <1>2, <1>3 DEF LauncherInv, TypeOK, web, files, others, Size
<1>5. Versions'
  BY <1>1, <1>2, <1>3
     DEF LauncherInv, TypeOK, web, files, others, Versions,
         VersionsNeedRegistration, VersionsArePublished, UpdateIsNewer,
         UpToDateHasTheWorker
<1>6. slot' = 0
  BY <1>3 DEF LauncherInv, RoundsStartWithFirst, others
<1> QED BY <1>2, <1>3, <1>4, <1>5, <1>6
        DEF LauncherInv, Versions, others, OrphansOnlyAfterCrash,
            ServersEndFirst, RoundsStartWithFirst, Updating

\* A launcher that dies forgets its servers; those that still run are orphans.
LEMMA DiesKeepsInv ==
    ASSUME LauncherInv, Dies(KillRunningServers(Servers)),
           UNCHANGED <<web, files, ourversion, latestversion, checkwebcounter,
                       justloaded>>,
           webdata' \in Binary
    PROVE  LauncherInv'
<1>1. Alive(KillRunningServers(Servers)) \subseteq Nat
  BY VectorTypes DEF LauncherInv, Alive, KillRunningServers
<1>2. /\ Servers' = NoServers /\ pc' = "down" /\ slot' = 0 /\ crashed' = TRUE
      /\ orphans' = orphans \cup Alive(KillRunningServers(Servers))
      /\ spoilt' = spoilt
  BY DEF Dies
<1>3. TypeOK'
  <2>1. orphans' \subseteq Nat
    <3>1. orphans \subseteq Nat
      BY DEF LauncherInv, TypeOK
    <3> QED BY <1>1, <1>2, <3>1
  <2>2. /\ DOMAIN Servers' = 0..(Size(Servers') - 1)
        /\ \A i \in DOMAIN Servers' : Servers'[i] \in serverdata \cup {Null}
        /\ slot' \in 0..Size(Servers')
    <3>1. slot' \in 0..Size(NoServers)
      BY <1>2, NoServersFacts
    <3> QED BY <1>2, <3>1, NoServersFacts, VectorTypes
  <2>3. pc' \in {"down"} /\ crashed' \in BOOLEAN
    BY <1>2
  <2> QED BY <1>2, <2>1, <2>2, <2>3 DEF LauncherInv, TypeOK, web, files
<1>4. Versions'
  BY <1>2
     DEF LauncherInv, web, files, Versions, VersionsNeedRegistration,
         VersionsArePublished, UpdateIsNewer, UpToDateHasTheWorker
<1> QED BY <1>2, <1>3, <1>4, NoServersFacts
        DEF LauncherInv, Versions, OrphansOnlyAfterCrash, ServersEndFirst,
            RoundsStartWithFirst, Updating

LEMMA KillServersKeepsInv ==
    ASSUME LauncherInv, KillServers PROVE LauncherInv'
<1>1. /\ pc \in {"KillAndUpdate", "KillAndRestart"}
      /\ UNCHANGED <<web, files, ourversion, latestversion, checkwebcounter,
                     justloaded, webdata>>
  BY DEF KillServers
<1>2. CASE Nulls(Servers) # {}
  <2>1. webdata' \in Binary
    BY <1>1 DEF LauncherInv, TypeOK
  <2> QED BY <1>1, <1>2, <2>1, DiesKeepsInv DEF KillServers
<1>3. CASE Nulls(Servers) = {}
  <2>1. /\ Servers' = KillRunningServers(Servers)
        /\ pc' \in {"DownloadUpdate", "UpdateServers"}
        /\ UNCHANGED others
    BY <1>3 DEF KillServers
  <2>2. /\ Servers' \in Vectors /\ Size(Servers') = Size(Servers)
        /\ Nulls(Servers') = {} /\ Alive(Servers') = {}
    BY <1>3, <2>1, KillFacts DEF LauncherInv
  <2>3. TypeOK'
    <3> HIDE DEF KillRunningServers
    <3> QED BY <1>1, <2>1, <2>2, VectorTypes
            DEF LauncherInv, TypeOK, web, files, others
  <2>4. Versions'
    BY <1>1, <2>1
       DEF LauncherInv, web, files, others, Versions, VersionsArePublished,
           VersionsNeedRegistration, UpdateIsNewer, UpToDateHasTheWorker
  <2> QED BY <1>1, <2>1, <2>2, <2>3, <2>4
          DEF LauncherInv, Versions, others, OrphansOnlyAfterCrash,
              ServersEndFirst, RoundsStartWithFirst
<1> QED BY <1>2, <1>3

\* The update, if any, is what is published, and newer than the launcher's.
LEMMA UpdateFacts ==
    ASSUME LauncherInv, NEW reply \in Update
    PROVE  /\ reply \in Binary
           /\ registered => reply = published /\ published > ourversion
<1>1. /\ published \in 0..MaxVersion /\ MaxVersion \in Nat
      /\ ourversion \in 0..MaxVersion
  BY WebsiteAssumption DEF LauncherInv, TypeOK
<1>2. reply = IF ~registered THEN Message ELSE published
  BY DEF Update, FetchWebData, GetUpdateIfNeeded, IsOutdated
<1>3. registered => published > ourversion
  BY DEF Update, FetchWebData, GetUpdateIfNeeded, IsOutdated
<1> QED BY <1>1, <1>2, <1>3 DEF Binary

\* A failed write leaves the files as they are, and is remembered.
LEMMA WriteFailsKeepsInv ==
    ASSUME LauncherInv, WriteFails, pc \in Updating, pc' \in Updating,
           webdata' \in Binary,
           ourversion' \in 0..MaxVersion, ourversion' <= published,
           UNCHANGED <<web, files, latestversion, checkwebcounter, justloaded,
                       Servers>>
    PROVE  LauncherInv'
<1>1. spoilt' = TRUE /\ UNCHANGED <<slot, orphans, crashed>>
  BY DEF WriteFails
<1>2. TypeOK'
  BY <1>1 DEF LauncherInv, TypeOK, web, files, Size, Updating
<1>3. Versions'
  BY <1>1
     DEF LauncherInv, web, files, Versions, VersionsNeedRegistration,
         VersionsArePublished, UpdateIsNewer, UpToDateHasTheWorker
<1> QED BY <1>1, <1>2, <1>3
        DEF LauncherInv, Versions, OrphansOnlyAfterCrash, ServersEndFirst,
            RoundsStartWithFirst, Updating, Nulls, Alive

LEMMA DownloadUpdateKeepsInv ==
    ASSUME LauncherInv, DownloadUpdate PROVE LauncherInv'
<1>1. pc = "DownloadUpdate" /\ UNCHANGED <<web, versionfile, memory>>
  BY DEF DownloadUpdate
<1>2. CASE pc' = "UpdateServers" /\ UNCHANGED <<webdata, workerfile, others>>
  <2>1. TypeOK'
    BY <1>1, <1>2 DEF LauncherInv, TypeOK, web, memory, others, Size
  <2>2. Versions'
    BY <1>1, <1>2
       DEF LauncherInv, web, memory, others, Versions, VersionsArePublished,
           VersionsNeedRegistration, UpdateIsNewer, UpToDateHasTheWorker
  <2> QED BY <1>1, <1>2, <2>1, <2>2
          DEF LauncherInv, Versions, memory, others, OrphansOnlyAfterCrash,
              ServersEndFirst, RoundsStartWithFirst, Updating, Nulls, Alive
<1>3. CASE /\ webdata' \in Update
           /\ workerfile' = IF TextBusy THEN workerfile ELSE Partial
           /\ pc' = IF TextBusy THEN "OpenVersion" ELSE "WriteUpdate"
           /\ UNCHANGED others
  <2>1. /\ webdata' \in Binary
        /\ registered => webdata' = published /\ published > ourversion
    BY <1>3, UpdateFacts
  <2>2. ~crashed => ~TextBusy
    BY <1>1
       DEF LauncherInv, TextBusy, OrphansOnlyAfterCrash, ServersEndFirst,
           Updating
  <2>3. TypeOK'
    BY <1>1, <1>3, <2>1
       DEF LauncherInv, TypeOK, web, memory, others, Size, Binary
  <2>4. VersionsNeedRegistration' /\ VersionsArePublished'
    BY <1>1, <1>3
       DEF LauncherInv, web, memory, others, VersionsArePublished,
           VersionsNeedRegistration
  <2>5. spoilt \/ versionfile = 0 \/ versionfile < published
    BY <1>1, <2>1
       DEF LauncherInv, TypeOK, VersionsNeedRegistration,
           VersionsArePublished
  <2>6. ~spoilt /\ latestversion > 0 => webdata' >= latestversion
    BY <2>1
       DEF LauncherInv, TypeOK, VersionsNeedRegistration,
           VersionsArePublished
  <2>7. UpdateIsNewer' /\ UpToDateHasTheWorker'
    <3>1. UpToDateHasTheWorker'
      BY <1>1, <1>3, <2>5
         DEF LauncherInv, TypeOK, web, others, UpToDateHasTheWorker
    <3>2. UpdateIsNewer'
      BY <1>1, <1>3, <2>2, <2>5, <2>6
         DEF LauncherInv, TypeOK, web, memory, others, UpdateIsNewer
    <3> QED BY <3>1, <3>2
  <2> QED BY <1>1, <1>3, <2>3, <2>4, <2>7
          DEF LauncherInv, memory, others, OrphansOnlyAfterCrash,
              ServersEndFirst, RoundsStartWithFirst, Updating, Nulls, Alive
<1>4. CASE /\ webdata' \in Update /\ pc' = "OpenVersion" /\ WriteFails
           /\ UNCHANGED workerfile
  <2>1. webdata' \in Binary
    BY <1>4, UpdateFacts
  <2>2. ourversion' \in 0..MaxVersion /\ ourversion' <= published
    BY <1>1 DEF LauncherInv, TypeOK, memory, VersionsArePublished
  <2> QED BY <1>1, <1>4, <2>1, <2>2, WriteFailsKeepsInv
          DEF files, memory, Updating
<1> QED BY <1>1, <1>2, <1>3, <1>4 DEF DownloadUpdate

LEMMA WriteUpdateKeepsInv ==
    ASSUME LauncherInv, WriteUpdate PROVE LauncherInv'
<1>1. /\ pc = "WriteUpdate" /\ pc' = "OpenVersion"
      /\ UNCHANGED <<web, versionfile, memory, webdata>>
  BY DEF WriteUpdate
<1>2. CASE workerfile' = webdata /\ UNCHANGED others
  <2>1. TypeOK'
    BY <1>1, <1>2 DEF LauncherInv, TypeOK, web, memory, others, Size
  <2>2. Versions'
    BY <1>1, <1>2
       DEF LauncherInv, TypeOK, web, memory, others, Versions, UpdateIsNewer,
           VersionsNeedRegistration, VersionsArePublished,
           UpToDateHasTheWorker
  <2> QED BY <1>1, <1>2, <2>1, <2>2
          DEF LauncherInv, Versions, memory, others, OrphansOnlyAfterCrash,
              ServersEndFirst, RoundsStartWithFirst, Updating, Nulls, Alive
<1>3. CASE WriteFails /\ UNCHANGED workerfile
  <2>1. /\ webdata' \in Binary
        /\ ourversion' \in 0..MaxVersion /\ ourversion' <= published
    BY <1>1 DEF LauncherInv, TypeOK, memory, VersionsArePublished
  <2> QED BY <1>1, <1>3, <2>1, WriteFailsKeepsInv DEF files, memory, Updating
<1> QED BY <1>2, <1>3 DEF WriteUpdate

LEMMA OpenVersionKeepsInv ==
    ASSUME LauncherInv, OpenVersion PROVE LauncherInv'
<1>1. /\ pc = "OpenVersion" /\ ourversion' = latestversion
      /\ UNCHANGED <<web, workerfile, latestversion, checkwebcounter,
                     justloaded, Servers, webdata>>
  BY DEF OpenVersion
<1>2. CASE versionfile' = 0 /\ pc' = "WriteVersion" /\ UNCHANGED others
  <2>1. TypeOK'
    BY <1>1, <1>2, WebsiteAssumption
       DEF LauncherInv, TypeOK, web, others, Size
  <2>2. Versions'
    BY <1>1, <1>2
       DEF LauncherInv, TypeOK, web, others, Versions, UpdateIsNewer,
           VersionsNeedRegistration, VersionsArePublished,
           UpToDateHasTheWorker
  <2> QED BY <1>1, <1>2, <2>1, <2>2
          DEF LauncherInv, Versions, others, OrphansOnlyAfterCrash,
              ServersEndFirst, RoundsStartWithFirst, Updating, Nulls, Alive
<1>3. CASE WriteFails /\ pc' = "UpdateServers" /\ UNCHANGED versionfile
  <2>1. /\ webdata' \in Binary
        /\ ourversion' \in 0..MaxVersion /\ ourversion' <= published
    BY <1>1 DEF LauncherInv, TypeOK, VersionsArePublished
  <2> QED BY <1>1, <1>3, <2>1, WriteFailsKeepsInv DEF files, Updating
<1> QED BY <1>2, <1>3 DEF OpenVersion

LEMMA WriteVersionKeepsInv ==
    ASSUME LauncherInv, WriteVersion PROVE LauncherInv'
<1>1. /\ pc = "WriteVersion" /\ pc' = "UpdateServers"
      /\ UNCHANGED <<web, workerfile, memory, webdata>>
  BY DEF WriteVersion
<1>2. CASE versionfile' = ourversion /\ UNCHANGED others
  <2>1. TypeOK'
    BY <1>1, <1>2 DEF LauncherInv, TypeOK, web, memory, others, Size
  <2>2. Versions'
    BY <1>1, <1>2
       DEF LauncherInv, TypeOK, web, memory, others, Versions, UpdateIsNewer,
           VersionsNeedRegistration, VersionsArePublished,
           UpToDateHasTheWorker
  <2> QED BY <1>1, <1>2, <2>1, <2>2
          DEF LauncherInv, Versions, memory, others, OrphansOnlyAfterCrash,
              ServersEndFirst, RoundsStartWithFirst, Updating, Nulls, Alive
<1>3. CASE WriteFails /\ UNCHANGED versionfile
  <2>1. /\ webdata' \in Binary
        /\ ourversion' \in 0..MaxVersion /\ ourversion' <= published
    BY <1>1 DEF LauncherInv, TypeOK, memory, VersionsArePublished
  <2> QED BY <1>1, <1>3, <2>1, WriteFailsKeepsInv DEF files, memory, Updating
<1> QED BY <1>2, <1>3 DEF WriteVersion

\* Whatever an action makes of the servers, the rest of TypeOK.
LEMMA ServersTyped ==
    ASSUME LauncherInv, Servers' \in Vectors, slot' \in 0..Size(Servers'),
           orphans' = orphans, pc' \in {pc, "CheckServerOnline", "down"},
           UNCHANGED <<web, files, ourversion, latestversion, checkwebcounter,
                       justloaded, crashed, spoilt>>,
           webdata' \in Binary
    PROVE  TypeOK'
BY VectorTypes DEF LauncherInv, TypeOK, web, files

LEMMA UpdateServersKeepsInv ==
    ASSUME LauncherInv, UpdateServers PROVE LauncherInv'
<1> DEFINE parsed == ParseServerSettings(ServersForOurNode(registered, config))
           ended == KillRunningServers(Servers)
<1>1. /\ pc = "UpdateServers"
      /\ webdata' \in Binary
      /\ UNCHANGED <<web, files, ourversion, latestversion, checkwebcounter,
                     justloaded>>
  BY DEF UpdateServers, Binary
<1>2. parsed.servers \in Vectors
  <2>1. config \in Seq(Settings)
    BY WebsiteAssumption DEF LauncherInv, TypeOK
  <2>2. ServersForOurNode(registered, config) \in Seq(Settings)
    BY <2>1 DEF ServersForOurNode
  <2>3. parsed \in ParsedData
    BY <2>2, ParseTyped
  <2> QED BY <2>3 DEF ParsedData
<1>3. Alive(ended) = {}
  BY <1>1, KillFacts DEF LauncherInv, ServersEndFirst, Updating
<1>4. slot = 0
  BY <1>1 DEF LauncherInv, RoundsStartWithFirst
<1> HIDE DEF parsed, ended
<1>5. CASE /\ Servers' \in {NoServers, parsed.servers}
           /\ pc' = "CheckServerOnline"
           /\ orphans' = orphans \cup Alive(ended)
           /\ UNCHANGED <<slot, crashed, spoilt>>
  <2>1. Servers' \in Vectors
    BY <1>2, <1>5, NoServersFacts
  <2>2. orphans' = orphans
    BY <1>3, <1>5
  <2>3. slot' \in 0..Size(Servers')
    BY <1>4, <1>5, <2>1, VectorTypes
  <2>4. TypeOK'
    BY <1>1, <1>5, <2>1, <2>2, <2>3, ServersTyped
  <2>5. Versions'
    BY <1>1, <1>5
       DEF LauncherInv, web, files, Versions, VersionsNeedRegistration,
           VersionsArePublished, UpdateIsNewer, UpToDateHasTheWorker
  <2> QED BY <1>5, <2>1, <2>2, <2>4, <2>5
          DEF LauncherInv, Versions, OrphansOnlyAfterCrash, ServersEndFirst,
              RoundsStartWithFirst, Updating
<1>6. CASE Dies(ended)
  BY <1>1, <1>6, DiesKeepsInv DEF ended
<1> QED BY <1>5, <1>6 DEF UpdateServers, parsed, ended

\* One server's entry is looked at and, unless it is null, changed.
LEMMA CheckServerOnlineKeepsInv ==
    ASSUME LauncherInv, CheckServerOnline PROVE LauncherInv'
<1> DEFINE n == Size(Servers)
<1>1. /\ pc = "CheckServerOnline" /\ slot \in DOMAIN Servers
      /\ slot' = slot + 1
      /\ UNCHANGED <<web, files, ourversion, latestversion, checkwebcounter,
                     justloaded, webdata, pc, orphans, crashed, spoilt>>
  BY DEF CheckServerOnline
<1>2. PICK s \in Checked(Servers[slot]) : Servers' = [Servers EXCEPT ![slot] = s]
  BY DEF CheckServerOnline
<1>3. n \in Nat /\ Servers \in [0..(n - 1) -> serverdata \cup {Null}]
  BY VectorFacts DEF LauncherInv
<1>4. s \in serverdata \cup {Null}
  <2>1. Servers[slot] \in serverdata \cup {Null}
    BY <1>1, <1>3
  <2>2. workerfile \in Binary
    BY DEF LauncherInv, TypeOK
  <2> DEFINE old == Servers[slot]
  <2> HIDE DEF old
  <2>3. CASE old = Null
    <3>1. ~Runnable(old)
      BY <2>3, ServerKeys DEF Runnable
    <3> QED BY <1>2, <2>1, <3>1 DEF Checked, old
  <2>4. CASE old \in serverdata
    <3>1. /\ [old EXCEPT !.pid = "none"] \in serverdata
          /\ Started(old) \in serverdata
      BY <2>2, <2>4 DEF serverdata, Started
    <3>2. s \in {old, [old EXCEPT !.pid = "none"], Started(old)}
      BY <1>2 DEF Checked, old
    <3> QED BY <2>4, <3>1, <3>2
  <2> QED BY <2>1, <2>3, <2>4 DEF old
<1>5. Servers' \in [0..(n - 1) -> serverdata \cup {Null}]
  BY <1>2, <1>3, <1>4
<1>6. Servers' \in Vectors /\ Size(Servers') = n
  BY <1>3, <1>5, VectorIs, SizeIs
<1>7. slot' \in 0..Size(Servers')
  BY <1>1, <1>3, <1>6
<1>8. TypeOK'
  <2>1. webdata' \in Binary
    BY <1>1 DEF LauncherInv, TypeOK
  <2> QED BY <1>1, <1>6, <1>7, <2>1, ServersTyped
<1>9. Versions'
  BY <1>1
     DEF LauncherInv, web, files, Versions, VersionsNeedRegistration,
         VersionsArePublished, UpdateIsNewer, UpToDateHasTheWorker
<1> QED BY <1>1, <1>6, <1>8, <1>9
        DEF LauncherInv, Versions, OrphansOnlyAfterCrash, ServersEndFirst,
            RoundsStartWithFirst, Updating

LEMMA EndRoundKeepsInv ==
    ASSUME LauncherInv, EndRound PROVE LauncherInv'
<1>1. /\ pc = "CheckServerOnline" /\ pc' = "round" /\ slot' = 0
      /\ justloaded' = FALSE
      /\ UNCHANGED <<web, files, ourversion, latestversion, checkwebcounter,
                     Servers, webdata, orphans, crashed, spoilt>>
  BY DEF EndRound
<1>2. TypeOK'
  <2>1. slot' \in 0..Size(Servers)
    BY <1>1, VectorTypes DEF LauncherInv
  <2> QED BY <1>1, <2>1 DEF LauncherInv, TypeOK, web, files, Size
<1>3. Versions'
  BY <1>1
     DEF LauncherInv, web, files, Versions, VersionsNeedRegistration,
         VersionsArePublished, UpdateIsNewer, UpToDateHasTheWorker
<1> QED BY <1>1, <1>2, <1>3
        DEF LauncherInv, Versions, OrphansOnlyAfterCrash, ServersEndFirst,
            RoundsStartWithFirst, Updating

-----------------------------------------------------------------------------
(* The steps of its surroundings.                                          *)

\* No child is alive while the launcher updates, so none can die.
LEMMA WorkerDiesKeepsInv ==
    ASSUME LauncherInv, NEW i \in DOMAIN Servers, WorkerDies(i)
    PROVE  LauncherInv'
<1> DEFINE n == Size(Servers)
           s == [Servers[i] EXCEPT !.pid = "dead"]
<1>1. /\ Servers[i].pid = "alive"
      /\ Servers' = [Servers EXCEPT ![i] = s]
      /\ UNCHANGED <<web, files, ourversion, latestversion, checkwebcounter,
                     justloaded, webdata, pc, others>>
  BY DEF WorkerDies
<1>2. n \in Nat /\ Servers \in [0..(n - 1) -> serverdata \cup {Null}]
  BY VectorFacts DEF LauncherInv
<1>3. s \in serverdata
  <2>1. Servers[i] \in serverdata \cup {Null}
    BY <1>2
  <2>2. Servers[i] # Null
    BY <1>1 DEF Null
  <2> QED BY <2>1, <2>2 DEF serverdata
<1>4. pc \notin Updating
  BY <1>1 DEF LauncherInv, ServersEndFirst, Alive
<1> HIDE DEF s
<1>5. Servers' \in [0..(n - 1) -> serverdata \cup {Null}]
  BY <1>1, <1>2, <1>3
<1>6. Servers' \in Vectors /\ Size(Servers') = n
  BY <1>2, <1>5, VectorIs, SizeIs
<1>7. TypeOK'
  <2>1. slot' \in 0..Size(Servers')
    BY <1>1, <1>6 DEF LauncherInv, TypeOK, others
  <2>2. webdata' \in Binary
    BY <1>1 DEF LauncherInv, TypeOK
  <2> QED BY <1>1, <1>6, <2>1, <2>2, ServersTyped DEF others
<1>8. Versions'
  BY <1>1
     DEF LauncherInv, web, files, others, Versions, VersionsNeedRegistration,
         VersionsArePublished, UpdateIsNewer, UpToDateHasTheWorker
<1> QED BY <1>1, <1>4, <1>6, <1>7, <1>8
        DEF LauncherInv, Versions, others, OrphansOnlyAfterCrash,
            ServersEndFirst, RoundsStartWithFirst, Updating

LEMMA OrphanDiesKeepsInv ==
    ASSUME LauncherInv, NEW i \in orphans, OrphanDies(i)
    PROVE  LauncherInv'
<1>1. /\ orphans' = orphans \ {i}
      /\ UNCHANGED <<web, files, memory, webdata, pc, slot, crashed, spoilt>>
  BY DEF OrphanDies
<1>2. TypeOK'
  BY <1>1 DEF LauncherInv, TypeOK, web, files, memory, Size
<1>3. Versions'
  BY <1>1
     DEF LauncherInv, web, files, memory, Versions, VersionsNeedRegistration,
         VersionsArePublished, UpdateIsNewer, UpToDateHasTheWorker
<1> QED BY <1>1, <1>2, <1>3
        DEF LauncherInv, Versions, memory, OrphansOnlyAfterCrash,
            ServersEndFirst, RoundsStartWithFirst, Updating, Nulls, Alive

\* A launcher that has not died leaves no worker; the machine that reboots
\* ends them all, and the files stay what they were.
LEMMA RebootKeepsInv ==
    ASSUME LauncherInv, Reboot PROVE LauncherInv'
<1>1. /\ Servers' = NoServers /\ pc' = "down" /\ slot' = 0 /\ orphans' = {}
      /\ UNCHANGED <<web, files, ourversion, latestversion, checkwebcounter,
                     justloaded, webdata, crashed, spoilt>>
  BY DEF Reboot
<1>2. TypeOK'
  <2>1. /\ DOMAIN Servers' = 0..(Size(Servers') - 1)
        /\ \A j \in DOMAIN Servers' : Servers'[j] \in serverdata \cup {Null}
        /\ slot' \in 0..Size(Servers')
    <3>1. slot' \in 0..Size(NoServers)
      BY <1>1, NoServersFacts
    <3> QED BY <1>1, <3>1, NoServersFacts, VectorTypes
  <2> QED BY <1>1, <2>1 DEF LauncherInv, TypeOK, web, files
<1>3. Versions'
  BY <1>1
     DEF LauncherInv, web, files, Versions, VersionsNeedRegistration,
         VersionsArePublished, UpdateIsNewer, UpToDateHasTheWorker
<1> QED BY <1>1, <1>2, <1>3, NoServersFacts
        DEF LauncherInv, Versions, OrphansOnlyAfterCrash, ServersEndFirst,
            RoundsStartWithFirst, Updating

\* A version published meanwhile only makes the website ask for more.
LEMMA PublishKeepsInv ==
    ASSUME LauncherInv, Publish PROVE LauncherInv'
<1>1. /\ published \in 0..MaxVersion /\ MaxVersion \in Nat
      /\ published < MaxVersion /\ published' = published + 1
      /\ UNCHANGED <<registered, config, files, memory, webdata, pc, others>>
  BY WebsiteAssumption DEF LauncherInv, TypeOK, Publish
<1>2. TypeOK'
  BY <1>1 DEF LauncherInv, TypeOK, files, memory, others, Size
<1>3. VersionsNeedRegistration'
  BY <1>1 DEF LauncherInv, files, memory, others, VersionsNeedRegistration
<1>4. VersionsArePublished'
  BY <1>1 DEF LauncherInv, TypeOK, files, memory, others, VersionsArePublished
<1>5. UpdateIsNewer' /\ UpToDateHasTheWorker'
  BY <1>1
     DEF LauncherInv, TypeOK, files, memory, others, UpdateIsNewer,
         UpToDateHasTheWorker
<1> QED BY <1>1, <1>2, <1>3, <1>4, <1>5
        DEF LauncherInv, memory, others, OrphansOnlyAfterCrash,
            ServersEndFirst, RoundsStartWithFirst, Updating, Nulls, Alive

\* A node struck off is remembered.
LEMMA ReconfigureKeepsInv ==
    ASSUME LauncherInv, Reconfigure PROVE LauncherInv'
<1>1. /\ registered' \in BOOLEAN /\ config' \in Configs
      /\ spoilt' = (spoilt \/ (registered /\ ~registered'))
      /\ UNCHANGED <<published, files, memory, webdata, pc, slot, orphans,
                     crashed>>
  BY DEF Reconfigure
<1>2. spoilt' \in BOOLEAN
  BY <1>1, Zenon
<1>3. TypeOK'
  <2> HIDE DEF Binary
  <2> QED BY <1>1, <1>2 DEF LauncherInv, TypeOK, files, memory, Size
<1>4. Versions'
  BY <1>1
     DEF LauncherInv, TypeOK, files, memory, Versions, UpdateIsNewer,
         VersionsNeedRegistration, VersionsArePublished,
         UpToDateHasTheWorker
<1> QED BY <1>1, <1>3, <1>4
        DEF LauncherInv, Versions, memory, OrphansOnlyAfterCrash,
            ServersEndFirst, RoundsStartWithFirst, Updating, Nulls, Alive

LEMMA StutterKeepsInv ==
    ASSUME LauncherInv, UNCHANGED vars PROVE LauncherInv'
<1>1. TypeOK' /\ Versions'
  BY DEF LauncherInv, TypeOK, Size, vars, web, files, memory, others, Versions,
         VersionsNeedRegistration, VersionsArePublished, UpdateIsNewer,
         UpToDateHasTheWorker
<1> QED BY <1>1
        DEF LauncherInv, Versions, vars, memory, others, OrphansOnlyAfterCrash,
            ServersEndFirst, RoundsStartWithFirst, Updating, Nulls, Alive

LEMMA NextLauncherInv == LauncherInv /\ [Next]_vars => LauncherInv'
<1> SUFFICES ASSUME LauncherInv, [Next]_vars PROVE LauncherInv'
  OBVIOUS
<1>1. CASE LauncherStep
  BY <1>1, RoundKeepsInv, NeedsUpdateKeepsInv, KillServersKeepsInv,
     DownloadUpdateKeepsInv, WriteUpdateKeepsInv, OpenVersionKeepsInv,
     WriteVersionKeepsInv, UpdateServersKeepsInv, CheckServerOnlineKeepsInv,
     EndRoundKeepsInv
     DEF LauncherStep
<1> QED BY <1>1, StartKeepsInv, WorkerDiesKeepsInv, OrphanDiesKeepsInv,
           RebootKeepsInv, PublishKeepsInv, ReconfigureKeepsInv,
           StutterKeepsInv
        DEF Next

-----------------------------------------------------------------------------
(* The theorems.                                                           *)

\* The invariant of the launcher, its files, its servers and its website.
THEOREM LauncherInvariant == Spec => []LauncherInv
BY InitLauncherInv, NextLauncherInv, PTL DEF Spec

\* Every variable keeps its type; Servers is always a vector, whatever
\* settings were parsed.
THEOREM LauncherTypes == Spec => []TypeOK
<1>1. LauncherInv => TypeOK
  BY DEF LauncherInv
<1> QED BY <1>1, LauncherInvariant, PTL

\* DownloadUpdate may be cut short after each of its steps, and versions may
\* be published between any two: a launcher the website would call up to date
\* has the whole worker of that version, unless a launcher has died before, a
\* write has failed or the node was removed from the website.
THEOREM UpdatesKeepTheWorker == Spec => []UpToDateHasTheWorker
<1>1. LauncherInv => UpToDateHasTheWorker
  BY DEF LauncherInv
<1> QED BY <1>1, LauncherInvariant, PTL

\* The vector of servers is replaced only when none of its workers runs, so
\* only a launcher that dies leaves workers to themselves.
THEOREM NoStrayWorkers == Spec => []OrphansOnlyAfterCrash
<1>1. LauncherInv => OrphansOnlyAfterCrash
  BY DEF LauncherInv
<1> QED BY <1>1, LauncherInvariant, PTL

\* However many servers a node has: settings in the order of their servers
\* never make at() throw, and give a worker to exactly the servers with an
\* address and an A2S port.
THEOREM OrderedSettingsAreParsed == Spec => []OrderedSettingsParse
<1>1. ASSUME TypeOK PROVE OrderedSettingsParse
  <2> DEFINE n == Len(config)
             parsed == ParseServerSettings(config)
             Has(id, key) == [serverid |-> id, key |-> key] \in ToSet(config)
             Asked == {id \in ServerIds :
                          Has(id, "activated") /\ Has(id, "a2sport")}
  <2>1. config \in Configs /\ config \in Seq(Settings) /\ n \in Nat
    BY <1>1, WebsiteAssumption DEF TypeOK
  <2> SUFFICES ASSUME InOrder(config)
               PROVE  /\ ~parsed.thrown
                      /\ {id \in DOMAIN parsed.servers :
                             Runnable(parsed.servers[id])} = Asked
    BY DEF OrderedSettingsParse, InOrder
  <2>2. Describes(parsed, config, n)
    BY <2>1, ParseOrdered
  <2> HIDE DEF parsed
  <2>3. parsed.servers \in Vectors
    BY <2>2 DEF Describes, ParsedData
  <2>4. ASSUME NEW id, NEW key \in {"activated", "a2sport"}
        PROVE  Has(id, key) <=> \E j \in 1..n : config[j].serverid = id
                                               /\ config[j].key = key
    <3>1. ToSet(config) = {config[j] : j \in 1..n}
      BY <2>1 DEF ToSet
    <3>2. \A j \in 1..n : config[j] \in Settings
      BY <2>1
    <3> QED BY <3>1, <3>2 DEF Settings
  <2>5. ASSUME NEW id \in DOMAIN parsed.servers,
               NEW key \in {"activated", "a2sport"}
        PROVE  key \in parsed.servers[id].keys <=> Has(id, key)
    <3>1. key \in Keys /\ key # "deactivated" /\ n - n + 1 = 1
      BY <2>1 DEF Keys
    <3> HIDE DEF n, Has
    <3>2. key \in parsed.servers[id].keys
             <=> \E j \in 1..n : config[j].serverid = id
                                 /\ config[j].key = key
      BY <2>2, <3>1 DEF Describes, n
    <3> QED BY <2>4, <3>2
  <2>6. ASSUME NEW id, Has(id, "activated")
        PROVE  id \in DOMAIN parsed.servers /\ id \in ServerIds
    <3>1. PICK j \in 1..n : config[j].serverid = id
      BY <2>4, <2>6
    <3>2. id \in Nat \ {0} /\ id <= config[n].serverid
             /\ config[n].serverid \in Nat
      <4>1. j \in DOMAIN config /\ n \in DOMAIN config
        BY <2>1, <3>1
      <4>2. config[j] \in Settings /\ config[n] \in Settings
        BY <2>1, <4>1
      <4>3. j < n \/ j = n
        BY <2>1, <3>1
      <4>4. j < n => config[j].serverid <= config[n].serverid
        BY <4>1 DEF InOrder
      <4> QED BY <3>1, <4>2, <4>3, <4>4 DEF Settings
    <3>3. Size(parsed.servers) = config[n].serverid + 1
      BY <2>1, <2>2, <3>1 DEF Describes
    <3>4. DOMAIN parsed.servers = 0..(Size(parsed.servers) - 1)
      BY <2>3, VectorTypes
    <3>5. id \in DOMAIN parsed.servers
      BY <3>2, <3>3, <3>4
    <3>6. id \in {config[k].serverid : k \in DOMAIN config}
      BY <2>1, <3>1
    <3> QED BY <2>1, <3>5, <3>6 DEF ServerIds
  <2> HIDE DEF Has
  <2>7. \A id \in DOMAIN parsed.servers :
           Runnable(parsed.servers[id])
              <=> Has(id, "activated") /\ Has(id, "a2sport")
    BY <2>5 DEF Runnable
  <2> QED BY <2>2, <2>6, <2>7 DEF Describes
<1> QED BY <1>1, LauncherTypes, PTL
=============================================================================
