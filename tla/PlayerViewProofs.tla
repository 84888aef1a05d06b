-------------------------- MODULE PlayerViewProofs --------------------------
(***************************************************************************)
(* Proofs about what clients see of the players, for every size of a byte, *)
(* number of slots and bounds.  That the count falls slowly needs the sum  *)
(* of plyreducecnt and the lower reports so far; that times stay true      *)
(* needs that no entry of the list is older than the time between its      *)
(* arrival and the answer built last.                                      *)
(***************************************************************************)
EXTENDS PlayerView, SequenceTheorems, TLAPS

\* When the answer was built last.
LastBuild == a2sply_firstbuild + lastsendlistupdate

\* plyreducecnt counts the lower reports down.
CountsLowerReports == lower + plyreducecnt = 3

\* The list ages only with the answers built since it arrived.
AgesWithBuilds ==
    /\ LastBuild <= now
    /\ base <= now
    /\ lastsendlistupdate = -1 =>
          \A i \in DOMAIN servera2sply : servera2sply[i] = 0
    /\ lastsendlistupdate # -1 =>
          \A i \in DOMAIN servera2sply :
             /\ servera2sply[i] <= LastBuild - base
             /\ servera2sply[i] <= lastsendlistupdate

PlayerInv ==
    /\ TypeOK
    /\ CoversReport
    /\ CountsLowerReports
    /\ AgesWithBuilds

-----------------------------------------------------------------------------
(* Bytes.                                                                  *)

\* A byte is its own remainder, and the one below zero is the greatest.
LEMMA ByteFacts ==
    /\ \A n \in Bytes : Byte(n) = n
    /\ \A n \in Int : Byte(n) \in Bytes
    /\ Byte(-1) = ByteSize - 1
    /\ ByteSize > 1
<1>1. ByteSize \in Nat /\ ByteSize > 0 /\ ByteSize % 2 = 0
  BY CountsAssumption
<1>2. ByteSize # 1
  BY <1>1
<1> QED BY <1>1, <1>2 DEF Byte, Bytes

\* A report below half of the byte is read as it was sent, any other one as a
\* negative number.
LEMMA CharFacts ==
    ASSUME NEW r \in 0..Slots
    PROVE  /\ r \in Bytes
           /\ Char(r) \in Int
           /\ r < ByteSize \div 2 => Char(r) = r
           /\ ~(r < ByteSize \div 2) => Char(r) < 0
<1>1. /\ ByteSize \in Nat /\ Slots \in 1..(ByteSize - 1)
      /\ ByteSize \div 2 \in Int
  BY CountsAssumption
<1> QED BY <1>1 DEF Char, Bytes

\* What a report does to the count: it takes over a higher one, waits, or goes
\* down by one (from zero to the greatest byte, when the report is negative).
LEMMA ReducedFacts ==
    ASSUME TypeOK, NEW r \in 0..Slots
    PROVE  \/ /\ Char(r) >= players
              /\ Char(r) = r
              /\ Reduced(r) = [players |-> r, cnt |-> plyreducecnt]
           \/ /\ Char(r) < players
              /\ plyreducecnt > 0
              /\ Reduced(r) = [players |-> players, cnt |-> plyreducecnt - 1]
           \/ /\ Char(r) < players
              /\ plyreducecnt = 0
              /\ players > 0
              /\ Reduced(r) = [players |-> players - 1, cnt |-> 3]
           \/ /\ Char(r) < 0
              /\ plyreducecnt = 0
              /\ players = 0
              /\ Reduced(r) = [players |-> ByteSize - 1, cnt |-> 3]
<1>1. /\ players \in Bytes /\ plyreducecnt \in 0..3
      /\ players \in Nat
  BY CountsAssumption DEF TypeOK, Bytes
<1>2. /\ r \in Bytes
      /\ Char(r) \in Int
      /\ r < ByteSize \div 2 => Char(r) = r
      /\ ~(r < ByteSize \div 2) => Char(r) < 0
  BY CharFacts
<1>3. CASE Char(r) >= players
  <2>1. Char(r) = r
    BY <1>1, <1>2, <1>3
  <2>2. Byte(Char(r)) = r
    BY <1>2, <2>1, ByteFacts
  <2> QED BY <1>3, <2>1, <2>2 DEF Reduced
<1>4. CASE Char(r) < players /\ plyreducecnt > 0
  <2>1. ~(Char(r) >= players)
    BY <1>1, <1>2, <1>4
  <2> QED BY <1>4, <2>1 DEF Reduced
<1>5. CASE Char(r) < players /\ ~(plyreducecnt > 0)
  <2>1. ~(Char(r) >= players) /\ plyreducecnt = 0
    BY <1>1, <1>2, <1>5
  <2>2. Reduced(r) = [players |-> Byte(players - 1), cnt |-> 3]
    BY <1>5, <2>1 DEF Reduced
  <2>3. CASE players = 0
    <3>1. players - 1 = -1
      BY <2>3
    <3> QED BY <1>5, <2>1, <2>2, <2>3, <3>1, ByteFacts
  <2>4. CASE players > 0
    <3>1. players - 1 \in Bytes
      BY <1>1, <2>4, CountsAssumption DEF Bytes
    <3> QED BY <1>5, <2>1, <2>2, <2>4, <3>1, ByteFacts
  <2> QED BY <1>1, <2>3, <2>4
<1> QED BY <1>1, <1>2, <1>3, <1>4, <1>5

-----------------------------------------------------------------------------
(* The invariant holds initially and is kept by every action.              *)

\* The worker starts with an empty list and a count of zero.
LEMMA InitPlayerInv == Init => PlayerInv
<1> SUFFICES ASSUME Init PROVE PlayerInv
  OBVIOUS
<1>1. servera2sply = <<>> /\ srca2splayer = <<>>
  BY DEF Init
<1>2. <<>> \in Seq(0..MaxTime) /\ Len(<<>>) = 0
  BY EmptySeq
<1>3. DOMAIN servera2sply = {}
  BY <1>1
<1>4. TypeOK
  BY <1>1, <1>2, CountsAssumption DEF Init, TypeOK, Bytes
<1>5. CoversReport /\ CountsLowerReports
  BY DEF Init, CoversReport, CountsLowerReports
<1>6. AgesWithBuilds
  BY <1>3 DEF Init, AgesWithBuilds, LastBuild
<1> QED BY <1>4, <1>5, <1>6 DEF PlayerInv

\* An info reply.
LEMMA InfoKeepsPlayerInv ==
    ASSUME PlayerInv, NEW r \in 0..Slots, NEW b \in 0..MaxBots,
           NEW whole \in BOOLEAN, OnReceiveSourceServerA2SInfo(r, b, whole)
    PROVE  /\ PlayerInv'
           /\ players' < players => players' = players - 1 /\ lower = 3
<1>1. /\ players \in Bytes /\ players \in Nat
      /\ plyreducecnt \in 0..3 /\ lower \in 0..3
      /\ lower + plyreducecnt = 3
      /\ extraplayers \in 0..MaxExtra
  BY DEF PlayerInv, TypeOK, CountsLowerReports, Bytes
<1>2. /\ r \in Bytes
      /\ Char(r) \in Int
      /\ r < ByteSize \div 2 => Char(r) = r
      /\ ~(r < ByteSize \div 2) => Char(r) < 0
  BY CharFacts
<1>3. /\ players' = Reduced(r).players
      /\ plyreducecnt' = Reduced(r).cnt
      /\ reported' = r
      /\ bots' = b
      /\ srca2sinfo' = IF whole THEN Shown(players') ELSE -1
      /\ lower' = IF Char(r) >= players THEN lower
                  ELSE IF players' # players THEN 0
                  ELSE IF lower = 3 THEN lower ELSE lower + 1
      /\ UNCHANGED <<extraplayers, list, now>>
  BY DEF OnReceiveSourceServerA2SInfo
<1>4. /\ players' \in Bytes
      /\ plyreducecnt' \in 0..3
      /\ lower' \in 0..3
      /\ lower' + plyreducecnt' = 3
      /\ r < ByteSize \div 2 => players' >= r
      /\ players' < players => players' = players - 1 /\ lower = 3
  <2>1. CASE /\ Char(r) >= players
             /\ Char(r) = r
             /\ Reduced(r) = [players |-> r, cnt |-> plyreducecnt]
    <3>1. players' = r /\ plyreducecnt' = plyreducecnt /\ lower' = lower
      BY <1>3, <2>1
    <3> QED BY <1>1, <1>2, <2>1, <3>1 DEF Bytes
  <2>2. CASE /\ Char(r) < players
             /\ plyreducecnt > 0
             /\ Reduced(r) = [players |-> players, cnt |-> plyreducecnt - 1]
    <3>1. players' = players /\ plyreducecnt' = plyreducecnt - 1
      BY <1>3, <2>2
    <3>2. lower # 3 /\ ~(Char(r) >= players)
      BY <1>1, <1>2, <2>2
    <3>3. lower' = lower + 1
      BY <1>3, <3>1, <3>2
    <3> QED BY <1>1, <1>2, <2>2, <3>1, <3>3 DEF Bytes
  <2>3. CASE /\ Char(r) < players
             /\ plyreducecnt = 0
             /\ players > 0
             /\ Reduced(r) = [players |-> players - 1, cnt |-> 3]
    <3>1. players' = players - 1 /\ plyreducecnt' = 3
      BY <1>3, <2>3
    <3>2. players' # players /\ ~(Char(r) >= players)
      BY <1>1, <1>2, <2>3, <3>1
    <3>3. lower' = 0
      BY <1>3, <3>2
    <3> QED BY <1>1, <1>2, <2>3, <3>1, <3>3, CountsAssumption DEF Bytes
  <2>4. CASE /\ Char(r) < 0
             /\ plyreducecnt = 0
             /\ players = 0
             /\ Reduced(r) = [players |-> ByteSize - 1, cnt |-> 3]
    <3>1. players' = ByteSize - 1 /\ plyreducecnt' = 3
      BY <1>3, <2>4
    <3>2. players' # players /\ ~(Char(r) >= players)
      BY <1>1, <1>2, <2>4, <3>1, ByteFacts, CountsAssumption
    <3>3. lower' = 0
      BY <1>3, <3>2
    <3>4. ~(r < ByteSize \div 2)
      BY <1>2, <2>4
    <3> QED BY <1>1, <2>4, <3>1, <3>3, <3>4, ByteFacts, CountsAssumption DEF Bytes
  <2> QED BY <2>1, <2>2, <2>3, <2>4, ReducedFacts DEF PlayerInv
<1>5. srca2sinfo' \in Bytes \cup {-1}
  <2>1. players' + extraplayers \in Int
    BY <1>1, <1>4, CountsAssumption DEF Bytes
  <2>2. Byte(players' + extraplayers) \in Bytes
    BY <2>1, ByteFacts
  <2>3. Slots - 1 \in Bytes
    BY CountsAssumption DEF Bytes
  <2>4. Shown(players') \in Bytes
    BY <2>2, <2>3 DEF Shown
  <2> QED BY <1>3, <2>4
<1>6. TypeOK'
  BY <1>3, <1>4, <1>5 DEF PlayerInv, TypeOK, list
<1>7. CoversReport' /\ CountsLowerReports'
  BY <1>3, <1>4 DEF CoversReport, CountsLowerReports
<1>8. AgesWithBuilds'
  BY <1>3 DEF PlayerInv, AgesWithBuilds, LastBuild, list
<1> QED BY <1>4, <1>6, <1>7, <1>8 DEF PlayerInv

\* A new list of n players.
LEMMA ListKeepsPlayerInv ==
    ASSUME PlayerInv, NEW n \in 0..Slots, OnReceiveSourceServerA2SPlayers(n)
    PROVE  PlayerInv'
<1>1. n \in Nat /\ MaxTime \in Nat
  BY CountsAssumption
<1>2. /\ servera2sply' = [i \in 1..n |-> 0]
      /\ base' = LastBuild
      /\ UNCHANGED <<extraplayers, counts, a2sply_firstbuild,
                     lastsendlistupdate, srca2splayer, now>>
  BY DEF OnReceiveSourceServerA2SPlayers, LastBuild
<1>3. servera2sply' \in [1..n -> 0..MaxTime]
  BY <1>1, <1>2
<1>4. servera2sply' \in Seq(0..MaxTime)
  BY <1>1, <1>3, SeqDef
<1>5. DOMAIN servera2sply' = 1..n /\ Len(servera2sply') = n
  BY <1>1, <1>3, <1>4, LenProperties
<1>6. /\ a2sply_firstbuild \in 0..MaxTime /\ lastsendlistupdate \in -1..MaxTime
      /\ now \in 0..MaxTime /\ LastBuild <= now
  BY DEF PlayerInv, TypeOK, AgesWithBuilds
<1>7. base' \in -1..MaxTime
  BY <1>1, <1>2, <1>6 DEF LastBuild
<1>8. TypeOK'
  BY <1>2, <1>4, <1>5, <1>7 DEF PlayerInv, TypeOK, counts
<1>9. CoversReport' /\ CountsLowerReports'
  BY <1>2 DEF PlayerInv, CoversReport, CountsLowerReports, counts
<1>10. AgesWithBuilds'
  <2>1. LastBuild' = LastBuild /\ now' = now /\ LastBuild \in Int
    BY <1>2, <1>6 DEF LastBuild
  <2>2. \A i \in DOMAIN servera2sply' : servera2sply'[i] = 0
    BY <1>2, <1>5
  <2>3. lastsendlistupdate' = lastsendlistupdate
    BY <1>2
  <2> QED BY <1>2, <1>6, <2>1, <2>2, <2>3 DEF AgesWithBuilds
<1> QED BY <1>8, <1>9, <1>10 DEF PlayerInv

\* The entries an answer shows are entries of the list.
LEMMA UsePlayersFacts ==
    ASSUME TypeOK
    PROVE  UsePlayers \in 0..Len(servera2sply)
<1>1. /\ Len(servera2sply) \in Nat /\ Len(servera2sply) <= Slots
      /\ players \in Nat /\ bots \in Nat
      /\ ByteSize \in Nat /\ Slots \in 1..(ByteSize - 1)
  BY LenProperties, CountsAssumption DEF TypeOK, Bytes
<1>2. CASE Len(servera2sply) > players + bots
  <2>1. Len(servera2sply) < ByteSize
    BY <1>1
  <2>2. players + bots \in Bytes
    BY <1>1, <1>2, <2>1 DEF Bytes
  <2> QED BY <1>1, <1>2, <2>2, ByteFacts DEF UsePlayers
<1> QED BY <1>1, <1>2 DEF UsePlayers

\* A player query, which may build the answer anew.
LEMMA QueryKeepsPlayerInv ==
    ASSUME PlayerInv, OnReceiveClientReqA2SPlayers
    PROVE  PlayerInv'
<1> DEFINE n == Len(servera2sply)
<1>1. /\ a2sply_firstbuild \in 0..MaxTime /\ lastsendlistupdate \in -1..MaxTime
      /\ now \in 0..MaxTime /\ base \in -1..MaxTime /\ MaxTime \in Nat
      /\ a2sply_firstbuild + lastsendlistupdate <= now /\ base <= now
  BY CountsAssumption DEF PlayerInv, TypeOK, AgesWithBuilds, LastBuild
<1>2. /\ a2sply_firstbuild' =
             IF lastsendlistupdate = -1 THEN now ELSE a2sply_firstbuild
      /\ lastsendlistupdate' = now - a2sply_firstbuild'
      /\ IF Diff = 0
         THEN UNCHANGED <<servera2sply, srca2splayer>>
         ELSE servera2sply' = Aged /\ srca2splayer' = SubSeq(Aged, 1, UsePlayers)
      /\ UNCHANGED <<extraplayers, counts, now, base>>
  BY DEF OnReceiveClientReqA2SPlayers
<1>3. /\ n \in Nat /\ DOMAIN servera2sply = 1..n
      /\ \A i \in 1..n : servera2sply[i] \in 0..MaxTime
  BY LenProperties, ElementOfSeq DEF PlayerInv, TypeOK
<1>4. /\ a2sply_firstbuild' \in 0..MaxTime
      /\ lastsendlistupdate' \in 0..MaxTime
      /\ LastBuild' = now /\ now' = now /\ base' = base
  <2>1. CASE lastsendlistupdate = -1
    BY <1>1, <1>2, <2>1 DEF LastBuild
  <2>2. CASE lastsendlistupdate # -1
    BY <1>1, <1>2, <2>2 DEF LastBuild
  <2> QED BY <2>1, <2>2
<1>5. /\ servera2sply' \in Seq(0..MaxTime) /\ Len(servera2sply') = n
      /\ srca2splayer' \in Seq(0..MaxTime)
      /\ \A i \in DOMAIN servera2sply' :
            /\ servera2sply'[i] <= now - base
            /\ servera2sply'[i] <= lastsendlistupdate'
  <2>1. CASE lastsendlistupdate = -1
    <3>1. Diff = 0
      BY <2>1 DEF Diff
    <3>2. UNCHANGED <<servera2sply, srca2splayer>>
      BY <1>2, <3>1
    <3>3. \A i \in DOMAIN servera2sply : servera2sply[i] = 0
      BY <2>1 DEF PlayerInv, AgesWithBuilds
    <3>4. 0 <= now - base
      BY <1>1
    <3> QED BY <1>4, <3>2, <3>3, <3>4 DEF PlayerInv, TypeOK
  <2>2. CASE lastsendlistupdate # -1
    <3>1. /\ Diff = now - a2sply_firstbuild - lastsendlistupdate
          /\ Diff \in Nat
          /\ lastsendlistupdate' = lastsendlistupdate + Diff
      BY <1>1, <1>2, <2>2 DEF Diff
    <3>2. \A i \in 1..n :
             /\ servera2sply[i] + Diff <= now - base
             /\ servera2sply[i] + Diff <= lastsendlistupdate'
      <4> SUFFICES ASSUME NEW i \in 1..n
                   PROVE  /\ servera2sply[i] + Diff <= now - base
                          /\ servera2sply[i] + Diff <= lastsendlistupdate'
        OBVIOUS
      <4>1. /\ servera2sply[i] <= a2sply_firstbuild + lastsendlistupdate - base
            /\ servera2sply[i] <= lastsendlistupdate
        <5>1. i \in DOMAIN servera2sply
          BY <1>3
        <5> QED BY <1>1, <2>2, <5>1 DEF PlayerInv, AgesWithBuilds, LastBuild
      <4>2. servera2sply[i] \in 0..MaxTime
        BY <1>3
      <4> QED BY <1>1, <3>1, <4>1, <4>2
    <3>3. CASE Diff = 0
      <4>1. UNCHANGED <<servera2sply, srca2splayer>>
        BY <1>2, <3>3
      <4>2. \A i \in 1..n : servera2sply[i] + Diff = servera2sply[i]
        BY <1>3, <3>3
      <4> QED BY <1>3, <3>2, <4>1, <4>2 DEF PlayerInv, TypeOK
    <3>4. CASE Diff # 0
      <4>1. /\ servera2sply' = Aged
            /\ srca2splayer' = SubSeq(Aged, 1, UsePlayers)
        BY <1>2, <3>4
      <4>2. Aged = [i \in 1..n |-> IF i <= UsePlayers THEN servera2sply[i] + Diff
                                                      ELSE servera2sply[i]]
        BY <1>3 DEF Aged
      <4>3. \A i \in 1..n : /\ Aged[i] \in 0..MaxTime
                            /\ Aged[i] <= now - base
                            /\ Aged[i] <= lastsendlistupdate'
        <5> SUFFICES ASSUME NEW i \in 1..n
                     PROVE  /\ Aged[i] \in 0..MaxTime
                            /\ Aged[i] <= now - base
                            /\ Aged[i] <= lastsendlistupdate'
          OBVIOUS
        <5>1. Aged[i] = servera2sply[i] + Diff \/ Aged[i] = servera2sply[i]
          BY <4>2
        <5>2. servera2sply[i] \in 0..MaxTime
          BY <1>3
        <5>3. /\ servera2sply[i] + Diff <= now - base
              /\ servera2sply[i] + Diff <= lastsendlistupdate'
          BY <3>2
        <5>4. lastsendlistupdate' \in 0..MaxTime
          BY <1>4
        <5> QED BY <1>1, <3>1, <5>1, <5>2, <5>3, <5>4
      <4>4. Aged \in [1..n -> 0..MaxTime]
        BY <4>2, <4>3
      <4>5. Aged \in Seq(0..MaxTime)
        BY <1>3, <4>4, SeqDef
      <4>6. Len(Aged) = n /\ DOMAIN Aged = 1..n
        BY <1>3, <4>4, <4>5, LenProperties
      <4>7. UsePlayers \in 0..n
        BY UsePlayersFacts DEF PlayerInv
      <4>8. \A i \in 1..UsePlayers : Aged[i] \in 0..MaxTime
        BY <1>3, <4>3, <4>7
      <4>9. SubSeq(Aged, 1, UsePlayers) \in Seq(0..MaxTime)
        <5>1. UsePlayers \in Int /\ 1 \in Int
          BY <1>3, <4>7
        <5> QED BY <4>8, <5>1, SubSeqProperties
      <4> QED BY <4>1, <4>3, <4>5, <4>6, <4>9
    <3> QED BY <3>3, <3>4
  <2> QED BY <2>1, <2>2
<1>6. TypeOK'
  <2>1. lastsendlistupdate' \in -1..MaxTime
    BY <1>1, <1>4
  <2> QED BY <1>2, <1>4, <1>5, <2>1 DEF PlayerInv, TypeOK, counts
<1>7. CoversReport' /\ CountsLowerReports'
  BY <1>2 DEF PlayerInv, CoversReport, CountsLowerReports, counts
<1>8. AgesWithBuilds'
  <2>1. lastsendlistupdate' # -1
    BY <1>1, <1>4
  <2> QED BY <1>1, <1>4, <1>5, <2>1 DEF AgesWithBuilds
<1> QED BY <1>6, <1>7, <1>8 DEF PlayerInv

\* A second passes.
LEMMA TickKeepsPlayerInv ==
    ASSUME PlayerInv, Tick PROVE PlayerInv'
<1>1. now \in 0..MaxTime /\ MaxTime \in Nat /\ now' = now + 1 /\ now < MaxTime
  BY CountsAssumption DEF PlayerInv, TypeOK, Tick
<1>2. UNCHANGED <<extraplayers, counts, list>>
  BY DEF Tick
<1>3. TypeOK'
  BY <1>1, <1>2 DEF PlayerInv, TypeOK, counts, list
<1>4. CoversReport' /\ CountsLowerReports'
  BY <1>2 DEF PlayerInv, CoversReport, CountsLowerReports, counts
<1>5. AgesWithBuilds'
  <2>1. LastBuild \in Int /\ base \in Int
    BY DEF PlayerInv, TypeOK, LastBuild
  <2>2. LastBuild' = LastBuild /\ LastBuild' <= now' /\ base' <= now'
    BY <1>1, <1>2, <2>1 DEF PlayerInv, AgesWithBuilds, LastBuild, list
  <2> QED BY <1>2, <2>2 DEF PlayerInv, AgesWithBuilds, list
<1> QED BY <1>3, <1>4, <1>5 DEF PlayerInv

\* Every step keeps the invariant, and lets the count fall slowly.
LEMMA NextPlayerInv ==
    PlayerInv /\ [Next]_vars =>
        /\ PlayerInv'
        /\ [players' < players => players' = players - 1 /\ lower = 3]_vars
<1> SUFFICES ASSUME PlayerInv, [Next]_vars
             PROVE  /\ PlayerInv'
                    /\ players' < players => players' = players - 1 /\ lower = 3
  OBVIOUS
<1>1. players \in Nat
  BY DEF PlayerInv, TypeOK, Bytes
<1>2. CASE InfoReply
  BY <1>2, InfoKeepsPlayerInv DEF InfoReply
<1>3. CASE \E n \in 0..Slots : OnReceiveSourceServerA2SPlayers(n)
  BY <1>1, <1>3, ListKeepsPlayerInv DEF OnReceiveSourceServerA2SPlayers, counts
<1>4. CASE OnReceiveClientReqA2SPlayers
  BY <1>1, <1>4, QueryKeepsPlayerInv DEF OnReceiveClientReqA2SPlayers, counts
<1>5. CASE Tick
  BY <1>1, <1>5, TickKeepsPlayerInv DEF Tick, counts
<1>6. CASE UNCHANGED vars
  BY <1>1, <1>6
     DEF PlayerInv, TypeOK, CoversReport, CountsLowerReports, AgesWithBuilds,
         LastBuild, vars, counts, list
<1> QED BY <1>2, <1>3, <1>4, <1>5, <1>6 DEF Next

-----------------------------------------------------------------------------
\* The inductive invariant of the count, the list and the times holds in every
\* reachable state.
THEOREM PlayerInvariant == Spec => []PlayerInv
BY InitPlayerInv, NextPlayerInv, PTL DEF Spec

\* Counts stay bytes and times stay times.
THEOREM PlayerTypes == Spec => []TypeOK
<1>1. PlayerInv => TypeOK
  BY DEF PlayerInv
<1> QED BY <1>1, PlayerInvariant, PTL

\* CoversReport, for every size of a byte.
THEOREM NobodyIsHidden == Spec => []CoversReport
<1>1. PlayerInv => CoversReport
  BY DEF PlayerInv
<1> QED BY <1>1, PlayerInvariant, PTL

\* AgesWithTime, for any number of players and seconds.
THEOREM TimesStayTrue == Spec => []AgesWithTime
<1>1. PlayerInv => AgesWithTime
  <2> SUFFICES ASSUME PlayerInv, NEW i \in DOMAIN servera2sply
               PROVE  servera2sply[i] <= now - base
    BY DEF AgesWithTime
  <2>1. /\ LastBuild \in Int /\ base \in Int /\ now \in Int
        /\ LastBuild <= now /\ base <= now
    BY DEF PlayerInv, TypeOK, AgesWithBuilds, LastBuild
  <2>2. servera2sply[i] \in 0..MaxTime
    BY LenProperties, ElementOfSeq DEF PlayerInv, TypeOK
  <2>3. \/ servera2sply[i] = 0
        \/ servera2sply[i] <= LastBuild - base
    BY DEF PlayerInv, AgesWithBuilds
  <2> QED BY <2>1, <2>2, <2>3, CountsAssumption
<1> QED BY <1>1, PlayerInvariant, PTL

\* FallsSlowly, for every size of a byte.
THEOREM CountFallsSlowly == Spec => FallsSlowly
<1>1. PlayerInv /\ [Next]_vars =>
          [players' < players => players' = players - 1 /\ lower = 3]_vars
  BY NextPlayerInv
<1> QED BY <1>1, PlayerInvariant, PTL DEF Spec, FallsSlowly
=============================================================================
