------------------------------ MODULE PlayerView ------------------------------
(***************************************************************************)
(* What clients see of the players of the game server: the count in the    *)
(* A2S_INFO answer, which falls slowly and may be raised by extraplayers,  *)
(* and the A2S_PLAYER answer, which is rebuilt at most once a second and   *)
(* ages the connection times of the list received last.                    *)
(*                                                                         *)
(* Names and frags are left out, and of a connection time only what the    *)
(* worker has added to it is kept.  A byte has ByteSize values, so that a  *)
(* run can go past them.                                                   *)
(***************************************************************************)
EXTENDS Integers, Sequences

CONSTANTS ByteSize,       \* values of a byte: 256
          Slots,          \* maxplayers of the game server
          MaxBots,        \* bound: bots it reports
          MaxExtra,       \* bound: the worker's setting extraplayers
          MaxTime         \* bound: seconds

ASSUME CountsAssumption ==
    /\ ByteSize \in Nat \ {0} /\ ByteSize % 2 = 0
    /\ Slots \in 1..(ByteSize - 1)
    /\ MaxBots \in 0..(ByteSize - 1)
    /\ MaxExtra \in 0..(ByteSize - 1)
    /\ MaxTime \in Nat

VARIABLES
    extraplayers,         \* the worker's setting
    players, bots,        \* servera2s
    plyreducecnt,
    srca2sinfo,           \* the count in the A2S_INFO answer; -1: a raw reply
    servera2sply,         \* the list: what was added to each connection time
    a2sply_firstbuild, lastsendlistupdate,
    srca2splayer,         \* the list in the A2S_PLAYER answer
    now,                  \* seconds
    reported,             \* history: the count last reported
    lower,                \* history: lower counts since the count fell, up to 3
    base                  \* history: the last rebuild before the list arrived

counts == <<players, bots, plyreducecnt, srca2sinfo, reported, lower>>
list == <<servera2sply, a2sply_firstbuild, lastsendlistupdate, srca2splayer, base>>
vars == <<extraplayers, counts, list, now>>

Bytes == 0..(ByteSize - 1)
Byte(n) == n % ByteSize

\* char is signed.
Char(n) == IF n >= ByteSize \div 2 THEN n - ByteSize ELSE n

-----------------------------------------------------------------------------
(* OnReceiveSourceServerA2SInfo.                                           *)

MutantFallsAtOnce(r) ==
    CASE Char(r) >= players -> [players |-> Byte(Char(r)), cnt |-> plyreducecnt]
      [] Char(r) < players /\ plyreducecnt > 0 ->
            [players |-> players, cnt |-> plyreducecnt - 1]
      [] OTHER -> [players |-> Byte(players - 1), cnt |-> 0]

MutantNeverFalls(r) ==
    CASE Char(r) >= players -> [players |-> Byte(Char(r)), cnt |-> plyreducecnt]
      [] Char(r) < players /\ plyreducecnt > 0 ->
            [players |-> players, cnt |-> plyreducecnt - 1]
      [] OTHER -> [players |-> players, cnt |-> 3]

MutantRisesByOne(r) ==
    CASE Char(r) > players -> [players |-> Byte(players + 1), cnt |-> plyreducecnt]
      [] Char(r) = players -> [players |-> players, cnt |-> plyreducecnt]
      [] Char(r) < players /\ plyreducecnt > 0 ->
            [players |-> players, cnt |-> plyreducecnt - 1]
      [] OTHER -> [players |-> Byte(players - 1), cnt |-> 3]

\* A higher count is taken over; a lower one lets the count fall by one each
\* fourth time.
Reduced(r) ==
    CASE Char(r) >= players -> [players |-> Byte(Char(r)), cnt |-> plyreducecnt]
      [] Char(r) < players /\ plyreducecnt > 0 ->
            [players |-> players, cnt |-> plyreducecnt - 1]
      [] OTHER -> [players |-> Byte(players - 1), cnt |-> 3]

\* The count clients are shown.
Shown(p) ==
    IF extraplayers > 0 /\ Byte(p + extraplayers) > Slots THEN Slots - 1
                                                   ELSE Byte(p + extraplayers)

\* r and b are what is read of the reply.  One that ends before its last field
\* counts as well, but leaves the answer a copy of itself, header and all.
OnReceiveSourceServerA2SInfo(r, b, whole) ==
    /\ players' = Reduced(r).players
    /\ plyreducecnt' = Reduced(r).cnt
    /\ bots' = b
    /\ srca2sinfo' = IF whole THEN Shown(players') ELSE -1
    /\ reported' = r
    /\ lower' = IF Char(r) >= players THEN lower
                ELSE IF players' # players THEN 0
                ELSE IF lower = 3 THEN lower ELSE lower + 1
    /\ UNCHANGED <<extraplayers, list, now>>

-----------------------------------------------------------------------------
(* The list of players.                                                    *)

OnReceiveSourceServerA2SPlayers(n) ==
    /\ servera2sply' = [i \in 1..n |-> 0]
    /\ base' = a2sply_firstbuild + lastsendlistupdate
    /\ UNCHANGED <<extraplayers, counts, a2sply_firstbuild, lastsendlistupdate,
                   srca2splayer, now>>

MutantSinceFirst ==
    IF lastsendlistupdate = -1 THEN 0 ELSE now - a2sply_firstbuild

\* Seconds since the answer was built last; the first query starts the clock.
Diff ==
    IF lastsendlistupdate = -1
    THEN 0 ELSE now - a2sply_firstbuild - lastsendlistupdate

\* The entries the answer shows.
UsePlayers ==
    IF Len(servera2sply) > players + bots THEN Byte(players + bots)
                                          ELSE Len(servera2sply)

Aged ==
    [i \in DOMAIN servera2sply |->
        IF i <= UsePlayers THEN servera2sply[i] + Diff ELSE servera2sply[i]]

\* The answer is built anew when seconds have passed, and only the entries it
\* shows get older.
OnReceiveClientReqA2SPlayers ==
    /\ a2sply_firstbuild' =
           IF lastsendlistupdate = -1 THEN now ELSE a2sply_firstbuild
    /\ lastsendlistupdate' = now - a2sply_firstbuild'
    /\ IF Diff = 0
       THEN UNCHANGED <<servera2sply, srca2splayer>>
       ELSE servera2sply' = Aged /\ srca2splayer' = SubSeq(Aged, 1, UsePlayers)
    /\ UNCHANGED <<extraplayers, counts, now, base>>

-----------------------------------------------------------------------------
Tick ==
    /\ now < MaxTime
    /\ now' = now + 1
    /\ UNCHANGED <<extraplayers, counts, list>>

Init ==
    /\ extraplayers \in 0..MaxExtra
    /\ players = 0
    /\ bots = 0
    /\ plyreducecnt = 3
    /\ srca2sinfo = 0
    /\ servera2sply = <<>>
    /\ a2sply_firstbuild = 0
    /\ lastsendlistupdate = -1
    /\ srca2splayer = <<>>
    /\ now = 0
    /\ reported = 0
    /\ lower = 0
    /\ base = 0

InfoReply ==
    \E r \in 0..Slots, b \in 0..MaxBots, whole \in BOOLEAN :
        OnReceiveSourceServerA2SInfo(r, b, whole)

Next ==
    \/ InfoReply
    \/ \E n \in 0..Slots : OnReceiveSourceServerA2SPlayers(n)
    \/ OnReceiveClientReqA2SPlayers
    \/ Tick

Spec == Init /\ [][Next]_vars

\* The worker keeps asking for the info, and the game server answers.
FairSpec == Spec /\ WF_vars(InfoReply)

-----------------------------------------------------------------------------
\* Every variable keeps its type; the counts stay bytes, and plyreducecnt and
\* the times stay within their bounds.
TypeOK ==
    /\ extraplayers \in 0..MaxExtra
    /\ players \in Bytes
    /\ bots \in 0..MaxBots
    /\ plyreducecnt \in 0..3
    /\ srca2sinfo \in Bytes \cup {-1}
    /\ servera2sply \in Seq(0..MaxTime)
    /\ Len(servera2sply) <= Slots
    /\ a2sply_firstbuild \in 0..MaxTime
    /\ lastsendlistupdate \in -1..MaxTime
    /\ srca2splayer \in Seq(0..MaxTime)
    /\ now \in 0..MaxTime
    /\ reported \in 0..Slots
    /\ lower \in 0..3
    /\ base \in -1..MaxTime

\* The count never hides a player the game server reported last, as long as
\* the report fits a signed char; one of 128 players or more is read as a
\* negative number, and so lets the count fall.
CoversReport == reported < ByteSize \div 2 => players >= reported

\* Whoever has left is taken off the count one at a time, and each only with the
\* fourth lower report since the one before.  The four need not come in a row:
\* reports of the same count or a higher one may be between them.
FallsSlowly ==
    [][players' < players => players' = players - 1 /\ lower = 3]_vars

\* The time added to a player of the list is time that has passed since the
\* answer was built last before the list arrived: no more than that, but it may
\* be less, down to nothing.
AgesWithTime ==
    \A i \in DOMAIN servera2sply : servera2sply[i] <= now - base

\* Once the game server keeps reporting the same count, one that fits a signed
\* char, the worker comes down to it.
Converges ==
    \A r \in 0..Slots :
        r < ByteSize \div 2 => (<>[](reported = r) => <>[](players = r))
=============================================================================
