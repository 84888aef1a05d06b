------------------------------- MODULE A2SNode -------------------------------
(***************************************************************************)
(* One A2SServer of a node worker: how it starts, when it asks the game    *)
(* server and the Steam masters for what, and what it does with each kind  *)
(* of datagram.  Every handler is an operator from the worker's state to   *)
(* the worker's state; Think runs the three refreshes and then at most one *)
(* handler, as the code does.                                              *)
(*                                                                         *)
(* The clocks lastrefreshtime, lastrefreshtimemaster and                   *)
(* lastrefreshtime_a2sply are kept as ticks elapsed, stopping where the    *)
(* code's comparisons can no longer tell; the player clock has one tick    *)
(* more, because the code compares it both with >= and with >.  Datagrams  *)
(* to and from the game server may be lost, duplicated and reordered.      *)
(***************************************************************************)
EXTENDS Integers, FiniteSets

CONSTANTS MasterCount,     \* A2S_MASTERSERVERCOUNT
          RefreshInfo,     \* A2S_REFRESHTIME, in ticks
          RefreshMaster,   \* A2S_REFRESHTIMEMASTER, in ticks
          RefreshPly,      \* A2S_REFRESHTIMEPLY, in ticks
          NoMaster,        \* the worker's setting nomaster
          SharedPort,      \* the worker's setting sharedport
          A2SIgnore        \* the worker's setting a2signore

ASSUME SettingsAssumption ==
    /\ MasterCount \in Nat \ {0}
    /\ RefreshInfo \in Nat \ {0}
    /\ RefreshMaster \in Nat \ {0}
    /\ RefreshPly \in Nat \ {0}
    /\ NoMaster \in BOOLEAN
    /\ SharedPort \in BOOLEAN
    /\ A2SIgnore \in BOOLEAN

VARIABLES
    w,            \* the A2SServer object
    sent,         \* what the last Think sent, challenges aside
    challenged,   \* the entries of imasterservs it sent a challenge to
    toSource,     \* requests on their way to the game server
    fromSource    \* datagrams on their way from the game server

vars == <<w, sent, challenged, toSource, fromSource>>

A2SServer ==
    [justinited: 0..3,
     sinceinfo: 0..RefreshInfo,
     sincemaster: 0..RefreshMaster,
     sinceply: 0..(RefreshPly + 1),
     curmasterserv: 0..(MasterCount + 1),
     plychallenge: BOOLEAN,    \* the game server's challenge is known
     srca2sinfo: BOOLEAN,      \* an A2S_INFO reply has been stored
     heard: BOOLEAN]           \* history: the game server's address was heard

\* Requests to the game server, and what comes from its address: answers,
\* game traffic of the shared port, and answers the hook did not wrap.
Requests == {"info", "players", "players with challenge"}
Datagrams == {"I", "A", "D", "game", "unwrapped"}

\* Client datagrams: an info query this node should answer or another one
\* should, a player query without and with a challenge, a connection attempt
\* ('q', 'k'), another out-of-band type, and game traffic; all of them of more
\* than five bytes.  A shorter one, whatever its type, counts as overflowed once
\* its type has been read, and so as no query.
ClientData == {"T ours", "T other", "U", "U with challenge", "connect",
               "other", "game", "short"}

Outputs ==
    Requests \cup {"heartbeat", "info answer", "challenge answer",
                  "players answer", "to proxy"}

-----------------------------------------------------------------------------
(* A step of the worker: its state, and what it has sent so far.           *)

Sends(s, o) == [s EXCEPT !.out = @ \cup {o}]

\* A challenge goes to entry i, and the rotation moves on.
Challenges(s, i) ==
    [w |-> [s.w EXCEPT !.curmasterserv = i + 1],
     out |-> s.out,
     masters |-> s.masters \cup {i}]

MutantWrapsEarly(s) ==
    LET i == IF s.w.curmasterserv >= MasterCount - 1 THEN 0
                                                     ELSE s.w.curmasterserv
    IN Challenges(s, i)

RequestMasterServerChallenge(s) ==
    LET i == IF s.w.curmasterserv > MasterCount THEN 0 ELSE s.w.curmasterserv
    IN Challenges(s, i)

RequestMasterDataIfNeeded(s) ==
    IF s.w.sincemaster < RefreshMaster \/ s.w.justinited # 0 THEN s
    ELSE LET r == [s EXCEPT !.w.sincemaster = 0]
         IN IF NoMaster THEN r ELSE RequestMasterServerChallenge(r)

MutantAsksOnce(s) ==
    IF s.w.justinited # 2 /\ (s.w.sinceinfo < RefreshInfo \/ s.w.justinited # 0)
    THEN s
    ELSE Sends([s EXCEPT !.w.sinceinfo = 0,
                         !.w.justinited = IF @ # 0 THEN 3 ELSE 0], "info")

RequestInfoDataIfNeeded(s) ==
    IF s.w.sinceinfo < RefreshInfo /\ s.w.justinited # 2 THEN s
    ELSE LET next == IF s.w.justinited # 0 THEN 3 ELSE 0
             asks == [s.w EXCEPT !.sinceinfo = 0, !.justinited = next]
         IN Sends([s EXCEPT !.w = asks], "info")

\* The player clock is restarted before it is compared a second time.
MutantResetsFirst(s) ==
    IF s.w.sinceply < RefreshPly \/ s.w.justinited # 0 THEN s
    ELSE LET asked == Sends([s EXCEPT !.w.sinceinfo = 0, !.w.sinceply = 0],
                           "info")
             listed == IF s.w.sinceply > RefreshPly
                       THEN Sends(asked, "players") ELSE asked
         IN IF NoMaster THEN listed ELSE RequestMasterServerChallenge(listed)

MutantForgetsNoMaster(s) ==
    IF s.w.sinceply < RefreshPly \/ s.w.justinited # 0 THEN s
    ELSE LET asked == Sends([s EXCEPT !.w.sinceinfo = 0], "info")
             listed == IF s.w.sinceply > RefreshPly
                       THEN Sends([asked EXCEPT !.w.sinceply = 0], "players")
                       ELSE asked
         IN RequestMasterServerChallenge(listed)

MutantStartsUnheard(s) ==
    IF s.w.sinceply < RefreshPly THEN s
    ELSE LET asked == Sends([s EXCEPT !.w.sinceinfo = 0], "info")
             listed == IF s.w.sinceply > RefreshPly
                       THEN Sends([asked EXCEPT !.w.sinceply = 0], "players")
                       ELSE asked
         IN IF NoMaster THEN listed ELSE RequestMasterServerChallenge(listed)

\* The info clock is restarted, not the player clock, unless that one is past
\* its limit and not just at it.
RequestPlayerDataIfNeeded(s) ==
    IF s.w.sinceply < RefreshPly \/ s.w.justinited # 0 THEN s
    ELSE LET asked == Sends([s EXCEPT !.w.sinceinfo = 0], "info")
             listed == IF s.w.sinceply > RefreshPly
                       THEN Sends([asked EXCEPT !.w.sinceply = 0], "players")
                       ELSE asked
         IN IF NoMaster THEN listed ELSE RequestMasterServerChallenge(listed)

\* A master's challenge is answered with a heartbeat.
OnReceiveMasterServerData(s) ==
    IF NoMaster THEN s ELSE Sends(s, "heartbeat")

ToProxy(s) == IF SharedPort THEN Sends(s, "to proxy") ELSE s

\* Anything from the game server's address ends the start-up, before the
\* datagram's size, password and header are looked at.
Initialised(s) ==
    LET r == [s EXCEPT !.w.heard = TRUE]
    IN IF r.w.justinited = 0 THEN r
       ELSE RequestMasterServerChallenge([r EXCEPT !.w.justinited = 0])

OnReceiveSourceServerA2SData(s, d) ==
    LET r == Initialised(s) IN
    CASE d = "I" -> [r EXCEPT !.w.srca2sinfo = TRUE]
      [] d = "A" -> Sends([r EXCEPT !.w.plychallenge = TRUE],
                          "players with challenge")
      [] d = "D" -> r
      [] OTHER   -> ToProxy(r)

\* Clients are ignored until the start-up is over.
OnReceiveClientData(s, d) ==
    IF s.w.justinited # 0 THEN s
    ELSE CASE d = "T ours" /\ ~A2SIgnore -> Sends(s, "info answer")
           [] d = "U" -> Sends(Sends(s, "challenge answer"), "info answer")
           [] d = "U with challenge" -> Sends(s, "players answer")
           [] d \in {"connect", "game", "short"} -> ToProxy(s)
           [] OTHER -> s

-----------------------------------------------------------------------------
(* Every clock starts at the age of the machine: the time points start at  *)
(* zero.  udp is null until the first Think.                               *)

Init ==
    /\ \E up \in 0..(RefreshInfo + RefreshMaster + RefreshPly + 1),
          m \in 0..((IF MasterCount < 4 THEN MasterCount ELSE 4) - 1) :
          LET Stops(n) == IF up < n THEN up ELSE n IN
          w = [justinited |-> 1,
               sinceinfo |-> Stops(RefreshInfo),
               sincemaster |-> Stops(RefreshMaster),
               sinceply |-> Stops(RefreshPly + 1),
               curmasterserv |-> m,
               plychallenge |-> FALSE,
               srca2sinfo |-> FALSE,
               heard |-> FALSE]
    /\ sent = {}
    /\ challenged = {}
    /\ toSource = {}
    /\ fromSource = {}

Step == [w |-> w, out |-> {}, masters |-> {}]

Becomes(s) ==
    /\ w' = s.w
    /\ sent' = s.out
    /\ challenged' = s.masters
    /\ toSource' = toSource \cup (s.out \cap Requests)

\* The first Think opens the socket, contacts every master and asks for the
\* server's info.
FirstThink ==
    /\ w.justinited = 1
    /\ LET greeted == [w |-> [w EXCEPT !.justinited = 2],
                       out |-> {},
                       masters |-> 0..(MasterCount - 1)]
       IN Becomes(RequestInfoDataIfNeeded(greeted))
    /\ UNCHANGED fromSource

Refreshed ==
    RequestPlayerDataIfNeeded(
        RequestInfoDataIfNeeded(
            RequestMasterDataIfNeeded(Step)))

\* Later ones refresh what is due and then handle one datagram, or none.
ThinkNoData ==
    /\ w.justinited # 1
    /\ Becomes(Refreshed)
    /\ UNCHANGED fromSource

ThinkMaster ==
    /\ w.justinited # 1
    /\ Becomes(OnReceiveMasterServerData(Refreshed))
    /\ UNCHANGED fromSource

\* A datagram stays in the network when it has been duplicated.
ThinkSource(d) ==
    /\ w.justinited # 1
    /\ d \in fromSource
    /\ Becomes(OnReceiveSourceServerA2SData(Refreshed, d))
    /\ fromSource' \in {fromSource, fromSource \ {d}}

ThinkClient(d) ==
    /\ w.justinited # 1
    /\ Becomes(OnReceiveClientData(Refreshed, d))
    /\ UNCHANGED fromSource

Think ==
    \/ FirstThink
    \/ ThinkNoData
    \/ ThinkMaster
    \/ \E d \in Datagrams : ThinkSource(d)
    \/ \E d \in ClientData : ThinkClient(d)

-----------------------------------------------------------------------------
(* The game server, behind the hook, and the network.                      *)

NothingSent == sent' = {} /\ challenged' = {}

\* A challenge may have changed when it is used, and is then sent anew.  The
\* answer is wrapped, unless the hook has dropped the entry of this node.
Answers(r) == {"unwrapped"} \cup
    (CASE r = "info"    -> {"I"}
       [] r = "players" -> {"A"}
       [] OTHER         -> {"A", "D"})

SourceAnswers(r, d) ==
    /\ r \in toSource
    /\ d \in Answers(r)
    /\ toSource' = toSource \ {r}
    /\ fromSource' = fromSource \cup {d}
    /\ NothingSent
    /\ UNCHANGED w

\* Game traffic reaches this socket only when the port is shared.
SourceSendsGameData ==
    /\ SharedPort
    /\ fromSource' = fromSource \cup {"game"}
    /\ NothingSent
    /\ UNCHANGED <<w, toSource>>

NetworkLoses ==
    /\ \/ \E r \in toSource : toSource' = toSource \ {r}
          /\ UNCHANGED fromSource
       \/ \E d \in fromSource : fromSource' = fromSource \ {d}
          /\ UNCHANGED toSource
    /\ NothingSent
    /\ UNCHANGED w

Tick ==
    LET Until(n, limit) == IF n = limit THEN n ELSE n + 1 IN
    /\ w' = [w EXCEPT !.sinceinfo = Until(@, RefreshInfo),
                      !.sincemaster = Until(@, RefreshMaster),
                      !.sinceply = Until(@, RefreshPly + 1)]
    /\ NothingSent
    /\ UNCHANGED <<toSource, fromSource>>

Next ==
    \/ Think
    \/ \E r \in Requests, d \in Datagrams : SourceAnswers(r, d)
    \/ SourceSendsGameData
    \/ NetworkLoses
    \/ Tick

Spec == Init /\ [][Next]_vars

\* Think runs in an endless loop; the link to the game server loses some but
\* not all datagrams of a kind, and the server answers; time goes on.
Fairness ==
    /\ WF_vars(Think)
    /\ WF_vars(Tick)
    /\ SF_vars(SourceAnswers("info", "I"))
    /\ SF_vars(SourceAnswers("players", "A"))
    /\ SF_vars(ThinkSource("I"))
    /\ SF_vars(ThinkSource("A"))

FairSpec == Spec /\ Fairness

-----------------------------------------------------------------------------
\* Every variable keeps its type.
TypeOK ==
    /\ w \in A2SServer
    /\ sent \subseteq Outputs
    /\ challenged \subseteq 0..MasterCount
    /\ toSource \subseteq Requests
    /\ fromSource \subseteq Datagrams

\* Before the game server's address was heard no client is served, nothing is
\* passed on for the shared port and no player data is asked for.
SilentUntilHeard ==
    w.heard \/ sent \subseteq {"info", "heartbeat"}

\* A worker with nomaster stays away from the masters once it has started: the
\* first Think and the end of the start-up, which contact them all the same, come
\* before.
HiddenFromMasters ==
    [][NoMaster /\ w.justinited = 0 =>
          /\ challenged' = {}
          /\ "heartbeat" \notin sent']_vars

\* However many datagrams are lost, the info reply is obtained: the first
\* request is repeated until an answer comes.
InfoIsObtained == <>w.srca2sinfo

\* The player list is asked for again and again, and every time some request
\* goes on to carry the game server's challenge.
RefreshesForever ==
    /\ []<>("players" \in sent)
    /\ []<>("players with challenge" \in sent)

\* The rotation reaches every master again and again.
EveryMasterIsContacted ==
    \A i \in 0..(MasterCount - 1) : []<>(i \in challenged)
=============================================================================
