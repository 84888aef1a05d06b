---------------------------- MODULE A2SNodeProofs ----------------------------
(***************************************************************************)
(* Proofs about one A2SServer, for any number of masters, any clock limits *)
(* and any of its settings.  Its handlers are operators on steps; the      *)
(* lemmas say of each operator what it may add to a step, and compose.     *)
(***************************************************************************)
EXTENDS A2SNode, TLAPS

Steps ==
    [w: A2SServer, out: SUBSET Outputs, masters: SUBSET (0..MasterCount)]

\* Start-up ends only with a datagram from the game server.
StartedIsHeard == w.justinited = 0 => w.heard

NodeInv ==
    /\ TypeOK
    /\ StartedIsHeard
    /\ SilentUntilHeard

-----------------------------------------------------------------------------
(* The parts of a step.                                                    *)

\* Sending changes only what is sent.
LEMMA SendsFacts ==
    ASSUME NEW s \in Steps, NEW o \in Outputs
    PROVE  /\ Sends(s, o) \in Steps
           /\ Sends(s, o).w = s.w
           /\ Sends(s, o).out = s.out \cup {o}
           /\ Sends(s, o).masters = s.masters
BY DEF Sends, Steps

\* Changing the worker changes only the worker.
LEMMA WorkerSet ==
    ASSUME NEW s \in Steps, NEW v \in A2SServer
    PROVE  /\ [s EXCEPT !.w = v] \in Steps
           /\ [s EXCEPT !.w = v].w = v
           /\ [s EXCEPT !.w = v].out = s.out
           /\ [s EXCEPT !.w = v].masters = s.masters
BY DEF Steps

\* A challenge moves the rotation on, and no further than one past the array.
LEMMA ChallengeFacts ==
    ASSUME NEW s \in Steps
    PROVE  LET r == RequestMasterServerChallenge(s) IN
           /\ r \in Steps
           /\ r.out = s.out
           /\ r.w.heard = s.w.heard
           /\ r.w.justinited = s.w.justinited
<1> DEFINE i == IF s.w.curmasterserv > MasterCount THEN 0 ELSE s.w.curmasterserv
           v == [s.w EXCEPT !.curmasterserv = i + 1]
<1>1. /\ s.w \in A2SServer
      /\ s = [w |-> s.w, out |-> s.out, masters |-> s.masters]
      /\ s.out \subseteq Outputs /\ s.masters \subseteq 0..MasterCount
  BY DEF Steps
<1>2. i \in 0..MasterCount /\ i + 1 \in 0..(MasterCount + 1)
  BY <1>1, SettingsAssumption DEF A2SServer
<1>3. /\ v \in A2SServer
      /\ v.heard = s.w.heard
      /\ v.justinited = s.w.justinited
  BY <1>1, <1>2 DEF A2SServer
<1>4. RequestMasterServerChallenge(s) = Challenges(s, i)
  BY DEF RequestMasterServerChallenge
<1> HIDE DEF i
<1>5. Challenges(s, i) =
          [w |-> v, out |-> s.out, masters |-> s.masters \cup {i}]
  BY <1>1 DEF Challenges
<1> HIDE DEF v
<1> QED BY <1>1, <1>2, <1>3, <1>4, <1>5 DEF Steps

-----------------------------------------------------------------------------
(* The three refreshes.                                                    *)

\* What a refresh may do: nothing but asking for the info before the game
\* server was heard, and nothing to a master with nomaster.
Refreshes(s, r) ==
    /\ r \in Steps
    /\ r.w.heard = s.w.heard
    /\ r.w.justinited = 0 <=> s.w.justinited = 0
    /\ s.w.justinited # 0 => r.out \subseteq s.out \cup {"info"}
    /\ NoMaster => r.masters = s.masters
    /\ "heartbeat" \in r.out => "heartbeat" \in s.out

LEMMA RefreshesTwice ==
    ASSUME NEW s, NEW r, NEW q, Refreshes(s, r), Refreshes(r, q)
    PROVE  Refreshes(s, q)
BY DEF Refreshes

LEMMA MasterRefreshes ==
    ASSUME NEW s \in Steps
    PROVE  Refreshes(s, RequestMasterDataIfNeeded(s))
<1> DEFINE v == [s.w EXCEPT !.sincemaster = 0]
           t == [s EXCEPT !.w.sincemaster = 0]
<1>1. s.w \in A2SServer
  BY DEF Steps
<1>2. /\ v \in A2SServer
      /\ v.heard = s.w.heard
      /\ v.justinited = s.w.justinited
  BY <1>1, SettingsAssumption DEF A2SServer
<1>3. t = [s EXCEPT !.w = v]
  BY DEF Steps
<1>4. t \in Steps /\ t.w = v /\ t.out = s.out /\ t.masters = s.masters
  BY <1>2, <1>3, WorkerSet
<1>5. CASE s.w.sincemaster < RefreshMaster \/ s.w.justinited # 0
  BY <1>5 DEF RequestMasterDataIfNeeded, Refreshes
<1>6. CASE ~(s.w.sincemaster < RefreshMaster \/ s.w.justinited # 0)
  <2>1. RequestMasterDataIfNeeded(s) =
            IF NoMaster THEN t ELSE RequestMasterServerChallenge(t)
    BY <1>6 DEF RequestMasterDataIfNeeded
  <2>2. s.w.justinited = 0
    BY <1>6
  <2>3. CASE NoMaster
    BY <1>2, <1>4, <2>1, <2>3 DEF Refreshes
  <2>4. CASE ~NoMaster
    BY <1>2, <1>4, <2>1, <2>2, <2>4, ChallengeFacts DEF Refreshes
  <2> QED BY <2>3, <2>4
<1> QED BY <1>5, <1>6

LEMMA InfoRefreshes ==
    ASSUME NEW s \in Steps
    PROVE  Refreshes(s, RequestInfoDataIfNeeded(s))
<1> DEFINE next == IF s.w.justinited # 0 THEN 3 ELSE 0
           v == [s.w EXCEPT !.sinceinfo = 0, !.justinited = next]
           t == [s EXCEPT !.w = v]
<1>1. s.w \in A2SServer
  BY DEF Steps
<1>2. next \in 0..3 /\ (next = 0 <=> s.w.justinited = 0)
  BY <1>1 DEF A2SServer
<1> HIDE DEF next
<1>3. /\ v \in A2SServer
      /\ v.heard = s.w.heard
      /\ v.justinited = next
  <2>1. 0 \in 0..RefreshInfo
    BY SettingsAssumption
  <2> QED BY <1>1, <1>2, <2>1 DEF A2SServer
<1> HIDE DEF v
<1>4. t \in Steps /\ t.w = v /\ t.out = s.out /\ t.masters = s.masters
  BY <1>3, WorkerSet
<1>5. CASE s.w.sinceinfo < RefreshInfo /\ s.w.justinited # 2
  BY <1>5 DEF RequestInfoDataIfNeeded, Refreshes
<1>6. CASE ~(s.w.sinceinfo < RefreshInfo /\ s.w.justinited # 2)
  <2>1. RequestInfoDataIfNeeded(s) = Sends(t, "info")
    BY <1>6 DEF RequestInfoDataIfNeeded, next, v
  <2>2. "info" \in Outputs
    BY DEF Outputs, Requests
  <2> HIDE DEF t
  <2>3. /\ Sends(t, "info") \in Steps
        /\ Sends(t, "info").w = v
        /\ Sends(t, "info").out = s.out \cup {"info"}
        /\ Sends(t, "info").masters = s.masters
    BY <1>4, <2>2, SendsFacts
  <2> QED BY <1>2, <1>3, <2>1, <2>3 DEF Refreshes
<1> QED BY <1>5, <1>6

LEMMA PlayerRefreshes ==
    ASSUME NEW s \in Steps
    PROVE  Refreshes(s, RequestPlayerDataIfNeeded(s))
<1> DEFINE v == [s.w EXCEPT !.sinceinfo = 0]
           t == [s EXCEPT !.w.sinceinfo = 0]
           asked == Sends(t, "info")
           u == [asked.w EXCEPT !.sinceply = 0]
           reset == [asked EXCEPT !.w.sinceply = 0]
           listed == IF s.w.sinceply > RefreshPly
                     THEN Sends(reset, "players") ELSE asked
<1>1. CASE s.w.sinceply < RefreshPly \/ s.w.justinited # 0
  BY <1>1 DEF RequestPlayerDataIfNeeded, Refreshes
<1>2. CASE ~(s.w.sinceply < RefreshPly \/ s.w.justinited # 0)
  <2>1. RequestPlayerDataIfNeeded(s) =
            IF NoMaster THEN listed ELSE RequestMasterServerChallenge(listed)
    BY <1>2 DEF RequestPlayerDataIfNeeded
  <2>2. s.w.justinited = 0 /\ s.w \in A2SServer
    BY <1>2 DEF Steps
  <2>3. /\ v \in A2SServer
        /\ v.heard = s.w.heard
        /\ v.justinited = s.w.justinited
    BY <2>2, SettingsAssumption DEF A2SServer
  <2>4. t = [s EXCEPT !.w = v]
    BY DEF Steps
  <2>5. t \in Steps /\ t.w = v /\ t.out = s.out /\ t.masters = s.masters
    BY <2>3, <2>4, WorkerSet
  <2>6. "info" \in Outputs /\ "players" \in Outputs
    BY DEF Outputs, Requests
  <2>7. /\ asked \in Steps /\ asked.w = v /\ asked.out = s.out \cup {"info"}
        /\ asked.masters = s.masters
    BY <2>5, <2>6, SendsFacts
  <2>8. /\ u \in A2SServer
        /\ u.heard = s.w.heard
        /\ u.justinited = s.w.justinited
    BY <2>3, <2>7, SettingsAssumption DEF A2SServer
  <2>9. reset = [asked EXCEPT !.w = u]
    BY <2>7 DEF Steps
  <2>10. /\ reset \in Steps /\ reset.w = u /\ reset.out = asked.out
         /\ reset.masters = s.masters
    BY <2>7, <2>8, <2>9, WorkerSet
  <2>11. /\ listed \in Steps
         /\ listed.w.heard = s.w.heard
         /\ listed.w.justinited = s.w.justinited
         /\ listed.out \subseteq s.out \cup {"info", "players"}
         /\ listed.masters = s.masters
    <3>1. CASE s.w.sinceply > RefreshPly
      <4>1. listed = Sends(reset, "players")
        BY <3>1
      <4> HIDE DEF reset, u, asked, listed
      <4>2. /\ Sends(reset, "players") \in Steps
            /\ Sends(reset, "players").w = u
            /\ Sends(reset, "players").out = asked.out \cup {"players"}
            /\ Sends(reset, "players").masters = s.masters
        BY <2>6, <2>10, SendsFacts
      <4> QED BY <2>7, <2>8, <4>1, <4>2
    <3>2. CASE ~(s.w.sinceply > RefreshPly)
      <4>1. listed = asked
        BY <3>2
      <4> QED BY <2>3, <2>7, <4>1
    <3> QED BY <3>1, <3>2
  <2> HIDE DEF listed
  <2>12. CASE NoMaster
    BY <2>1, <2>2, <2>11, <2>12 DEF Refreshes
  <2>13. CASE ~NoMaster
    BY <2>1, <2>2, <2>11, <2>13, ChallengeFacts DEF Refreshes
  <2> QED BY <2>12, <2>13
<1> QED BY <1>1, <1>2

\* All three of them, from where Think starts.
LEMMA RefreshedFacts ==
    ASSUME TypeOK
    PROVE  Refreshes(Step, Refreshed)
<1>1. Step \in Steps
  BY DEF TypeOK, Step, Steps
<1> DEFINE a == RequestMasterDataIfNeeded(Step)
           b == RequestInfoDataIfNeeded(a)
<1>2. Refreshes(Step, a)
  BY <1>1, MasterRefreshes
<1>3. Refreshes(a, b)
  BY <1>2, InfoRefreshes DEF Refreshes
<1>4. Refreshes(b, Refreshed)
  BY <1>3, PlayerRefreshes DEF Refreshes, Refreshed
<1> HIDE DEF a, b
<1> QED BY <1>2, <1>3, <1>4, RefreshesTwice

-----------------------------------------------------------------------------
(* The invariant holds initially and is kept by every action.              *)

\* A worker that has not been heard is not started, and silent.
LEMMA InitNodeInv == Init => NodeInv
<1> SUFFICES ASSUME Init PROVE NodeInv
  OBVIOUS
<1>1. PICK up \in 0..(RefreshInfo + RefreshMaster + RefreshPly + 1),
           m \in 0..((IF MasterCount < 4 THEN MasterCount ELSE 4) - 1) :
          w = [justinited |-> 1,
               sinceinfo |-> IF up < RefreshInfo THEN up ELSE RefreshInfo,
               sincemaster |-> IF up < RefreshMaster THEN up ELSE RefreshMaster,
               sinceply |-> IF up < RefreshPly + 1 THEN up ELSE RefreshPly + 1,
               curmasterserv |-> m,
               plychallenge |-> FALSE,
               srca2sinfo |-> FALSE,
               heard |-> FALSE]
  BY DEF Init
<1>2. m \in 0..(MasterCount + 1)
  BY SettingsAssumption
<1>3. w \in A2SServer
  BY <1>1, <1>2, SettingsAssumption DEF A2SServer
<1> QED
  BY <1>1, <1>3
     DEF Init, NodeInv, TypeOK, StartedIsHeard, SilentUntilHeard

\* A step of the worker that ends with r.
LEMMA BecomesKeepsNodeInv ==
    ASSUME NodeInv, NEW r \in Steps, Becomes(r), fromSource' \subseteq fromSource,
           r.w.justinited = 0 => r.w.heard,
           r.w.heard \/ r.out \subseteq {"info", "heartbeat"}
    PROVE  NodeInv'
<1>1. /\ w' = r.w /\ sent' = r.out /\ challenged' = r.masters
      /\ toSource' = toSource \cup (r.out \cap Requests)
  BY DEF Becomes
<1>2. TypeOK'
  BY <1>1 DEF NodeInv, TypeOK, Steps
<1> QED BY <1>1, <1>2 DEF NodeInv, StartedIsHeard, SilentUntilHeard

\* With nomaster, a started worker leaves the masters alone.
Hidden ==
    NoMaster /\ w.justinited = 0 =>
        /\ challenged' = {}
        /\ "heartbeat" \notin sent'

\* Think, before the socket was opened.
LEMMA FirstThinkKeepsNodeInv ==
    ASSUME NodeInv, FirstThink PROVE NodeInv' /\ Hidden
<1> DEFINE v == [w EXCEPT !.justinited = 2]
           greeted == [w |-> v, out |-> {}, masters |-> 0..(MasterCount - 1)]
           r == RequestInfoDataIfNeeded(greeted)
<1>1. w \in A2SServer /\ w.justinited = 1
  BY DEF NodeInv, TypeOK, FirstThink
<1>2. v \in A2SServer /\ v.justinited = 2
  BY <1>1 DEF A2SServer
<1>3. greeted \in Steps
  BY <1>2, SettingsAssumption DEF Steps
<1>4. Refreshes(greeted, r)
  BY <1>3, InfoRefreshes
<1>5. Becomes(r) /\ fromSource' = fromSource
  BY DEF FirstThink
<1> HIDE DEF r
<1>6. r.w.justinited # 0 /\ r.out \subseteq {"info"}
  <2> HIDE DEF v
  <2>1. greeted.w = v /\ greeted.out = {}
    OBVIOUS
  <2> HIDE DEF greeted
  <2>2. greeted.w.justinited # 0
    BY <1>2, <2>1
  <2>3. r.w.justinited # 0
    BY <1>4, <2>2 DEF Refreshes
  <2>4. r.out \subseteq greeted.out \cup {"info"}
    BY <1>4, <2>2 DEF Refreshes
  <2> QED BY <2>1, <2>3, <2>4
<1>7. NodeInv'
  BY <1>4, <1>5, <1>6, BecomesKeepsNodeInv DEF Refreshes
<1> QED BY <1>1, <1>7 DEF Hidden

\* What the refreshes leave to the handlers.
LEMMA RefreshedWorker ==
    ASSUME NodeInv
    PROVE  /\ Refreshed \in Steps
           /\ Refreshed.w.heard = w.heard
           /\ Refreshed.w.justinited = 0 <=> w.justinited = 0
           /\ w.justinited # 0 => Refreshed.out \subseteq {"info"}
           /\ NoMaster => Refreshed.masters = {}
           /\ "heartbeat" \notin Refreshed.out
BY RefreshedFacts DEF NodeInv, Refreshes, Step

\* Game traffic is handed on, or not.
LEMMA ToProxyFacts ==
    ASSUME NEW s \in Steps
    PROVE  /\ ToProxy(s) \in Steps
           /\ ToProxy(s).w = s.w
           /\ ToProxy(s).masters = s.masters
           /\ ToProxy(s).out \subseteq s.out \cup {"to proxy"}
<1>1. "to proxy" \in Outputs
  BY DEF Outputs
<1> QED BY <1>1, SendsFacts DEF ToProxy

\* A datagram from the game server ends the start-up; later ones do not reach
\* a master.
LEMMA SourceDataFacts ==
    ASSUME NEW s \in Steps, NEW d \in Datagrams
    PROVE  LET r == OnReceiveSourceServerA2SData(s, d) IN
           /\ r \in Steps
           /\ r.w.heard
           /\ s.w.justinited = 0 => r.masters = s.masters
           /\ "heartbeat" \in r.out => "heartbeat" \in s.out
<1> DEFINE v == [s.w EXCEPT !.heard = TRUE]
           h == [s EXCEPT !.w.heard = TRUE]
           x == [v EXCEPT !.justinited = 0]
           i == [h EXCEPT !.w.justinited = 0]
           r == Initialised(s)
<1>1. s.w \in A2SServer
  BY DEF Steps
<1>2. v \in A2SServer /\ v.heard /\ v.justinited = s.w.justinited
  BY <1>1 DEF A2SServer
<1>3. h = [s EXCEPT !.w = v]
  BY DEF Steps
<1>4. h \in Steps /\ h.w = v /\ h.out = s.out /\ h.masters = s.masters
  BY <1>2, <1>3, WorkerSet
<1> HIDE DEF v
<1>5. x \in A2SServer /\ x.heard
  BY <1>2 DEF A2SServer
<1>6. i = [h EXCEPT !.w = x]
  BY <1>4 DEF Steps
<1> HIDE DEF x
<1>7. i \in Steps /\ i.w = x /\ i.out = s.out
  <2> HIDE DEF h
  <2> QED BY <1>4, <1>5, <1>6, WorkerSet
<1>8. /\ r \in Steps
      /\ r.w.heard
      /\ s.w.justinited = 0 => r.masters = s.masters
      /\ r.out = s.out
  <2>1. CASE s.w.justinited = 0
    <3>1. r = h
      BY <1>2, <1>4, <2>1 DEF Initialised
    <3> QED BY <1>2, <1>4, <3>1
  <2>2. CASE s.w.justinited # 0
    <3>1. r = RequestMasterServerChallenge(i)
      BY <1>2, <1>4, <2>2 DEF Initialised
    <3> QED BY <1>5, <1>7, <2>2, <3>1, ChallengeFacts
  <2> QED BY <2>1, <2>2
<1> HIDE DEF r
<1>9. CASE d = "I"
  <2> DEFINE y == [r.w EXCEPT !.srca2sinfo = TRUE]
  <2>1. y \in A2SServer /\ y.heard
    BY <1>8 DEF Steps, A2SServer
  <2>2. OnReceiveSourceServerA2SData(s, d) = [r EXCEPT !.w.srca2sinfo = TRUE]
    BY <1>9 DEF OnReceiveSourceServerA2SData, r
  <2>3. [r EXCEPT !.w.srca2sinfo = TRUE] = [r EXCEPT !.w = y]
    BY <1>8 DEF Steps
  <2> HIDE DEF y
  <2>4. /\ [r EXCEPT !.w = y] \in Steps
        /\ [r EXCEPT !.w = y].w = y
        /\ [r EXCEPT !.w = y].out = r.out
        /\ [r EXCEPT !.w = y].masters = r.masters
    BY <1>8, <2>1, WorkerSet
  <2> QED BY <1>8, <2>1, <2>2, <2>3, <2>4
<1>10. CASE d = "A"
  <2> DEFINE y == [r.w EXCEPT !.plychallenge = TRUE]
             t == [r EXCEPT !.w.plychallenge = TRUE]
  <2>1. y \in A2SServer /\ y.heard
    BY <1>8 DEF Steps, A2SServer
  <2>2. OnReceiveSourceServerA2SData(s, d) = Sends(t, "players with challenge")
    BY <1>10 DEF OnReceiveSourceServerA2SData, r
  <2>3. t = [r EXCEPT !.w = y]
    BY <1>8 DEF Steps
  <2>4. t \in Steps /\ t.w = y /\ t.out = r.out /\ t.masters = r.masters
    BY <1>8, <2>1, <2>3, WorkerSet
  <2>5. "players with challenge" \in Outputs
    BY DEF Outputs, Requests
  <2> HIDE DEF t, y
  <2>6. /\ Sends(t, "players with challenge") \in Steps
        /\ Sends(t, "players with challenge").w = y
        /\ Sends(t, "players with challenge").out
               = r.out \cup {"players with challenge"}
        /\ Sends(t, "players with challenge").masters = r.masters
    BY <2>4, <2>5, SendsFacts
  <2> DEFINE q == Sends(t, "players with challenge")
  <2> HIDE DEF q
  <2>7. q \in Steps /\ q.w = y /\ q.masters = r.masters
    BY <2>6 DEF q
  <2>8. "heartbeat" \in q.out => "heartbeat" \in s.out
    BY <1>8, <2>6 DEF q
  <2>9. OnReceiveSourceServerA2SData(s, d) = q
    BY <2>2 DEF q
  <2> QED BY <1>8, <2>1, <2>7, <2>8, <2>9
<1>11. CASE d = "D"
  BY <1>8, <1>11 DEF OnReceiveSourceServerA2SData, r
<1>12. CASE d \notin {"I", "A", "D"}
  <2>1. OnReceiveSourceServerA2SData(s, d) = ToProxy(r)
    BY <1>12 DEF OnReceiveSourceServerA2SData, r
  <2>2. /\ ToProxy(r) \in Steps
        /\ ToProxy(r).w = r.w
        /\ ToProxy(r).masters = r.masters
        /\ ToProxy(r).out \subseteq r.out \cup {"to proxy"}
    BY <1>8, ToProxyFacts
  <2>3. ToProxy(r).w.heard
    BY <1>8, <2>2
  <2>4. "heartbeat" \in ToProxy(r).out => "heartbeat" \in s.out
    BY <1>8, <2>2
  <2>5. s.w.justinited = 0 => ToProxy(r).masters = s.masters
    BY <1>8, <2>2
  <2> QED BY <2>1, <2>2, <2>3, <2>4, <2>5
<1> QED BY <1>9, <1>10, <1>11, <1>12

\* Clients change nothing of the worker, and get nothing from one that has not
\* started.
LEMMA ClientDataFacts ==
    ASSUME NEW s \in Steps, NEW d \in ClientData
    PROVE  LET r == OnReceiveClientData(s, d) IN
           /\ r \in Steps
           /\ r.w = s.w
           /\ r.masters = s.masters
           /\ s.w.justinited # 0 => r = s
           /\ "heartbeat" \in r.out => "heartbeat" \in s.out
<1> DEFINE r == OnReceiveClientData(s, d)
<1>1. {"info answer", "challenge answer", "players answer"} \subseteq Outputs
  BY DEF Outputs
<1>2. CASE s.w.justinited # 0
  BY <1>2 DEF OnReceiveClientData
<1>3. CASE s.w.justinited = 0
  <2>1. CASE d = "T ours" /\ ~A2SIgnore
    <3>1. r = Sends(s, "info answer")
      BY <1>3, <2>1 DEF OnReceiveClientData
    <3> QED BY <1>1, <1>3, <3>1, SendsFacts
  <2>2. CASE d = "U"
    <3>1. r = Sends(Sends(s, "challenge answer"), "info answer")
      BY <1>3, <2>2 DEF OnReceiveClientData
    <3>2. /\ Sends(s, "challenge answer") \in Steps
          /\ Sends(s, "challenge answer").w = s.w
          /\ Sends(s, "challenge answer").masters = s.masters
          /\ Sends(s, "challenge answer").out = s.out \cup {"challenge answer"}
      BY <1>1, SendsFacts
    <3> DEFINE t == Sends(s, "challenge answer")
    <3> HIDE DEF t
    <3>3. /\ t \in Steps /\ t.w = s.w /\ t.masters = s.masters
          /\ t.out = s.out \cup {"challenge answer"}
      BY <3>2 DEF t
    <3>4. /\ Sends(t, "info answer") \in Steps
          /\ Sends(t, "info answer").w = s.w
          /\ Sends(t, "info answer").masters = s.masters
          /\ Sends(t, "info answer").out = t.out \cup {"info answer"}
      BY <1>1, <3>3, SendsFacts
    <3>5. r = Sends(t, "info answer")
      BY <3>1 DEF t
    <3> QED BY <1>3, <3>3, <3>4, <3>5
  <2>3. CASE d = "U with challenge"
    <3>1. r = Sends(s, "players answer")
      BY <1>3, <2>3 DEF OnReceiveClientData
    <3> QED BY <1>1, <1>3, <3>1, SendsFacts
  <2>4. CASE d \in {"connect", "game", "short"}
    <3>1. r = ToProxy(s)
      BY <1>3, <2>4 DEF OnReceiveClientData
    <3>2. /\ ToProxy(s) \in Steps
          /\ ToProxy(s).w = s.w
          /\ ToProxy(s).masters = s.masters
          /\ ToProxy(s).out \subseteq s.out \cup {"to proxy"}
      BY ToProxyFacts
    <3>3. "heartbeat" \in ToProxy(s).out => "heartbeat" \in s.out
      BY <3>2
    <3> QED BY <1>3, <3>1, <3>2, <3>3
  <2>5. CASE /\ ~(d = "T ours" /\ ~A2SIgnore)
             /\ d \notin {"U", "U with challenge", "connect", "game", "short"}
    <3>1. r = s
      BY <1>3, <2>5 DEF OnReceiveClientData
    <3> QED BY <1>3, <3>1
  <2> QED BY <2>1, <2>2, <2>3, <2>4, <2>5
<1> QED BY <1>2, <1>3

\* Think, once the socket is open.
LEMMA ThinkKeepsNodeInv ==
    ASSUME NodeInv,
           \/ ThinkNoData
           \/ ThinkMaster
           \/ \E d \in Datagrams : ThinkSource(d)
           \/ \E d \in ClientData : ThinkClient(d)
    PROVE  NodeInv' /\ Hidden
<1> DEFINE r == Refreshed
<1>1. /\ r \in Steps
      /\ r.w.heard = w.heard
      /\ r.w.justinited = 0 <=> w.justinited = 0
      /\ w.justinited # 0 => r.out \subseteq {"info"}
      /\ NoMaster => r.masters = {}
      /\ "heartbeat" \notin r.out
  BY RefreshedWorker
<1>2. w.justinited = 0 => w.heard
  BY DEF NodeInv, StartedIsHeard
<1>3. w.heard \in BOOLEAN
  BY DEF NodeInv, TypeOK, A2SServer
<1> HIDE DEF r
<1>4. CASE ThinkNoData
  <2>1. Becomes(r) /\ fromSource' = fromSource
    BY <1>4 DEF ThinkNoData, r
  <2>2. NodeInv'
    BY <1>1, <1>2, <2>1, BecomesKeepsNodeInv
  <2> QED BY <1>1, <2>1, <2>2 DEF Becomes, Hidden
<1>5. CASE ThinkMaster
  <2> DEFINE q == OnReceiveMasterServerData(r)
  <2>1. Becomes(q) /\ fromSource' = fromSource
    BY <1>5 DEF ThinkMaster, r
  <2>2. "heartbeat" \in Outputs
    BY DEF Outputs
  <2>3. /\ q \in Steps
        /\ q.w = r.w
        /\ q.out \subseteq r.out \cup {"heartbeat"}
        /\ NoMaster => q = r
    BY <1>1, <2>2, SendsFacts DEF OnReceiveMasterServerData
  <2> HIDE DEF q
  <2>4. NodeInv'
    BY <1>1, <1>2, <2>1, <2>3, BecomesKeepsNodeInv
  <2> QED BY <1>1, <2>1, <2>3, <2>4 DEF Becomes, Hidden
<1>6. ASSUME NEW d \in Datagrams, ThinkSource(d)
      PROVE  NodeInv' /\ Hidden
  <2> DEFINE q == OnReceiveSourceServerA2SData(r, d)
  <2>1. Becomes(q) /\ fromSource' \subseteq fromSource
    BY <1>6 DEF ThinkSource, r
  <2>2. /\ q \in Steps
        /\ q.w.heard
        /\ r.w.justinited = 0 => q.masters = r.masters
        /\ "heartbeat" \in q.out => "heartbeat" \in r.out
    BY <1>1, SourceDataFacts
  <2> HIDE DEF q
  <2>3. NodeInv'
    BY <2>1, <2>2, BecomesKeepsNodeInv
  <2> QED BY <1>1, <2>1, <2>2, <2>3 DEF Becomes, Hidden
<1>7. ASSUME NEW d \in ClientData, ThinkClient(d)
      PROVE  NodeInv' /\ Hidden
  <2> DEFINE q == OnReceiveClientData(r, d)
  <2>1. Becomes(q) /\ fromSource' = fromSource
    BY <1>7 DEF ThinkClient, r
  <2>2. /\ q \in Steps
        /\ q.w = r.w
        /\ q.masters = r.masters
        /\ r.w.justinited # 0 => q = r
        /\ "heartbeat" \in q.out => "heartbeat" \in r.out
    BY <1>1, ClientDataFacts
  <2> HIDE DEF q
  <2>3. NodeInv'
    BY <1>1, <1>2, <2>1, <2>2, BecomesKeepsNodeInv
  <2> QED BY <1>1, <2>1, <2>2, <2>3 DEF Becomes, Hidden
<1> QED BY <1>4, <1>5, <1>6, <1>7

\* The game server, the network and the clock.
LEMMA ElsewhereKeepsNodeInv ==
    ASSUME NodeInv,
           \/ \E q \in Requests, d \in Datagrams : SourceAnswers(q, d)
           \/ SourceSendsGameData
           \/ NetworkLoses
    PROVE  NodeInv' /\ Hidden
<1>1. /\ sent' = {} /\ challenged' = {} /\ w' = w
      /\ toSource' \subseteq toSource
      /\ fromSource' \subseteq fromSource \cup Datagrams
  BY DEF SourceAnswers, SourceSendsGameData, NetworkLoses, NothingSent, Datagrams
<1> QED
  BY <1>1 DEF NodeInv, TypeOK, StartedIsHeard, SilentUntilHeard, Hidden

LEMMA TickKeepsNodeInv ==
    ASSUME NodeInv, Tick PROVE NodeInv' /\ Hidden
<1>1. w \in A2SServer
  BY DEF NodeInv, TypeOK
<1> DEFINE Until(n, limit) == IF n = limit THEN n ELSE n + 1
           a == Until(w.sinceinfo, RefreshInfo)
           b == Until(w.sincemaster, RefreshMaster)
           c == Until(w.sinceply, RefreshPly + 1)
<1>2. /\ w' = [w EXCEPT !.sinceinfo = a, !.sincemaster = b, !.sinceply = c]
      /\ sent' = {} /\ challenged' = {} /\ UNCHANGED <<toSource, fromSource>>
  BY <1>1 DEF Tick, NothingSent, A2SServer
<1>3. a \in 0..RefreshInfo /\ b \in 0..RefreshMaster /\ c \in 0..(RefreshPly + 1)
  BY <1>1, SettingsAssumption DEF A2SServer
<1> HIDE DEF a, b, c
<1>4. /\ w' \in A2SServer
      /\ w'.heard = w.heard /\ w'.justinited = w.justinited
  BY <1>1, <1>2, <1>3 DEF A2SServer
<1> QED
  BY <1>2, <1>4
     DEF NodeInv, TypeOK, StartedIsHeard, SilentUntilHeard, Hidden

\* Every step keeps the invariant and leaves the masters alone.
LEMMA NextNodeInv ==
    NodeInv /\ [Next]_vars => NodeInv' /\ [Hidden]_vars
<1> SUFFICES ASSUME NodeInv, [Next]_vars
             PROVE  NodeInv' /\ [Hidden]_vars
  OBVIOUS
<1>1. CASE Think
  BY <1>1, FirstThinkKeepsNodeInv, ThinkKeepsNodeInv DEF Think
<1>2. CASE \/ \E q \in Requests, d \in Datagrams : SourceAnswers(q, d)
           \/ SourceSendsGameData
           \/ NetworkLoses
  BY <1>2, ElsewhereKeepsNodeInv
<1>3. CASE Tick
  BY <1>3, TickKeepsNodeInv
<1>4. CASE UNCHANGED vars
  BY <1>4 DEF NodeInv, TypeOK, StartedIsHeard, SilentUntilHeard, vars
<1> QED BY <1>1, <1>2, <1>3, <1>4 DEF Next

-----------------------------------------------------------------------------
\* The inductive invariant of an A2SServer holds in every reachable state.
THEOREM NodeInvariant == Spec => []NodeInv
BY InitNodeInv, NextNodeInv, PTL DEF Spec

\* Types are kept; the rotation goes no further than one past the masters.
THEOREM NodeTypes == Spec => []TypeOK
<1>1. NodeInv => TypeOK
  BY DEF NodeInv
<1> QED BY <1>1, NodeInvariant, PTL

\* SilentUntilHeard, for all settings.
THEOREM UnheardIsSilent == Spec => []SilentUntilHeard
<1>1. NodeInv => SilentUntilHeard
  BY DEF NodeInv
<1> QED BY <1>1, NodeInvariant, PTL

\* HiddenFromMasters, for all settings and clocks.
THEOREM NoMasterIsHidden == Spec => HiddenFromMasters
<1>1. NodeInv /\ [Next]_vars => [Hidden]_vars
  BY NextNodeInv
<1>2. Hidden <=> (NoMaster /\ w.justinited = 0 =>
                      challenged' = {} /\ "heartbeat" \notin sent')
  BY DEF Hidden
<1> QED BY <1>1, <1>2, NodeInvariant, PTL DEF Spec, HiddenFromMasters
=============================================================================
