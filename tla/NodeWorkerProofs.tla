--------------------------- MODULE NodeWorkerProofs ---------------------------
(***************************************************************************)
(* Proofs about the worker processes, for any settings, numbers of ports   *)
(* and of processes.  That a replaced worker is heard is not inductive: it *)
(* needs that a launcher that has not died knows of every worker there is, *)
(* and that the sockets of one worker have different ports.                *)
(***************************************************************************)
EXTENDS NodeWorker, TLAPS

\* Until a launcher dies, the only worker is its own.
OnlyTheChildRuns == ~crashed => \A p \in Procs : Running(p) => p = child

\* On a shared port the proxy opens no socket.
SharedHasNoProxySocket ==
    \A p \in Procs : sharedport => proc[p].udp["proxserv"] = "none"

WorkerInv ==
    /\ TypeOK
    /\ OnlyTheChildRuns
    /\ SharedHasNoProxySocket
    /\ WorkersAreHeard

\* Every role has a port, also when the sum of two wraps around.
LEMMA PortsWrap ==
    ASSUME settings \in Settings
    PROVE  \A r \in Roles : PortOf(r) \in Ports
<1>1. /\ settings.a2sport \in 0..(PortCount - 1)
      /\ settings.proxyport \in 0..(PortCount - 1)
  BY WorkerAssumption
<1>2. PortCount \in Nat /\ PortStep \in 1..(PortCount - 1)
  BY WorkerAssumption
<1>3. WrappedPort(settings.a2sport + PortStep) \in Ports
  BY <1>1, <1>2 DEF WrappedPort, Ports
<1> QED BY <1>1, <1>2, <1>3 DEF PortOf, Ports

\* Two sockets of one worker never have the same port.
LEMMA PortsDiffer ==
    ASSUME settings \in Settings,
           NEW r \in Roles, NEW s \in Roles, r # s,
           sharedport => r # "proxserv" /\ s # "proxserv"
    PROVE  PortOf(r) # PortOf(s)
<1>1. /\ settings.a2sport \in 0..(PortCount - 1)
      /\ settings.proxyport \in 0..(PortCount - 1)
      /\ settings.proxyport # WrappedPort(settings.a2sport + PortStep)
  BY WorkerAssumption
<1>2. PortCount \in Nat /\ PortStep \in 1..(PortCount - 1)
  BY WorkerAssumption
<1>3. settings.a2sport # WrappedPort(settings.a2sport + PortStep)
  BY <1>1, <1>2 DEF WrappedPort
<1> QED BY <1>1, <1>3 DEF PortOf, Roles, sharedport

\* No process means no socket.
LEMMA NoProcessIsClosed ==
    /\ NoProcess \notin Process
    /\ NoProcess.thread = "none"
    /\ \A r \in Roles : NoProcess.udp[r] = "none"
BY DEF NoProcess, Process

\* A process is its two fields.
LEMMA ThreadSet ==
    ASSUME NEW process \in Process, NEW t
    PROVE  [process EXCEPT !.thread = t] = [thread |-> t, udp |-> process.udp]
BY DEF Process

LEMMA SocketSet ==
    ASSUME NEW process \in Process, NEW u
    PROVE  [process EXCEPT !.udp = u] = [thread |-> process.thread, udp |-> u]
BY DEF Process

\* Until a launcher dies, a socket a worker opens finds its port free: the only
\* other sockets are its own.
LEMMA PortIsFree ==
    ASSUME WorkerInv, ~crashed, NEW p \in Procs, NEW role \in Roles,
           Running(p), proc[p].udp[role] = "none",
           sharedport => role # "proxserv"
    PROVE  OpenSocket(role) # "deaf"
<1>1. ASSUME NEW q \in Procs, NEW r \in Roles, Open(q, r), PortOf(r) = PortOf(role)
      PROVE  FALSE
  <2>1. proc[q].udp[r] # "none"
    BY <1>1 DEF Open
  <2>2. Running(q)
    BY <2>1, NoProcessIsClosed DEF Running
  <2>3. q = p
    BY <2>2 DEF WorkerInv, OnlyTheChildRuns
  <2>4. r # role
    BY <2>1, <2>3
  <2>5. sharedport => r # "proxserv"
    BY <2>1 DEF WorkerInv, SharedHasNoProxySocket
  <2> QED BY <1>1, <2>4, <2>5, PortsDiffer DEF WorkerInv, TypeOK
<1>2. ~InUse(PortOf(role))
  BY <1>1 DEF InUse
<1> QED BY <1>2 DEF OpenSocket

\* WorkerInv holds at first.
LEMMA InitWorkerInv == Init => WorkerInv
<1> SUFFICES ASSUME Init PROVE WorkerInv
  OBVIOUS
<1>1. TypeOK
  BY PortsWrap DEF Init, TypeOK
<1>2. \A p \in Procs : proc[p] = NoProcess
  BY DEF Init
<1>3. OnlyTheChildRuns
  BY <1>2 DEF OnlyTheChildRuns, Running
<1>4. SharedHasNoProxySocket /\ WorkersAreHeard
  BY <1>2, NoProcessIsClosed DEF SharedHasNoProxySocket, WorkersAreHeard, Roles
<1> QED BY <1>1, <1>3, <1>4 DEF WorkerInv

\* A Think of any of the three, opening its socket or not.
LEMMA ThinkKeepsInv ==
    ASSUME WorkerInv, NEW p \in Procs, NEW role \in Roles,
           NEW thread \in {"kbhit", "getchar", "a2sserver", "a2sserver2"},
           Running(p), sharedport => role # "proxserv", Think(p, role, thread)
    PROVE  WorkerInv'
<1> DEFINE udp == IF proc[p].udp[role] = "none" THEN OpenSocket(role)
                  ELSE proc[p].udp[role]
<1>1. proc \in [Procs -> Process \cup {NoProcess}] /\ settings \in Settings
  BY DEF WorkerInv, TypeOK
<1>2. proc[p] \in Process
  BY <1>1 DEF Running
<1>3. proc' = [proc EXCEPT ![p] = [thread |-> thread,
                                   udp |-> [proc[p].udp EXCEPT ![role] = udp]]]
  BY DEF Think
<1>4. UNCHANGED <<settings, stdin, child, crashed>>
  BY DEF Think
<1>5. udp \in {"none", "fresh", "bound", "deaf"}
  BY <1>2 DEF OpenSocket, Process
<1>6. proc'[p] \in Process /\ proc' \in [Procs -> Process \cup {NoProcess}]
  BY <1>1, <1>2, <1>3, <1>5 DEF Process
<1>7. TypeOK'
  <2>1. (\A r \in Roles : PortOf(r) \in Ports)'
    BY <1>1, <1>4, PortsWrap DEF PortOf, WrappedPort
  <2>2. buffer' \in [Ports -> Datagrams \cup {"none"}]
    BY DEF Think, WorkerInv, TypeOK
  <2>3. sent' \in Datagrams \cup {"short query", "none"}
    <3>1. PortOf(role) \in Ports
      BY <1>1, PortsWrap
    <3>2. buffer[PortOf(role)] \in Datagrams \cup {"none"}
      BY <3>1 DEF WorkerInv, TypeOK
    <3>3. Read(buffer[PortOf(role)]) \subseteq Datagrams \cup {"short query", "none"}
      BY <3>2 DEF Read, Datagrams
    <3> QED BY <3>3 DEF Think, Handle
  <2> QED BY <1>1, <1>4, <1>6, <2>1, <2>2, <2>3 DEF WorkerInv, TypeOK
<1>8. OnlyTheChildRuns'
  BY <1>1, <1>3, <1>4 DEF WorkerInv, OnlyTheChildRuns, Running
<1>9. SharedHasNoProxySocket'
  <2> SUFFICES ASSUME NEW q \in Procs, sharedport
               PROVE  proc'[q].udp["proxserv"] = "none"
    BY <1>4 DEF SharedHasNoProxySocket, sharedport
  <2>1. proc[q].udp["proxserv"] = "none" /\ role # "proxserv"
    BY DEF WorkerInv, SharedHasNoProxySocket
  <2> QED BY <1>1, <1>2, <1>3, <2>1 DEF Process
<1>10. WorkersAreHeard'
  <2> SUFFICES ASSUME NEW q \in Procs, NEW r \in Roles,
                      proc'[q].udp[r] = "deaf", ~crashed
               PROVE  FALSE
    BY <1>4 DEF WorkersAreHeard
  <2>1. \A s \in Procs, t \in Roles : proc[s].udp[t] # "deaf"
    BY DEF WorkerInv, WorkersAreHeard
  <2>2. q = p /\ r = role /\ udp = "deaf"
    BY <1>1, <1>2, <1>3, <2>1 DEF Process
  <2> QED BY <2>1, <2>2, PortIsFree
<1> QED BY <1>7, <1>8, <1>9, <1>10 DEF WorkerInv

\* A process that is gone harms nobody.
LEMMA EndsKeepsInv ==
    ASSUME WorkerInv, NEW p \in Procs, Ends(p), UNCHANGED <<settings, crashed>>,
           child' \in {child, 0}, child' = child \/ p = child,
           stdin' \in {"quiet", "line", "end"}, sent' = "none"
    PROVE  WorkerInv'
<1>1. /\ proc \in [Procs -> Process \cup {NoProcess}]
      /\ proc' = [proc EXCEPT ![p] = NoProcess]
  BY DEF WorkerInv, TypeOK, Ends
<1>2. TypeOK'
  <2>1. (\A r \in Roles : PortOf(r) \in Ports)'
    BY PortsWrap DEF PortOf, WrappedPort, WorkerInv, TypeOK
  <2>2. buffer' \in [Ports -> Datagrams \cup {"none"}]
    BY DEF Ends, WorkerInv, TypeOK
  <2> QED BY <1>1, <2>1, <2>2 DEF WorkerInv, TypeOK
<1>3. OnlyTheChildRuns'
  BY <1>1 DEF WorkerInv, OnlyTheChildRuns, Running
<1>4. SharedHasNoProxySocket'
  BY <1>1, NoProcessIsClosed
     DEF WorkerInv, SharedHasNoProxySocket, sharedport, Roles
<1>5. WorkersAreHeard'
  BY <1>1, NoProcessIsClosed DEF WorkerInv, WorkersAreHeard
<1> QED BY <1>2, <1>3, <1>4, <1>5 DEF WorkerInv

\* WorkerInv is about processes, settings and the launcher only.
LEMMA OthersKeepInv ==
    ASSUME WorkerInv, UNCHANGED <<settings, proc, child, crashed>>, TypeOK'
    PROVE  WorkerInv'
BY DEF WorkerInv, OnlyTheChildRuns, SharedHasNoProxySocket, WorkersAreHeard,
       sharedport, Running

\* Every step keeps WorkerInv.
LEMMA NextWorkerInv == WorkerInv /\ [Next]_vars => WorkerInv'
<1> SUFFICES ASSUME WorkerInv, [Next]_vars PROVE WorkerInv'
  OBVIOUS
<1>1. TypeOK /\ proc \in [Procs -> Process \cup {NoProcess}]
  BY DEF WorkerInv, TypeOK
<1>2. ASSUME UNCHANGED settings PROVE (\A r \in Roles : PortOf(r) \in Ports)'
  BY <1>1, <1>2, PortsWrap DEF PortOf, WrappedPort, TypeOK
<1>3. ASSUME NEW p \in Procs, A2SThread(p) PROVE WorkerInv'
  <2> DEFINE thread == IF stdin = "quiet" THEN "a2sserver" ELSE "getchar"
  <2>1. proc[p] \in Process
    BY <1>1, <1>3, NoProcessIsClosed DEF A2SThread
  <2>2. proc' = [proc EXCEPT ![p] = [thread |-> thread, udp |-> proc[p].udp]]
    <3>1. proc' = [proc EXCEPT ![p] = [proc[p] EXCEPT !.thread = thread]]
      BY <1>3 DEF A2SThread
    <3> QED BY <2>1, <3>1, ThreadSet
  <2>3. UNCHANGED <<settings, buffer, stdin, child, crashed>> /\ sent' = "none"
    BY <1>3 DEF A2SThread
  <2>4. proc'[p] \in Process
    BY <1>1, <2>1, <2>2 DEF Process
  <2>5. TypeOK'
    BY <1>1, <1>2, <2>2, <2>3, <2>4 DEF TypeOK
  <2>6. \A q \in Procs : proc'[q].udp = proc[q].udp
    BY <1>1, <2>2
  <2>7. \A q \in Procs : Running(q)' => Running(q)
    BY <1>1, <2>1, <2>2, NoProcessIsClosed DEF Running
  <2> QED BY <2>3, <2>5, <2>6, <2>7
          DEF WorkerInv, OnlyTheChildRuns, SharedHasNoProxySocket,
              WorkersAreHeard, sharedport
<1>4. ASSUME NEW p \in Procs, GetChar(p) PROVE WorkerInv'
  <2>1. proc[p] \in Process
    BY <1>1, <1>4, NoProcessIsClosed DEF GetChar
  <2>2. /\ UNCHANGED <<settings, child, crashed>> /\ sent' = "none"
        /\ stdin' \in {"quiet", "line", "end"}
    BY <1>1, <1>4 DEF GetChar, TypeOK
  <2>3. CASE Ends(p)
    BY <2>2, <2>3, EndsKeepsInv
  <2>4. CASE proc' = [proc EXCEPT ![p].thread = "kbhit"] /\ UNCHANGED buffer
    <3>1. proc' = [proc EXCEPT ![p] = [thread |-> "kbhit", udp |-> proc[p].udp]]
      <4>1. proc' = [proc EXCEPT ![p] = [proc[p] EXCEPT !.thread = "kbhit"]]
        BY <2>4
      <4> QED BY <2>1, <4>1, ThreadSet
    <3>2. proc'[p] \in Process
      BY <1>1, <2>1, <3>1 DEF Process
    <3>3. TypeOK'
      BY <1>1, <1>2, <2>2, <2>4, <3>1, <3>2 DEF TypeOK
    <3>4. \A q \in Procs : proc'[q].udp = proc[q].udp
      BY <1>1, <3>1
    <3>5. \A q \in Procs : Running(q)' => Running(q)
      BY <1>1, <2>1, <3>1, NoProcessIsClosed DEF Running
    <3> QED BY <2>2, <3>3, <3>4, <3>5
            DEF WorkerInv, OnlyTheChildRuns, SharedHasNoProxySocket,
                WorkersAreHeard, sharedport
  <2> QED BY <1>4, <2>3, <2>4 DEF GetChar
<1>5. ASSUME NEW p \in Procs, ThinkFirst(p) PROVE WorkerInv'
  <2>1. Running(p)
    BY <1>5, NoProcessIsClosed DEF ThinkFirst, Running
  <2> QED BY <1>5, <2>1, ThinkKeepsInv DEF ThinkFirst, Roles
<1>6. ASSUME NEW p \in Procs, ThinkSecond(p) PROVE WorkerInv'
  <2>1. Running(p)
    BY <1>6, NoProcessIsClosed DEF ThinkSecond, Running
  <2> QED BY <1>6, <2>1, ThinkKeepsInv DEF ThinkSecond, Roles
<1>7. ASSUME NEW p \in Procs, ProxyThread(p) PROVE WorkerInv'
  <2>1. proc[p].thread \in {"kbhit", "getchar", "a2sserver", "a2sserver2"}
    BY <1>1, <1>7 DEF ProxyThread, Running, Process
  <2> QED BY <1>7, <2>1, ThinkKeepsInv DEF ProxyThread, Roles
<1>8. ASSUME NEW p \in Procs, WorkerDies(p) PROVE WorkerInv'
  BY <1>1, <1>8, EndsKeepsInv DEF WorkerDies, TypeOK
<1>9. ASSUME StartWorker PROVE WorkerInv'
  <2>1. PICK p \in Procs :
           /\ ~Running(p)
           /\ child' = p
           /\ proc' = [proc EXCEPT ![p] = [NoProcess EXCEPT !.thread = "kbhit"]]
    BY <1>9 DEF StartWorker
  <2>2. UNCHANGED <<settings, buffer, stdin, crashed>> /\ sent' = "none" /\ child = 0
    BY <1>9 DEF StartWorker
  <2> DEFINE new == [NoProcess EXCEPT !.thread = "kbhit"]
  <2>3. new = [thread |-> "kbhit", udp |-> NoProcess.udp] /\ new \in Process
    BY DEF NoProcess, Process
  <2>4. TypeOK'
    BY <1>1, <1>2, <2>1, <2>2, <2>3 DEF TypeOK
  <2>5. OnlyTheChildRuns'
    <3>1. 0 \notin Procs
      BY DEF Procs
    <3> QED BY <1>1, <2>1, <2>2, <3>1 DEF WorkerInv, OnlyTheChildRuns, Running
  <2>6. \A q \in Procs : proc'[q].udp \in {proc[q].udp, NoProcess.udp}
    BY <1>1, <2>1, <2>3
  <2> QED BY <2>2, <2>4, <2>5, <2>6, NoProcessIsClosed
          DEF WorkerInv, SharedHasNoProxySocket, WorkersAreHeard, sharedport, Roles
<1>10. ASSUME NoticeDeath PROVE WorkerInv'
  <2>1. /\ UNCHANGED <<settings, proc, buffer, stdin, crashed>> /\ sent' = "none"
        /\ child' = 0 /\ ~Running(child)
    BY <1>10 DEF NoticeDeath
  <2>2. TypeOK'
    BY <1>1, <1>2, <2>1 DEF TypeOK
  <2>3. OnlyTheChildRuns'
    BY <2>1 DEF WorkerInv, OnlyTheChildRuns, Running
  <2> QED BY <2>1, <2>2, <2>3
          DEF WorkerInv, SharedHasNoProxySocket, WorkersAreHeard, sharedport
<1>11. ASSUME KillRunningServers PROVE WorkerInv'
  <2>1. child \in Procs
    BY <1>1, <1>11 DEF KillRunningServers, TypeOK
  <2> QED BY <1>1, <1>11, <2>1, EndsKeepsInv DEF KillRunningServers, TypeOK
<1>12. ASSUME LauncherDies PROVE WorkerInv'
  <2>1. /\ UNCHANGED <<settings, proc, buffer, stdin>> /\ sent' = "none"
        /\ child' = 0 /\ crashed' = TRUE
    BY <1>12 DEF LauncherDies
  <2>2. TypeOK'
    BY <1>1, <1>2, <2>1 DEF TypeOK
  <2> QED BY <2>1, <2>2
          DEF WorkerInv, OnlyTheChildRuns, SharedHasNoProxySocket,
              WorkersAreHeard, sharedport
<1>13. ASSUME NEW p \in Procs, NEW r \in Roles, HearSource(p, r) PROVE WorkerInv'
  <2>1. proc[p] \in Process
    BY <1>1, <1>13, NoProcessIsClosed DEF HearSource
  <2>2. proc' = [proc EXCEPT ![p] = [thread |-> proc[p].thread,
                                     udp |-> [proc[p].udp EXCEPT ![r] = "bound"]]]
    <3> DEFINE udp == [proc[p].udp EXCEPT ![r] = "bound"]
    <3>1. proc' = [proc EXCEPT ![p] = [proc[p] EXCEPT !.udp = udp]]
      BY <1>13 DEF HearSource
    <3> HIDE DEF udp
    <3>2. proc' = [proc EXCEPT ![p] = [thread |-> proc[p].thread, udp |-> udp]]
      BY <2>1, <3>1, SocketSet
    <3> QED BY <3>2 DEF udp
  <2>3. UNCHANGED <<settings, buffer, stdin, child, crashed>> /\ sent' = "none"
    BY <1>13 DEF HearSource
  <2>4. proc'[p] \in Process
    BY <1>1, <2>1, <2>2 DEF Process
  <2>5. TypeOK'
    BY <1>1, <1>2, <2>2, <2>3, <2>4 DEF TypeOK
  <2>6. \A q \in Procs, s \in Roles : proc'[q].udp[s] # proc[q].udp[s] =>
            proc[q].udp[s] = "fresh" /\ proc'[q].udp[s] = "bound"
    BY <1>1, <1>13, <2>1, <2>2 DEF HearSource, Process
  <2>7. \A q \in Procs : Running(q)' => Running(q)
    BY <1>1, <2>1, <2>2, NoProcessIsClosed DEF Running
  <2> QED BY <2>3, <2>5, <2>6, <2>7
          DEF WorkerInv, OnlyTheChildRuns, SharedHasNoProxySocket,
              WorkersAreHeard, sharedport, Roles
<1>14. ASSUME NEW d \in Datagrams, NEW r \in Roles, ClientSends(d, r) PROVE WorkerInv'
  <2>1. UNCHANGED <<settings, proc, stdin, child, crashed>> /\ sent' = "none"
    BY <1>14 DEF ClientSends
  <2>2. buffer' \in [Ports -> Datagrams \cup {"none"}]
    BY <1>1, <1>14 DEF ClientSends, TypeOK
  <2>3. TypeOK'
    BY <1>1, <1>2, <2>1, <2>2 DEF TypeOK
  <2> QED BY <2>1, <2>3, OthersKeepInv
<1>15. ASSUME Types PROVE WorkerInv'
  <2>1. TypeOK'
    BY <1>1, <1>2, <1>15 DEF TypeOK, Types
  <2> QED BY <1>15, <2>1, OthersKeepInv DEF Types
<1>16. ASSUME UNCHANGED vars PROVE WorkerInv'
  <2>1. TypeOK'
    BY <1>1, <1>2, <1>16 DEF TypeOK, vars
  <2> QED BY <1>16, <2>1, OthersKeepInv DEF vars
<1> QED
  BY <1>3, <1>4, <1>5, <1>6, <1>7, <1>8, <1>9, <1>10, <1>11, <1>12, <1>13,
     <1>14, <1>15, <1>16 DEF Next, WorkerStep

\* The inductive invariant of the worker processes.
THEOREM WorkerInvariant == Spec => []WorkerInv
<1>1. Init => WorkerInv
  BY InitWorkerInv
<1>2. WorkerInv /\ [Next]_vars => WorkerInv'
  BY NextWorkerInv
<1> QED BY <1>1, <1>2, PTL DEF Spec

\* TypeOK: whatever the settings, ports wrap around.
THEOREM WorkerTypes == Spec => []TypeOK
<1>1. WorkerInv => TypeOK
  BY DEF WorkerInv
<1> QED BY <1>1, WorkerInvariant, PTL

\* WorkersAreHeard: only a worker that outlives its launcher can take a port
\* from another one.
THEOREM ReplacedWorkersAreHeard == Spec => []WorkersAreHeard
<1>1. WorkerInv => WorkersAreHeard
  BY DEF WorkerInv
<1> QED BY <1>1, WorkerInvariant, PTL

-----------------------------------------------------------------------------
\* What waits at a port was sent to the part that has it.
WaitsAtItsPort ==
    \A q \in Ports :
        /\ buffer[q] = "game" => q = PortOf("proxserv")
        /\ buffer[q] = "query" => q # PortOf("proxserv") \/ sharedport

Sound == WorkerInv /\ WaitsAtItsPort

\* What one step has to do with the datagrams.
DatagramStep ==
    /\ sent' # "query"
    /\ sent' = "short query" => sharedport
    /\ \A q \in Ports : buffer[q] = "game" /\ buffer'[q] = "none" => GoesOn

\* A step that only takes datagrams away keeps the others where they are.
LEMMA EmptyingKeepsPorts ==
    ASSUME Sound, UNCHANGED settings,
           \A q \in Ports : buffer'[q] \in {buffer[q], "none"}
    PROVE  WaitsAtItsPort'
BY DEF Sound, WaitsAtItsPort, PortOf, WrappedPort, sharedport

\* A Think hands a datagram to the right part.
LEMMA ThinkIsDatagramStep ==
    ASSUME Sound, NEW p \in Procs, NEW role \in Roles, NEW thread,
           sharedport => role # "proxserv", Think(p, role, thread)
    PROVE  WaitsAtItsPort' /\ DatagramStep
<1> DEFINE port == PortOf(role)
<1>1. TypeOK /\ port \in Ports
  BY PortsWrap DEF Sound, WorkerInv, TypeOK
<1>2. \A q \in Ports : buffer'[q] \in {buffer[q], "none"}
  BY <1>1 DEF Think, TypeOK
<1>3. WaitsAtItsPort'
  BY <1>2, EmptyingKeepsPorts DEF Think
<1>4. CASE ~(Open(p, role) /\ buffer[port] # "none")
  <2>1. buffer' = buffer /\ sent' = "none"
    BY <1>4 DEF Think
  <2> QED BY <1>3, <2>1 DEF DatagramStep
<1>5. CASE Open(p, role) /\ buffer[port] # "none"
  <2> PICK d \in Read(buffer[port]) : sent' = Handle(p, role, d)
    BY <1>5 DEF Think
  <2>1. buffer' = [buffer EXCEPT ![port] = "none"]
    BY <1>5 DEF Think
  <2>0. /\ buffer[port] = "game" => d = "game"
        /\ buffer[port] = "query" => d \in {"query", "short query"}
    BY DEF Read
  <2>2. "proxserv" \in Roles
    BY DEF Roles
  <2>3. CASE buffer[port] = "game"
    <3>1. port = PortOf("proxserv")
      BY <1>1, <2>3 DEF Sound, WaitsAtItsPort
    <3>2. CASE ~sharedport
      <4>1. role = "proxserv"
        BY <1>1, <2>2, <3>1, <3>2, PortsDiffer DEF TypeOK
      <4>2. sent' = "game"
        BY <2>0, <2>3, <4>1 DEF Handle
      <4> QED BY <1>3, <4>2 DEF DatagramStep, GoesOn
    <3>3. CASE sharedport
      <4>1. PortOf("proxserv") = PortOf("a2sserver")
        BY <3>3 DEF PortOf, sharedport
      <4>2. role = "a2sserver"
        BY <1>1, <3>1, <3>3, <4>1, PortsDiffer DEF TypeOK, Roles
      <4>3. CASE proc[p].udp[role] = "fresh"
        <5>1. sent' = "none"
          BY <4>2, <4>3 DEF Handle
        <5> QED BY <1>3, <3>3, <4>2, <4>3, <5>1 DEF DatagramStep, GoesOn
      <4>4. CASE proc[p].udp[role] # "fresh"
        <5>1. sent' = "game"
          BY <2>0, <2>3, <3>3, <4>4 DEF Handle
        <5> QED BY <1>3, <5>1 DEF DatagramStep, GoesOn
      <4> QED BY <4>3, <4>4
    <3> QED BY <3>2, <3>3
  <2>4. CASE buffer[port] = "query"
    <3>1. role # "proxserv"
      BY <1>1, <2>4 DEF Sound, WaitsAtItsPort
    <3>2. sent' = "none" \/ (sent' = "short query" /\ sharedport)
      BY <2>0, <2>4, <3>1 DEF Handle
    <3>3. \A q \in Ports : buffer[q] = "game" => buffer'[q] = "game"
      BY <1>1, <2>1, <2>4 DEF TypeOK
    <3> QED BY <1>3, <3>2, <3>3 DEF DatagramStep
  <2> QED BY <1>1, <1>5, <2>3, <2>4 DEF TypeOK, Datagrams
<1> QED BY <1>4, <1>5

\* What waited at the ports of a process is lost only because it ends.
LEMMA EndsIsDatagramStep ==
    ASSUME Sound, NEW p \in Procs, Ends(p), UNCHANGED settings, sent' = "none"
    PROVE  WaitsAtItsPort' /\ DatagramStep
<1>1. \A q \in Ports : buffer'[q] \in {buffer[q], "none"}
  BY DEF Ends
<1>2. WaitsAtItsPort'
  BY <1>1, EmptyingKeepsPorts
<1>3. ASSUME NEW q \in Ports, buffer[q] = "game", buffer'[q] = "none"
      PROVE  GoesOn
  <2>1. PICK r \in Roles : Open(p, r)
    BY <1>3 DEF Ends
  <2>2. Running(p)
    BY <2>1, NoProcessIsClosed DEF Open, Running
  <2>3. ~Running(p)'
    BY DEF Ends, Running, Sound, WorkerInv, TypeOK
  <2> QED BY <2>2, <2>3 DEF GoesOn
<1> QED BY <1>2, <1>3 DEF DatagramStep

\* Every other step of the workers and the launcher leaves the datagrams alone.
LEMMA QuietIsDatagramStep ==
    ASSUME Sound, UNCHANGED <<settings, buffer>>, sent' = "none"
    PROVE  WaitsAtItsPort' /\ DatagramStep
<1>1. WaitsAtItsPort'
  BY EmptyingKeepsPorts
<1> QED BY <1>1 DEF DatagramStep

\* A client's datagram waits where the part it is for has its port.
LEMMA ClientIsDatagramStep ==
    ASSUME Sound, NEW d \in Datagrams, NEW r \in Roles, ClientSends(d, r)
    PROVE  WaitsAtItsPort' /\ DatagramStep
<1>1. /\ r = "proxserv" <=> d = "game"
      /\ buffer[PortOf(r)] = "none" /\ sent' = "none" /\ UNCHANGED settings
      /\ buffer' = [buffer EXCEPT ![PortOf(r)] = d]
  BY DEF ClientSends
<1>2. TypeOK /\ PortOf(r) \in Ports /\ "proxserv" \in Roles
  BY PortsWrap DEF Sound, WorkerInv, TypeOK, Roles
<1>3. \A q \in Ports : buffer'[q] = IF q = PortOf(r) THEN d ELSE buffer[q]
  BY <1>1, <1>2 DEF TypeOK
<1>4. d # "game" /\ ~sharedport => PortOf(r) # PortOf("proxserv")
  BY <1>1, <1>2, PortsDiffer DEF TypeOK
<1>5. ASSUME NEW q \in Ports
      PROVE  /\ buffer'[q] = "game" => q = PortOf("proxserv")
             /\ buffer'[q] = "query" => q # PortOf("proxserv") \/ sharedport
  BY <1>1, <1>3, <1>4 DEF Sound, WaitsAtItsPort
<1>6. WaitsAtItsPort'
  BY <1>1, <1>5 DEF WaitsAtItsPort, PortOf, WrappedPort, sharedport
<1>7. d # "none"
  BY DEF Datagrams
<1>8. DatagramStep
  BY <1>1, <1>3, <1>7 DEF DatagramStep
<1> QED BY <1>6, <1>8

\* Every step is right about the datagrams.
LEMMA NextDatagramStep ==
    Sound /\ [Next]_vars => WaitsAtItsPort' /\ [DatagramStep]_vars
<1> SUFFICES ASSUME Sound, [Next]_vars
             PROVE  WaitsAtItsPort' /\ [DatagramStep]_vars
  OBVIOUS
<1>1. ASSUME NEW p \in Procs, A2SThread(p) \/ GetChar(p)
      PROVE  WaitsAtItsPort' /\ DatagramStep
  BY <1>1, QuietIsDatagramStep, EndsIsDatagramStep DEF A2SThread, GetChar
<1>2. ASSUME NEW p \in Procs, ThinkFirst(p) \/ ThinkSecond(p) \/ ProxyThread(p)
      PROVE  WaitsAtItsPort' /\ DatagramStep
  BY <1>2, ThinkIsDatagramStep DEF ThinkFirst, ThinkSecond, ProxyThread, Roles
<1>3. ASSUME NEW p \in Procs, WorkerDies(p)
      PROVE  WaitsAtItsPort' /\ DatagramStep
  BY <1>3, EndsIsDatagramStep DEF WorkerDies
<1>4. ASSUME KillRunningServers
      PROVE  WaitsAtItsPort' /\ DatagramStep
  <2>1. child \in Procs
    BY <1>4 DEF KillRunningServers, Sound, WorkerInv, TypeOK
  <2> QED BY <1>4, <2>1, EndsIsDatagramStep DEF KillRunningServers
<1>5. ASSUME \/ StartWorker \/ NoticeDeath \/ LauncherDies \/ Types
             \/ \E p \in Procs, r \in Roles : HearSource(p, r)
      PROVE  WaitsAtItsPort' /\ DatagramStep
  BY <1>5, QuietIsDatagramStep
     DEF StartWorker, NoticeDeath, LauncherDies, Types, HearSource
<1>6. ASSUME UNCHANGED vars PROVE WaitsAtItsPort' /\ [DatagramStep]_vars
  <2>1. WaitsAtItsPort'
    BY <1>6, EmptyingKeepsPorts DEF vars
  <2> QED BY <1>6, <2>1
<1> QED
  BY <1>1, <1>2, <1>3, <1>4, <1>5, <1>6, ClientIsDatagramStep DEF Next, WorkerStep

\* DatagramsReachTheirPart, for every pair of ports.
THEOREM EveryDatagramReachesItsPart == Spec => DatagramsReachTheirPart
<1>1. Init => WaitsAtItsPort
  BY DEF Init, WaitsAtItsPort
<1>2. Sound /\ [Next]_vars => WaitsAtItsPort' /\ [DatagramStep]_vars
  BY NextDatagramStep
<1>3. DatagramStep <=> /\ sent' # "query"
                       /\ sent' = "short query" => sharedport
                       /\ \A q \in Ports :
                             buffer[q] = "game" /\ buffer'[q] = "none" => GoesOn
  BY DEF DatagramStep
<1>4. Sound <=> WorkerInv /\ WaitsAtItsPort
  BY DEF Sound
<1> QED BY <1>1, <1>2, <1>3, <1>4, WorkerInvariant, PTL DEF Spec, DatagramsReachTheirPart
=============================================================================
