------------------------------ MODULE NodeWorker ------------------------------
(***************************************************************************)
(* Node workers as processes: the two threads of a worker and the loop     *)
(* that lets its two A2SServers think in turn, the sockets they open, the  *)
(* terminal they share, whose input stops that loop, and the launcher that *)
(* starts, kills and replaces them.  How an A2SServer answers is in        *)
(* A2SNode, and how the relay wraps in ProxyPath; here it only matters     *)
(* which of them gets a datagram.                                          *)
(*                                                                         *)
(* A bind that fails is not noticed: that socket then sends from some      *)
(* other port and hears nothing from clients.  It is called deaf.  A fresh *)
(* one has heard nothing from the game server yet.                         *)
(***************************************************************************)
EXTENDS Integers, FiniteSets

CONSTANTS PortCount,     \* 2^16
          PortStep,      \* what is added to the ports of worker2: 2000
          Settings,      \* arguments the launcher may give: [a2sport, proxyport]
          MaxProcs,      \* bound: workers running at once
          MaxWaiting     \* bound: datagrams waiting at once

\* A port has 16 bits, and the sum of two of them wraps around.
WrappedPort(port) == IF port < PortCount THEN port ELSE port - PortCount

\* The proxy port is not the second A2S port: nothing in the code checks that,
\* and the two would compete for the port.
ASSUME WorkerAssumption ==
    /\ PortCount \in Nat \ {0}
    /\ PortStep \in 1..(PortCount - 1)
    /\ Settings \subseteq [a2sport: 0..(PortCount - 1), proxyport: 0..(PortCount - 1)]
    /\ \A s \in Settings : s.proxyport # WrappedPort(s.a2sport + PortStep)
    /\ MaxProcs \in Nat \ {0}
    /\ MaxWaiting \in Nat \ {0}

VARIABLES
    settings,      \* the arguments of every worker
    proc,          \* the worker processes
    buffer,        \* what waits at each port: a datagram or none
    stdin,         \* the terminal's input, shared by all workers: nothing,
                   \* a line, or its end
    child,         \* the launcher's worker, or 0
    crashed,       \* history: a launcher has died
    sent           \* what the last step sent on to the game server

vars == <<settings, proc, buffer, stdin, child, crashed, sent>>

Procs == 1..MaxProcs
Ports == 0..(PortCount - 1)
Datagrams == {"query", "game"}
Roles == {"a2sserver", "a2sserver2", "proxserv"}

sharedport == settings.a2sport = settings.proxyport

\* worker2 is a copy of worker with other ports.
PortOf(role) ==
    IF role = "proxserv" THEN settings.proxyport
    ELSE IF role = "a2sserver" THEN settings.a2sport
    ELSE WrappedPort(settings.a2sport + PortStep)

\* The proxy has no socket of its own on a shared port.
SocketRoles == IF sharedport THEN Roles \ {"proxserv"} ELSE Roles

\* thread is what the thread of the A2SServers does next.
Process == [thread: {"kbhit", "getchar", "a2sserver", "a2sserver2"},
            udp: [Roles -> {"none", "fresh", "bound", "deaf"}]]
NoProcess == [thread |-> "none", udp |-> [r \in Roles |-> "none"]]

Running(p) == proc[p] # NoProcess

Open(p, role) == proc[p].udp[role] \in {"fresh", "bound"}

InUse(port) == \E p \in Procs, r \in Roles : Open(p, r) /\ PortOf(r) = port

\* A short query has five bytes or fewer, as 'W' and 'i' have, and U or T with
\* nothing behind it.  How long it is does not matter before it is read.
Read(d) == IF d = "query" THEN {"query", "short query"} ELSE {d}

-----------------------------------------------------------------------------
\* bind.  Only an A2SServer waits to hear from the game server.
OpenSocket(role) ==
    IF InUse(PortOf(role)) THEN "deaf"
    ELSE IF role = "proxserv" THEN "bound" ELSE "fresh"

MutantKeepsShared(p, role, d) == IF role = "proxserv" THEN d ELSE "none"

\* What is sent on to the game server: by the proxy all it gets, by an A2SServer
\* whose port is shared what it takes for no query, unless it is fresh.  A short
\* query counts as overflowed once its type has been read, so it is for the proxy.
Handle(p, role, d) ==
    IF \/ role = "proxserv"
       \/ sharedport /\ d # "query" /\ proc[p].udp[role] # "fresh"
    THEN d ELSE "none"

\* The first Think opens the socket, a later one handles one datagram at most.
Think(p, role, thread) ==
    LET port == PortOf(role)
        udp == IF proc[p].udp[role] = "none" THEN OpenSocket(role)
               ELSE proc[p].udp[role]
        takes == Open(p, role) /\ buffer[port] # "none"
    IN
    /\ proc' = [proc EXCEPT ![p] =
                   [thread |-> thread, udp |-> [@.udp EXCEPT ![role] = udp]]]
    /\ buffer' = IF takes THEN [buffer EXCEPT ![port] = "none"] ELSE buffer
    /\ sent' \in IF takes THEN {Handle(p, role, d) : d \in Read(buffer[port])}
                 ELSE {"none"}
    /\ UNCHANGED <<settings, stdin, child, crashed>>

\* The first server thinks until its port is empty.
MutantDrainsFirst(p) ==
    /\ proc[p].thread = "a2sserver"
    /\ Think(p, "a2sserver", IF Open(p, "a2sserver") /\ buffer[PortOf("a2sserver")] # "none"
                             THEN "a2sserver" ELSE "a2sserver2")

ThinkFirst(p) ==
    /\ proc[p].thread = "a2sserver"
    /\ Think(p, "a2sserver", "a2sserver2")

ThinkSecond(p) ==
    /\ proc[p].thread = "a2sserver2"
    /\ Think(p, "a2sserver2", "kbhit")

\* A datagram from the game server ends justinited.
HearSource(p, role) ==
    /\ proc[p].udp[role] = "fresh"
    /\ proc' = [proc EXCEPT ![p].udp = [@ EXCEPT ![role] = "bound"]]
    /\ sent' = "none"
    /\ UNCHANGED <<settings, buffer, stdin, child, crashed>>

\* The other thread, when the port is not shared.
ProxyThread(p) ==
    /\ Running(p)
    /\ ~sharedport
    /\ Think(p, "proxserv", proc[p].thread)

\* The process is gone, and what waited at its ports.
Ends(p) ==
    /\ proc' = [proc EXCEPT ![p] = NoProcess]
    /\ buffer' = [q \in Ports |->
                     IF \E r \in Roles : Open(p, r) /\ PortOf(r) = q
                     THEN "none" ELSE buffer[q]]

\* The loop goes on as long as there is nothing to read.
A2SThread(p) ==
    /\ proc[p].thread = "kbhit"
    /\ proc' = [proc EXCEPT ![p].thread = IF stdin = "quiet" THEN "a2sserver"
                                          ELSE "getchar"]
    /\ sent' = "none"
    /\ UNCHANGED <<settings, buffer, stdin, child, crashed>>

\* One character is read, of this line or, the line still waiting, left of an
\* earlier one, and Z ends the worker.  getchar waits if another worker has taken
\* the line.
GetChar(p) ==
    /\ proc[p].thread = "getchar"
    /\ \/ /\ stdin # "quiet"
          /\ proc' = [proc EXCEPT ![p].thread = "kbhit"]
          /\ UNCHANGED buffer
       \/ /\ stdin = "line"
          /\ Ends(p)
    /\ stdin' \in {stdin} \cup (IF stdin = "line" THEN {"quiet"} ELSE {})
    /\ sent' = "none"
    /\ UNCHANGED <<settings, child, crashed>>

-----------------------------------------------------------------------------
(* The launcher.                                                           *)

\* CheckServerOnline: a worker is started where there is none.
StartWorker ==
    /\ child = 0
    /\ \E p \in Procs :
          /\ ~Running(p)
          /\ child' = p
          /\ proc' = [proc EXCEPT ![p] = [NoProcess EXCEPT !.thread = "kbhit"]]
    /\ sent' = "none"
    /\ UNCHANGED <<settings, buffer, stdin, crashed>>

MutantKeepsPid ==
    /\ child # 0
    /\ ~Running(child)
    /\ UNCHANGED <<settings, proc, buffer, stdin, child, crashed, sent>>

\* CheckServerOnline: one that has died is given up.
NoticeDeath ==
    /\ child # 0
    /\ ~Running(child)
    /\ child' = 0
    /\ sent' = "none"
    /\ UNCHANGED <<settings, proc, buffer, stdin, crashed>>

MutantLetsItRun ==
    /\ child # 0
    /\ child' = 0
    /\ sent' = "none"
    /\ UNCHANGED <<settings, proc, buffer, stdin, crashed>>

\* At an update the worker is killed before another one is started.
KillRunningServers ==
    /\ child # 0
    /\ Ends(child)
    /\ child' = 0
    /\ sent' = "none"
    /\ UNCHANGED <<settings, stdin, crashed>>

-----------------------------------------------------------------------------
(* Everybody else.                                                         *)

\* The launcher dies and is started again.
LauncherDies ==
    /\ Cardinality({p \in Procs : Running(p)}) < MaxProcs
    /\ crashed' = TRUE
    /\ child' = 0
    /\ sent' = "none"
    /\ UNCHANGED <<settings, proc, buffer, stdin>>

WorkerDies(p) ==
    /\ Running(p)
    /\ Ends(p)
    /\ sent' = "none"
    /\ UNCHANGED <<settings, stdin, child, crashed>>

\* Queries come to the ports of both A2SServers, game traffic to the game port
\* that both of them tell.  Whatever finds no socket, or no room, is lost.
ClientSends(d, role) ==
    LET port == PortOf(role) IN
    /\ role = "proxserv" <=> d = "game"
    /\ InUse(port)
    /\ buffer[port] = "none"
    /\ Cardinality({q \in Ports : buffer[q] # "none"}) < MaxWaiting
    /\ buffer' = [buffer EXCEPT ![port] = d]
    /\ sent' = "none"
    /\ UNCHANGED <<settings, proc, stdin, child, crashed>>

Types ==
    /\ stdin = "quiet"
    /\ stdin' \in {"line", "end"}
    /\ sent' = "none"
    /\ UNCHANGED <<settings, proc, buffer, child, crashed>>

Init ==
    /\ settings \in Settings
    /\ proc = [p \in Procs |-> NoProcess]
    /\ buffer = [q \in Ports |-> "none"]
    /\ stdin = "quiet"
    /\ child = 0
    /\ crashed = FALSE
    /\ sent = "none"

WorkerStep(p) == A2SThread(p) \/ GetChar(p) \/ ThinkFirst(p) \/ ThinkSecond(p)

Next ==
    \/ \E p \in Procs : WorkerStep(p) \/ ProxyThread(p) \/ WorkerDies(p)
    \/ StartWorker
    \/ NoticeDeath
    \/ KillRunningServers
    \/ LauncherDies
    \/ \E p \in Procs, r \in Roles : HearSource(p, r)
    \/ \E d \in Datagrams, r \in Roles : ClientSends(d, r)
    \/ Types

Spec == Init /\ [][Next]_vars

\* Both threads of every worker are scheduled, and the launcher goes round.
Fairness ==
    /\ \A p \in Procs : WF_vars(WorkerStep(p)) /\ WF_vars(ProxyThread(p))
    /\ WF_vars(StartWorker \/ NoticeDeath)

FairSpec == Spec /\ Fairness

-----------------------------------------------------------------------------
\* Every variable keeps its type; ports wrap around.
TypeOK ==
    /\ settings \in Settings
    /\ \A r \in Roles : PortOf(r) \in Ports
    /\ proc \in [Procs -> Process \cup {NoProcess}]
    /\ buffer \in [Ports -> Datagrams \cup {"none"}]
    /\ stdin \in {"quiet", "line", "end"}
    /\ child \in Procs \cup {0}
    /\ crashed \in BOOLEAN
    /\ sent \in Datagrams \cup {"short query", "none"}

\* However workers are killed, die and are replaced, no port is ever found
\* taken: only a worker that outlives its launcher makes the next one deaf.
WorkersAreHeard ==
    (\E p \in Procs, r \in Roles : proc[p].udp[r] = "deaf") => crashed

GoesOn ==
    \/ sent' = "game"
    \/ \E p \in Procs : Running(p) /\ ~Running(p)'
    \/ \E p \in Procs : sharedport /\ proc[p].udp["a2sserver"] = "fresh"

\* What comes to the game port is sent on, also on a shared port and while
\* workers come and go: unless its worker ends, or is still fresh.  No query of
\* more than five bytes is sent on; the shorter ones are when the port is shared,
\* and only then.
DatagramsReachTheirPart ==
    [][ /\ sent' # "query"
        /\ sent' = "short query" => sharedport
        /\ \A q \in Ports : buffer[q] = "game" /\ buffer'[q] = "none" => GoesOn ]_vars

\* The terminal's input ends, goes on, or has a worker wait for more of it.
InputDisturbs ==
    []<>(stdin # "quiet" \/ \E p \in Procs : proc[p].thread = "getchar")

\* Neither A2SServer nor the proxy starves the others: what a client sends is
\* taken off its port, unless the input disturbs the loop.
DatagramsAreTaken ==
    \/ InputDisturbs
    \/ \A q \in Ports : buffer[q] # "none" ~> buffer[q] = "none"

\* A node serves all its ports again and again, whatever happens to its
\* workers, unless they die all the time, the input disturbs them, or a
\* launcher has died (a deaf worker stays deaf when the orphan has gone).
PortsAreServed ==
    \/ []<>(\A r \in SocketRoles : InUse(PortOf(r)))
    \/ InputDisturbs
    \/ <>crashed
    \/ []<><<\E p \in Procs : Running(p) /\ ~Running(p)'>>_vars
=============================================================================
