------------------------------- MODULE Launcher -------------------------------
(***************************************************************************)
(* The launcher of a node (leyzyre): it downloads new node workers from    *)
(* the website, starts one worker per configured game server and restarts  *)
(* those that have died.  Around it: the website and its operator, the     *)
(* worker processes, and the machine, which may be rebooted at any time.   *)
(*                                                                         *)
(* The main loop is cut where another process or a crash can tell the      *)
(* difference; pc names the call that comes next.  Nobody reads the        *)
(* changelog, so its download is left out.  A worker's binary is known by  *)
(* the version it was published as.  A file may not open for writing, or   *)
(* take less than it should, and nobody looks; and the operator may take   *)
(* the node off the website's table again.                                 *)
(***************************************************************************)
EXTENDS Website, FiniteSets, SequencesExt

CONSTANTS MaxVersion,         \* bound: versions published
          WebCheckFrequency,  \* WEBCHECKFREQUENCY, in rounds of the main loop
          Configs             \* what the website may hold for this node:
                              \* sequences of settings [serverid, key]

Keys == {"activated", "deactivated", "a2sport"}

\* serverid is an AUTO_INCREMENT column, so it starts at 1.
Settings == [serverid: Nat \ {0}, key: Keys]

ASSUME WebsiteAssumption ==
    /\ MaxVersion \in Nat
    /\ WebCheckFrequency \in Nat \ {0}
    /\ Configs \subseteq Seq(Settings)

VARIABLES
    published,         \* the newest version on the website
    registered,        \* the website knows this node
    config,            \* the settings of this node's servers
    workerfile,        \* what leyzyreworker holds
    versionfile,       \* what leyzyre_version.txt says
    ourversion, latestversion, checkwebcounter, justloaded, Servers,
    webdata,           \* the update just downloaded
    pc,                \* what the launcher does next
    slot,              \* the entry CheckServerOnline looks at next
    orphans,           \* running workers no launcher knows of
    crashed,           \* history: a launcher has died in the middle of its work
    spoilt             \* history: a file was not written, or not whole, or the
                       \* node was removed from the website

web == <<published, registered, config>>
files == <<workerfile, versionfile>>
memory == <<ourversion, latestversion, checkwebcounter, justloaded, Servers>>
others == <<slot, orphans, crashed, spoilt>>
vars == <<web, files, memory, webdata, pc, others>>

\* Contents of leyzyreworker that are no version: a download cut short, and an
\* error message of the website.
Partial == -2
Binary == {Message, Partial} \cup 0..MaxVersion

\* An entry of the vector Servers, which may also hold null pointers.  pid is
\* "dead" between a child's exit and the launcher noticing it.
Null == [keys |-> {}, pid |-> "null"]
NewServer == [keys |-> {}, pid |-> "none"]
serverdata == [keys: SUBSET Keys, pid: {"none", "alive", "dead"}]

ServerIds ==
    UNION {{rows[i].serverid : i \in DOMAIN rows} : rows \in Configs}

Size(s) == Cardinality(DOMAIN s)
NoServers == [i \in {} |-> Null]

-----------------------------------------------------------------------------
(* The settings are parsed from the last one to the first.                 *)

\* at() throws for the one id that is neither in the vector nor beyond its
\* size.  Settings of a server that is not activated carry no address.
ParseServerSetting(row, parsed) ==
    LET n == Size(parsed.servers)
        id == row.serverid
        grown == [i \in 0..(IF id < n THEN n - 1 ELSE id) |->
                     IF i < n THEN parsed.servers[i] ELSE Null]
        serv == IF grown[id] = Null THEN NewServer ELSE grown[id]
        keys == IF row.key = "deactivated" THEN {} ELSE {row.key}
    IN IF parsed.thrown \/ id = n THEN [parsed EXCEPT !.thrown = TRUE]
       ELSE [parsed EXCEPT !.servers =
                [grown EXCEPT ![id] =
                    [serv EXCEPT !.keys = serv.keys \cup keys]]]

NothingParsed == [servers |-> NoServers, thrown |-> FALSE]

\* The settings are parsed from the first one to the last.
MutantParsesForward(rows) ==
    LET parsed[i \in 0..Len(rows)] ==
            IF i = 0 THEN NothingParsed
            ELSE ParseServerSetting(rows[i], parsed[i - 1])
    IN parsed[Len(rows)]

\* parsed[i] is what the last i settings amount to.
ParseServerSettings(rows) ==
    LET parsed[i \in 0..Len(rows)] ==
            IF i = 0 THEN NothingParsed
            ELSE ParseServerSetting(rows[Len(rows) - i + 1], parsed[i - 1])
    IN parsed[Len(rows)]

Runnable(s) == {"activated", "a2sport"} \subseteq s.keys

-----------------------------------------------------------------------------
(* Processes.                                                              *)

Alive(servers) == {i \in DOMAIN servers : servers[i].pid = "alive"}

\* Nobody can write to the file of a running program.
TextBusy == orphans # {} \/ Alive(Servers) # {}

\* The launcher is gone; the workers it leaves behind go on.
Dies(servers) ==
    /\ pc' = "down"
    /\ crashed' = TRUE
    /\ orphans' = orphans \cup Alive(servers)
    /\ Servers' = NoServers
    /\ slot' = 0
    /\ UNCHANGED spoilt

Nulls(servers) == {i \in DOMAIN servers : servers[i] = Null}

\* Every child up to the first null pointer is killed.
KillRunningServers(servers) ==
    [i \in DOMAIN servers |->
        IF \E j \in Nulls(servers) : j <= i THEN servers[i]
        ELSE [servers[i] EXCEPT !.pid = "none"]]

WriteFails == spoilt' = TRUE /\ UNCHANGED <<slot, orphans, crashed>>

-----------------------------------------------------------------------------
Init ==
    /\ published = 0
    /\ registered \in BOOLEAN
    /\ config \in Configs
    /\ workerfile = 0
    /\ versionfile = 0
    /\ ourversion = 0
    /\ latestversion = 0
    /\ checkwebcounter = 0
    /\ justloaded = TRUE
    /\ Servers = NoServers
    /\ webdata = Message
    /\ pc = "down"
    /\ slot = 0
    /\ orphans = {}
    /\ crashed = FALSE
    /\ spoilt = FALSE

\* main, up to its loop.
Start ==
    /\ pc = "down"
    /\ ourversion' = versionfile
    /\ latestversion' = 0
    /\ checkwebcounter' = 0
    /\ justloaded' = TRUE
    /\ Servers' = NoServers
    /\ webdata' = Message
    /\ pc' = "round"
    /\ UNCHANGED <<web, files, others>>

\* The counter is compared before it is counted down.
MutantCountsLate ==
    /\ pc = "round"
    /\ IF 0 > checkwebcounter
       THEN checkwebcounter' = WebCheckFrequency /\ pc' = "NeedsUpdate"
       ELSE checkwebcounter' = checkwebcounter - 1 /\ pc' = "CheckServerOnline"
    /\ UNCHANGED <<web, files, ourversion, latestversion, justloaded, Servers,
                   webdata, others>>

\* A round of the loop.
Round ==
    /\ pc = "round"
    /\ IF 1 > checkwebcounter - 1
       THEN checkwebcounter' = WebCheckFrequency /\ pc' = "NeedsUpdate"
       ELSE checkwebcounter' = checkwebcounter - 1 /\ pc' = "CheckServerOnline"
    /\ UNCHANGED <<web, files, ourversion, latestversion, justloaded, Servers,
                   webdata, others>>

Continue(needsupdate) ==
    pc' = IF needsupdate THEN "KillAndUpdate"
          ELSE IF justloaded THEN "KillAndRestart" ELSE "CheckServerOnline"

\* When the request fails nothing is returned, which may be taken for
\* anything.  An error message is read as version 0.
NeedsUpdate ==
    /\ pc = "NeedsUpdate"
    /\ \/ /\ \E anything \in BOOLEAN : Continue(anything)
          /\ UNCHANGED latestversion
       \/ \E reply \in FetchWebData(CheckVer(registered, published, ourversion)) :
             IF reply = UpToDate
             THEN Continue(FALSE) /\ UNCHANGED latestversion
             ELSE /\ latestversion' = Atoi(reply)
                  /\ Continue(~(ourversion > Atoi(reply)))
    /\ UNCHANGED <<web, files, ourversion, checkwebcounter, justloaded,
                   Servers, webdata, others>>

\* The loop of KillRunningServers ends at a null pointer.
MutantEndsAtNull ==
    /\ pc \in {"KillAndUpdate", "KillAndRestart"}
    /\ Servers' = KillRunningServers(Servers)
    /\ pc' = IF pc = "KillAndUpdate" THEN "DownloadUpdate" ELSE "UpdateServers"
    /\ UNCHANGED <<web, files, ourversion, latestversion, checkwebcounter,
                   justloaded, webdata, others>>

\* Reading through a null pointer ends the launcher.
KillServers ==
    /\ pc \in {"KillAndUpdate", "KillAndRestart"}
    /\ IF Nulls(Servers) # {}
       THEN Dies(KillRunningServers(Servers))
       ELSE /\ Servers' = KillRunningServers(Servers)
            /\ pc' = IF pc = "KillAndUpdate" THEN "DownloadUpdate"
                                             ELSE "UpdateServers"
            /\ UNCHANGED others
    /\ UNCHANGED <<web, files, ourversion, latestversion, checkwebcounter,
                   justloaded, webdata>>

\* The reply to the request for an update.
Update == FetchWebData(GetUpdateIfNeeded(registered, published, ourversion))

\* The version is saved before the worker is.
MutantVersionFirst ==
    /\ pc = "DownloadUpdate"
    /\ \/ /\ pc' = "UpdateServers"
          /\ UNCHANGED <<webdata, files>>
       \/ /\ webdata' \in Update
          /\ versionfile' = latestversion
          /\ workerfile' = IF TextBusy THEN workerfile ELSE Partial
          /\ pc' = IF TextBusy THEN "OpenVersion" ELSE "WriteUpdate"
    /\ UNCHANGED <<web, memory, others>>

\* DownloadUpdate in four steps, so that a reboot can come between them.
\* Opening a file empties it; that the worker's file is busy, or does not open
\* for another reason, goes unnoticed.
DownloadUpdate ==
    /\ pc = "DownloadUpdate"
    /\ \/ /\ pc' = "UpdateServers"
          /\ UNCHANGED <<webdata, workerfile, others>>
       \/ /\ webdata' \in Update
          /\ workerfile' = IF TextBusy THEN workerfile ELSE Partial
          /\ pc' = IF TextBusy THEN "OpenVersion" ELSE "WriteUpdate"
          /\ UNCHANGED others
       \/ /\ webdata' \in Update
          /\ pc' = "OpenVersion"
          /\ WriteFails
          /\ UNCHANGED workerfile
    /\ UNCHANGED <<web, versionfile, memory>>

WriteUpdate ==
    /\ pc = "WriteUpdate"
    /\ \/ workerfile' = webdata /\ UNCHANGED others
       \/ WriteFails /\ UNCHANGED workerfile
    /\ pc' = "OpenVersion"
    /\ UNCHANGED <<web, versionfile, memory, webdata>>

\* An empty file is read as version 0.
OpenVersion ==
    /\ pc = "OpenVersion"
    /\ ourversion' = latestversion
    /\ \/ versionfile' = 0 /\ pc' = "WriteVersion" /\ UNCHANGED others
       \/ WriteFails /\ pc' = "UpdateServers" /\ UNCHANGED versionfile
    /\ UNCHANGED <<web, workerfile, latestversion, checkwebcounter,
                   justloaded, Servers, webdata>>

WriteVersion ==
    /\ pc = "WriteVersion"
    /\ \/ versionfile' = ourversion /\ UNCHANGED others
       \/ WriteFails /\ UNCHANGED versionfile
    /\ pc' = "UpdateServers"
    /\ UNCHANGED <<web, workerfile, memory, webdata>>

\* The old servers are deleted before the new ones are fetched, which overwrites
\* webdata.  An error message holds no settings.
UpdateServers ==
    /\ pc = "UpdateServers"
    /\ webdata' = Message
    /\ LET parsed == ParseServerSettings(ServersForOurNode(registered, config))
           left == orphans \cup Alive(KillRunningServers(Servers))
       IN
       \/ /\ Servers' = NoServers
          /\ pc' = "CheckServerOnline"
          /\ orphans' = left
          /\ UNCHANGED <<slot, crashed, spoilt>>
       \/ /\ ~parsed.thrown
          /\ Servers' = parsed.servers
          /\ pc' = "CheckServerOnline"
          /\ orphans' = left
          /\ UNCHANGED <<slot, crashed, spoilt>>
       \/ /\ parsed.thrown
          /\ Dies(KillRunningServers(Servers))
    /\ UNCHANGED <<web, files, ourversion, latestversion, checkwebcounter,
                   justloaded>>

\* A child that cannot be executed exits at once.
Started(s) == [s EXCEPT !.pid = IF workerfile >= 0 THEN "alive" ELSE "dead"]

MutantNeverReplaces(s) ==
    IF s.pid = "none" THEN {s, Started(s)} ELSE {s}

\* One server of CheckServerOnline: a dead child is given up, to be replaced
\* in the next round; a missing one is started, unless fork fails.
Checked(s) ==
    IF Runnable(s) /\ s.pid = "dead" THEN {[s EXCEPT !.pid = "none"]}
    ELSE IF Runnable(s) /\ s.pid = "none" THEN {s, Started(s)}
    ELSE {s}

CheckServerOnline ==
    /\ pc = "CheckServerOnline"
    /\ slot \in DOMAIN Servers
    /\ \E s \in Checked(Servers[slot]) : Servers' = [Servers EXCEPT ![slot] = s]
    /\ slot' = slot + 1
    /\ UNCHANGED <<web, files, ourversion, latestversion, checkwebcounter,
                   justloaded, webdata, pc, orphans, crashed, spoilt>>

EndRound ==
    /\ pc = "CheckServerOnline"
    /\ slot \notin DOMAIN Servers
    /\ slot' = 0
    /\ justloaded' = FALSE
    /\ pc' = "round"
    /\ UNCHANGED <<web, files, ourversion, latestversion, checkwebcounter,
                   Servers, webdata, orphans, crashed, spoilt>>

LauncherStep ==
    \/ Round
    \/ NeedsUpdate
    \/ KillServers
    \/ DownloadUpdate
    \/ WriteUpdate
    \/ OpenVersion
    \/ WriteVersion
    \/ UpdateServers
    \/ CheckServerOnline
    \/ EndRound

-----------------------------------------------------------------------------
(* The workers, the machine and the website's operator.                    *)

WorkerDies(i) ==
    /\ Servers[i].pid = "alive"
    /\ Servers' = [Servers EXCEPT ![i] = [Servers[i] EXCEPT !.pid = "dead"]]
    /\ UNCHANGED <<web, files, ourversion, latestversion, checkwebcounter,
                   justloaded, webdata, pc, others>>

OrphanDies(i) ==
    /\ orphans' = orphans \ {i}
    /\ UNCHANGED <<web, files, memory, webdata, pc, slot, crashed, spoilt>>

\* A reboot ends every process, wherever it is.
Reboot ==
    /\ Servers' = NoServers
    /\ pc' = "down"
    /\ slot' = 0
    /\ orphans' = {}
    /\ UNCHANGED <<web, files, ourversion, latestversion, checkwebcounter,
                   justloaded, webdata, crashed, spoilt>>

Publish ==
    /\ published < MaxVersion
    /\ published' = published + 1
    /\ UNCHANGED <<registered, config, files, memory, webdata, pc, others>>

\* The operator edits the settings, and enters this node or removes it.
Reconfigure ==
    /\ registered' \in BOOLEAN
    /\ config' \in Configs
    /\ spoilt' = (spoilt \/ (registered /\ ~registered'))
    /\ UNCHANGED <<published, files, memory, webdata, pc, slot, orphans, crashed>>

Next ==
    \/ Start
    \/ LauncherStep
    \/ \E i \in DOMAIN Servers : WorkerDies(i)
    \/ \E i \in orphans : OrphanDies(i)
    \/ Reboot
    \/ Publish
    \/ Reconfigure

Spec == Init /\ [][Next]_vars

\* The launcher's process is scheduled; fork does not fail for ever.
Fairness ==
    /\ WF_vars(LauncherStep)
    /\ \A i \in ServerIds : SF_vars(
          /\ CheckServerOnline
          /\ slot = i
          /\ Servers'[i].pid \in {"alive", "dead"})

FairSpec == Spec /\ Fairness

-----------------------------------------------------------------------------
\* Every variable keeps its type.
TypeOK ==
    /\ published \in 0..MaxVersion
    /\ registered \in BOOLEAN
    /\ config \in Configs
    /\ workerfile \in Binary
    /\ versionfile \in 0..MaxVersion
    /\ ourversion \in 0..MaxVersion
    /\ latestversion \in 0..MaxVersion
    /\ checkwebcounter \in 0..WebCheckFrequency
    /\ justloaded \in BOOLEAN
    /\ DOMAIN Servers = 0..(Size(Servers) - 1)
    /\ \A i \in DOMAIN Servers : Servers[i] \in serverdata \cup {Null}
    /\ webdata \in Binary
    /\ pc \in {"down", "round", "NeedsUpdate", "KillAndUpdate",
               "KillAndRestart", "DownloadUpdate", "WriteUpdate",
               "OpenVersion", "WriteVersion", "UpdateServers",
               "CheckServerOnline"}
    /\ slot \in 0..Size(Servers)
    /\ orphans \subseteq Nat
    /\ crashed \in BOOLEAN
    /\ spoilt \in BOOLEAN

\* Whatever the website publishes meanwhile and whenever the machine is
\* rebooted: a launcher that the website would call up to date has the worker
\* of that version, complete.  It need not when a launcher has died before or a
\* write has failed, nor when the node was removed from the website: between the
\* two requests of an update that makes the error message the worker of the
\* version just learned.
UpToDateHasTheWorker ==
    versionfile > 0 /\ versionfile >= published =>
        \/ workerfile >= versionfile
        \/ crashed
        \/ spoilt

\* Workers are left to themselves only by a launcher that dies: every update
\* and every change of the settings has ended the earlier workers.
OrphansOnlyAfterCrash == orphans # {} => crashed

\* Settings entered in the order of their servers are all parsed: exactly the
\* servers with an address and an A2S port will get a worker.
OrderedSettingsParse ==
    LET parsed == ParseServerSettings(config)
        Has(id, key) == [serverid |-> id, key |-> key] \in ToSet(config)
        Ordered == \A i, j \in DOMAIN config :
                      i < j => config[i].serverid <= config[j].serverid
    IN Ordered =>
        /\ ~parsed.thrown
        /\ {id \in DOMAIN parsed.servers : Runnable(parsed.servers[id])}
           = {id \in ServerIds : Has(id, "activated") /\ Has(id, "a2sport")}

\* A server with complete settings gets a running worker, again and again when
\* it dies, as long as the launcher and its settings last.
WorkersComeBack ==
    \A i \in ServerIds :
        i \in DOMAIN Servers /\ Runnable(Servers[i]) /\ workerfile >= 0
            ~> \/ i \in Alive(Servers)
               \/ i \notin DOMAIN Servers
               \/ ~Runnable(Servers[i])
               \/ workerfile < 0

-----------------------------------------------------------------------------
(* What the repository says and the code does not do.                      *)

=============================================================================
