----------------------------- MODULE ModuleUpdate -----------------------------
(***************************************************************************)
(* How the game-server module (leyzyremodule) starts: the first recvfrom   *)
(* on the game port checks the website for a newer module, downloads and   *)
(* installs it for the next start, and fetches the proxy password.  The    *)
(* game server may be stopped at any point, and the files are all that     *)
(* remains; a file may not open for writing, or take less than it should,  *)
(* and nobody looks; and the operator may take the game server off the     *)
(* website's table again.  With the password the module behaves as in Hook.*)
(*                                                                         *)
(* A module is known by the version it was published as.  Nobody reads the *)
(* changelog, so its download is left out.                                 *)
(***************************************************************************)
EXTENDS Website

CONSTANT MaxVersion      \* bound: versions published

ASSUME VersionsAssumption == MaxVersion \in Nat

VARIABLES
    published,      \* the newest version on the website
    caller,         \* what the website knows of this game server
    module,         \* leyzyrecl.so
    oldmodule,      \* leyzyrecl_old.so
    newmodule,      \* leyzyrecl_new.so
    versionfile,    \* what leyzyre_version.txt says
    ourversion, latestversion,
    webdata,        \* the update just downloaded
    key,            \* the proxy password: none, the right one, or a message
    pc,             \* what the module does next
    interrupted,    \* history: an installation was cut short by a stop
    writefailed,    \* history: a file was not written, or not whole
    removed         \* history: the game server was removed from the website

web == <<published, caller>>
files == <<module, oldmodule, newmodule, versionfile>>
memory == <<ourversion, latestversion, webdata, key>>
mishaps == <<interrupted, writefailed, removed>>
vars == <<web, files, memory, pc, mishaps>>

\* Files that are no module: none, one cut short, and an error message of the
\* website.
Missing == -1
Partial == -2
Content == Message..MaxVersion

Installing == {"WriteModule", "OpenVersion", "WriteVersion", "RenameOld",
               "RemoveOld", "RenameNew"}

-----------------------------------------------------------------------------
Init ==
    /\ published = 0
    /\ caller \in Callers
    /\ module = 0
    /\ oldmodule = Missing
    /\ newmodule = Missing
    /\ versionfile = 0
    /\ ourversion = 0
    /\ latestversion = 0
    /\ webdata = Message
    /\ key = "none"
    /\ pc = "down"
    /\ interrupted = FALSE
    /\ writefailed = FALSE
    /\ removed = FALSE

\* The game server starts.  Without a module that can be loaded it runs
\* unproxied.
Start ==
    /\ pc = "down"
    /\ pc' = IF module >= 0 THEN "CheckForUpdates" ELSE "unproxied"
    /\ ourversion' = 0
    /\ latestversion' = 0
    /\ key' = "none"
    /\ UNCHANGED <<web, files, webdata, mishaps>>

Continue(needsupdate) ==
    pc' = IF needsupdate THEN "DownloadUpdate" ELSE "FetchKey"

\* CheckForUpdates up to the website's answer.  When the request fails
\* NeedsUpdate returns nothing, which may be taken for anything; an error
\* message is read as version 0.
CheckForUpdates ==
    /\ pc = "CheckForUpdates"
    /\ ourversion' = versionfile
    /\ \/ /\ \E anything \in BOOLEAN : Continue(anything)
          /\ UNCHANGED latestversion
       \/ \E reply \in
             FetchWebData(CheckVer(HasAccess(caller), published, versionfile)) :
             IF reply = UpToDate
             THEN Continue(FALSE) /\ UNCHANGED latestversion
             ELSE /\ latestversion' = Atoi(reply)
                  /\ Continue(~(versionfile > Atoi(reply)))
    /\ UNCHANGED <<web, files, webdata, key, mishaps>>

\* The reply to the request for an update.
Update ==
    FetchWebData(GetUpdateIfNeeded(HasAccess(caller), published, ourversion))

WriteFails == writefailed' = TRUE /\ UNCHANGED <<interrupted, removed>>

\* The new module replaces the old one while it is being written.
MutantWritesInPlace ==
    /\ pc = "DownloadUpdate"
    /\ \/ /\ pc' = "FetchKey"
          /\ UNCHANGED <<webdata, module, newmodule>>
       \/ /\ webdata' \in Update
          /\ newmodule' = Partial
          /\ module' = Partial
          /\ pc' = "WriteModule"
    /\ UNCHANGED <<web, oldmodule, versionfile, ourversion, latestversion,
                   key, mishaps>>

\* Opening the file empties it.  If it does not open, all goes on without it.
DownloadUpdate ==
    /\ pc = "DownloadUpdate"
    /\ \/ pc' = "FetchKey" /\ UNCHANGED <<webdata, newmodule, mishaps>>
       \/ /\ webdata' \in Update
          /\ \/ newmodule' = Partial /\ pc' = "WriteModule" /\ UNCHANGED mishaps
             \/ WriteFails /\ pc' = "OpenVersion" /\ UNCHANGED newmodule
    /\ UNCHANGED <<web, module, oldmodule, versionfile, ourversion,
                   latestversion, key>>

WriteModule ==
    /\ pc = "WriteModule"
    /\ \/ newmodule' = webdata /\ UNCHANGED mishaps
       \/ WriteFails /\ UNCHANGED newmodule
    /\ pc' = "OpenVersion"
    /\ UNCHANGED <<web, module, oldmodule, versionfile, memory>>

\* An empty file is read as version 0.
OpenVersion ==
    /\ pc = "OpenVersion"
    /\ ourversion' = latestversion
    /\ \/ versionfile' = 0 /\ pc' = "WriteVersion" /\ UNCHANGED mishaps
       \/ WriteFails /\ pc' = "RenameOld" /\ UNCHANGED versionfile
    /\ UNCHANGED <<web, module, oldmodule, newmodule, latestversion, webdata, key>>

WriteVersion ==
    /\ pc = "WriteVersion"
    /\ \/ versionfile' = ourversion /\ UNCHANGED mishaps
       \/ WriteFails /\ UNCHANGED versionfile
    /\ pc' = "RenameOld"
    /\ UNCHANGED <<web, module, oldmodule, newmodule, memory>>

\* The rename's result is taken the wrong way round.
MutantInvertsCheck ==
    /\ pc = "RenameOld"
    /\ IF module = Missing
       THEN pc' = "RemoveOld" /\ UNCHANGED <<module, oldmodule>>
       ELSE /\ oldmodule' = module
            /\ module' = Missing
            /\ pc' = "FetchKey"
    /\ UNCHANGED <<web, newmodule, versionfile, memory, mishaps>>

\* Without an installed module the rename fails and the rest is left.
RenameOld ==
    /\ pc = "RenameOld"
    /\ IF module = Missing
       THEN pc' = "FetchKey" /\ UNCHANGED <<module, oldmodule>>
       ELSE /\ oldmodule' = module
            /\ module' = Missing
            /\ pc' = "RemoveOld"
    /\ UNCHANGED <<web, newmodule, versionfile, memory, mishaps>>

\* The removal has taken the wrong file.
MutantRemovesNew ==
    /\ pc = "RemoveOld"
    /\ newmodule' = Missing
    /\ pc' = "RenameNew"
    /\ UNCHANGED <<web, module, oldmodule, versionfile, memory, mishaps>>

RemoveOld ==
    /\ pc = "RemoveOld"
    /\ oldmodule' = Missing
    /\ pc' = "RenameNew"
    /\ UNCHANGED <<web, module, newmodule, versionfile, memory, mishaps>>

RenameNew ==
    /\ pc = "RenameNew"
    /\ IF newmodule = Missing
       THEN UNCHANGED <<module, newmodule>>
       ELSE module' = newmodule /\ newmodule' = Missing
    /\ pc' = "FetchKey"
    /\ UNCHANGED <<web, oldmodule, versionfile, memory, mishaps>>

KeyFrom(reply) == IF reply = Password THEN "key" ELSE "message"

MutantGivesUp ==
    /\ pc = "FetchKey"
    /\ \/ pc' = "unproxied" /\ UNCHANGED key
       \/ \E reply \in FetchWebData(ServerKey(caller)) :
             pc' = "ready" /\ key' = KeyFrom(reply)
    /\ UNCHANGED <<web, files, ourversion, latestversion, webdata, mishaps>>

\* FetchKey calls itself until the website answers in a way it accepts; an
\* error message is taken for the password.
FetchKey ==
    /\ pc = "FetchKey"
    /\ \/ UNCHANGED <<pc, key>>
       \/ \E reply \in FetchWebData(ServerKey(caller)) :
             pc' = "ready" /\ key' = KeyFrom(reply)
    /\ UNCHANGED <<web, files, ourversion, latestversion, webdata, mishaps>>

ModuleStep ==
    \/ CheckForUpdates
    \/ DownloadUpdate
    \/ WriteModule
    \/ OpenVersion
    \/ WriteVersion
    \/ RenameOld
    \/ RemoveOld
    \/ RenameNew
    \/ FetchKey

-----------------------------------------------------------------------------
(* The game server's operator and the website's.                           *)

Stop ==
    /\ pc # "down"
    /\ pc' = "down"
    /\ interrupted' = (interrupted \/ pc \in Installing)
    /\ UNCHANGED <<web, files, memory, writefailed, removed>>

Publish ==
    /\ published < MaxVersion
    /\ published' = published + 1
    /\ UNCHANGED <<caller, files, memory, pc, mishaps>>

\* The operator enters this game server, or another one of the machine, or
\* removes them again.
Register ==
    /\ caller' \in Callers \ {caller}
    /\ removed' = (removed \/ caller = "known")
    /\ UNCHANGED <<published, files, memory, pc, interrupted, writefailed>>

Next ==
    \/ Start
    \/ ModuleStep
    \/ Stop
    \/ Publish
    \/ Register

Spec == Init /\ [][Next]_vars

\* The engine keeps calling recvfrom; the website does not fail for ever.
Fairness ==
    /\ WF_vars(ModuleStep)
    /\ SF_vars(FetchKey /\ pc' = "ready")

FairSpec == Spec /\ Fairness

-----------------------------------------------------------------------------
\* Every variable keeps its type.
TypeOK ==
    /\ published \in 0..MaxVersion
    /\ caller \in Callers
    /\ module \in Content
    /\ oldmodule \in Content
    /\ newmodule \in Content
    /\ versionfile \in 0..MaxVersion
    /\ ourversion \in 0..MaxVersion
    /\ latestversion \in 0..MaxVersion
    /\ webdata \in Content
    /\ key \in {"none", "key", "message"}
    /\ pc \in {"down", "unproxied", "CheckForUpdates", "DownloadUpdate",
               "FetchKey", "ready"} \cup Installing
    /\ interrupted \in BOOLEAN
    /\ writefailed \in BOOLEAN
    /\ removed \in BOOLEAN

\* Wherever the game server is stopped, the installed module is never one cut
\* short: only a file that could not be written whole makes it one.
NeverPartial == module = Partial => writefailed

\* A saved version that the website would call up to date is backed by a
\* complete module of that version or a later one, installed or at least
\* waiting to be renamed, wherever installations were stopped.  It is not after
\* a write that failed, nor when the game server was removed from the website:
\* between the two requests of an update that makes the error message the module
\* of the version just learned.
VersionHasItsModule ==
    versionfile > 0 /\ versionfile >= published =>
        \/ versionfile <= module
        \/ versionfile <= newmodule
        \/ writefailed
        \/ removed

\* Unless an installation was cut short or one of these has happened, a game
\* server that has got its key and would be called up to date will load the
\* newest module at its next start.
UpToDateLoadsTheNewest ==
    pc = "ready" /\ versionfile > 0 /\ versionfile >= published =>
        \/ versionfile <= module
        \/ interrupted
        \/ writefailed
        \/ removed

\* A game server that has loaded the module gets its password, and not a message
\* in its place, however often the website does not answer, unless it is stopped
\* before or the website does not know it; also one that the website learns of
\* only while it is asking.
KeyIsFetched ==
    pc \notin {"down", "unproxied", "ready"}
        ~> (key = "key" \/ pc = "down" \/ caller # "known")
=============================================================================
