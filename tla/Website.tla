-------------------------------- MODULE Website --------------------------------
(***************************************************************************)
(* What the website answers to launchers and modules, and what FetchWebData*)
(* makes of it.  The website itself keeps no state between two requests:   *)
(* the modules that ask it hold the tables its operator edits.             *)
(*                                                                         *)
(* A reply to a question about versions is a number, and so is an update,  *)
(* known by its version; the other replies are the negative numbers below. *)
(***************************************************************************)
EXTENDS Integers

Message == -3     \* "err: " and an error message
Empty == -4       \* "suc: " and nothing
Garbled == -5     \* something else before the "err: "
UpToDate == -6
Password == -7

\* Game servers ask with their port.  The tables may hold one at the caller's
\* address, or only some at the same IP.
Callers == {"unknown", "neighbour", "known"}

\* Update: the caller's IP, and port, must be in a table.
HasAccess(caller) == caller = "known"

IsOutdated(latest, current) == latest > current

\* autoupdate.php with checkver.
CheckVer(access, latest, current) ==
    IF ~access THEN Message
    ELSE IF IsOutdated(latest, current) THEN latest ELSE UpToDate

\* autoupdate.php without it.
GetUpdateIfNeeded(access, latest, current) ==
    IF ~access THEN Message
    ELSE IF IsOutdated(latest, current) THEN latest ELSE Empty

\* serverdata.php with a port.
ServerKey(caller) ==
    IF caller = "known" THEN Password
    ELSE IF caller = "neighbour" THEN Garbled ELSE Message

\* serverdata.php without one: the settings of the node's servers.
ServersForOurNode(access, settings) == IF access THEN settings ELSE <<>>

-----------------------------------------------------------------------------
\* Only a reply with a text behind "suc: " or "err: " is accepted, and then
\* nobody can tell the two apart.
FetchWebData(reply) == {reply} \ {Empty, Garbled}

Atoi(reply) == IF reply >= 0 THEN reply ELSE 0
=============================================================================
