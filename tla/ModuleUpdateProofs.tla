-------------------------- MODULE ModuleUpdateProofs --------------------------
(***************************************************************************)
(* Proofs about the installation of a module update, for any number of     *)
(* published versions.  The three properties are not inductive: what a     *)
(* file holds depends on how far the installation has come, and on what    *)
(* the download was based on.  InstallInv says both.                       *)
(***************************************************************************)
EXTENDS ModuleUpdate, TLAPS

Written == {"OpenVersion", "WriteVersion", "RenameOld", "RemoveOld", "RenameNew"}
Saved == {"RenameOld", "RemoveOld", "RenameNew"}

\* A game server that was never in the website's table never learns of a version.
VersionsNeedRegistration ==
    caller # "known" /\ ~removed =>
        versionfile = 0 /\ ourversion = 0 /\ latestversion = 0

\* The module that is running stays installed until RenameOld.
LoadedStays ==
    pc \in (Installing \ {"RemoveOld", "RenameNew"})
             \cup {"CheckForUpdates", "DownloadUpdate"} => module >= 0

\* What the versions in memory and in the file have to do with each other and
\* with the download, as the installation goes on.
Stages ==
    /\ webdata \in 0..MaxVersion \cup {Message}
    /\ pc \in {"DownloadUpdate", "WriteModule"} => ourversion = versionfile
    /\ pc \in {"WriteModule", "OpenVersion"} =>
           versionfile = 0 \/ versionfile < published \/ removed
    /\ pc \in {"CheckForUpdates", "DownloadUpdate"} => latestversion <= published
    /\ pc \in Installing =>
           latestversion = 0 \/ latestversion <= webdata \/ removed
    /\ pc \in Written => newmodule = webdata \/ writefailed
    /\ pc \in Written \ {"OpenVersion"} => ourversion = latestversion
    /\ pc \in Saved => versionfile = ourversion \/ writefailed

\* Without a mishap the installed module is as new as the saved version says
\* whenever no installation is under way.
UninterruptedIsInstalled ==
    pc \notin Installing =>
        \/ versionfile = 0
        \/ versionfile <= module
        \/ interrupted
        \/ writefailed
        \/ removed

InstallInv ==
    /\ TypeOK
    /\ VersionsNeedRegistration
    /\ LoadedStays
    /\ Stages
    /\ NeverPartial
    /\ VersionHasItsModule
    /\ UninterruptedIsInstalled

\* InstallInv holds at first.
LEMMA InitInstallInv == Init => InstallInv
<1> SUFFICES ASSUME Init PROVE InstallInv
  OBVIOUS
<1> USE VersionsAssumption DEF Init, mishaps, Callers, Content, Missing, Partial, Message, Installing
<1>1. TypeOK
  <2>1. interrupted \in BOOLEAN /\ writefailed \in BOOLEAN /\ removed \in BOOLEAN
    BY Zenon
  <2> QED BY <2>1 DEF TypeOK
<1>2. VersionsNeedRegistration /\ LoadedStays
  BY DEF VersionsNeedRegistration, LoadedStays
<1>3. Stages
  BY DEF Stages, Written, Saved
<1>4. NeverPartial /\ VersionHasItsModule /\ UninterruptedIsInstalled
  BY DEF NeverPartial, VersionHasItsModule, UninterruptedIsInstalled
<1> QED BY <1>1, <1>2, <1>3, <1>4 DEF InstallInv

\* InstallInv is kept by every step, one action at a time.
LEMMA NextKeepsInstallInv == InstallInv /\ [Next]_vars => InstallInv'
<1> SUFFICES ASSUME InstallInv, [Next]_vars PROVE InstallInv'
  OBVIOUS
<1> USE VersionsAssumption
    DEF Callers, WriteFails, mishaps, InstallInv, TypeOK, VersionsNeedRegistration, LoadedStays, Stages,
        NeverPartial, VersionHasItsModule, UninterruptedIsInstalled, Content,
        Missing, Partial, Message, Installing, Written, Saved, web, files,
        memory
<1>1. CASE Start
  BY <1>1 DEF Start
<1>2. CASE CheckForUpdates
  <2>1. /\ pc = "CheckForUpdates"
        /\ pc' \in {"DownloadUpdate", "FetchKey"}
        /\ ourversion' = versionfile
        /\ \/ latestversion' = latestversion
           \/ caller = "known" /\ latestversion' = published
           \/ latestversion' = 0
        /\ UNCHANGED <<web, files, webdata, key, mishaps>>
    BY <1>2 DEF CheckForUpdates, Continue, FetchWebData, CheckVer, HasAccess,
                IsOutdated, Atoi, UpToDate, Empty, Garbled
  <2> QED BY <2>1
<1>3. CASE DownloadUpdate
  <2>1. CASE pc' = "FetchKey" /\ UNCHANGED <<webdata, newmodule>>
    BY <1>3, <2>1 DEF DownloadUpdate
  <2>2. CASE webdata' \in Update /\ pc' \in {"WriteModule", "OpenVersion"}
    <3>1. \/ caller # "known" /\ webdata' = Message
          \/ caller = "known" /\ published > ourversion /\ webdata' = published
      BY <2>2 DEF Update, FetchWebData, GetUpdateIfNeeded, HasAccess, IsOutdated,
                 Empty, Garbled
    <3>2. CASE /\ newmodule' = Partial /\ pc' = "WriteModule"
               /\ UNCHANGED mishaps
      BY <1>3, <2>2, <3>1, <3>2 DEF DownloadUpdate
    <3>3. CASE WriteFails /\ pc' = "OpenVersion" /\ UNCHANGED newmodule
      <4>1. writefailed' /\ writefailed' \in BOOLEAN
        BY <3>3, Zenon
      <4> QED BY <1>3, <2>2, <3>1, <3>3, <4>1 DEF DownloadUpdate
    <3> QED BY <1>3, <2>2, <3>2, <3>3 DEF DownloadUpdate
  <2> QED BY <1>3, <2>1, <2>2 DEF DownloadUpdate
<1>4. CASE WriteModule
  <2>1. CASE newmodule' = webdata /\ UNCHANGED mishaps
    BY <1>4, <2>1 DEF WriteModule
  <2>2. CASE WriteFails /\ UNCHANGED newmodule
    <3>1. writefailed' /\ writefailed' \in BOOLEAN
      BY <2>2, Zenon
    <3> QED BY <1>4, <2>2, <3>1 DEF WriteModule
  <2> QED BY <1>4, <2>1, <2>2 DEF WriteModule
<1>5. CASE OpenVersion
  <2>1. CASE versionfile' = 0 /\ pc' = "WriteVersion" /\ UNCHANGED mishaps
    BY <1>5, <2>1 DEF OpenVersion
  <2>2. CASE WriteFails /\ pc' = "RenameOld" /\ UNCHANGED versionfile
    <3>1. writefailed' /\ writefailed' \in BOOLEAN
      BY <2>2, Zenon
    <3> QED BY <1>5, <2>2, <3>1 DEF OpenVersion
  <2> QED BY <1>5, <2>1, <2>2 DEF OpenVersion
<1>6. CASE WriteVersion
  BY <1>6 DEF WriteVersion
<1>7. CASE RenameOld
  BY <1>7 DEF RenameOld
<1>8. CASE RemoveOld
  BY <1>8 DEF RemoveOld
<1>9. CASE RenameNew
  BY <1>9 DEF RenameNew
<1>10. CASE FetchKey
  BY <1>10 DEF FetchKey, KeyFrom
<1>11. CASE Stop
  BY <1>11 DEF Stop
<1>12. CASE Publish
  BY <1>12 DEF Publish
<1>13. CASE Register
  <2>1. removed' \in BOOLEAN /\ (removed \/ caller = "known" => removed')
    BY <1>13, Zenon DEF Register
  <2> QED BY <1>13, <2>1 DEF Register
<1>14. CASE UNCHANGED vars
  BY <1>14 DEF vars
<1> QED
  BY <1>1, <1>2, <1>3, <1>4, <1>5, <1>6, <1>7, <1>8, <1>9, <1>10, <1>11,
     <1>12, <1>13, <1>14
  DEF Next, ModuleStep

-----------------------------------------------------------------------------
\* What the installation keeps of its files and of its versions, in memory and
\* on disk, is InstallInv throughout.
THEOREM InstallInvariant == Spec => []InstallInv
BY InitInstallInv, NextKeepsInstallInv, PTL DEF Spec

\* Every variable keeps its type.
THEOREM ModuleTypes == Spec => []TypeOK
<1>1. InstallInv => TypeOK
  BY DEF InstallInv
<1> QED BY <1>1, InstallInvariant, PTL

\* Wherever the game server is stopped, leyzyrecl.so is never a module cut
\* short, unless a write has failed.
THEOREM NeverCutShort == Spec => []NeverPartial
<1>1. InstallInv => NeverPartial
  BY DEF InstallInv
<1> QED BY <1>1, InstallInvariant, PTL

\* A saved version that counts as up to date is backed by its module, or a
\* later one, in one of the two files, unless a write has failed or the game
\* server was removed from the website.
THEOREM SavedVersionIsBacked == Spec => []VersionHasItsModule
<1>1. InstallInv => VersionHasItsModule
  BY DEF InstallInv
<1> QED BY <1>1, InstallInvariant, PTL

\* Unless there was a mishap, a game server that is up to date by
\* its version file loads the newest module next time.
THEOREM UninterruptedIsCurrent == Spec => []UpToDateLoadsTheNewest
<1>1. InstallInv => UpToDateLoadsTheNewest
  BY DEF InstallInv, TypeOK, UninterruptedIsInstalled, UpToDateLoadsTheNewest,
         Installing
<1> QED BY <1>1, InstallInvariant, PTL
=============================================================================
