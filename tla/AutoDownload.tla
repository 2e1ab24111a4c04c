----------------------------- MODULE AutoDownload -----------------------------
(***************************************************************************)
(* Which executable a launch runs (src/src/chrome.rs): an explicit         *)
(* override, Tier 0, the managed download of src/src/auto_download, or     *)
(* what Discovery finds.  The launchers are the plugins of one process,    *)
(* each launching under its own session mutex, so that several download at *)
(* once, into one cache directory.                                         *)
(*                                                                         *)
(* The catalogue names one version.  Of the archive and of the binary in   *)
(* it a file is kept that is absent, partial or whole.  A second writer    *)
(* that creates a file truncates it under the first one, which goes on at  *)
(* its own offset; a removed file lives on for those who have it open.     *)
(***************************************************************************)
EXTENDS Discovery

CONSTANTS
    Launchers,  \* tasks that run ChromeLauncher::launch
    Setups,     \* the environments the plugin may run in
    Nobody

ASSUME NobodyAssumption == Nobody \notin Launchers
ASSUME HostsAssumption == \A s \in Setups : ProperHost(s.host)

VARIABLES
    setup,      \* override, tierZero, supported and host; fixed
    zip,        \* the archive at its path
    zipOwner,   \* who truncated it last
    zipWriters, \* the downloads whose open file is the one at the path
    bin,        \* the binary at its path
    binOwner,   \* who truncated it last
    execBit,    \* whether it may be executed
    pc,         \* where each launcher is
    exe,        \* what it is about to spawn
    disturbed   \* history: an installation was cut short, or met another one

files == <<zip, zipOwner, zipWriters, bin, binOwner, execBit>>
vars == <<setup, files, pc, exe, disturbed>>

PCs == {"idle", "catalogue", "check", "request", "download", "stalled", "extract", "copy",
        "remove", "chmod", "verify", "discover", "spawn", "failed"}
Contents == {"absent", "partial", "whole"}

\* From the moment the binary was not found to the moment it is.
Fetching == {t \in Launchers :
    pc[t] \in {"request", "download", "stalled", "extract", "copy", "remove", "chmod", "verify"}}

\* While the binary is there and not yet ready.
Installing == {t \in Launchers : pc[t] \in {"copy", "remove", "chmod"}}

TypeOK ==
    /\ setup \in Setups
    /\ zip \in Contents
    /\ zipOwner \in Launchers \cup {Nobody}
    /\ zipWriters \subseteq {t \in Launchers : pc[t] \in {"download", "stalled"}}
    /\ bin \in Contents
    /\ binOwner \in Launchers \cup {Nobody}
    /\ execBit \in BOOLEAN
    /\ pc \in [Launchers -> PCs]
    /\ exe \in [Launchers -> {"none", "override", "managed", "system"}]
    /\ \A t \in Launchers : pc[t] = "spawn" <=> exe[t] # "none"
    /\ disturbed \in BOOLEAN

Init ==
    /\ setup \in Setups
    /\ zip = "absent" /\ zipOwner = Nobody /\ zipWriters = {}
    /\ bin = "absent" /\ binOwner = Nobody /\ execBit = FALSE
    /\ pc = [t \in Launchers |-> "idle"]
    /\ exe = [t \in Launchers |-> "none"]
    /\ disturbed = FALSE

NeedsChmod == setup.host.os # "windows"
Runnable == bin = "whole" /\ (NeedsChmod => execBit)

Goto(t, label) == pc' = [pc EXCEPT ![t] = label]
Resolve(t, source) == Goto(t, "spawn") /\ exe' = [exe EXCEPT ![t] = source]

-----------------------------------------------------------------------------
(* launch: the override, or Tier 0 if both its gates are open.             *)

Launch(t) ==
    /\ pc[t] = "idle"
    /\ \/ setup.override = "exists" /\ Resolve(t, "override")
       \/ setup.override = "missing" /\ Goto(t, "failed") /\ UNCHANGED exe
       \/ /\ setup.override = "unset"
          /\ Goto(t, IF setup.tierZero /\ setup.supported THEN "catalogue" ELSE "discover")
          /\ UNCHANGED exe
    /\ UNCHANGED <<setup, files, disturbed>>

\* The catalogue is asked for on every launch, with a timeout.
FetchCatalogue(t) ==
    /\ pc[t] = "catalogue"
    /\ Goto(t, "check")
    /\ UNCHANGED <<setup, files, exe, disturbed>>

\* Mutation: the error of the download is returned from the launch.
SoftErrorReturned(t) ==
    /\ pc[t] \in {"catalogue", "request", "extract"}
    /\ Goto(t, "failed")
    /\ UNCHANGED <<setup, files, exe, disturbed>>

\* An error that leaves the files alone, and becomes None: no catalogue, no
\* download in it for the platform, no answer, an archive that does not open.
SoftError(t) ==
    /\ pc[t] \in {"catalogue", "request", "extract"}
    /\ Goto(t, "discover")
    /\ UNCHANGED <<setup, files, exe, disturbed>>

\* The cache is valid if the binary exists.
CacheHit(t) ==
    /\ pc[t] = "check"
    /\ bin # "absent"
    /\ Resolve(t, "managed")
    /\ disturbed' = (disturbed \/ Installing # {})
    /\ UNCHANGED <<setup, files>>

\* Mutation: an archive on disk is taken for another launch's download.
CacheMissUnlessZip(t) ==
    /\ pc[t] = "check"
    /\ bin = "absent"
    /\ zip = "absent"
    /\ Goto(t, "request")
    /\ disturbed' = (disturbed \/ Fetching # {})
    /\ UNCHANGED <<setup, files, exe>>

CacheMiss(t) ==
    /\ pc[t] = "check"
    /\ bin = "absent"
    /\ Goto(t, "request")
    /\ disturbed' = (disturbed \/ Fetching # {})
    /\ UNCHANGED <<setup, files, exe>>

-----------------------------------------------------------------------------
(* ensure: download, extract, remove, chmod, verify.                       *)

\* The answer has come; File::create makes the archive, or truncates it.
CreateZip(t) ==
    /\ pc[t] = "request"
    /\ zip' = "partial"
    /\ zipOwner' = t
    /\ zipWriters' = IF zip = "absent" THEN {t} ELSE zipWriters \cup {t}
    /\ Goto(t, "download")
    /\ UNCHANGED <<setup, bin, binOwner, execBit, exe, disturbed>>

\* Mutation: the file is still open when the archive is read.
FinishDownloadOpen(t) ==
    /\ pc[t] = "download"
    /\ zip' = "whole"
    /\ Goto(t, "extract")
    /\ UNCHANGED <<setup, zipOwner, zipWriters, bin, binOwner, execBit, exe, disturbed>>

\* The last one to truncate leaves a whole file; another one may leave a hole where
\* the last one has not come to.
FinishDownload(t) ==
    /\ pc[t] = "download"
    /\ zip' \in IF t \notin zipWriters THEN {zip}
                ELSE IF zipOwner = t THEN {"whole"} ELSE {zip, "whole"}
    /\ zipWriters' = zipWriters \ {t}
    /\ Goto(t, "extract")
    /\ UNCHANGED <<setup, zipOwner, bin, binOwner, execBit, exe, disturbed>>

\* The stream breaks.  The partial archive stays, for the next one to truncate.
DownloadFails(t) ==
    /\ pc[t] = "download"
    /\ zipWriters' = zipWriters \ {t}
    /\ Goto(t, "discover")
    /\ UNCHANGED <<setup, zip, zipOwner, bin, binOwner, execBit, exe, disturbed>>

\* No more data comes, and no timeout: neither the request nor the stream has one.
Stall(t) ==
    /\ pc[t] \in {"request", "download"}
    /\ Goto(t, "stalled")
    /\ UNCHANGED <<setup, files, exe, disturbed>>

\* The archive opens, and the binary is created, or truncated if it is there.  An
\* archive whose directory at the end is missing does not open (SoftError).
StartCopy(t) ==
    /\ pc[t] = "extract"
    /\ zip # "absent"
    /\ bin' = "partial"
    /\ binOwner' = t
    /\ execBit' = (execBit /\ bin # "absent")
    /\ Goto(t, "copy")
    /\ UNCHANGED <<setup, zip, zipOwner, zipWriters, exe, disturbed>>

\* The archive opens and holds no such binary, or only under a name that is skipped.
ExtractNothing(t) ==
    /\ pc[t] = "extract"
    /\ zip # "absent"
    /\ Goto(t, "remove")
    /\ UNCHANGED <<setup, files, exe, disturbed>>

\* The checksums held, so what was written is right; where another one truncated
\* the file since, it may not be all there yet.
FinishCopy(t) ==
    /\ pc[t] = "copy"
    /\ bin' \in IF binOwner = t THEN {"whole"} ELSE {bin, "whole"}
    /\ Goto(t, "remove")
    /\ UNCHANGED <<setup, zip, zipOwner, zipWriters, binOwner, execBit, exe, disturbed>>

\* A full disk, or an archive truncated under the reader: what was written stays.
CopyFails(t) ==
    /\ pc[t] = "copy"
    /\ bin' \in {bin, "partial"}
    /\ disturbed' = TRUE
    /\ Goto(t, "discover")
    /\ UNCHANGED <<setup, zip, zipOwner, zipWriters, binOwner, execBit, exe>>

\* Mutation: no platform needs chmod.
RemoveZipThenVerify(t) ==
    /\ pc[t] = "remove"
    /\ zip' = "absent"
    /\ zipWriters' = {}
    /\ Goto(t, "verify")
    /\ UNCHANGED <<setup, zipOwner, bin, binOwner, execBit, exe, disturbed>>

\* Whichever archive is at the path is removed.
RemoveZip(t) ==
    /\ pc[t] = "remove"
    /\ zip' = "absent"
    /\ zipWriters' = {}
    /\ Goto(t, IF NeedsChmod THEN "chmod" ELSE "verify")
    /\ UNCHANGED <<setup, zipOwner, bin, binOwner, execBit, exe, disturbed>>

Chmod(t) ==
    /\ pc[t] = "chmod"
    /\ bin # "absent"
    /\ execBit' = TRUE
    /\ Goto(t, "verify")
    /\ UNCHANGED <<setup, zip, zipOwner, zipWriters, bin, binOwner, exe, disturbed>>

\* Refused, or there is nothing to make executable.
ChmodFails(t) ==
    /\ pc[t] = "chmod"
    /\ disturbed' = (disturbed \/ bin # "absent")
    /\ Goto(t, "discover")
    /\ UNCHANGED <<setup, files, exe>>

Verify(t) ==
    /\ pc[t] = "verify"
    /\ bin # "absent"
    /\ Resolve(t, "managed")
    /\ UNCHANGED <<setup, files, disturbed>>

\* "extracted, but binary not found".
VerifyFails(t) ==
    /\ pc[t] = "verify"
    /\ bin = "absent"
    /\ Goto(t, "discover")
    /\ UNCHANGED <<setup, files, exe, disturbed>>

-----------------------------------------------------------------------------

\* Tiers 1 and 2.
Discover(t) ==
    /\ pc[t] = "discover"
    /\ IF FindChrome(setup.host).found THEN Resolve(t, "system")
                                       ELSE Goto(t, "failed") /\ UNCHANGED exe
    /\ UNCHANGED <<setup, files, disturbed>>

\* The process starts, or does not; the launch is over either way.
Return(t) ==
    /\ pc[t] \in {"spawn", "failed"}
    /\ Goto(t, "idle")
    /\ exe' = [exe EXCEPT ![t] = "none"]
    /\ UNCHANGED <<setup, files, disturbed>>

\* The plugin's process ends and is started again; the cache stays as it is.
Restart ==
    /\ zipWriters' = {}
    /\ zipOwner' = Nobody
    /\ binOwner' = Nobody
    /\ pc' = [t \in Launchers |-> "idle"]
    /\ exe' = [t \in Launchers |-> "none"]
    /\ disturbed' = (disturbed \/ Installing # {})
    /\ UNCHANGED <<setup, zip, bin, execBit>>

Ensure(t) ==
    \/ FetchCatalogue(t)
    \/ SoftError(t)
    \/ CacheHit(t)
    \/ CacheMiss(t)
    \/ CreateZip(t)
    \/ FinishDownload(t)
    \/ DownloadFails(t)
    \/ StartCopy(t)
    \/ ExtractNothing(t)
    \/ FinishCopy(t)
    \/ CopyFails(t)
    \/ RemoveZip(t)
    \/ Chmod(t)
    \/ ChmodFails(t)
    \/ Verify(t)
    \/ VerifyFails(t)

LauncherStep(t) == Ensure(t) \/ Discover(t) \/ Return(t)

Next ==
    \/ \E t \in Launchers : Launch(t) \/ LauncherStep(t) \/ Stall(t)
    \/ Restart

\* A launcher goes on unless its download stalls, against which nothing is done.
Fairness == \A t \in Launchers : WF_vars(LauncherStep(t))

Spec == Init /\ [][Next]_vars /\ Fairness

-----------------------------------------------------------------------------

\* What Tier 0 hands to the spawn can be run: whole and executable, though the cache
\* only asks whether a file exists, unless an installation was cut short after the
\* binary was created, or two launches fetched or read the cache during one.  A
\* broken download, a stall and a restart in the middle of them do no harm
\* (manager.rs 70-118, 158-179).
ManagedBinaryRuns ==
    \A t \in Launchers : pc[t] = "spawn" /\ exe[t] = "managed" => Runnable \/ disturbed

\* chrome.rs 121-124: "Soft-errors fall through to Tier 1+2 so a network outage on
\* first launch doesn't block the plugin if a system Chrome is sitting on $PATH".
\* A launch finds no executable only if the override is wrong or there is none,
\* whatever becomes of the download.
TierZeroIsSoft ==
    \A t \in Launchers : pc[t] = "failed" =>
        \/ setup.override = "missing"
        \/ setup.override = "unset" /\ ~FindChrome(setup.host).found

\* What discovery finds is the best that is installed, by the order its comments
\* give (discovery.rs 63-68, 108-113), and an error lists every place a browser may be
\* installed in (157-165), with none there.
FindsPreferred == FindsBest(setup.host)

\* Every launch ends, whatever fails, is restarted or was left on disk by an earlier
\* one, unless its own download stalls (chrome.rs 103-170).
LaunchesEnd == \A t \in Launchers : pc[t] # "idle" ~> pc[t] \in {"idle", "stalled"}
==============================================================================
