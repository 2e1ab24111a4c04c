-------------------------- MODULE AutoDownloadProofs --------------------------
(***************************************************************************)
(* The safety of AutoDownload for any number of launchers and any set of   *)
(* environments.  Undisturbed, an installation is alone: the first launch  *)
(* that misses the cache is the only one that fetches until the binary is  *)
(* ready, and what is ready is never written again.                        *)
(*                                                                         *)
(* And the best browser is found, whatever is installed.  The lists are    *)
(* sorted by the order the comments give: each one by the kind within one  *)
(* scope, and one after the other by the scope.  The first hit is then no  *)
(* worse than the others.                                                  *)
(***************************************************************************)
EXTENDS AutoDownload, SequenceTheorems, WellFoundedInduction, TLAPS

BeforeCopy == {"request", "download", "stalled", "extract"}
Installed == {"remove", "chmod", "verify"}

\* What an undisturbed installation knows of the cache.
InstallInv ==
    /\ \A t, u \in Fetching : t = u
    /\ \A t \in Launchers :
        /\ pc[t] \in BeforeCopy => bin = "absent"
        /\ pc[t] = "copy" => binOwner = t
        /\ pc[t] \in Installed => bin \in {"whole", "absent"}
        /\ pc[t] = "verify" /\ NeedsChmod /\ bin = "whole" => execBit
        /\ pc[t] = "spawn" /\ exe[t] = "managed" => Runnable
    /\ Installing = {} => bin = "absent" \/ Runnable

\* Past Launch there is no override; a failed launch found nothing.
SoftInv ==
    \A t \in Launchers :
        /\ pc[t] \notin {"idle", "spawn", "failed"} => setup.override = "unset"
        /\ pc[t] = "failed" => \/ setup.override = "missing"
                               \/ setup.override = "unset" /\ ~FindChrome(setup.host).found

DInv ==
    /\ TypeOK
    /\ SoftInv
    /\ ~disturbed => InstallInv

\* It holds of an empty cache.
LEMMA InitDInv == Init => DInv
BY NobodyAssumption
DEF Init, DInv, TypeOK, PCs, Contents, SoftInv, InstallInv, Fetching, Installing, BeforeCopy,
    Installed

\* Every step keeps the types.
LEMMA TypeStep ==
    ASSUME TypeOK, Next
    PROVE  TypeOK'
<1>1. CASE Restart
    BY <1>1 DEF Restart, TypeOK, PCs, files
<1>2. ASSUME NEW t \in Launchers, Launch(t) \/ Discover(t) \/ Return(t) \/ Stall(t)
      PROVE  TypeOK'
    BY <1>2 DEF Launch, Discover, Return, Stall, Goto, Resolve, TypeOK, PCs, files
<1>3. ASSUME NEW t \in Launchers,
             \/ FetchCatalogue(t) \/ SoftError(t) \/ CacheHit(t) \/ CacheMiss(t)
             \/ ExtractNothing(t) \/ ChmodFails(t) \/ Verify(t) \/ VerifyFails(t)
      PROVE  TypeOK'
    BY <1>3 DEF FetchCatalogue, SoftError, CacheHit, CacheMiss, ExtractNothing, ChmodFails,
                Verify, VerifyFails, Goto, Resolve, TypeOK, PCs, files
<1>4. ASSUME NEW t \in Launchers, CreateZip(t) PROVE TypeOK'
    BY <1>4 DEF CreateZip, Goto, TypeOK, PCs, Contents
<1>5. ASSUME NEW t \in Launchers, FinishDownload(t) \/ DownloadFails(t) PROVE TypeOK'
    BY <1>5 DEF FinishDownload, DownloadFails, Goto, TypeOK, PCs, Contents
<1>6. ASSUME NEW t \in Launchers, StartCopy(t) \/ FinishCopy(t) \/ CopyFails(t) PROVE TypeOK'
    BY <1>6 DEF StartCopy, FinishCopy, CopyFails, Goto, TypeOK, PCs, Contents
<1>7. ASSUME NEW t \in Launchers, RemoveZip(t) \/ Chmod(t) PROVE TypeOK'
    BY <1>7 DEF RemoveZip, Chmod, Goto, TypeOK, PCs, Contents
<1>8. QED
    BY <1>1, <1>2, <1>3, <1>4, <1>5, <1>6, <1>7 DEF Next, LauncherStep, Ensure

\* A launcher that moves to a label where nothing is claimed of the override, or
\* came from one where it is unset.
LEMMA SoftStep ==
    ASSUME TypeOK, SoftInv, Next
    PROVE  SoftInv'
<1>1. CASE Restart
    BY <1>1 DEF Restart, SoftInv
<1>2. ASSUME NEW t \in Launchers, Launch(t) \/ Discover(t) \/ Return(t) \/ Stall(t)
      PROVE  SoftInv'
    BY <1>2 DEF Launch, Discover, Return, Stall, Goto, Resolve, TypeOK, SoftInv
<1>3. ASSUME NEW t \in Launchers, Ensure(t)
      PROVE  SoftInv'
    <2>1. PICK l : /\ pc' = [pc EXCEPT ![t] = l] /\ l \notin {"idle", "failed"}
                   /\ setup' = setup /\ pc[t] \notin {"idle", "spawn", "failed"}
        BY <1>3
        DEF Ensure, FetchCatalogue, SoftError, CacheHit, CacheMiss, CreateZip, FinishDownload,
            DownloadFails, StartCopy, ExtractNothing, FinishCopy, CopyFails, RemoveZip, Chmod,
            ChmodFails, Verify, VerifyFails, Goto, Resolve
    <2>2. QED
        BY <2>1 DEF TypeOK, SoftInv
<1>4. QED
    BY <1>1, <1>2, <1>3 DEF Next, LauncherStep

\* The steps that leave the binary alone, and keep a launcher out of the sets
\* Fetching and Installing or inside them.
LEMMA QuietStep ==
    ASSUME TypeOK, InstallInv, NEW t \in Launchers,
           \/ Launch(t) \/ Discover(t) \/ Return(t) \/ Stall(t) \/ FetchCatalogue(t)
           \/ SoftError(t) \/ CreateZip(t) \/ FinishDownload(t) \/ DownloadFails(t)
           \/ ExtractNothing(t) \/ RemoveZip(t) \/ ChmodFails(t) \/ Verify(t) \/ VerifyFails(t),
           ~disturbed'
    PROVE  InstallInv'
<1>1. UNCHANGED <<setup, bin, binOwner, execBit>>
    BY DEF Launch, Discover, Return, Stall, FetchCatalogue, SoftError, CreateZip,
           FinishDownload, DownloadFails, ExtractNothing, RemoveZip, ChmodFails, Verify,
           VerifyFails, files
<1>2. \A u \in Launchers : u # t => pc'[u] = pc[u] /\ exe'[u] = exe[u]
    BY DEF Launch, Discover, Return, Stall, FetchCatalogue, SoftError, CreateZip,
           FinishDownload, DownloadFails, ExtractNothing, RemoveZip, ChmodFails, Verify,
           VerifyFails, Goto, Resolve, TypeOK
<1>3. /\ pc'[t] \in BeforeCopy => pc[t] \in BeforeCopy
      /\ pc'[t] # "copy"
      /\ pc'[t] \in Installed => pc[t] \in Installed \/ pc[t] = "extract"
      /\ pc'[t] = "verify" => ~NeedsChmod
      /\ pc'[t] = "spawn" /\ exe'[t] = "managed" => pc[t] = "verify" /\ bin # "absent"
      /\ pc[t] = "copy" => FALSE
      /\ pc[t] = "remove" => pc'[t] \in {"chmod", "verify"}
      /\ pc[t] = "chmod" => bin = "absent"
    BY DEF Launch, Discover, Return, Stall, FetchCatalogue, SoftError, CreateZip,
           FinishDownload, DownloadFails, ExtractNothing, RemoveZip, ChmodFails, Verify,
           VerifyFails, Goto, Resolve, TypeOK, BeforeCopy, Installed, NeedsChmod
<1>4. pc[t] = "extract" => bin = "absent"
    BY DEF InstallInv, BeforeCopy
<1>5. pc[t] \in Installed => bin \in {"whole", "absent"}
    BY DEF InstallInv
<1>6. Fetching' \subseteq Fetching
    BY <1>2, <1>3 DEF Fetching, BeforeCopy, Installed
<1>7. Runnable' = Runnable /\ NeedsChmod' = NeedsChmod
    BY <1>1 DEF Runnable, NeedsChmod
<1>8. Installing' = {} => bin = "absent" \/ Runnable
    <2>1. CASE Installing = {}
        BY <2>1 DEF InstallInv
    <2>2. CASE pc[t] = "remove" /\ pc'[t] = "verify"
        BY <1>3, <1>5, <2>2 DEF Runnable, Installed
    <2>3. QED
        BY <1>2, <1>3, <2>1, <2>2 DEF Installing
<1>9. \A u \in Launchers :
        /\ pc'[u] \in BeforeCopy => bin = "absent"
        /\ pc'[u] = "copy" => binOwner = u
        /\ pc'[u] \in Installed => bin \in {"whole", "absent"}
        /\ pc'[u] = "verify" /\ NeedsChmod /\ bin = "whole" => execBit
        /\ pc'[u] = "spawn" /\ exe'[u] = "managed" => Runnable
    <2>1. ASSUME pc'[t] = "spawn", exe'[t] = "managed" PROVE Runnable
        BY <1>3, <2>1 DEF InstallInv, Runnable, Installed
    <2>2. QED
        BY <1>2, <1>3, <1>4, <1>5, <2>1 DEF InstallInv
<1>10. QED
    BY <1>1, <1>6, <1>7, <1>8, <1>9 DEF InstallInv

\* The cache is read: a hit finds a ready binary, a miss is the only one to fetch.
LEMMA CacheStep ==
    ASSUME TypeOK, InstallInv, NEW t \in Launchers, CacheHit(t) \/ CacheMiss(t), ~disturbed'
    PROVE  InstallInv'
<1>1. UNCHANGED <<setup, bin, binOwner, execBit>>
    BY DEF CacheHit, CacheMiss, files
<1>2. Runnable' = Runnable /\ NeedsChmod' = NeedsChmod
    BY <1>1 DEF Runnable, NeedsChmod
<1>3. CASE CacheHit(t)
    <2>1. /\ Installing = {} /\ Runnable /\ pc'[t] = "spawn"
          /\ \A u \in Launchers : u # t => pc'[u] = pc[u] /\ exe'[u] = exe[u]
        BY <1>3 DEF CacheHit, Resolve, Goto, TypeOK, InstallInv
    <2>2. Fetching' \subseteq Fetching /\ Installing' = {}
        BY <2>1 DEF Fetching, Installing
    <2>3. QED
        BY <1>1, <1>2, <2>1, <2>2 DEF InstallInv, BeforeCopy, Installed
<1>4. CASE CacheMiss(t)
    <2>1. /\ Fetching = {} /\ bin = "absent" /\ pc'[t] = "request"
          /\ \A u \in Launchers : (u # t => pc'[u] = pc[u]) /\ exe'[u] = exe[u]
        BY <1>4 DEF CacheMiss, Goto, TypeOK
    <2>2. Fetching' \subseteq {t}
        BY <2>1 DEF Fetching
    <2>3. QED
        BY <1>1, <1>2, <2>1, <2>2 DEF InstallInv, BeforeCopy, Installed, Runnable
<1>5. QED
    BY <1>3, <1>4

\* The one launcher that fetches writes the binary and makes it executable.
LEMMA InstallStep ==
    ASSUME TypeOK, InstallInv, NEW t \in Launchers, StartCopy(t) \/ FinishCopy(t) \/ Chmod(t)
    PROVE  InstallInv'
<1>1. /\ t \in Fetching
      /\ \A u \in Launchers : (u # t => pc'[u] = pc[u]) /\ exe'[u] = exe[u]
      /\ UNCHANGED setup
    BY DEF StartCopy, FinishCopy, Chmod, Goto, TypeOK, Fetching
<1>2. \A u \in Fetching : u = t
    BY <1>1 DEF InstallInv
<1>3. NeedsChmod' = NeedsChmod
    BY <1>1 DEF NeedsChmod
<1>4. CASE StartCopy(t)
    <2>1. /\ bin = "absent" /\ binOwner' = t /\ pc'[t] = "copy"
        BY <1>4 DEF StartCopy, Goto, TypeOK, InstallInv, BeforeCopy
    <2>2. t \in Installing' /\ Fetching' \subseteq {t}
        BY <1>1, <1>2, <2>1 DEF Installing, Fetching
    <2>3. QED
        BY <1>1, <1>2, <2>1, <2>2
        DEF InstallInv, BeforeCopy, Installed, Fetching, Runnable
<1>5. CASE FinishCopy(t)
    <2>1. /\ bin' = "whole" /\ pc'[t] = "remove" /\ UNCHANGED execBit
          /\ pc[t] = "copy"
        BY <1>5 DEF FinishCopy, Goto, TypeOK, InstallInv
    <2>2. t \in Installing' /\ Fetching' \subseteq {t}
        BY <1>1, <1>2, <2>1 DEF Installing, Fetching
    <2>3. Runnable => Runnable'
        BY <1>3, <2>1 DEF Runnable
    <2>4. QED
        BY <1>1, <1>2, <2>1, <2>2, <2>3
        DEF InstallInv, BeforeCopy, Installed, Fetching
<1>6. CASE Chmod(t)
    <2>1. /\ bin = "whole" /\ bin' = bin /\ execBit' /\ pc'[t] = "verify" /\ pc[t] = "chmod"
        BY <1>6 DEF Chmod, Goto, TypeOK, InstallInv, Installed
    <2>2. Runnable' /\ Fetching' \subseteq {t}
        BY <1>1, <1>2, <2>1 DEF Runnable, Fetching
    <2>3. QED
        BY <1>1, <1>2, <2>1, <2>2 DEF InstallInv, BeforeCopy, Installed, Fetching
<1>7. QED
    BY <1>4, <1>5, <1>6

\* A restart outside an installation finds the cache empty or ready.
LEMMA RestartStep ==
    ASSUME TypeOK, InstallInv, Restart, ~disturbed'
    PROVE  InstallInv'
<1>1. Installing = {} /\ UNCHANGED <<setup, bin, execBit>> /\ \A t \in Launchers : pc'[t] = "idle"
    BY DEF Restart
<1>2. Fetching' = {}
    BY <1>1 DEF Fetching
<1>3. QED
    BY <1>1, <1>2 DEF InstallInv, Runnable, NeedsChmod, BeforeCopy, Installed

\* Every step keeps the invariant; what is disturbed stays so.
LEMMA NextDInv == DInv /\ [Next]_vars => DInv'
<1>1. ASSUME DInv, Next PROVE DInv'
    <2>1. TypeOK' /\ SoftInv'
        BY <1>1, TypeStep, SoftStep DEF DInv
    <2>2. ASSUME ~disturbed' PROVE ~disturbed /\ InstallInv'
        <3>1. ~disturbed
            BY <1>1, <2>2
            DEF Next, LauncherStep, Ensure, Launch, Discover, Return, Stall, Restart,
                FetchCatalogue, SoftError, CacheHit, CacheMiss, CreateZip, FinishDownload,
                DownloadFails, StartCopy, ExtractNothing, FinishCopy, CopyFails, RemoveZip, Chmod,
                ChmodFails, Verify, VerifyFails, DInv, TypeOK
        <3>2. TypeOK /\ InstallInv
            BY <1>1, <3>1 DEF DInv
        <3>3. ASSUME NEW t \in Launchers, CopyFails(t) PROVE FALSE
            BY <2>2, <3>3 DEF CopyFails
        <3>4. QED
            BY <1>1, <2>2, <3>1, <3>2, <3>3, QuietStep, CacheStep, InstallStep, RestartStep
            DEF Next, LauncherStep, Ensure
    <2>3. QED
        BY <2>1, <2>2 DEF DInv
<1>2. ASSUME DInv, UNCHANGED vars PROVE DInv'
    BY <1>2 DEF DInv, vars, files, TypeOK, SoftInv, InstallInv, Fetching, Installing, Runnable,
                NeedsChmod
<1>3. QED
    BY <1>1, <1>2

\* The invariant holds of every behaviour, whatever the fairness.
THEOREM Invariance == Spec => []DInv
BY InitDInv, NextDInv, PTL DEF Spec

\* The files, the launchers and what they hold keep their types (manager.rs 65-119).
THEOREM TypeCorrect == Spec => []TypeOK
<1>1. DInv => TypeOK
    BY DEF DInv
<1>2. QED
    BY <1>1, Invariance, PTL

\* What Tier 0 hands out can be run, for any number of launchers, unless an
\* installation was cut short or met another launch (manager.rs 70-118).
THEOREM ManagedBinariesRun == Spec => []ManagedBinaryRuns
<1>1. DInv => ManagedBinaryRuns
    BY DEF DInv, InstallInv, ManagedBinaryRuns
<1>2. QED
    BY <1>1, Invariance, PTL

\* Whatever becomes of the download, a launch is refused an executable only for a
\* wrong override or for want of any browser (chrome.rs 117-170).
THEOREM TierZeroErrorsAreSoft == Spec => []TierZeroIsSoft
<1>1. DInv => TierZeroIsSoft
    BY DEF DInv, SoftInv, TierZeroIsSoft
<1>2. QED
    BY <1>1, Invariance, PTL

-----------------------------------------------------------------------------
(* Discovery.                                                              *)

Kinds == {"Chrome", "Chromium", "Edge"}
Scopes == {"system", "user", "path"}
Files == {"google-chrome", "google-chrome-stable", "chromium-browser", "chromium",
          "snap chromium", "termux chromium", "Google Chrome", "Chromium", "Microsoft Edge",
          "Program Files", "Program Files (x86)", "chrome", "msedge"}
Candidates == [kind : Kinds, scope : Scopes, file : Files]

Sorted(os, s) == \A i, j \in 1 .. Len(s) : i < j => NoWorse(os, s[i], s[j])

\* A sorted list of candidates of the given scopes.
SortedIn(os, scopes, s) ==
    /\ s \in Seq(Candidates)
    /\ \A i \in 1 .. Len(s) : s[i].scope \in scopes
    /\ Sorted(os, s)

\* A list whose scopes come before those of another one may be put before it.
LEMMA ConcatSorted ==
    ASSUME NEW os, NEW A, NEW B, NEW s, NEW t,
           SortedIn(os, A, s), SortedIn(os, B, t),
           \A a \in A, b \in B : ScopeRank(os)[a] < ScopeRank(os)[b]
    PROVE  SortedIn(os, A \cup B, s \o t)
<1>1. /\ s \o t \in Seq(Candidates)
      /\ Len(s) \in Nat /\ Len(t) \in Nat
      /\ Len(s \o t) = Len(s) + Len(t)
      /\ \A i \in 1 .. Len(s) + Len(t) :
            (s \o t)[i] = IF i <= Len(s) THEN s[i] ELSE t[i - Len(s)]
    BY ConcatProperties, LenProperties DEF SortedIn
<1>2. \A i \in 1 .. Len(s \o t) : (s \o t)[i].scope \in A \cup B
    BY <1>1 DEF SortedIn
<1>3. ASSUME NEW i \in 1 .. Len(s \o t), NEW j \in 1 .. Len(s \o t), i < j
      PROVE  NoWorse(os, (s \o t)[i], (s \o t)[j])
    <2>1. CASE j <= Len(s)
        BY <1>1, <1>3, <2>1 DEF SortedIn, Sorted
    <2>2. CASE i <= Len(s) /\ j > Len(s)
        <3>1. /\ (s \o t)[i] = s[i] /\ (s \o t)[i].scope \in A
              /\ (s \o t)[j] = t[j - Len(s)] /\ (s \o t)[j].scope \in B
            BY <1>1, <1>3, <2>2 DEF SortedIn
        <3>2. QED
            BY <3>1 DEF NoWorse
    <2>3. CASE i > Len(s)
        <3>1. /\ (s \o t)[i] = t[i - Len(s)] /\ i - Len(s) \in 1 .. Len(t)
              /\ (s \o t)[j] = t[j - Len(s)] /\ j - Len(s) \in 1 .. Len(t)
              /\ i - Len(s) < j - Len(s)
            BY <1>1, <1>3, <2>3
        <3>2. QED
            BY <3>1 DEF SortedIn, Sorted
    <2>4. QED
        BY <1>1, <1>3, <2>1, <2>2, <2>3
<1>4. QED
    BY <1>1, <1>2, <1>3 DEF SortedIn, Sorted

\* The installed paths of Linux are of one scope, Chrome before Chromium.
LEMMA LinuxSorted == SortedIn("linux", {"system"}, LinuxCandidates)
<1> DEFINE s == LinuxCandidates
<1>1. s \in Seq(Candidates) /\ Len(s) = 6
    BY DEF LinuxCandidates, Candidate, Candidates, Kinds, Scopes, Files
<1>2. /\ s[1].scope = "system" /\ s[2].scope = "system" /\ s[3].scope = "system"
      /\ s[4].scope = "system" /\ s[5].scope = "system" /\ s[6].scope = "system"
    BY DEF LinuxCandidates, Candidate
<1>3. /\ s[1].kind = "Chrome" /\ s[2].kind = "Chrome" /\ s[3].kind = "Chromium"
      /\ s[4].kind = "Chromium" /\ s[5].kind = "Chromium" /\ s[6].kind = "Chromium"
    BY DEF LinuxCandidates, Candidate
<1> HIDE DEF s
<1>4. ASSUME NEW i \in 1 .. 6, NEW j \in 1 .. 6, i < j
      PROVE  NoWorse("linux", s[i], s[j])
    BY <1>2, <1>3, <1>4 DEF NoWorse, KindRank
<1>5. SortedIn("linux", {"system"}, s)
    BY <1>1, <1>2, <1>4 DEF SortedIn, Sorted
<1>6. QED
    BY <1>5 DEF s

\* And so are the names on $PATH of Linux.
LEMMA LinuxPathSorted ==
    ASSUME NEW host, host.os = "linux"
    PROVE  SortedIn("linux", {"path"}, PathLookupNames(host))
<1> DEFINE s == PathLookupNames(host)
<1>1. s \in Seq(Candidates) /\ Len(s) = 4
    BY DEF PathLookupNames, Candidate, Candidates, Kinds, Scopes, Files
<1>2. /\ s[1].scope = "path" /\ s[2].scope = "path"
      /\ s[3].scope = "path" /\ s[4].scope = "path"
    BY DEF PathLookupNames, Candidate
<1>3. /\ s[1].kind = "Chrome" /\ s[2].kind = "Chrome"
      /\ s[3].kind = "Chromium" /\ s[4].kind = "Chromium"
    BY DEF PathLookupNames, Candidate
<1> HIDE DEF s
<1>4. ASSUME NEW i \in 1 .. 4, NEW j \in 1 .. 4, i < j
      PROVE  NoWorse("linux", s[i], s[j])
    BY <1>2, <1>3, <1>4 DEF NoWorse, KindRank
<1>5. SortedIn("linux", {"path"}, s)
    BY <1>1, <1>2, <1>4 DEF SortedIn, Sorted
<1>6. QED
    BY <1>5 DEF s

\* The bundles of macOS, in either scope.
LEMMA MacBundlesSorted ==
    ASSUME NEW scope \in Scopes
    PROVE  SortedIn("macos", {scope}, MacBundles(scope))
<1> DEFINE s == MacBundles(scope)
<1>1. s \in Seq(Candidates) /\ Len(s) = 3
    BY DEF MacBundles, Candidate, Candidates, Kinds, Files
<1>2. s[1].scope = scope /\ s[2].scope = scope /\ s[3].scope = scope
    BY DEF MacBundles, Candidate
<1>3. s[1].kind = "Chrome" /\ s[2].kind = "Chromium" /\ s[3].kind = "Edge"
    BY DEF MacBundles, Candidate
<1> HIDE DEF s
<1>4. ASSUME NEW i \in 1 .. 3, NEW j \in 1 .. 3, i < j
      PROVE  NoWorse("macos", s[i], s[j])
    BY <1>2, <1>3, <1>4 DEF NoWorse, KindRank
<1>5. SortedIn("macos", {scope}, s)
    BY <1>1, <1>2, <1>4 DEF SortedIn, Sorted
<1>6. QED
    BY <1>5 DEF s

\* Two names on the $PATH of macOS or Windows.
LEMMA OtherPathSorted ==
    ASSUME NEW host, host.os \in {"macos", "windows"}
    PROVE  SortedIn(host.os, {"path"}, PathLookupNames(host))
<1> DEFINE s == PathLookupNames(host)
<1>1. s \in Seq(Candidates) /\ Len(s) = 2
    <2>1. CASE host.os = "macos"
        BY <2>1 DEF PathLookupNames, Candidate, Candidates, Kinds, Scopes, Files
    <2>2. CASE host.os = "windows"
        BY <2>2 DEF PathLookupNames, Candidate, Candidates, Kinds, Scopes, Files
    <2>3. QED
        BY <2>1, <2>2
<1>2. s[1].scope = "path" /\ s[2].scope = "path"
    BY DEF PathLookupNames, Candidate
<1>3. s[1].kind = "Chrome" /\ s[2].kind = (IF host.os = "macos" THEN "Chromium" ELSE "Edge")
    BY DEF PathLookupNames, Candidate
<1> HIDE DEF s
<1>4. ASSUME NEW i \in 1 .. 2, NEW j \in 1 .. 2, i < j
      PROVE  NoWorse(host.os, s[i], s[j])
    BY <1>2, <1>3, <1>4 DEF NoWorse, KindRank
<1>5. SortedIn(host.os, {"path"}, s)
    BY <1>1, <1>2, <1>4 DEF SortedIn, Sorted
<1>6. QED
    BY <1>5 DEF s

WindowsUser ==
    <<Candidate("Chrome", "user", "chrome"),
      Candidate("Edge", "user", "msedge"),
      Candidate("Chromium", "user", "chrome")>>

WindowsSystem ==
    <<Candidate("Chrome", "system", "Program Files"),
      Candidate("Chrome", "system", "Program Files (x86)"),
      Candidate("Edge", "system", "Program Files"),
      Candidate("Edge", "system", "Program Files (x86)")>>

\* The installations of a Windows user, Edge before Chromium.
LEMMA WindowsUserSorted == SortedIn("windows", {"user"}, WindowsUser)
<1> DEFINE s == WindowsUser
<1>1. s \in Seq(Candidates) /\ Len(s) = 3
    BY DEF WindowsUser, Candidate, Candidates, Kinds, Scopes, Files
<1>2. s[1].scope = "user" /\ s[2].scope = "user" /\ s[3].scope = "user"
    BY DEF WindowsUser, Candidate
<1>3. s[1].kind = "Chrome" /\ s[2].kind = "Edge" /\ s[3].kind = "Chromium"
    BY DEF WindowsUser, Candidate
<1> HIDE DEF s
<1>4. ASSUME NEW i \in 1 .. 3, NEW j \in 1 .. 3, i < j
      PROVE  NoWorse("windows", s[i], s[j])
    BY <1>2, <1>3, <1>4 DEF NoWorse, KindRank
<1>5. SortedIn("windows", {"user"}, s)
    BY <1>1, <1>2, <1>4 DEF SortedIn, Sorted
<1>6. QED
    BY <1>5 DEF s

\* Those of the whole machine.
LEMMA WindowsSystemSorted == SortedIn("windows", {"system"}, WindowsSystem)
<1> DEFINE s == WindowsSystem
<1>1. s \in Seq(Candidates) /\ Len(s) = 4
    BY DEF WindowsSystem, Candidate, Candidates, Kinds, Scopes, Files
<1>2. /\ s[1].scope = "system" /\ s[2].scope = "system"
      /\ s[3].scope = "system" /\ s[4].scope = "system"
    BY DEF WindowsSystem, Candidate
<1>3. /\ s[1].kind = "Chrome" /\ s[2].kind = "Chrome"
      /\ s[3].kind = "Edge" /\ s[4].kind = "Edge"
    BY DEF WindowsSystem, Candidate
<1> HIDE DEF s
<1>4. ASSUME NEW i \in 1 .. 4, NEW j \in 1 .. 4, i < j
      PROVE  NoWorse("windows", s[i], s[j])
    BY <1>2, <1>3, <1>4 DEF NoWorse, KindRank
<1>5. SortedIn("windows", {"system"}, s)
    BY <1>1, <1>2, <1>4 DEF SortedIn, Sorted
<1>6. QED
    BY <1>5 DEF s

\* The empty list is sorted.
LEMMA EmptySorted == ASSUME NEW os, NEW scopes PROVE SortedIn(os, scopes, <<>>)
BY EmptySeq DEF SortedIn, Sorted

\* An element of a concatenation is one of the lists.
LEMMA ConcatElements ==
    ASSUME NEW r \in Seq(Candidates), NEW s \in Seq(Candidates), NEW t \in Seq(Candidates)
    PROVE  Range((r \o s) \o t) = Range(r) \cup Range(s) \cup Range(t)
<1>1. r \o s \in Seq(Candidates)
    BY ConcatProperties
<1>2. Range((r \o s) \o t) = Range(r \o s) \cup Range(t)
    BY <1>1, RangeConcatenation
<1>3. Range(r \o s) = Range(r) \cup Range(s)
    BY RangeConcatenation
<1>4. QED
    BY <1>2, <1>3

\* The scopes of what may be installed: only "user" depends on the host.
LEMMA ElementScope ==
    ASSUME NEW os, NEW A, NEW s, SortedIn(os, A, s), NEW c \in Range(s)
    PROVE  c.scope \in A
BY LenProperties DEF SortedIn, Range

AllScopes == {"system", "user", "path"}

\* On a host, what is probed is sorted, and what a per-user directory adds to it
\* is of scope "user".
ProbesOf(host) ==
    /\ SortedIn(host.os, AllScopes, Probes(host))
    /\ \A c \in Findable(host.os) : c \in Range(Probes(host)) \/ (c.scope = "user" /\ ~host.userDir)

LEMMA LinuxProbes == ASSUME NEW host, host.os = "linux" PROVE ProbesOf(host)
<1>1. Probes(host) = LinuxCandidates \o PathLookupNames(host)
    BY DEF Probes, BundledCandidates
<1>2. SortedIn("linux", {"system"} \cup {"path"}, Probes(host))
    <2>1. ScopeRank("linux")["system"] < ScopeRank("linux")["path"]
        BY DEF ScopeRank
    <2>2. SortedIn("linux", {"path"}, PathLookupNames(host))
        BY LinuxPathSorted
    <2>3. QED
        BY <1>1, <2>1, <2>2, LinuxSorted, ConcatSorted
<1>3. Probes([os |-> "linux", userDir |-> TRUE]) = Probes(host)
    BY DEF Probes, BundledCandidates, PathLookupNames
<1>4. QED
    BY <1>2, <1>3 DEF ProbesOf, AllScopes, SortedIn, Findable, Range

LEMMA MacProbes ==
    ASSUME NEW host, host.os = "macos", host.userDir \in BOOLEAN
    PROVE  ProbesOf(host)
<1> DEFINE user == IF host.userDir THEN MacBundles("user") ELSE <<>>
           path == PathLookupNames(host)
           full == [os |-> "macos", userDir |-> TRUE]
<1>1. Probes(host) = (MacBundles("system") \o user) \o path
    BY DEF Probes, BundledCandidates, MacCandidates
<1>2. /\ SortedIn("macos", {"system"}, MacBundles("system"))
      /\ SortedIn("macos", {"user"}, MacBundles("user"))
      /\ SortedIn("macos", {"user"}, user)
      /\ SortedIn("macos", {"path"}, path)
    BY MacBundlesSorted, EmptySorted, OtherPathSorted DEF Scopes
<1>3. /\ SortedIn("macos", {"system"} \cup {"user"}, MacBundles("system") \o user)
      /\ SortedIn("macos", {"system"} \cup {"user"}, MacBundles("system") \o MacBundles("user"))
    BY <1>2, ConcatSorted DEF ScopeRank
<1>4. SortedIn("macos", ({"system"} \cup {"user"}) \cup {"path"}, Probes(host))
    BY <1>1, <1>2, <1>3, ConcatSorted DEF ScopeRank
<1>5. Probes(full) = (MacBundles("system") \o MacBundles("user")) \o path
    BY DEF Probes, BundledCandidates, MacCandidates, PathLookupNames
<1>6. /\ Range(Probes(host)) = Range(MacBundles("system")) \cup Range(user) \cup Range(path)
      /\ Range(Probes(full))
            = Range(MacBundles("system")) \cup Range(MacBundles("user")) \cup Range(path)
    <2>1. /\ MacBundles("system") \in Seq(Candidates) /\ MacBundles("user") \in Seq(Candidates)
          /\ user \in Seq(Candidates) /\ path \in Seq(Candidates)
        BY <1>2 DEF SortedIn
    <2> HIDE DEF user, path, full
    <2>2. QED
        BY <1>1, <1>5, <2>1, ConcatElements
<1>7. \A c \in Range(MacBundles("user")) : c.scope = "user"
    BY <1>2, ElementScope
<1>8. Findable("macos") = Range(Probes(full))
    BY DEF Findable, Range
<1>9. QED
    BY <1>4, <1>6, <1>7, <1>8 DEF ProbesOf, AllScopes, SortedIn

LEMMA WindowsProbes ==
    ASSUME NEW host, host.os = "windows", host.userDir \in BOOLEAN
    PROVE  ProbesOf(host)
<1> DEFINE user == IF host.userDir THEN WindowsUser ELSE <<>>
           path == PathLookupNames(host)
           full == [os |-> "windows", userDir |-> TRUE]
<1>1. Probes(host) = (user \o WindowsSystem) \o path
    BY DEF Probes, BundledCandidates, WindowsCandidates, WindowsUser, WindowsSystem
<1>2. /\ SortedIn("windows", {"user"}, user)
      /\ SortedIn("windows", {"path"}, path)
    BY WindowsUserSorted, EmptySorted, OtherPathSorted
<1>3. /\ SortedIn("windows", {"user"} \cup {"system"}, user \o WindowsSystem)
      /\ SortedIn("windows", {"user"} \cup {"system"}, WindowsUser \o WindowsSystem)
    BY <1>2, WindowsUserSorted, WindowsSystemSorted, ConcatSorted DEF ScopeRank
<1>4. SortedIn("windows", ({"user"} \cup {"system"}) \cup {"path"}, Probes(host))
    BY <1>1, <1>2, <1>3, ConcatSorted DEF ScopeRank
<1>5. Probes(full) = (WindowsUser \o WindowsSystem) \o path
    BY DEF Probes, BundledCandidates, WindowsCandidates, PathLookupNames, WindowsUser,
           WindowsSystem
<1>6. /\ Range(Probes(host)) = Range(user) \cup Range(WindowsSystem) \cup Range(path)
      /\ Range(Probes(full)) = Range(WindowsUser) \cup Range(WindowsSystem) \cup Range(path)
    <2>1. /\ WindowsUser \in Seq(Candidates) /\ WindowsSystem \in Seq(Candidates)
          /\ user \in Seq(Candidates) /\ path \in Seq(Candidates)
        BY <1>2, WindowsUserSorted, WindowsSystemSorted DEF SortedIn
    <2> HIDE DEF user, path, full
    <2>2. QED
        BY <1>1, <1>5, <2>1, ConcatElements
<1>7. \A c \in Range(WindowsUser) : c.scope = "user"
    BY WindowsUserSorted, ElementScope
<1>8. Findable("windows") = Range(Probes(full))
    BY DEF Findable, Range
<1>9. QED
    BY <1>4, <1>6, <1>7, <1>8 DEF ProbesOf, AllScopes, SortedIn

\* A set of positions has a first one.
LEMMA FirstExists ==
    ASSUME NEW H, H \subseteq Nat, H # {}
    PROVE  \E i \in H : \A j \in H : i <= j
<1>1. PICK i \in H : \A j \in H : <<j, i>> \notin OpToRel(<, Nat)
    BY NatLessThanWellFounded, WFMin
<1>2. \A j \in H : ~(j < i)
    BY <1>1 DEF OpToRel
<1>3. QED
    BY <1>2

\* find_chrome_executable returns the best of what is installed and within reach, and
\* finds nothing only if nothing is, which the list of its probes shows (discovery.rs 171-198).
THEOREM FindChromeIsPreferred ==
    ASSUME NEW host, ProperHost(host)
    PROVE  FindsBest(host)
<1> DEFINE probes == Probes(host)
           hits == {i \in DOMAIN probes : probes[i] \in host.installed}
           first == CHOOSE i \in hits : \A j \in hits : i <= j
<1>1. ProbesOf(host)
    BY LinuxProbes, MacProbes, WindowsProbes DEF ProperHost, Systems
<1>2. /\ DOMAIN probes = 1 .. Len(probes) /\ Len(probes) \in Nat
      /\ \A i, j \in DOMAIN probes : i < j => NoWorse(host.os, probes[i], probes[j])
      /\ \A i \in DOMAIN probes : probes[i] \in Candidates
    BY <1>1, LenProperties, ElementOfSeq DEF ProbesOf, SortedIn, Sorted
<1>3. ASSUME NEW c \in Reachable(host)
      PROVE  \E i \in DOMAIN probes : probes[i] = c
    BY <1>1, <1>3 DEF ProbesOf, ProperHost, Range, Reachable
<1>4. CASE hits = {}
    <2>1. FindChrome(host) = [found |-> FALSE, searched |-> probes]
        BY <1>4 DEF FindChrome
    <2>2. host.installed \cap Reachable(host) = {}
        BY <1>3, <1>4
    <2>3. QED
        BY <1>3, <2>1, <2>2 DEF FindsBest
<1>5. CASE hits # {}
    <2>1. first \in hits /\ \A j \in hits : first <= j
        <3>1. hits \subseteq Nat
            BY <1>2
        <3>2. \E i \in hits : \A j \in hits : i <= j
            BY <1>5, <3>1, FirstExists
        <3>3. QED
            BY <3>2
    <2>2. FindChrome(host) = [found |-> TRUE, exe |-> probes[first]]
        BY <1>5 DEF FindChrome
    <2>3. \A c \in Candidates : NoWorse(host.os, c, c)
        BY DEF NoWorse, KindRank, Candidates, Kinds
    <2>4. ASSUME NEW d \in host.installed \cap Reachable(host)
          PROVE  NoWorse(host.os, probes[first], d)
        <3>1. PICK j \in hits : probes[j] = d
            BY <1>3
        <3>2. CASE first = j
            BY <1>2, <2>1, <2>3, <3>1, <3>2
        <3>3. CASE first < j
            BY <1>2, <2>1, <3>1, <3>3
        <3>4. QED
            BY <1>2, <2>1, <3>1, <3>2, <3>3
    <2>5. QED
        BY <2>1, <2>2, <2>4 DEF FindsBest
<1>6. QED
    BY <1>4, <1>5

\* A launch that reaches discovery spawns the best browser installed on its host,
\* whatever the host (discovery.rs 171-198, chrome.rs 150-168).
THEOREM DiscoveryFindsPreferred == Spec => []FindsPreferred
<1>1. TypeOK => FindsPreferred
    BY HostsAssumption, FindChromeIsPreferred DEF TypeOK, FindsPreferred
<1>2. QED
    BY <1>1, TypeCorrect, PTL
==============================================================================
