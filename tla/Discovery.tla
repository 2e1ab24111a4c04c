------------------------------ MODULE Discovery ------------------------------
(***************************************************************************)
(* How a browser is found on the host (src/src/chrome/discovery.rs): the   *)
(* well-known install paths of the operating system, then names on $PATH,  *)
(* the first one that exists.  A path is a scope and a file; "user" is     *)
(* under HOME or LOCALAPPDATA, which may not be set.                       *)
(***************************************************************************)
EXTENDS Naturals, Sequences

Systems == {"linux", "macos", "windows"}
Candidate(kind, scope, file) == [kind |-> kind, scope |-> scope, file |-> file]

LinuxCandidates ==
    <<Candidate("Chrome", "system", "google-chrome"),
      Candidate("Chrome", "system", "google-chrome-stable"),
      Candidate("Chromium", "system", "chromium-browser"),
      Candidate("Chromium", "system", "chromium"),
      Candidate("Chromium", "system", "snap chromium"),
      Candidate("Chromium", "system", "termux chromium")>>

MacBundles(scope) ==
    <<Candidate("Chrome", scope, "Google Chrome"),
      Candidate("Chromium", scope, "Chromium"),
      Candidate("Edge", scope, "Microsoft Edge")>>

MacCandidates(home) ==
    MacBundles("system") \o (IF home THEN MacBundles("user") ELSE <<>>)

\* Mutation: the per-user installations are pushed last.
WindowsSystemFirst(localAppData) ==
    <<Candidate("Chrome", "system", "Program Files"),
      Candidate("Chrome", "system", "Program Files (x86)"),
      Candidate("Edge", "system", "Program Files"),
      Candidate("Edge", "system", "Program Files (x86)")>>
    \o (IF localAppData
        THEN <<Candidate("Chrome", "user", "chrome"),
               Candidate("Edge", "user", "msedge"),
               Candidate("Chromium", "user", "chrome")>>
        ELSE <<>>)

WindowsCandidates(localAppData) ==
    (IF localAppData
     THEN <<Candidate("Chrome", "user", "chrome"),
            Candidate("Edge", "user", "msedge"),
            Candidate("Chromium", "user", "chrome")>>
     ELSE <<>>)
    \o <<Candidate("Chrome", "system", "Program Files"),
         Candidate("Chrome", "system", "Program Files (x86)"),
         Candidate("Edge", "system", "Program Files"),
         Candidate("Edge", "system", "Program Files (x86)")>>

\* bundled_candidates, for a host with or without a per-user directory.
BundledCandidates(host) ==
    CASE host.os = "linux" -> LinuxCandidates
      [] host.os = "macos" -> MacCandidates(host.userDir)
      [] host.os = "windows" -> WindowsCandidates(host.userDir)

PathLookupNames(host) ==
    CASE host.os = "linux" ->
            <<Candidate("Chrome", "path", "google-chrome"),
              Candidate("Chrome", "path", "google-chrome-stable"),
              Candidate("Chromium", "path", "chromium-browser"),
              Candidate("Chromium", "path", "chromium")>>
      [] host.os = "macos" ->
            <<Candidate("Chrome", "path", "google-chrome"),
              Candidate("Chromium", "path", "chromium")>>
      [] host.os = "windows" ->
            <<Candidate("Chrome", "path", "chrome"),
              Candidate("Edge", "path", "msedge")>>

Probes(host) == BundledCandidates(host) \o PathLookupNames(host)

\* find_chrome_executable: the first probe that finds something, and on failure
\* every probe that was made.
FindChrome(host) ==
    LET hits == {i \in DOMAIN Probes(host) : Probes(host)[i] \in host.installed}
        first == CHOOSE i \in hits : \A j \in hits : i <= j
    IN  IF hits # {} THEN [found |-> TRUE, exe |-> Probes(host)[first]]
                     ELSE [found |-> FALSE, searched |-> Probes(host)]

\* Whatever may be found on a system, with a per-user directory or without.
Findable(os) ==
    LET probes == Probes([os |-> os, userDir |-> TRUE])
    IN  {probes[i] : i \in DOMAIN probes}

\* A known system, with browsers where they may be.
ProperHost(host) ==
    /\ host.os \in Systems
    /\ host.userDir \in BOOLEAN
    /\ host.installed \subseteq Findable(host.os)

-----------------------------------------------------------------------------
(* What the comments say of the order, without a list.                     *)

\* discovery.rs 5-15: installed paths before names on $PATH; 66-68, macOS: system
\* scope before personal copies; 108-110, Windows: user installs before system ones.
ScopeRank(os) ==
    IF os = "windows" THEN [user |-> 1, system |-> 2, path |-> 3]
                      ELSE [system |-> 1, user |-> 2, path |-> 3]

\* discovery.rs 63, 108: Chrome, Chromium, Edge; on Windows Edge before Chromium.
KindRank(os) ==
    IF os = "windows" THEN [Chrome |-> 1, Edge |-> 2, Chromium |-> 3]
                      ELSE [Chrome |-> 1, Chromium |-> 2, Edge |-> 3]

\* In a better scope, or of no worse a kind in the same scope.
NoWorse(os, c, d) ==
    \/ ScopeRank(os)[c.scope] < ScopeRank(os)[d.scope]
    \/ c.scope = d.scope /\ KindRank(os)[c.kind] <= KindRank(os)[d.kind]

\* What may be found on this host.
Reachable(host) == {c \in Findable(host.os) : c.scope = "user" => host.userDir}

\* The answer is the best of what is installed, or the full list of the places where
\* nothing is.
FindsBest(host) ==
    LET result == FindChrome(host)
    IN  IF result.found
        THEN /\ result.exe \in host.installed
             /\ \A c \in host.installed \cap Reachable(host) : NoWorse(host.os, result.exe, c)
        ELSE /\ host.installed \cap Reachable(host) = {}
             /\ \A c \in Reachable(host) :
                    \E i \in DOMAIN result.searched : result.searched[i] = c
==============================================================================
