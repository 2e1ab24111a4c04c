-------------------------- MODULE ProfileDecoration --------------------------
(***************************************************************************)
(* The first call of an agent decorates the agent's profile directory      *)
(* before its BrowserPlugin enters PROFILES (main.rs): decorate_profile_dir *)
(* reads Default/Preferences, merges the name and the colour of the agent  *)
(* and writes the result through the one name Default/Preferences.tmp.     *)
(* Calls run concurrently, so first calls of one agent, whose raw ids may  *)
(* differ in spelling only, may all be in it at once, and so may a Chrome  *)
(* of an evicted entry that runs on the same directory.                    *)
(*                                                                         *)
(* Files are inodes: opening the temporary file while it exists truncates  *)
(* the inode another call is writing, and a rename moves the inode, open   *)
(* handles included.  An inode is named by what creates it: the call, or,  *)
(* for the files Chrome saves, the agent.                                  *)
(***************************************************************************)
EXTENDS FiniteSets, Integers

CONSTANTS Calls,         \* tool calls, each made at most once
          Agents,        \* canonical ids other than "default"
          MultiProfile,  \* limits.multi_profile_enabled
          NoFile,        \* the name is not in the directory
          Empty, Torn,   \* contents of a file: truncated; not a JSON object
          Off,           \* no Chrome runs
          MaxSaves,      \* bound: saves of Preferences by the Chromes of an agent
          MaxFaults,     \* bound: failing file operations
          MaxRestarts    \* bound: restarts of the plugin process

ASSUME BoundsAssumption ==
  /\ MaxSaves \in Nat /\ MaxFaults \in Nat /\ MaxRestarts \in Nat
  /\ MultiProfile \in BOOLEAN

ASSUME NamesAssumption ==
  /\ Calls \cap Agents = {}
  /\ NoFile \notin Calls \cup Agents
  /\ "default" \notin Agents

VARIABLES pc,         \* where each call is
          key,        \* the key of each call in PROFILES
          payload,    \* what a call is about to write
          handle,     \* the inode a call opened as the temporary file
          cached,     \* the keys in PROFILES
          data,       \* contents of the inodes
          tmp,        \* the inode named Preferences.tmp, for each agent
          prefs,      \* the inode named Preferences, for each agent
          chrome,     \* the Chrome on an agent's directory: what it loaded, or Off
          saves,      \* saves Chrome has made in each directory
          faults,     \* failed file operations so far
          restarts,   \* restarts so far
          warned,     \* agents whose decoration logged an error
          disturbed   \* agents two decorations of which met, or one and a save

callVars == <<pc, key, payload, handle>>
fileVars == <<data, tmp, prefs>>
vars == <<pc, key, payload, handle, cached, data, tmp, prefs, chrome, saves,
          faults, restarts, warned, disturbed>>

Keys == Agents \cup {"default"}
Files == Calls \cup Agents

(* Preferences: the saves of Chrome it holds, and the agent's name and colour. *)
Settings == [kept : SUBSET (1..MaxSaves), badge : BOOLEAN]
Blank == [kept |-> {}, badge |-> FALSE]
Contents == {Empty, Torn} \cup Settings

ASSUME ContentsAssumption == Settings \cap {Empty, Torn, Off} = {} /\ Empty # Torn

(* Raw ids: none or "", white space only, a refused one, a spelling of a name. *)
RawIds == [form : {"absent", "blank", "refused"}, name : {"default"}]
          \cup [form : {"plain", "shouted"}, name : Keys]
Refused == "refused"

SanitizeId(raw) == IF raw.form \in {"plain", "shouted"} THEN raw.name ELSE Refused

ProfileKey(raw) ==
  IF ~MultiProfile \/ raw.form = "absent" THEN "default" ELSE SanitizeId(raw)

Load(file) ==
  IF file # NoFile /\ data[file] \in Settings THEN data[file] ELSE Blank

(* The merge: the name and the colour are set, every other key is kept. *)
Badged(settings) == [kept |-> settings.kept, badge |-> TRUE]

InFlight(a) == {c \in Calls : key[c] = a /\ pc[c] \in {"open", "write", "rename"}}
Writing(a) == {c \in InFlight(a) : pc[c] \in {"write", "rename"}}

Init ==
  /\ pc = [c \in Calls |-> "idle"]
  /\ key = [c \in Calls |-> "default"]
  /\ payload = [c \in Calls |-> Blank]
  /\ handle = [c \in Calls |-> c]
  /\ cached = {}
  /\ data = [f \in Files |-> Empty]
  /\ tmp = [a \in Agents |-> NoFile]
  /\ prefs = [a \in Agents |-> NoFile]
  /\ chrome = [a \in Agents |-> Off]
  /\ saves = [a \in Agents |-> 0]
  /\ faults = 0 /\ restarts = 0
  /\ warned = {} /\ disturbed = {}

Goto(c, label) == pc' = [pc EXCEPT ![c] = label]

------------------------------------------------------------------------------
(* shared_plugin_for *)

(* Mutant: the entry is published before its directory is decorated. *)
CallPublishesFirst(c) ==
  /\ pc[c] = "idle"
  /\ \E k \in Keys :
       /\ key' = [key EXCEPT ![c] = k]
       /\ cached' = cached \cup {k}
       /\ Goto(c, IF k \in cached THEN "serving"
                  ELSE IF k = "default" THEN "insert" ELSE "read")
  /\ UNCHANGED <<payload, handle, fileVars, chrome, saves, faults, restarts, warned,
                 disturbed>>

(* An invalid id is refused, and so is a key that is not cached when the    *)
(* entries, those of other agents included, have reached max_profiles.  A   *)
(* cached key answers at once; only an agent's own directory, never the     *)
(* shared default one, is decorated.                                        *)
Call(c) ==
  /\ pc[c] = "idle"
  /\ \E raw \in RawIds :
       LET k == ProfileKey(raw) IN
       \/ /\ k \notin cached
          /\ Goto(c, "refused")
          /\ UNCHANGED key
       \/ /\ k # Refused
          /\ key' = [key EXCEPT ![c] = k]
          /\ Goto(c, IF k \in cached THEN "serving"
                     ELSE IF k = "default" THEN "insert" ELSE "read")
  /\ UNCHANGED <<payload, handle, cached, fileVars, chrome, saves, faults, restarts,
                 warned, disturbed>>

(* Any error of a decoration is logged and the call goes on. *)
Warn(c) == /\ warned' = warned \cup {key[c]}
           /\ Goto(c, "insert")

(* What decorate_profile_dir held for these calls is dropped. *)
Drop(cs) ==
  /\ payload' = [c \in Calls |-> IF c \in cs THEN Blank ELSE payload[c]]
  /\ handle' = [c \in Calls |-> IF c \in cs THEN c ELSE handle[c]]

(* The entry is published; the first of several callers wins. *)
Insert(c) ==
  /\ pc[c] = "insert"
  /\ cached' = cached \cup {key[c]}
  /\ Goto(c, "serving")
  /\ Drop({c})
  /\ UNCHANGED <<key, fileVars, chrome, saves, faults, restarts, warned,
                 disturbed>>

------------------------------------------------------------------------------
(* decorate_profile_dir *)

(* create_dir_all fails. *)
MakeDirFails(c) ==
  /\ pc[c] = "read" /\ faults < MaxFaults
  /\ faults' = faults + 1
  /\ Warn(c)
  /\ UNCHANGED <<key, payload, handle, cached, fileVars, chrome, saves, restarts, disturbed>>

(* Mutant: a file that is not a JSON object is written back as it is. *)
ReadUnparsed(c) ==
  LET file == prefs[key[c]] IN
  /\ pc[c] = "read"
  /\ payload' = [payload EXCEPT ![c] = IF file # NoFile /\ data[file] \in {Empty, Torn}
                                         THEN data[file]
                                         ELSE Badged(Load(file))]
  /\ Goto(c, "open")
  /\ UNCHANGED <<key, handle, cached, fileVars, chrome, saves, faults, restarts, warned,
                 disturbed>>

(* What is not a JSON object counts as {}: a missing, empty or torn file.   *)
Read(c) ==
  /\ pc[c] = "read"
  /\ payload' = [payload EXCEPT ![c] = Badged(Load(prefs[key[c]]))]
  /\ Goto(c, "open")
  /\ UNCHANGED <<key, handle, cached, fileVars, chrome, saves, faults, restarts, warned,
                 disturbed>>

(* Every error of the read counts as {} too, and is not reported.           *)
ReadFails(c) ==
  /\ pc[c] = "read" /\ faults < MaxFaults
  /\ faults' = faults + 1
  /\ payload' = [payload EXCEPT ![c] = Badged(Blank)]
  /\ disturbed' = disturbed \cup {key[c]}
  /\ Goto(c, "open")
  /\ UNCHANGED <<key, handle, cached, fileVars, chrome, saves, restarts, warned>>

(* tokio::fs::write, first half: create or truncate Preferences.tmp. *)
Open(c) ==
  LET a == key[c]
      inode == IF tmp[a] = NoFile THEN c ELSE tmp[a] IN
  /\ pc[c] = "open"
  /\ handle' = [handle EXCEPT ![c] = inode]
  /\ tmp' = [tmp EXCEPT ![a] = inode]
  /\ data' = [data EXCEPT ![inode] = Empty]
  /\ disturbed' = IF Writing(a) = {} THEN disturbed ELSE disturbed \cup {a}
  /\ Goto(c, "write")
  /\ UNCHANGED <<key, payload, cached, prefs, chrome, saves, faults, restarts, warned>>

(* Second half: write through the handle, wherever its inode is named now.  *)
(* Over the longer text of another writer it leaves the tail of that text.  *)
Write(c) ==
  /\ pc[c] = "write"
  /\ \E text \in {payload[c]} \cup
                 (IF data[handle[c]] \in {Empty, payload[c]} THEN {} ELSE {Torn}) :
       data' = [data EXCEPT ![handle[c]] = text]
  /\ Goto(c, "rename")
  /\ UNCHANGED <<key, payload, handle, cached, tmp, prefs, chrome, saves, faults, restarts,
                 warned, disturbed>>

(* Mutant: the error of the write is ignored and the file renamed. *)
WriteFailsIgnored(c) ==
  /\ pc[c] = "write" /\ faults < MaxFaults
  /\ faults' = faults + 1
  /\ data' = [data EXCEPT ![handle[c]] = Torn]
  /\ Goto(c, "rename")
  /\ UNCHANGED <<key, payload, handle, cached, tmp, prefs, chrome, saves, restarts,
                 warned, disturbed>>

(* The disk is full: the error leaves what was written so far. *)
WriteFails(c) ==
  /\ pc[c] = "write" /\ faults < MaxFaults
  /\ faults' = faults + 1
  /\ data' = [data EXCEPT ![handle[c]] = Torn]
  /\ Warn(c)
  /\ UNCHANGED <<key, payload, handle, cached, tmp, prefs, chrome, saves, restarts, disturbed>>

(* The rename takes whatever inode has the name now. *)
Rename(c) ==
  LET a == key[c] IN
  /\ pc[c] = "rename" /\ tmp[a] # NoFile
  /\ prefs' = [prefs EXCEPT ![a] = tmp[a]]
  /\ tmp' = [tmp EXCEPT ![a] = NoFile]
  /\ Goto(c, "insert")
  /\ UNCHANGED <<key, payload, handle, cached, data, chrome, saves, faults, restarts,
                 warned, disturbed>>

(* Mutant: the error of the rename is returned to the caller. *)
RenameErrorReturned(c) ==
  /\ pc[c] = "rename" /\ tmp[key[c]] = NoFile
  /\ Goto(c, "refused")
  /\ UNCHANGED <<key, payload, handle, cached, fileVars, chrome, saves, faults, restarts,
                 warned, disturbed>>

(* Another call has renamed the file away. *)
RenameFails(c) ==
  /\ pc[c] = "rename" /\ tmp[key[c]] = NoFile
  /\ Warn(c)
  /\ UNCHANGED <<key, payload, handle, cached, fileVars, chrome, saves, faults, restarts,
                 disturbed>>

------------------------------------------------------------------------------
(* Chrome, eviction and restarts *)

(* Any command of the call boots Chrome on the directory of its plugin. *)
Launch(c) ==
  LET a == key[c] IN
  /\ pc[c] = "serving"
  /\ IF a \in Agents /\ chrome[a] = Off
       THEN chrome' = [chrome EXCEPT ![a] = Load(prefs[a])]
       ELSE UNCHANGED chrome
  /\ Goto(c, "served")
  /\ UNCHANGED <<key, payload, handle, cached, fileVars, saves, faults, restarts, warned,
                 disturbed>>

(* Chrome replaces Preferences as a whole, through a file of its own. *)
Save(a) ==
  /\ chrome[a] # Off /\ saves[a] < MaxSaves
  /\ LET text == [kept |-> chrome[a].kept \cup {saves[a] + 1}, badge |-> chrome[a].badge] IN
     /\ chrome' = [chrome EXCEPT ![a] = text]
     /\ data' = [data EXCEPT ![a] = text]
  /\ prefs' = [prefs EXCEPT ![a] = a]
  /\ saves' = [saves EXCEPT ![a] = @ + 1]
  /\ disturbed' = IF InFlight(a) = {} THEN disturbed ELSE disturbed \cup {a}
  /\ UNCHANGED <<callVars, cached, tmp, faults, restarts, warned>>

(* The window is closed or Chrome crashes. *)
Quit(a) ==
  /\ chrome[a] # Off
  /\ chrome' = [chrome EXCEPT ![a] = Off]
  /\ UNCHANGED <<callVars, cached, fileVars, saves, faults, restarts, warned, disturbed>>

(* The idle loop drops the entry and kills its Chrome; a call that still    *)
(* holds the plugin may boot another one.                                   *)
Evict(a) ==
  /\ a \in cached
  /\ cached' = cached \ {a}
  /\ chrome' = [chrome EXCEPT ![a] = Off]
  /\ UNCHANGED <<callVars, fileVars, saves, faults, restarts, warned, disturbed>>

(* The process is restarted: files stay as they are, calls and entries are  *)
(* gone.  A process that is killed leaves its Chromes running.              *)
Restart ==
  /\ restarts < MaxRestarts
  /\ restarts' = restarts + 1
  /\ pc' = [c \in Calls |-> IF pc[c] \in {"idle", "served", "refused"} THEN pc[c] ELSE "lost"]
  /\ cached' = {}
  /\ Drop(Calls)
  /\ \E killed \in {{}, Agents} :
       chrome' = [a \in Agents |-> IF a \in killed THEN Off ELSE chrome[a]]
  /\ UNCHANGED <<key, fileVars, saves, faults, warned, disturbed>>

CallStep(c) ==
  \/ Call(c) \/ Insert(c) \/ MakeDirFails(c) \/ Read(c) \/ ReadFails(c) \/ Open(c)
  \/ Write(c) \/ WriteFails(c) \/ Rename(c) \/ RenameFails(c) \/ Launch(c)

Next ==
  \/ \E c \in Calls : CallStep(c)
  \/ \E a \in Agents : Save(a) \/ Quit(a) \/ Evict(a)
  \/ Restart

(* A call that has started is a task the runtime keeps polling. *)
Fairness == \A c \in Calls : WF_vars(pc[c] # "idle" /\ CallStep(c))

Spec == Init /\ [][Next]_vars
FairSpec == Spec /\ Fairness

------------------------------------------------------------------------------
(* Properties *)

TypeOK ==
  /\ pc \in [Calls -> {"idle", "refused", "read", "open", "write", "rename", "insert",
                       "serving", "served", "lost"}]
  /\ key \in [Calls -> Keys]
  /\ payload \in [Calls -> Settings]
  /\ handle \in [Calls -> Calls]
  /\ cached \subseteq Keys
  /\ data \in [Files -> Contents]
  /\ tmp \in [Agents -> Calls \cup {NoFile}]
  /\ prefs \in [Agents -> Files \cup {NoFile}]
  /\ chrome \in [Agents -> Settings \cup {Off}]
  /\ saves \in [Agents -> 0..MaxSaves]
  /\ faults \in 0..MaxFaults /\ restarts \in 0..MaxRestarts
  /\ warned \subseteq Agents /\ disturbed \subseteq Agents

(* Pre-existing settings survive decoration: whatever step the process is   *)
(* killed at, and whichever file operation fails, Preferences is one whole  *)
(* file with everything Chrome ever saved, as long as no two decorations    *)
(* of the directory wrote at the same time, none met a save of Chrome, and  *)
(* no read failed.                                                          *)
SettingsKept ==
  \A a \in Agents \ disturbed : Load(prefs[a]).kept = 1..saves[a]

(* The window of an agent shows the agent's badge, unless a decoration      *)
(* logged an error, met another writer, or saves of Chrome crossed it.      *)
BadgeShown ==
  \A a \in Agents \ (warned \cup disturbed) : chrome[a] # Off => chrome[a].badge

(* Without a fault of the disk a decoration reports an error only when it   *)
(* met another one: never because of what an earlier run left behind.       *)
NoSpuriousWarning == warned \subseteq disturbed \/ faults > 0

(* A decoration error never costs a call: one whose id is valid and that     *)
(* found its entry or room for it gets its plugin, whatever fails on the     *)
(* disk and whoever decorates the same directory, unless the process is      *)
(* restarted.                                                                *)
CallsServed ==
  \A c \in Calls : pc[c] \notin {"idle", "refused"} ~> pc[c] \in {"served", "lost"}

==============================================================================
