----------------------- MODULE ProfileDecorationProofs -----------------------
(***************************************************************************)
(* For any number of calls and agents: the directories stay well formed,   *)
(* and an agent whose decorations never met another writer keeps every     *)
(* setting and shows its badge.  The inductive invariant is in four parts: *)
(* types; which call an inode belongs to (Owned); what holds of an agent   *)
(* that was not disturbed (Calm), the one writer included; and the badge.  *)
(***************************************************************************)
EXTENDS ProfileDecoration, TLAPS

(* Calls that have not created a file yet. *)
Fresh == {c \in Calls : pc[c] \in {"idle", "read", "open"}}

(* An inode of a call is named in the directory of its agent only. *)
Owned ==
  /\ \A c \in Calls : pc[c] \in {"read", "open", "write", "rename"} => key[c] \in Agents
  /\ \A a \in Agents :
       /\ tmp[a] # NoFile => key[tmp[a]] = a /\ tmp[a] \notin Fresh
       /\ prefs[a] \in Agents => prefs[a] = a
       /\ prefs[a] \in Calls => key[prefs[a]] = a /\ prefs[a] \notin Fresh
  /\ \A c \in Calls : pc[c] \in {"write", "rename"} =>
       key[handle[c]] = key[c] /\ handle[c] \notin Fresh

Calm(a) ==
  /\ Load(prefs[a]).kept = 1..saves[a]
  /\ chrome[a] # Off => chrome[a].kept = 1..saves[a]
  /\ tmp[a] # NoFile => tmp[a] # prefs[a]
  /\ \A c \in InFlight(a) : payload[c].kept = 1..saves[a]
  /\ \A c \in Writing(a) :
       /\ tmp[a] = handle[c]
       /\ data[handle[c]] = IF pc[c] = "write" THEN Empty ELSE payload[c]
       /\ \A d \in Writing(a) : d = c

Decorated(a) ==
  /\ chrome[a] # Off => chrome[a].badge
  /\ (a \in cached \/ \E c \in Calls : key[c] = a /\ pc[c] \in {"insert", "serving"})
       => Load(prefs[a]).badge

Badges ==
  /\ \A c \in Calls : pc[c] \in {"open", "write", "rename"} => payload[c].badge
  /\ \A a \in Agents \ (warned \cup disturbed) : Decorated(a)

DInv == TypeOK /\ Owned /\ (\A a \in Agents \ disturbed : Calm(a)) /\ Badges /\ NoSpuriousWarning

(* What is loaded from a well-typed file is a well-typed Preferences. *)
LEMMA LoadType ==
  ASSUME data \in [Files -> Contents], NEW file
  PROVE  Load(file) \in Settings
BY DEF Load, Settings, Blank

LEMMA LoadTypeNext ==
  ASSUME data' \in [Files -> Contents], NEW file
  PROVE  Load(file)' \in Settings
BY DEF Load, Settings, Blank

(* The initial state satisfies the invariant. *)
LEMMA InitInv == Init => DInv
<1> SUFFICES ASSUME Init PROVE DInv
  OBVIOUS
<1> USE BoundsAssumption, NamesAssumption, ContentsAssumption DEF Init
<1>1. TypeOK
  BY DEF TypeOK, Keys, Files, Settings, Blank, Contents
<1>2. Owned
  BY DEF Owned
<1>3. \A a \in Agents : Calm(a)
  BY DEF Calm, InFlight, Writing, Load, Blank
<1>4. Badges /\ NoSpuriousWarning
  BY DEF Badges, Decorated, NoSpuriousWarning
<1> QED BY <1>1, <1>2, <1>3, <1>4 DEF DInv

------------------------------------------------------------------------------
(* Types *)

LEMMA TypeStep == DInv /\ [Next]_vars => TypeOK'
<1> SUFFICES ASSUME TypeOK, Owned, [Next]_vars PROVE TypeOK'
  BY DEF DInv
<1> USE BoundsAssumption, NamesAssumption, ContentsAssumption
<1>1. ASSUME NEW c \in Calls, Call(c) PROVE TypeOK'
  BY <1>1 DEF TypeOK, Call, Goto, fileVars, ProfileKey, SanitizeId, Refused, RawIds, Keys
<1>2. ASSUME NEW c \in Calls, Insert(c) PROVE TypeOK'
  BY <1>2 DEF TypeOK, Insert, Goto, Drop, fileVars, Blank, Settings, Keys
<1>3. ASSUME NEW c \in Calls, MakeDirFails(c) PROVE TypeOK'
  BY <1>3 DEF TypeOK, Owned, MakeDirFails, Warn, Goto, fileVars
<1>4. ASSUME NEW c \in Calls, Read(c) PROVE TypeOK'
  <2>1. Load(prefs[key[c]]) \in Settings
    BY LoadType DEF TypeOK
  <2> QED BY <1>4, <2>1 DEF TypeOK, Read, Badged, Goto, fileVars, Settings
<1>5. ASSUME NEW c \in Calls, ReadFails(c) PROVE TypeOK'
  BY <1>5 DEF TypeOK, Owned, ReadFails, Badged, Goto, fileVars, Settings, Blank
<1>6. ASSUME NEW c \in Calls, Open(c) PROVE TypeOK'
  BY <1>6 DEF TypeOK, Owned, Open, Goto, Files, Contents
<1>7. ASSUME NEW c \in Calls, Write(c) PROVE TypeOK'
  BY <1>7 DEF TypeOK, Write, Goto, Files, Contents
<1>8. ASSUME NEW c \in Calls, WriteFails(c) PROVE TypeOK'
  BY <1>8 DEF TypeOK, Owned, WriteFails, Warn, Goto, Files, Contents
<1>9. ASSUME NEW c \in Calls, Rename(c) PROVE TypeOK'
  BY <1>9 DEF TypeOK, Rename, Goto, Files
<1>10. ASSUME NEW c \in Calls, RenameFails(c) PROVE TypeOK'
  BY <1>10 DEF TypeOK, Owned, RenameFails, Warn, Goto, fileVars
<1>11. ASSUME NEW c \in Calls, Launch(c) PROVE TypeOK'
  <2>1. Load(prefs[key[c]]) \in Settings
    BY LoadType DEF TypeOK
  <2> QED BY <1>11, <2>1 DEF TypeOK, Launch, Goto, fileVars
<1>12. ASSUME NEW a \in Agents, Save(a) PROVE TypeOK'
  <2> DEFINE text == [kept |-> chrome[a].kept \cup {saves[a] + 1}, badge |-> chrome[a].badge]
  <2>1. chrome[a] \in Settings /\ saves[a] + 1 \in 1..MaxSaves
    BY <1>12 DEF TypeOK, Save
  <2>2. text \in Settings
    BY <2>1 DEF Settings
  <2>3. /\ chrome' = [chrome EXCEPT ![a] = text] /\ data' = [data EXCEPT ![a] = text]
        /\ saves' = [saves EXCEPT ![a] = @ + 1] /\ prefs' = [prefs EXCEPT ![a] = a]
        /\ disturbed' \subseteq disturbed \cup {a}
        /\ UNCHANGED <<pc, key, payload, handle, cached, tmp, faults, restarts, warned>>
    BY <1>12 DEF Save, callVars
  <2> HIDE DEF text
  <2> QED BY <2>1, <2>2, <2>3 DEF TypeOK, Files, Contents
<1>13. ASSUME NEW a \in Agents, Quit(a) \/ Evict(a) PROVE TypeOK'
  BY <1>13 DEF TypeOK, Quit, Evict, callVars, fileVars
<1>14. CASE Restart
  BY <1>14 DEF TypeOK, Restart, Drop, fileVars, Blank, Settings
<1>15. CASE UNCHANGED vars
  BY <1>15 DEF TypeOK, vars
<1> QED BY <1>1, <1>2, <1>3, <1>4, <1>5, <1>6, <1>7, <1>8, <1>9, <1>10, <1>11, <1>12,
           <1>13, <1>14, <1>15 DEF Next, CallStep

(* No step names an inode of one agent in another agent's directory. *)
LEMMA OwnedStep == DInv /\ [Next]_vars => Owned'
<1> SUFFICES ASSUME TypeOK, Owned, [Next]_vars PROVE Owned'
  BY DEF DInv
<1> USE BoundsAssumption, NamesAssumption DEF Owned, Fresh, TypeOK, Files
<1>1. ASSUME NEW c \in Calls, Call(c) PROVE Owned'
  BY <1>1 DEF Call, Goto, fileVars, ProfileKey, SanitizeId, Refused, RawIds, Keys
<1>2. ASSUME NEW c \in Calls, Insert(c) PROVE Owned'
  BY <1>2 DEF Insert, Goto, Drop, fileVars
<1>3. ASSUME NEW c \in Calls, MakeDirFails(c) PROVE Owned'
  BY <1>3 DEF MakeDirFails, Warn, Goto, fileVars
<1>4. ASSUME NEW c \in Calls, Read(c) \/ ReadFails(c) PROVE Owned'
  BY <1>4 DEF Read, ReadFails, Goto, fileVars
<1>6. ASSUME NEW c \in Calls, Open(c) PROVE Owned'
  BY <1>6 DEF Open, Goto
<1>7. ASSUME NEW c \in Calls, Write(c) \/ WriteFails(c) PROVE Owned'
  BY <1>7 DEF Write, WriteFails, Warn, Goto
<1>9. ASSUME NEW c \in Calls, Rename(c) PROVE Owned'
  BY <1>9 DEF Rename, Goto
<1>10. ASSUME NEW c \in Calls, RenameFails(c) PROVE Owned'
  BY <1>10 DEF RenameFails, Warn, Goto, fileVars
<1>11. ASSUME NEW c \in Calls, Launch(c) PROVE Owned'
  BY <1>11 DEF Launch, Goto, fileVars
<1>12. ASSUME NEW a \in Agents, Save(a) PROVE Owned'
  BY <1>12 DEF Save, callVars
<1>13. ASSUME NEW a \in Agents, Quit(a) \/ Evict(a) PROVE Owned'
  BY <1>13 DEF Quit, Evict, callVars, fileVars
<1>14. CASE Restart
  BY <1>14 DEF Restart, Drop, fileVars
<1>15. CASE UNCHANGED vars
  BY <1>15 DEF vars
<1> QED BY <1>1, <1>2, <1>3, <1>4, <1>6, <1>7, <1>9, <1>10, <1>11, <1>12,
           <1>13, <1>14, <1>15 DEF Next, CallStep

------------------------------------------------------------------------------
(* Settings *)

LEMMA CalmStep ==
  ASSUME DInv, [Next]_vars, TypeOK', NEW b \in Agents, b \notin disturbed'
  PROVE  Calm(b)'
<1> USE BoundsAssumption, NamesAssumption, ContentsAssumption
<1>0. TypeOK /\ Owned
  BY DEF DInv
<1>a. ASSUME b \notin disturbed PROVE Calm(b)
  BY <1>a DEF DInv
<1>1. ASSUME NEW c \in Calls, Call(c) PROVE Calm(b)'
  <2>1. /\ pc[c] = "idle"
        /\ pc' = [pc EXCEPT ![c] = pc'[c]] /\ key' = [key EXCEPT ![c] = key'[c]]
        /\ pc'[c] \in {"refused", "serving", "insert", "read"}
        /\ UNCHANGED <<payload, handle, data, tmp, prefs, chrome, saves, disturbed>>
    BY <1>0, <1>1 DEF TypeOK, Call, Goto, fileVars
  <2>2. InFlight(b)' = InFlight(b) /\ Writing(b)' = Writing(b) /\ c \notin InFlight(b)
    BY <1>0, <2>1 DEF TypeOK, InFlight, Writing
  <2> QED BY <1>0, <1>a, <2>1, <2>2 DEF TypeOK, Calm, Load, InFlight, Writing
<1>2. ASSUME NEW c \in Calls, Insert(c) PROVE Calm(b)'
  BY <1>0, <1>2, <1>a DEF TypeOK, Insert, Goto, Drop, fileVars, Calm, Load, InFlight, Writing
<1>3. ASSUME NEW c \in Calls, MakeDirFails(c) PROVE Calm(b)'
  BY <1>0, <1>3, <1>a
     DEF TypeOK, MakeDirFails, Warn, Goto, fileVars, Calm, Load, InFlight, Writing
<1>4. ASSUME NEW c \in Calls, Read(c) PROVE Calm(b)'
  BY <1>0, <1>4, <1>a
     DEF TypeOK, Read, Badged, Goto, fileVars, Calm, Load, InFlight, Writing
<1>5. ASSUME NEW c \in Calls, ReadFails(c) PROVE Calm(b)'
  BY <1>0, <1>5, <1>a DEF TypeOK, ReadFails, Goto, fileVars, Calm, Load, InFlight, Writing
<1>6. ASSUME NEW c \in Calls, Open(c) PROVE Calm(b)'
  BY <1>0, <1>6, <1>a
     DEF TypeOK, Owned, Fresh, Files, Open, Goto, Calm, Load, InFlight, Writing
<1>7. ASSUME NEW c \in Calls, Write(c) PROVE Calm(b)'
  <2>1. /\ pc[c] = "write" /\ pc' = [pc EXCEPT ![c] = "rename"]
        /\ UNCHANGED <<key, payload, handle, tmp, prefs, chrome, saves, disturbed>>
        /\ \E text : data' = [data EXCEPT ![handle[c]] = text]
        /\ data[handle[c]] = Empty => data' = [data EXCEPT ![handle[c]] = payload[c]]
    BY <1>7 DEF Write, Goto
  <2>2. Calm(b)
    BY <1>a, <2>1
  <2>3. handle[c] # prefs[b]
    <3>1. CASE key[c] = b
      BY <1>0, <2>1, <2>2, <3>1 DEF TypeOK, Calm, Writing, InFlight
    <3>2. CASE key[c] # b
      BY <1>0, <2>1, <3>2 DEF TypeOK, Owned
    <3> QED BY <3>1, <3>2
  <2>4. Load(prefs[b])' = Load(prefs[b])
    BY <1>0, <2>1, <2>3 DEF TypeOK, Load, Files
  <2>5. InFlight(b)' = InFlight(b) /\ Writing(b)' = Writing(b)
    BY <1>0, <2>1 DEF TypeOK, InFlight, Writing
  <2>6. ASSUME NEW d \in Writing(b)
        PROVE  data'[handle[d]] = IF pc'[d] = "write" THEN Empty ELSE payload[d]
    <3>1. CASE d = c
      BY <1>0, <2>1, <2>2, <3>1 DEF TypeOK, Calm, Files, Writing, InFlight
    <3>2. CASE d # c
      BY <1>0, <2>1, <2>2, <2>6, <3>2 DEF TypeOK, Owned, Calm, Writing, InFlight, Files
    <3> QED BY <3>1, <3>2
  <2> QED BY <2>1, <2>2, <2>4, <2>5, <2>6 DEF Calm
<1>8. ASSUME NEW c \in Calls, WriteFails(c) PROVE Calm(b)'
  BY <1>0, <1>8, <1>a
     DEF TypeOK, Owned, Fresh, Files, WriteFails, Warn, Goto, Calm, Load, InFlight, Writing
<1>9. ASSUME NEW c \in Calls, Rename(c) PROVE Calm(b)'
  BY <1>0, <1>9, <1>a
     DEF TypeOK, Owned, Fresh, Files, Rename, Goto, Calm, Load, InFlight, Writing
<1>10. ASSUME NEW c \in Calls, RenameFails(c) PROVE Calm(b)'
  BY <1>0, <1>10, <1>a
     DEF TypeOK, RenameFails, Warn, Goto, fileVars, Calm, Load, InFlight, Writing
<1>11. ASSUME NEW c \in Calls, Launch(c) PROVE Calm(b)'
  BY <1>0, <1>11, <1>a DEF TypeOK, Launch, Goto, fileVars, Calm, Load, InFlight, Writing
<1>12. ASSUME NEW a \in Agents, Save(a) PROVE Calm(b)'
  <2>1. CASE a = b
    <3>1. /\ Calm(b) /\ InFlight(b) = {} /\ chrome[b] # Off
          /\ saves' = [saves EXCEPT ![b] = saves[b] + 1] /\ prefs' = [prefs EXCEPT ![b] = b]
          /\ UNCHANGED <<pc, key, payload, handle, tmp>>
      BY <1>12, <1>a, <2>1 DEF Save, callVars
    <3>2. /\ chrome[b].kept = 1..saves[b] /\ saves[b] \in Nat
      BY <1>0, <3>1 DEF Calm, TypeOK
    <3>3. 1..(saves[b] + 1) = (1..saves[b]) \cup {saves[b] + 1}
      BY <3>2
    <3>4. /\ chrome'[b] = data'[b] /\ data'[b] \in Settings
          /\ chrome'[b].kept = 1..saves'[b]
      <4>1. \E text \in Settings : /\ text.kept = chrome[b].kept \cup {saves[b] + 1}
                                   /\ chrome' = [chrome EXCEPT ![b] = text]
                                   /\ data' = [data EXCEPT ![b] = text]
        <5>1. chrome[b] \in Settings /\ saves[b] + 1 \in 1..MaxSaves
          BY <1>0, <1>12, <2>1 DEF TypeOK, Save
        <5> DEFINE text == [kept |-> chrome[b].kept \cup {saves[b] + 1},
                            badge |-> chrome[b].badge]
        <5>2. text \in Settings /\ text.kept = chrome[b].kept \cup {saves[b] + 1}
          BY <5>1 DEF Settings
        <5>3. chrome' = [chrome EXCEPT ![b] = text] /\ data' = [data EXCEPT ![b] = text]
          BY <1>12, <2>1 DEF Save
        <5> QED BY <5>2, <5>3
      <4>2. /\ chrome' \in [Agents -> Settings \cup {Off}] /\ saves' \in [Agents -> 0..MaxSaves]
            /\ data' \in [Files -> Contents] /\ b \in Files
            /\ saves \in [Agents -> 0..MaxSaves]
            /\ chrome \in [Agents -> Settings \cup {Off}] /\ data \in [Files -> Contents]
        BY <1>0 DEF TypeOK, Files
      <4>3. PICK text \in Settings : /\ text.kept = chrome[b].kept \cup {saves[b] + 1}
                                     /\ chrome' = [chrome EXCEPT ![b] = text]
                                     /\ data' = [data EXCEPT ![b] = text]
        BY <4>1
      <4>4. chrome'[b] = text /\ data'[b] = text /\ saves'[b] = saves[b] + 1
        BY <3>1, <4>2, <4>3
      <4> QED BY <3>2, <3>3, <4>3, <4>4
    <3>5. InFlight(b)' = {} /\ Writing(b)' = {}
      BY <3>1 DEF InFlight, Writing
    <3>6. b \notin Calls \cup {NoFile}
      OBVIOUS
    <3> QED BY <1>0, <3>1, <3>4, <3>5, <3>6 DEF TypeOK, Calm, Load
  <2>2. CASE a # b
    <3>1. /\ Calm(b) /\ prefs[b] # a
          /\ \A x : x # a => data'[x] = data[x]
      BY <1>0, <1>12, <1>a, <2>2 DEF TypeOK, Owned, Save, Files
    <3> QED BY <1>0, <1>12, <2>2, <3>1
         DEF TypeOK, Save, callVars, Calm, Load, InFlight, Writing
  <2> QED BY <2>1, <2>2
<1>13. ASSUME NEW a \in Agents, Quit(a) \/ Evict(a) PROVE Calm(b)'
  BY <1>0, <1>13, <1>a
     DEF TypeOK, Quit, Evict, callVars, fileVars, Calm, Load, InFlight, Writing
<1>14. CASE Restart
  BY <1>0, <1>14, <1>a DEF TypeOK, Restart, Drop, fileVars, Calm, Load, InFlight, Writing
<1>15. CASE UNCHANGED vars
  BY <1>15, <1>a DEF vars, Calm, Load, InFlight, Writing
<1> QED BY <1>1, <1>2, <1>3, <1>4, <1>5, <1>6, <1>7, <1>8, <1>9, <1>10, <1>11, <1>12,
           <1>13, <1>14, <1>15 DEF Next, CallStep

------------------------------------------------------------------------------
(* Badges and warnings *)

LEMMA PayloadBadges ==
  ASSUME DInv, [Next]_vars
  PROVE  \A c \in Calls : pc'[c] \in {"open", "write", "rename"} => payload'[c].badge
<1> USE DEF DInv, TypeOK, Badges
<1>1. ASSUME NEW d \in Calls, Read(d) \/ ReadFails(d)
      PROVE  \A c \in Calls : pc'[c] \in {"open", "write", "rename"} => payload'[c].badge
  BY <1>1 DEF Read, ReadFails, Badged, Goto
<1>2. ASSUME NEW d \in Calls, \/ Call(d) \/ MakeDirFails(d) \/ Open(d) \/ Write(d)
                              \/ WriteFails(d) \/ Rename(d) \/ RenameFails(d) \/ Launch(d)
      PROVE  \A c \in Calls : pc'[c] \in {"open", "write", "rename"} => payload'[c].badge
  BY <1>2 DEF Call, MakeDirFails, Open, Write, WriteFails, Rename, RenameFails, Launch,
     Warn, Goto
<1>3. ASSUME NEW d \in Calls, Insert(d)
      PROVE  \A c \in Calls : pc'[c] \in {"open", "write", "rename"} => payload'[c].badge
  BY <1>3 DEF Insert, Drop, Goto
<1>4. CASE Restart
  BY <1>4 DEF Restart
<1>5. ASSUME NEW a \in Agents, Save(a) \/ Quit(a) \/ Evict(a)
      PROVE  \A c \in Calls : pc'[c] \in {"open", "write", "rename"} => payload'[c].badge
  BY <1>5 DEF Save, Quit, Evict, callVars
<1>6. CASE UNCHANGED vars
  BY <1>6 DEF vars
<1> QED BY <1>1, <1>2, <1>3, <1>4, <1>5, <1>6 DEF Next, CallStep

LEMMA DecoratedStep ==
  ASSUME DInv, [Next]_vars, TypeOK', NEW b \in Agents, b \notin warned' \cup disturbed'
  PROVE  Decorated(b)'
<1> USE BoundsAssumption, NamesAssumption, ContentsAssumption
<1>0. TypeOK /\ Owned
  BY DEF DInv
<1>a. ASSUME b \notin warned \cup disturbed
      PROVE  /\ Calm(b) /\ Decorated(b)
             /\ \A c \in Calls : pc[c] \in {"open", "write", "rename"} => payload[c].badge
  BY <1>a DEF DInv, Badges
<1>1. ASSUME NEW c \in Calls, Call(c) PROVE Decorated(b)'
  BY <1>0, <1>1, <1>a DEF TypeOK, Call, Goto, fileVars, Decorated, Load
<1>2. ASSUME NEW c \in Calls, Insert(c) PROVE Decorated(b)'
  BY <1>0, <1>2, <1>a DEF TypeOK, Insert, Goto, fileVars, Decorated, Load
<1>3. ASSUME NEW c \in Calls, MakeDirFails(c) \/ RenameFails(c) PROVE Decorated(b)'
  BY <1>0, <1>3, <1>a DEF TypeOK, MakeDirFails, RenameFails, Warn, Goto, fileVars, Decorated, Load
<1>4. ASSUME NEW c \in Calls, Read(c) \/ ReadFails(c) PROVE Decorated(b)'
  BY <1>0, <1>4, <1>a DEF TypeOK, Read, ReadFails, Goto, fileVars, Decorated, Load
<1>6. ASSUME NEW c \in Calls, Open(c) PROVE Decorated(b)'
  BY <1>0, <1>6, <1>a
     DEF TypeOK, Owned, Fresh, Files, Open, Goto, Decorated, Calm, Load
<1>7. ASSUME NEW c \in Calls, Write(c) \/ WriteFails(c) PROVE Decorated(b)'
  <2> DEFINE Only(label) ==
        /\ pc[c] = "write" /\ pc' = [pc EXCEPT ![c] = label]
        /\ label = "rename" \/ (label = "insert" /\ key[c] # b)
        /\ key' = key /\ prefs' = prefs /\ chrome' = chrome /\ cached' = cached
        /\ b \notin warned \cup disturbed
        /\ \E text : data' = [data EXCEPT ![handle[c]] = text]
  <2>4. Write(c) => Only("rename")
    BY DEF Write, Goto
  <2>5. WriteFails(c) => Only("insert")
    BY DEF WriteFails, Warn, Goto
  <2>6. PICK label : Only(label)
    BY <1>7, <2>4, <2>5
  <2>1. /\ pc[c] = "write"
        /\ key' = key /\ prefs' = prefs /\ chrome' = chrome /\ cached' = cached
        /\ \A d \in Calls : d # c => pc'[d] = pc[d]
        /\ b \notin warned \cup disturbed
        /\ pc'[c] = "rename" \/ (pc'[c] = "insert" /\ key[c] # b)
        /\ \A x : x # handle[c] => data'[x] = data[x]
    BY <1>0, <2>6 DEF TypeOK
  <2>2. handle[c] # prefs[b]
    <3>1. CASE key[c] = b
      BY <1>0, <1>a, <2>1, <3>1 DEF TypeOK, Calm, Writing, InFlight
    <3>2. CASE key[c] # b
      BY <1>0, <2>1, <3>2 DEF TypeOK, Owned
    <3> QED BY <3>1, <3>2
  <2>3. Load(prefs[b])' = Load(prefs[b])
    BY <1>0, <2>1, <2>2 DEF TypeOK, Load, Files
  <2> QED BY <1>a, <2>1, <2>3 DEF Decorated
<1>9. ASSUME NEW c \in Calls, Rename(c) PROVE Decorated(b)'
  <2>1. CASE key[c] = b
    <3>1. /\ prefs'[b] = handle[c] /\ data' = data /\ data[handle[c]] = payload[c]
          /\ payload[c] \in Settings /\ payload[c].badge /\ handle[c] # NoFile
          /\ chrome' = chrome
      BY <1>0, <1>9, <1>a, <2>1
         DEF TypeOK, Owned, Rename, Goto, Calm, Writing, InFlight
    <3> QED BY <1>a, <1>9, <3>1 DEF Rename, Decorated, Load
  <2>2. CASE key[c] # b
    BY <1>0, <1>9, <1>a, <2>2 DEF TypeOK, Rename, Goto, Decorated, Load
  <2> QED BY <2>1, <2>2
<1>11. ASSUME NEW c \in Calls, Launch(c) PROVE Decorated(b)'
  BY <1>0, <1>11, <1>a DEF TypeOK, Launch, Goto, fileVars, Decorated, Load
<1>12. ASSUME NEW a \in Agents, Save(a) PROVE Decorated(b)'
  <2>1. CASE a = b
    <3>1. /\ chrome'[b].badge /\ data'[b] = chrome'[b] /\ chrome'[b] \in Settings
          /\ prefs'[b] = b /\ b # NoFile
      <4> DEFINE text == [kept |-> chrome[b].kept \cup {saves[b] + 1},
                          badge |-> chrome[b].badge]
      <4>1. /\ chrome' = [chrome EXCEPT ![b] = text] /\ data' = [data EXCEPT ![b] = text]
            /\ prefs' = [prefs EXCEPT ![b] = b] /\ chrome[b] # Off
            /\ b \notin warned \cup disturbed
        BY <1>12, <2>1 DEF Save
      <4>2. text.badge = chrome[b].badge /\ chrome[b].badge
        BY <1>a, <4>1 DEF Decorated
      <4>3. text \in Settings
        <5>1. chrome[b] \in Settings /\ saves[b] + 1 \in 1..MaxSaves
          BY <1>0, <1>12, <2>1 DEF TypeOK, Save
        <5> QED BY <5>1 DEF Settings
      <4> HIDE DEF text
      <4>4. chrome'[b] = text /\ data'[b] = text /\ prefs'[b] = b
        BY <1>0, <4>1 DEF TypeOK, Files
      <4>5. b # NoFile
        OBVIOUS
      <4> QED BY <4>2, <4>3, <4>4, <4>5
    <3> QED BY <3>1 DEF Decorated, Load
  <2>2. CASE a # b
    <3>1. prefs[b] # a /\ \A x : x # a => data'[x] = data[x]
      BY <1>0, <1>12, <2>2 DEF TypeOK, Owned, Save, Files
    <3> QED BY <1>0, <1>12, <1>a, <2>2, <3>1 DEF TypeOK, Save, callVars, Decorated, Load
  <2> QED BY <2>1, <2>2
<1>13. ASSUME NEW a \in Agents, Quit(a) \/ Evict(a) PROVE Decorated(b)'
  BY <1>0, <1>13, <1>a DEF TypeOK, Quit, Evict, callVars, fileVars, Decorated, Load
<1>14. CASE Restart
  BY <1>0, <1>14, <1>a DEF TypeOK, Restart, fileVars, Decorated, Load
<1>15. CASE UNCHANGED vars
  BY <1>15, <1>a DEF vars, Decorated, Load
<1> QED BY <1>1, <1>2, <1>3, <1>4, <1>6, <1>7, <1>9, <1>11, <1>12, <1>13, <1>14, <1>15
        DEF Next, CallStep

(* A rename fails only after another call has taken the file away. *)
LEMMA WarningStep == DInv /\ [Next]_vars => NoSpuriousWarning'
<1> SUFFICES ASSUME DInv, [Next]_vars PROVE NoSpuriousWarning'
  OBVIOUS
<1> USE BoundsAssumption, NamesAssumption
<1>0. TypeOK /\ NoSpuriousWarning
  BY DEF DInv
<1>1. ASSUME NEW c \in Calls, RenameFails(c) PROVE NoSpuriousWarning'
  <2>1. key[c] \in disturbed
    BY <1>0, <1>1 DEF DInv, TypeOK, Owned, Calm, Writing, InFlight, RenameFails
  <2> QED BY <1>0, <1>1, <2>1 DEF RenameFails, Warn, NoSpuriousWarning
<1>2. ASSUME NEW c \in Calls, MakeDirFails(c) \/ ReadFails(c) \/ WriteFails(c)
      PROVE  NoSpuriousWarning'
  BY <1>0, <1>2 DEF TypeOK, MakeDirFails, ReadFails, WriteFails, NoSpuriousWarning
<1>3. CASE /\ warned' = warned /\ disturbed \subseteq disturbed' /\ faults' = faults
  BY <1>0, <1>3 DEF NoSpuriousWarning
<1>4. ASSUME NEW c \in Calls, \/ Call(c) \/ Insert(c) \/ Read(c) \/ Open(c) \/ Write(c)
                              \/ Rename(c) \/ Launch(c)
      PROVE  /\ warned' = warned /\ disturbed \subseteq disturbed' /\ faults' = faults
  BY <1>4 DEF Call, Insert, Read, Open, Write, Rename, Launch
<1>5. ASSUME NEW a \in Agents, Save(a) \/ Quit(a) \/ Evict(a)
      PROVE  /\ warned' = warned /\ disturbed \subseteq disturbed' /\ faults' = faults
  BY <1>5 DEF Save, Quit, Evict
<1>6. CASE Restart \/ UNCHANGED vars
  BY <1>3, <1>6 DEF Restart, vars
<1> QED BY <1>1, <1>2, <1>3, <1>4, <1>5, <1>6 DEF Next, CallStep

------------------------------------------------------------------------------
(* Theorems *)

LEMMA InvStep == DInv /\ [Next]_vars => DInv'
<1> SUFFICES ASSUME DInv, [Next]_vars PROVE DInv'
  OBVIOUS
<1>1. TypeOK' /\ Owned' /\ NoSpuriousWarning'
  BY TypeStep, OwnedStep, WarningStep
<1>2. (\A a \in Agents \ disturbed : Calm(a))'
  BY <1>1, CalmStep
<1>3. Badges'
  BY <1>1, PayloadBadges, DecoratedStep DEF Badges
<1> QED BY <1>1, <1>2, <1>3 DEF DInv

(* The invariant holds in every reachable state. *)
THEOREM Invariance == Spec => []DInv
<1> QED BY InitInv, InvStep, PTL DEF Spec

(* Every variable stays in its type, for any number of calls and agents. *)
THEOREM TypeCorrect == Spec => []TypeOK
<1>1. DInv => TypeOK
  BY DEF DInv
<1> QED BY <1>1, Invariance, PTL

(* An agent whose decorations met no other writer keeps every setting its   *)
(* Chromes saved, wherever the process was killed.                          *)
THEOREM SettingsAreKept == Spec => []SettingsKept
<1>1. DInv => SettingsKept
  BY DEF DInv, Calm, SettingsKept
<1> QED BY <1>1, Invariance, PTL

(* The badge is on every window of an agent whose decorations went well. *)
THEOREM BadgesAreShown == Spec => []BadgeShown
<1>1. DInv => BadgeShown
  BY DEF DInv, Badges, Decorated, BadgeShown
<1> QED BY <1>1, Invariance, PTL

(* A decoration error has a fault or a second decoration behind it. *)
THEOREM WarningsAreExplained == Spec => []NoSpuriousWarning
<1>1. DInv => NoSpuriousWarning
  BY DEF DInv
<1> QED BY <1>1, Invariance, PTL

==============================================================================
