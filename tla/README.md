# Verification of nexo-plugin-browser

This directory holds TLA+ models of the browser plugin in `src/`, the TLC runs
that check them on small instances, and theorems about them that TLAPS proves
for every value of the constants. Paths below are those of the crate
(`plugin.rs` is `src/src/plugin.rs`).

The plugin is one process that a host daemon talks to over JSON-RPC. Tool calls
arrive as `tool.invoke`, one tokio task each; administration and discovery
arrive on broker topics; a `plugin.configure` message carries the operator's
configuration. Behind all of it are Chrome processes, each driven over one CDP
session, which are booted by the first command and killed by a shutdown. The
difficulty is the interleaving: several tasks, two mutexes per plugin, two
concurrent maps, and awaits between what is checked and what is done.

## 1. Inventory

### 1.1 Components

| Component | State | Operations | Modelled by |
|---|---|---|---|
| Browser lifecycle (`plugin.rs`) | `session` and `chrome`, each an Option behind a mutex of its own; the one-shot `headless_override_off`; the gauge `chrome_alive` of its label | `new`, `execute` (`ensure_session`, then the command), `shutdown_chrome`, `request_visible_next_boot` | `BrowserPlugin`, `LazyBrowser` (abstract), `BrowserPluginHistory`, `VisibleBoot`; `PluginUse`, as the maps' users see it |
| Chrome launcher (`chrome.rs`) | the child process and its handle | `launch`, `connect_existing`, `wait_for_devtools_url`, `Drop` | `BrowserPlugin`, by its effect on processes; `AutoDownload`, which executable it runs |
| Executable discovery (`chrome/discovery.rs`) | none | a search over candidate paths and `$PATH` | `Discovery` |
| Profile cache (`main.rs`) | `PROFILES`: key -> plugin and `last_active_at`; the limits | `shared_plugin_for`, `on_tool`, `spawn_idle_eviction_loop` | `ProfileCache` over `PluginUse`, `PluginPool` (abstract) |
| Dispatch (`dispatch.rs`, `command.rs`, `tool_defs.rs`) | none of its own | `resolve_plugin_or_legacy_gated`, `dispatch_browser_tool`, the polling of `browser_wait_for` | routing in `InstanceRegistry`, results in `ProfileCache`, polling in `PluginUse` |
| Instance registry and configure (`boot.rs`, `instance_registry.rs`, `configured_state.rs`, `config.rs`) | the registry map, the configuration cell, the gauge `browser_instances_configured` | `apply_configure`, `register`, `unregister`, `lookup`, `entries` | `InstanceRegistry` over `PluginUse`, `PluginPool` (abstract) |
| Admin verbs (`admin.rs`) | the `.nexo-paired` file | `list_instances`, `shutdown`, `restart`, `launch_visible`, `mark_paired` | `BrowserPlugin` (on a plugin), `InstanceRegistry` (the lookup), `PluginProcess` (the order, pairing) |
| Startup and subscribers (`main.rs`, `auto_discovery.rs`) | `BRIDGE`, one subscription per topic | `main`, one sequential loop per topic | `PluginProcess` |
| Metrics (`metrics.rs`) | counters, histograms, two gauges | increments and sets | the two gauges, in `BrowserPlugin` and `InstanceRegistry` |
| Profile identifiers (`profile.rs`) | none | `sanitize_id`, `user_data_dir_for`, `profile_color_argb` | `ProfileDecoration`, on classes of spellings |
| Profile decoration (`profile_decoration.rs`) | the Chrome file `Default/Preferences` | read, merge, write through a temporary file, rename | `ProfileDecoration` |
| Limits (`profile_limits.rs`, `env_config.rs`) | none | parsing and clamping | `ProfileLimits` (`env_config.rs` is not modelled) |
| Auto-download (`auto_download/`) | the cache directory | platform choice, download, extraction, chmod | `AutoDownload` |
| Library surface, manifest, tests, benches | none | | not modelled |

The CDP client (`nexo-cdp`) and the JSON-RPC adapter (`nexo-microapp-sdk`) are
other crates. They are modelled from how this crate uses them: a CDP command is
one step that ends in an answer, an error or a timeout, and tool handlers run
concurrently.

### 1.2 How the components interact

    host --tool.invoke--> on_tool --> shared_plugin_for --> PROFILES
                             |                                  ^ eviction loop
                             +-> resolve_plugin_or_legacy_gated |
                             |         |                        |
                             |         +--> registry <--- apply_configure <--plugin.configure-- host
                             v                 ^                |
                        BrowserPlugin.execute  |                |
                             ^                 |                |
                             +--shutdown_chrome-- admin verbs --+

Everything that ends a Chrome goes through `BrowserPlugin::shutdown_chrome` (the
admin verbs, the eviction loop, a reload) or through the `Drop` of
`RunningChrome` (the last `Arc` of a plugin goes, or a boot replaces the handle
an earlier boot left). Tool calls keep an `Arc` of their plugin, so a plugin
can be used after the maps have forgotten it.

### 1.3 What is hard

* `shutdown_chrome` takes the two mutexes one after the other, and `execute`
  takes the session mutex twice; boots, shutdowns and commands come in between.
* A boot can fail at four places, one of them after the Chrome is stored; the
  retry starts a second Chrome on the same directory before it drops that one.
* Agents may share a Chrome (a `cdp_url` in the template) and plugins a metrics
  label, without knowing of each other.
* A Chrome may exit, and nothing in the plugin watches it.
* The cap of the profile cache is checked two awaits before the insertion.
* The eviction loop removes by key what it saw idle some time ago.
* A reload awaits a shutdown per dropped instance, so that calls are routed
  through a registry that is partly old, partly new.
* All callers of a plugin wait on one mutex, the eviction loop on one plugin
  after the other, a reload too: an error path that kept a lock or a command
  without a timeout would stop them all.
* The caches on disk, the archive, the binary and `Preferences`, are shared by
  concurrent tasks without a lock, and a process may be killed in between.
* The broker topics are served one request at a time, and some requests wait
  for a session mutex that tool calls hold.
* Map guards of a `DashMap` are held across awaits in the eviction loop and in
  the touch (`main.rs` 175, 399-400).

`PROJECT.json` lists every hazard at its line with the properties that cover it.

### 1.4 What makes each component correct

* *Lifecycle.* No Chrome leaks; the session drives the Chrome the plugin owns;
  a running command keeps its session; a shutdown that returns has killed what
  ran when it was called; the gauge of a plugin alone under its label does not
  stay raised; every call returns.
  Together: it behaves like a browser that opens on demand, serves one caller
  at a time and refuses only when there is none (`LazyBrowser`). The code's own
  documents add that after a shutdown the plugin is re-bootable and that the
  boot after `launch_visible` is visible. These two do not hold (section 5).
* *Profile cache.* Evictions hit profiles that were idle when read, never take the session of a
  running command and its Chrome only in the one window of finding 1; while
  nothing is evicted one plugin per agent runs Chrome on the agent's directory;
  idle profiles go; handlers return; orphans close. The documents add: the cap is
  a cap, there is one Chrome per agent, failed calls do not reset the idle
  clock. These three do not hold (section 5). Isolation of the agents is no
  property of this code: with a `cdp_url` in the template, which is cloned into
  every agent's configuration (`main.rs` 99-119), all agents attach to one remote
  Chrome.
* *Registry.* Between reloads it is what the last configuration declares; an
  instance that stays declared can be named at every moment; reloads end;
  replaced Chromes end. The documents add that the legacy plugin serves calls
  only when no instance is declared, which fails during a reload.
* *Auto-download and discovery.* What is handed to the spawn can be run, unless
  an installation was cut short or met another one; a failing download never
  hides an installed browser; the best installed one is found; no launch waits for another one's download.
* *Decoration.* Chrome's settings survive and the badge shows, unless writers met
  or a read failed; an error is logged only for a reason, and no call is lost to it.
* *Startup and subscribers.* Limits are the nearest admissible ones; each topic
  answers in order, and no topic waits for another one; a directory whose
  pairing was confirmed is listed as paired from then on.

## 2. Modules

### BrowserPlugin

One plugin. `session`, `chrome` and `override` are the fields of
`BrowserInner`, with the Chrome's identifier for the handle; `live` is the set
of processes. Tasks have program counters, and an action is the code between two
awaits. The session mutex is the queue of its
waiters with the holder in front, tokio's mutex being FIFO. The chrome mutex is
never held across an await, so what runs under it is one step.

`Call` ... `Publish` are `ensure_session` line by line: the early return
(`SessionFound`), the one-shot override consumed before anything can fail
(`TakeOverride`), the spawn and the wait for DevTools or the attach, the handle
stored and the one it replaces dropped (`StoreChrome`), the CDP connection that
may fail with the Chrome left running (`ConnectFails`), the session, the gauge.
`Relock`, `NoSession`, `StartCommand`, `EndCommand` are the rest of `execute`.
`RequestVisible`, `Shutdown`, `ClearSession`, `ClearChrome` are the admin side;
the eviction loop and a reload call the same `shutdown_chrome`.

`gauge` is `chrome_alive` of the plugin's label, which is one for the process:
all per-agent plugins go by `default`, and a plugin that a reload replaces by
another of its label leaves what it wrote. For a label that others use
(`config.shared`) the gauge may be raised from the start, and `OtherPlugin`
writes it at any time.

Abstracted: the argument list of Chrome, the page target, element references,
the kinds of CDP command, the delay between a kill and the exit of a process.

### LazyBrowser

The abstract specification of a plugin: a browser and, per caller, whether it
is idle, waits or is served. It opens only for somebody who waits and never
over another one, closes only while nobody is served, serves one caller at a
time, and refuses only while there is no browser. `BrowserPlugin` implements it
(`ImplementsLazyBrowser`) under the mapping `browser <- session`, `status <-`
what the program counter looks like from outside: the launch, the stored
handle, the two locks and the queue are stutters. It says nothing of the
process behind the session, which is what findings 1 and 2 are about.

### BrowserPluginHistory and VisibleBoot

`BrowserPlugin` with history variables, for what spans a whole call: which
Chromes ran when a shutdown was called (`doomed`), whose session was cleared
since it was ensured (`cut`), which Chromes exited or were stored while a
shutdown was between its locks (`excused`), which `launch_visible` no boot has met
from the request to now (`unmet`, `owed`); and, in a module of its own,
whether a `launch_visible` has replied with no boot since (`asked`,
`promised`). `Watch` only records: it is defined for every step and constrains
none.

### PluginUse

A plugin as the users of the two maps meet on it, for many plugins at once:
which have a session, whose own Chrome runs (`up`), which were built with a
`cdp_url` and own none (`remote`), and who has the session mutex (`Locked`, from
the spawn to the end of the command). `Execute` joins the queue; `SessionFound`,
or `Spawn`, `StoreChrome`, `Attach`, `OpenSession` lead to the command, and
`BootFails` leaves at the spawn, before the DevTools line, or at the connection
with the Chrome stored and left running: the next `Spawn` is then the second
Chrome on its directory until `StoreChrome` drops the first. `EndCommand` and
`PollAgain` (`browser_wait_for`) end a command, `RejectArguments` comes before
`execute` and is no way out of its queue. A shutdown is two steps of the module
that calls it: `ClearSession` waits for the mutex, the kill does not. A session
opened between them is `overtaken`: the kill will take its Chrome. `Keep` drops
what plugins nobody refers to have, which is `Drop`.

What `BrowserPlugin` has and this abstracts: the queue of the mutex, the second
lock of `execute`, the override, the gauge, Chromes that exit by themselves.

### ProfileCache

`PROFILES`, the `on_tool` handlers and the eviction loop, over `PluginUse`. A
plugin is a pair of the key its directory came from and a serial number.
`Hit`, `Miss` and `Insert` are `shared_plugin_for`, cut at its awaits; `Route`
and `Leave` stand for calls that are routed to a declared instance or refused;
`Use` and `Finish` are the tool, `Finish` with the four results, which
`Touch` tells apart as the code does (`result.is_ok()`). `Wake`, `ReadEntry`,
`EndScan`, `Remove`, `ClearVictim`, `KillVictim` and `Sleep` are the loop. Of the
configuration template there is whether it has a `cdp_url` (`AttachChoices`):
then every plugin attaches to the same remote Chrome. Time is the age
of each entry, which stops at the threshold; it stands still during a scan,
which takes microseconds against a threshold of seconds.

### InstanceRegistry

`apply_configure` against routing and admin verbs. A configuration is `Single`,
or `Many` with a list of labels. `Configure` is the validation, which comes
before any change, and the diff; `Unregister`, `ClearStale` and `KillStale` the
loop over the dropped labels with the two locks of its shutdowns; `Register` the
loop over the new ones, which overwrites a label that stays with a plugin that
may or may not have a `cdp_url`; `WriteSnapshot` and `CountInstances` the end,
and `WriteTemplate` that of `Single`, which leaves the gauge as it was. `RouteExplicit`,
`RouteImplicit`, `RouteLegacy` are the cases of
`resolve_plugin_or_legacy_gated` that return a plugin; the refusals change
nothing. Calls use their plugin as in `PluginUse`. The admin verbs look an
instance up and shut down what they found (`AdminClear`, `AdminKill`), which a
reload may have replaced meanwhile.

Assumed: the host sends one configure at a time; `entries()` is one step; a
label determines its directory (an operator may give two labels one
directory, which then is theirs).

### PluginPool

The abstract specification of both maps: a plugin under each key, the plugin
each user holds, who boots or runs a command, the plugin that was taken out and
waits to be closed, the plugins that have lost their session and not yet their
Chrome (`doomed`), sessions and Chromes. Its steps are to acquire, create, boot,
store, open, serve, stop, free, retire, and the two parts of a shutdown, `Clear`
and `Kill`; `Remain` ends what plugins nobody refers to have. It has no clock,
no cap, no scan, no configuration and no routing, so it says what these may not
spoil (`PoolSafe`): a command keeps its session; no two users boot a plugin or
run commands on it at a time; a session is over a Chrome that runs, unless it was
opened between the two parts of a shutdown (`overtaken`); entries stay under
their key; nobody's plugins have ended. It does not say that a command keeps
its Chrome, which is finding 1, nor that there is one Chrome per key, which is
finding 3.

`ProfileCache` implements it with `profiles`, `plugin`, `victim` and `up` for
the entries, what is held, what is being closed and the Chromes;
`InstanceRegistry` with `registry`, `plugin`, `closing` and `up`, its calls and
admin requests being the users. The lookups that find nothing, the scan, the
touch, the diff and the snapshot are stutters. An insertion that finds an entry
is an `Acquire`, one that does not a `Create`; a reload that registers a label
it keeps is a `Create` over the old plugin; another poll of `browser_wait_for`
is a `Stop`.

### Discovery and AutoDownload

`Discovery` has the candidate lists of the three systems in the order of the
code and the search as operators. A path is a scope (system, user, `$PATH`) and
a file; an error carries every probe that was made. `FindsBest` is the
reference: the answer is no worse than anything installed by the order the
comments give, without a list, or there is nothing and every place a browser
may be in was searched. `Findable` is what the lists of a system can name, and
a `ProperHost` has its browsers there.

`AutoDownload` is the choice of the executable in `ChromeLauncher::launch`:
override, Tier 0, Tiers 1 and 2. `FetchCatalogue` to `Verify` are
`Manager::ensure`: the cache that is valid if a file exists, the download
through a file that `File::create` truncates, the extraction, the removal, the
chmod. Launches of several plugins run it at once on one directory: a writer
whose file was truncated goes on at its own offset, and a removed file lives on
for whoever has it open, which `zipOwner`, `zipWriters` and `binOwner` keep
apart. Every step may fail (`SoftError`, `DownloadFails`, `CopyFails`,
`ChmodFails`), a download may stall for ever (`Stall`), and the process may be
restarted (`Restart`). `disturbed` records that an installation was cut short
after the binary had been created, or met another one.

An archive need not contain the binary (`ExtractNothing`): the chmod or the check
at the end then fails (`ChmodFails`, `VerifyFails`).

Assumed: one version in the catalogue.

### ProfileDecoration

The first call of an agent in `shared_plugin_for`, with `decorate_profile_dir`
one file operation at a time. Files are inodes: `Open` truncates whatever has
the temporary name, `Rename` moves whatever has it now, and a writer goes on
writing to its inode under its new name. A Chrome of the same directory loads
Preferences when it starts and replaces it when it saves; `Evict` and `Restart`
let a directory be decorated again. A call with an invalid id is refused, and so
may be, at the cap, one whose key is not cached (`Call`). Raw agent ids are classes of spellings, two
of which have one key. Preferences is what Chrome saved (`kept`) and the badge.
`disturbed` records that two decorations wrote at the same time, that one met a
save, or that its read failed.

### ProfileLimits and PluginProcess

`ProfileLimits` is `profile_limits.rs`: an unset variable, text, or a number,
which parses if a machine word holds it, clamped into its range.

`PluginProcess` is `main` and the subscribers: `ReadLimits`, `WireBridge`,
`ConnectBroker`; then per topic a task that takes one request after the other
(`Skip`, `LookUp`, `Handle`, `Publish`). The verbs that shut Chrome down look
their instance up and wait until its session mutex is free (`LookUp`, `Ready`),
which tool calls take and give back (`ToolStart`, `ToolEnd`); `Handle` runs the
handler to its end. `Reload` drops an instance, declares it or moves it to
another directory at any time, also under a waiting request. `MarkPaired` writes
the sentinel into the directory; where the write fails, the file may be there
all the same, and `list_instances` (`Rows`) asks no more.
Subscribing, handlers, publishing and the disk may fail. What the shutdown does
is `BrowserPlugin`'s subject: here it is one step. "shutdown" stands for the
three verbs that wait, "unknown" for everything that is answered by an error.

### MC modules and proofs

The `MC` modules give the constants their values and the symmetry sets. Model
values are symmetric only where no liveness is checked. The `...Proofs` modules
hold the theorems. `map` in `PROJECT.json` gives the lines each definition
models.

## 3. Runs

| Run | Instance | States | What it shows |
|---|---|---|---|
| `browser` | 2 calls, 2 shutdowns, 2 Chromes, 5 configurations (one under a shared label), crashes | 365,318 | safety, liveness and refinement of one plugin |
| `browser_reboot` | 1 call, 1 shutdown | stops at the violation | a session outlives its Chrome after a shutdown |
| `browser_visible` | 2 calls, 1 shutdown | stops at the violation | the boot after `launch_visible` is headless |
| `profiles_safety` | 2 calls, 2 keys, 3 serials, cap 1, idle 0 or 1, with and without `cdp_url` | about 875,500 (with symmetry) | the bound on the overshoot, Chromes per directory without eviction, what is evicted and what that spares, refinement of the pool |
| `profiles_liveness` | 2 calls, 1 key, 2 serials, cap 1, idle 1 | 112,244 | idle profiles go, handlers return |
| `profiles_sharing` | 2 calls, 1 key, eviction | stops at the violation | two Chromes on one directory |
| `profiles_clock` | 1 call, 1 key | stops at the violation | a failed command resets the clock |
| `registry_reload` | 1 call, 1 admin verb, 2 labels, 2 serials (one with a `cdp_url`), 4 configurations | 210,064 | all properties of the registry, refinement of the pool |
| `registry_legacy` | 1 call, 2 labels | stops at the violation | a declared instance is bypassed during a reload |
| `auto_download` | 2 launches, 3 systems, every set of installed browsers (without Tier 0), 5 setups with it | 56,468 | what is spawned can be run, a failed Tier 0 hides no browser, the best one is found, launches end |
| `decoration` | 3 calls, 1 agent and the default key, 1 save, 1 fault, 1 restart | 320,568 | settings and badge, calls are served |
| `plugin_process` | 2 requests, 2 topics, 1 instance, 2 directories, 19 environments, 1 fault | 147,156 | limits, order of replies, pairing, independence of the topics |

Bounds, and why they are enough:

* *Identifiers are used again.* A Chrome or a plugin that nothing refers to
  gives its identifier back, so no run bounds the number of boots, evictions or
  reloads: the state spaces are finite and complete. In `browser`,
  `profiles_safety` and `profiles_sharing` there are as many identifiers as can be
  referred to at once (for a plugin's Chromes: the stored one and the one being
  launched, a session being absent during a launch; for the plugins of one key:
  the map's or the one being shut down, and those of the handlers), so no step
  waits for one. In `profiles_liveness` and `registry_reload` there are two per
  key or label: an insertion or a registration that would be the third plugin
  waits until one of the two is dropped. All pairs are there, a replaced plugin
  in use beside its successor, one shut down beside the next; the refinement and
  the safety of the pool are proved for any number.
* *Two calls and two shutdowns* give every pair of actors and every order in
  the queue; one plugin's boots are serialised by its mutex, so a third caller
  adds no new kind of interleaving. The safety properties are proved for any
  number.
* *Cap 1 with two keys* is a cap that is reached and passed. *Idle 1* tells an
  entry just touched from one that is due; *idle 0* disables eviction. A
  `cdp_url` makes no difference to what waits for what but the spawn: the
  liveness run is without it.
* *Five configurations of a plugin*: attaching or spawning, headless or not, with
  its label to itself, and one whose label others write; the gauge is read by
  nobody, so it is crossed with the others no further.
* *Two labels* let a reload drop, keep and add one at a time. The payloads of
  `registry_reload` declare one label, both, or one twice (which is refused),
  and `Single` declares none; those of `registry_legacy` one label or the other.
* *Two launches* have every way in which two installations meet; a third one
  meets them pairwise on the same two files. Tier 0 is run with and without an
  installed browser, and on a system with and one without chmod.
* *Three calls* of one agent are two decorations that meet and one that comes
  after them, with the fault and the restart anywhere. Directories of different
  agents share nothing, so one agent is enough; its two spellings and the
  default key are there.
* *Two requests* on two topics are one behind another on a topic, or one on
  each. One instance with two directories is moved, dropped and declared again
  between them. The environments change one knob at a time, on both sides of every
  boundary, with no broker: what is read does not depend on the broker, and what
  is served not on the knobs; `WordLimit` stands for the width of a machine word. One fault is
  enough for each kind of failure to come first or second.

Deadlock is checked in every run but `decoration` and `plugin_process`, whose
calls and requests are each made once, so that the system comes to rest.

### Fairness

* `BrowserPlugin`: weak fairness of each task's own steps. The awaits end by
  themselves: `wait_for_devtools_url`, the HTTP requests and the commands carry
  timeouts, and the executor polls what is ready. Waiters are served in order
  by the queue itself, so no strong fairness is needed. New calls, new
  shutdowns and crashes are not owed. The build without the auto-download
  feature is described: its download client has no timeout.
* `ProfileCache`: weak fairness of each handler and of the loop; strong fairness
  of a handler that waits for its plugin's session mutex (`Waits`), which is FIFO,
  so that a waiter gets it in its turn however often others take it; and strong
  fairness of the end of a command (`Ends`), because polling ends with its
  deadline: between two polls the mutex is free and the end not enabled. Bad
  arguments are found before the mutex is asked for and are no way out of the
  queue. The loop's own wait is weakly fair: its victim is no longer in the map,
  and the calls that still hold it are finitely many. Time and new calls are not
  owed.
* `InstanceRegistry`: weak fairness of the reload, of each call and of each admin
  verb, and of `Ends` as above. No strong fairness of a wait is needed.
  Reloads, calls and admin requests are not owed.
* `AutoDownload`: weak fairness of each launcher's steps, none of a stalled
  download: `LaunchesEnd` says that a launch ends or is stalled itself.
* `ProfileDecoration`: weak fairness of a call that has started.
* `PluginProcess`: weak fairness of startup (the attempt to connect to the
  broker returns) and of subscribing, strong fairness of a topic's service,
  because the session mutex serves its waiters in turn; a waiting verb (`LookUp`)
  is past its lookup, which a reload then no longer changes. That a tool call ends
  is not assumed but a premise of `AdminServed`; `TopicsIndependent` does
  without it.

## 4. Proofs

TLAPS checks eight modules. Assumptions are the `ASSUME`s of the modules about
their constants (sets are disjoint, a value like `NoChrome` is not a Chrome,
`MaxProfiles` is positive, handlers and keys are finite sets, a host is one of
the three systems with its browsers in places its lists name); every run
evaluates them. Every invariant and every action property of the passing runs is
a theorem, and so are the three refinements. `NoSpuriousWarning`, `MutexServed`
and `BridgeServes` (in every environment with the daemon's bridge the
subscribers are spawned) are proved and in no run.

*BrowserPlugin.* The inductive invariant `IInv` adds three parts to the types
and the safety invariants. `MutexInv`: a task past its lock().await is at the
front of the mutex's queue; two tasks past it would then be one (`OneDriver`).
`BootInv`: what the boot or the command that owns the mutex knows about the
fields (no session until the boot opens one; the stored Chrome is the launched
one, or a shutdown has taken it; a command has a session). `AttachInv`: a plugin
with a `cdp_url` stores and spawns nothing. Without `MutexInv` another task might change the
session in the middle of a boot, and `BootInv` would not be preserved; without
`BootInv`, `OpenSession` might open a session beside another stored Chrome.
`CommandKeepsSession` follows for each step, and so does the refinement
(`PluginIsLazyBrowser`): initial states map to initial states, and each action
to `Request`, `Open`, `Serve`, `Answer`, `Refuse`, `Close` or a stutter.
`OneDriver` gives that nobody else is served when a command starts, `BootInv`
that there is no browser when a boot opens one.

`MutexServed` is what deadlock freedom needs of the safety side: the queue of the
session mutex has exactly the tasks that own it or wait for it, once each, and
those behind the front one only wait. At each program counter the front one can
have, one of its steps has no guard but that it is in front (`LaunchFails`,
`StoreChrome`, `ConnectFails`, `Publish`, `EndCommand`; `SessionFound` or
`TakeOverride`; `NoSession` or `StartCommand`; `ClearSession`). So the queue
moves for any number of callers and shutdowns; that it does so for each of them
in the end is `EveryCallReturns`, which TLC checks. `QueueInv` is its inductive
part, with one lemma for joining, leaving and staying.

`GaugeIsSound` is about a plugin alone under its label: `~config.shared` is a
premise of `GaugeNeedsSession`, without which TLC refutes it.

*BrowserPluginHistory.* `ShutdownKills` rests on `DoomedInv`: from the moment a
shutdown has cleared the session, a doomed Chrome that still runs is the stored
one. It is so at that moment, because the shutdown then holds the mutex, no
launch is under way, and by `NoLeakedChrome` only the stored Chrome runs; and it
stays so, because whoever replaces the stored handle kills its Chrome.
`NoSessionMeansShutdown` rests on `CutInv`: a call past `ensure_session` that
has no session is in `cut`. `DeadSessionsExplained` rests on `ExcusedInv`: a Chrome that a boot or the
session drives runs or is excused; one that is driven and stored while a
shutdown is between its locks is excused already; and a launch never replaces
its own Chrome.
`HNextIsNext` carries `IInv` over.

`VisibleBootsAreVisible` rests on `OwedInv`: while a `launch_visible` is
under way that no boot has met, or its promise is owed, the override is set.
Only a boot that begins takes the override (`BootTakesOverride`,
`OverrideStays`), and then nothing is owed. With finding 2 this is the whole
truth about the flag.

*ProfileCache.* `PInv` adds to the types: what a handler holds at each program
counter (`Locals`), that the plugins of entries and handlers are of the right
key (`Directories`), that without eviction the map's plugin is the one a
handler holds and the one whose Chrome runs (`Undisturbed`), that one handler at
a time is between its spawn and the end of its command, and one that boots has
found no session (`Mutexes`), and that what the loop has decided to evict was
idle or is marked as touched (`Decided`). `OneChromeUndisturbed` needs
`Undisturbed` and `Mutexes` both: the first for one plugin per directory, the
second for what the retry after a failed connection adds.
`OvershootBounded` is inductive given the types, by counting: `Miss` checks the
cap and moves a handler into `Building`, `Insert` moves one out and adds at most
one entry. For the refinement (`CacheIsPluginPool`) the invariant also knows
when the loop has a victim (`Victims`), so that it retires one plugin at a time,
and that no Chrome or session is of a plugin that nobody refers to (`NoOrphans`),
so that the steps which forget nothing keep all of them. A lemma per action names
the step of the pool it is. `CacheIsSafe` then takes the pool's safety over, and
`EvictionsSpareCommands` reads off it what an eviction spares. That an evicted
Chrome which a late call boots again ends follows: only handlers refer to it, and
they return (`EveryCallReturns`).

*PluginPool.* `PoolSafe` is inductive with the types and two more facts: a
user who boots or runs a command holds something, and a session of a doomed
plugin was opened after the shutdown took the last one, so that `Kill`, which
waits for nobody, takes a Chrome only from under such a session. It is proved
once, for `PluginPool`, and instantiated under the two mappings
(`INSTANCE PluginPoolProofs`): what holds for a pool is a theorem about the cache
and about the registry.

*InstanceRegistry.* `RInv` says what a reload has still to do: the labels to
unregister are exactly the registered ones the target does not declare, and
what the target declares is registered or to be registered (`ReloadInv`); what
is left once the snapshot is written (`CountInv`); that accepted
configurations have no duplicates (`AcceptedInv`), by which the length of the
list is the size of the registry. `RegistryIsPluginPool` needs of these only what
each task holds (`HoldersInv`), and again that there are no orphans: a reload
that overwrites a kept label drops the old plugin unless a call or an admin
request holds it. Several shutdowns of one plugin may be under way, so `Cleared`
may still contain what one of them has killed, as the pool's `Kill` allows.

*AutoDownload.* The inductive invariant says, while nothing was disturbed,
what each step of the one installation has achieved: before the copy there is
no binary, after it a whole one or, from an archive without it, none, after the
chmod an executable one, and a binary with no installation under way is runnable. It needs that at most one
launch is past the check (`Fetching`), which is what "undisturbed" means.
`TierZeroErrorsAreSoft` needs only that a launch is in Tier 0 or in discovery if
there is no override.

*Discovery.* `FindChromeIsPreferred` holds for every set of installed browsers,
and `DiscoveryFindsPreferred` carries it to the launches. The candidate lists
are sorted by `NoWorse`: each list is within one scope and sorted by kind, the
scopes come in order, and `ConcatSorted` puts sorted lists together if
everything in the first is no worse than anything in the second. The first
probe that finds something is the least of the hits (`FirstExists`, from the
well-ordering of the naturals), so by sortedness no hit is better; and whatever
is installed is a hit, unless it is a personal copy on a host without a user
directory. Where there is no hit, the error's list is that of all probes,
which has every reachable place.

*ProfileDecoration.* `Owned`: the inodes named in an agent's directory, and
those its calls write to, were created for that agent. `Calm`: in an
undisturbed directory at most one call has the temporary file open, it is the
file of that name, and what it is about to write, like what Preferences holds
and a running Chrome has loaded, has everything Chrome saved. `Badges`: once
the entry is published, Preferences and the Chrome carry the badge. `Calm` is
what makes the rename safe, and the truncating `Open` what makes leftovers of a
killed process harmless.

*PluginProcess.* `LimitsInRange` and `BridgeServes` follow from the phases of
`main`, the former with the lemma `ReadNumberNearest`, which says of every
range and every input that the clamped value is the nearest one.
`PairingShown` needs that a confirmed directory is among the paired ones, which
no step makes smaller, no failed write and no reload, so that no list handled
after it shows the directory unpaired (`MarkShown`, `RowsShown`). And it needs to
know where the requests of a topic's queue are (`Queues`): those
before `handled` are done, those behind it queued, each request in one place
only; then a mark precedes a list in the queue as in time. `RepliesAreInOrder`
adds how the replies lie over the finished part of the queue (`Replies`): each
reply is that of an answered request, each answered request has one, and two
replies are in the order of their requests. The current request is not among
the finished ones of any topic (`CurrentIsAlone`), so its reply goes to the end.

Only model-checked: the liveness properties (`EveryCallReturns`,
`IdleProfilesGo`, `ReloadsEnd`, `ReplacedChromesEnd`,
`LaunchesEnd`, `CallsServed`, `TopicsIndependent`, `AdminServed`), because the
prover does not handle fairness and ENABLED; and of course the violations.

## 5. What the checks found

Five statements of the repository's own documents and comments are refuted by
the model of the code. Each is a run with its counterexample; `findings` in
`PROJECT.json` quotes the documents.

1. **A session over a killed Chrome** (`browser_reboot`, `plugin.rs:185`).
   `shutdown_chrome` clears the session and releases the lock; a waiting call
   boots; the shutdown goes on, takes the new handle and kills it. The new
   session stays, and with it the plugin is stuck until the next shutdown.
   `DeadSessionExplained` says that this and a Chrome that exits are the only
   ways to such a session.
2. **launch_visible boots headless** (`browser_visible`, `admin.rs:132`). The
   override is set before the shutdown, so a boot in between consumes it.
   `VisibleUnlessMet` says that nothing else breaks the promise.
3. **Two Chromes on one profile** (`profiles_sharing`, `main.rs:181`). An
   evicted plugin that a handler holds is booted beside its successor.
4. **Failed calls reset the idle clock** (`profiles_clock`, `main.rs:398`).
5. **The legacy plugin serves a call though instances are declared**
   (`registry_legacy`, `boot.rs:70`), while a reload that replaces all
   instances waits for a shutdown.

Noticed on the way, and visible in the models without a run of their own:

* Agents are isolated only by their directories. With a `cdp_url` in the
  template (`browser.yaml`, or `NEXO_PLUGIN_BROWSER_CDP_URL` in the environment) all per-agent
  plugins attach to one remote Chrome (`main.rs` 99-119): `remote` is then every
  plugin.
* `chrome_alive` is one gauge per label and all per-agent plugins have the label
  `default` (`plugin.rs` 188, 193-198): one agent's eviction lowers it over
  another's live session, and a replaced instance whose Chrome was dropped without
  a shutdown (`boot.rs` 84) leaves it raised, while `metrics.rs` 65 says "1 when a
  live Chrome process is attached to the instance, 0 otherwise." Without the
  premise `~config.shared` TLC refutes `GaugeNeedsSession`.
* After a failed connection the launched Chrome stays, and the retry starts
  another one on the same directory before it is dropped (`plugin.rs` 216-229);
  `OneChromeWithoutEviction` says that this is the only second one.
* A `mark_paired` that reports an error may leave an empty sentinel (`admin.rs`
  105, on a full disk), and `list_instances` then shows the instance as paired
  (46). `PairingShown` claims only what is confirmed.
* At the cap a new agent's call is refused with Unavailable, decoration or not
  (`main.rs` 89-94): `CallsServed` is about calls that found their entry or room.
* The cap can be passed: it is compared with `PROFILES.len()` before two awaits
  and not again at the insertion (`main.rs` 89, 146), while `README.md` 291
  calls it "Cap on simultaneous active Chrome profiles. (N+1)th distinct agent
  -> tool.invoke returns Unavailable". `OvershootBounded` is what does hold: by
  fewer entries than there are handlers.
* A crashed Chrome is never noticed: the session stays, and `ensure_session`
  returns early (`plugin.rs` 202), while `nexo-plugin.toml` 84-85 speaks of a
  restart "so a single Chrome crash doesn't permanently take the plugin
  offline".
* A binary that an interrupted extraction left in the cache is a cache hit for
  ever (`manager.rs` 78); it is the premise of `ManagedBinaryRuns`. A stalled
  download keeps its plugin's callers waiting without end (158), and the
  catalogue is asked for even when the binary is cached (68).
* `profile_decoration.rs` 24-26 promises an atomic write. Two decorations that
  overlap, or one and a saving Chrome, can lose settings or leave a torn file,
  and a read that fails counts as an empty file (45): these are the premises of
  `SettingsKept`.
* An agent named `default`, in any spelling, shares the profile of the calls
  without an agent (`main.rs` 78-83, 120).
* A limit too large for a machine word falls back to the default instead of
  being clamped (`profile_limits.rs` 117-127).
* The defaults of `env_config.rs` (`./.browser-profile`, 8000, 30000) are not
  those of `config.rs` (`./data/browser/profile`, 10000, 15000), which
  `env_config.rs` 7-8 says they match.

## 6. Not modelled, and the plan

Left out for good: static tool definitions, the manifest, logging, the text of
replies and errors, CDP commands and page contents, Chrome's command line,
counters and histograms that nothing reads, the colour of the badge, and
`env_config.rs`, which copies variables into a record.

Left out for a reason:

* *The shard lock of `DashMap`* held across an await (`main.rs` 175, 399-400).
  Whether a worker blocks depends on the shards and on the lock's
  implementation, which is another crate's.
* *The deadline of `browser_wait_for`* (`dispatch.rs` 201) is real time: the
  models have the polls (`PollAgain`) and that they end.
* *Stale templates* (`boot.rs` 32): a plugin keeps the configuration it was built
  from. The models tell configurations apart only where booting does.
* *What an unprotected file loses*: a binary that a killed or overlapping
  installation left (`manager.rs` 78), settings that two writers or a failed read
  lost (`profile_decoration.rs` 45, 73). The models have these steps; the
  properties excuse their outcome, which the code does nothing about.
* *Raw and sanitised labels* (`dispatch.rs` 56): one lookup, no interleaving.

What is left of the plan is to prove what liveness rests on, as far as it can be
said without fairness: measures that each step of a reload, of the eviction loop
and of a launch lowers.
