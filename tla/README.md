# A verification project for SOLDR

SOLDR (System of Orchestration, Lifecycle control, Detection and Response) runs Lua modules on
many *agents* and on the *server* they connect to; an *API server* with a web interface
administers both through a database. This directory holds TLA+ models of the concurrent core of
the server (its protocol, its agents, its modules) and of the web client (its stores, its pages, its module editor and its end of the
protocol), the TLC configurations that check them on small instances, and TLAPS proofs of the
properties of the server's part and of the browser's end of the protocol for every instance. Everything is translated from the Go, TypeScript and
JavaScript source; `PROJECT.json` maps each definition to the lines it stands for.

## The system

| Component | State it keeps | Operations | What is hard |
| --- | --- | --- | --- |
| receive router (`pkg/vxproto/router.go`), one per module socket | a buffered channel of packets, the queue of blocked calls, a mutex | `routePacket`, `recvPacket`, `unlock`, `unlockAll`, `close` | calls, timeouts, routing and a second reader of the channel interleave; sends under a mutex |
| hub (`pkg/vxproto/proto.go`) | tables of agents, routes and modules under one mutex | registration, `DropAgent`, `MoveAgent`, `AddModule`, `DelModule`, `AddRoute`, notifications | connection handlers that end late, full module channels, modules that start meanwhile |
| deferred packets (`proto.go`) | a slice of packets that had no destination | `recvPacket`, the queue goroutine | a window on an array that is still written |
| agent control (`pkg/app/server/mmodule/mmodule.go`) | the list of connected agents, one goroutine per connection, rows of the database | connect, disconnect, module synchronisation, `syncAgents`, `Stop` | unbuffered channels between five kinds of goroutines, four mutexes |
| upgrade tasks (`upgrade_task_consumer.go`, `upgrader_task_store.go`) | rows of tasks, a store of watched tasks, counters | polling, requests to agents, watchers, `Close` | timeouts against late answers, crashes, cancelling |
| upgrader cache (`upgrader/cache`) | a map, a tracker of its keys, a goroutine per entry | `Get`, expiry, eviction, `Close` | expiry behind the tracker's back |
| controller and loader (`pkg/controller`, `pkg/loader`), groups in `mmodule.go` | modules and their states, one goroutine per group | `doSync`, `syncGroups`, start, stop, update, `Close` | notifications under the mutex; modules that do not start, end by themselves or move to another policy |
| websocket transport, tunnel, hardening (`pkg/vxproto/ws*.go`, `tunnel`, `pkg/hardening`) | connections, keys, ping timers | handshake, pumps, ping | timers against closing sockets |
| IMC, topics, file streaming (`proto.go`, `module.go`) | tokens, subscriptions, files being put together | send and receive between modules | packets shared by several receivers |
| authenticator (`agent_auth_notifier.go`) | channels of connections that wait for authorisation | wait, notify, give up | one waiter that gives up acts on all |
| agent (`pkg/app/agent`) | its modules, its own executable | module commands, upgrade, readiness check | replacing itself and falling back |
| API server (`pkg/app/api`) | the database, subscriptions | REST handlers, event poller, module synchroniser | events sent to closing subscriptions |
| stores and pages of groups, policies, agents, modules, installed modules (`web/libs/store/*`, `web/libs/features/*`) | lists with query and pages, the selected entity, its own lists, flags, errors | actions of the user, debounced and switched effects, answers, navigation | answers that are late, fail or cross; pages left while requests are under way; effects that end |
| shared store, tags, guards (`web/libs/store/shared`, `tags`, `web/libs/core`) | who is logged in, lists every page uses | login, logout, guards, fetches | the session is only known from answers |
| module editor (`web/libs/store/modules/src/lib/edit`, `web/libs/features/modules`) | the module under edit, its copy at the server, forms, files, tabs | edits in every section, save, release, draft, versions, files | one item written in up to six places; edits while a save is under way; answers of another version |
| dialogs of event actions and secure parameters, linking of policies (`web/libs/shared`, `link-policy.facade.service.ts`) | a copy of a module's events, of a parameter; lists of groups and policies | assign, reset, show, save, link | the client decides from what it has fetched, the server from what it stores |
| browser link (`web/libs/features/modules-interactivity/src/lib/utils/proto.js`) | state, tokens, websockets, a queue, timers | connect, send, close, the callbacks of sockets, timers and FileReaders | callbacks of several sockets on one state |

How they meet: a connection handler registers its agent with the hub, which notifies the main
module and every module of the agent's group through their routers. The main module's receiver
loop starts a control goroutine for each agent; that goroutine subscribes to the controller,
writes the agent's row, and takes updates and upgrades until it is told to quit. `syncAgents`
refreshes the rows and drops agents whose authorisation was withdrawn. The upgrade consumer finds
tasks in the database and hands them to the control goroutines. `Stop` ends all of it. A page of the
web client dispatches actions to its store; reducers change the state, effects turn actions into
requests and answers into actions, and the page reacts to what its selectors emit. The page of a
module's browser part talks to the module's server part through a websocket and the hub.

What makes each of them correct: the router loses, duplicates and reorders no packet, and lets every
call out; the hub's tables, routes and what the modules are told agree; a deferred packet waits until it
is handed over, too old or pushed out; the list of agents, the control goroutines and the database rows
agree, heal after failures, and `Stop` ends; the modules of the database run, each on a socket of its own, and no others; an upgrade task is picked up once, settled, and "ready" only
if a link under the agent's hash came with the version asked for (the agent's own or, as below, a page's); the cache stays bounded and its entries expire. In
the browser, once nothing is under way the screen shows what was asked for last; a spinner goes with a
request; what is shown as saved is saved and nothing typed is lost unnoticed; the editor writes an item
the same way in all its places; what the client offers is what the server accepts; a message goes out at
most once, with the tokens of its session. For the components still to come: a file reaches every receiver of a topic whole or not at all; a waiting
connection is let in only by an authorisation of its own agent; events reach the subscriptions that were open when they were sent; the agent
always keeps one executable that can start.

## The modules

* `RecvRouter`: one router. An action is the code between two points where a goroutine locks,
  unlocks, sends or receives: `RouteLock` .. `RouteAck` are `routePacket`, `RecvLock` .. `RecvDel`
  are `recvPacket` with `addBlocker`, `lookupPacket` and `delBlocker`, `CloseUnlockAll` ..
  `CloseDrain` are `close`. `apiMutex`, `receiver` and `queue` are the fields of the same names;
  `recv`, `route` and `closing` are program counters, `delivered` and `consumed` the history of what
  `recvPacket` returned and of what the module's own loop took. `ConsumerTake` is the module's own loop on
  the channel, `Notify` and `AsyncSend` are the hub's notifications. Closing a closed channel sets
  `panicked` and stops the program.
* `VXProto`: the hub's tables. Critical sections of `vxProto.mutex` are single actions, except the
  loops of `DropAgent` and `MoveAgent`, whose iterations are separate steps while `op` holds the
  mutex (`MoveAgent` as a reader, so modules may read the list meanwhile: `Readable`). `phase` is the place of a connection's handler, `inbox` the channel of each module,
  `async` the goroutines of `asyncSendPacket`, `view` the list of agents each module has made
  from the messages it took.
* `DeferredPackets`: what the deferred queue promises of each packet: handed over once, or waiting,
  or forgotten because it was too old or was pushed out of a full queue; and what is left of the promise once a waiting packet has
  been written over (`Overwrite`): a fate still only moves forward, but a packet may be forgotten for no reason.
* `DeferredQueue`: the queue as it is: slices are windows on arrays (`mem`), `append` writes in
  place or copies, as in Go. Packets are deferred at any time, during a pass of the goroutine too; `overwritten` records that one
  was written over a cell the pass had yet to read. `Promise` is its refinement mapping to `DeferredPackets`.
* `AgentControl`: the life of an agent in the main module. The hub is reduced to what `VXProto`
  promises to the main module (`MainAlternates`, which is proved there). Rendezvous on unbuffered
  channels are one action of both goroutines (`MainQuit`, `SyncKick`, `CntNotify`); the mutexes
  are `mx`, `vx` (held while a notification waits) and the controller's (held while `cnt` is busy). An agent keeps its token
  from one link to the next; a second link under a new token, beside the first, is left out.
* `ModuleControl`: the controller, the loader and the goroutines of the groups. A critical section of the
  controller's mutex is one action, and each notification that follows under it another one (`lock` holds
  who has the mutex and whom it has yet to notify). `rows` and `groupRows` are the database, `modules`,
  `states`, `updates` the maps of the same names, `sockets` what the hub has registered; `cnt`, `grp`, `sg` and
  `main` are the places of `updaterModules`, of the groups' goroutines, of `syncGroups` and of `Start` and
  `Stop`. `LuaEnds` is a module whose program ends by itself. A loop of the code
  is a `ForEach` over its list with a named body (`StartNext`, `UpdateNext`, `RemoveNext`, `AddNext`).
* `UpgradeTasks`: tasks, consumer, watchers. `store` is keyed as in the code, by the agent's hash,
  and `filterTasks` asks for its database id. `Crash` is the death of the server and the start of
  the next one. `SignalConnection` is the second half of `handlerAgentConnected`, which runs for links of every type: the link
  of a page that the API server opens for a module's browser part is registered under the agent's hash with the API server's version
  (`OpenPage`, `ClosePage`, `viewers`, `InfoVer`), and counts as a connected agent in `filterTasks`. A batch of
  `processNewTasks` is a set that is worked off by row number, the order its rows were fetched in; `Rank` is a
  row's place among the new rows, for the query's `LIMIT` and `OFFSET`.
* `UpgraderCache`: cache, tracker and the expiry goroutines of each key.
* `...Proofs`: theorems, for the module or the composition of that name.
* `BrowserLink`: class `VXAPI` of `proto.js`. `state`, `token`, `socket`, `queue` are its fields; a
  websocket is its `readyState`, what the server did with it and the messages on their way; `reads` are
  the FileReaders that turn a message into bytes, `timers` the two kinds of `setTimeout`.
  A socket opens at any time, while another waits for its answer or a FileReader is still reading it; `crossed` records that this
  has happened.
* `StoreKit`: what the stores share. The browser runs one callback at a time, so an action of these
  modules is a whole callback: the user's click, a timer or an answer, with every action it
  dispatches, the effects that hear it and what the page does about the new state. A store is a record:
  `st` the reducer's state, `timer` what `debounceTime` holds, `http` the request `switchMap` keeps,
  `ended` the effects whose observable has completed. A page of rows is the request it answers, so a
  property can tell which query, page and owner a list shows. `log` holds what a request that failed
  or was overtaken has excused (below).
* `GroupsStore`, `PoliciesStore`, `AgentListStore`, `AgentCardStore`, `ModuleListStore`,
  `ModuleInstancesStore`, `SharedStore`: a store (reducer, effects, facade) with the pages that drive it.
  `reduce...` are the reducer's cases, operators named after an action of the store dispatch it,
  `On...`, `Enter...` and `Leave` are what a page does; the actions of the specification are the
  handlers of the pages, `Tick` and `Answer...`.
* `ModuleEditStore`: the page on which a module is edited, with save, release, draft, versions,
  changelog and dependencies. `ModuleSections`: the reducer cases that change the edited module, and the
  forms that dispatch them; a section is a record with one member per place where an item is written.
  `ModuleFiles`: the tree of files and folders and the editor with its tabs. A command that fails may have changed the
  server before: part of a folder's files are moved or removed, or all of them and the row's update fails (`Partly`, `Left`). They share a store in the code and no
  member of it that the models follow.
* `EventActions`: the four dialogs and panels that assign actions to events, against
  `checkModuleEvents` of the server; a save that passes the check may still fail to be stored. All dependencies are of the
  one type the dialogs write. `PolicyLinks`: what the two pages offer to link, against
  `makeGroupPolicyAction`. `SecureParams`: the rows and the dialog of a policy's secure parameters, with the
  server's answers in two steps (it takes a request; the answer comes in).
* `MC...`: the constants of the instances, given in the `.cfg` files. `MCCacheQueue`, `MCControlSafety`, `MCProtoEnds` and `MCWebClient` put parts that
  share no state side by side: the part that runs is chosen at the start, and each property speaks of
  its own part. `EventActions`, `PolicyLinks`, `SecureParams` and `ModuleFiles` carry what the server keeps in `ui` or
  `store`.

Data is abstract: packets, agents, versions and keys are model values; the content of a file, a
changelog or a module is the stamp of its last edit; payloads, texts, logging and tracing are left out.

## What is checked

Runs that pass:

| Run | Question | Bounds |
| --- | --- | --- |
| `router_safety` | every accepted packet is in exactly one place (`ExactlyOnce`); no call sleeps on a packet that lies in the queue (`NoStrandedPacket`); `recvPacket` returns a stream in order (`InOrder`); the capacity holds | 2 streams (one with an IMC packet), a notification, 2 receivers with timed calls, a consumer, capacity 2, an unlock, a close; 3 million states |
| `proto_ends`, hub | no route to a missing agent (`RoutesLive`); the main module is told the truth, alternately (`MainInformed`, `MainAlternates`) | 2 connections of an agent, an extra route, 2 groups, a module that starts and stops, capacity 2 |
| `proto_ends`, browser link | a message goes out once and with its session's tokens, handlers get packets only, the queue waits for something that is on its way (`LinkSound`), and runs empty (`QueueDrains`) | 3 websockets, opening at any time, 2 messages of the page, 1 of the server; the tokens and the packets are promised until a socket opens during another's handshake (`crossed`) |
| `cache_queue`, queue | the queue implements `DeferredPackets` (`KeepsPromise`), hands over once (`QueueSound`), keeps nothing for ever (`WaitEnds`) | 3 packets, room for 2, deferred at any time; handing over once is promised until an unread cell is written over (`overwritten`), the windows hold packets at all times |
| `cache_queue`, cache | the tracker knows the cache, the map is bounded, entries have a watcher and expire | 3 keys, 2 slots |
| `control_safety`, agents | `agentList` lists exactly the running goroutines (`ListTruth`); no ghost rows (`NoGhost`) | 2 connections of one agent, an update, a withdrawn authorisation, stale rows; the connections are symmetric |
| `control_safety`, modules | a module that runs is listed as it runs, the hub has the sockets of running modules only, `Stop` leaves none (`ModulesSound`); after a synchronisation the modules of the database run, and no others (`SyncedIsRun`); notifications, `syncGroups` and `Stop` wait only for goroutines that come (`NobodyWaits`) | a group with three modules, two of them with one socket (one module in two policies), and a shared module; 2 changes of the database, 1 failure; both parts 2.1 million states |
| `control_live` | wrong rows are repaired (`RowHeals`), goroutines of lost connections end (`Finalized`), `Stop` ends (`StopEnds`) | 1 connection, 2 failing statements, rows left by a crash; no withdrawal, no update |
| `upgrade_safety` | store, counter and verdicts are right (`StoreExact`, `CountNeverHigh`, `ReadyTruth`) | 2 agents with a task each, limit 1, one agent that connects twice and has a page, one that connects once, a failing statement, a crash; 5.9 million states |
| `upgrade_live` | running tasks are settled, new tasks of connected agents are picked up | 2 tasks, a window of one row, a crash; one agent that connects, one that is seen through a page only; 0.1 million states |
| `web_client`, pages | flags go with requests (`StoresSound`); lists, selections, cards and shared lists show what was asked for last, secure parameters what the server keeps, and the pages are shown with a session and the login page without one (`ViewSettled`) | 2 entities and a new one, 2 searches, a tag, 3 to 5 operations of the user |
| `web_client`, editor | the module, its changelog, dependencies and updates are those of the version asked for, and what is shown as saved is saved (`EditorSettled`); files and tabs keep what was typed (`FilesKept`) | 2 modules of 2 versions; files in folders, moved and removed one by one or by folder; commands that fail before, during or after their change; 4 operations |
| `web_client`, sections | the places of an item and of a key agree, and the forms show the store (`SectionsAgree`); renaming, retyping or requiring a field leaves every event with the fields it uses, under their new names; a renamed event takes its own values and title along; after a withheld form, when several names change at once, no field that is gone stays in use and no title is lost or doubled (`EditsCarryOver`) | 2 items at first, 3 at most, 2 names to type, 2 events, 3 edits |
| `web_client`, dialogs | modules and links that the client saves or offers are accepted by the server (`ServerAccepts`) | 3 actions of 3 modules on 2 events, 6 operations; 2 groups, 3 policies, 2 modules, 3 operations; 3 secure parameters of 2 modules, 5 operations |

Two of everything that competes is the smallest instance in which the hazards occur (two
receivers for one packet, two connections of one agent, two tasks for one slot); the queues are
as small as the sequences in question, so that full channels are common. The router's safety run
has timed calls only: such a call can give up wherever a poll can, and one that never gives up is
one without a timeout. A store has up to twenty effects, and every one that can be under way doubles the
states; a behaviour of the web client therefore follows the effects of one *slice*, and the slices of
`MCWebClient` put together every effect with those it is dispatched by, dispatches or shares state
with. Three or four operations of the user are what it takes to ask for something, ask for something
else while the answer is out, leave, and come back. `web_client` has 2.2 million states. Checked
alone with larger bounds: `BrowserLink` with three messages (1.9 million states), `SecureParams` with seven
operations (1.7 million), `GroupsStore` with four (0.5 million).

What the properties of the web client leave out, by `log`, `withheld`, `crossed`, `unread` or `stale`: a list
whose last request failed (the page shows an error and keeps the rows it had), a list whose next page
was asked for while its first page was on the way, a form that was not sent because two rows have one
name, a websocket that opens while another waits for its handshake or its answer is being read (H5), a FileReader that failed, a row of a secure parameter that
a late answer has overwritten, an effect that has ended after an error (its flag stays up, `ended`), what was typed while a save was under way (`unsaved`), a command or a
patch that failed and may have changed the server (`unsaved`, `patch`), marks on events that do not fit (`stray`). A later
first page that answers ends the excuse of a list.

Runs that fail, each with a finding in `PROJECT.json` that quotes what the repository says:

* `router_timeout`: a call that times out while a packet is handed to it and the router wait for
  each other (`TimedRecvReturns`).
* `proto_module_start`: a starting module misses an agent that connects between its two critical
  sections (`ModuleInformed`).
* `queue_lost`: a deferred packet is overwritten in the array its queue shares (`NotLost`).
* `upgrade_twice`: two upgrades of one agent are watched at once after a user cancelled the first
  (`OneUpgrade`).

The models reproduce more behaviours of this kind; they bound what the passing runs can claim, and the
hazards in `PROJECT.json` name the lines:

* `RecvRouter`: `lookupPacket` waits under the mutex for a packet that the module's own loop took
  after `len(r.receiver)` was read; an unlock and a close, or two unlocks, close a channel twice
  (`panicked`); a call that enters `recvPacket` after `unlockAll` is not woken by the close.
* `VXProto`: a handler that ends late deletes the entry of its successor; two notifications to a
  full module arrive in either order.
* `AgentControl`: with `Revocable` agents, `SyncKick` may wait for a control goroutine that has quit,
  and `Stop` behind it; with `MaxUpdates` above 0, `CntNotify` and `CtlUnsetUpdateChan` may wait for each
  other; with a receiver channel that fills up, a notification after the end of the receiver loop
  keeps `vxProto.mutex`. `control_live` leaves these three out (`FairSpec` has the steps
  of `Steady` only) and shows that nothing else goes wrong.
* `ModuleControl`: a notification may wait for a goroutine that has taken its quit and now waits for the
  mutex (`Stuck`, the exception in `NobodyWaits`); the first round of `syncGroups` stops the goroutine of the
  shared modules, whose group "" is in no list; `StartModulesForGroup` gives up at the first module that
  runs already, and those behind it are not started (`lost`, the exception in `SyncedIsRun`); a module whose
  Lua program ended by itself can be neither stopped nor updated, and `Close` gives up at it (`ended`).
* `UpgradeTasks`: `BatchSend` may wait for an agent that is gone; `CloseEnds` waits for watchers that need
  the lock `Close` holds; the link of a page under the agent's hash settles the agent's upgrade as "ready" when the API server
  has the version asked for, and as failed when it has another, before the agent has come back (`Told`, `viewed`).
* `DeferredQueue`: a packet deferred during a pass may be written over one that is yet to be read, which is then lost, while the new
  one is handed over from both windows (`overwritten`; `queue_lost` checks the loss).
* `UpgraderCache`: a full tracker always gives up slot 0 (`Chosen`).
* `BrowserLink`: a queue of two or more is sent in halves, last half first; after an unclean close
  `_state` stays 2 and what is sent is lost; `close()` in state 4 leaves state 3 for ever; a timer and a
  send can dial at once, and the answers of the two handshakes are mixed up: one socket's tokens go out on the other, whose own
  answer is handed to the page as a packet (`crossed`). A socket that opens while the FileReader reads another's answer is enough.
* `GroupsStore`, `PoliciesStore`, `AgentListStore`: the next page overtakes a first page that waits for
  its `debounceTime`; `ngOnDestroy` resets the store before the page stops listening, so that a page that
  is left fetches once more; the dialogs listen to the flag before the error and take a command that
  failed for one that succeeded; a fetch that fails leaves the rows of the entity before. The flag of
  `fetchGroupFilterItems` of the policies is never taken down (two names in the reducer), and after one
  failure `moveToNewGroup$` of the agents hears no further action.
* `ModuleListStore`: the panel that creates a module replaces the rows of the grid by all modules.
  `AgentCardStore`: the page first reacts to the agent another page left in the store.
  `ModuleInstancesStore`: a page left during a command fetches events of no entity, which throws, and
  leaves a flag up (`Stuck`).
* `SharedStore`: an answer to an earlier `fetchInfo` can decide for a later guard; a failed
  `fetchInfo` dispatches nothing, and the guard that asked waits; the tags of two requests arrive in either order (`mergeMap`).
* `ModuleEditStore`: the answer to a save marks what was typed meanwhile as saved, and so do the answers
  to release and draft; a save, release or draft that the server has carried out and answered with an error is shown as not done
  (`unsaved`); the changelog of a version that was left stays subscribed. `ModuleFiles`: a move or removal that failed half way,
  or after the files were changed, shows a toast and leaves the tree as it was (`patch`); when
  some of several files fail, results are taken for those of other paths; a second save drops the first
  one's answer; what is typed after "save and close" is lost.
* `ModuleSections`: a form withheld because two rows have one name gives its store several new names at once later, and the
  reducer pairs old and new names by their position: an item takes over what belongs to another (`withheld`).
* `EventActions`: the master marks events that cannot have the action and assigns to them all the same
  (`stray`); a reset and the details panel leave `dynamic_dependencies` as they are; a second save before
  the first is answered starts from the old module. `SecureParams`: a parameter whose load was under way when
  another module was selected opens with the value of the first and is saved into the other; an invalid form
  leaves `isSaving` up, and a load that fails its own spinner; the answer to a save closes whatever dialog is
  on top. `PolicyLinks`: the server's check and its insert
  are not one transaction; lists on a page are as old as their last fetch.

Deadlock checking is off where the instance may simply end: connections, calls and tasks are
bounded, and a stopped server does nothing.

### Bounds

`MaxCalls`, `MaxUnlocks` (calls and unlocks in the router), `MaxAsync` (goroutines of
`asyncSendPacket` at once), `MaxExch` (waiting synchronisations that are told apart), `MaxUpdates`,
`MaxChanges`, `MaxFails`, `MaxCrashes`, `MaxConn` (links of each agent), `Viewed` (agents whose pages are opened), `MaxCounter`, `MaxWatchers`, `LostRounds` (the time after which
an agent is lost, in rounds of `syncAgentsInterval`), `QueueSize` (100 in the code),
`MaxSizePacketQueue` (5000), `Limit` and `BatchSize` of the task store; in the web client `Slices`
(effects under way together), `MaxOps` and `MaxEdits` (operations of the user), `MaxItems` (items of a
section, keys of an item), `MaxSockets`, `MaxSends`, `MaxPackets` (of the browser link).

### Fairness

A runnable goroutine runs, and a waiter for a contended mutex or channel gets it in the end (Go's
mutexes hand themselves over to a waiter that starves, and channels serve their waiters in order):
weak fairness, and strong fairness for the steps that compete. Timers expire. Requests to agents
end, because they carry a timeout. A timer of the browser that runs goes off (`drainTimer`); that is all
that is assumed there: the properties of the stores are invariants of the states in which nothing is
under way. Nothing is assumed of agents, users, new module versions, or of
`Stop` being called. The query for new tasks has no `ORDER BY`; the model takes the rows by primary
key, as the database scans them, and `TaskPicked` rests on that.

## What is proved

TLAPS checks the following for every value of the constants under the named assumptions, which TLC evaluates
on its instances. Each module first shows its inductive invariant (`...Inductive`), which TLC has checked
on a small instance first; the other theorems are what follows from it.

| Module | Inductive invariant | Theorems |
| --- | --- | --- |
| `RecvRouterProofs` | `RouterInv` | `RouterTypeOK`, `RouterExactlyOnce`, `RouterNoStrandedPacket`, `RouterInOrder` |
| `VXProtoProofs` | `HubInv` | `HubTypeOK`, `HubRoutesLive`, `HubMainInformed`, `HubMainAlternates` |
| `CacheQueueProofs` | `CacheInv`; `QueueInv` | `CacheTypeOK`, `CacheTracked`, `CacheWatched`, `CacheBound`; `QueueIsSound` (`QueueSound`), `QueueKeepsPromise` (the refinement `KeepsPromise`) |
| `AgentControlProofs` | `AgentInv` | `AgentTypeOK`, `AgentListTruth`, `AgentNoGhost` |
| `ControlSafetyProofs` | `WaitInv`; `ModInv` | `ControlNobodyWaits` (`NobodyWaits`); `ControlModulesSound` (`ModulesSound`), `ControlSyncedIsRun` (`SyncedIsRun`) |
| `UpgradeTasksProofs` | `UpgradeInv` | `UpgradeTypeOK`, `UpgradeStoreExact`, `UpgradeCountNeverHigh`, `UpgradeReadyTruth` |
| `ProtoEndsProofs` | `LinkInv` | `LinkIsSound` (`LinkSound`) |
| `WebClientProofs` | `DialogsInv` (`LinksInv`; `ActionsInv`) | `WebServerAccepts` (`ServerAccepts`) |

Why the invariants are stronger than the properties:

* *Router.* A look-up takes packets out of the channel and puts them back while notifications and the module's
  own loop go on. `MutexInv` says who holds `apiMutex`, so that there is one look-up at most; `LookupInv` that
  what lies behind the count it has read are notifications only; `WaitInv` and `BlockerInv` that nothing in the
  channel fits a waiting call and that a sender's choice stays right; `DistinctInv` and `PlaceInv` that the six places of a
  packet are disjoint; `BegunInv`, `SortedInv` and `AheadInv` that packets of one stream and type stay in order
  within a place and between two. `ExactlyOnce` counts, and follows from the disjoint places.
* *Hub.* `TablesSound` (an entry sits under its own source and its handler has not returned; the main module is
  registered and never served asynchronously) and `OpSound` (what the loops of `DropAgent` and `MoveAgent` still
  have to do is registered). Lemmas on `Append` and `Tail` say what becomes of the last message about a source.
* *Deferred queue.* During a pass the queue's window begins where the goroutine's does and ends before the
  cell that is read next (`PassInv`): appending neither grows the array nor reaches an unread cell, as long as none was reached before. The packets in the two windows differ,
  have come in and have not been handed over (`QCellsInv`, `PCellsInv`, `ApartInv`). With that every step is
  a step of `DeferredPackets` or leaves its variables alone. That holds until a packet is written over an unread cell
  (`overwritten`), which the code does and `queue_lost` shows; from then on only the types and `WindowsFilled` are kept, and
  `DeferredPackets` promises that fates move forward and no more. A packet may be deferred at any time, during a pass too.
* *Agents.* A "connected" never meets a running goroutine of its agent because of the order of the notices on
  their way (`NoticesInOrder`); `agents.del` removes the goroutine's own entry because main and the synchronisations end
  only what was started (`MainInv`); `NoGhost` needs that `syncAliveStatusAgents` holds `mxdone` only of goroutines that were not told to
  quit (`MutexInv`).
* *Groups.* `WaitInv` leaves the modules aside: whom `doSync` notifies is drawn from the subscriptions, whatever it
  does. At most one goroutine of a group is not at rest after `Start` (`BusyOK`), `PhaseOK` ties `Stop` to
  `syncGroups`, `ListsOK` keeps what `syncGroups` has read true, `Subscribed` says between which steps a
  goroutine is in the controller's map. The exception `Stuck` of `NobodyWaits` is part of the theorem.
* *Modules.* `WorldOK` says what list, loader, hub and history agree on, module by module: what runs is
  listed, in the version of its entry, a state that does not run is given up, and the hub has the sockets of what runs or has ended. The controller's operations are loops; each
  loop body has a lemma of its own, and `LoopKeeps` and `LoopRuns` carry it through the loop: the first number
  of passes after which it fails is excluded with the well-foundedness of `<` on the naturals, for sets of
  admissible intermediate results. `ModInv` adds what a sync has established so far: after `checkUpdateModules`
  what runs is as the database has it (`Current`), after `checkStopModules` nothing else runs (`Wanted`), after
  `checkStartModules` everything is listed or given up (`Present`), each kept by the next check because the mutex is held,
  and by the steps of the groups after the sync. `GroupsOK` turns "listed" into "running": a group under control
  has started what is listed, and whatever is listed later comes from a check that has started it.
* *Upgrade tasks.* An entry of the store is under its own agent and its watcher lives (`StoreSound`), which also
  holds when several tasks of one agent overwrite each other's entries; a channel holds the version asked for
  only if a link under the agent's hash came with it, the agent's own or a page's (`ChanTruth`, `Told`). `StoreExact` is proved for agents with one task each
  (`OneTaskEach`); the others without that: `upgrade_twice` shows the case of two tasks.
* *Cache.* Expiry deletes a key from the map and not from the tracker, so the tracker knows at least the
  cached keys; the bound follows because they inject into the slots.
* *Browser link.* As long as no websocket has opened during the handshake of another, from its opening until its answer is read
  (`crossed`), the one that waits is `_socket` and what is being read as its answer is (`SessionOK`, `ReadsOK`); afterwards nothing is
  claimed of tokens and packets, and what is claimed of the queue and of messages going out once still holds; ids of messages are
  distinct among those written and those that wait (`MessagesOK`), through the halves that `_drain` sends.
* *Policy links.* The pages compare lists of modules, the server counts the policies of the group that have a
  module. The two agree only while the policies linked to a group have no module in common (`LinksInv`), which holds
  at first and which every link that the server accepts keeps; `AcceptsFits` puts the count (at most one) into
  these terms.
* *Event actions.* A save is made of the module on the page, the dialog's lists and the marks of the user, several steps
  after they were read. `ActionsInv` says that the module on the page has exactly the dependencies it uses, no
  action twice and none without its fields; that the same holds of the saves under way, as far as their kind
  promises it (`SaveOK`: a reset leaves the dependencies alone, and a save after stray marks may carry actions without fields); and that the
  lists of the open dialog hold events that fit its action, or actions that fit its event and come
  once. What `Erase` leaves of a list is carried through its loop with `LoopRuns`.

Assumptions: the shapes of the parameters, `None` and the like being no members of the sets they stand
beside, and bounds that are natural numbers. Worth naming: in `RouterAssumption`, no peer routes the same packet
object twice, notifications are control packets and routed packets name their peer as source; in
`UpgradeTasks`, a version is not one of the words for an empty or closed channel; in `ParametersOK` of `ModuleControl`, the ids in `Order` are distinct and no group is called as the holders
of the controller's mutex are; in `MCProtoEnds`, at least one websocket; in `MCWebClient`, finitely many policies, and (`ParametersOK` of `EventActions`) a module and
a default configuration that the server has accepted, in which no action comes twice: the dialogs keep that, the server does not check it.

The theorems of `ControlSafetyProofs`, `CacheQueueProofs`, `ProtoEndsProofs` and `WebClientProofs` are stated for the part and for the composition
that the run checks, in which the part stands still when another was chosen (`PartsFairness`, `EndsFairness` hold
the liveness conditions apart). In a proof, `Frames` and the like say which variables a part of the invariant
reads; an action's step only treats the parts it can disturb.

Only model-checked:

* liveness (`QueueDrains`, `WaitEnds`, `EntryExpires`, `RowHeals`, `Finalized`, `StopEnds`, `TaskSettled`, `TaskPicked`):
  fairness and ENABLED are beyond the prover;
* the web client's properties other than `ServerAccepts`: `StoresSound`, `ViewSettled`, `EditorSettled`, `FilesKept`,
  `SectionsAgree`, `EditsCarryOver`. Each speaks of several stores with some twenty effects, whose
  invariants would have to say what every request under way stands for; `FilesKept` and `SectionsAgree` also rest on what a
  recursion over trees and sorted sequences computes, for which the prover has no induction.

## Not modelled, and the plan

Done: router, hub and deferred queue, the main module's control of agents, groups and upgrades, the
controller and the loader, the cache; the web client's stores and pages, its module editor, its dialogs and its
end of the protocol; the proofs of all of these but the web client's stores, their pages and the module editor.

Next, to model: file streaming with several receivers of one packet, the authenticator, IMC tokens and
topics, the packet checker's policies against a table, the API's event exchanger, the
controller's loaders and `controlAggregate`, the agent's upgrader with its
fallback, the transport and `vxProto.Close`, and the reset of an upgrade task to "new".

Next, to prove: `StoresSound` and `ViewSettled`, store by store, and `EditsCarryOver` of the module editor.
Abstract specifications worth stating besides `DeferredPackets`: a connected-agents register that
`VXProto` implements for the main module, and a task ledger that `UpgradeTasks` implements.

Of the modelled parts of the web client, these operations are left out: `updatePolicyModuleConfig` of
the policies, nested parameters ("a.b") of the module editor, exports
that change no state, sizes and columns of grids. Out of reach or without state of their own: the web
client's ui kit, design tokens, texts, generated API client and data types; Lua code, the tunnel's
generated ciphers, file storage, observability, the REST handlers apart from those named, packaging.
`PROJECT.json` maps a helper that lies within the lines of a definition mapped already together with it. The list of components with their status, and of the hazards with the properties that watch them, is in
`PROJECT.json`.
