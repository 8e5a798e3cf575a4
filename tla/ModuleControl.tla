--------------------------- MODULE ModuleControl ---------------------------
(***************************************************************************)
(* The server's modules: the controller (pkg/controller/controller.go),    *)
(* the loader and the states it holds (pkg/loader), and the goroutines of  *)
(* the main module that run the modules of each group                      *)
(* (app/server/mmodule/mmodule.go: controlGroupState, controlSharedState,  *)
(* syncGroups, handlerStopMainModule).                                     *)
(*                                                                         *)
(* The controller works under one mutex, and notifies the goroutines that  *)
(* subscribed to a group with the mutex held: a critical section is one    *)
(* step, and each notification that follows is another one.  The agents'   *)
(* subscriptions are in AgentControl.                                      *)
(*                                                                         *)
(* A module is known by an id, of group, policy and name; its socket is    *)
(* registered by group and name only.  A row of the database is a version  *)
(* v (version, state, template, last_module_update) and a stamp c of its   *)
(* configuration (last_update).                                            *)
(***************************************************************************)
EXTENDS Integers, Sequences, FiniteSets, SequencesExt

CONSTANTS
  Order,       \* ids of modules, in the order in which the database gives them
  Group,       \* groups
  Shared,      \* the group "" of the shared modules
  GroupOf,     \* id -> its group or Shared
  SocketOf,    \* id -> group and name
  FirstRows,   \* ids in the database at first
  FirstGroups, \* groups in the database at first
  MaxChanges,  \* bound: changes in the database
  MaxFails     \* bound: failing queries, files and Lua states, Lua programs that end

Id  == Range(Order)
All == Group \cup {Shared}

NoRow   == [v |-> 0, c |-> 0]
NoState == [status |-> "none", v |-> 0, c |-> 0]
Stamp   == 0 .. 1 + MaxChanges

ParametersOK ==
  /\ Order \in Seq(Id) /\ \A j, k \in DOMAIN Order : Order[j] = Order[k] => j = k
  /\ Shared \notin Group /\ MaxChanges \in Nat /\ MaxFails \in Nat
  /\ GroupOf \in [Id -> All] /\ DOMAIN SocketOf = Id
  /\ FirstRows \subseteq Id /\ FirstGroups \subseteq Group
  /\ {"nobody", "sync"} \cap All = {}

VARIABLES
  rows,        \* the modules' rows
  groupRows,   \* the groups' rows: "no" yet, "yes", "deleted"
  modules,     \* sController.modules
  states,      \* sLoader.states; a STOPPED one in it has ended by itself
  sockets,     \* ids whose sockets are registered with the hub
  updates,     \* sController.updates: groups whose goroutine is notified
  lock,        \* the controller's mutex: who holds it, whom it has yet to notify
  cnt,         \* updaterModules: what doSync does next, what it has loaded
  grp,         \* the control goroutine of each group
  sg,          \* syncGroups: what it does next, which groups it stops and starts
  main,        \* Start and Stop of the main module
  lost,        \* history: ids that were not started, or ended, and are not tried again
  synced,      \* history: the last doSync is over, loaded all and saw the database of now
  ended,       \* history: a Lua program has ended by itself
  changes, fails   \* history: counters

db   == <<rows, groupRows, changes>>
data == <<modules, states, sockets, lost>>
vars == <<rows, groupRows, modules, states, sockets, updates, lock, cnt, grp, sg, main, lost, synced, changes, fails, ended>>

\* sLoadModulesSQL: rows of groups that are not there are left out.
Config == [i \in Id |-> IF GroupOf[i] = Shared \/ groupRows[GroupOf[i]] = "yes" THEN rows[i] ELSE NoRow]

Listed(x, i)  == \E k \in DOMAIN x.modules : x.modules[k].id = i
Item(i, row)  == [id |-> i, v |-> row.v, c |-> row.c]

\* A loop: what its body makes of a, one element of s after the other.
ForEach(body(_, _), a, s) ==
  LET after[k \in 0 .. Len(s)] == IF k = 0 THEN a ELSE body(after[k - 1], s[k])
  IN after[Len(s)]

(***************************************************************************)
(* The controller's operations on x: modules, states, sockets, lost.       *)
(***************************************************************************)
World    == [modules |-> modules, states |-> states, sockets |-> sockets, lost |-> lost]
Becomes(x) == modules' = x.modules /\ states' = x.states /\ sockets' = x.sockets /\ lost' = x.lost

\* A new state is LOADED unless its files are bad.
NewState(x, m, bad) ==
  IF x.states[m.id] # NoState \/ m.id \in bad THEN x
  ELSE [x EXCEPT !.states[m.id] = [status |-> "LOADED", v |-> m.v, c |-> m.c]]

\* ModuleState.Start: cbStart registers the socket, if there is none of its name.
CanStart(x, i) ==
  /\ x.states[i].status \in {"LOADED", "STOPPED"}
  /\ \A j \in x.sockets : SocketOf[j] # SocketOf[i]

Start(x, i) ==
  IF CanStart(x, i)
  THEN [x EXCEPT !.states[i].status = "RUNNING", !.sockets = @ \cup {i}, !.lost = @ \ {i}] ELSE x

\* startModule fails for a module that runs, and for one whose start fails,
\* which leaves a LOADED state behind.
startModule(x, m, bad) == Start(NewState(x, m, bad), m.id)
StartFails(x, m, bad)  == ~CanStart(NewState(x, m, bad), m.id)

\* stopModule: Stop, UnregisterLuaAPI and Del.  Stop refuses a STOPPED state.
StopFails(x, i)  == x.states[i].status = "STOPPED"
stopModule(x, i) ==
  IF StopFails(x, i) THEN x ELSE [x EXCEPT !.states[i] = NoState, !.sockets = @ \ {i}]

\* A module that could not be started is not tried again.
Lose(x, is) == [x EXCEPT !.lost = @ \cup is]
StartOrLose(x, m, bad) ==
  IF StartFails(x, m, bad) THEN Lose(startModule(x, m, bad), {m.id}) ELSE startModule(x, m, bad)

\* StartModulesForGroup and StartSharedModules return at the first failure: the
\* modules behind it are not started.
StartNext(a, m, g, bad) ==
  CASE GroupOf[m.id] # g -> a
    [] GroupOf[m.id] = g /\ a.err ->
         [a EXCEPT !.x = IF a.x.states[m.id] = NoState THEN Lose(@, {m.id}) ELSE @]
    [] GroupOf[m.id] = g /\ ~a.err ->
         IF a.x.states[m.id].status = "RUNNING" THEN [a EXCEPT !.err = TRUE]
         ELSE [x |-> StartOrLose(a.x, m, bad), err |-> StartFails(a.x, m, bad)]

startGroup(x, g, bad) ==
  ForEach(LAMBDA a, m : StartNext(a, m, g, bad), [x |-> x, err |-> FALSE], x.modules).x

\* StopModulesForGroup, StopSharedModules, and StopAllModules for all groups.
StopNext(a, m, gs) ==
  IF a.err \/ GroupOf[m.id] \notin gs THEN a
  ELSE [x |-> stopModule(a.x, m.id), err |-> StopFails(a.x, m.id)]

stopGroups(x, gs) ==
  ForEach(LAMBDA a, m : StopNext(a, m, gs), [x |-> x, err |-> FALSE], x.modules).x

Place(x, i) == CHOOSE k \in DOMAIN x.modules : x.modules[k].id = i

\* updateModule: the list has the new version whether or not it could be started.
updateModule(x, m, bad) ==
  LET y == [x EXCEPT !.modules[Place(x, m.id)] = m]
  IN IF StopFails(y, m.id) THEN y ELSE StartOrLose(stopModule(y, m.id), m, bad)
UpdateFails(x, m, bad) ==
  StopFails(x, m.id) \/ StartFails(stopModule(x, m.id), m, bad)

\* updateModuleConfig does nothing for a module without a state.
updateModuleConfig(x, m) ==
  IF x.states[m.id] = NoState THEN x
  ELSE [x EXCEPT !.modules[Place(x, m.id)].c = m.c, !.states[m.id].c = m.c]

(***************************************************************************)
(* The three checks of doSync.  Each gives the new x and the groups that   *)
(* are notified.                                                           *)
(***************************************************************************)
Entry(x, i) == x.modules[Place(x, i)]

Changed(x, config) ==
  {i \in Id : config[i] # NoRow /\ Listed(x, i) /\ Entry(x, i).v # config[i].v}
Reconfigured(x, config) ==
  {i \in Id : /\ config[i] # NoRow /\ Listed(x, i)
              /\ Entry(x, i).v = config[i].v /\ Entry(x, i).c # config[i].c}

UpdateNext(a, i, config, bad, newv) ==
  LET m == Item(i, config[i])
  IN IF i \notin newv THEN a
     ELSE [x |-> updateModule(a.x, m, bad),
           told |-> IF UpdateFails(a.x, m, bad) THEN a.told ELSE a.told \cup {GroupOf[i]}]
RenewNext(a, i, config, newc) ==
  IF i \notin newc THEN a
  ELSE [x |-> updateModuleConfig(a.x, Item(i, config[i])), told |-> a.told \cup {GroupOf[i]}]

checkUpdateModules(x, config, bad) ==
  LET newv == Changed(x, config)
      newc == Reconfigured(x, config)
      y    == ForEach(LAMBDA a, i : UpdateNext(a, i, config, bad, newv), [x |-> x, told |-> {}], Order)
  IN ForEach(LAMBDA a, i : RenewNext(a, i, config, newc), y, Order)

\* Mutant: a module is taken out of the list and goes on running.
CheckStopForgets(x, config) ==
  [x |-> [x EXCEPT !.modules = SelectSeq(@, LAMBDA m : config[m.id] # NoRow)], told |-> {}]

\* A module without a state stays in the list, and so does one that cannot be
\* stopped.
RemoveNext(a, m, config) ==
  IF config[m.id] # NoRow \/ a.x.states[m.id] = NoState \/ StopFails(a.x, m.id) THEN a
  ELSE [x |-> [stopModule(a.x, m.id) EXCEPT !.modules = RemoveAt(@, Place(a.x, m.id))],
        told |-> a.told \cup {GroupOf[m.id]}]

checkStopModules(x, config) ==
  ForEach(LAMBDA a, m : RemoveNext(a, m, config), [x |-> x, told |-> {}], x.modules)

Unlisted(x, config) == {i \in Id : config[i] # NoRow /\ ~Listed(x, i)}

\* Mutant: a module is listed whether or not it could be started.
CheckStartLists(x, config, bad) ==
  LET new == Unlisted(x, config)
      Step(a, i) == IF i \notin new THEN a ELSE
        [startModule(a, Item(i, config[i]), bad) EXCEPT !.modules = Append(@, Item(i, config[i]))]
  IN [x |-> ForEach(Step, x, Order), told |-> {}]

\* A module that could not be started is not in the list.  It is tried again,
\* unless its state was made: then it is left out from now on.
AddNext(a, i, config, bad, new) ==
  LET m == Item(i, config[i])
  IN IF i \notin new \/ a.x.states[i] # NoState THEN a
     ELSE IF StartFails(a.x, m, bad)
          THEN [a EXCEPT !.x = Lose(startModule(@, m, bad), {i} \ bad)]
          ELSE [x |-> [startModule(a.x, m, bad) EXCEPT !.modules = Append(@, m)],
                told |-> a.told \cup {GroupOf[i]}]

checkStartModules(x, config, bad) ==
  LET new == Unlisted(x, config)
  IN ForEach(LAMBDA a, i : AddNext(a, i, config, bad, new), [x |-> x, told |-> {}], Order)

\* notifyModules, once for each group that has changed.
notifyModules(told) ==
  {n \in told \X updates : n[1] = n[2] \/ n[1] = Shared \/ n[2] = Shared}

(***************************************************************************)
(* The mutex and the failures.                                             *)
(***************************************************************************)
Free       == lock.who = "nobody"
Holds(who) == lock.who = who /\ lock.todo = {}
Hold(who, todo) == lock' = [who |-> who, todo |-> todo]
Release    == lock' = [who |-> "nobody", todo |-> {}]

\* Modules whose files are bad: a Lua state cannot be made of them.
Bad      == {{}} \cup IF fails < MaxFails THEN {{i} : i \in Id} ELSE {}
May(b)   == b => fails < MaxFails
Count(b) == fails' = IF b THEN fails + 1 ELSE fails

----------------------------------------------------------------------------
(***************************************************************************)
(* The database, changed by the API, and the Lua programs.                 *)
(***************************************************************************)
Change == changes < MaxChanges /\ changes' = changes + 1
Fresh  == changes + 2
Same   == synced' = FALSE /\ UNCHANGED <<data, updates, lock, cnt, grp, sg, main, fails, ended>>

\* The API refuses two policies of a group with one module in common.
InstallModule(i) ==
  /\ Change /\ rows[i] = NoRow /\ \A j \in Id : SocketOf[j] = SocketOf[i] => rows[j] = NoRow
  /\ rows' = [rows EXCEPT ![i] = [v |-> Fresh, c |-> Fresh]]
  /\ UNCHANGED groupRows /\ Same

ChangeModule(i) ==
  /\ Change /\ rows[i] # NoRow
  /\ \E r \in {NoRow, [v |-> Fresh, c |-> Fresh], [v |-> rows[i].v, c |-> Fresh]} :
       rows' = [rows EXCEPT ![i] = r]
  /\ UNCHANGED groupRows /\ Same

ChangeGroup(g) ==
  /\ Change
  /\ \/ groupRows[g] = "no"  /\ groupRows' = [groupRows EXCEPT ![g] = "yes"]
     \/ groupRows[g] = "yes" /\ groupRows' = [groupRows EXCEPT ![g] = "deleted"]
  /\ UNCHANGED rows /\ Same

\* The Lua program of a module returns: its socket stays registered.
LuaEnds(i) ==
  /\ fails < MaxFails /\ states[i].status = "RUNNING"
  /\ states' = [states EXCEPT ![i].status = "STOPPED"]
  /\ lost' = lost \cup {i} /\ ended' = TRUE /\ fails' = fails + 1
  /\ UNCHANGED <<db, modules, sockets, updates, lock, cnt, grp, sg, main, synced>>

----------------------------------------------------------------------------
(***************************************************************************)
(* updaterModules: doSync on a timer, in one critical section with the     *)
(* notifications of each check before the next check.                      *)
(***************************************************************************)
Sync(pc, config, ok) == cnt' = [pc |-> pc, config |-> config, ok |-> ok]
NoConfig == [i \in Id |-> NoRow]

doSync ==
  /\ cnt.pc \in {"first", "idle"} /\ Free
  /\ \E bad \in Bad, loaded \in BOOLEAN :
       LET want == Changed(World, Config)
           r == IF loaded THEN checkUpdateModules(World, Config, bad) ELSE [x |-> World, told |-> {}]
       IN /\ bad \subseteq IF loaded THEN want ELSE {}
          /\ ~loaded => want # {}
          /\ May(~loaded) /\ Count(~loaded \/ bad # {})
          /\ Becomes(r.x) /\ Hold("sync", notifyModules(r.told))
          /\ Sync("stop", Config, loaded /\ bad = {})
  /\ synced' = FALSE /\ UNCHANGED <<db, updates, grp, sg, main, ended>>

\* config.load has failed.
doSyncFails ==
  /\ cnt.pc \in {"first", "idle"} /\ Free /\ fails < MaxFails
  /\ Count(TRUE) /\ Sync("idle", NoConfig, FALSE)
  /\ UNCHANGED <<synced, db, data, updates, lock, grp, sg, main, ended>>

SyncStops ==
  /\ cnt.pc = "stop" /\ Holds("sync")
  /\ LET r == checkStopModules(World, cnt.config)
     IN Becomes(r.x) /\ Hold("sync", notifyModules(r.told))
  /\ Sync("start", cnt.config, cnt.ok)
  /\ UNCHANGED <<db, updates, grp, sg, main, fails, ended, synced>>

SyncStarts ==
  /\ cnt.pc = "start" /\ Holds("sync")
  /\ \E bad \in Bad, loaded \in BOOLEAN :
       LET want == Unlisted(World, cnt.config)
           r == IF loaded THEN checkStartModules(World, cnt.config, bad) ELSE [x |-> World, told |-> {}]
       IN /\ bad \subseteq IF loaded THEN {i \in want : states[i] = NoState} ELSE {}
          /\ ~loaded => want # {}
          /\ May(~loaded) /\ Count(~loaded \/ bad # {})
          /\ Becomes(r.x) /\ Hold("sync", notifyModules(r.told))
          /\ Sync("unlock", cnt.config, cnt.ok /\ loaded /\ bad = {})
  /\ UNCHANGED <<db, updates, grp, sg, main, ended, synced>>

SyncEnds ==
  /\ cnt.pc = "unlock" /\ Holds("sync") /\ Release /\ Sync("idle", NoConfig, FALSE)
  /\ synced' = (cnt.ok /\ cnt.config = Config)
  /\ UNCHANGED <<db, data, updates, grp, sg, main, fails, ended>>

----------------------------------------------------------------------------
(***************************************************************************)
(* controlGroupState(g), and controlSharedState as that of Shared.         *)
(***************************************************************************)
At(g, pc)    == grp[g].pc = pc
Goes(g, pc)  == grp' = [grp EXCEPT ![g].pc = pc]

\* The goroutine takes a notification in its loop, and does nothing with it.
Notified(n) ==
  /\ n \in lock.todo /\ At(n[2], "loop")
  /\ lock' = [lock EXCEPT !.todo = @ \ {n}]
  /\ UNCHANGED <<db, data, updates, cnt, grp, sg, main, fails, ended, synced>>

StartModulesForGroup(g) ==
  /\ At(g, "start") /\ Free
  /\ \E bad \in Bad :
       /\ bad \subseteq {i \in Id : GroupOf[i] = g /\ Listed(World, i) /\ states[i] = NoState}
       /\ Becomes(startGroup(World, g, bad)) /\ Count(bad # {})
  /\ Hold(g, notifyModules({g})) /\ Goes(g, "starting")
  /\ synced' = FALSE /\ UNCHANGED <<db, updates, cnt, sg, main, ended>>

Started(g) ==
  /\ At(g, "starting") /\ Holds(g) /\ Release /\ Goes(g, "set")
  /\ UNCHANGED <<db, data, updates, cnt, sg, main, fails, ended, synced>>

SetUpdateChan(g) ==
  /\ At(g, "set") /\ Free /\ updates' = updates \cup {g} /\ Goes(g, "sync")
  /\ UNCHANGED <<db, data, lock, cnt, sg, main, fails, ended, synced>>

\* syncRun: Start has a goroutine waiting for it, syncGroups waits itself.
SyncRun(g) ==
  /\ At(g, "sync") /\ Goes(g, "loop")
  /\ sg' = IF sg.pc = "wait" THEN [sg EXCEPT !.pc = "start"] ELSE sg
  /\ UNCHANGED <<db, data, updates, lock, cnt, main, fails, ended, synced>>

\* Mutant: the goroutine goes with its channel in the controller's list.
UnsetForgotten(g) ==
  /\ At(g, "unset") /\ Free /\ Goes(g, "stop")
  /\ UNCHANGED <<db, data, updates, lock, cnt, sg, main, fails, ended, synced>>

UnsetUpdateChan(g) ==
  /\ At(g, "unset") /\ Free /\ updates' = updates \ {g} /\ Goes(g, "stop")
  /\ UNCHANGED <<db, data, lock, cnt, sg, main, fails, ended, synced>>

StopModulesForGroup(g) ==
  /\ At(g, "stop") /\ Free
  /\ Becomes(stopGroups(World, {g}))
  /\ IF grp[g].shutdown THEN UNCHANGED lock /\ Goes(g, "del")
     ELSE Hold(g, notifyModules({g})) /\ Goes(g, "stopping")
  /\ UNCHANGED <<db, updates, cnt, sg, main, fails, ended, synced>>

Stopped(g) ==
  /\ At(g, "stopping") /\ Holds(g) /\ Release /\ Goes(g, "del")
  /\ UNCHANGED <<db, data, updates, cnt, sg, main, fails, ended, synced>>

\* groups.del, and done, which whoever has sent quit is waiting for.
Done(g) ==
  /\ At(g, "del") /\ grp' = [grp EXCEPT ![g] = [pc |-> "none", shutdown |-> FALSE]]
  /\ \/ sg.pc = "done"   /\ sg' = [sg EXCEPT !.pc = "stop"] /\ UNCHANGED main
     \/ main = "done"    /\ main' = "groups" /\ UNCHANGED sg
  /\ UNCHANGED <<db, data, updates, lock, cnt, fails, ended, synced>>

----------------------------------------------------------------------------
(***************************************************************************)
(* syncGroups.  A failing query gives an empty list; "" is in no list.     *)
(***************************************************************************)
Live == {g \in All : ~At(g, "none")}
getGroupsList(ok) == IF ok THEN {g \in Group : groupRows[g] = "yes"} ELSE {}
Quit(g, shutdown) == grp' = [grp EXCEPT ![g] = [pc |-> "unset", shutdown |-> shutdown]]

syncGroups ==
  /\ sg.pc \in {"first", "sleep"}
  /\ \E ok \in BOOLEAN :
       /\ May(~ok) /\ Count(~ok)
       /\ sg' = [pc |-> "stop", stops |-> Live \ getGroupsList(ok), starts |-> getGroupsList(ok) \ Live]
  /\ UNCHANGED <<db, data, updates, lock, cnt, grp, main, ended, synced>>

stopGroupState(g) ==
  /\ sg.pc = "stop" /\ g \in sg.stops /\ At(g, "loop")
  /\ Quit(g, FALSE) /\ sg' = [sg EXCEPT !.pc = "done", !.stops = @ \ {g}]
  /\ UNCHANGED <<db, data, updates, lock, cnt, main, fails, ended, synced>>

startGroupState(g) ==
  /\ sg.pc \in {"stop", "start"} /\ sg.stops = {} /\ g \in sg.starts
  /\ Goes(g, "start") /\ sg' = [sg EXCEPT !.pc = "wait", !.starts = @ \ {g}]
  /\ UNCHANGED <<db, data, updates, lock, cnt, main, fails, ended, synced>>

GroupsSynced ==
  /\ sg.pc \in {"stop", "start"} /\ sg.stops = {} /\ sg.starts = {}
  /\ sg' = [sg EXCEPT !.pc = "sleep"]
  /\ UNCHANGED <<db, data, updates, lock, cnt, grp, main, fails, ended, synced>>

----------------------------------------------------------------------------
(***************************************************************************)
(* Start and Stop of the main module.                                      *)
(***************************************************************************)
StartMain ==
  /\ main = "new" /\ main' = "boot"
  /\ \E ok \in BOOLEAN :
       /\ May(~ok) /\ Count(~ok)
       /\ grp' = [g \in All |-> [grp[g] EXCEPT !.pc = IF g \in {Shared} \cup getGroupsList(ok) THEN "start" ELSE @]]
  /\ UNCHANGED <<db, data, updates, lock, cnt, sg, ended, synced>>

\* wgRun.Wait, then the goroutine of syncGroups.
Booted ==
  /\ main = "boot" /\ \A g \in Live : At(g, "loop")
  /\ main' = "up" /\ sg' = [sg EXCEPT !.pc = "first"]
  /\ UNCHANGED <<db, data, updates, lock, cnt, grp, fails, ended, synced>>

StopMain ==
  /\ main = "up" /\ main' = "quit"
  /\ UNCHANGED <<db, data, updates, lock, cnt, grp, sg, fails, ended, synced>>

handlerStopMainModule ==
  \/ /\ main = "quit" /\ sg.pc = "sleep"
     /\ sg' = [sg EXCEPT !.pc = "gone"] /\ main' = "groups"
     /\ UNCHANGED <<db, data, updates, lock, cnt, grp, fails, ended, synced>>
  \/ /\ main = "groups"
     /\ \E g \in All : At(g, "loop") /\ Quit(g, TRUE)
     /\ main' = "done"
     /\ UNCHANGED <<db, data, updates, lock, cnt, sg, fails, ended, synced>>

\* Close of the controller: the updater goes when its sync is over.
Close ==
  \/ /\ main = "groups" /\ Live = {} /\ cnt.pc = "idle"
     /\ Sync("gone", NoConfig, FALSE) /\ main' = "close"
     /\ UNCHANGED <<db, data, updates, lock, grp, sg, fails, ended, synced>>
  \/ /\ main = "close" /\ Free
     /\ Becomes(stopGroups(World, All)) /\ main' = "closed"
     /\ UNCHANGED <<db, updates, lock, cnt, grp, sg, fails, ended, synced>>

----------------------------------------------------------------------------
\* Load lists the modules of the database, before any is started.
Load ==
  LET first == {i \in FirstRows : GroupOf[i] \in FirstGroups \cup {Shared}}
  IN ForEach(LAMBDA list, i : IF i \in first THEN Append(list, [id |-> i, v |-> 1, c |-> 1]) ELSE list,
             <<>>, Order)

Init ==
  /\ rows = [i \in Id |-> IF i \in FirstRows THEN [v |-> 1, c |-> 1] ELSE NoRow]
  /\ groupRows = [g \in Group |-> IF g \in FirstGroups THEN "yes" ELSE "no"]
  /\ modules = Load /\ states = [i \in Id |-> NoState] /\ sockets = {} /\ updates = {}
  /\ lock = [who |-> "nobody", todo |-> {}]
  /\ cnt = [pc |-> "first", config |-> NoConfig, ok |-> FALSE]
  /\ grp = [g \in All |-> [pc |-> "none", shutdown |-> FALSE]]
  /\ sg = [pc |-> "off", stops |-> {}, starts |-> {}]
  /\ main = "new" /\ lost = {} /\ synced = FALSE /\ changes = 0 /\ fails = 0 /\ ended = FALSE

Environment ==
  \/ \E i \in Id : InstallModule(i) \/ ChangeModule(i) \/ LuaEnds(i)
  \/ \E g \in Group : ChangeGroup(g)
  \/ StopMain

\* Steps that take the mutex, and steps that do not.
Takes(g) == StartModulesForGroup(g) \/ SetUpdateChan(g) \/ UnsetUpdateChan(g) \/ StopModulesForGroup(g)
GoesOn(g) == Started(g) \/ SyncRun(g) \/ Stopped(g) \/ Done(g) \/ stopGroupState(g) \/ startGroupState(g)
Receivers == \E n \in lock.todo : Notified(n)
Updater == SyncStops \/ SyncStarts \/ SyncEnds
Mains   == StartMain \/ Booted \/ syncGroups \/ GroupsSynced \/ handlerStopMainModule \/ Close

Next ==
  \/ Environment \/ doSync \/ doSyncFails \/ Updater \/ Mains
  \/ Receivers
  \/ \E g \in All : Takes(g) \/ GoesOn(g)
  \/ main = "closed" /\ UNCHANGED vars

Spec == Init /\ [][Next]_vars

----------------------------------------------------------------------------
TypeOK ==
  /\ rows \in [Id -> [v : Stamp, c : Stamp]] /\ groupRows \in [Group -> {"no", "yes", "deleted"}]
  /\ modules \in Seq([id : Id, v : Stamp, c : Stamp])
  /\ states \in [Id -> [status : {"none", "LOADED", "RUNNING", "STOPPED"}, v : Stamp, c : Stamp]]
  /\ sockets \subseteq Id /\ updates \subseteq All /\ lost \subseteq Id /\ synced \in BOOLEAN /\ ended \in BOOLEAN
  /\ lock.who \in {"nobody", "sync"} \cup All /\ lock.todo \subseteq All \X All
  /\ cnt.pc \in {"first", "idle", "stop", "start", "unlock", "gone"}
  /\ \A g \in All : grp[g].pc \in {"none", "start", "starting", "set", "sync", "loop", "unset", "stop", "stopping", "del"}
  /\ sg.pc \in {"off", "first", "stop", "done", "start", "wait", "sleep", "gone"}
  /\ main \in {"new", "boot", "up", "quit", "groups", "done", "close", "closed"}

\* A module that runs is in the controller's list, once, with the version and
\* the configuration it runs with: nothing else could ever update or stop it.
RunningListed ==
  \A i \in Id : states[i].status = "RUNNING" =>
     \E k \in DOMAIN modules : /\ modules[k] = Item(i, states[i])
                               /\ \A j \in DOMAIN modules : modules[j].id = i => j = k

\* The hub has the sockets of the modules that run or have ended, no others.
SocketsOwned == sockets = {i \in Id : states[i].status \in {"RUNNING", "STOPPED"}}

\* When Stop is over nothing runs, unless a program had ended by itself: then
\* StopAllModules gives up at it.
NothingLeft == main = "closed" /\ ~ended => sockets = {}

ModulesSound == TypeOK /\ RunningListed /\ SocketsOwned /\ NothingLeft

Runs(i) == states[i] = [status |-> "RUNNING", v |-> rows[i].v, c |-> rows[i].c]

\* After a sync the modules of the database run, in its versions and with its
\* configurations, and no others, however changes, groups that come and go,
\* failing queries and bad files have crossed before (doSync, syncGroups).
\* Excepted: what the code gives up (lost), and modules of groups that are
\* not under control, the shared ones after syncGroups has stopped them.
SyncedIsRun ==
  synced /\ main = "up" => \A i \in Id \ lost :
     IF Config[i] = NoRow THEN states[i].status # "RUNNING"
     ELSE At(GroupOf[i], "loop") => Runs(i)

\* The notifier waits, with the mutex, for a goroutine that waits for the mutex.
Stuck == \E n \in lock.todo : At(n[2], "unset")

\* Nobody waits for ever, except in that deadlock: a notification always finds
\* a goroutine that will take it, done one that has been told to quit.
NobodyWaits ==
  /\ \A n \in lock.todo : n[2] \in updates /\ (Stuck \/ grp[n[2]].pc \in {"sync", "loop"})
  /\ sg.pc = "wait" => \E g \in Group : grp[g].pc \in {"start", "starting", "set", "sync"}
  /\ sg.pc = "stop" => \A g \in sg.stops : At(g, "loop")
  /\ sg.pc = "done" \/ main = "done" =>
       \E g \in All : grp[g].pc \in {"unset", "stop", "stopping", "del"}
=============================================================================
