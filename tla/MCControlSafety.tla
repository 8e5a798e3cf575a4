-------------------------- MODULE MCControlSafety --------------------------
(***************************************************************************)
(* The control of agents and that of modules and groups, side by side for  *)
(* TLC.  One of them runs in a behaviour, chosen at the start; the other   *)
(* stays as it begins, where its properties hold.                          *)
(***************************************************************************)
EXTENDS MCAgentControl

CONSTANTS
  Order, Group, Shared, GroupOf, SocketOf, FirstRows, FirstGroups,
  MaxChanges, MaxModuleFails                              \* of ModuleControl

VARIABLES
  part,                                                   \* the one that runs
  moduleRows, groupRows, modules, states, sockets, notified, lock, updater, grp, sg,
  mainModule, lost, synced, ended, changes, failures      \* of ModuleControl

Mod == INSTANCE ModuleControl WITH MaxFails <- MaxModuleFails,
    rows <- moduleRows, updates <- notified, cnt <- updater, main <- mainModule, fails <- failures

\* A group with three modules, two of them with one socket, as they are one
\* module in two policies, and a shared module.
MCOrder    == <<"a", "s", "b", "c">>
MCGroupOf  == "a" :> "g" @@ "b" :> "g" @@ "c" :> "g" @@ "s" :> "shared"
MCSocketOf == "a" :> 1 @@ "b" :> 2 @@ "c" :> 1 @@ "s" :> 3

ASSUME ModuleAssumption == Mod!ParametersOK

modVars == <<moduleRows, groupRows, modules, states, sockets, notified, lock, updater, grp, sg,
             mainModule, lost, synced, ended, changes, failures>>

\* What the agents begin with matters only where they run.
PartsInit ==
  /\ part \in {"agents", "modules"} /\ Init /\ Mod!Init
  /\ part = "modules" => \A a \in Agent : ~db[a] /\ age[a] = 0

PartsNext ==
  \/ part = "agents"  /\ Next     /\ UNCHANGED <<part, modVars>>
  \/ part = "modules" /\ Mod!Next /\ UNCHANGED <<part, vars>>

PartsSpec == PartsInit /\ [][PartsNext]_<<part, vars, modVars>>

----------------------------------------------------------------------------
\* A module that runs is in the controller's list as it runs, the hub has the
\* sockets of these modules only, and Stop leaves none (sController, sLoader).
ModulesSound == part = "modules" => Mod!ModulesSound

\* After a sync the modules of the database run, as it has them, and no others
\* (doSync, syncGroups, controlGroupState).
SyncedIsRun == part = "modules" => Mod!SyncedIsRun

\* The controller's notifications, syncGroups and Stop wait only for goroutines
\* that come, except in one deadlock of notifier and goroutine.
NobodyWaits == part = "modules" => Mod!NobodyWaits
=============================================================================
