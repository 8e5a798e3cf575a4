---------------------------- MODULE AgentControl ----------------------------
(***************************************************************************)
(* The life of an agent in the server's main module                        *)
(* (pkg/app/server/mmodule/mmodule.go): the receiver loop that starts and  *)
(* stops one control goroutine per connection, the goroutines those spawn  *)
(* to synchronise the agent's modules, the syncAgents loop that compares   *)
(* the connections with the database, and Stop.  All of them meet on       *)
(* unbuffered channels (quit, done, update, syncRun, quitSyncAgents) and   *)
(* on four mutexes: mxdone of a connection, the list's mutex (its critical *)
(* sections are single steps here), vxProto.mutex and the controller's     *)
(* mutex.                                                                  *)
(*                                                                         *)
(* A Link is one agentInfo, the object made for one "connected" message,   *)
(* so a MoveAgent is a link that goes down and another that comes up.      *)
(* Links of one agent share the key dst of agentList.  The hub below is    *)
(* what VXProto promises to the main module (MainAlternates there): the    *)
(* messages about one agent alternate, in order.                           *)
(***************************************************************************)
EXTENDS Naturals, Sequences, SequencesExt

CONSTANTS
  Link, Agent, None,
  AgentOf,     \* the agent each link belongs to
  Revocable,   \* agents whose authorisation may be withdrawn in the database
  QueueSize,   \* capacity of the main module's receiver channel
  LostRounds,  \* lostAgentDeltaTime in rounds of syncAgentsInterval
  MaxUpdates,  \* bound on the module updates the controller finds
  MaxExch,     \* waiting synchronisations of one link beyond which more are not told apart
  MaxFails,    \* bound on failing database statements
  StaleRows    \* whether a crash left agents "connected" in the database

ASSUME ConstAssumption ==
  /\ AgentOf \in [Link -> Agent] /\ None \notin Link \cup Agent
  /\ Revocable \subseteq Agent
  /\ QueueSize \in Nat \ {0} /\ LostRounds \in Nat \ {0}
  /\ MaxExch \in Nat \ {0} /\ MaxUpdates \in Nat /\ MaxFails \in Nat /\ StaleRows \in BOOLEAN

VARIABLES
  conn,    \* Link -> its connection in the hub
  vx,      \* the notification whose sender holds vxProto.mutex, if any
  inbox,   \* the main module's receiver channel
  stop,    \* where MainModule.Stop stands
  main,    \* the receiver loop (recvPacket) and, after it, the rest of Stop
  list,    \* agentList: Agent -> Link or None
  isfin,   \* links with agentInfo.isfin
  mx,      \* Link -> who holds mxdone
  ctl,     \* Link -> its controlAgent goroutine
  exch,    \* Link -> the goroutine of runSyncAgentModules that holds mxSync
  queued,  \* Link -> how many more of them wait for mxSync
  sync,    \* the syncAgents goroutine
  cnt,     \* the controller's updater goroutine; it holds the mutex off "idle"
  subs,    \* sController.updates: the links notified, in order
  db,      \* Agent -> whether its row says "connected"
  age,     \* Agent -> rounds since connected_date was written, to LostRounds
  revoked, \* agents whose row is not "authorized"
  fails, updates  \* failed statements and updates so far

hub == <<conn, vx, inbox, stop>>
locals == <<list, isfin, mx>>
exchs == <<exch, queued>>
cntl == <<cnt, subs, updates>>
rows == <<db, age, revoked, fails>>
vars == <<hub, main, locals, ctl, exchs, sync, cntl, rows>>

Free == [kind |-> "none", link |-> None, by |-> None]
StopMsg == [kind |-> "stop", link |-> None]

\* The types of the variables, and the capacity of the receiver channel.
HubOK ==
  /\ conn \in [Link -> {"new", "valid", "up", "down", "refused"}]
  /\ vx \in [kind : {"connected", "disconnected"}, link : Link, by : Link \cup {None, "sync"}]
            \cup {Free}
  /\ inbox \in Seq([kind : {"connected", "disconnected"}, link : Link] \cup {StopMsg})
  /\ Len(inbox) <= QueueSize
  /\ stop \in {"no", "asked", "sent"}

MainOK ==
  main \in [pc : {"idle", "starting", "lock", "quit", "done", "stopSync", "dump",
                  "stop", "stopped", "closed", "deleted"},
            link : Link \cup {None}, todo : SUBSET Link, then : {"idle", "stop"}]

LocalsOK ==
  /\ list \in [Agent -> Link \cup {None}] /\ isfin \subseteq Link
  /\ mx \in [Link -> {"free", "main", "exch", "sync"}]

CtlOK ==
  ctl \in [Link -> {"none", "start", "connect", "ready", "loop", "unset",
                    "disconnect", "del", "done", "gone"}]

ExchsOK ==
  /\ exch \in [Link -> {"idle", "run", "drop", "dropped", "quit", "done"}]
  /\ queued \in [Link -> 0..MaxExch]

SyncOK ==
  sync \in [pc : {"boot", "dump", "alive", "lost", "read", "scan", "kick", "drop",
                  "sleep", "end"},
            seen : SUBSET Link, todo : SUBSET Link, link : Link \cup {None},
            bad : SUBSET Agent, drops : SUBSET Agent]

CntlOK ==
  /\ cnt \in [pc : {"idle", "start", "notify", "quit"}, todo : Seq(Link)]
  /\ subs \in Seq(Link) /\ updates \in 0..MaxUpdates

RowsOK ==
  /\ db \in [Agent -> BOOLEAN] /\ age \in [Agent -> 0..LostRounds]
  /\ revoked \subseteq Revocable /\ fails \in 0..MaxFails

TypeOK == HubOK /\ MainOK /\ LocalsOK /\ CtlOK /\ ExchsOK /\ SyncOK /\ CntlOK /\ RowsOK

Init ==
  /\ conn = [l \in Link |-> "new"] /\ vx = Free /\ inbox = <<>> /\ stop = "no"
  /\ main = [pc |-> "idle", link |-> None, todo |-> {}, then |-> "idle"]
  /\ list = [a \in Agent |-> None] /\ isfin = {} /\ mx = [l \in Link |-> "free"]
  /\ ctl = [l \in Link |-> "none"]
  /\ exch = [l \in Link |-> "idle"] /\ queued = [l \in Link |-> 0]
  /\ sync = [pc |-> "boot", seen |-> {}, todo |-> {}, link |-> None, bad |-> {}, drops |-> {}]
  /\ cnt = [pc |-> "idle", todo |-> <<>>] /\ subs = <<>> /\ updates = 0
  /\ db \in [Agent -> IF StaleRows THEN BOOLEAN ELSE {FALSE}]
  /\ age \in [Agent -> IF StaleRows THEN {0, LostRounds} ELSE {LostRounds}]
  /\ revoked = {} /\ fails = 0

Listed == {list[a] : a \in Agent} \ {None}

\* runSyncAgentModules: one more goroutine that waits for mxSync.
Spawn(l) == queued' = [queued EXCEPT ![l] = IF @ < MaxExch THEN @ + 1 ELSE @]

\* A database statement succeeds, or fails while the bound allows it.
Outcome(ok) == \/ ok /\ UNCHANGED fails
               \/ ~ok /\ fails < MaxFails /\ fails' = fails + 1

------------------------------------------------------------------------------
(* The hub: vxproto's tables, seen from the main module *)

\* The notification that a critical section of vxProto.mutex ends with.
Notice(kind, l, by) ==
  IF main.pc = "deleted" THEN Free ELSE [kind |-> kind, link |-> l, by |-> by]

\* HasAgentInfoValid lets the agent in; its checks may be stale by Register.
Validate(l) ==
  /\ conn[l] = "new" /\ stop = "no"
  /\ AgentOf[l] \notin revoked /\ list[AgentOf[l]] = None
  /\ conn' = [conn EXCEPT ![l] = "valid"]
  /\ UNCHANGED <<vx, inbox, stop, main, locals, ctl, exchs, sync, cntl, rows>>

Up(a) == {l \in Link : AgentOf[l] = a /\ conn[l] = "up"}

\* The tables go by the token of a connection.  An agent sends the token it was
\* given before, so that its links share one; an agent that comes without a token
\* while its old link is still up gets a new one and would be let in beside it.
\* That case is left out.
Register(l) ==
  /\ conn[l] = "valid" /\ vx = Free
  /\ IF Up(AgentOf[l]) = {}
       THEN /\ conn' = [conn EXCEPT ![l] = "up"]
            /\ vx' = Notice("connected", l, None)
       ELSE /\ conn' = [conn EXCEPT ![l] = "refused"]
            /\ UNCHANGED vx
  /\ UNCHANGED <<inbox, stop, main, locals, ctl, exchs, sync, cntl, rows>>

\* The links of agent a are closed and deleted on behalf of "by".
DropAgent(a, by) ==
  /\ vx = Free
  /\ IF Up(a) = {}
       THEN UNCHANGED <<conn, vx>>
       ELSE \E l \in Up(a) : /\ conn' = [conn EXCEPT ![l] = "down"]
                             /\ vx' = Notice("disconnected", l, by)

\* The connection handler ends.
Disconnect(l) ==
  /\ conn[l] = "up" /\ DropAgent(AgentOf[l], None)
  /\ UNCHANGED <<inbox, stop, main, locals, ctl, exchs, sync, cntl, rows>>

\* Mutant: the notification does not wait for room.
PostNoWait ==
  /\ vx # Free
  /\ inbox' = Append(inbox, [kind |-> vx.kind, link |-> vx.link])
  /\ vx' = Free
  /\ UNCHANGED <<conn, stop, main, locals, ctl, exchs, sync, cntl, rows>>

\* "receiver <- packet" under the mutex: it waits for room in the channel.
Post ==
  /\ vx # Free /\ Len(inbox) < QueueSize
  /\ inbox' = Append(inbox, [kind |-> vx.kind, link |-> vx.link])
  /\ vx' = Free
  /\ UNCHANGED <<conn, stop, main, locals, ctl, exchs, sync, cntl, rows>>

------------------------------------------------------------------------------
(* The main module's receiver loop *)

Goto(pc, l) == [main EXCEPT !.pc = pc, !.link = l]
Resume == Goto(main.then, None)

\* Mutant: handlerAgentConnected returns without "<-agentControlSync".
MainConnectedNoWait ==
  /\ main.pc = "idle" /\ inbox # <<>> /\ Head(inbox).kind = "connected"
  /\ LET l == Head(inbox).link IN
       /\ list' = [list EXCEPT ![AgentOf[l]] = l]
       /\ ctl' = [ctl EXCEPT ![l] = "start"]
  /\ inbox' = Tail(inbox)
  /\ UNCHANGED <<conn, vx, stop, main, isfin, mx, exchs, sync, cntl, rows>>

\* handlerAgentConnected, up to "<-agentControlSync".
MainConnected ==
  /\ main.pc = "idle" /\ inbox # <<>> /\ Head(inbox).kind = "connected"
  /\ LET l == Head(inbox).link IN
       /\ list' = [list EXCEPT ![AgentOf[l]] = l]
       /\ ctl' = [ctl EXCEPT ![l] = "start"]
       /\ main' = Goto("starting", l)
  /\ inbox' = Tail(inbox)
  /\ UNCHANGED <<conn, vx, stop, isfin, mx, exchs, sync, cntl, rows>>

\* The control goroutine sends on syncRun and enters its loop.
MainStarted ==
  /\ main.pc = "starting" /\ ctl[main.link] = "ready"
  /\ ctl' = [ctl EXCEPT ![main.link] = "loop"]
  /\ Spawn(main.link)
  /\ main' = Resume
  /\ UNCHANGED <<hub, locals, exch, sync, cntl, rows>>

\* handlerAgentDisconnected: the link found is the one listed under dst.
MainDisconnected ==
  /\ main.pc = "idle" /\ inbox # <<>> /\ Head(inbox).kind = "disconnected"
  /\ LET l == list[AgentOf[Head(inbox).link]] IN
       main' = IF l = None THEN main ELSE Goto("lock", l)
  /\ inbox' = Tail(inbox)
  /\ UNCHANGED <<conn, vx, stop, locals, ctl, exchs, sync, cntl, rows>>

\* mxdone.Lock and the test of isfin, for a disconnect or for Stop.
MainLock ==
  /\ main.pc = "lock" /\ mx[main.link] = "free"
  /\ IF main.link \in isfin
       THEN main' = Resume /\ UNCHANGED mx
       ELSE main' = Goto("quit", main.link) /\ mx' = [mx EXCEPT ![main.link] = "main"]
  /\ UNCHANGED <<hub, list, isfin, ctl, exchs, sync, cntl, rows>>

\* Mutant: the handler does not wait for "<-ainfo.done".
MainQuitNoWait ==
  /\ main.pc = "quit" /\ ctl[main.link] = "loop"
  /\ ctl' = [ctl EXCEPT ![main.link] = "unset"]
  /\ mx' = [mx EXCEPT ![main.link] = "free"]
  /\ main' = Resume
  /\ UNCHANGED <<hub, list, isfin, exchs, sync, cntl, rows>>

MainQuit ==
  /\ main.pc = "quit" /\ ctl[main.link] = "loop"
  /\ ctl' = [ctl EXCEPT ![main.link] = "unset"]
  /\ main' = Goto("done", main.link)
  /\ UNCHANGED <<hub, locals, exchs, sync, cntl, rows>>

\* Mutant: mxdone is not unlocked.
MainDoneKeepsLock ==
  /\ main.pc = "done" /\ ctl[main.link] = "done"
  /\ ctl' = [ctl EXCEPT ![main.link] = "gone"]
  /\ main' = Resume
  /\ UNCHANGED <<hub, locals, exchs, sync, cntl, rows>>

MainDone ==
  /\ main.pc = "done" /\ ctl[main.link] = "done"
  /\ ctl' = [ctl EXCEPT ![main.link] = "gone"]
  /\ mx' = [mx EXCEPT ![main.link] = "free"]
  /\ main' = Resume
  /\ UNCHANGED <<hub, list, isfin, exchs, sync, cntl, rows>>

------------------------------------------------------------------------------
(* MainModule.Stop and handlerStopMainModule *)

StopAsk ==
  /\ stop = "no" /\ stop' = "asked"
  /\ UNCHANGED <<conn, vx, inbox, main, locals, ctl, exchs, sync, cntl, rows>>

StopSend ==
  /\ stop = "asked" /\ Len(inbox) < QueueSize
  /\ inbox' = Append(inbox, StopMsg) /\ stop' = "sent"
  /\ UNCHANGED <<conn, vx, main, locals, ctl, exchs, sync, cntl, rows>>

MainStop ==
  /\ main.pc = "idle" /\ inbox # <<>> /\ Head(inbox) = StopMsg
  /\ inbox' = Tail(inbox)
  /\ main' = [main EXCEPT !.pc = "stopSync", !.then = "stop"]
  /\ UNCHANGED <<conn, vx, stop, locals, ctl, exchs, sync, cntl, rows>>

\* "quitSyncAgents <-" meets the select of syncAgents.
StopSyncAgents ==
  /\ main.pc = "stopSync" /\ sync.pc = "sleep"
  /\ sync' = [sync EXCEPT !.pc = "end"]
  /\ main' = Goto("dump", None)
  /\ UNCHANGED <<hub, locals, ctl, exchs, cntl, rows>>

StopDump ==
  /\ main.pc = "dump"
  /\ main' = [main EXCEPT !.pc = "stop", !.todo = Listed]
  /\ UNCHANGED <<hub, locals, ctl, exchs, sync, cntl, rows>>

StopNext(l) ==
  /\ main.pc = "stop" /\ l \in main.todo
  /\ main' = [main EXCEPT !.pc = "lock", !.link = l, !.todo = @ \ {l}]
  /\ UNCHANGED <<hub, locals, ctl, exchs, sync, cntl, rows>>

\* wgControl.Wait and wgExchAgent.Wait.
StopWait ==
  /\ main.pc = "stop" /\ main.todo = {}
  /\ \A l \in Link : ctl[l] \in {"none", "gone"} /\ exch[l] = "idle" /\ queued[l] = 0
  /\ main' = Goto("stopped", None)
  /\ UNCHANGED <<hub, locals, ctl, exchs, sync, cntl, rows>>

\* controller.Close, then DelModule of the main module's socket.
StopController ==
  /\ main.pc = "stopped" /\ cnt.pc = "idle"
  /\ cnt' = [cnt EXCEPT !.pc = "quit"]
  /\ main' = Goto("closed", None)
  /\ UNCHANGED <<hub, locals, ctl, exchs, sync, subs, updates, rows>>

StopDelModule ==
  /\ main.pc = "closed" /\ vx = Free
  /\ main' = Goto("deleted", None)
  /\ UNCHANGED <<hub, locals, ctl, exchs, sync, cntl, rows>>

------------------------------------------------------------------------------
(* controlAgent and its deferred calls, last in first out *)

CntFree == cnt.pc \in {"idle", "quit"}

\* Goroutine l goes from one point to the next.
Moves(l, from, to) == ctl[l] = from /\ ctl' = [ctl EXCEPT ![l] = to]

CtlSetUpdateChan(l) ==
  /\ Moves(l, "start", "connect") /\ CntFree
  /\ subs' = Append(subs, l)
  /\ UNCHANGED <<hub, main, locals, exchs, sync, cnt, updates, rows>>

CtlConnection(l) ==
  /\ Moves(l, "connect", "ready")
  /\ \E ok \in BOOLEAN :
       /\ Outcome(ok)
       /\ IF ok THEN /\ db' = [db EXCEPT ![AgentOf[l]] = TRUE]
                     /\ age' = [age EXCEPT ![AgentOf[l]] = 0]
                ELSE UNCHANGED <<db, age>>
  /\ UNCHANGED <<hub, main, locals, exchs, sync, cntl, revoked>>

CtlUnsetUpdateChan(l) ==
  /\ Moves(l, "unset", "disconnect") /\ CntFree
  /\ subs' = RemoveFirst(subs, l)
  /\ UNCHANGED <<hub, main, locals, exchs, sync, cnt, updates, rows>>

CtlDisconnection(l) ==
  /\ Moves(l, "disconnect", "del")
  /\ \E ok \in BOOLEAN :
       /\ Outcome(ok)
       /\ db' = [db EXCEPT ![AgentOf[l]] = @ /\ ~ok]
  /\ UNCHANGED <<hub, main, locals, exchs, sync, cntl, age, revoked>>

\* agents.del(dst) finishes and removes whatever is listed under dst.
CtlDel(l) ==
  /\ Moves(l, "del", "done")
  /\ isfin' = isfin \cup ({list[AgentOf[l]]} \ {None})
  /\ list' = [list EXCEPT ![AgentOf[l]] = None]
  /\ UNCHANGED <<hub, main, mx, exchs, sync, cntl, rows>>

------------------------------------------------------------------------------
(* The goroutines of runSyncAgentModules; commitError on a failure *)

ExchBegin(l) ==
  /\ exch[l] = "idle" /\ queued[l] > 0
  /\ exch' = [exch EXCEPT ![l] = "run"]
  /\ queued' = [queued EXCEPT ![l] = @ - 1]
  /\ UNCHANGED <<hub, main, locals, ctl, sync, cntl, rows>>

\* The requests are answered by whatever connection dst leads to, or fail.
ExchEnd(l) ==
  /\ exch[l] = "run"
  /\ \/ Up(AgentOf[l]) # {} /\ exch' = [exch EXCEPT ![l] = "idle"]
     \/ exch' = [exch EXCEPT ![l] = "drop"]
  /\ UNCHANGED <<hub, main, locals, ctl, queued, sync, cntl, rows>>

ExchDrop(l) ==
  /\ exch[l] = "drop" /\ DropAgent(AgentOf[l], l)
  /\ exch' = [exch EXCEPT ![l] = "dropped"]
  /\ UNCHANGED <<inbox, stop, main, locals, ctl, queued, sync, cntl, rows>>

ExchLock(l) ==
  /\ exch[l] = "dropped" /\ vx.by # l /\ mx[l] = "free"
  /\ IF l \in isfin
       THEN exch' = [exch EXCEPT ![l] = "idle"] /\ UNCHANGED mx
       ELSE exch' = [exch EXCEPT ![l] = "quit"] /\ mx' = [mx EXCEPT ![l] = "exch"]
  /\ UNCHANGED <<hub, main, list, isfin, ctl, queued, sync, cntl, rows>>

ExchQuit(l) ==
  /\ exch[l] = "quit" /\ Moves(l, "loop", "unset")
  /\ exch' = [exch EXCEPT ![l] = "done"]
  /\ UNCHANGED <<hub, main, locals, queued, sync, cntl, rows>>

ExchDone(l) ==
  /\ exch[l] = "done" /\ Moves(l, "done", "gone")
  /\ exch' = [exch EXCEPT ![l] = "idle"]
  /\ mx' = [mx EXCEPT ![l] = "free"]
  /\ UNCHANGED <<hub, main, list, isfin, queued, sync, cntl, rows>>

------------------------------------------------------------------------------
(* syncAgents *)

\* disconnectAllAgents
SyncBoot ==
  /\ sync.pc = "boot" /\ sync' = [sync EXCEPT !.pc = "dump"]
  /\ \E ok \in BOOLEAN : Outcome(ok) /\ db' = [a \in Agent |-> db[a] /\ ~ok]
  /\ UNCHANGED <<hub, main, locals, ctl, exchs, cntl, age, revoked>>

SyncDump ==
  /\ sync.pc = "dump"
  /\ sync' = [sync EXCEPT !.pc = "alive", !.seen = Listed, !.todo = Listed]
  /\ UNCHANGED <<hub, main, locals, ctl, exchs, cntl, rows>>

\* Mutant: a finished link is refreshed like the others.
SyncLockFinished(l) ==
  /\ sync.pc = "alive" /\ l \in sync.todo /\ mx[l] = "free"
  /\ sync' = [sync EXCEPT !.todo = @ \ {l}]
  /\ mx' = [mx EXCEPT ![l] = "sync"]
  /\ UNCHANGED <<hub, main, list, isfin, ctl, exchs, cntl, rows>>

\* syncAliveStatusAgents keeps mxdone of every unfinished link it saw ...
SyncLock(l) ==
  /\ sync.pc = "alive" /\ l \in sync.todo /\ mx[l] = "free"
  /\ sync' = [sync EXCEPT !.todo = @ \ {l}]
  /\ mx' = IF l \in isfin THEN mx ELSE [mx EXCEPT ![l] = "sync"]
  /\ UNCHANGED <<hub, main, list, isfin, ctl, exchs, cntl, rows>>

\* ... until it has written them as connected.
SyncAlive ==
  /\ sync.pc = "alive" /\ sync.todo = {}
  /\ sync' = [sync EXCEPT !.pc = "lost"]
  /\ mx' = [l \in Link |-> IF mx[l] = "sync" THEN "free" ELSE mx[l]]
  /\ LET alive == {AgentOf[l] : l \in {k \in Link : mx[k] = "sync"}} IN
       \E ok \in BOOLEAN :
         /\ alive = {} => ok
         /\ Outcome(ok)
         /\ db' = [a \in Agent |-> db[a] \/ (ok /\ a \in alive)]
         /\ age' = [a \in Agent |-> IF ok /\ a \in alive THEN 0 ELSE age[a]]
  /\ UNCHANGED <<hub, main, list, isfin, ctl, exchs, cntl, revoked>>

\* Mutant: lost agents are not looked for.
SyncLostSkipped ==
  /\ sync.pc = "lost" /\ sync' = [sync EXCEPT !.pc = "read"]
  /\ UNCHANGED <<hub, main, locals, ctl, exchs, cntl, rows>>

\* disconnectLostAgents
SyncLost ==
  /\ sync.pc = "lost" /\ sync' = [sync EXCEPT !.pc = "read"]
  /\ \E ok \in BOOLEAN :
       /\ Outcome(ok)
       /\ db' = [a \in Agent |-> db[a] /\ ~(ok /\ age[a] = LostRounds)]
  /\ UNCHANGED <<hub, main, locals, ctl, exchs, cntl, age, revoked>>

\* updateAgentsStatusWithDBInfo reads the rows once and scans the dump.
SyncRead ==
  /\ sync.pc = "read"
  /\ \E ok \in BOOLEAN :
       /\ Outcome(ok)
       /\ sync' = IF ok THEN [sync EXCEPT !.pc = "scan", !.todo = sync.seen, !.bad = revoked]
                        ELSE [sync EXCEPT !.pc = "sleep"]
  /\ UNCHANGED <<hub, main, locals, ctl, exchs, cntl, db, age, revoked>>

SyncScan(l) ==
  /\ sync.pc = "scan" /\ l \in sync.todo
  /\ sync' = IF l \in isfin \/ AgentOf[l] \notin sync.bad
               THEN [sync EXCEPT !.todo = @ \ {l}]
               ELSE [sync EXCEPT !.todo = @ \ {l}, !.pc = "kick", !.link = l]
  /\ UNCHANGED <<hub, main, locals, ctl, exchs, cntl, rows>>

\* "ainfo.update <-" meets the select of the control goroutine.
SyncKick ==
  /\ sync.pc = "kick" /\ ctl[sync.link] = "loop"
  /\ Spawn(sync.link)
  /\ sync' = [sync EXCEPT !.pc = "scan", !.link = None,
                          !.drops = @ \cup {AgentOf[sync.link]}]
  /\ UNCHANGED <<hub, main, locals, ctl, exch, cntl, rows>>

SyncScanned ==
  /\ sync.pc = "scan" /\ sync.todo = {} /\ sync' = [sync EXCEPT !.pc = "drop"]
  /\ UNCHANGED <<hub, main, locals, ctl, exchs, cntl, rows>>

SyncDrop(a) ==
  /\ sync.pc = "drop" /\ a \in sync.drops /\ DropAgent(a, "sync")
  /\ sync' = [sync EXCEPT !.drops = @ \ {a}]
  /\ UNCHANGED <<inbox, stop, main, locals, ctl, exchs, cntl, rows>>

SyncSleep ==
  /\ sync.pc = "drop" /\ sync.drops = {} /\ vx.by # "sync"
  /\ sync' = [sync EXCEPT !.pc = "sleep", !.seen = {}, !.bad = {}]
  /\ UNCHANGED <<hub, main, locals, ctl, exchs, cntl, rows>>

\* The timer; a waiting Stop is served first, the timer having just started.
SyncTick ==
  /\ sync.pc = "sleep" /\ main.pc # "stopSync"
  /\ sync' = [sync EXCEPT !.pc = "dump"]
  /\ age' = [a \in Agent |-> IF age[a] < LostRounds THEN age[a] + 1 ELSE LostRounds]
  /\ UNCHANGED <<hub, main, locals, ctl, exchs, cntl, db, revoked, fails>>

------------------------------------------------------------------------------
(* The controller's doSync, and the administrator *)

CntSync ==
  /\ cnt.pc = "idle" /\ updates < MaxUpdates
  /\ updates' = updates + 1
  /\ cnt' = [cnt EXCEPT !.pc = "start"]
  /\ UNCHANGED <<hub, main, locals, ctl, exchs, sync, subs, rows>>

\* Starting or updating the module registers a socket under vxProto.mutex.
CntModule ==
  /\ cnt.pc = "start" /\ vx = Free
  /\ cnt' = [pc |-> "notify", todo |-> subs]
  /\ UNCHANGED <<hub, main, locals, ctl, exchs, sync, subs, updates, rows>>

\* notifyModules: "update <-" for each subscriber in turn.
CntNotify ==
  /\ cnt.pc = "notify" /\ cnt.todo # <<>> /\ ctl[Head(cnt.todo)] = "loop"
  /\ Spawn(Head(cnt.todo))
  /\ cnt' = [cnt EXCEPT !.todo = Tail(@)]
  /\ UNCHANGED <<hub, main, locals, ctl, exch, sync, subs, updates, rows>>

CntDone ==
  /\ cnt.pc = "notify" /\ cnt.todo = <<>>
  /\ cnt' = [cnt EXCEPT !.pc = "idle"]
  /\ UNCHANGED <<hub, main, locals, ctl, exchs, sync, subs, updates, rows>>

Revoke(a) ==
  /\ a \in Revocable \ revoked /\ revoked' = revoked \cup {a}
  /\ UNCHANGED <<hub, main, locals, ctl, exchs, sync, cntl, db, age, fails>>

------------------------------------------------------------------------------
\* The steps that only a withdrawn authorisation or a new module version brings about.
Changing ==
  \/ \E a \in Agent : Revoke(a) \/ SyncDrop(a)
  \/ SyncKick
  \/ CntSync \/ CntModule \/ CntNotify \/ CntDone

Steady ==
  \/ \E l \in Link :
       \/ Validate(l) \/ Register(l) \/ Disconnect(l) \/ StopNext(l)
       \/ CtlSetUpdateChan(l) \/ CtlConnection(l) \/ CtlUnsetUpdateChan(l)
       \/ CtlDisconnection(l) \/ CtlDel(l)
       \/ ExchBegin(l) \/ ExchEnd(l) \/ ExchDrop(l) \/ ExchLock(l) \/ ExchQuit(l)
       \/ ExchDone(l) \/ SyncLock(l) \/ SyncScan(l)
  \/ Post \/ MainConnected \/ MainStarted \/ MainDisconnected \/ MainLock \/ MainQuit
  \/ MainDone \/ StopAsk \/ StopSend \/ MainStop \/ StopSyncAgents \/ StopDump
  \/ StopWait \/ StopController \/ StopDelModule
  \/ SyncBoot \/ SyncDump \/ SyncAlive \/ SyncLost \/ SyncRead
  \/ SyncScanned \/ SyncSleep \/ SyncTick

Next == Steady \/ Changing

Spec == Init /\ [][Next]_vars

\* The steps of each goroutine.
MainSteps ==
  \/ MainConnected \/ MainStarted \/ MainDisconnected \/ MainLock \/ MainQuit \/ MainDone
  \/ StopSend \/ MainStop \/ StopSyncAgents \/ StopDump \/ StopWait \/ StopController
  \/ StopDelModule \/ \E l \in Link : StopNext(l)
CtlSteps(l) ==
  \/ CtlSetUpdateChan(l) \/ CtlConnection(l) \/ CtlUnsetUpdateChan(l)
  \/ CtlDisconnection(l) \/ CtlDel(l)
ExchSteps(l) ==
  \/ ExchBegin(l) \/ ExchEnd(l) \/ ExchDrop(l) \/ ExchLock(l) \/ ExchQuit(l) \/ ExchDone(l)
SyncSteps ==
  \/ SyncBoot \/ SyncDump \/ SyncAlive \/ SyncLost \/ SyncRead \/ SyncKick
  \/ SyncScanned \/ SyncSleep \/ SyncTick
  \/ \E l \in Link : SyncLock(l) \/ SyncScan(l)
  \/ \E a \in Agent : SyncDrop(a)
CntSteps == CntModule \/ CntNotify \/ CntDone

\* Go runs every goroutine that can run, and hands a contended mutex or
\* channel to each of its waiters in the end (the starvation mode of
\* sync.Mutex, the queue of waiters of a channel): strong fairness of each
\* goroutine.  Nothing is assumed of connections, of the call of Stop, of the
\* administrator or of new module versions.
Fairness ==
  /\ WF_vars(Post) /\ SF_vars(MainSteps) /\ SF_vars(SyncSteps) /\ SF_vars(CntSteps)
  /\ \A l \in Link : WF_vars(CtlSteps(l)) /\ SF_vars(ExchSteps(l))

\* The fair specification is about a server whose agents keep their
\* authorisation and whose modules do not change (Revocable is empty and
\* MaxUpdates is 0, so that the steps of Changing are never enabled).
FairSpec == Init /\ [][Steady]_vars /\ Fairness

------------------------------------------------------------------------------
(* Properties *)

\* The span of a control goroutine in which it is the agent's.
Running(l) == ctl[l] \notin {"none", "done", "gone"}

\* agentList tells the truth: the running control goroutines are exactly the
\* listed links, so a disconnect finds the goroutine it is about and del(dst)
\* never removes a newer link's entry; and none of them has isfin.
ListTruth ==
  \A l \in Link : /\ Running(l) <=> list[AgentOf[l]] = l
                  /\ Running(l) => l \notin isfin

\* No agent is left "connected" in the database after its control goroutine
\* wrote "disconnected", however syncAliveStatusAgents interleaves with it:
\* once disconnectAllAgents has run, and while no statement failed, a row says
\* "connected" only while a control goroutine of the agent is responsible.
NoGhost ==
  sync.pc # "boot" /\ fails = 0 =>
    \A a \in Agent : db[a] =>
      \E l \in Link : AgentOf[l] = a /\ Running(l) /\ ctl[l] # "del"

\* Connected and lost agents are repaired in the database: a row that is
\* wrong (a failed statement, a row a crash left behind, disconnectAllAgents
\* overtaken by a connection) is right again later, or the server stops.
RowHeals ==
  \A a \in Agent :
    /\ (db[a] /\ list[a] = None) ~> (~db[a] \/ list[a] # None \/ stop # "no")
    /\ (~db[a] /\ list[a] # None) ~> (db[a] \/ list[a] = None \/ stop # "no")

\* "finalize agent state and remove from connected agents list": the control
\* goroutine of a link that went down ends.
Finalized ==
  \A l \in Link : (conn[l] = "down" /\ stop = "no") ~> (ctl[l] \in {"none", "gone"} \/ stop # "no")

\* Stop ends: it reaches the deletion of the main module's socket.
StopEnds == stop = "asked" ~> main.pc = "deleted"
=============================================================================
