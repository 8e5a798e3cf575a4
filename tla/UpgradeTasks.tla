---------------------------- MODULE UpgradeTasks ----------------------------
(***************************************************************************)
(* Agent upgrades on the server: the rows of upgrade_tasks, the consumer   *)
(* that polls them and asks the agents to upgrade                          *)
(* (mmodule/upgrade_task_consumer.go), and TasksStore, which gives every   *)
(* running task a goroutine that waits for the agent to come back with the *)
(* new version, for a failure, or for a timeout                            *)
(* (mmodule/upgrader_task_store.go, upgrader/watcher/notification_ch.go).  *)
(*                                                                         *)
(* An agent is named by its hash.  Its database id is another value: IdOf. *)
(* agentList also holds the links of the pages that show an agent's module *)
(* (Browser, External): they carry the agent's hash and the version of the *)
(* API server that opened them, and handlerAgentConnected signals that.    *)
(* The agent's control goroutine (AgentControl) appears here only as the   *)
(* receiver of ainfo.upgrade: "gen" numbers the agentInfo objects.         *)
(***************************************************************************)
EXTENDS Integers, FiniteSets, FiniteSetsExt, Functions

CONSTANTS
  NTasks, Agent, Id, Version, None,
  HashOf, IdOf,      \* the agent of a task, by hash and by database id
  VersionOf,         \* the version a task asks for
  FirstVersion,      \* the version every agent starts with
  ServerVersion,     \* the version of the API server, which links of pages carry
  Viewed,            \* bound: the agents whose pages are opened
  Limit, BatchSize,  \* tasksStoreTasksLimit, tasksStoreBatchSize
  MaxConn,           \* Agent -> bound on its connections
  MaxFails,          \* bound on failing database statements
  MaxCrashes         \* bound on the crashes of the server

Task == 1..NTasks
NoTask == 0  \* no entry in the store
ChanState == {"none", "open", "closed", "fail"}  \* of a channel without a version in it

ASSUME ConstAssumption ==
  /\ NTasks \in Nat /\ Limit \in Nat \ {0} /\ BatchSize \in Nat \ {0}
  /\ MaxConn \in [Agent -> Nat] /\ MaxFails \in Nat /\ MaxCrashes \in Nat
  /\ HashOf \in [Task -> Agent] /\ IdOf \in [Task -> Id] /\ Agent \cap Id = {}
  /\ None \notin Agent
  /\ VersionOf \in [Task -> Version] /\ FirstVersion \in Version /\ ServerVersion \in Version
  /\ Viewed \subseteq Agent
  /\ Version \cap ChanState = {}

VARIABLES
  status,   \* Task -> its row in upgrade_tasks
  online,   \* agents with an entry in agentList
  viewers,  \* agents with a page that has an entry there under their hash
  arriving, \* the agent whose handlerAgentConnected has yet to signal, if any
  page,     \* is it a page of that agent that connects?
  gen,      \* Agent -> number of its newest agentInfo
  ver,      \* Agent -> the version it runs
  pushed,   \* Agent -> the versions it accepted to upgrade to
  store,    \* TasksStore.store: its channels, named by their tasks
  chan,     \* Task -> its NotificationChan: open, closed, or the event in it
  watch,    \* Task -> its watchTask goroutine
  count,    \* currentTasksCount
  offset,   \* fetchParams.offset
  batches,  \* the goroutines of processNewTasks
  req,      \* Task -> its requestAgentUpgrade goroutine
  stop,     \* the end of the consumer and Close
  came,     \* history: tasks whose agent connected with their version
  viewed,   \* history: tasks for which a page connected with their version
  fails, crashes

rows == <<status, fails>>
agents == <<online, viewers, arriving, page, gen, ver, pushed>>
tasks == <<store, chan, watch, count>>
consumer == <<offset, batches, req>>
heard == <<came, viewed>>
vars == <<rows, agents, tasks, consumer, stop, heard, crashes>>

Live == {"wait", "got", "late"}
\* A goroutine of processNewTasks: the tasks it has yet to register and those
\* whose failure it has yet to signal, each in the order of their rows.
Batch == [todo : SUBSET Task, gen : Nat, failed : SUBSET Task]

RowsOK == status \in [Task -> {"none", "new", "running", "ready", "failed"}]

AgentsOK ==
  /\ online \subseteq Agent /\ viewers \subseteq Agent /\ gen \in [Agent -> Nat]
  /\ arriving \in Agent \cup {None} /\ page \in BOOLEAN
  /\ ver \in [Agent -> Version] /\ pushed \in [Agent -> SUBSET Version]

TasksOK ==
  /\ store \in [Agent \cup Id -> Task \cup {NoTask}]
  /\ chan \in [Task -> ChanState \cup Version]
  /\ watch \in [Task -> {"none", "gone"} \cup Live]
  /\ count \in Int

ConsumerOK ==
  /\ offset \in 0..NTasks /\ batches \subseteq Batch
  /\ req \in [Task -> {"none", "run", "done"}]

BoundsOK ==
  /\ stop \in {"no", "asked", "drained", "closing", "closed"}
  /\ came \subseteq Task /\ viewed \subseteq Task
  /\ fails \in 0..MaxFails /\ crashes \in 0..MaxCrashes

\* The types of the variables; the fetch offset never passes the rows.
TypeOK == RowsOK /\ AgentsOK /\ TasksOK /\ ConsumerOK /\ BoundsOK

Init ==
  /\ status = [t \in Task |-> "none"] /\ gen = [a \in Agent |-> 0]
  /\ online = {} /\ viewers = {} /\ arriving = None /\ page = FALSE
  /\ ver = [a \in Agent |-> FirstVersion] /\ pushed = [a \in Agent |-> {}]
  /\ store = [k \in Agent \cup Id |-> NoTask] /\ chan = [t \in Task |-> "none"]
  /\ watch = [t \in Task |-> "none"] /\ count = 0 /\ offset = 0 /\ batches = {}
  /\ req = [t \in Task |-> "none"] /\ stop = "no" /\ came = {} /\ viewed = {}
  /\ fails = 0 /\ crashes = 0

Outcome(ok) == \/ ok /\ UNCHANGED fails
               \/ ~ok /\ fails < MaxFails /\ fails' = fails + 1

\* sendTaskSignal: the event goes to whatever channel is stored for the agent.
Signal(a, ev) ==
  chan' = IF store[a] # NoTask /\ chan[store[a]] = "open"
            THEN [chan EXCEPT ![store[a]] = ev] ELSE chan

------------------------------------------------------------------------------
(* The administrator and the agents *)

\* CreateAgentsUpgrades makes a task for an agent that runs another version
\* and has no new or running task ...
AddTask(t) ==
  /\ status[t] = "none" /\ ver[HashOf[t]] # VersionOf[t]
  /\ \A u \in Task : HashOf[u] = HashOf[t] => status[u] \notin {"new", "running"}
  /\ status' = [status EXCEPT ![t] = "new"]
  /\ UNCHANGED <<agents, tasks, consumer, stop, heard, fails, crashes>>

\* ... and PatchLastAgentUpgrade cancels one, whatever its status.
Cancel(t) ==
  /\ status[t] # "none" /\ status' = [status EXCEPT ![t] = "failed"]
  /\ UNCHANGED <<agents, tasks, consumer, stop, heard, fails, crashes>>

\* handlerAgentConnected lists the agent, which may run a version it accepted,
Connect(a) ==
  /\ a \notin online /\ arriving = None /\ gen[a] < MaxConn[a] /\ stop = "no"
  /\ online' = online \cup {a} /\ gen' = [gen EXCEPT ![a] = @ + 1]
  /\ arriving' = a /\ page' = FALSE
  /\ \E v \in {ver[a]} \cup pushed[a] : ver' = [ver EXCEPT ![a] = v]
  /\ pushed' = [pushed EXCEPT ![a] = {}]
  /\ UNCHANGED <<rows, viewers, tasks, consumer, stop, heard, crashes>>

\* or the link of a page under the agent's hash, whether the agent is there or
\* not (BrowserWSConnect and ExternalWSConnect of the API server),
OpenPage(a) ==
  /\ a \in Viewed \ viewers /\ arriving = None /\ stop = "no"
  /\ viewers' = viewers \cup {a} /\ arriving' = a /\ page' = TRUE
  /\ UNCHANGED <<rows, online, gen, ver, pushed, tasks, consumer, stop, heard, crashes>>

\* The version a link reports, and the tasks that wait for it.
InfoVer == IF page THEN ServerVersion ELSE ver[arriving]
Heard   == {t \in Task : HashOf[t] = arriving /\ VersionOf[t] = InfoVer /\ watch[t] \in Live}

\* and then signals the version, for every type of link.
SignalConnection ==
  /\ arriving # None /\ arriving' = None /\ page' = FALSE
  /\ Signal(arriving, InfoVer)
  /\ IF page THEN viewed' = viewed \cup Heard /\ UNCHANGED came
             ELSE came' = came \cup Heard /\ UNCHANGED viewed
  /\ UNCHANGED <<rows, online, viewers, gen, ver, pushed, store, watch, count, consumer, stop,
                 crashes>>

\* The agents whose control goroutine runs, and a link of each kind that ends.
Controlled == IF page THEN online ELSE online \ {arriving}

Disconnect(a) ==
  /\ a \in Controlled /\ online' = online \ {a}
  /\ UNCHANGED <<rows, viewers, arriving, page, gen, ver, pushed, tasks, consumer, stop, heard,
                 crashes>>

ClosePage(a) ==
  /\ a \in viewers /\ (page => a # arriving) /\ viewers' = viewers \ {a}
  /\ UNCHANGED <<rows, online, arriving, page, gen, ver, pushed, tasks, consumer, stop, heard,
                 crashes>>

------------------------------------------------------------------------------
(* The consumer *)

\* calculateNewBatchSize; it decides only how offset moves.
NewBatchSize == IF Limit <= count THEN 0 ELSE Min({Limit - count, BatchSize})

New == {t \in Task : status[t] = "new"}

\* The place of row t among the new ones.  The query has no ORDER BY; the
\* rows come by primary key, as the database scans them.
Rank(t) == Cardinality({u \in New : u <= t})

\* fetchTasks: the rows with status new, in a window of Limit rows.
FetchNew == {t \in New : offset < Rank(t) /\ Rank(t) <= offset + Limit}

\* Mutants: the offset moves by the window instead of by the rows found ...
NewOffsetWindow(n) == IF n < NewBatchSize THEN 0 ELSE offset + Limit

\* ... or never goes back to the first row.
NewOffsetNoReset(n) == offset + n

NewOffset(n) == IF n < NewBatchSize THEN 0 ELSE offset + n

\* The entry filterTasks looks for: it asks by id, the store is keyed by hash.
BeingUpgraded(t) == store[IdOf[t]] # NoTask

\* An agent counts as connected by any link that is listed under its hash.
FilterTasks(ts) == {t \in ts : HashOf[t] \in online \cup viewers /\ ~BeingUpgraded(t)}

\* startTask for each of ts: a later task of one agent takes the entry over.
StartTasks(ts, st, ch, w) ==
  /\ store' = [k \in DOMAIN st |->
                 IF \E t \in ts : HashOf[t] = k
                   THEN Max({t \in ts : HashOf[t] = k}) ELSE st[k]]
  /\ chan' = [t \in Task |-> IF t \in ts THEN "open" ELSE ch[t]]
  /\ watch' = [t \in Task |-> IF t \in ts THEN "wait" ELSE w[t]]

\* GetNewTasks, under storeMux; with tasks, a goroutine processes them.
Poll ==
  /\ stop = "no"
  /\ \E fetched, written \in BOOLEAN :
       LET ts == IF fetched THEN FilterTasks(FetchNew) ELSE {} IN
         /\ ts = {} => written
         /\ Outcome(fetched /\ written)
         /\ offset' = IF fetched THEN NewOffset(Cardinality(FetchNew)) ELSE offset
         /\ IF ts # {} /\ written
              THEN /\ status' = [t \in Task |-> IF t \in ts THEN "running" ELSE status[t]]
                   /\ StartTasks(ts, store, chan, watch)
                   /\ count' = count + Cardinality(ts)
                   /\ batches' = batches \cup {[todo |-> ts, gen |-> 0, failed |-> {}]}
              ELSE UNCHANGED <<status, tasks, batches>>
  /\ UNCHANGED <<agents, req, stop, heard, crashes>>

Step(b, c) == batches' = (batches \ {b}) \cup (IF c.todo = {} /\ c.failed = {} THEN {} ELSE {c})

\* registerUpgradeRequest reads the agent's agentInfo ...
BatchLookup(b) ==
  /\ b.todo # {} /\ b.gen = 0
  /\ LET t == Min(b.todo) IN
       Step(b, IF HashOf[t] \in online
                 THEN [b EXCEPT !.gen = gen[HashOf[t]]]
                 ELSE [b EXCEPT !.todo = @ \ {t}, !.failed = @ \cup {t}])
  /\ UNCHANGED <<rows, agents, tasks, offset, req, stop, heard, crashes>>

\* ... and "ainfo.upgrade <- t" waits for the control goroutine of that one.
BatchSend(b) ==
  /\ b.gen # 0
  /\ LET t == Min(b.todo) IN
       /\ HashOf[t] \in Controlled /\ gen[HashOf[t]] = b.gen
       /\ req' = [req EXCEPT ![t] = "run"]
       /\ Step(b, [b EXCEPT !.todo = @ \ {t}, !.gen = 0])
  /\ UNCHANGED <<rows, agents, tasks, offset, stop, heard, crashes>>

BatchSignal(b) ==
  /\ b.todo = {}
  /\ LET t == Min(b.failed) IN
       /\ Signal(HashOf[t], "fail")
       /\ Step(b, [b EXCEPT !.failed = @ \ {t}])
  /\ UNCHANGED <<rows, agents, store, watch, count, offset, req, stop, heard, crashes>>

\* requestAgentUpgrade: the file and the request reach the agent, or fail.
RequestDone(t) ==
  /\ req[t] = "run" /\ HashOf[t] \in online
  /\ pushed' = [pushed EXCEPT ![HashOf[t]] = @ \cup {VersionOf[t]}]
  /\ req' = [req EXCEPT ![t] = "done"] /\ count' = count - 1
  /\ UNCHANGED <<rows, online, viewers, arriving, page, gen, ver, store, chan, watch, offset,
                 batches, stop, heard, crashes>>

\* A request that failed may still have reached the agent.
RequestFails(t) ==
  /\ req[t] = "run"
  /\ \/ UNCHANGED pushed
     \/ /\ HashOf[t] \in online
        /\ pushed' = [pushed EXCEPT ![HashOf[t]] = @ \cup {VersionOf[t]}]
  /\ IF HashOf[t] \in online THEN Signal(HashOf[t], "fail") ELSE UNCHANGED chan
  /\ req' = [req EXCEPT ![t] = "done"] /\ count' = count - 1
  /\ UNCHANGED <<rows, online, viewers, arriving, page, gen, ver, store, watch, offset, batches,
                 stop, heard, crashes>>

------------------------------------------------------------------------------
(* watchTask *)

WatchWake(t) ==
  /\ watch[t] = "wait" /\ chan[t] # "open"
  /\ watch' = [watch EXCEPT ![t] = "got"]
  /\ UNCHANGED <<rows, agents, store, chan, count, consumer, stop, heard, crashes>>

WatchTimeout(t) ==
  /\ watch[t] = "wait"
  /\ watch' = [watch EXCEPT ![t] = "late"]
  /\ UNCHANGED <<rows, agents, store, chan, count, consumer, stop, heard, crashes>>

\* Mutant: the version the agent came back with is not compared.
VerdictAnyVersion(t) ==
  IF watch[t] = "got" /\ chan[t] \in Version THEN "ready" ELSE "failed"

\* processUpgradeEvent and the handlers of a timeout and of a closed channel.
Verdict(t) == IF watch[t] = "got" /\ chan[t] = VersionOf[t] THEN "ready" ELSE "failed"

\* Mutant: the finished task stays in the store.
WatchFinishKeeps(t) ==
  /\ watch[t] \in {"got", "late"} /\ stop # "closing"
  /\ \E ok \in BOOLEAN :
       /\ Outcome(ok)
       /\ status' = IF ok THEN [status EXCEPT ![t] = Verdict(t)] ELSE status
  /\ watch' = [watch EXCEPT ![t] = "gone"] /\ count' = count - 1
  /\ UNCHANGED <<agents, store, chan, consumer, stop, heard, crashes>>

\* Mutant: the finished task is not counted down.
WatchFinishCounted(t) ==
  /\ watch[t] \in {"got", "late"} /\ stop # "closing"
  /\ \E ok \in BOOLEAN :
       /\ Outcome(ok)
       /\ status' = IF ok THEN [status EXCEPT ![t] = Verdict(t)] ELSE status
  /\ watch' = [watch EXCEPT ![t] = "gone"]
  /\ store' = [store EXCEPT ![HashOf[t]] = NoTask]
  /\ UNCHANGED <<agents, chan, count, consumer, stop, heard, crashes>>

\* Under storeMux, which Close holds for reading; whatever is stored for the
\* agent is removed.
WatchFinish(t) ==
  /\ watch[t] \in {"got", "late"} /\ stop # "closing"
  /\ \E ok \in BOOLEAN :
       /\ Outcome(ok)
       /\ status' = IF ok THEN [status EXCEPT ![t] = Verdict(t)] ELSE status
  /\ watch' = [watch EXCEPT ![t] = "gone"] /\ count' = count - 1
  /\ store' = [store EXCEPT ![HashOf[t]] = NoTask]
  /\ UNCHANGED <<agents, chan, consumer, stop, heard, crashes>>

------------------------------------------------------------------------------
(* Stop, Close, and a crash *)

\* handlerStopMainModule, once every control goroutine has quit.
StopAsk ==
  /\ stop = "no" /\ online = {} /\ viewers = {} /\ stop' = "asked"
  /\ UNCHANGED <<rows, agents, tasks, consumer, heard, crashes>>

\* processRoutinesWG.Wait in consume, and wgExchAgent.Wait in Stop.
ConsumerEnds ==
  /\ stop = "asked" /\ batches = {} /\ \A t \in Task : req[t] # "run"
  /\ stop' = "drained"
  /\ UNCHANGED <<rows, agents, tasks, consumer, heard, crashes>>

\* Close takes storeMux for reading, closes the stored channels ...
CloseBegin ==
  /\ stop = "drained" /\ stop' = "closing"
  /\ chan' = [t \in Task |-> IF t \in Range(store) /\ chan[t] = "open" THEN "closed" ELSE chan[t]]
  /\ UNCHANGED <<rows, agents, store, watch, count, consumer, heard, crashes>>

\* ... and returns when every watcher has ended.
CloseEnds ==
  /\ stop = "closing" /\ \A t \in Task : watch[t] \notin Live
  /\ stop' = "closed"
  /\ UNCHANGED <<rows, agents, tasks, consumer, heard, crashes>>

\* What a crash of the server leaves: the database and the agents.
Restart ==
  /\ crashes < MaxCrashes /\ stop = "no" /\ crashes' = crashes + 1
  /\ online' = {} /\ viewers' = {} /\ arriving' = None /\ page' = FALSE
  /\ count' = 0 /\ offset' = 0 /\ batches' = {} /\ req' = [t \in Task |-> "none"]
  /\ UNCHANGED <<status, gen, ver, pushed, stop, heard>>

StartAfresh(ts) ==
  StartTasks(ts, [k \in Agent \cup Id |-> NoTask], [t \in Task |-> "none"], [t \in Task |-> "none"])

\* Mutant: a restarted server does not look for running tasks.
CrashForgets == Restart /\ StartAfresh({}) /\ UNCHANGED fails

\* The server dies and starts again: registerRunningTasks.
Crash ==
  /\ Restart
  /\ \E ok \in BOOLEAN :
       /\ Outcome(ok)
       /\ StartAfresh(IF ok THEN {t \in Task : status[t] = "running"} ELSE {})

------------------------------------------------------------------------------
Next ==
  \/ \E t \in Task : AddTask(t) \/ Cancel(t) \/ RequestDone(t) \/ RequestFails(t)
                     \/ WatchWake(t) \/ WatchTimeout(t) \/ WatchFinish(t)
  \/ \E a \in Agent : Connect(a) \/ Disconnect(a) \/ OpenPage(a) \/ ClosePage(a)
  \/ \E b \in batches : BatchLookup(b) \/ BatchSend(b) \/ BatchSignal(b)
  \/ SignalConnection \/ Poll \/ StopAsk \/ ConsumerEnds \/ CloseBegin \/ CloseEnds \/ Crash

Spec == Init /\ [][Next]_vars

\* Timers expire, runnable goroutines run, requests to agents end (they have
\* a timeout).  Nothing is assumed of agents, of the administrator, of Stop.
Fairness ==
  /\ WF_vars(Poll) /\ WF_vars(SignalConnection)
  /\ WF_vars(ConsumerEnds \/ CloseBegin \/ CloseEnds)
  /\ WF_vars(\E b \in batches : BatchLookup(b) \/ BatchSend(b) \/ BatchSignal(b))
  /\ \A t \in Task : /\ WF_vars(RequestDone(t) \/ RequestFails(t))
                     /\ WF_vars(WatchWake(t) \/ WatchTimeout(t)) /\ WF_vars(WatchFinish(t))

FairSpec == Spec /\ Fairness

------------------------------------------------------------------------------
(* Properties *)

\* With one task per agent the store and the watchers agree: an entry is
\* there exactly while its watcher lives, whatever ends the wait (the event,
\* a failure, the timeout or a race of them), so no agent is left marked and
\* no event misses a waiting task.
StoreExact == \A t \in Task : store[HashOf[t]] = t <=> watch[t] \in Live

\* currentTasksCount never overstates the load: at most one for each live
\* watcher, so the fetcher's window is never pinned shut by finished tasks.
CountNeverHigh == count <= Cardinality({t \in Task : watch[t] \in Live})

\* What a "ready" row may rest on: the agent came back with the version asked
\* for while the task was watched, or a page of the agent was opened then by an
\* API server of that very version.
Told(t) == t \in came \/ (t \in viewed /\ VersionOf[t] = ServerVersion)

\* A task is "ready" only if, while it was watched, in this run of the server or
\* an earlier one, its agent came back with the version asked for, or a page
\* stood in for it: SignalAgentConnection settles the task on the version of the
\* API server that opened the page, though the agent has not come back.
ReadyTruth == \A t \in Task : status[t] = "ready" => Told(t)

\* Every running task is settled in the end, a crash included, unless the
\* row cannot be written or the server stops.
TaskSettled ==
  \A t \in Task : status[t] = "running" ~> (status[t] # "running" \/ fails > 0 \/ stop # "no")

\* A new task of an agent that stays connected is picked up, however the
\* fetch window moves over tasks of other agents.
TaskPicked ==
  \A t \in Task : (status[t] = "new" /\ HashOf[t] \in online)
                    ~> (status[t] # "new" \/ HashOf[t] \notin online \/ stop # "no")

\* "upgrade agents that are not being upgraded": one watched task per agent.
OneUpgrade ==
  \A t, u \in Task : t # u /\ HashOf[t] = HashOf[u] => ~(watch[t] \in Live /\ watch[u] \in Live)
=============================================================================
