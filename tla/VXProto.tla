------------------------------ MODULE VXProto ------------------------------
(***************************************************************************)
(* The hub of vxproto on the server side: the tables of agents, routes and *)
(* module sockets guarded by vxProto.mutex (pkg/vxproto/proto.go), the     *)
(* connection handlers that fill and empty them (ws_server.go), and the    *)
(* control messages by which every module socket learns which agents are   *)
(* connected.                                                              *)
(*                                                                         *)
(* A Conn is one websocket connection and the agentSocket made for it.     *)
(* Tokens of a VXAgent are computed from its ID (NewToken), so every       *)
(* connection of one agent has the same source and destination: SrcOf and  *)
(* DstOf are constants, and two connections may share them.                *)
(*                                                                         *)
(* A critical section of mutex is one action.  DropAgent and MoveAgent     *)
(* loop over several sockets under the mutex and may block on the main     *)
(* module's queue in the middle, so their loops are steps of their own:    *)
(* "op" says who holds the mutex.                                          *)
(***************************************************************************)
EXTENDS Naturals, Sequences, SequencesExt

CONSTANTS
  Conn, Agent, Src, Dst, Group, Module,
  NoGroup,      \* the empty group ID
  None,         \* a missing map entry, a nil socket
  Main,         \* the module "main", registered with the empty group ID
  AgentOf, SrcOf, DstOf,  \* the ID and the two tokens of each connection
  VXAgents,     \* connections of type VXAgent (others: Browser, External)
  UpgradeOnly,  \* connections with isOnlyForUpgrade
  ModGid,       \* the group each module socket was made for
  StartMods,    \* the modules registered at the start
  Stoppable,    \* the modules the loader starts and stops
  QueueSize,    \* capacity of a module socket's receiver channel
  MaxAsync      \* bound on the goroutines of asyncSendPacket per module

ASSUME ConstAssumption ==
  /\ AgentOf \in [Conn -> Agent] /\ SrcOf \in [Conn -> Src] /\ DstOf \in [Conn -> Dst]
  /\ ModGid \in [Module -> Group]
  /\ NoGroup \in Group /\ Main \in Module /\ ModGid[Main] = NoGroup
  /\ None \notin Conn \cup Src \cup Dst \cup Group
  /\ StartMods \subseteq Module /\ Main \in StartMods
  /\ Stoppable \subseteq Module \ {Main}
  /\ QueueSize \in Nat \ {0} /\ MaxAsync \in Nat

VARIABLES
  phase,   \* Conn -> where its handleAgentWS stands
  open,    \* the connections whose websocket is open
  gid,     \* Conn -> agentSocket.gid
  agents,  \* vxProto.agents: Src -> Conn or None
  routes,  \* vxProto.routes: Dst -> Src or None
  mods,    \* the module sockets in vxProto.modules
  starting, \* modules between the two halves of cbStart
  inbox,   \* Module -> the control messages in its receiver channel
  async,   \* Module -> the messages held by asyncSendPacket goroutines
  view,    \* Module -> what the module believes: Src -> group or None
  op       \* the loop that holds vxProto.mutex, if any

vars == <<phase, open, gid, agents, routes, mods, starting, inbox, async, view, op>>
tables == <<agents, routes, mods, starting>>
mail == <<inbox, async, view>>

Free == [kind |-> "free", todo |-> {}, gid |-> NoGroup, cur |-> None]
Message == [kind : {"connected", "disconnected"}, conn : Conn, gid : Group]

(* The types of the variables, and the capacity of the receiver channels. *)
TypeOK ==
  /\ phase \in [Conn -> {"new", "accepted", "serving", "gone"}]
  /\ open \subseteq Conn
  /\ gid \in [Conn -> Group]
  /\ agents \in [Src -> Conn \cup {None}]
  /\ routes \in [Dst -> Src \cup {None}]
  /\ mods \subseteq Module /\ starting \subseteq Module
  /\ inbox \in [Module -> Seq(Message)]
  /\ \A m \in Module : Len(inbox[m]) <= QueueSize
  /\ async \in [Module -> Seq(Message)]
  /\ view \in [Module -> [Src -> Group \cup {None}]]
  /\ op \in [kind : {"free", "drop", "move"}, todo : SUBSET Conn, gid : Group,
             cur : Conn \cup {None}]

Init ==
  /\ phase = [c \in Conn |-> "new"]
  /\ open = {}
  /\ gid = [c \in Conn |-> NoGroup]
  /\ agents = [s \in Src |-> None]
  /\ routes = [d \in Dst |-> None]
  /\ mods = StartMods /\ starting = {}
  /\ inbox = [m \in Module |-> <<>>]
  /\ async = [m \in Module |-> <<>>]
  /\ view = [m \in Module |-> [s \in Src |-> None]]
  /\ op = Free

Unlocked == op.kind = "free"
(* MoveAgent holds the mutex as a reader and keeps out writers only.       *)
Readable == op.kind \in {"free", "move"}
Registered == {c \in Conn : agents[SrcOf[c]] = c}

-----------------------------------------------------------------------------
(* Notifications.                                                          *)

(* The sockets the loops of notifyAgentConnected and                       *)
(* notifyAgentDisconnected select for an agent socket of group g.          *)
Audience(c, g) ==
  {m \in mods : /\ c \in UpgradeOnly => m = Main
                /\ ModGid[m] = g \/ ModGid[m] = NoGroup \/ g = NoGroup}

Full(m) == Len(inbox[m]) >= QueueSize

(* Mutant: the send to main does not wait for room.                        *)
NotifyNoWait(kind, c, g) ==
  LET to  == Audience(c, g)
      msg == [kind |-> kind, conn |-> c, gid |-> g]
  IN  /\ \A m \in to : Full(m) => Len(async[m]) < MaxAsync
      /\ inbox' = [m \in Module |->
                     IF m \in to /\ (m = Main \/ ~ Full(m))
                     THEN Append(inbox[m], msg) ELSE inbox[m]]
      /\ UNCHANGED <<async, view>>

(* One notification.  The send to main blocks while its channel is full;   *)
(* another module whose channel is full is left to asyncSendPacket.        *)
Notify(kind, c, g) ==
  LET to  == Audience(c, g)
      msg == [kind |-> kind, conn |-> c, gid |-> g]
  IN  /\ ~ Full(Main)
      /\ \A m \in to : Full(m) => Len(async[m]) < MaxAsync
      /\ inbox' = [m \in Module |->
                     IF m \in to /\ ~ Full(m) THEN Append(inbox[m], msg) ELSE inbox[m]]
      /\ async' = [m \in Module |->
                     IF m \in to /\ Full(m) THEN Append(async[m], msg) ELSE async[m]]
      /\ UNCHANGED view

(* Mutant: only the route to the socket's own destination is removed.      *)
DelAgentOwnRoute(c) ==
  LET s == SrcOf[c]
      r == agents[s]
  IN  IF r = None
      THEN UNCHANGED <<agents, routes, mail, open>>
      ELSE /\ routes' = [routes EXCEPT ![DstOf[c]] = None]
           /\ Notify("disconnected", r, gid[r])
           /\ agents' = [agents EXCEPT ![s] = None]
           /\ open' = open \ {c}

(* Mutant: the table entry is removed before the modules are told, and     *)
(* notifyAgentDisconnected finds no agent to tell them about.              *)
DelAgentTellsLate(c) ==
  /\ routes' = [d \in Dst |-> IF routes[d] = SrcOf[c] THEN None ELSE routes[d]]
  /\ agents' = [agents EXCEPT ![SrcOf[c]] = None]
  /\ open' = open \ {c}
  /\ UNCHANGED mail

(* delAgentI: it looks the socket up by its source token, drops the routes *)
(* to that source, tells the modules, removes the table entry and closes   *)
(* the websocket of the socket it was called with.                         *)
DelAgentI(c) ==
  LET s == SrcOf[c]
      r == agents[s]
  IN  IF r = None
      THEN UNCHANGED <<agents, routes, mail, open>>
      ELSE /\ routes' = [d \in Dst |-> IF routes[d] = s THEN None ELSE routes[d]]
           /\ Notify("disconnected", r, gid[r])
           /\ agents' = [agents EXCEPT ![s] = None]
           /\ open' = open \ {c}

(* addAgentI: refuses a source that is registered.                         *)
AddAgentI(c) ==
  /\ agents' = [agents EXCEPT ![SrcOf[c]] = c]
  /\ routes' = [routes EXCEPT ![DstOf[c]] = SrcOf[c]]
  /\ Notify("connected", c, gid[c])

-----------------------------------------------------------------------------
(* A connection: handleAgentWS and prepareAgentConnection.                 *)

(* HasAgentInfoValid denies a VXAgent while the main module's list holds a *)
(* VXAgent with the same ID.                                               *)
Denied(c) ==
  /\ c \in VXAgents
  /\ \E d \in VXAgents : AgentOf[d] = AgentOf[c] /\ view[Main][SrcOf[d]] # None

(* OnConnect succeeds; the group comes from the database.                  *)
Accept(c) ==
  /\ phase[c] = "new"
  /\ ~ Denied(c)
  /\ \E g \in Group : gid' = [gid EXCEPT ![c] = g]
  /\ phase' = [phase EXCEPT ![c] = "accepted"]
  /\ open' = open \cup {c}
  /\ UNCHANGED <<tables, mail, op>>

Deny(c) ==
  /\ phase[c] = "new"
  /\ Denied(c)
  /\ phase' = [phase EXCEPT ![c] = "gone"]
  /\ UNCHANGED <<open, gid, tables, mail, op>>

(* Mutant: addAgentI does not look the source up first.                    *)
RegisterAnyway(c) ==
  /\ phase[c] = "accepted"
  /\ Unlocked
  /\ AddAgentI(c)
  /\ phase' = [phase EXCEPT ![c] = "serving"]
  /\ UNCHANGED <<open, gid, mods, starting, op>>

Register(c) ==
  /\ phase[c] = "accepted"
  /\ Unlocked
  /\ agents[SrcOf[c]] = None
  /\ AddAgentI(c)
  /\ phase' = [phase EXCEPT ![c] = "serving"]
  /\ UNCHANGED <<open, gid, mods, starting, op>>

(* addAgent refuses: the handler returns without serving the connection.   *)
Refuse(c) ==
  /\ phase[c] = "accepted"
  /\ Unlocked
  /\ agents[SrcOf[c]] # None
  /\ phase' = [phase EXCEPT ![c] = "gone"]
  /\ UNCHANGED <<open, gid, tables, mail, op>>

(* The peer or the network closes the websocket.                           *)
Disconnect(c) ==
  /\ c \in open /\ phase[c] = "serving"
  /\ open' = open \ {c}
  /\ UNCHANGED <<phase, gid, tables, mail, op>>

(* recvPacket fails, the read loop returns and the deferred delAgent runs. *)
HandlerExit(c) ==
  /\ phase[c] = "serving"
  /\ c \notin open
  /\ Unlocked
  /\ DelAgentI(c)
  /\ phase' = [phase EXCEPT ![c] = "gone"]
  /\ UNCHANGED <<gid, mods, starting, op>>

-----------------------------------------------------------------------------
(* Operations of the main module's synchroniser.                           *)

(* DropAgent takes the mutex and collects the sockets of an agent ID...    *)
DropAgent(a) ==
  /\ Unlocked
  /\ {c \in Registered : AgentOf[c] = a} # {}
  /\ op' = [Free EXCEPT !.kind = "drop", !.todo = {c \in Registered : AgentOf[c] = a}]
  /\ UNCHANGED <<phase, open, gid, tables, mail>>

(* ... then closes and deletes them one by one.                            *)
DropNext(c) ==
  /\ op.kind = "drop"
  /\ c \in op.todo
  /\ DelAgentI(c)
  /\ op' = IF op.todo = {c} THEN Free ELSE [op EXCEPT !.todo = @ \ {c}]
  /\ UNCHANGED <<phase, gid, mods, starting>>

(* MoveAgent: for each socket of the agent in another group, disconnected  *)
(* to the old group...                                                     *)
MoveAgent(a, g) ==
  LET moved == {c \in Registered : AgentOf[c] = a /\ gid[c] # g}
  IN  /\ Unlocked
      /\ moved # {}
      /\ op' = [Free EXCEPT !.kind = "move", !.todo = moved, !.gid = g]
      /\ UNCHANGED <<phase, open, gid, tables, mail>>

MoveOut(c) ==
  /\ op.kind = "move" /\ op.cur = None
  /\ c \in op.todo
  /\ Notify("disconnected", c, gid[c])
  /\ gid' = [gid EXCEPT ![c] = op.gid]
  /\ op' = [op EXCEPT !.cur = c]
  /\ UNCHANGED <<phase, open, tables>>

(* ... and connected to the new one.                                       *)
MoveIn ==
  /\ op.kind = "move" /\ op.cur # None
  /\ Notify("connected", op.cur, gid[op.cur])
  /\ op' = IF op.todo = {op.cur} THEN Free
           ELSE [op EXCEPT !.todo = @ \ {op.cur}, !.cur = None]
  /\ UNCHANGED <<phase, open, gid, tables>>

-----------------------------------------------------------------------------
(* Routes, used by module code for destinations behind an agent.           *)

AddRoute(d, s) ==
  /\ Unlocked
  /\ routes[d] = None
  /\ agents[s] # None
  /\ routes' = [routes EXCEPT ![d] = s]
  /\ UNCHANGED <<phase, open, gid, agents, mods, starting, mail, op>>

DelRoute(d) ==
  /\ Unlocked
  /\ routes[d] # None
  /\ routes' = [routes EXCEPT ![d] = None]
  /\ UNCHANGED <<phase, open, gid, agents, mods, starting, mail, op>>

-----------------------------------------------------------------------------
(* Module sockets.  The loader starts a module by reading the agent list   *)
(* (cbStart, first half) and then adding its socket (second half).         *)

InGroup(m, c) == ModGid[m] = gid[c] \/ ModGid[m] = NoGroup \/ gid[c] = NoGroup

ReadAgentList(m) ==
  /\ m \in Stoppable \ (mods \cup starting)
  /\ Readable
  /\ starting' = starting \cup {m}
  /\ view' = [view EXCEPT ![m] =
                [s \in Src |-> IF agents[s] # None /\ InGroup(m, agents[s])
                               THEN gid[agents[s]] ELSE None]]
  /\ UNCHANGED <<phase, open, gid, agents, routes, mods, inbox, async, op>>

AddModule(m) ==
  /\ m \in starting
  /\ Unlocked
  /\ mods' = mods \cup {m}
  /\ starting' = starting \ {m}
  /\ UNCHANGED <<phase, open, gid, agents, routes, mail, op>>

(* cbStop: the agent list is emptied, the socket removed and closed: its   *)
(* channel is drained and the goroutines of asyncSendPacket give up.       *)
DelModule(m) ==
  /\ m \in mods \cap Stoppable
  /\ Unlocked
  /\ mods' = mods \ {m}
  /\ inbox' = [inbox EXCEPT ![m] = <<>>]
  /\ async' = [async EXCEPT ![m] = <<>>]
  /\ view' = [view EXCEPT ![m] = [s \in Src |-> None]]
  /\ UNCHANGED <<phase, open, gid, agents, routes, starting, op>>

(* An asyncSendPacket goroutine gets its message into the channel.         *)
AsyncDeliver(m, i) ==
  /\ i \in DOMAIN async[m]
  /\ ~ Full(m)
  /\ inbox' = [inbox EXCEPT ![m] = Append(@, async[m][i])]
  /\ async' = [async EXCEPT ![m] = RemoveAt(@, i)]
  /\ UNCHANGED <<phase, open, gid, tables, view, op>>

(* The receiver goroutine of a module takes a control message and keeps    *)
(* its list of agents up to date.                                          *)
Take(m) ==
  /\ inbox[m] # <<>>
  /\ LET msg == Head(inbox[m])
         now == IF msg.kind = "connected" THEN msg.gid ELSE None
     IN  view' = [view EXCEPT ![m][SrcOf[msg.conn]] = now]
  /\ inbox' = [inbox EXCEPT ![m] = Tail(@)]
  /\ UNCHANGED <<phase, open, gid, tables, async, op>>

(* commitError of runSyncAgentModules, after DropAgent: the control        *)
(* goroutine of an agent is made to quit before the main module has taken  *)
(* the agent's disconnected message, which then finds no entry.            *)
ForceQuit(s) ==
  /\ view[Main][s] # None
  /\ \E i \in DOMAIN inbox[Main] :
       SrcOf[inbox[Main][i].conn] = s /\ inbox[Main][i].kind = "disconnected"
  /\ view' = [view EXCEPT ![Main][s] = None]
  /\ UNCHANGED <<phase, open, gid, tables, inbox, async, op>>

Next ==
  \/ \E c \in Conn : \/ Accept(c) \/ Deny(c) \/ Register(c) \/ Refuse(c)
                     \/ Disconnect(c) \/ HandlerExit(c)
                     \/ DropNext(c) \/ MoveOut(c)
  \/ \E a \in Agent : DropAgent(a) \/ \E g \in Group : MoveAgent(a, g)
  \/ MoveIn
  \/ \E d \in Dst : DelRoute(d) \/ \E s \in Src : AddRoute(d, s)
  \/ \E m \in Module : \/ ReadAgentList(m) \/ AddModule(m) \/ DelModule(m) \/ Take(m)
                       \/ \E i \in 1 .. MaxAsync : AsyncDeliver(m, i)
  \/ \E s \in Src : ForceQuit(s)

Spec == Init /\ [][Next]_vars

-----------------------------------------------------------------------------
(* Properties.                                                             *)

(* A route never points at a source that is not registered: delAgentI      *)
(* takes every route of the source with it, routes added by modules        *)
(* included, so a packet is never matched to a route without an agent.     *)
RoutesLive == \A d \in Dst : routes[d] # None => agents[routes[d]] # None

(* The group in which a source is registered, None when it is not.  In the *)
(* middle of a move the source is between its two groups.                  *)
Truth(s) == IF agents[s] = None \/ op.cur = agents[s] THEN None ELSE gid[agents[s]]

About(q, s) == {i \in DOMAIN q : SrcOf[q[i].conn] = s}
Says(msg) == IF msg.kind = "connected" THEN msg.gid ELSE None

(* With messages q waiting and its list saying v, a module will in the end *)
(* believe t of source s.                                                  *)
Informed(q, s, v, t) ==
  /\ About(q, s) = {} => v = t
  /\ \A i \in About(q, s) : (\A j \in About(q, s) : j <= i) => Says(q[i]) = t

(* With messages q waiting and its list saying v, a module meets every     *)
(* connected message about s when its list does not have s.                *)
Alternating(q, s, v) ==
  \A i \in About(q, s) :
    q[i].kind = "connected" =>
      \/ (\A j \in About(q, s) : j >= i) /\ v = None
      \/ \E j \in About(q, s) : /\ j < i /\ q[j].kind = "disconnected"
                                /\ \A k \in About(q, s) : k <= j \/ k >= i

(* The main module is told the truth: what it will believe of a source     *)
(* once it has taken every message waiting for it (the last message about  *)
(* the source, or its list when none waits) is what the agent table holds. *)
MainInformed ==
  \A s \in Src : Informed(inbox[Main], s, view[Main][s], Truth(s))

(* The main module is never told that an agent has connected while it      *)
(* still lists it: handlerAgentConnected would overwrite the list entry    *)
(* and leave its control goroutine running with nobody to stop it.         *)
MainAlternates ==
  \A s \in Src : Alternating(inbox[Main], s, view[Main][s])

(* What the proofs need besides: entries sit under their own source and    *)
(* belong to connections whose handler has not returned, a loop holding    *)
(* the mutex works on registered sockets, and the main module is           *)
(* registered and never served by asyncSendPacket.                         *)
OpSound ==
  /\ op.kind = "free" => op = Free
  /\ op.kind = "drop" => op.cur = None
  /\ \A c \in op.todo : agents[SrcOf[c]] = c
  /\ op.cur # None => op.kind = "move" /\ op.cur \in op.todo

TablesSound ==
  /\ \A s \in Src : agents[s] # None => /\ SrcOf[agents[s]] = s
                                        /\ phase[agents[s]] = "serving"
  /\ Main \in mods /\ async[Main] = <<>>

HubInv ==
  TypeOK /\ TablesSound /\ OpSound /\ RoutesLive /\ MainInformed /\ MainAlternates

(* A registered module with nothing left to receive lists exactly the      *)
(* connected agents of its group.                                          *)
ModuleInformed ==
  \A m \in mods \ {Main} :
    inbox[m] = <<>> /\ async[m] = <<>> =>
      \A s \in Src :
        view[m][s] = IF \/ Truth(s) = None \/ agents[s] \in UpgradeOnly
                        \/ ~ InGroup(m, agents[s])
                     THEN None ELSE Truth(s)

=============================================================================
