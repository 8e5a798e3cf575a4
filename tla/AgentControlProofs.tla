------------------------- MODULE AgentControlProofs -------------------------
(***************************************************************************)
(* The life of an agent in the server's main module, for every set of      *)
(* links and agents, every capacity of the receiver channel and every      *)
(* bound on updates and failing statements: AgentInv is inductive.         *)
(*                                                                         *)
(* ListTruth alone is not: that a "connected" message never meets a        *)
(* running goroutine of the same agent rests on the order of the messages  *)
(* on their way (NoticesInOrder), that agents.del removes the goroutine's  *)
(* own entry rests on the link main or a synchronisation ends being one    *)
(* that was started (MainInv), and NoGhost rests on syncAliveStatusAgents  *)
(* holding mxdone only of goroutines that were not told to quit            *)
(* (MutexInv).                                                             *)
(***************************************************************************)
EXTENDS AgentControl, SequenceTheorems, WellFoundedInduction, TLAPS
(* The notifications about link l on their way to the main module: in its  *)
(* receiver channel, and behind them the one whose sender holds the mutex. *)
Connected(l)    == [kind |-> "connected", link |-> l]
Disconnected(l) == [kind |-> "disconnected", link |-> l]
Posting(msg)    == vx.kind = msg.kind /\ vx.link = msg.link

(* The receiver loop is ending the control goroutine of l.                 *)
Closing(l) == main.pc \in {"lock", "quit", "done"} /\ main.link = l

(* The "connected" of k stands at place j of the queue: its goroutine is   *)
(* not there yet, a running goroutine of the same agent will end before,   *)
(* and an earlier "connected" of the agent is followed by its counterpart. *)
Preceded(k, j) ==
  /\ ctl[k] = "none"
  /\ \A l \in Link : AgentOf[l] = AgentOf[k] /\ Running(l) =>
       Closing(l) \/ \E i \in 1 .. j - 1 : inbox[i] = Disconnected(l)
  /\ \A i \in 1 .. j - 1, l \in Link :
       inbox[i] = Connected(l) /\ AgentOf[l] = AgentOf[k] =>
         l # k /\ \E m \in i + 1 .. j - 1 : inbox[m] = Disconnected(l)

(* A connection that is down has been reported, or will be.                *)
DownReported(l) ==
  /\ Running(l) => \/ Closing(l) \/ Posting(Disconnected(l))
                   \/ \E m \in 1 .. Len(inbox) : inbox[m] = Disconnected(l)
  /\ \A i \in 1 .. Len(inbox) : inbox[i] = Connected(l) =>
       \/ Posting(Disconnected(l))
       \/ \E m \in i + 1 .. Len(inbox) : inbox[m] = Disconnected(l)

(* The notifications, until the main module stops reading them.            *)
Notices ==
  /\ \A k \in Link, j \in 1 .. Len(inbox) : inbox[j] = Connected(k) =>
       conn[k] \in {"up", "down"} /\ Preceded(k, j)
  /\ \A k \in Link : Posting(Connected(k)) =>
       conn[k] = "up" /\ Preceded(k, Len(inbox) + 1)
  /\ \A l \in Link : conn[l] = "down" => DownReported(l)
NoticesInOrder == main.then = "idle" => Notices

(* The list, isfin and the goroutines agree, and only a connection that    *)
(* came up has a goroutine.                                                *)
ListInv ==
  /\ ListTruth
  /\ \A a \in Agent : list[a] # None => AgentOf[list[a]] = a
  /\ \A l \in Link : l \in isfin <=> ctl[l] \in {"done", "gone"}
  /\ \A l \in Link : ctl[l] # "none" => conn[l] \in {"up", "down"}

(* The links that ever had a control goroutine.                            *)
Started == {l \in Link : ctl[l] # "none"}

(* The receiver loop: what it returns to, and that the link it starts or   *)
(* ends was started.                                                       *)
MainInv ==
  /\ main.pc = "idle" => main.then = "idle"
  /\ main.pc \in {"stopSync", "dump", "stop", "stopped", "closed", "deleted"} => main.then = "stop"
  /\ main.pc \in {"starting", "lock", "quit", "done"} => main.link \in Started
  /\ main.todo \subseteq Started

(* Who holds mxdone of a link, and that syncAgents only looks at links     *)
(* that were started.                                                      *)
MutexInv ==
  /\ sync.seen \subseteq Started /\ sync.todo \subseteq Started
  /\ sync.pc = "kick" => sync.link \in Link
  /\ \A l \in Link :
       /\ mx[l] = "main" <=> main.pc \in {"quit", "done"} /\ main.link = l
       /\ mx[l] = "exch" <=> exch[l] \in {"quit", "done"}
       /\ mx[l] = "sync" => ctl[l] \in {"start", "connect", "ready", "loop"}
       /\ ctl[l] \in {"unset", "disconnect", "del", "done"} =>
            (main.pc = "done" /\ main.link = l) \/ exch[l] = "done"

(* The inductive invariant.                                                *)
AgentInv == TypeOK /\ ListInv /\ MainInv /\ MutexInv /\ NoticesInOrder /\ NoGhost

(* Each part of the invariant only reads some of the variables: a step     *)
(* that leaves them alone keeps it.                                        *)
LEMMA Frames ==
  ASSUME AgentInv
  PROVE  /\ UNCHANGED <<conn, vx, inbox, stop>> => HubOK'
         /\ UNCHANGED main => MainOK'
         /\ UNCHANGED <<list, isfin, mx>> => LocalsOK'
         /\ UNCHANGED ctl => CtlOK'
         /\ UNCHANGED <<exch, queued>> => ExchsOK'
         /\ UNCHANGED sync => SyncOK'
         /\ UNCHANGED <<cnt, subs, updates>> => CntlOK'
         /\ UNCHANGED <<db, age, revoked, fails>> => RowsOK'
         /\ UNCHANGED <<list, isfin, ctl, conn>> => ListInv'
         /\ UNCHANGED <<main, ctl>> => MainInv'
         /\ UNCHANGED <<sync, mx, main, exch, ctl>> => MutexInv'
         /\ UNCHANGED <<inbox, vx, conn, main, ctl>> => NoticesInOrder'
         /\ UNCHANGED <<sync, fails, db, ctl>> => NoGhost'
<1>1. UNCHANGED <<conn, vx, inbox, stop>> => HubOK'
  BY DEF AgentInv, TypeOK, HubOK
<1>2. UNCHANGED <<list, isfin, mx>> => LocalsOK'
  BY DEF AgentInv, TypeOK, LocalsOK
<1>3. /\ UNCHANGED main => MainOK'
      /\ UNCHANGED ctl => CtlOK'
      /\ UNCHANGED <<exch, queued>> => ExchsOK'
      /\ UNCHANGED sync => SyncOK'
  BY DEF AgentInv, TypeOK, MainOK, CtlOK, ExchsOK, SyncOK
<1>4. UNCHANGED <<cnt, subs, updates>> => CntlOK'
  BY DEF AgentInv, TypeOK, CntlOK
<1>5. UNCHANGED <<db, age, revoked, fails>> => RowsOK'
  BY DEF AgentInv, TypeOK, RowsOK
<1>6. UNCHANGED <<list, isfin, ctl, conn>> => ListInv'
  BY DEF AgentInv, ListInv, ListTruth, Running
<1>7. UNCHANGED <<main, ctl>> => MainInv'
  BY DEF AgentInv, MainInv, Started
<1>8. UNCHANGED <<sync, mx, main, exch, ctl>> => MutexInv'
  BY DEF AgentInv, MutexInv, Started
<1>9. UNCHANGED <<inbox, vx, conn, main, ctl>> => NoticesInOrder'
  BY DEF AgentInv, NoticesInOrder, Notices, Preceded, DownReported, Posting, Closing,
     Running, Connected, Disconnected
<1>10. UNCHANGED <<sync, fails, db, ctl>> => NoGhost'
  BY DEF AgentInv, NoGhost, Running
<1> QED
  BY <1>1, <1>2, <1>3, <1>4, <1>5, <1>6, <1>7, <1>8, <1>9, <1>10

(* Steps that neither send nor take a notification keep them in order when *)
(* no goroutine of a link starts and one that still runs is no less being  *)
(* closed than before.                                                     *)
LEMMA NoticesKept ==
  ASSUME NoticesInOrder, UNCHANGED <<inbox, vx, conn>>, main'.then = main.then,
         \A l \in Link : /\ ctl[l] = "none" => ctl'[l] = "none"
                         /\ Running(l)' => Running(l) /\ (Closing(l) => Closing(l)')
  PROVE  NoticesInOrder'
<1> SUFFICES ASSUME Notices, main'.then = "idle" PROVE Notices'
  BY DEF NoticesInOrder
<1>1. \A k \in Link, j \in 1 .. Len(inbox) + 1 : Preceded(k, j) => Preceded(k, j)'
  BY DEF Preceded, Connected, Disconnected
<1> QED
  BY <1>1 DEF Notices, DownReported, Posting, Connected, Disconnected

(* runSyncAgentModules keeps the count of waiting goroutines in its bound. *)
LEMMA SpawnTyped ==
  ASSUME ExchsOK, NEW l \in Link, Spawn(l), UNCHANGED exch
  PROVE  ExchsOK'
BY ConstAssumption DEF ExchsOK, Spawn

(* agents.dump returns links whose goroutine was started.                  *)
LEMMA ListedStarted ==
  ASSUME LocalsOK, ListInv
  PROVE  Listed \subseteq Started
BY ConstAssumption DEF LocalsOK, ListInv, ListTruth, Running, Listed, Started

(* A set of naturals that is not empty has a least element.                *)
LEMMA MinExists ==
  ASSUME NEW S \in SUBSET Nat, S # {}
  PROVE  Min(S) \in S
<1> DEFINE R == OpToRel(<, Nat)
<1>1. IsWellFoundedOn(R, Nat)
  BY NatLessThanWellFounded
<1> HIDE DEF R
<1>2. PICK x \in S : \A y \in S : ~ (<<y, x>> \in R)
  BY <1>1, WFMin
<1>3. \A y \in S : ~ (y < x)
  BY <1>2 DEF OpToRel, R
<1>4. \A y \in S : x <= y
  BY <1>3
<1> QED
  BY <1>4 DEF Min

(* unsetUpdateChan leaves a sequence of links.                             *)
LEMMA SubsTyped ==
  ASSUME NEW s \in Seq(Link), NEW l
  PROVE  RemoveFirst(s, l) \in Seq(Link)
<1> DEFINE i == SelectInSeq(s, LAMBDA v : v = l)
<1>1. CASE \E j \in 1 .. Len(s) : s[j] = l
  <2>1. i \in 1 .. Len(s)
    <3> DEFINE I == {j \in 1 .. Len(s) : s[j] = l}
    <3>1. I # {} /\ I \in SUBSET Nat /\ i = Min(I)
      BY <1>1 DEF SelectInSeq
    <3> QED
      BY <3>1, MinExists
  <2>2. SubSeq(s, 1, i - 1) \in Seq(Link) /\ SubSeq(s, i + 1, Len(s)) \in Seq(Link)
    <3> HIDE DEF i
    <3> QED
      BY <2>1, SubSeqProperties
  <2>3. RemoveFirst(s, l) = SubSeq(s, 1, i - 1) \o SubSeq(s, i + 1, Len(s))
    BY <1>1 DEF RemoveFirst, RemoveAt
  <2> QED
    <3> HIDE DEF i
    <3> QED
      BY <2>2, <2>3
<1> QED
  BY <1>1 DEF RemoveFirst

(* The message the receiver loop takes, unless it is the stop message.     *)
LEMMA HeadMessage ==
  ASSUME HubOK, inbox # <<>>, Head(inbox) # StopMsg
  PROVE  /\ Head(inbox).link \in Link
         /\ Head(inbox).kind = "connected" => inbox[1] = Connected(Head(inbox).link)
         /\ Head(inbox).kind = "disconnected" => inbox[1] = Disconnected(Head(inbox).link)
<1>1. Head(inbox) = inbox[1] /\ inbox[1] \in [kind : {"connected", "disconnected"}, link : Link]
  BY DEF HubOK
<1> QED
  BY <1>1 DEF Connected, Disconnected

(* DropConnection: the link that goes down is being reported.              *)
LEMMA DropReported ==
  ASSUME NoticesInOrder, MainInv, HubOK, NEW a, NEW by, DropAgent(a, by), UNCHANGED <<inbox, main, ctl>>
  PROVE  NoticesInOrder'
<1> SUFFICES ASSUME Notices, main.then = "idle" PROVE Notices'
  BY DEF NoticesInOrder
<1>1. \A k, j : Preceded(k, j) => Preceded(k, j)'
  BY DEF Preceded, Running, Closing
<1>2. CASE Up(a) = {}
  BY <1>1, <1>2 DEF DropAgent, Notices, DownReported, Running, Closing, Posting
<1>3. CASE Up(a) # {}
  <2>1. PICK l \in Up(a) : conn' = [conn EXCEPT ![l] = "down"] /\ vx' = Notice("disconnected", l, by)
    BY <1>3 DEF DropAgent
  <2>2. vx = Free /\ vx' = [kind |-> "disconnected", link |-> l, by |-> by]
    BY <1>3, <2>1 DEF DropAgent, Notice, MainInv
  <2>3. \A k : ~ Posting(Disconnected(k)) /\ ~ Posting(Connected(k))'
    BY <2>2 DEF Posting, Connected, Disconnected, Free
  <2>4. DownReported(l)'
    BY <2>2 DEF DownReported, Posting, Disconnected
  <2>5. \A k \in Link : DownReported(k) => DownReported(k)'
    BY <2>3 DEF DownReported, Running, Closing
  <2>6. l \in Link /\ conn \in [Link -> {"new", "valid", "up", "down", "refused"}]
    BY DEF Up, HubOK
  <2> QED
    BY <1>1, <2>1, <2>3, <2>4, <2>5, <2>6 DEF Notices
<1> QED
  BY <1>2, <1>3

(* Every step keeps the invariant, action by action.                       *)
LEMMA AgentNext == AgentInv /\ Next => AgentInv'
<1> SUFFICES ASSUME AgentInv, Next PROVE AgentInv'
  OBVIOUS
<1> USE ConstAssumption DEF AgentInv, TypeOK
<1>1. ASSUME NEW l \in Link, Validate(l) PROVE AgentInv'
  <2>1. UNCHANGED <<vx, inbox, stop, main, list, isfin, mx, ctl, exch, queued, sync, cnt,
                    subs, updates, db, age, revoked, fails>>
    BY <1>1 DEF Validate, hub, locals, exchs, cntl, rows
  <2>2. HubOK'
    BY <1>1, <2>1 DEF Validate, HubOK
  <2>3. ListInv'
    BY <1>1, <2>1 DEF Validate, ListInv, ListTruth, Running, CtlOK, LocalsOK, HubOK
  <2>4. NoticesInOrder'
    BY <1>1, <2>1 DEF Validate, NoticesInOrder, Notices, Preceded, DownReported, Running,
       Closing, Posting, HubOK
  <2> QED
    BY <2>1, <2>2, <2>3, <2>4, Frames
<1>2. ASSUME NEW l \in Link, Register(l) PROVE AgentInv'
  <2>1. UNCHANGED <<inbox, stop, main, list, isfin, mx, ctl, exch, queued, sync, cnt,
                    subs, updates, db, age, revoked, fails>>
    BY <1>2 DEF Register, hub, locals, exchs, cntl, rows
  <2>2. HubOK'
    BY <1>2, <2>1 DEF Register, Notice, Up, HubOK
  <2>3. ListInv'
    BY <1>2, <2>1 DEF Register, Notice, Up, ListInv, ListTruth, Running, CtlOK, LocalsOK,
       HubOK
  <2>4. NoticesInOrder'
    <3> SUFFICES ASSUME Notices, main.then = "idle" PROVE Notices'
      BY <2>1 DEF NoticesInOrder
    <3>1. \A k, j : Preceded(k, j) => Preceded(k, j)'
      BY <2>1 DEF Preceded, Running, Closing
    <3>2. \A k : DownReported(k) => ~ Posting(Disconnected(k)) /\ DownReported(k)'
      BY <1>2, <2>1 DEF Register, DownReported, Running, Closing, Posting, Free,
         Disconnected
    <3>3. CASE Up(AgentOf[l]) = {}
      <4>1. /\ conn[l] = "valid" /\ conn' = [conn EXCEPT ![l] = "up"]
            /\ vx' = [kind |-> "connected", link |-> l, by |-> None]
        BY <1>2, <3>3 DEF Register, Notice, MainInv
      <4>2. \A k \in Link : AgentOf[k] = AgentOf[l] /\ conn[k] \in {"up", "down"} => conn[k] = "down"
        BY <3>3 DEF Up
      <4>3. Preceded(l, Len(inbox) + 1)
        <5>1. Len(inbox) \in Nat
          BY DEF HubOK
        <5>2. ctl[l] = "none" /\ \A k \in Link : Running(k) => conn[k] \in {"up", "down"}
          BY <4>1 DEF ListInv, Running
        <5>3. \A k \in Link : AgentOf[k] = AgentOf[l] /\ Running(k) =>
                Closing(k) \/ \E i \in 1 .. Len(inbox) : inbox[i] = Disconnected(k)
          BY <3>2, <4>2, <5>2 DEF Notices, DownReported
        <5>4. \A i \in 1 .. Len(inbox),
        k \in Link : inbox[i] = Connected(k) /\ AgentOf[k] = AgentOf[l] =>
                k # l /\ \E m \in i + 1 .. Len(inbox) : inbox[m] = Disconnected(k)
          BY <3>2, <4>1, <4>2 DEF Notices, DownReported
        <5> QED
          BY <5>1, <5>2, <5>3, <5>4 DEF Preceded
      <4>4. \A k \in Link : Posting(Connected(k))' => k = l
        BY <4>1 DEF Posting, Connected
      <4> QED
        BY <2>1, <3>1, <3>2, <4>1, <4>3, <4>4 DEF Notices, HubOK
    <3>4. CASE Up(AgentOf[l]) # {}
      <4>1. conn[l] = "valid" /\ conn' = [conn EXCEPT ![l] = "refused"] /\ vx' = vx /\ vx = Free
        BY <1>2, <3>4 DEF Register
      <4> QED
        BY <2>1, <3>1, <3>2, <4>1 DEF Notices, HubOK, Posting, Connected, Free
    <3> QED
      BY <3>3, <3>4
  <2> QED
    BY <2>1, <2>2, <2>3, <2>4, Frames
<1>3. ASSUME NEW l \in Link, Disconnect(l) PROVE AgentInv'
  <2>1. UNCHANGED <<inbox, stop, main, list, isfin, mx, ctl, exch, queued, sync, cnt,
                    subs, updates, db, age, revoked, fails>>
    BY <1>3 DEF Disconnect, hub, locals, exchs, cntl, rows
  <2>2. HubOK'
    BY <1>3, <2>1 DEF Disconnect, DropAgent, Up, Notice, HubOK
  <2>3. ListInv'
    BY <1>3, <2>1 DEF Disconnect, DropAgent, Up, Notice, ListInv, ListTruth, Running,
       CtlOK, LocalsOK, HubOK
  <2>4. NoticesInOrder'
    BY <1>3, <2>1, DropReported DEF Disconnect
  <2> QED
    BY <2>1, <2>2, <2>3, <2>4, Frames
<1>4. ASSUME NEW l \in Link, StopNext(l) PROVE AgentInv'
  <2>1. UNCHANGED <<conn, vx, inbox, stop, list, isfin, mx, ctl, exch, queued, sync, cnt,
                    subs, updates, db, age, revoked, fails>>
    BY <1>4 DEF StopNext, hub, locals, exchs, cntl, rows
  <2>2. MainOK'
    BY <1>4, <2>1 DEF StopNext, MainOK, MainInv
  <2>3. MainInv'
    BY <1>4, <2>1 DEF StopNext, MainInv, MainOK, Started, CtlOK
  <2>4. MutexInv'
    BY <1>4, <2>1 DEF StopNext, MutexInv, Started, CtlOK, LocalsOK, MainOK, MainInv,
       SyncOK, ExchsOK
  <2>5. NoticesInOrder'
    BY <1>4, <2>1, NoticesKept DEF StopNext, CtlOK, MainOK, Running, Closing
  <2> QED
    BY <2>1, <2>2, <2>3, <2>4, <2>5, Frames
<1>5. ASSUME NEW l \in Link, CtlSetUpdateChan(l) PROVE AgentInv'
  <2>1. UNCHANGED <<conn, vx, inbox, stop, main, list, isfin, mx, exch, queued, sync,
                    cnt, updates, db, age, revoked, fails>>
    BY <1>5 DEF CtlSetUpdateChan, hub, locals, exchs, cntl, rows
  <2>2. CtlOK'
    BY <1>5, <2>1 DEF CtlSetUpdateChan, Moves, CntFree, CtlOK, MainInv
  <2>3. CntlOK'
    BY <1>5, <2>1 DEF CtlSetUpdateChan, Moves, CntFree, CntlOK
  <2>4. ListInv'
    BY <1>5, <2>1 DEF CtlSetUpdateChan, Moves, CntFree, ListInv, ListTruth, Running,
       CtlOK, LocalsOK, HubOK
  <2>5. MainInv'
    BY <1>5, <2>1 DEF CtlSetUpdateChan, Moves, CntFree, MainInv, MainOK, Started, CtlOK
  <2>6. MutexInv'
    BY <1>5, <2>1 DEF CtlSetUpdateChan, Moves, CntFree, MutexInv, Started, CtlOK,
       LocalsOK, MainOK, MainInv, SyncOK, ExchsOK
  <2>7. NoticesInOrder'
    BY <1>5, <2>1, NoticesKept DEF CtlSetUpdateChan, Moves, CntFree, CtlOK, MainOK,
       Running, Closing
  <2>8. NoGhost'
    BY <1>5, <2>1 DEF CtlSetUpdateChan, Moves, CntFree, NoGhost, Running, SyncOK, CtlOK,
       RowsOK
  <2> QED
    BY <2>1, <2>2, <2>3, <2>4, <2>5, <2>6, <2>7, <2>8, Frames
<1>6. ASSUME NEW l \in Link, CtlConnection(l) PROVE AgentInv'
  <2>1. UNCHANGED <<conn, vx, inbox, stop, main, list, isfin, mx, exch, queued, sync,
                    cnt, subs, updates, revoked>>
    BY <1>6 DEF CtlConnection, hub, locals, exchs, cntl, rows
  <2>2. CtlOK'
    BY <1>6, <2>1 DEF CtlConnection, Moves, Outcome, CtlOK, MainInv
  <2>3. RowsOK'
    <3>1. PICK ok \in BOOLEAN :
            /\ Outcome(ok)
            /\ IF ok THEN /\ db' = [db EXCEPT ![AgentOf[l]] = TRUE]
                          /\ age' = [age EXCEPT ![AgentOf[l]] = 0]
                     ELSE UNCHANGED <<db, age>>
      BY <1>6 DEF CtlConnection
    <3>2. fails' \in 0..MaxFails
      BY <3>1 DEF Outcome, RowsOK
    <3>3. age' \in [Agent -> 0..LostRounds]
      BY <2>1, <3>1 DEF RowsOK
    <3>4. db' \in [Agent -> BOOLEAN]
      BY <2>1, <3>1, Zenon DEF RowsOK
    <3> QED
      BY <2>1, <3>2, <3>3, <3>4 DEF RowsOK
  <2>4. ListInv'
    BY <1>6, <2>1 DEF CtlConnection, Moves, Outcome, ListInv, ListTruth, Running, CtlOK,
       LocalsOK, HubOK
  <2>5. MainInv'
    BY <1>6, <2>1 DEF CtlConnection, Moves, Outcome, MainInv, MainOK, Started, CtlOK
  <2>6. MutexInv'
    BY <1>6, <2>1 DEF CtlConnection, Moves, Outcome, MutexInv, Started, CtlOK, LocalsOK,
       MainOK, MainInv, SyncOK, ExchsOK
  <2>7. NoticesInOrder'
    BY <1>6, <2>1, NoticesKept DEF CtlConnection, Moves, Outcome, CtlOK, MainOK, Running,
       Closing
  <2>8. NoGhost'
    BY <1>6, <2>1 DEF CtlConnection, Moves, Outcome, NoGhost, Running, SyncOK, CtlOK, RowsOK
  <2> QED
    BY <2>1, <2>2, <2>3, <2>4, <2>5, <2>6, <2>7, <2>8, Frames
<1>7. ASSUME NEW l \in Link, CtlUnsetUpdateChan(l) PROVE AgentInv'
  <2>1. UNCHANGED <<conn, vx, inbox, stop, main, list, isfin, mx, exch, queued, sync,
                    cnt, updates, db, age, revoked, fails>>
    BY <1>7 DEF CtlUnsetUpdateChan, hub, locals, exchs, cntl, rows
  <2>2. CtlOK'
    BY <1>7, <2>1 DEF CtlUnsetUpdateChan, Moves, CntFree, CtlOK, MainInv
  <2>3. CntlOK'
    BY <1>7, <2>1, SubsTyped DEF CtlUnsetUpdateChan, CntlOK
  <2>4. ListInv'
    BY <1>7, <2>1 DEF CtlUnsetUpdateChan, Moves, CntFree, ListInv, ListTruth, Running,
       CtlOK, LocalsOK, HubOK
  <2>5. MainInv'
    BY <1>7, <2>1 DEF CtlUnsetUpdateChan, Moves, CntFree, MainInv, MainOK, Started, CtlOK
  <2>6. MutexInv'
    BY <1>7, <2>1 DEF CtlUnsetUpdateChan, Moves, CntFree, MutexInv, Started, CtlOK,
       LocalsOK, MainOK, MainInv, SyncOK, ExchsOK
  <2>7. NoticesInOrder'
    BY <1>7, <2>1, NoticesKept DEF CtlUnsetUpdateChan, Moves, CntFree, CtlOK, MainOK,
       Running, Closing
  <2>8. NoGhost'
    BY <1>7, <2>1 DEF CtlUnsetUpdateChan, Moves, CntFree, NoGhost, Running, SyncOK,
       CtlOK, RowsOK
  <2> QED
    BY <2>1, <2>2, <2>3, <2>4, <2>5, <2>6, <2>7, <2>8, Frames
<1>8. ASSUME NEW l \in Link, CtlDisconnection(l) PROVE AgentInv'
  <2>1. UNCHANGED <<conn, vx, inbox, stop, main, list, isfin, mx, exch, queued, sync,
                    cnt, subs, updates, age, revoked>>
    BY <1>8 DEF CtlDisconnection, hub, locals, exchs, cntl, rows
  <2>2. CtlOK'
    BY <1>8, <2>1 DEF CtlDisconnection, Moves, Outcome, CtlOK, MainInv
  <2>3. RowsOK'
    BY <1>8, <2>1 DEF CtlDisconnection, Moves, Outcome, RowsOK
  <2>4. ListInv'
    BY <1>8, <2>1 DEF CtlDisconnection, Moves, Outcome, ListInv, ListTruth, Running,
       CtlOK, LocalsOK, HubOK
  <2>5. MainInv'
    BY <1>8, <2>1 DEF CtlDisconnection, Moves, Outcome, MainInv, MainOK, Started, CtlOK
  <2>6. MutexInv'
    BY <1>8, <2>1 DEF CtlDisconnection, Moves, Outcome, MutexInv, Started, CtlOK,
       LocalsOK, MainOK, MainInv, SyncOK, ExchsOK
  <2>7. NoticesInOrder'
    BY <1>8, <2>1, NoticesKept DEF CtlDisconnection, Moves, Outcome, CtlOK, MainOK,
       Running, Closing
  <2>8. NoGhost'
    <3>1. PICK ok \in BOOLEAN : Outcome(ok) /\ db' = [db EXCEPT ![AgentOf[l]] = @ /\ ~ok]
      BY <1>8 DEF CtlDisconnection
    <3>2. fails' = 0 => fails = 0 /\ ok
      BY <3>1 DEF Outcome, RowsOK
    <3>3. fails' = 0 => \A a \in Agent : db'[a] => db[a] /\ a # AgentOf[l]
      BY <3>1, <3>2 DEF RowsOK
    <3>4. \A k \in Link : k # l => ctl'[k] = ctl[k]
      BY <1>8 DEF CtlDisconnection, Moves, CtlOK
    <3> QED
      BY <2>1, <3>2, <3>3, <3>4 DEF NoGhost, Running
  <2> QED
    BY <2>1, <2>2, <2>3, <2>4, <2>5, <2>6, <2>7, <2>8, Frames
<1>9. ASSUME NEW l \in Link, CtlDel(l) PROVE AgentInv'
  <2>1. UNCHANGED <<conn, vx, inbox, stop, main, mx, exch, queued, sync, cnt, subs,
                    updates, db, age, revoked, fails>>
    BY <1>9 DEF CtlDel, hub, locals, exchs, cntl, rows
  <2>2. LocalsOK'
    BY <1>9, <2>1 DEF CtlDel, Moves, LocalsOK
  <2>3. CtlOK'
    BY <1>9, <2>1 DEF CtlDel, Moves, CtlOK, MainInv
  <2>4. ListInv'
    BY <1>9, <2>1 DEF CtlDel, Moves, ListInv, ListTruth, Running, CtlOK, LocalsOK, HubOK
  <2>5. MainInv'
    BY <1>9, <2>1 DEF CtlDel, Moves, MainInv, MainOK, Started, CtlOK
  <2>6. MutexInv'
    BY <1>9, <2>1 DEF CtlDel, Moves, MutexInv, Started, CtlOK, LocalsOK, MainOK, MainInv,
       SyncOK, ExchsOK
  <2>7. NoticesInOrder'
    BY <1>9, <2>1, NoticesKept DEF CtlDel, Moves, CtlOK, MainOK, Running, Closing
  <2>8. NoGhost'
    BY <1>9, <2>1 DEF CtlDel, Moves, NoGhost, Running, SyncOK, CtlOK, RowsOK
  <2> QED
    BY <2>1, <2>2, <2>3, <2>4, <2>5, <2>6, <2>7, <2>8, Frames
<1>10. ASSUME NEW l \in Link, ExchBegin(l) PROVE AgentInv'
  <2>1. UNCHANGED <<conn, vx, inbox, stop, main, list, isfin, mx, ctl, sync, cnt, subs,
                    updates, db, age, revoked, fails>>
    BY <1>10 DEF ExchBegin, hub, locals, exchs, cntl, rows
  <2>2. ExchsOK'
    BY <1>10, <2>1 DEF ExchBegin, ExchsOK
  <2>3. MutexInv'
    BY <1>10, <2>1 DEF ExchBegin, MutexInv, Started, CtlOK, LocalsOK, MainOK, MainInv,
       SyncOK, ExchsOK
  <2> QED
    BY <2>1, <2>2, <2>3, Frames
<1>11. ASSUME NEW l \in Link, ExchEnd(l) PROVE AgentInv'
  <2>1. UNCHANGED <<conn, vx, inbox, stop, main, list, isfin, mx, ctl, queued, sync, cnt,
                    subs, updates, db, age, revoked, fails>>
    BY <1>11 DEF ExchEnd, hub, locals, exchs, cntl, rows
  <2>2. ExchsOK'
    BY <1>11, <2>1 DEF ExchEnd, Up, ExchsOK
  <2>3. MutexInv'
    BY <1>11, <2>1 DEF ExchEnd, Up, MutexInv, Started, CtlOK, LocalsOK, MainOK, MainInv,
       SyncOK, ExchsOK
  <2> QED
    BY <2>1, <2>2, <2>3, Frames
<1>12. ASSUME NEW l \in Link, ExchDrop(l) PROVE AgentInv'
  <2>1. UNCHANGED <<inbox, stop, main, list, isfin, mx, ctl, queued, sync, cnt, subs,
                    updates, db, age, revoked, fails>>
    BY <1>12 DEF ExchDrop, hub, locals, exchs, cntl, rows
  <2>2. HubOK'
    BY <1>12, <2>1 DEF ExchDrop, DropAgent, Up, Notice, HubOK
  <2>3. ExchsOK'
    BY <1>12, <2>1 DEF ExchDrop, DropAgent, Up, Notice, ExchsOK
  <2>4. ListInv'
    BY <1>12, <2>1 DEF ExchDrop, DropAgent, Up, Notice, ListInv, ListTruth, Running,
       CtlOK, LocalsOK, HubOK
  <2>5. MutexInv'
    BY <1>12, <2>1 DEF ExchDrop, DropAgent, Up, Notice, MutexInv, Started, CtlOK,
       LocalsOK, MainOK, MainInv, SyncOK, ExchsOK
  <2>6. NoticesInOrder'
    BY <1>12, <2>1, DropReported DEF ExchDrop
  <2> QED
    BY <2>1, <2>2, <2>3, <2>4, <2>5, <2>6, Frames
<1>13. ASSUME NEW l \in Link, ExchLock(l) PROVE AgentInv'
  <2>1. UNCHANGED <<conn, vx, inbox, stop, main, list, isfin, ctl, queued, sync, cnt,
                    subs, updates, db, age, revoked, fails>>
    BY <1>13 DEF ExchLock, hub, locals, exchs, cntl, rows
  <2>2. LocalsOK'
    BY <1>13, <2>1 DEF ExchLock, LocalsOK
  <2>3. ExchsOK'
    BY <1>13, <2>1 DEF ExchLock, ExchsOK
  <2>4. MutexInv'
    BY <1>13, <2>1 DEF ExchLock, MutexInv, Started, CtlOK, LocalsOK, MainOK, MainInv,
       SyncOK, ExchsOK
  <2> QED
    BY <2>1, <2>2, <2>3, <2>4, Frames
<1>14. ASSUME NEW l \in Link, ExchQuit(l) PROVE AgentInv'
  <2>1. UNCHANGED <<conn, vx, inbox, stop, main, list, isfin, mx, queued, sync, cnt,
                    subs, updates, db, age, revoked, fails>>
    BY <1>14 DEF ExchQuit, hub, locals, exchs, cntl, rows
  <2>2. CtlOK'
    BY <1>14, <2>1 DEF ExchQuit, Moves, CtlOK, MainInv
  <2>3. ExchsOK'
    BY <1>14, <2>1 DEF ExchQuit, Moves, ExchsOK
  <2>4. ListInv'
    BY <1>14, <2>1 DEF ExchQuit, Moves, ListInv, ListTruth, Running, CtlOK, LocalsOK, HubOK
  <2>5. MainInv'
    BY <1>14, <2>1 DEF ExchQuit, Moves, MainInv, MainOK, Started, CtlOK
  <2>6. MutexInv'
    BY <1>14, <2>1 DEF ExchQuit, Moves, MutexInv, Started, CtlOK, LocalsOK, MainOK,
       MainInv, SyncOK, ExchsOK
  <2>7. NoticesInOrder'
    BY <1>14, <2>1, NoticesKept DEF ExchQuit, Moves, CtlOK, MainOK, Running, Closing
  <2>8. NoGhost'
    BY <1>14, <2>1 DEF ExchQuit, Moves, NoGhost, Running, SyncOK, CtlOK, RowsOK
  <2> QED
    BY <2>1, <2>2, <2>3, <2>4, <2>5, <2>6, <2>7, <2>8, Frames
<1>15. ASSUME NEW l \in Link, ExchDone(l) PROVE AgentInv'
  <2>1. UNCHANGED <<conn, vx, inbox, stop, main, list, isfin, queued, sync, cnt, subs,
                    updates, db, age, revoked, fails>>
    BY <1>15 DEF ExchDone, hub, locals, exchs, cntl, rows
  <2>2. LocalsOK'
    BY <1>15, <2>1 DEF ExchDone, Moves, LocalsOK
  <2>3. CtlOK'
    BY <1>15, <2>1 DEF ExchDone, Moves, CtlOK, MainInv
  <2>4. ExchsOK'
    BY <1>15, <2>1 DEF ExchDone, Moves, ExchsOK
  <2>5. ListInv'
    BY <1>15, <2>1 DEF ExchDone, Moves, ListInv, ListTruth, Running, CtlOK, LocalsOK, HubOK
  <2>6. MainInv'
    BY <1>15, <2>1 DEF ExchDone, Moves, MainInv, MainOK, Started, CtlOK
  <2>7. MutexInv'
    BY <1>15, <2>1 DEF ExchDone, Moves, MutexInv, Started, CtlOK, LocalsOK, MainOK,
       MainInv, SyncOK, ExchsOK
  <2>8. NoticesInOrder'
    BY <1>15, <2>1, NoticesKept DEF ExchDone, Moves, CtlOK, MainOK, Running, Closing
  <2>9. NoGhost'
    BY <1>15, <2>1 DEF ExchDone, Moves, NoGhost, Running, SyncOK, CtlOK, RowsOK
  <2> QED
    BY <2>1, <2>2, <2>3, <2>4, <2>5, <2>6, <2>7, <2>8, <2>9, Frames
<1>16. ASSUME NEW l \in Link, SyncLock(l) PROVE AgentInv'
  <2>1. UNCHANGED <<conn, vx, inbox, stop, main, list, isfin, ctl, exch, queued, cnt,
                    subs, updates, db, age, revoked, fails>>
    BY <1>16 DEF SyncLock, hub, locals, exchs, cntl, rows
  <2>2. LocalsOK'
    BY <1>16, <2>1 DEF SyncLock, LocalsOK
  <2>3. SyncOK'
    BY <1>16, <2>1 DEF SyncLock, SyncOK
  <2>4. MutexInv'
    BY <1>16, <2>1 DEF SyncLock, MutexInv, Started, CtlOK, LocalsOK, ListInv, SyncOK,
       ExchsOK
  <2>5. NoGhost'
    BY <1>16, <2>1 DEF SyncLock, NoGhost, Running, SyncOK, CtlOK, RowsOK
  <2> QED
    BY <2>1, <2>2, <2>3, <2>4, <2>5, Frames
<1>17. ASSUME NEW l \in Link, SyncScan(l) PROVE AgentInv'
  <2>1. UNCHANGED <<conn, vx, inbox, stop, main, list, isfin, mx, ctl, exch, queued, cnt,
                    subs, updates, db, age, revoked, fails>>
    BY <1>17 DEF SyncScan, hub, locals, exchs, cntl, rows
  <2>2. SyncOK'
    BY <1>17, <2>1 DEF SyncScan, SyncOK
  <2>3. MutexInv'
    BY <1>17, <2>1 DEF SyncScan, MutexInv, Started, CtlOK, LocalsOK, MainOK, MainInv,
       SyncOK, ExchsOK
  <2>4. NoGhost'
    BY <1>17, <2>1 DEF SyncScan, NoGhost, Running, SyncOK, CtlOK, RowsOK
  <2> QED
    BY <2>1, <2>2, <2>3, <2>4, Frames
<1>18. ASSUME NEW a \in Agent, Revoke(a) PROVE AgentInv'
  <2>1. UNCHANGED <<conn, vx, inbox, stop, main, list, isfin, mx, ctl, exch, queued,
                    sync, cnt, subs, updates, db, age, fails>>
    BY <1>18 DEF Revoke, hub, locals, exchs, cntl, rows
  <2>2. RowsOK'
    BY <1>18, <2>1 DEF Revoke, RowsOK
  <2> QED
    BY <2>1, <2>2, Frames
<1>19. ASSUME NEW a \in Agent, SyncDrop(a) PROVE AgentInv'
  <2>1. UNCHANGED <<inbox, stop, main, list, isfin, mx, ctl, exch, queued, cnt, subs,
                    updates, db, age, revoked, fails>>
    BY <1>19 DEF SyncDrop, hub, locals, exchs, cntl, rows
  <2>2. HubOK'
    BY <1>19, <2>1 DEF SyncDrop, DropAgent, Up, Notice, HubOK
  <2>3. SyncOK'
    BY <1>19, <2>1 DEF SyncDrop, DropAgent, Up, Notice, SyncOK
  <2>4. ListInv'
    BY <1>19, <2>1 DEF SyncDrop, DropAgent, Up, Notice, ListInv, ListTruth, Running,
       CtlOK, LocalsOK, HubOK
  <2>5. MutexInv'
    BY <1>19, <2>1 DEF SyncDrop, DropAgent, Up, Notice, MutexInv, Started, CtlOK,
       LocalsOK, MainOK, MainInv, SyncOK, ExchsOK
  <2>6. NoticesInOrder'
    BY <1>19, <2>1, DropReported DEF SyncDrop
  <2>7. NoGhost'
    BY <1>19, <2>1 DEF SyncDrop, DropAgent, Up, Notice, NoGhost, Running, SyncOK, CtlOK,
       RowsOK
  <2> QED
    BY <2>1, <2>2, <2>3, <2>4, <2>5, <2>6, <2>7, Frames
<1>20. CASE Post
  <2>1. UNCHANGED <<conn, stop, main, list, isfin, mx, ctl, exch, queued, sync, cnt,
                    subs, updates, db, age, revoked, fails>>
    BY <1>20 DEF Post, hub, locals, exchs, cntl, rows
  <2>2. HubOK'
    BY <1>20, <2>1 DEF Post, HubOK
  <2>3. NoticesInOrder'
    <3> SUFFICES ASSUME Notices, main.then = "idle" PROVE Notices'
      BY <2>1 DEF NoticesInOrder
    <3>0. PICK n \in Nat : n = Len(inbox)
      BY DEF HubOK
    <3>1. /\ vx.link \in Link /\ n \in Nat /\ vx' = Free
          /\ inbox' = Append(inbox, [kind |-> vx.kind, link |-> vx.link])
      BY <1>20 DEF Post, HubOK
    <3>2. Len(inbox') = n + 1 /\ (\A i \in 1 .. n : inbox'[i] = inbox[i])
      BY <3>0, <3>1 DEF HubOK
    <3>3. inbox'[n + 1] = [kind |-> vx.kind, link |-> vx.link]
      BY <3>0, <3>1 DEF HubOK
    <3>4. \A k \in Link, j \in 1 .. n + 1 : Preceded(k, j) => Preceded(k, j)'
      BY <2>1, <3>1, <3>2 DEF Preceded, Running, Closing
    <3>5. \A k \in Link : ~ Posting(Connected(k))' /\ ~ Posting(Disconnected(k))'
      BY <3>1 DEF Posting, Free, Connected, Disconnected
    <3>6. ASSUME NEW k \in Link, conn[k] = "down"
          PROVE  DownReported(k)'
      <4>1. ~ Posting(Connected(k)) /\ DownReported(k)
        BY <3>0, <3>6 DEF Notices
      <4>2. (Running(k)' <=> Running(k)) /\ (Closing(k)' <=> Closing(k))
        BY <2>1 DEF Running, Closing
      <4>3. inbox'[n + 1] # Connected(k) /\ (Posting(Disconnected(k)) => inbox'[n + 1] = Disconnected(k))
        BY <3>3, <4>1 DEF Posting, Connected, Disconnected
      <4>4. Len(inbox') = n + 1 /\ n + 1 \in 1 .. n + 1 /\ 1 .. n + 1 = 1 .. n \cup {n + 1}
        BY <3>1, <3>2
      <4>5. Running(k)' => Closing(k)' \/ \E m \in 1 .. n + 1 : inbox'[m] = Disconnected(k)
        BY <3>2, <4>1, <4>2, <4>3, <4>4, <3>0 DEF DownReported
      <4>6. ASSUME NEW i \in 1 .. n + 1, inbox'[i] = Connected(k)
            PROVE  \E m \in i + 1 .. n + 1 : inbox'[m] = Disconnected(k)
        <5>1. i \in 1 .. n /\ inbox[i] = Connected(k)
          BY <3>1, <3>2, <4>3, <4>6
        <5>2. CASE Posting(Disconnected(k))
          <6>1. inbox'[n + 1] = Disconnected(k)
            BY <4>3, <5>2, Zenon
          <6>2. n + 1 \in i + 1 .. n + 1
            BY <5>1
          <6> QED
            BY <6>1, <6>2
        <5>3. CASE \E m \in i + 1 .. n : inbox[m] = Disconnected(k)
          BY <3>1, <3>2, <5>1, <5>3
        <5> QED
          BY <3>0, <4>1, <5>1, <5>2, <5>3 DEF DownReported
      <4> QED
        BY <4>4, <4>5, <4>6 DEF DownReported
    <3>7. ASSUME NEW k \in Link, NEW j \in 1 .. n + 1, inbox'[j] = Connected(k)
          PROVE  conn[k] \in {"up", "down"} /\ Preceded(k, j)
      <4>1. CASE j = n + 1
        <5>1. Posting(Connected(k))
          BY <3>3, <3>7, <4>1 DEF Posting, Connected
        <5> QED
          BY <3>0, <4>1, <5>1 DEF Notices
      <4>2. CASE j \in 1 .. n
        BY <3>0, <3>2, <3>7, <4>2 DEF Notices
      <4> QED
        BY <3>1, <4>1, <4>2
    <3> QED
      BY <2>1, <3>0, <3>2, <3>4, <3>5, <3>6, <3>7 DEF Notices
  <2> QED
    BY <2>1, <2>2, <2>3, Frames
<1>21. CASE MainConnected
  <2>1. UNCHANGED <<conn, vx, stop, isfin, mx, exch, queued, sync, cnt, subs, updates,
                    db, age, revoked, fails>>
    BY <1>21 DEF MainConnected, hub, locals, exchs, cntl, rows
  <2>2. HubOK'
    BY <1>21, <2>1 DEF MainConnected, Goto, HubOK
  <2>3. MainOK'
    <3>1. Head(inbox).link \in Link
      BY <1>21, HeadMessage DEF MainConnected, StopMsg
    <3> QED
      BY <1>21, <3>1 DEF MainConnected, Goto, MainOK
  <2>4. LocalsOK'
    BY <1>21, <2>1, HeadMessage DEF MainConnected, LocalsOK, StopMsg
  <2>5. CtlOK'
    BY <1>21, <2>1 DEF MainConnected, Goto, CtlOK, MainInv
  <2>6. ListInv'
    <3> DEFINE k == Head(inbox).link
    <3>1. k \in Link /\ inbox[1] = Connected(k) /\ 1 \in 1 .. Len(inbox)
      BY <1>21, HeadMessage DEF MainConnected, StopMsg, HubOK
    <3>2. conn[k] \in {"up", "down"} /\ Preceded(k, 1) /\ \A l : ~ Closing(l)
      BY <1>21, <3>1 DEF MainConnected, MainInv, NoticesInOrder, Notices, Closing
    <3>3. ctl[k] = "none" /\ \A l \in Link : AgentOf[l] = AgentOf[k] => ~ Running(l)
      BY <3>2 DEF Preceded
    <3>4. list' = [list EXCEPT ![AgentOf[k]] = k] /\ ctl' = [ctl EXCEPT ![k] = "start"]
      BY <1>21 DEF MainConnected
    <3> QED
      BY <2>1, <3>1, <3>2, <3>3, <3>4 DEF ListInv, ListTruth, Running, CtlOK, LocalsOK
  <2>7. MainInv'
    BY <1>21, <2>1, HeadMessage DEF MainConnected, Goto, MainInv, MainOK, Started, CtlOK,
       StopMsg
  <2>8. MutexInv'
    BY <1>21, <2>1 DEF MainConnected, Goto, MutexInv, Started, CtlOK, LocalsOK, MainOK,
       MainInv, SyncOK, ExchsOK
  <2>9. NoticesInOrder'
    <3> SUFFICES ASSUME Notices, main.then = "idle" PROVE Notices'
      BY <1>21 DEF NoticesInOrder, MainConnected, MainInv
    <3> DEFINE n == Len(inbox)
    <3>1. n \in Nat \ {0} /\ inbox' = Tail(inbox)
      BY <1>21 DEF MainConnected, HubOK
    <3>2. Len(inbox') = n - 1 /\ \A i \in 1 .. n - 1 : inbox'[i] = inbox[i + 1]
      BY <3>1 DEF HubOK
    <3>3. \A i \in 2 .. n : i - 1 \in 1 .. n - 1 /\ inbox'[i - 1] = inbox[i]
      BY <3>1, <3>2
    <3>4. PICK k \in Link : k = Head(inbox).link /\ inbox[1] = Connected(k)
      BY <1>21, HeadMessage DEF MainConnected, StopMsg
    <3>5. (\A l : inbox[1] # Disconnected(l)) /\ \A l : inbox[1] = Connected(l) => l = k
      BY <3>4 DEF Connected, Disconnected
    <3>6. /\ \A l \in Link : Running(l)' => l = k \/ Running(l)
          /\ \A l \in Link : l # k /\ ctl[l] = "none" => ctl'[l] = "none"
      BY <1>21, <3>4 DEF MainConnected, Running, CtlOK
    <3>7. \A l : ~ Closing(l)
      BY <1>21 DEF MainConnected, Closing
    <3>8. ASSUME NEW q \in Link, NEW j \in 2 .. n + 1, Preceded(q, j)
          PROVE  Preceded(q, j - 1)'
      <4>1. q # k /\ ctl'[q] = "none"
        BY <3>1, <3>4, <3>6, <3>8 DEF Preceded
      <4>2. ASSUME NEW l \in Link, AgentOf[l] = AgentOf[q], Running(l)'
            PROVE  \E i \in 1 .. (j - 1) - 1 : inbox'[i] = Disconnected(l)
        <5>1. PICK i \in 2 .. j - 1 : inbox[i] = Disconnected(l)
          <6>1. CASE l = k
            BY <3>1, <3>4, <3>8, <4>2, <6>1 DEF Preceded
          <6>2. CASE l # k
            BY <3>1, <3>5, <3>6, <3>7, <3>8, <4>2, <6>2 DEF Preceded
          <6> QED
            BY <6>1, <6>2
        <5>2. i - 1 \in 1 .. (j - 1) - 1 /\ inbox'[i - 1] = Disconnected(l)
          BY <3>1, <3>3, <5>1
        <5> QED
          BY <5>2
      <4>3. ASSUME NEW i \in 1 .. (j - 1) - 1, NEW l \in Link,
                   inbox'[i] = Connected(l), AgentOf[l] = AgentOf[q]
            PROVE  l # q /\ \E m \in i + 1 .. (j - 1) - 1 : inbox'[m] = Disconnected(l)
        <5>1. i + 1 \in 1 .. j - 1 /\ inbox[i + 1] = Connected(l)
          BY <3>1, <3>2, <4>3
        <5>2. l # q /\ \E m \in (i + 1) + 1 .. j - 1 : inbox[m] = Disconnected(l)
          BY <3>8, <4>3, <5>1 DEF Preceded
        <5> QED
          BY <3>1, <3>3, <5>2
      <4> QED
        BY <2>1, <4>1, <4>2, <4>3 DEF Preceded
    <3>9. ASSUME NEW l \in Link, conn[l] = "down", DownReported(l)
          PROVE  DownReported(l)'
      <4>1. ASSUME Running(l)', ~ Posting(Disconnected(l))
            PROVE  \E m \in 2 .. n : inbox[m] = Disconnected(l)
        <5>1. CASE l = k
          BY <3>1, <3>4, <3>9, <4>1, <5>1 DEF DownReported
        <5>2. CASE l # k
          BY <3>1, <3>5, <3>6, <3>7, <3>9, <4>1, <5>2 DEF DownReported
        <5> QED
          BY <5>1, <5>2
      <4>2. ASSUME NEW i \in 1 .. n - 1, inbox'[i] = Connected(l), ~ Posting(Disconnected(l))
            PROVE  \E m \in (i + 1) + 1 .. n : inbox[m] = Disconnected(l)
        BY <3>1, <3>2, <3>9, <4>2 DEF DownReported
      <4>3. Posting(Disconnected(l))' <=> Posting(Disconnected(l))
        BY <2>1 DEF Posting, Disconnected
      <4>4. \A i \in 1 .. n : (\E m \in i + 1 .. n : inbox[m] = Disconnected(l)) =>
              \E m \in i .. n - 1 : inbox'[m] = Disconnected(l)
        <5> TAKE i \in 1 .. n
        <5> HAVE \E m \in i + 1 .. n : inbox[m] = Disconnected(l)
        <5>1. PICK m \in i + 1 .. n : inbox[m] = Disconnected(l)
          OBVIOUS
        <5>2. m - 1 \in i .. n - 1 /\ inbox'[m - 1] = Disconnected(l)
          BY <3>1, <3>3, <5>1
        <5> QED
          BY <5>2
      <4> QED
        BY <3>1, <3>2, <4>1, <4>2, <4>3, <4>4 DEF DownReported
    <3>10. \A l \in Link, j \in 1 .. n - 1 : inbox'[j] = Connected(l) =>
             conn[l] \in {"up", "down"} /\ Preceded(l, j + 1)
      BY <3>1, <3>2 DEF Notices
    <3> QED
      BY <2>1, <3>1, <3>2, <3>8, <3>9, <3>10 DEF Notices, Posting
  <2>10. NoGhost'
    BY <1>21, <2>1 DEF MainConnected, Goto, NoGhost, Running, SyncOK, CtlOK, RowsOK
  <2> QED
    BY <2>1, <2>2, <2>3, <2>4, <2>5, <2>6, <2>7, <2>8, <2>9, <2>10, Frames
<1>22. CASE MainStarted
  <2>1. UNCHANGED <<conn, vx, inbox, stop, list, isfin, mx, exch, sync, cnt, subs,
                    updates, db, age, revoked, fails>>
    BY <1>22 DEF MainStarted, hub, locals, exchs, cntl, rows
  <2>2. MainOK'
    BY <1>22, <2>1 DEF MainStarted, Resume, Goto, Spawn, MainOK, MainInv
  <2>3. CtlOK'
    BY <1>22, <2>1 DEF MainStarted, Resume, Goto, Spawn, CtlOK, MainInv
  <2>4. ExchsOK'
    BY <1>22, <2>1, SpawnTyped DEF MainStarted, MainInv, Started
  <2>5. ListInv'
    BY <1>22, <2>1 DEF MainStarted, Resume, Goto, Spawn, ListInv, ListTruth, Running,
       CtlOK, LocalsOK, HubOK
  <2>6. MainInv'
    BY <1>22, <2>1 DEF MainStarted, Resume, Goto, Spawn, MainInv, MainOK, Started, CtlOK
  <2>7. MutexInv'
    BY <1>22, <2>1 DEF MainStarted, Resume, Goto, Spawn, MutexInv, Started, CtlOK,
       LocalsOK, MainOK, MainInv, SyncOK, ExchsOK
  <2>8. NoticesInOrder'
    BY <1>22, <2>1, NoticesKept DEF MainStarted, Resume, Goto, Spawn, CtlOK, MainOK,
       Running, Closing
  <2>9. NoGhost'
    BY <1>22, <2>1 DEF MainStarted, Resume, Goto, Spawn, NoGhost, Running, SyncOK, CtlOK,
       RowsOK
  <2> QED
    BY <2>1, <2>2, <2>3, <2>4, <2>5, <2>6, <2>7, <2>8, <2>9, Frames
<1>23. CASE MainDisconnected
  <2>1. UNCHANGED <<conn, vx, stop, list, isfin, mx, ctl, exch, queued, sync, cnt, subs,
                    updates, db, age, revoked, fails>>
    BY <1>23 DEF MainDisconnected, hub, locals, exchs, cntl, rows
  <2>2. HubOK'
    BY <1>23, <2>1 DEF MainDisconnected, Goto, HubOK
  <2>3. MainOK'
    <3> DEFINE k == list[AgentOf[Head(inbox).link]]
    <3>1. k \in Link \cup {None}
      BY <1>23, HeadMessage DEF MainDisconnected, StopMsg, LocalsOK
    <3>2. main' = IF k = None THEN main ELSE Goto("lock", k)
      BY <1>23 DEF MainDisconnected
    <3> HIDE DEF k
    <3> QED
      BY <3>1, <3>2 DEF Goto, MainOK
  <2>4. MainInv'
    <3> DEFINE k == list[AgentOf[Head(inbox).link]]
    <3>1. k = None \/ k \in Started
      BY <1>23, HeadMessage DEF MainDisconnected, StopMsg, LocalsOK, ListInv, ListTruth,
         Running, Started
    <3>2. main' = IF k = None THEN main ELSE Goto("lock", k)
      BY <1>23 DEF MainDisconnected
    <3>3. Started' = Started
      BY <2>1 DEF Started
    <3> HIDE DEF k
    <3> QED
      BY <3>1, <3>2, <3>3 DEF Goto, MainOK, MainInv
  <2>5. MutexInv'
    BY <1>23, <2>1 DEF MainDisconnected, Goto, MutexInv, Started, CtlOK, LocalsOK,
       MainOK, MainInv, SyncOK, ExchsOK
  <2>6. NoticesInOrder'
    <3> SUFFICES ASSUME Notices, main.then = "idle", main'.then = "idle" PROVE Notices'
      BY <1>23 DEF NoticesInOrder, MainDisconnected, MainInv
    <3> DEFINE n == Len(inbox)
    <3>1. n \in Nat \ {0} /\ inbox' = Tail(inbox)
      BY <1>23 DEF MainDisconnected, HubOK
    <3>2. Len(inbox') = n - 1 /\ \A i \in 1 .. n - 1 : inbox'[i] = inbox[i + 1]
      BY <3>1 DEF HubOK
    <3>3. \A i \in 2 .. n : i - 1 \in 1 .. n - 1 /\ inbox'[i - 1] = inbox[i]
      BY <3>1, <3>2
    <3>4. PICK k \in Link : k = Head(inbox).link /\ inbox[1] = Disconnected(k)
      BY <1>23, HeadMessage DEF MainDisconnected, StopMsg
    <3>5. \A l : inbox[1] = Disconnected(l) => l = k
      BY <3>4 DEF Connected, Disconnected
    <3>6. \A l : ~ Closing(l)
      BY <1>23 DEF MainDisconnected, Closing
    <3>7. Running(k) => Closing(k)'
      <4>1. SUFFICES ASSUME Running(k) PROVE Closing(k)'
        OBVIOUS
      <4>2. list[AgentOf[k]] = k /\ k # None
        BY <3>4, <4>1 DEF ListInv, ListTruth
      <4>3. main' = Goto("lock", k)
        BY <1>23, <3>4, <4>2 DEF MainDisconnected
      <4> QED
        BY <4>3 DEF Goto, MainOK, Closing
    <3>8. ASSUME NEW q \in Link, NEW j \in 2 .. n + 1, Preceded(q, j)
          PROVE  Preceded(q, j - 1)'
      <4>1. ASSUME NEW l \in Link, AgentOf[l] = AgentOf[q], Running(l), ~ Closing(l)'
            PROVE  \E i \in 2 .. j - 1 : inbox[i] = Disconnected(l)
        BY <3>1, <3>5, <3>6, <3>7, <3>8, <4>1 DEF Preceded
      <4>2. ASSUME NEW i \in 1 .. (j - 1) - 1, NEW l \in Link,
                   inbox'[i] = Connected(l), AgentOf[l] = AgentOf[q]
            PROVE  l # q /\ \E m \in i + 1 .. (j - 1) - 1 : inbox'[m] = Disconnected(l)
        <5>1. i + 1 \in 1 .. j - 1 /\ inbox[i + 1] = Connected(l)
          BY <3>1, <3>2, <4>2
        <5>2. l # q /\ \E m \in (i + 1) + 1 .. j - 1 : inbox[m] = Disconnected(l)
          BY <3>8, <4>2, <5>1 DEF Preceded
        <5>3. PICK m \in (i + 1) + 1 .. j - 1 : inbox[m] = Disconnected(l)
          BY <5>2
        <5>4. m \in 2 .. n /\ m - 1 \in i + 1 .. (j - 1) - 1
          BY <3>1
        <5>5. inbox'[m - 1] = Disconnected(l)
          BY <3>3, <5>3, <5>4
        <5> QED
          BY <5>2, <5>4, <5>5
      <4>3. ctl[q] = "none"
        BY <3>8 DEF Preceded
      <4> QED
        <5>1. ASSUME NEW l \in Link, AgentOf[l] = AgentOf[q], Running(l)', ~ Closing(l)'
              PROVE  \E i \in 1 .. (j - 1) - 1 : inbox'[i] = Disconnected(l)
          <6>1. Running(l)
            BY <2>1, <5>1 DEF Running
          <6>2. PICK i \in 2 .. j - 1 : inbox[i] = Disconnected(l)
            BY <4>1, <5>1, <6>1
          <6>3. i - 1 \in 1 .. (j - 1) - 1 /\ inbox'[i - 1] = Disconnected(l)
            BY <3>1, <3>3, <6>2
          <6> QED
            BY <6>3
        <5> QED
          BY <2>1, <4>2, <4>3, <5>1 DEF Preceded
    <3>9. ASSUME NEW l \in Link, conn[l] = "down", DownReported(l)
          PROVE  DownReported(l)'
      <4>1. ASSUME Running(l), ~ Posting(Disconnected(l)), ~ Closing(l)'
            PROVE  \E m \in 2 .. n : inbox[m] = Disconnected(l)
        BY <3>1, <3>5, <3>6, <3>7, <3>9, <4>1 DEF DownReported
      <4>2. ASSUME NEW i \in 1 .. n - 1, inbox'[i] = Connected(l), ~ Posting(Disconnected(l))
            PROVE  \E m \in (i + 1) + 1 .. n : inbox[m] = Disconnected(l)
        BY <3>1, <3>2, <3>9, <4>2 DEF DownReported
      <4>3. /\ Posting(Disconnected(l))' <=> Posting(Disconnected(l))
            /\ Running(l)' <=> Running(l)
        BY <2>1 DEF Posting, Disconnected, Running
      <4>4. \A i \in 1 .. n : (\E m \in i + 1 .. n : inbox[m] = Disconnected(l)) =>
              \E m \in i .. n - 1 : inbox'[m] = Disconnected(l)
        <5> TAKE i \in 1 .. n
        <5> HAVE \E m \in i + 1 .. n : inbox[m] = Disconnected(l)
        <5>1. PICK m \in i + 1 .. n : inbox[m] = Disconnected(l)
          OBVIOUS
        <5>2. m - 1 \in i .. n - 1 /\ inbox'[m - 1] = Disconnected(l)
          BY <3>1, <3>3, <5>1
        <5> QED
          BY <5>2
      <4> QED
        BY <3>1, <3>2, <4>1, <4>2, <4>3, <4>4 DEF DownReported
    <3>10. \A l \in Link, j \in 1 .. n - 1 : inbox'[j] = Connected(l) =>
             conn[l] \in {"up", "down"} /\ Preceded(l, j + 1)
      BY <3>1, <3>2 DEF Notices
    <3> QED
      BY <2>1, <3>1, <3>2, <3>8, <3>9, <3>10 DEF Notices, Posting
  <2> QED
    BY <2>1, <2>2, <2>3, <2>4, <2>5, <2>6, Frames
<1>24. CASE MainLock
  <2>1. UNCHANGED <<conn, vx, inbox, stop, list, isfin, ctl, exch, queued, sync, cnt,
                    subs, updates, db, age, revoked, fails>>
    BY <1>24 DEF MainLock, hub, locals, exchs, cntl, rows
  <2>2. MainOK'
    BY <1>24, <2>1 DEF MainLock, Goto, Resume, MainOK, MainInv
  <2>3. LocalsOK'
    BY <1>24, <2>1 DEF MainLock, Goto, Resume, LocalsOK
  <2>4. MainInv'
    <3>1. Started' = Started
      BY <2>1 DEF Started
    <3>2. main' = Goto(main.then, None) \/ main' = Goto("quit", main.link)
      BY <1>24 DEF MainLock, Resume
    <3>3. main.pc = "lock" /\ main.then \in {"idle", "stop"}
      BY <1>24 DEF MainLock, MainOK
    <3> QED
      BY <3>1, <3>2, <3>3 DEF Goto, MainOK, MainInv
  <2>5. MutexInv'
    <3>1. CASE main.link \in isfin
      <4>1. main' = Goto(main.then, None) /\ mx' = mx /\ main.pc = "lock"
        BY <1>24, <3>1 DEF MainLock, Resume
      <4>2. main'.pc \in {"idle", "stop"}
        BY <4>1 DEF Goto, MainOK
      <4> QED
        BY <2>1, <4>1, <4>2 DEF MutexInv, Started
    <3>2. CASE main.link \notin isfin
      <4>1. /\ main' = Goto("quit", main.link) /\ mx' = [mx EXCEPT ![main.link] = "main"]
            /\ main.pc = "lock" /\ mx[main.link] = "free"
        BY <1>24, <3>2 DEF MainLock
      <4>2. main'.pc = "quit" /\ main'.link = main.link
        BY <4>1 DEF Goto, MainOK
      <4> QED
        BY <2>1, <4>1, <4>2 DEF MutexInv, Started, MainInv, LocalsOK
    <3> QED
      BY <3>1, <3>2
  <2>6. NoticesInOrder'
    <3>1. main.pc = "lock" /\ main'.then = main.then
      BY <1>24 DEF MainLock, Goto, Resume, MainOK
    <3>2. main.link \notin isfin => main'.pc = "quit" /\ main'.link = main.link
      BY <1>24 DEF MainLock, Goto, MainOK
    <3>3. \A k \in Link : Running(k)' => Running(k) /\ k \notin isfin
      BY <2>1 DEF Running, ListInv, ListTruth
    <3> QED
      BY <2>1, <3>1, <3>2, <3>3, NoticesKept DEF Closing
  <2> QED
    BY <2>1, <2>2, <2>3, <2>4, <2>5, <2>6, Frames
<1>25. CASE MainQuit
  <2>1. UNCHANGED <<conn, vx, inbox, stop, list, isfin, mx, exch, queued, sync, cnt,
                    subs, updates, db, age, revoked, fails>>
    BY <1>25 DEF MainQuit, hub, locals, exchs, cntl, rows
  <2>2. MainOK'
    BY <1>25, <2>1 DEF MainQuit, Goto, MainOK, MainInv
  <2>3. CtlOK'
    BY <1>25, <2>1 DEF MainQuit, Goto, CtlOK, MainInv
  <2>4. ListInv'
    BY <1>25, <2>1 DEF MainQuit, Goto, ListInv, ListTruth, Running, CtlOK, LocalsOK, HubOK
  <2>5. MainInv'
    BY <1>25, <2>1 DEF MainQuit, Goto, MainInv, MainOK, Started, CtlOK
  <2>6. MutexInv'
    BY <1>25, <2>1 DEF MainQuit, Goto, MutexInv, Started, CtlOK, LocalsOK, MainOK,
       MainInv, SyncOK, ExchsOK
  <2>7. NoticesInOrder'
    BY <1>25, <2>1, NoticesKept DEF MainQuit, Goto, CtlOK, MainOK, Running, Closing
  <2>8. NoGhost'
    BY <1>25, <2>1 DEF MainQuit, Goto, NoGhost, Running, SyncOK, CtlOK, RowsOK
  <2> QED
    BY <2>1, <2>2, <2>3, <2>4, <2>5, <2>6, <2>7, <2>8, Frames
<1>26. CASE MainDone
  <2>1. UNCHANGED <<conn, vx, inbox, stop, list, isfin, exch, queued, sync, cnt, subs,
                    updates, db, age, revoked, fails>>
    BY <1>26 DEF MainDone, hub, locals, exchs, cntl, rows
  <2>2. MainOK'
    BY <1>26, <2>1 DEF MainDone, Resume, Goto, MainOK, MainInv
  <2>3. LocalsOK'
    BY <1>26, <2>1 DEF MainDone, Resume, Goto, LocalsOK
  <2>4. CtlOK'
    BY <1>26, <2>1 DEF MainDone, Resume, Goto, CtlOK, MainInv
  <2>5. ListInv'
    BY <1>26, <2>1 DEF MainDone, Resume, Goto, ListInv, ListTruth, Running, CtlOK,
       LocalsOK, HubOK
  <2>6. MainInv'
    BY <1>26, <2>1 DEF MainDone, Resume, Goto, MainInv, MainOK, Started, CtlOK
  <2>7. MutexInv'
    BY <1>26, <2>1 DEF MainDone, Resume, Goto, MutexInv, Started, CtlOK, LocalsOK,
       MainOK, MainInv, SyncOK, ExchsOK
  <2>8. NoticesInOrder'
    BY <1>26, <2>1, NoticesKept DEF MainDone, Resume, Goto, CtlOK, MainOK, Running, Closing
  <2>9. NoGhost'
    BY <1>26, <2>1 DEF MainDone, Resume, Goto, NoGhost, Running, SyncOK, CtlOK, RowsOK
  <2> QED
    BY <2>1, <2>2, <2>3, <2>4, <2>5, <2>6, <2>7, <2>8, <2>9, Frames
<1>27. CASE StopAsk
  <2>1. UNCHANGED <<conn, vx, inbox, main, list, isfin, mx, ctl, exch, queued, sync, cnt,
                    subs, updates, db, age, revoked, fails>>
    BY <1>27 DEF StopAsk, hub, locals, exchs, cntl, rows
  <2>2. HubOK'
    BY <1>27, <2>1 DEF StopAsk, HubOK
  <2> QED
    BY <2>1, <2>2, Frames
<1>28. CASE StopSend
  <2>1. UNCHANGED <<conn, vx, main, list, isfin, mx, ctl, exch, queued, sync, cnt, subs,
                    updates, db, age, revoked, fails>>
    BY <1>28 DEF StopSend, hub, locals, exchs, cntl, rows
  <2>2. HubOK'
    BY <1>28, <2>1 DEF StopSend, HubOK
  <2>3. NoticesInOrder'
    <3> SUFFICES ASSUME Notices, main.then = "idle" PROVE Notices'
      BY <2>1 DEF NoticesInOrder
    <3>0. PICK n \in Nat : n = Len(inbox)
      BY DEF HubOK
    <3>1. n \in Nat /\ inbox' = Append(inbox, StopMsg)
      BY <1>28 DEF StopSend, HubOK
    <3>2. Len(inbox') = n + 1 /\ inbox'[n + 1] = StopMsg /\ (\A i \in 1 .. n : inbox'[i] = inbox[i])
      BY <3>0, <3>1 DEF HubOK
    <3>3. \A k : StopMsg # Connected(k) /\ StopMsg # Disconnected(k)
      BY DEF StopMsg, Connected, Disconnected
    <3>4. \A k \in Link, j \in 1 .. n : Preceded(k, j) => Preceded(k, j)'
      BY <2>1, <3>1, <3>2 DEF Preceded, Running, Closing
    <3>5. ASSUME NEW k \in Link, Preceded(k, n + 1)
          PROVE  Preceded(k, (n + 1) + 1)'
      <4>1. (n + 1) - 1 = n /\ ((n + 1) + 1) - 1 = n + 1 /\ 1 .. n + 1 = 1 .. n \cup {n + 1}
        BY <3>1
      <4>2. \A l : (Running(l)' <=> Running(l)) /\ (Closing(l)' <=> Closing(l))
        BY <2>1 DEF Running, Closing
      <4>3. ASSUME NEW i \in 1 .. n + 1, NEW l \in Link, inbox'[i] = Connected(l), AgentOf[l] = AgentOf[k]
            PROVE  l # k /\ \E m \in i + 1 .. n + 1 : inbox'[m] = Disconnected(l)
        <5>1. i \in 1 .. n /\ inbox[i] = Connected(l)
          BY <3>2, <3>3, <4>1, <4>3
        <5>2. l # k /\ \E m \in i + 1 .. n : inbox[m] = Disconnected(l)
          BY <3>5, <4>1, <4>3, <5>1 DEF Preceded
        <5> QED
          BY <3>1, <3>2, <5>1, <5>2
      <4>4. ASSUME NEW l \in Link, AgentOf[l] = AgentOf[k], Running(l)', ~ Closing(l)'
            PROVE  \E i \in 1 .. n + 1 : inbox'[i] = Disconnected(l)
        BY <3>1, <3>2, <3>5, <4>1, <4>2, <4>4 DEF Preceded
      <4>5. ctl'[k] = "none"
        BY <2>1, <3>5 DEF Preceded
      <4> QED
        BY <4>1, <4>3, <4>4, <4>5 DEF Preceded
    <3>6. \A k \in Link : DownReported(k) => DownReported(k)'
      BY <2>1, <3>0, <3>1, <3>2, <3>3 DEF DownReported, Running, Closing, Posting
    <3>7. \A k \in Link : Posting(Connected(k))' <=> Posting(Connected(k))
      BY <2>1 DEF Posting, Connected
    <3> QED
      <4>1. ASSUME NEW k \in Link, NEW j \in 1 .. n + 1, inbox'[j] = Connected(k)
            PROVE  conn'[k] \in {"up", "down"} /\ Preceded(k, j)'
        <5>1. j \in 1 .. n /\ inbox[j] = Connected(k)
          BY <3>1, <3>2, <3>3, <4>1
        <5> QED
          BY <2>1, <3>0, <3>4, <5>1 DEF Notices
      <4>2. ASSUME NEW k \in Link, Posting(Connected(k))'
            PROVE  conn'[k] = "up" /\ Preceded(k, (n + 1) + 1)'
        BY <2>1, <3>0, <3>5, <3>7, <4>2 DEF Notices
      <4>3. ASSUME NEW k \in Link, conn'[k] = "down" PROVE DownReported(k)'
        BY <2>1, <3>6, <4>3 DEF Notices
      <4> QED
        BY <3>2, <4>1, <4>2, <4>3 DEF Notices
  <2> QED
    BY <2>1, <2>2, <2>3, Frames
<1>29. CASE MainStop
  <2>1. UNCHANGED <<conn, vx, stop, list, isfin, mx, ctl, exch, queued, sync, cnt, subs,
                    updates, db, age, revoked, fails>>
    BY <1>29 DEF MainStop, hub, locals, exchs, cntl, rows
  <2>2. HubOK'
    BY <1>29, <2>1 DEF MainStop, HubOK
  <2>3. MainOK'
    BY <1>29, <2>1 DEF MainStop, MainOK, MainInv
  <2>4. MainInv'
    BY <1>29, <2>1 DEF MainStop, MainInv, MainOK, Started, CtlOK
  <2>5. MutexInv'
    BY <1>29, <2>1 DEF MainStop, MutexInv, Started, CtlOK, LocalsOK, MainOK, MainInv,
       SyncOK, ExchsOK
  <2>6. NoticesInOrder'
    BY <1>29, <2>1 DEF MainStop, NoticesInOrder, MainOK
  <2> QED
    BY <2>1, <2>2, <2>3, <2>4, <2>5, <2>6, Frames
<1>30. CASE StopSyncAgents
  <2>1. UNCHANGED <<conn, vx, inbox, stop, list, isfin, mx, ctl, exch, queued, cnt, subs,
                    updates, db, age, revoked, fails>>
    BY <1>30 DEF StopSyncAgents, hub, locals, exchs, cntl, rows
  <2>2. MainOK'
    BY <1>30, <2>1 DEF StopSyncAgents, Goto, MainOK, MainInv
  <2>3. SyncOK'
    BY <1>30, <2>1 DEF StopSyncAgents, Goto, SyncOK
  <2>4. MainInv'
    BY <1>30, <2>1 DEF StopSyncAgents, Goto, MainInv, MainOK, Started, CtlOK
  <2>5. MutexInv'
    BY <1>30, <2>1 DEF StopSyncAgents, Goto, MutexInv, Started, CtlOK, LocalsOK, MainOK,
       MainInv, SyncOK, ExchsOK
  <2>6. NoticesInOrder'
    BY <1>30, <2>1, NoticesKept DEF StopSyncAgents, Goto, CtlOK, MainOK, Running, Closing
  <2>7. NoGhost'
    BY <1>30, <2>1 DEF StopSyncAgents, Goto, NoGhost, Running, SyncOK, CtlOK, RowsOK
  <2> QED
    BY <2>1, <2>2, <2>3, <2>4, <2>5, <2>6, <2>7, Frames
<1>31. CASE StopDump
  <2>1. UNCHANGED <<conn, vx, inbox, stop, list, isfin, mx, ctl, exch, queued, sync, cnt,
                    subs, updates, db, age, revoked, fails>>
    BY <1>31 DEF StopDump, hub, locals, exchs, cntl, rows
  <2>2. MainOK'
    BY <1>31, <2>1, ListedStarted DEF StopDump, MainOK, Started
  <2>3. MainInv'
    BY <1>31, <2>1, ListedStarted DEF StopDump, MainInv, MainOK, Started
  <2>4. MutexInv'
    BY <1>31, <2>1 DEF StopDump, Listed, MutexInv, Started, CtlOK, LocalsOK, MainOK,
       MainInv, SyncOK, ExchsOK
  <2>5. NoticesInOrder'
    BY <1>31, <2>1, NoticesKept DEF StopDump, Listed, CtlOK, MainOK, Running, Closing
  <2> QED
    BY <2>1, <2>2, <2>3, <2>4, <2>5, Frames
<1>32. CASE StopWait
  <2>1. UNCHANGED <<conn, vx, inbox, stop, list, isfin, mx, ctl, exch, queued, sync, cnt,
                    subs, updates, db, age, revoked, fails>>
    BY <1>32 DEF StopWait, hub, locals, exchs, cntl, rows
  <2>2. MainOK'
    BY <1>32, <2>1 DEF StopWait, Goto, MainOK, MainInv
  <2>3. MainInv'
    BY <1>32, <2>1 DEF StopWait, Goto, MainInv, MainOK, Started, CtlOK
  <2>4. MutexInv'
    BY <1>32, <2>1 DEF StopWait, Goto, MutexInv, Started, CtlOK, LocalsOK, MainOK,
       MainInv, SyncOK, ExchsOK
  <2>5. NoticesInOrder'
    BY <1>32, <2>1, NoticesKept DEF StopWait, Goto, CtlOK, MainOK, Running, Closing
  <2> QED
    BY <2>1, <2>2, <2>3, <2>4, <2>5, Frames
<1>33. CASE StopController
  <2>1. UNCHANGED <<conn, vx, inbox, stop, list, isfin, mx, ctl, exch, queued, sync,
                    subs, updates, db, age, revoked, fails>>
    BY <1>33 DEF StopController, hub, locals, exchs, cntl, rows
  <2>2. MainOK'
    BY <1>33, <2>1 DEF StopController, Goto, MainOK, MainInv
  <2>3. CntlOK'
    BY <1>33, <2>1 DEF StopController, Goto, CntlOK
  <2>4. MainInv'
    BY <1>33, <2>1 DEF StopController, Goto, MainInv, MainOK, Started, CtlOK
  <2>5. MutexInv'
    BY <1>33, <2>1 DEF StopController, Goto, MutexInv, Started, CtlOK, LocalsOK, MainOK,
       MainInv, SyncOK, ExchsOK
  <2>6. NoticesInOrder'
    BY <1>33, <2>1, NoticesKept DEF StopController, Goto, CtlOK, MainOK, Running, Closing
  <2> QED
    BY <2>1, <2>2, <2>3, <2>4, <2>5, <2>6, Frames
<1>34. CASE StopDelModule
  <2>1. UNCHANGED <<conn, vx, inbox, stop, list, isfin, mx, ctl, exch, queued, sync, cnt,
                    subs, updates, db, age, revoked, fails>>
    BY <1>34 DEF StopDelModule, hub, locals, exchs, cntl, rows
  <2>2. MainOK'
    BY <1>34, <2>1 DEF StopDelModule, Goto, MainOK, MainInv
  <2>3. MainInv'
    BY <1>34, <2>1 DEF StopDelModule, Goto, MainInv, MainOK, Started, CtlOK
  <2>4. MutexInv'
    BY <1>34, <2>1 DEF StopDelModule, Goto, MutexInv, Started, CtlOK, LocalsOK, MainOK,
       MainInv, SyncOK, ExchsOK
  <2>5. NoticesInOrder'
    BY <1>34, <2>1, NoticesKept DEF StopDelModule, Goto, CtlOK, MainOK, Running, Closing
  <2> QED
    BY <2>1, <2>2, <2>3, <2>4, <2>5, Frames
<1>35. CASE SyncBoot
  <2>1. UNCHANGED <<conn, vx, inbox, stop, main, list, isfin, mx, ctl, exch, queued, cnt,
                    subs, updates, age, revoked>>
    BY <1>35 DEF SyncBoot, hub, locals, exchs, cntl, rows
  <2>2. SyncOK'
    BY <1>35, <2>1 DEF SyncBoot, Outcome, SyncOK
  <2>3. RowsOK'
    BY <1>35, <2>1 DEF SyncBoot, Outcome, RowsOK
  <2>4. MutexInv'
    BY <1>35, <2>1 DEF SyncBoot, Outcome, MutexInv, Started, CtlOK, LocalsOK, MainOK,
       MainInv, SyncOK, ExchsOK
  <2>5. NoGhost'
    <3>1. PICK ok \in BOOLEAN : Outcome(ok) /\ db' = [a \in Agent |-> db[a] /\ ~ok]
      BY <1>35 DEF SyncBoot
    <3>2. fails' = 0 => ok
      BY <3>1 DEF Outcome, RowsOK
    <3> QED
      BY <3>1, <3>2 DEF NoGhost
  <2> QED
    BY <2>1, <2>2, <2>3, <2>4, <2>5, Frames
<1>36. CASE SyncDump
  <2>1. UNCHANGED <<conn, vx, inbox, stop, main, list, isfin, mx, ctl, exch, queued, cnt,
                    subs, updates, db, age, revoked, fails>>
    BY <1>36 DEF SyncDump, hub, locals, exchs, cntl, rows
  <2>2. SyncOK'
    BY <1>36, <2>1, ListedStarted DEF SyncDump, SyncOK, Started
  <2>3. MutexInv'
    BY <1>36, <2>1, ListedStarted DEF SyncDump, MutexInv, SyncOK, Started
  <2>4. NoGhost'
    BY <1>36, <2>1 DEF SyncDump, Listed, NoGhost, Running, SyncOK, CtlOK, RowsOK
  <2> QED
    BY <2>1, <2>2, <2>3, <2>4, Frames
<1>37. CASE SyncAlive
  <2>1. UNCHANGED <<conn, vx, inbox, stop, main, list, isfin, ctl, exch, queued, cnt,
                    subs, updates, revoked>>
    BY <1>37 DEF SyncAlive, hub, locals, exchs, cntl, rows
  <2>2. LocalsOK'
    BY <1>37, <2>1 DEF SyncAlive, Outcome, LocalsOK
  <2>3. SyncOK'
    BY <1>37, <2>1 DEF SyncAlive, Outcome, SyncOK
  <2>4. RowsOK'
    BY <1>37, <2>1 DEF SyncAlive, Outcome, RowsOK
  <2>5. MutexInv'
    BY <1>37, <2>1 DEF SyncAlive, Outcome, MutexInv, Started, CtlOK, LocalsOK, MainOK,
       MainInv, SyncOK, ExchsOK
  <2>6. NoGhost'
    <3> DEFINE alive == {AgentOf[l] : l \in {k \in Link : mx[k] = "sync"}}
    <3>1. PICK ok \in BOOLEAN : Outcome(ok) /\ db' = [a \in Agent |-> db[a] \/ (ok /\ a \in alive)]
      BY <1>37 DEF SyncAlive
    <3>2. fails' = 0 => fails = 0
      BY <3>1 DEF Outcome, RowsOK
    <3>3. \A a \in Agent : db'[a] => db[a] \/ \E l \in Link : AgentOf[l] = a /\ mx[l] = "sync"
      BY <3>1
    <3>4. \A l \in Link : mx[l] = "sync" => Running(l) /\ ctl[l] # "del"
      BY DEF MutexInv, Running
    <3>5. sync.pc # "boot"
      BY <1>37 DEF SyncAlive
    <3> QED
      BY <2>1, <3>2, <3>3, <3>4, <3>5 DEF NoGhost, Running
  <2> QED
    BY <2>1, <2>2, <2>3, <2>4, <2>5, <2>6, Frames
<1>38. CASE SyncLost
  <2>1. UNCHANGED <<conn, vx, inbox, stop, main, list, isfin, mx, ctl, exch, queued, cnt,
                    subs, updates, age, revoked>>
    BY <1>38 DEF SyncLost, hub, locals, exchs, cntl, rows
  <2>2. SyncOK'
    BY <1>38, <2>1 DEF SyncLost, Outcome, SyncOK
  <2>3. RowsOK'
    BY <1>38, <2>1 DEF SyncLost, Outcome, RowsOK
  <2>4. MutexInv'
    BY <1>38, <2>1 DEF SyncLost, Outcome, MutexInv, Started, CtlOK, LocalsOK, MainOK,
       MainInv, SyncOK, ExchsOK
  <2>5. NoGhost'
    BY <1>38, <2>1 DEF SyncLost, Outcome, NoGhost, Running, SyncOK, CtlOK, RowsOK
  <2> QED
    BY <2>1, <2>2, <2>3, <2>4, <2>5, Frames
<1>39. CASE SyncRead
  <2>1. UNCHANGED <<conn, vx, inbox, stop, main, list, isfin, mx, ctl, exch, queued, cnt,
                    subs, updates, db, age, revoked>>
    BY <1>39 DEF SyncRead, hub, locals, exchs, cntl, rows
  <2>2. SyncOK'
    <3>1. revoked \subseteq Agent
      BY DEF RowsOK
    <3>2. CASE sync' = [sync EXCEPT !.pc = "scan", !.todo = sync.seen, !.bad = revoked]
      <4>1. sync.seen \subseteq Link
        BY DEF SyncOK
      <4> QED
        BY <3>1, <3>2, <4>1 DEF SyncOK
    <3>3. CASE sync' = [sync EXCEPT !.pc = "sleep"]
      BY <3>3 DEF SyncOK
    <3> QED
      BY <1>39, <3>2, <3>3 DEF SyncRead
  <2>3. RowsOK'
    BY <1>39, <2>1 DEF SyncRead, Outcome, RowsOK
  <2>4. MutexInv'
    BY <1>39, <2>1 DEF SyncRead, Outcome, MutexInv, Started, CtlOK, LocalsOK, MainOK,
       MainInv, SyncOK, ExchsOK
  <2>5. NoGhost'
    BY <1>39, <2>1 DEF SyncRead, Outcome, NoGhost, Running, SyncOK, CtlOK, RowsOK
  <2> QED
    BY <2>1, <2>2, <2>3, <2>4, <2>5, Frames
<1>40. CASE SyncScanned
  <2>1. UNCHANGED <<conn, vx, inbox, stop, main, list, isfin, mx, ctl, exch, queued, cnt,
                    subs, updates, db, age, revoked, fails>>
    BY <1>40 DEF SyncScanned, hub, locals, exchs, cntl, rows
  <2>2. SyncOK'
    BY <1>40, <2>1 DEF SyncScanned, SyncOK
  <2>3. MutexInv'
    BY <1>40, <2>1 DEF SyncScanned, MutexInv, Started, CtlOK, LocalsOK, MainOK, MainInv,
       SyncOK, ExchsOK
  <2>4. NoGhost'
    BY <1>40, <2>1 DEF SyncScanned, NoGhost, Running, SyncOK, CtlOK, RowsOK
  <2> QED
    BY <2>1, <2>2, <2>3, <2>4, Frames
<1>41. CASE SyncSleep
  <2>1. UNCHANGED <<conn, vx, inbox, stop, main, list, isfin, mx, ctl, exch, queued, cnt,
                    subs, updates, db, age, revoked, fails>>
    BY <1>41 DEF SyncSleep, hub, locals, exchs, cntl, rows
  <2>2. SyncOK'
    BY <1>41, <2>1 DEF SyncSleep, SyncOK
  <2>3. MutexInv'
    BY <1>41, <2>1 DEF SyncSleep, MutexInv, Started, CtlOK, LocalsOK, MainOK, MainInv,
       SyncOK, ExchsOK
  <2>4. NoGhost'
    BY <1>41, <2>1 DEF SyncSleep, NoGhost, Running, SyncOK, CtlOK, RowsOK
  <2> QED
    BY <2>1, <2>2, <2>3, <2>4, Frames
<1>42. CASE SyncTick
  <2>1. UNCHANGED <<conn, vx, inbox, stop, main, list, isfin, mx, ctl, exch, queued, cnt,
                    subs, updates, db, revoked, fails>>
    BY <1>42 DEF SyncTick, hub, locals, exchs, cntl, rows
  <2>2. SyncOK'
    BY <1>42, <2>1 DEF SyncTick, SyncOK
  <2>3. RowsOK'
    BY <1>42, <2>1 DEF SyncTick, RowsOK
  <2>4. MutexInv'
    BY <1>42, <2>1 DEF SyncTick, MutexInv, Started, CtlOK, LocalsOK, MainOK, MainInv,
       SyncOK, ExchsOK
  <2>5. NoGhost'
    BY <1>42, <2>1 DEF SyncTick, NoGhost, Running, SyncOK, CtlOK, RowsOK
  <2> QED
    BY <2>1, <2>2, <2>3, <2>4, <2>5, Frames
<1>43. CASE SyncKick
  <2>1. UNCHANGED <<conn, vx, inbox, stop, main, list, isfin, mx, ctl, exch, cnt, subs,
                    updates, db, age, revoked, fails>>
    BY <1>43 DEF SyncKick, hub, locals, exchs, cntl, rows
  <2>2. ExchsOK'
    BY <1>43, <2>1, SpawnTyped DEF SyncKick, MutexInv
  <2>3. SyncOK'
    <3>1. sync.link \in Link /\ AgentOf[sync.link] \in Agent
      BY <1>43 DEF SyncKick, MutexInv
    <3>2. sync' = [sync EXCEPT !.pc = "scan", !.link = None, !.drops = @ \cup {AgentOf[sync.link]}]
      BY <1>43 DEF SyncKick
    <3> QED
      BY <3>1, <3>2 DEF SyncOK
  <2>4. MutexInv'
    BY <1>43, <2>1 DEF SyncKick, Spawn, MutexInv, Started, CtlOK, LocalsOK, MainOK,
       MainInv, SyncOK, ExchsOK
  <2>5. NoGhost'
    BY <1>43, <2>1 DEF SyncKick, Spawn, NoGhost, Running, SyncOK, CtlOK, RowsOK
  <2> QED
    BY <2>1, <2>2, <2>3, <2>4, <2>5, Frames
<1>44. CASE CntSync
  <2>1. UNCHANGED <<conn, vx, inbox, stop, main, list, isfin, mx, ctl, exch, queued,
                    sync, subs, db, age, revoked, fails>>
    BY <1>44 DEF CntSync, hub, locals, exchs, cntl, rows
  <2>2. CntlOK'
    BY <1>44, <2>1 DEF CntSync, CntlOK
  <2> QED
    BY <2>1, <2>2, Frames
<1>45. CASE CntModule
  <2>1. UNCHANGED <<conn, vx, inbox, stop, main, list, isfin, mx, ctl, exch, queued,
                    sync, subs, updates, db, age, revoked, fails>>
    BY <1>45 DEF CntModule, hub, locals, exchs, cntl, rows
  <2>2. CntlOK'
    BY <1>45, <2>1 DEF CntModule, CntlOK
  <2> QED
    BY <2>1, <2>2, Frames
<1>46. CASE CntNotify
  <2>1. UNCHANGED <<conn, vx, inbox, stop, main, list, isfin, mx, ctl, exch, sync, subs,
                    updates, db, age, revoked, fails>>
    BY <1>46 DEF CntNotify, hub, locals, exchs, cntl, rows
  <2>2. ExchsOK'
    BY <1>46, <2>1, SpawnTyped DEF CntNotify, CntlOK
  <2>3. CntlOK'
    <3>1. cnt.todo \in Seq(Link) /\ Tail(cnt.todo) \in Seq(Link)
      BY <1>46 DEF CntNotify, CntlOK
    <3>2. cnt' = [cnt EXCEPT !.todo = Tail(@)]
      BY <1>46 DEF CntNotify
    <3> QED
      BY <2>1, <3>1, <3>2 DEF CntlOK
  <2> QED
    BY <2>1, <2>2, <2>3, Frames
<1>47. CASE CntDone
  <2>1. UNCHANGED <<conn, vx, inbox, stop, main, list, isfin, mx, ctl, exch, queued,
                    sync, subs, updates, db, age, revoked, fails>>
    BY <1>47 DEF CntDone, hub, locals, exchs, cntl, rows
  <2>2. CntlOK'
    BY <1>47, <2>1 DEF CntDone, CntlOK
  <2> QED
    BY <2>1, <2>2, Frames
<1> QED
  BY <1>1, <1>2, <1>3, <1>4, <1>5, <1>6, <1>7, <1>8, <1>9, <1>10, <1>11, <1>12, <1>13,
     <1>14, <1>15, <1>16, <1>17, <1>18, <1>19, <1>20, <1>21, <1>22, <1>23, <1>24, <1>25, <1>26, <1>27, <1>28, <1>29, <1>30, <1>31, <1>32, <1>33, <1>34, <1>35, <1>36, <1>37, <1>38, <1>39, <1>40, <1>41, <1>42, <1>43, <1>44, <1>45, <1>46, <1>47 DEF Next, Steady, Changing

(* The initial states, with the rows a crash may have left behind.         *)
LEMMA AgentInit == Init => AgentInv
<1> SUFFICES ASSUME Init PROVE AgentInv
  OBVIOUS
<1> USE ConstAssumption
<1>1. HubOK
  BY DEF Init, HubOK
<1>2. MainOK /\ CtlOK /\ SyncOK
  BY DEF Init, MainOK, CtlOK, SyncOK
<1>3. LocalsOK /\ ExchsOK
  BY DEF Init, LocalsOK, ExchsOK
<1>4. CntlOK
  BY DEF Init, CntlOK
<1>5. db \in [Agent -> BOOLEAN]
  <2>1. CASE StaleRows
    BY <2>1, Zenon DEF Init
  <2>2. CASE ~ StaleRows
    BY <2>2 DEF Init
  <2> QED
    BY <2>1, <2>2
<1>6. RowsOK
  BY <1>5 DEF Init, RowsOK
<1>7. ListInv /\ MainInv /\ MutexInv
  BY DEF Init, ListInv, ListTruth, Running, MainInv, MutexInv, Started
<1>8. NoticesInOrder
  BY DEF Init, NoticesInOrder, Notices, Posting, Free, Connected
<1>9. NoGhost
  BY DEF Init, NoGhost
<1> QED
  BY <1>1, <1>2, <1>3, <1>4, <1>6, <1>7, <1>8, <1>9 DEF AgentInv, TypeOK

(* The inductive invariant, for every instance.                            *)
THEOREM AgentInductive == Spec => []AgentInv
<1>1. AgentInv /\ UNCHANGED vars => AgentInv'
  BY Frames DEF AgentInv, TypeOK, vars, hub, locals, exchs, cntl, rows
<1> QED
  BY <1>1, AgentInit, AgentNext, PTL DEF Spec

(* The main module's state keeps its types, and no notification overflows  *)
(* the receiver channel.                                                   *)
THEOREM AgentTypeOK == Spec => []TypeOK
  BY AgentInductive, PTL DEF AgentInv

(* agentList holds exactly the links whose control goroutine runs, so a    *)
(* disconnect ends the goroutine it is about and del(dst) removes no newer *)
(* link, for any number of agents that reconnect any number of times.      *)
THEOREM AgentListTruth == Spec => []ListTruth
<1>1. AgentInv => ListTruth
  BY DEF AgentInv, ListInv
<1> QED
  BY <1>1, AgentInductive, PTL

(* No row stays "connected" behind a goroutine that wrote "disconnected",  *)
(* however syncAliveStatusAgents interleaves with the disconnects.         *)
THEOREM AgentNoGhost == Spec => []NoGhost
  BY AgentInductive, PTL DEF AgentInv
=============================================================================
