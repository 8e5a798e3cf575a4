------------------------------ MODULE RecvRouter ------------------------------
(***************************************************************************)
(* The receive router of one vxproto module socket                         *)
(* (src/pkg/vxproto/router.go).                                            *)
(*                                                                         *)
(* Goroutines of the connections and of other modules call routePacket,    *)
(* goroutines of the module call recvPacket, the module's main loop reads  *)
(* the receiver channel directly, and vxproto pushes agent notifications   *)
(* into that channel, wakes the calls that wait for a disconnected agent   *)
(* (unlock) and closes the router.  A step of the model is what one        *)
(* goroutine does between two points at which it can block: acquiring      *)
(* apiMutex, sending to or receiving from a channel.                       *)
(***************************************************************************)
EXTENDS Integers, Sequences, FiniteSets, SequencesExt

CONSTANTS
  Src,            \* tokens of the peers packets come from
  PType,          \* packet types a module may ask for (PTData, PTFile, ...)
  Stream,         \* Stream[s]: the packets peer s routes, in the order it does
  SrcOf, TypeOf,  \* source and type of each packet
  Imc,            \* packets sent by another module: they carry an ackChan
  Notice,         \* PTControl notifications vxproto pushes into the receiver
  Receiver,       \* goroutines of the module that call recvPacket
  Filters,        \* the sources a recvPacket call may name (AnySrc included)
  Modes,          \* the kinds of timeout argument: "forever", "timeout", "poll"
  QueueSize,      \* capacity of the receiver channel (defQueueSize = 100)
  HasConsumer,    \* whether the module's main loop reads the receiver channel
  MayClose,       \* whether the module socket is closed in the run
  MaxCalls,       \* bound: recvPacket calls per receiver goroutine
  MaxUnlocks      \* bound: number of unlock(src) calls

AnySrc == "any"   \* the empty src of RecvData, RecvFile, ...
Free   == "free"
None   == "none"

NoCall == [src |-> AnySrc, pType |-> "control", mode |-> "forever"]

Routed == UNION {ToSet(Stream[s]) : s \in Src}
Packet == Routed \cup Notice

ASSUME RouterAssumption ==
  /\ Stream \in [Src -> Seq(Routed)]
  /\ \A s \in Src : IsInjective(Stream[s]) /\ \A i \in DOMAIN Stream[s] : SrcOf[Stream[s][i]] = s
  /\ SrcOf \in [Packet -> Src] /\ TypeOf \in [Packet -> PType \cup {"control"}]
  /\ "control" \notin PType /\ \A p \in Notice : TypeOf[p] = "control"
  /\ Imc \subseteq Routed /\ Routed \cap Notice = {}
  /\ Filters \subseteq Src \cup {AnySrc} /\ AnySrc \notin Src
  /\ Modes \subseteq {"forever", "timeout", "poll"}
  /\ QueueSize \in Nat \ {0} /\ MaxCalls \in Nat /\ MaxUnlocks \in Nat
  /\ HasConsumer \in BOOLEAN /\ MayClose \in BOOLEAN
  /\ Packet \cap Receiver = {} /\ {Free, None} \cap (Packet \cup Receiver) = {}

VARIABLES
  apiMutex,   \* the goroutine holding the mutex, or Free
  receiver,   \* the buffered channel, oldest packet first
  control,    \* TRUE once the control channel is closed
  queue,      \* registered blockers, each named by its receiver goroutine
  closed,     \* closed[r]: r's blocker was closed, and so was its retChan
  route,      \* route[p]: where the goroutine that delivers p is
  target,     \* target[p]: the blocker p is being handed to
  recv,       \* recv[r]: where receiver goroutine r is
  call,       \* call[r]: the arguments of r's current recvPacket call
  drained,    \* drained[r]: packets lookupPacket took out of the channel
  todo,       \* todo[r]: packets lookupPacket has still to take out
  got,        \* got[r]: the packet of r's current call
  acked,      \* packets whose ackChan was signalled
  cur,        \* the packet the module's main loop is handling
  closing,    \* progress of close(): "open", "unlocked", "closed"
  left,       \* packets close() has still to take out of the channel
  dropped,    \* packets discarded: drained by close() or given up at quit
  delivered,  \* history: packets recvPacket handed to the module, in order
  consumed,   \* history: packets the module's main loop took, in order
  calls, unlocks, \* number of recvPacket and unlock calls so far
  panicked    \* a closed channel was closed again: the process is gone

vars == <<apiMutex, receiver, control, queue, closed, route, target, recv,
          call, drained, todo, got, acked, cur, closing, left, dropped,
          delivered, consumed, calls, unlocks, panicked>>

senderVars   == <<route, target>>
receiverVars == <<recv, call, drained, todo, got, calls>>
closeVars    == <<control, closing, left>>
consumerVars == <<cur, consumed>>
-------------------------------------------------------------------------------
(* A panic ends the process. *)
Running == ~panicked

(* (b.src == packet.Src || b.src == "") && b.pType == packet.PType *)
Matches(c, p) == c.src \in {SrcOf[p], AnySrc} /\ c.pType = TypeOf[p]

(* Index of the first open blocker that p fits; 0 when there is none. *)
BlockerFor(p) ==
  SelectInSeq(queue, LAMBDA r : ~closed[r] /\ Matches(call[r], p))

(* A routePacket call of p has returned, so its caller may go on. *)
Returned(p) == route[p] \in {"ok", "refused", "unacked"}

(* Packets of one source are routed by one goroutine, one after another. *)
Turn(p) == \A i \in DOMAIN Stream[SrcOf[p]] :
             Stream[SrcOf[p]][i] = p =>
               \A j \in 1 .. i - 1 : Returned(Stream[SrcOf[p]][j])

(* What routePacket does once the packet is placed: wait for the ack of a  *)
(* packet that has an ackChan, return nil otherwise.                       *)
Placed(p) == IF p \in Imc THEN "ack" ELSE "ok"

Init ==
  /\ apiMutex = Free /\ receiver = <<>> /\ control = FALSE /\ queue = <<>>
  /\ closed = [r \in Receiver |-> FALSE]
  /\ route = [p \in Packet |-> "new"] /\ target = [p \in Packet |-> None]
  /\ recv = [r \in Receiver |-> "idle"]
  /\ call = [r \in Receiver |-> NoCall]
  /\ drained = [r \in Receiver |-> <<>>] /\ todo = [r \in Receiver |-> 0]
  /\ got = [r \in Receiver |-> None]
  /\ acked = {} /\ cur = None /\ closing = "open" /\ left = 0
  /\ dropped = {}
  /\ delivered = <<>> /\ consumed = <<>> /\ calls = [r \in Receiver |-> 0] /\ unlocks = 0
  /\ panicked = FALSE
-------------------------------------------------------------------------------
(* routePacket *)

(* Take apiMutex and look for a blocker that waits for the packet. *)
RouteLock(p) ==
  /\ Running /\ route[p] = "new" /\ Turn(p) /\ apiMutex = Free
  /\ apiMutex' = p
  /\ LET i == BlockerFor(p) IN
     IF i # 0 THEN /\ route' = [route EXCEPT ![p] = "hand"]
                   /\ target' = [target EXCEPT ![p] = queue[i]]
              ELSE /\ route' = [route EXCEPT ![p] = "check"]
                   /\ UNCHANGED target
  /\ UNCHANGED <<receiver, queue, closed, acked, dropped, delivered, unlocks,
                 panicked, receiverVars, closeVars, consumerVars>>

(* retChan is unbuffered: the send completes when the receiver takes it;   *)
(* then the blocker leaves the queue and the mutex is released.            *)
RouteHand(p) ==
  LET r == target[p] IN
  /\ Running /\ route[p] = "hand" /\ recv[r] = "wait"
  /\ queue' = RemoveFirst(queue, r)
  /\ apiMutex' = Free
  /\ route' = [route EXCEPT ![p] = Placed(p)]
  /\ target' = [target EXCEPT ![p] = None]
  /\ got' = [got EXCEPT ![r] = p]
  /\ recv' = [recv EXCEPT ![r] = "del"]
  /\ delivered' = Append(delivered, p)
  /\ UNCHANGED <<receiver, closed, acked, dropped, unlocks, panicked, call,
                 drained, todo, calls, closeVars, consumerVars>>

(* No blocker: refuse when the router is closed, else queue the packet. *)
RouteCheck(p) ==
  /\ Running /\ route[p] = "check"
  /\ IF control THEN /\ apiMutex' = Free
                     /\ route' = [route EXCEPT ![p] = "refused"]
                ELSE /\ route' = [route EXCEPT ![p] = "enqueue"]
                     /\ UNCHANGED apiMutex
  /\ UNCHANGED <<receiver, queue, closed, target, acked, dropped, delivered,
                 unlocks, panicked, receiverVars, closeVars, consumerVars>>

(* receiver <- packet, blocking with the mutex held while it is full. *)
RouteEnqueue(p) ==
  /\ Running /\ route[p] = "enqueue" /\ Len(receiver) < QueueSize
  /\ receiver' = Append(receiver, p)
  /\ apiMutex' = Free
  /\ route' = [route EXCEPT ![p] = Placed(p)]
  /\ UNCHANGED <<queue, closed, target, acked, dropped, delivered, unlocks,
                 panicked, receiverVars, closeVars, consumerVars>>

(* The deferred select: acknowledged, or closed / 2 s timer expired. *)
RouteAck(p) ==
  /\ Running /\ route[p] = "ack"
  /\ \/ p \in acked /\ route' = [route EXCEPT ![p] = "ok"]
     \/ route' = [route EXCEPT ![p] = "unacked"]
  /\ UNCHANGED <<apiMutex, receiver, queue, closed, target, acked, dropped,
                 delivered, unlocks, panicked, receiverVars, closeVars,
                 consumerVars>>
-------------------------------------------------------------------------------
(* Agent notifications bypass the mutex: notifyAgentConnected and          *)
(* notifyAgentDisconnected push without blocking, asyncSendPacket waits.   *)
Notify(p) ==
  /\ Running /\ p \in Notice /\ route[p] = "new"
  /\ IF Len(receiver) < QueueSize
     THEN /\ receiver' = Append(receiver, p)
          /\ route' = [route EXCEPT ![p] = "ok"]
     ELSE /\ route' = [route EXCEPT ![p] = "async"]
          /\ UNCHANGED receiver
  /\ UNCHANGED <<apiMutex, queue, closed, target, acked, dropped, delivered,
                 unlocks, panicked, receiverVars, closeVars, consumerVars>>

AsyncSend(p) ==
  /\ Running /\ route[p] = "async"
  /\ \/ /\ Len(receiver) < QueueSize
        /\ receiver' = Append(receiver, p)
        /\ route' = [route EXCEPT ![p] = "ok"]
     \/ /\ control
        /\ route' = [route EXCEPT ![p] = "refused"]
        /\ UNCHANGED receiver
  /\ UNCHANGED <<apiMutex, queue, closed, target, acked, dropped, delivered,
                 unlocks, panicked, receiverVars, closeVars, consumerVars>>
-------------------------------------------------------------------------------
(* recvPacket *)

(* addBlocker takes the mutex and lookupPacket reads the channel's length. *)
RecvLock(r) ==
  /\ Running /\ recv[r] = "idle" /\ calls[r] < MaxCalls /\ apiMutex = Free
  /\ apiMutex' = r
  /\ \E s \in Filters, t \in PType, m \in Modes :
       call' = [call EXCEPT ![r] = [src |-> s, pType |-> t, mode |-> m]]
  /\ calls' = [calls EXCEPT ![r] = @ + 1]
  /\ todo' = [todo EXCEPT ![r] = Len(receiver)]
  /\ closed' = [closed EXCEPT ![r] = FALSE]
  /\ got' = [got EXCEPT ![r] = None]
  /\ recv' = [recv EXCEPT ![r] = "drain"]
  /\ UNCHANGED <<receiver, queue, acked, dropped, delivered, unlocks,
                 panicked, drained, senderVars, closeVars, consumerVars>>

(* Faulty: idx <= queueLen in the loop. *)
LookupTakeOneTooMany(r) ==
  /\ Running /\ recv[r] = "drain" /\ todo[r] \in Nat /\ receiver # <<>>
  /\ drained' = [drained EXCEPT ![r] = Append(@, Head(receiver))]
  /\ receiver' = Tail(receiver)
  /\ todo' = [todo EXCEPT ![r] = @ - 1]
  /\ UNCHANGED <<apiMutex, queue, closed, acked, dropped, delivered, unlocks,
                 panicked, recv, call, got, calls, senderVars, closeVars,
                 consumerVars>>

(* One of the queueLen receives of lookupPacket; blocks when it is empty. *)
LookupTake(r) ==
  /\ Running /\ recv[r] = "drain" /\ todo[r] > 0 /\ receiver # <<>>
  /\ drained' = [drained EXCEPT ![r] = Append(@, Head(receiver))]
  /\ receiver' = Tail(receiver)
  /\ todo' = [todo EXCEPT ![r] = @ - 1]
  /\ UNCHANGED <<apiMutex, queue, closed, acked, dropped, delivered, unlocks,
                 panicked, recv, call, got, calls, senderVars, closeVars,
                 consumerVars>>

(* Faulty: the newest packet that fits, or the oldest packet only. *)
LastFit(r) == SelectLastInSeq(drained[r], LAMBDA p : Matches(call[r], p))
HeadFit(r) == IF drained[r] # <<>> /\ Matches(call[r], Head(drained[r]))
                THEN 1 ELSE 0

(* Index of the first packet that fits r's call; 0 when there is none. *)
FirstFit(r) == SelectInSeq(drained[r], LAMBDA p : Matches(call[r], p))

(* Faulty: the packet that is returned is put back as well. *)
NothingRemoved(r, i) == drained[r]

(* What lookupPacket puts back when it returns packet i. *)
Others(r, i) == RemoveAt(drained[r], i)

(* The first packet that fits is the result. *)
LookupMatch(r) ==
  /\ Running /\ recv[r] = "drain" /\ todo[r] = 0
  /\ LET i == FirstFit(r) IN
     IF i # 0 THEN /\ got' = [got EXCEPT ![r] = drained[r][i]]
                   /\ drained' = [drained EXCEPT ![r] = Others(r, i)]
              ELSE UNCHANGED <<got, drained>>
  /\ recv' = [recv EXCEPT ![r] = "putback"]
  /\ UNCHANGED <<apiMutex, receiver, queue, closed, acked, dropped, delivered,
                 unlocks, panicked, call, todo, calls, senderVars, closeVars,
                 consumerVars>>

(* The deferred loop puts the other packets back, blocking when full. *)
LookupPutBack(r) ==
  /\ Running /\ recv[r] = "putback" /\ drained[r] # <<>> /\ Len(receiver) < QueueSize
  /\ receiver' = Append(receiver, Head(drained[r]))
  /\ drained' = [drained EXCEPT ![r] = Tail(@)]
  /\ UNCHANGED <<apiMutex, queue, closed, acked, dropped, delivered, unlocks,
                 panicked, recv, call, todo, got, calls, senderVars,
                 closeVars, consumerVars>>

(* End of addBlocker: recvPacket returns the packet found and RecvX signals *)
(* its ackChan, or the blocker is registered and the call waits.            *)
RecvAdd(r) ==
  /\ Running /\ recv[r] = "putback" /\ drained[r] = <<>>
  /\ apiMutex' = Free
  /\ IF got[r] # None
     THEN /\ recv' = [recv EXCEPT ![r] = "idle"]
          /\ delivered' = Append(delivered, got[r])
          /\ acked' = acked \cup ({got[r]} \cap Imc)
          /\ UNCHANGED queue
     ELSE /\ queue' = Append(queue, r)
          /\ recv' = [recv EXCEPT ![r] = "wait"]
          /\ UNCHANGED <<delivered, acked>>
  /\ UNCHANGED <<receiver, closed, dropped, unlocks, panicked, call, drained,
                 todo, got, calls, senderVars, closeVars, consumerVars>>

(* The timer fires; or a poll takes the default branch, which it can do    *)
(* even in state "hand": a sender that found the blocker may not have      *)
(* reached its channel send yet.  A closed channel rules the default out.  *)
RecvGiveUp(r) ==
  /\ Running /\ recv[r] = "wait"
  /\ call[r].mode = "timeout" \/ (call[r].mode = "poll" /\ ~closed[r])
  /\ recv' = [recv EXCEPT ![r] = "del"]
  /\ UNCHANGED <<apiMutex, receiver, queue, closed, acked, dropped, delivered,
                 unlocks, panicked, call, drained, todo, got, calls,
                 senderVars, closeVars, consumerVars>>

(* A closed retChan yields nil: "connection reset". *)
RecvReset(r) ==
  /\ Running /\ recv[r] = "wait" /\ closed[r]
  /\ recv' = [recv EXCEPT ![r] = "del"]
  /\ UNCHANGED <<apiMutex, receiver, queue, closed, acked, dropped, delivered,
                 unlocks, panicked, call, drained, todo, got, calls,
                 senderVars, closeVars, consumerVars>>

(* delBlocker, then recvPacket returns and RecvX signals the ackChan. *)
RecvDel(r) ==
  /\ Running /\ recv[r] = "del" /\ apiMutex = Free
  /\ queue' = RemoveFirst(queue, r)
  /\ recv' = [recv EXCEPT ![r] = "idle"]
  /\ acked' = acked \cup ({got[r]} \cap Imc)
  /\ UNCHANGED <<apiMutex, receiver, closed, dropped, delivered, unlocks,
                 panicked, call, drained, todo, got, calls, senderVars,
                 closeVars, consumerVars>>
-------------------------------------------------------------------------------
(* The module's main loop: take a packet, handle it, acknowledge it. *)
ConsumerTake ==
  /\ Running /\ HasConsumer /\ cur = None /\ receiver # <<>>
  /\ cur' = Head(receiver)
  /\ receiver' = Tail(receiver)
  /\ consumed' = Append(consumed, Head(receiver))
  /\ UNCHANGED <<apiMutex, queue, closed, acked, dropped, delivered, unlocks,
                 panicked, senderVars, receiverVars, closeVars>>

ConsumerAck ==
  /\ Running /\ cur # None
  /\ acked' = acked \cup ({cur} \cap Imc)
  /\ cur' = None
  /\ UNCHANGED <<apiMutex, receiver, queue, closed, dropped, delivered,
                 consumed, unlocks, panicked, senderVars, receiverVars, closeVars>>
-------------------------------------------------------------------------------
(* Close every blocker of S; closing a closed channel panics. *)
CloseBlockers(S) ==
  /\ closed' = [r \in Receiver |-> closed[r] \/ r \in S]
  /\ panicked' = (\E r \in S : closed[r])

(* unlock(src), started by notifyAgentDisconnected as a goroutine. *)
Unlock(s) ==
  /\ Running /\ unlocks < MaxUnlocks /\ apiMutex = Free
  /\ unlocks' = unlocks + 1
  /\ CloseBlockers({r \in ToSet(queue) : call[r].src = s})
  /\ UNCHANGED <<apiMutex, receiver, queue, acked, dropped, delivered,
                 senderVars, receiverVars, closeVars, consumerVars>>

(* close: unlockAll, then close(control), then empty the receiver. *)
CloseUnlockAll ==
  /\ Running /\ MayClose /\ closing = "open" /\ apiMutex = Free
  /\ closing' = "unlocked"
  /\ CloseBlockers(ToSet(queue))
  /\ UNCHANGED <<apiMutex, receiver, queue, acked, dropped, delivered,
                 unlocks, control, left, senderVars, receiverVars,
                 consumerVars>>

CloseControl ==
  /\ Running /\ closing = "unlocked"
  /\ control' = TRUE
  /\ closing' = "closed"
  /\ left' = Len(receiver)
  /\ UNCHANGED <<apiMutex, receiver, queue, closed, acked, dropped, delivered,
                 unlocks, panicked, senderVars, receiverVars, consumerVars>>

CloseDrain ==
  /\ Running /\ closing = "closed" /\ left > 0 /\ receiver # <<>>
  /\ dropped' = dropped \cup {Head(receiver)}
  /\ receiver' = Tail(receiver)
  /\ left' = left - 1
  /\ UNCHANGED <<apiMutex, queue, closed, acked, delivered, unlocks, panicked,
                 control, closing, senderVars, receiverVars, consumerVars>>
-------------------------------------------------------------------------------
Route(p) == RouteLock(p) \/ RouteHand(p) \/ RouteCheck(p) \/ RouteEnqueue(p)
              \/ RouteAck(p)
Recv(r) == RecvLock(r) \/ LookupTake(r) \/ LookupMatch(r) \/ LookupPutBack(r)
             \/ RecvAdd(r) \/ RecvGiveUp(r) \/ RecvReset(r) \/ RecvDel(r)
Consume == ConsumerTake \/ ConsumerAck
Close == CloseUnlockAll \/ CloseControl \/ CloseDrain

Next ==
  \/ \E p \in Routed : Route(p)
  \/ \E p \in Notice : Notify(p) \/ AsyncSend(p)
  \/ \E r \in Receiver : Recv(r)
  \/ Consume
  \/ \E s \in Src : Unlock(s)
  \/ Close

Spec == Init /\ [][Next]_vars

(* The Go scheduler runs every goroutine that can run, timers fire, and a   *)
(* sync.Mutex is not lost to a waiting goroutine for ever.  Nothing obliges *)
(* the module to call recvPacket or anyone to disconnect or close.          *)
FairSpec ==
  /\ Spec
  /\ \A p \in Routed : WF_vars(Route(p))
  /\ \A p \in Notice : WF_vars(AsyncSend(p))
  /\ \A r \in Receiver : WF_vars(Recv(r) /\ recv[r] # "idle")
  /\ WF_vars(Consume)
  /\ WF_vars(CloseControl \/ CloseDrain)
-------------------------------------------------------------------------------
(* Properties *)

(* The types of the variables, and the capacity of the receiver channel. *)
ChannelOK ==
  /\ apiMutex \in Packet \cup Receiver \cup {Free}
  /\ receiver \in Seq(Packet) /\ Len(receiver) <= QueueSize
  /\ control \in BOOLEAN /\ panicked \in BOOLEAN
  /\ closing \in {"open", "unlocked", "closed"} /\ left \in Nat

BlockersOK == queue \in Seq(Receiver) /\ closed \in [Receiver -> BOOLEAN]

SendersOK ==
  /\ route \in [Packet -> {"new", "hand", "check", "enqueue", "async", "ack",
                           "ok", "refused", "unacked"}]
  /\ target \in [Packet -> Receiver \cup {None}]

ReceiversOK ==
  /\ recv \in [Receiver -> {"idle", "drain", "putback", "wait", "del"}]
  /\ call \in [Receiver -> [src : Src \cup {AnySrc},
                            pType : PType \cup {"control"},
                            mode : {"forever", "timeout", "poll"}]]
  /\ drained \in [Receiver -> Seq(Packet)]
  /\ todo \in [Receiver -> Nat]
  /\ got \in [Receiver -> Packet \cup {None}]
  /\ calls \in [Receiver -> Nat]

HistoryOK ==
  /\ acked \subseteq Packet /\ dropped \subseteq Packet
  /\ cur \in Packet \cup {None}
  /\ delivered \in Seq(Packet) /\ consumed \in Seq(Packet) /\ unlocks \in Nat

TypeOK == ChannelOK /\ BlockersOK /\ SendersOK /\ ReceiversOK /\ HistoryOK

Count(seq, p) == Cardinality({i \in DOMAIN seq : seq[i] = p})

(* The packet was put into the router: its caller did not get an error     *)
(* before that point.                                                      *)
Accepted(p) == route[p] \in {"ack", "ok", "unacked"}

(* In how many places the router holds, or has disposed of, packet p. *)
Places(p) ==
  Count(receiver, p) + Count(delivered, p) + Count(consumed, p)
  + Cardinality({r \in Receiver : Count(drained[r], p) > 0})
  + Cardinality({r \in Receiver : recv[r] = "putback" /\ got[r] = p})
  + Cardinality({p} \cap dropped)

(* Whatever the interleaving of routePacket, recvPacket, notifications and *)
(* close, an accepted packet is in exactly one place: queued, being looked *)
(* up, delivered once, or discarded by close; a refused one is nowhere.    *)
ExactlyOnce == \A p \in Packet : Places(p) = IF Accepted(p) THEN 1 ELSE 0

(* addBlocker's look-up and registration are one critical section, so a    *)
(* call never sleeps on a packet that already lies in the receiver queue.  *)
NoStrandedPacket ==
  apiMutex = Free =>
    \A r \in Receiver : recv[r] = "wait" /\ ~closed[r] =>
      \A i \in DOMAIN receiver : ~Matches(call[r], receiver[i])

(* When recvPacket returns a packet, every packet of that source and type  *)
(* that was accepted earlier has been returned before it, went to the      *)
(* module's main loop or was discarded by close: the look-up, the deferred *)
(* put-back and the direct hand-over never let one overtake another.       *)
InOrder ==
  \A s \in Src : \A i, j \in DOMAIN Stream[s] :
    LET p == Stream[s][i] IN LET q == Stream[s][j] IN
    (i < j /\ TypeOf[p] = TypeOf[q] /\ q \in ToSet(delivered) /\ Accepted(p))
      => \/ p \in dropped \cup ToSet(consumed)
         \/ \E m, n \in DOMAIN delivered :
              m < n /\ delivered[m] = p /\ delivered[n] = q

(* A recvPacket call given a timeout (or asked to poll) returns. *)
TimedRecvReturns ==
  \A r \in Receiver :
    (recv[r] # "idle" /\ call[r].mode # "forever") ~>
      (recv[r] = "idle" \/ panicked)
===============================================================================
