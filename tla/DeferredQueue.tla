--------------------------- MODULE DeferredQueue ---------------------------
(***************************************************************************)
(* The queue of packets whose agent or module is not registered yet        *)
(* (vxProto.rpqueue; spqueue runs the same code on the sending side), and  *)
(* the goroutine that tries them again every 100 ms (runRecvPQueue).       *)
(*                                                                         *)
(* The queue is a Go slice: a window on a backing array.  The goroutine    *)
(* keeps the old window and gives the queue an empty window on the SAME    *)
(* array, so packets deferred while it works are written over the cells it *)
(* has yet to read.  "mem" holds the arrays that can be reached, a slice   *)
(* is [a |-> array, off |-> cells skipped, len |-> length].                *)
(***************************************************************************)
EXTENDS Naturals, Sequences, FiniteSets

CONSTANTS
  Packet,
  Nil,                  \* a cell never written
  MaxSizePacketQueue    \* 5000 in the code

(* What the constants have to be. *)
ParametersOK == Nil \notin Packet /\ MaxSizePacketQueue \in Nat \ {0}

VARIABLES
  mem,        \* array -> its cells
  rpqueue,    \* the slice in vxProto
  pq,         \* the slice the goroutine works through
  next,       \* cells of pq it has read
  up,         \* the module (or agent) the packets are for is registered
  received,   \* packets that have come in
  delivered,  \* Packet -> how often it was handed over
  old,        \* packets older than DeferredPacketTTLSeconds
  overwritten \* history: a packet was written over a cell yet to be read

vars == <<mem, rpqueue, pq, next, up, received, delivered, old, overwritten>>

Arrays == 1 .. 3
Slice == [a : Arrays, off : Nat, len : Nat]
Cells(s) == {mem[s.a][s.off + i] : i \in 1 .. s.len}
Rest == {mem[pq.a][pq.off + i] : i \in next + 1 .. pq.len}
Idle == next = pq.len

(* The types of the variables; both windows stay inside their arrays. *)
TypeOK ==
  /\ mem \in [Arrays -> Seq(Packet \cup {Nil})]
  /\ rpqueue \in Slice /\ pq \in Slice
  /\ rpqueue.len <= MaxSizePacketQueue
  /\ \A s \in {rpqueue, pq} : s.off + s.len <= Len(mem[s.a])
  /\ next \in 0 .. pq.len
  /\ up \in BOOLEAN /\ overwritten \in BOOLEAN
  /\ received \subseteq Packet /\ old \subseteq received
  /\ delivered \in [Packet -> Nat]

Init ==
  /\ mem = [a \in Arrays |-> <<>>]
  /\ rpqueue = [a |-> 1, off |-> 0, len |-> 0]
  /\ pq = rpqueue /\ next = 0
  /\ up = FALSE /\ overwritten = FALSE
  /\ received = {} /\ old = {}
  /\ delivered = [p \in Packet |-> 0]

-----------------------------------------------------------------------------
(* Has the goroutine yet to read cell i of array a?                        *)
Unread(a, i) == a = pq.a /\ i > pq.off + next' /\ i <= pq.off + pq.len

(* append(s, p): in place while the array has room behind the window, else *)
(* into a new array of twice the capacity that nobody else points at.      *)
AppendCell(s, p) ==
  LET cap  == Len(mem[s.a]) - s.off
      b    == CHOOSE x \in Arrays : x # s.a /\ x # pq.a
      size == IF cap = 0 THEN 1 ELSE 2 * cap
      cell == [i \in 1 .. size |-> IF i <= s.len THEN mem[s.a][s.off + i]
                                   ELSE IF i = s.len + 1 THEN p ELSE Nil]
  IN  IF s.len < cap
      THEN /\ mem' = [mem EXCEPT ![s.a][s.off + s.len + 1] = p]
           /\ rpqueue' = [s EXCEPT !.len = @ + 1]
           /\ overwritten' = (overwritten \/ Unread(s.a, s.off + s.len + 1))
      ELSE /\ mem' = [mem EXCEPT ![b] = cell]
           /\ rpqueue' = [a |-> b, off |-> 0, len |-> s.len + 1]
           /\ UNCHANGED overwritten

(* s[1:] *)
Shifted(s) == [a |-> s.a, off |-> s.off + 1, len |-> s.len - 1]

(* Mutant: the limit is tested with > and the queue outgrows it by one.    *)
DeferOffByOne(p) ==
  AppendCell(IF rpqueue.len > MaxSizePacketQueue
             THEN Shifted(rpqueue) ELSE rpqueue, p)

(* hDeferredPacket: the oldest packet makes room in a full queue.          *)
Defer(p) ==
  AppendCell(IF rpqueue.len >= MaxSizePacketQueue
             THEN Shifted(rpqueue) ELSE rpqueue, p)

HandOver(p) ==
  /\ delivered' = [delivered EXCEPT ![p] = @ + 1]
  /\ UNCHANGED <<mem, rpqueue, overwritten>>

(* recvPacketI: hand the packet over, or defer it when its destination is  *)
(* missing.                                                                *)
RecvPacket(p) ==
  \/ up /\ HandOver(p)
  \/ ~ up /\ Defer(p) /\ UNCHANGED delivered

(* A packet comes in from a connection, during a pass or between two.      *)
Receive(p) ==
  /\ p \notin received
  /\ received' = received \cup {p}
  /\ UNCHANGED <<pq, next, up, old>>
  /\ RecvPacket(p)

(* Mutant: the queue keeps its window as well.                             *)
SwapKeeps ==
  /\ Idle
  /\ rpqueue.len > 0
  /\ pq' = rpqueue /\ next' = 0
  /\ UNCHANGED <<rpqueue, mem, up, received, delivered, old, overwritten>>

(* runRecvPQueue, on its timer: pq := rpqueue; rpqueue = rpqueue[:0].      *)
Swap ==
  /\ Idle
  /\ rpqueue.len > 0
  /\ pq' = rpqueue /\ next' = 0
  /\ rpqueue' = [rpqueue EXCEPT !.len = 0]
  /\ UNCHANGED <<mem, up, received, delivered, old, overwritten>>

(* Mutant: the time to live is not looked at.                              *)
RetryForEver ==
  /\ ~ Idle
  /\ next' = next + 1
  /\ RecvPacket(mem[pq.a][pq.off + next'])
  /\ UNCHANGED <<pq, up, received, old>>

(* Mutant: the goroutine drops a packet whose module is still missing.     *)
RetryOnce ==
  /\ ~ Idle
  /\ next' = next + 1
  /\ LET p == mem[pq.a][pq.off + next']
     IN  IF p \notin old /\ up THEN HandOver(p)
         ELSE UNCHANGED <<mem, rpqueue, delivered, overwritten>>
  /\ UNCHANGED <<pq, up, received, old>>

(* The loop of the goroutine: it reads a cell and tries the packet again   *)
(* unless its time to live is over.                                        *)
Retry ==
  /\ ~ Idle
  /\ next' = next + 1
  /\ LET p == mem[pq.a][pq.off + next']
     IN  IF p \in old THEN UNCHANGED <<mem, rpqueue, delivered, overwritten>>
         ELSE RecvPacket(p)
  /\ UNCHANGED <<pq, up, received, old>>

(* Agents and modules come and go; packets grow old.                       *)
SetUp ==
  /\ up' = ~ up
  /\ UNCHANGED <<mem, rpqueue, pq, next, received, delivered, old, overwritten>>

Age(p) ==
  /\ p \in received \ old
  /\ old' = old \cup {p}
  /\ UNCHANGED <<mem, rpqueue, pq, next, up, received, delivered, overwritten>>

Next ==
  \/ \E p \in Packet : Receive(p) \/ Age(p)
  \/ Swap \/ Retry \/ SetUp

Spec == Init /\ [][Next]_vars

(* The timer keeps firing and the clock keeps running.                     *)
FairSpec ==
  Spec /\ WF_vars(Swap) /\ WF_vars(Retry) /\ \A p \in Packet : WF_vars(Age(p))

-----------------------------------------------------------------------------
(* Properties.                                                             *)

Waiting == Cells(rpqueue) \cup Rest

Fate(p) ==
  IF p \notin received THEN "new"
  ELSE IF delivered[p] > 0 THEN "delivered"
  ELSE IF p \in Waiting THEN "waiting" ELSE "dropped"

Promise == INSTANCE DeferredPackets WITH fate <- [p \in Packet |-> Fate(p)]

(* The slice, its arrays and the goroutine implement the promise of        *)
(* DeferredPackets: a deferred packet stays until it is handed over,       *)
(* outlives its time to live or is pushed out of a full queue, as long as  *)
(* no packet deferred during a pass of runRecvPQueue was written over a    *)
(* cell the pass has yet to read; and whatever was written over what, a    *)
(* packet that was handed over or lost never waits again.                  *)
KeepsPromise == Promise!Spec

(* With room for every packet nothing is pushed out, so a packet that came *)
(* in and was not handed over is waiting or has outlived its time:         *)
(* "DeferredPacketTTLSeconds is time to live of deferred packet in         *)
(* seconds".                                                               *)
NotLost ==
  \A p \in received : delivered[p] > 0 \/ p \in Waiting \/ p \in old

(* The two windows hold only packets that have come in: whatever was       *)
(* written over what, runRecvPQueue never works on a cell of the array     *)
(* that was left unwritten.                                                *)
WindowsFilled == Waiting \subseteq received

(* No packet is handed over twice, unless a packet deferred during a pass  *)
(* was written over a cell yet to be read: that packet is then in both     *)
(* windows, and runRecvPQueue hands it over from each.                     *)
HandedOverOnce == overwritten \/ \A p \in Packet : delivered[p] <= 1

(* Nothing waits for ever: the time to live ends every wait.               *)
WaitEnds == \A p \in Packet : (p \in Waiting) ~> (p \notin Waiting)
=============================================================================
