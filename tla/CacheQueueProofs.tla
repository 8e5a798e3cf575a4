-------------------------- MODULE CacheQueueProofs --------------------------
(***************************************************************************)
(* Proofs about the upgrader cache and the deferred packet queue.          *)
(*                                                                         *)
(* The cache stays within its tracker, for every set of keys and every     *)
(* tracker size (CacheInv).                                                *)
(*                                                                         *)
(* The queue, for every set of packets and every limit: the windows stay   *)
(* in their arrays and hold only packets that came in, and the queue with  *)
(* its arrays implements DeferredPackets.  QueueInv is inductive.  What it *)
(* adds, until a packet deferred during a pass is written over a cell the  *)
(* pass has yet to read: during a pass the queue's window begins where the *)
(* goroutine's does and ends before the cell that is read next; and the    *)
(* packets in the two windows differ from each other, have come in and     *)
(* have not been handed over.  After such a write nothing of this is left, *)
(* and a step is shown only to move no packet back (WindowStep).           *)
(***************************************************************************)
EXTENDS MCCacheQueue, FiniteSetTheorems, FunctionTheorems, SequenceTheorems, TLAPS

(* The inductive invariant.  It does not say which slot the tracker offers:    *)
(* none of the properties below rests on Chosen.                               *)
CacheInv == TypeOK /\ CachedTracked /\ EntryWatched

(* The initial state of NewCache satisfies the inductive invariant. *)
LEMMA CacheInit == Init => CacheInv
<1> SUFFICES ASSUME Init PROVE CacheInv
  OBVIOUS
<1>1. TypeOK
  BY CacheAssumption DEF Init, TypeOK
<1>2. CachedTracked /\ EntryWatched
  BY DEF Init, CachedTracked, EntryWatched
<1> QED BY <1>1, <1>2 DEF CacheInv

(* Every operation of the cache keeps the state well typed. *)
LEMMA CacheNextTypeOK == TypeOK /\ [Next]_vars => TypeOK'
<1> SUFFICES ASSUME TypeOK, [Next]_vars PROVE TypeOK'
  OBVIOUS
<1> USE CacheAssumption DEF TypeOK, Slots
<1>1. ASSUME NEW k \in Key, GetHit(k) PROVE TypeOK'
  <2>1. store' \in [Slots -> [key : Key \cup {NoKey}, counter : Nat]]
    BY <1>1 DEF GetHit, Used
  <2> QED BY <1>1, <2>1 DEF GetHit
<1>2. ASSUME NEW k \in Key, GetMiss(k) PROVE TypeOK'
  BY <1>2 DEF GetMiss, AfterPut
<1>3. ASSUME NEW k \in Key, GetFail(k) PROVE TypeOK'
  BY <1>3 DEF GetFail
<1>4. ASSUME NEW k \in Key, Expire(k) PROVE TypeOK'
  BY <1>4 DEF Expire
<1>5. ASSUME NEW k \in Key, Abandon(k) PROVE TypeOK'
  BY <1>5 DEF Abandon
<1>6. CASE Close \/ CloseReturns
  BY <1>6 DEF Close, CloseReturns
<1>7. CASE UNCHANGED vars
  BY <1>7 DEF vars
<1> QED
  BY <1>1, <1>2, <1>3, <1>4, <1>5, <1>6, <1>7 DEF Next, Watcher

(* Every operation keeps the map inside the tracker: a use moves no key, a     *)
(* put evicts the key whose slot it takes, an expiry only shrinks the map.     *)
LEMMA CacheNextTracked == CacheInv /\ [Next]_vars => CachedTracked'
<1> SUFFICES ASSUME CacheInv, [Next]_vars PROVE CachedTracked'
  OBVIOUS
<1> USE CacheAssumption DEF CacheInv, TypeOK, CachedTracked, Slots, Tracked
<1>1. ASSUME NEW k \in Key, GetHit(k) PROVE CachedTracked'
  <2>1. \A i \in Slots : store'[i].key = store[i].key
    BY <1>1 DEF GetHit, Used, IsSlotOf
  <2> QED BY <1>1, <2>1 DEF GetHit
<1>2. ASSUME NEW k \in Key, GetMiss(k) PROVE CachedTracked'
  <2>1. PICK i \in Slots :
          /\ cache' = AfterPut(i, k)
          /\ store' = [store EXCEPT ![i] = [key |-> k, counter |-> 0]]
    BY <1>2 DEF GetMiss
  <2>2. store'[i].key = k /\ \A j \in Slots \ {i} : store'[j] = store[j]
    BY <2>1
  <2>3. ASSUME NEW c \in cache' PROVE \E j \in Slots : c = store'[j].key
    <3>1. CASE c = k
      BY <3>1, <2>2
    <3>2. CASE c # k
      <4>1. c \in cache /\ c # store[i].key
        BY <2>1, <2>3, <3>2 DEF AfterPut
      <4>2. PICK j \in Slots : c = store[j].key
        BY <4>1
      <4> QED BY <4>1, <4>2, <2>2
    <3> QED BY <3>1, <3>2
  <2> QED BY <2>3
<1>3. ASSUME NEW k \in Key, Expire(k) PROVE CachedTracked'
  BY <1>3 DEF Expire
<1>4. ASSUME NEW k \in Key, GetFail(k) \/ Abandon(k) PROVE CachedTracked'
  BY <1>4 DEF GetFail, Abandon
<1>5. CASE Close \/ CloseReturns
  BY <1>5 DEF Close, CloseReturns
<1>6. CASE UNCHANGED vars
  BY <1>6 DEF vars
<1> QED
  BY <1>1, <1>2, <1>3, <1>4, <1>5, <1>6 DEF Next, Watcher

(* Every operation leaves a watcher on each entry while the cache is open. *)
LEMMA CacheNextWatched == CacheInv /\ [Next]_vars => EntryWatched'
<1> SUFFICES ASSUME CacheInv, [Next]_vars PROVE EntryWatched'
  OBVIOUS
<1> USE DEF CacheInv, TypeOK, EntryWatched
<1>1. ASSUME NEW k \in Key, GetHit(k) PROVE EntryWatched'
  BY <1>1 DEF GetHit
<1>2. ASSUME NEW k \in Key, GetMiss(k) PROVE EntryWatched'
  BY <1>2 DEF GetMiss, AfterPut
<1>3. ASSUME NEW k \in Key, Expire(k) PROVE EntryWatched'
  BY <1>3 DEF Expire
<1>4. ASSUME NEW k \in Key, GetFail(k) \/ Abandon(k) PROVE EntryWatched'
  BY <1>4 DEF GetFail, Abandon
<1>5. CASE Close \/ CloseReturns
  BY <1>5 DEF Close, CloseReturns
<1>6. CASE UNCHANGED vars
  BY <1>6 DEF vars
<1> QED
  BY <1>1, <1>2, <1>3, <1>4, <1>5, <1>6 DEF Next, Watcher

(* The inductive invariant holds in every reachable state of the cache. *)
THEOREM CacheInductive == Spec => []CacheInv
<1>1. CacheInv /\ [Next]_vars => CacheInv'
  BY CacheNextTypeOK, CacheNextTracked, CacheNextWatched DEF CacheInv
<1> QED BY <1>1, CacheInit, PTL DEF Spec

(* Every state of the cache is well typed. *)
THEOREM CacheTypeOK == Spec => []TypeOK
<1>1. CacheInv => TypeOK BY DEF CacheInv
<1> QED BY <1>1, CacheInductive, PTL

(* No entry of the map is ever unknown to the tracker that evicts (Cache.put,  *)
(* lruTracker.SetOrReplace, watchCacheEntry).                                  *)
THEOREM CacheTracked == Spec => []CachedTracked
<1>1. CacheInv => CachedTracked BY DEF CacheInv
<1> QED BY <1>1, CacheInductive, PTL

(* While the cache is open every entry has a goroutine that will delete it     *)
(* (Cache.put, watchCacheEntry).                                               *)
THEOREM CacheWatched == Spec => []EntryWatched
<1>1. CacheInv => EntryWatched BY DEF CacheInv
<1> QED BY <1>1, CacheInductive, PTL

(* The map never outgrows the tracker, however many keys there are: its keys   *)
(* lie in the image of the slots.                                              *)
THEOREM CacheBound == Spec => []CacheBounded
<1>1. CacheInv => CacheBounded
  <2> SUFFICES ASSUME CacheInv PROVE CacheBounded
    OBVIOUS
  <2>1. IsFiniteSet(Slots) /\ Cardinality(Slots) = Size
    BY FS_Interval, CacheAssumption DEF Slots
  <2>2. IsFiniteSet(Tracked) /\ Cardinality(Tracked) <= Size
    <3> DEFINE f == [i \in Slots |-> store[i].key]
    <3>1. f \in Surjection(Slots, Tracked)
      BY DEF Surjection, Tracked
    <3> QED BY <2>1, <3>1, FS_Surjection
  <2>3. Cardinality(cache) <= Cardinality(Tracked)
    BY <2>2, FS_Subset DEF CacheInv, CachedTracked
  <2> QED BY <2>1, <2>2, <2>3, FS_CardinalityType, FS_Subset, CacheAssumption
          DEF CacheInv, CachedTracked, CacheBounded
<1> QED BY <1>1, CacheInductive, PTL

----------------------------------------------------------------------------
(* The queue of deferred packets.                                              *)
\* The cells of the queue's window and of the goroutine's.
QCell(i) == mem[rpqueue.a][rpqueue.off + i]
PCell(i) == mem[pq.a][pq.off + i]

\* The indices of the queue's cells and of those the goroutine has yet to read.
QIndex == 1 .. rpqueue.len
PIndex == next + 1 .. pq.len

PassInv ==
  /\ pq.len <= MaxSizePacketQueue
  /\ next < pq.len => rpqueue.a = pq.a /\ rpqueue.off = pq.off /\ rpqueue.len <= next

QCellsInv ==
  /\ \A i \in QIndex : QCell(i) \in received /\ delivered[QCell(i)] = 0
  /\ \A i, j \in QIndex : QCell(i) = QCell(j) => i = j

PCellsInv ==
  /\ \A i \in PIndex : PCell(i) \in received /\ delivered[PCell(i)] = 0
  /\ \A i, j \in PIndex : PCell(i) = PCell(j) => i = j

ApartInv == \A i \in QIndex, j \in PIndex : QCell(i) # PCell(j)

OnceInv == \A p \in Packet : delivered[p] \in {0, 1} /\ (p \notin received => delivered[p] = 0)

\* What holds until a cell yet to be read is written over.
SoundInv == PassInv /\ QCellsInv /\ PCellsInv /\ ApartInv /\ OnceInv

QueueInv == Que!TypeOK /\ Que!WindowsFilled /\ (overwritten \/ SoundInv)

------------------------------------------------------------------------------
(* Lemmas *)

\* What append(s, p) leaves in the arrays.
Appended(s, p) ==
  /\ mem' \in [Que!Arrays -> Seq(Packet \cup {Nil})]
  /\ rpqueue' \in Que!Slice /\ rpqueue'.len = s.len + 1
  /\ rpqueue'.off + rpqueue'.len <= Len(mem'[rpqueue'.a])
  /\ Len(mem'[pq.a]) = Len(mem[pq.a])
  /\ \A i \in 1 .. s.len : mem'[rpqueue'.a][rpqueue'.off + i] = mem[s.a][s.off + i]
  /\ mem'[rpqueue'.a][rpqueue'.off + s.len + 1] = p
  /\ \A j \in 1 .. Len(mem[pq.a]) : mem'[pq.a][j] = mem[pq.a][j] \/ mem'[pq.a][j] = p
  /\ overwritten' \in BOOLEAN /\ (overwritten => overwritten')
  /\ s.off + s.len < Len(mem[s.a]) =>
       /\ rpqueue'.a = s.a /\ rpqueue'.off = s.off
       /\ \A j \in 1 .. Len(mem[pq.a]) :
            (s.a = pq.a /\ j = s.off + s.len + 1) \/ mem'[pq.a][j] = mem[pq.a][j]
       /\ overwritten' \/ ~ Que!Unread(s.a, s.off + s.len + 1)

(* append writes behind the window, or copies the window to an array that  *)
(* neither slice points at.                                                *)
LEMMA AppendSound ==
  ASSUME Que!TypeOK, NEW s \in Que!Slice, s.off + s.len <= Len(mem[s.a]),
         NEW p \in Packet, Que!AppendCell(s, p)
  PROVE  Appended(s, p)
<1> DEFINE PC == Packet \cup {Nil}
<1>0. /\ mem \in [Que!Arrays -> Seq(PC)] /\ pq.a \in Que!Arrays /\ s.a \in Que!Arrays
      /\ s.off \in Nat /\ s.len \in Nat /\ s = [a |-> s.a, off |-> s.off, len |-> s.len]
      /\ p \in PC
  BY DEF Que!TypeOK, Que!Slice
<1>1. mem[s.a] \in Seq(PC) /\ mem[pq.a] \in Seq(PC) /\ Len(mem[s.a]) \in Nat
  BY <1>0
<1>2. PICK cap \in Nat : cap = Len(mem[s.a]) - s.off /\ s.len <= cap
  BY <1>0, <1>1
<1>3. CASE s.len < cap
  <2>1. PICK k \in Nat : k = s.off + s.len + 1 /\ k \in 1 .. Len(mem[s.a])
    BY <1>0, <1>1, <1>2, <1>3
  <2>2. PICK new : new = [mem[s.a] EXCEPT ![k] = p]
    OBVIOUS
  <2>3. /\ new \in Seq(PC) /\ Len(new) = Len(mem[s.a])
        /\ \A j \in 1 .. Len(mem[s.a]) : new[j] = IF j = k THEN p ELSE mem[s.a][j]
    BY <1>0, <1>1, <2>1, <2>2, ExceptSeq
  <2>4. mem' = [mem EXCEPT ![s.a] = new] /\ rpqueue' = [s EXCEPT !.len = @ + 1]
    BY <1>2, <1>3, <2>1, <2>2 DEF Que!AppendCell
  <2>5. /\ mem' \in [Que!Arrays -> Seq(PC)]
        /\ \A a \in Que!Arrays : mem'[a] = IF a = s.a THEN new ELSE mem[a]
    BY <1>0, <2>3, <2>4
  <2>6. rpqueue' = [a |-> s.a, off |-> s.off, len |-> s.len + 1]
    BY <1>0, <2>4
  <2>7. /\ rpqueue' \in Que!Slice /\ rpqueue'.a = s.a /\ rpqueue'.off = s.off
        /\ rpqueue'.len = s.len + 1
    BY <1>0, <2>6 DEF Que!Slice
  <2>8. mem'[s.a] = new
    BY <1>0, <2>5
  <2>9. s.off + (s.len + 1) <= Len(new)
    BY <1>0, <1>1, <1>2, <1>3, <2>3
  <2>10. \A i \in 1 .. s.len : new[s.off + i] = mem[s.a][s.off + i]
    <3> SUFFICES ASSUME NEW i \in 1 .. s.len
                 PROVE  new[s.off + i] = mem[s.a][s.off + i]
      OBVIOUS
    <3>1. s.off + i \in 1 .. Len(mem[s.a]) /\ s.off + i # k
      BY <1>0, <1>1, <2>1
    <3> QED
      BY <2>3, <3>1
  <2>11. new[s.off + s.len + 1] = p
    BY <2>1, <2>3
  <2>12. /\ Len(mem'[pq.a]) = Len(mem[pq.a])
         /\ \A j \in 1 .. Len(mem[pq.a]) :
              (s.a = pq.a /\ j = s.off + s.len + 1) \/ mem'[pq.a][j] = mem[pq.a][j]
    <3>1. CASE s.a = pq.a
      BY <2>1, <2>3, <2>8, <3>1
    <3>2. CASE s.a # pq.a
      BY <1>0, <2>5, <3>2
    <3> QED
      BY <3>1, <3>2
  <2>13. \A j \in 1 .. Len(mem[pq.a]) : mem'[pq.a][j] = mem[pq.a][j] \/ mem'[pq.a][j] = p
    BY <2>8, <2>11, <2>12
  <2>14. overwritten' = (overwritten \/ Que!Unread(s.a, s.off + s.len + 1))
    BY <1>2, <1>3 DEF Que!AppendCell
  <2>15. /\ overwritten' \in BOOLEAN /\ (overwritten => overwritten')
         /\ overwritten' \/ ~ Que!Unread(s.a, s.off + s.len + 1)
    BY <2>14, Zenon
  <2> QED
    BY <2>5, <2>7, <2>8, <2>9, <2>10, <2>11, <2>12, <2>13, <2>15 DEF Appended
<1>4. CASE ~(s.len < cap)
  <2>1. PICK b \in Que!Arrays : b = (CHOOSE x \in Que!Arrays : x # s.a /\ x # pq.a)
                                /\ b # s.a /\ b # pq.a
    <3>1. \E x \in Que!Arrays : x # s.a /\ x # pq.a
      BY <1>0 DEF Que!Arrays
    <3> QED
      BY <3>1
  <2>2. PICK size \in Nat : size = (IF cap = 0 THEN 1 ELSE 2 * cap) /\ s.len + 1 <= size
    BY <1>0, <1>2, <1>4
  <2>3. PICK cell : cell = [i \in 1 .. size |-> IF i <= s.len THEN mem[s.a][s.off + i]
                                               ELSE IF i = s.len + 1 THEN p ELSE Nil]
    OBVIOUS
  <2>4. mem' = [mem EXCEPT ![b] = cell] /\ rpqueue' = [a |-> b, off |-> 0, len |-> s.len + 1]
    BY <1>2, <1>4, <2>1, <2>2, <2>3 DEF Que!AppendCell
  <2>5. \A i \in 1 .. size : cell[i] \in PC
    <3>1. \A i \in 1 .. s.len : mem[s.a][s.off + i] \in PC
      <4> SUFFICES ASSUME NEW i \in 1 .. s.len PROVE mem[s.a][s.off + i] \in PC
        OBVIOUS
      <4>1. s.off + i \in 1 .. Len(mem[s.a])
        BY <1>0, <1>1
      <4> QED
        BY <1>1, <4>1, ElementOfSeq
    <3> QED
      BY <1>0, <2>3, <3>1
  <2>6. cell \in Seq(PC) /\ Len(cell) = size
    <3>1. cell \in [1 .. size -> PC]
      BY <2>3, <2>5
    <3> QED
      BY <2>2, <3>1, SeqDef
  <2>7. /\ mem' \in [Que!Arrays -> Seq(PC)] /\ mem'[b] = cell /\ mem'[pq.a] = mem[pq.a]
    BY <1>0, <2>1, <2>4, <2>6
  <2>8. /\ rpqueue' \in Que!Slice /\ rpqueue'.a = b /\ rpqueue'.off = 0
        /\ rpqueue'.len = s.len + 1
    BY <1>0, <2>4 DEF Que!Slice
  <2>9. rpqueue'.off + rpqueue'.len <= Len(mem'[rpqueue'.a])
    <3>1. 0 + (s.len + 1) <= Len(cell)
      BY <1>0, <2>2, <2>6
    <3> QED
      BY <2>7, <2>8, <3>1
  <2>10. \A i \in 1 .. s.len : cell[0 + i] = mem[s.a][s.off + i]
    BY <1>0, <2>2, <2>3
  <2>11. cell[0 + s.len + 1] = p
    BY <1>0, <2>2, <2>3
  <2>12. ~(s.off + s.len < Len(mem[s.a]))
    BY <1>0, <1>1, <1>2, <1>4
  <2>13. /\ \A i \in 1 .. s.len : mem'[rpqueue'.a][rpqueue'.off + i] = mem[s.a][s.off + i]
         /\ mem'[rpqueue'.a][rpqueue'.off + s.len + 1] = p
    BY <2>7, <2>8, <2>10, <2>11
  <2>14. \A j \in 1 .. Len(mem[pq.a]) : mem'[pq.a][j] = mem[pq.a][j] \/ mem'[pq.a][j] = p
    BY <2>7
  <2>15. overwritten' = overwritten
    BY <1>2, <1>4 DEF Que!AppendCell
  <2>16. overwritten' \in BOOLEAN /\ (overwritten => overwritten')
    BY <2>15 DEF Que!TypeOK
  <2> QED
    BY <2>7, <2>8, <2>9, <2>12, <2>13, <2>14, <2>16 DEF Appended
<1> QED
  BY <1>3, <1>4

\* The packets in the two windows.
QSet == {QCell(i) : i \in QIndex}
PSet == {PCell(i) : i \in PIndex}

\* The state of DeferredPackets that the queue stands for.
fateOf == [p \in Packet |-> Que!Fate(p)]

(* Waiting is what the two windows hold.                                   *)
LEMMA WaitingSets == Que!Waiting = QSet \cup PSet /\ Que!Waiting' = QSet' \cup PSet'
  BY DEF Que!Waiting, Que!Cells, Que!Rest, QSet, PSet, QCell, PCell, QIndex, PIndex

(* The facts about a state that every step starts from.                    *)
LEMMA WindowFacts ==
  ASSUME Que!TypeOK
  PROVE  /\ rpqueue = [a |-> rpqueue.a, off |-> rpqueue.off, len |-> rpqueue.len]
         /\ rpqueue.a \in Que!Arrays /\ rpqueue.off \in Nat /\ rpqueue.len \in Nat
         /\ pq.a \in Que!Arrays /\ pq.off \in Nat /\ pq.len \in Nat
         /\ next \in Nat /\ next <= pq.len
         /\ MaxSizePacketQueue \in Nat /\ MaxSizePacketQueue > 0
         /\ rpqueue.len <= MaxSizePacketQueue
         /\ rpqueue.off + rpqueue.len <= Len(mem[rpqueue.a])
         /\ pq.off + pq.len <= Len(mem[pq.a])
         /\ Len(mem[pq.a]) \in Nat /\ Len(mem[rpqueue.a]) \in Nat
         /\ received \subseteq Packet
<1>1. /\ rpqueue = [a |-> rpqueue.a, off |-> rpqueue.off, len |-> rpqueue.len]
      /\ rpqueue.a \in Que!Arrays /\ rpqueue.off \in Nat /\ rpqueue.len \in Nat
      /\ pq.a \in Que!Arrays /\ pq.off \in Nat /\ pq.len \in Nat
  BY DEF Que!TypeOK, Que!Slice
<1>2. next \in Nat /\ next <= pq.len
  BY <1>1 DEF Que!TypeOK
<1>3. MaxSizePacketQueue \in Nat /\ MaxSizePacketQueue > 0
  BY QueueAssumption DEF Que!ParametersOK
<1>4. /\ rpqueue.len <= MaxSizePacketQueue
      /\ rpqueue.off + rpqueue.len <= Len(mem[rpqueue.a]) /\ pq.off + pq.len <= Len(mem[pq.a])
      /\ received \subseteq Packet
  BY DEF Que!TypeOK
<1>5. Len(mem[pq.a]) \in Nat /\ Len(mem[rpqueue.a]) \in Nat
  BY <1>1 DEF Que!TypeOK
<1> QED
  BY <1>1, <1>2, <1>3, <1>4, <1>5

(* The packets in the two windows are among those that came in.            *)
LEMMA StateFacts ==
  ASSUME Que!TypeOK, SoundInv
  PROVE  /\ QSet \subseteq received /\ PSet \subseteq received /\ received \subseteq Packet
<1>1. QSet \subseteq received /\ PSet \subseteq received
  BY DEF SoundInv, QCellsInv, PCellsInv, QSet, PSet
<1> QED
  BY <1>1 DEF Que!TypeOK

(* Nothing moves in the queue: agents and modules come and go, a packet    *)
(* grows old.                                                              *)
LEMMA QueueStill ==
  ASSUME UNCHANGED <<mem, rpqueue, pq, next, received, delivered>>
  PROVE  (SoundInv => SoundInv') /\ UNCHANGED <<fateOf, Que!Waiting>>
<1>1. UNCHANGED <<mem, rpqueue, pq, next, received, delivered>>
  OBVIOUS
<1>3. SoundInv => SoundInv'
  BY <1>1 DEF SoundInv, PassInv, QCellsInv, PCellsInv, ApartInv, OnceInv, QCell, PCell, QIndex,
              PIndex
<1>4. Que!Waiting' = Que!Waiting
  BY <1>1 DEF Que!Waiting, Que!Cells, Que!Rest
<1>5. \A p \in Packet : Que!Fate(p)' = Que!Fate(p)
  BY <1>1, <1>4 DEF Que!Fate
<1> QED
  BY <1>3, <1>4, <1>5 DEF fateOf

(* A pass begins: the queue's packets become the goroutine's.              *)
LEMMA QueueSwap ==
  ASSUME Que!TypeOK, Que!Swap
  PROVE  (SoundInv => SoundInv') /\ UNCHANGED <<fateOf, Que!Waiting>> /\ Que!TypeOK'
<1>1. /\ UNCHANGED <<mem, up, received, delivered, old, overwritten>>
      /\ pq' = rpqueue /\ next' = 0 /\ next = pq.len
      /\ rpqueue' = [rpqueue EXCEPT !.len = 0]
  BY DEF Que!Swap, Que!Idle
<1>2. /\ rpqueue' = [a |-> rpqueue.a, off |-> rpqueue.off, len |-> 0]
      /\ rpqueue'.a = rpqueue.a /\ rpqueue'.off = rpqueue.off /\ rpqueue'.len = 0
  BY <1>1, WindowFacts
<1>3. Que!TypeOK'
  <2>1. rpqueue' \in Que!Slice /\ pq' \in Que!Slice
    <3>1. rpqueue' \in Que!Slice
      BY <1>2, WindowFacts DEF Que!Slice
    <3>2. pq' \in Que!Slice
      BY <1>1 DEF Que!TypeOK
    <3> QED
      BY <3>1, <3>2
  <2>2. rpqueue'.len <= MaxSizePacketQueue /\ next' \in 0 .. pq'.len
    BY <1>1, <1>2, WindowFacts
  <2>3. \A s \in {rpqueue', pq'} : s.off + s.len <= Len(mem'[s.a])
    BY <1>1, <1>2, WindowFacts
  <2> QED
    BY <1>1, <2>1, <2>2, <2>3 DEF Que!TypeOK
<1>5. QIndex' = {} /\ PIndex = {} /\ PIndex' = QIndex
  BY <1>1, <1>2, WindowFacts DEF QIndex, PIndex
<1>6. \A i : PCell(i)' = QCell(i)
  BY <1>1 DEF PCell, QCell
<1>7. ASSUME SoundInv PROVE SoundInv'
  <2>0. PassInv /\ QCellsInv /\ OnceInv
    BY <1>7 DEF SoundInv
  <2>1. PassInv'
    BY <1>1, <1>2, WindowFacts DEF PassInv
  <2>2. QCellsInv' /\ ApartInv' /\ OnceInv'
    BY <2>0, <1>1, <1>5 DEF QCellsInv, ApartInv, OnceInv
  <2>3. PCellsInv'
    BY <2>0, <1>1, <1>5, <1>6 DEF PCellsInv, QCellsInv
  <2> QED
    BY <2>1, <2>2, <2>3 DEF SoundInv
<1>9. Que!Waiting' = Que!Waiting
  <2>1. QSet' = {} /\ PSet = {} /\ PSet' = QSet
    BY <1>5, <1>6 DEF QSet, PSet
  <2> QED
    BY <2>1, WaitingSets
<1>10. \A p \in Packet : Que!Fate(p)' = Que!Fate(p)
  BY <1>1, <1>9 DEF Que!Fate
<1> QED
  BY <1>3, <1>7, <1>9, <1>10 DEF fateOf

(* A packet is handed over: it came in just now, or it is the cell that    *)
(* the goroutine reads.                                                    *)
LEMMA QueueHandOver ==
  ASSUME Que!TypeOK, SoundInv, NEW p \in Packet, delivered[p] = 0, Que!HandOver(p), UNCHANGED <<pq, up, old>>,
         next' \in 0 .. pq.len, next <= next', p \in received',
         received' = received \cup {p},
         p \notin QSet, \A i \in PIndex' : PCell(i) # p,
         PSet \subseteq {PCell(i) : i \in PIndex'} \cup {p}
  PROVE  /\ SoundInv'
         /\ \A x \in Packet : Que!Fate(x)' = IF x = p THEN "delivered" ELSE Que!Fate(x)
<1>0. PassInv /\ QCellsInv /\ PCellsInv /\ ApartInv /\ OnceInv
  BY DEF SoundInv
<1>1. UNCHANGED <<mem, rpqueue, pq, up, old>> /\ delivered' = [delivered EXCEPT ![p] = @ + 1]
  BY DEF Que!HandOver
<1>2. /\ delivered' \in [Packet -> Nat]
      /\ \A x \in Packet : delivered'[x] = IF x = p THEN 1 ELSE delivered[x]
  BY <1>0, <1>1 DEF Que!TypeOK
<1>4. PassInv'
  BY <1>0, <1>1, WindowFacts DEF PassInv
<1>5. /\ QIndex' = QIndex /\ \A i : QCell(i)' = QCell(i) /\ PCell(i)' = PCell(i)
      /\ PIndex' \subseteq PIndex
  BY <1>1, WindowFacts DEF QIndex, PIndex, QCell, PCell
<1>6. QCellsInv'
  <2>1. \A i \in QIndex : QCell(i) # p /\ QCell(i) \in Packet
    BY <1>0, StateFacts DEF QSet, QCellsInv
  <2> QED
    BY <1>0, <1>2, <1>5, <2>1 DEF QCellsInv
<1>7. PCellsInv'
  <2>1. \A i \in PIndex' : PCell(i) # p /\ PCell(i) \in Packet
    BY <1>0, <1>5, StateFacts DEF PCellsInv
  <2> QED
    BY <1>0, <1>2, <1>5, <2>1 DEF PCellsInv
<1>8. ApartInv'
  BY <1>0, <1>5 DEF ApartInv
<1>9. OnceInv'
  BY <1>0, <1>2 DEF OnceInv
<1>10. QSet' = QSet /\ PSet' \cup {p} = PSet \cup {p}
  <2>1. QSet' = QSet
    BY <1>5 DEF QSet
  <2>2. PSet' = {PCell(i) : i \in PIndex'} /\ PSet' \subseteq PSet
    BY <1>5 DEF PSet
  <2> QED
    BY <2>1, <2>2
<1>11. ASSUME NEW x \in Packet
       PROVE  Que!Fate(x)' = IF x = p THEN "delivered" ELSE Que!Fate(x)
  <2>1. CASE x = p
    BY <1>2, <2>1 DEF Que!Fate
  <2>2. CASE x # p
    <3>1. x \in Que!Waiting' <=> x \in Que!Waiting
      BY <1>10, <2>2, WaitingSets
    <3>2. x \in received' <=> x \in received
      BY <2>2
    <3>3. delivered'[x] = delivered[x]
      BY <1>2, <2>2
    <3> QED
      BY <2>2, <3>1, <3>2, <3>3 DEF Que!Fate
  <2> QED
    BY <2>1, <2>2
<1> QED
  BY <1>4, <1>6, <1>7, <1>8, <1>9, <1>11 DEF SoundInv

(* A packet comes in between two passes and cannot be handed over.         *)
LEMMA QueueDefer ==
  ASSUME Que!TypeOK, SoundInv, NEW p \in Packet, Que!Idle, Que!Receive(p), Que!Defer(p), UNCHANGED delivered
  PROVE  /\ SoundInv'
         /\ Que!Fate(p) = "new"
         /\ \/ \A x \in Packet : Que!Fate(x)' = IF x = p THEN "waiting" ELSE Que!Fate(x)
            \/ \E o \in Packet :
                 /\ Que!Fate(o) = "waiting"
                 /\ Cardinality({x \in Packet : Que!Fate(x) = "waiting"}) >= MaxSizePacketQueue
                 /\ \A x \in Packet : Que!Fate(x)' = IF x = p THEN "waiting"
                                                     ELSE IF x = o THEN "dropped" ELSE Que!Fate(x)
<1>0. PassInv /\ QCellsInv /\ PCellsInv /\ ApartInv /\ OnceInv
  BY DEF SoundInv
<1>1. /\ UNCHANGED <<pq, next, up, old, delivered>> /\ p \notin received
      /\ received' = received \cup {p} /\ next = pq.len
  BY DEF Que!Receive, Que!Idle
<1>2. PICK d \in {0, 1} : d = IF rpqueue.len >= MaxSizePacketQueue THEN 1 ELSE 0
  OBVIOUS
<1>3. PICK s : /\ s = [a |-> rpqueue.a, off |-> rpqueue.off + d, len |-> rpqueue.len - d]
               /\ Que!AppendCell(s, p)
  <2>1. CASE rpqueue.len >= MaxSizePacketQueue
    <3>1. Que!Shifted(rpqueue) = [a |-> rpqueue.a, off |-> rpqueue.off + d, len |-> rpqueue.len - d]
      BY <1>2, <2>1 DEF Que!Shifted
    <3> QED
      BY <2>1, <3>1 DEF Que!Defer
  <2>2. CASE ~(rpqueue.len >= MaxSizePacketQueue)
    <3>1. rpqueue = [a |-> rpqueue.a, off |-> rpqueue.off + d, len |-> rpqueue.len - d]
      BY <1>2, <2>2, WindowFacts, StateFacts
    <3> QED
      BY <2>2, <3>1 DEF Que!Defer
  <2> QED
    BY <2>1, <2>2
<1>4. /\ s.a = rpqueue.a /\ s.off = rpqueue.off + d /\ s.len = rpqueue.len - d
      /\ s.off \in Nat /\ s.len \in Nat /\ s.len + 1 <= MaxSizePacketQueue
      /\ s.off + s.len = rpqueue.off + rpqueue.len
  <2>1. s.a = rpqueue.a /\ s.off = rpqueue.off + d /\ s.len = rpqueue.len - d
    BY <1>3
  <2>2. /\ rpqueue.off \in Nat /\ rpqueue.len \in Nat /\ MaxSizePacketQueue \in Nat
        /\ MaxSizePacketQueue > 0 /\ rpqueue.len <= MaxSizePacketQueue
    BY WindowFacts, StateFacts
  <2> QED
    BY <1>2, <2>1, <2>2
<1>5. s \in Que!Slice /\ s.off + s.len <= Len(mem[s.a])
  BY <1>3, <1>4, WindowFacts, StateFacts DEF Que!Slice
<1>6. Appended(s, p)
  BY <1>0, <1>3, <1>5, AppendSound
<1>7. /\ mem' \in [Que!Arrays -> Seq(Packet \cup {Nil})]
      /\ rpqueue' \in Que!Slice /\ rpqueue'.len = s.len + 1
      /\ rpqueue'.off + rpqueue'.len <= Len(mem'[rpqueue'.a])
      /\ Len(mem'[pq.a]) = Len(mem[pq.a])
  BY <1>6 DEF Appended
<1>9. PassInv'
  BY <1>0, <1>1, WindowFacts, StateFacts DEF PassInv
<1>10. PIndex = {} /\ PIndex' = {}
  BY <1>1, WindowFacts, StateFacts DEF PIndex
<1>11. PCellsInv' /\ ApartInv' /\ OnceInv'
  BY <1>0, <1>1, <1>10 DEF PCellsInv, ApartInv, OnceInv
<1>12. /\ \A i \in 1 .. s.len : QCell(i)' = QCell(i + d) /\ i + d \in QIndex
       /\ QCell(s.len + 1)' = p /\ QIndex' = 1 .. s.len + 1
  <2>1. ASSUME NEW i \in 1 .. s.len
        PROVE  QCell(i)' = QCell(i + d) /\ i + d \in QIndex
    <3>1. mem'[rpqueue'.a][rpqueue'.off + i] = mem[s.a][s.off + i]
      BY <1>6 DEF Appended
    <3>2. s.off + i = rpqueue.off + (i + d)
      BY <1>4, WindowFacts, StateFacts
    <3>3. i + d \in QIndex
      BY <1>4, WindowFacts, StateFacts DEF QIndex
    <3> QED
      BY <1>4, <3>1, <3>2, <3>3 DEF QCell
  <2>2. QCell(s.len + 1)' = p
    <3>1. rpqueue'.off \in Nat /\ rpqueue'.off + s.len + 1 = rpqueue'.off + (s.len + 1)
      BY <1>4, <1>7 DEF Que!Slice
    <3> QED
      BY <1>6, <3>1 DEF Appended, QCell
  <2>3. QIndex' = 1 .. s.len + 1
    BY <1>7 DEF QIndex
  <2> QED
    BY <2>1, <2>2, <2>3
<1>13. p \notin QSet /\ delivered[p] = 0 /\ Que!Fate(p) = "new"
  BY <1>0, <1>1, WindowFacts, StateFacts DEF OnceInv, Que!Fate
<1>14. QCellsInv'
  <2>1. ASSUME NEW i \in QIndex'
        PROVE  QCell(i)' \in received' /\ delivered'[QCell(i)'] = 0
    <3>1. CASE i \in 1 .. s.len
      <4>1. QCell(i + d) \in received /\ delivered[QCell(i + d)] = 0
        BY <1>0, <1>12, <3>1 DEF QCellsInv
      <4> QED
        BY <1>1, <1>12, <3>1, <4>1
    <3>2. CASE i = s.len + 1
      BY <1>1, <1>12, <1>13, <3>2
    <3>3. i \in 1 .. s.len + 1
      BY <1>12
    <3>4. i \in 1 .. s.len \/ i = s.len + 1
      BY <1>4, <3>3
    <3> QED
      BY <3>1, <3>2, <3>4
  <2>2. ASSUME NEW i \in QIndex', NEW j \in QIndex', QCell(i)' = QCell(j)'
        PROVE  i = j
    <3>1. \A k \in 1 .. s.len : QCell(k)' \in QSet
      BY <1>12 DEF QSet
    <3>2. CASE i \in 1 .. s.len /\ j \in 1 .. s.len
      <4>1. QCell(i + d) = QCell(j + d) /\ i + d \in QIndex /\ j + d \in QIndex
        BY <1>12, <2>2, <3>2
      <4>2. i + d = j + d
        BY <1>0, <4>1 DEF QCellsInv
      <4> QED
        BY <1>2, <3>2, <4>2
    <3>3. CASE i = s.len + 1 /\ j \in 1 .. s.len
      BY <1>12, <1>13, <2>2, <3>1, <3>3
    <3>4. CASE i \in 1 .. s.len /\ j = s.len + 1
      BY <1>12, <1>13, <2>2, <3>1, <3>4
    <3>5. i \in 1 .. s.len + 1 /\ j \in 1 .. s.len + 1
      BY <1>12
    <3>6. (i \in 1 .. s.len \/ i = s.len + 1) /\ (j \in 1 .. s.len \/ j = s.len + 1)
      BY <1>4, <3>5
    <3> QED
      BY <3>2, <3>3, <3>4, <3>6
  <2> QED
    BY <2>1, <2>2 DEF QCellsInv
<1>15. SoundInv'
  BY <1>9, <1>11, <1>14 DEF SoundInv
<1>16. PSet = {} /\ PSet' = {} /\ Que!Waiting = QSet /\ Que!Waiting' = QSet'
  BY <1>10, WaitingSets DEF PSet
<1>17. \A x \in Packet : x # p => /\ x \in received' <=> x \in received
                                  /\ delivered'[x] = delivered[x]
  BY <1>1
<1>18. p \in QSet'
  <2>1. s.len + 1 \in QIndex'
    BY <1>4, <1>12
  <2> QED
    BY <1>12, <2>1 DEF QSet
<1>19. Que!Fate(p)' = "waiting"
  BY <1>1, <1>13, <1>16, <1>18 DEF Que!Fate
<1>20. CASE d = 0
  <2>1. QSet' = QSet \cup {p}
    <3>1. ASSUME NEW x \in QSet' PROVE x \in QSet \cup {p}
      <4>1. PICK i \in QIndex' : x = QCell(i)'
        BY <3>1 DEF QSet
      <4>2. i \in 1 .. s.len \/ i = s.len + 1
        BY <1>4, <1>12
      <4> QED
        BY <1>12, <4>1, <4>2 DEF QSet
    <3>2. ASSUME NEW x \in QSet PROVE x \in QSet'
      <4>1. PICK i \in QIndex : x = QCell(i)
        BY <3>2 DEF QSet
      <4>2. i \in 1 .. s.len /\ i + d = i /\ i \in QIndex'
        <5>1. i \in 1 .. rpqueue.len /\ rpqueue.len \in Nat
          BY WindowFacts, StateFacts DEF QIndex
        <5> QED
          BY <1>4, <1>12, <1>20, <5>1
      <4> QED
        BY <1>12, <4>1, <4>2 DEF QSet
    <3> QED
      BY <1>18, <3>1, <3>2
  <2>2. \A x \in Packet : Que!Fate(x)' = IF x = p THEN "waiting" ELSE Que!Fate(x)
    BY <1>16, <1>17, <1>19, <2>1 DEF Que!Fate
  <2> QED
    BY <1>13, <1>15, <2>2
<1>21. CASE d = 1
  <2>1. rpqueue.len = MaxSizePacketQueue /\ 1 \in QIndex /\ s.len = rpqueue.len - 1
    BY <1>2, <1>4, <1>21, WindowFacts, StateFacts DEF QIndex
  <2>2. PICK o \in Packet : o = QCell(1)
    BY <2>1, WindowFacts, StateFacts DEF QSet
  <2>3. QSet' = (QSet \ {o}) \cup {p}
    <3>1. ASSUME NEW x \in QSet' PROVE x \in (QSet \ {o}) \cup {p}
      <4>1. PICK i \in QIndex' : x = QCell(i)'
        BY <3>1 DEF QSet
      <4>2. i \in 1 .. s.len \/ i = s.len + 1
        BY <1>4, <1>12
      <4>3. CASE i \in 1 .. s.len
        <5>1. x = QCell(i + 1) /\ i + 1 \in QIndex /\ i + 1 # 1
          BY <1>12, <1>21, <4>1, <4>3
        <5>2. x # o
          BY <1>0, <2>1, <2>2, <5>1 DEF QCellsInv
        <5> QED
          BY <5>1, <5>2 DEF QSet
      <4> QED
        BY <1>12, <4>1, <4>2, <4>3
    <3>2. ASSUME NEW x \in QSet, x # o PROVE x \in QSet'
      <4>1. PICK i \in QIndex : x = QCell(i)
        BY <3>2 DEF QSet
      <4>2. i # 1
        BY <2>2, <3>2, <4>1
      <4>3. PICK k \in 1 .. s.len : k + d = i /\ k \in QIndex'
        <5>1. i - 1 \in 1 .. s.len /\ (i - 1) + d = i /\ i - 1 \in QIndex'
          <6>1. i \in 1 .. rpqueue.len /\ rpqueue.len \in Nat
            BY WindowFacts, StateFacts DEF QIndex
          <6> QED
            BY <1>12, <1>21, <2>1, <4>2, <6>1
        <5> QED
          BY <5>1
      <4> QED
        BY <1>12, <4>1, <4>3 DEF QSet
    <3> QED
      BY <1>18, <3>1, <3>2
  <2>4. o \in QSet /\ o # p /\ o \in received /\ delivered[o] = 0
    <3>1. o \in QSet
      BY <2>1, <2>2 DEF QSet
    <3>2. o \in received /\ delivered[o] = 0
      BY <1>0, <2>1, <2>2 DEF QCellsInv
    <3> QED
      BY <1>13, <3>1, <3>2
  <2>5. Que!Fate(o) = "waiting" /\ Que!Fate(o)' = "dropped"
    BY <1>16, <1>17, <2>2, <2>3, <2>4 DEF Que!Fate
  <2>6. \A x \in Packet : Que!Fate(x)' = IF x = p THEN "waiting"
                                         ELSE IF x = o THEN "dropped" ELSE Que!Fate(x)
    <3> SUFFICES ASSUME NEW x \in Packet, x # p, x # o PROVE Que!Fate(x)' = Que!Fate(x)
      BY <1>19, <2>5
    <3>1. x \in Que!Waiting' <=> x \in Que!Waiting
      BY <1>16, <2>3
    <3> QED
      BY <1>17, <3>1 DEF Que!Fate
  <2>7. Cardinality({x \in Packet : Que!Fate(x) = "waiting"}) >= MaxSizePacketQueue
    <3>1. {x \in Packet : Que!Fate(x) = "waiting"} = QSet
      <4>1. \A x \in QSet : x \in received /\ x \in Packet /\ delivered[x] = 0
        BY <1>0, WindowFacts, StateFacts DEF QSet, QCellsInv
      <4>2. \A x \in QSet : x \in Packet /\ Que!Fate(x) = "waiting"
        BY <1>16, <4>1 DEF Que!Fate
      <4>3. \A x \in Packet : Que!Fate(x) = "waiting" => x \in QSet
        BY <1>16 DEF Que!Fate
      <4> QED
        BY <4>2, <4>3
    <3>2. Cardinality(QSet) = rpqueue.len
      <4> DEFINE f == [i \in QIndex |-> QCell(i)]
      <4>1. f \in [QIndex -> QSet] /\ \A i, j \in QIndex : f[i] = f[j] => i = j
        BY <1>0 DEF QSet, QCellsInv
      <4>2. \A x \in QSet : \E i \in QIndex : f[i] = x
        BY DEF QSet
      <4> HIDE DEF f
      <4>3. f \in Bijection(QIndex, QSet)
        BY <4>1, <4>2 DEF Bijection, Injection, Surjection, IsInjective
      <4>4. ExistsBijection(1 .. rpqueue.len, QSet)
        BY <4>3 DEF ExistsBijection, QIndex
      <4> QED
        BY <4>4, WindowFacts, StateFacts, FS_CountingElements
    <3> QED
      BY <2>1, <3>1, <3>2, WindowFacts, StateFacts
  <2> QED
    BY <1>13, <1>15, <2>2, <2>5, <2>6, <2>7
<1> QED
  BY <1>2, <1>20, <1>21

(* The goroutine reads a packet that has outlived its time.                *)
LEMMA QueueForget ==
  ASSUME Que!TypeOK, SoundInv, Que!Retry, PCell(next + 1) \in old
  PROVE  /\ SoundInv' /\ UNCHANGED <<old, overwritten>>
         /\ PCell(next + 1) \in Packet /\ Que!Fate(PCell(next + 1)) = "waiting"
         /\ \A x \in Packet : Que!Fate(x)' = IF x = PCell(next + 1) THEN "dropped" ELSE Que!Fate(x)
<1>0. PassInv /\ QCellsInv /\ PCellsInv /\ ApartInv /\ OnceInv
  BY DEF SoundInv
<1>1. /\ next' = next + 1 /\ next < pq.len
      /\ UNCHANGED <<mem, rpqueue, pq, up, received, delivered, old, overwritten>>
  <2>1. next' = next + 1 /\ next # pq.len /\ UNCHANGED <<pq, up, received, old>>
    BY DEF Que!Retry, Que!Idle
  <2>2. mem[pq.a][pq.off + next'] = PCell(next + 1)
    BY <2>1 DEF PCell
  <2>3. UNCHANGED <<mem, rpqueue, delivered, overwritten>>
    BY <2>2 DEF Que!Retry
  <2> QED
    BY <2>1, <2>3, WindowFacts, StateFacts
<1>2. PICK p \in Packet : p = PCell(next + 1) /\ next + 1 \in PIndex
  <2>1. next + 1 \in PIndex
    BY <1>1, WindowFacts, StateFacts DEF PIndex
  <2> QED
    BY <2>1, WindowFacts, StateFacts DEF PSet
<1>3. p \in received /\ delivered[p] = 0 /\ p \in PSet
  BY <1>0, <1>2 DEF PCellsInv, PSet
<1>4. /\ QIndex' = QIndex /\ PIndex = PIndex' \cup {next + 1} /\ next + 1 \notin PIndex'
      /\ \A i : QCell(i)' = QCell(i) /\ PCell(i)' = PCell(i)
  <2>1. PIndex = PIndex' \cup {next + 1} /\ next + 1 \notin PIndex'
    BY <1>1, WindowFacts, StateFacts DEF PIndex
  <2> QED
    BY <1>1, <2>1 DEF QIndex, QCell, PCell
<1>6. PassInv'
  BY <1>0, <1>1, WindowFacts, StateFacts DEF PassInv
<1>7. QCellsInv' /\ PCellsInv' /\ ApartInv' /\ OnceInv'
  BY <1>0, <1>1, <1>4 DEF QCellsInv, PCellsInv, ApartInv, OnceInv
<1>8. QSet' = QSet /\ PSet' = PSet \ {p} /\ p \notin QSet
  <2>1. QSet' = QSet
    BY <1>4 DEF QSet
  <2>2. PSet' = PSet \ {p}
    <3>1. PSet' = {PCell(i) : i \in PIndex'}
      BY <1>4 DEF PSet
    <3>2. \A i \in PIndex' : i \in PIndex /\ PCell(i) # p
      BY <1>0, <1>2, <1>4 DEF PCellsInv
    <3>3. \A i \in PIndex : i \in PIndex' \/ PCell(i) = p
      BY <1>2, <1>4
    <3> QED
      BY <3>1, <3>2, <3>3 DEF PSet
  <2>3. p \notin QSet
    BY <1>0, <1>2 DEF ApartInv, QSet
  <2> QED
    BY <2>1, <2>2, <2>3
<1>9. Que!Waiting' = Que!Waiting \ {p} /\ p \in Que!Waiting
  BY <1>3, <1>8, WaitingSets
<1>10. /\ Que!Fate(p) = "waiting" /\ Que!Fate(p)' = "dropped"
       /\ \A x \in Packet : x # p => Que!Fate(x)' = Que!Fate(x)
  BY <1>1, <1>3, <1>9 DEF Que!Fate
<1> QED
  BY <1>1, <1>2, <1>6, <1>7, <1>10 DEF SoundInv

(* A packet goes to the queue during a pass: one whose destination is      *)
(* still missing, or one that comes in.  It gets a cell that has been      *)
(* read, unless it is written over one that has not.                       *)
LEMMA QueueDeferInPass ==
  ASSUME Que!TypeOK, SoundInv, NEW p \in Packet, next < pq.len, Que!Defer(p), ~ overwritten',
         UNCHANGED <<pq, delivered>>, next' \in {next, next + 1},
         delivered[p] = 0, p \notin QSet, received' = received \cup {p},
         \A i \in PIndex' : PCell(i) # p
  PROVE  SoundInv' /\ Que!Waiting' = QSet \cup {PCell(i) : i \in PIndex'} \cup {p}
<1>0. PassInv /\ QCellsInv /\ PCellsInv /\ ApartInv /\ OnceInv
  BY DEF SoundInv
<1>5. /\ rpqueue.a = pq.a /\ rpqueue.off = pq.off /\ rpqueue.len <= next
      /\ pq.len <= MaxSizePacketQueue
  BY <1>0 DEF PassInv
<1>6. Que!AppendCell(rpqueue, p)
  <2>1. ~(rpqueue.len >= MaxSizePacketQueue)
    BY <1>5, WindowFacts
  <2> QED
    BY <2>1 DEF Que!Defer
<1>7. Appended(rpqueue, p)
  <2>1. rpqueue \in Que!Slice /\ rpqueue.off + rpqueue.len <= Len(mem[rpqueue.a])
    BY WindowFacts DEF Que!TypeOK
  <2> QED
    BY <1>6, <2>1, AppendSound
<1>8. rpqueue.off + rpqueue.len < Len(mem[rpqueue.a])
  BY <1>5, WindowFacts
<1>9. /\ mem' \in [Que!Arrays -> Seq(Packet \cup {Nil})]
      /\ rpqueue' \in Que!Slice /\ rpqueue'.len = rpqueue.len + 1
      /\ rpqueue'.a = pq.a /\ rpqueue'.off = pq.off
      /\ rpqueue'.off + rpqueue'.len <= Len(mem'[rpqueue'.a])
      /\ Len(mem'[pq.a]) = Len(mem[pq.a])
  BY <1>5, <1>7, <1>8 DEF Appended
<1>10. rpqueue.len < next'
  <2>1. ~ Que!Unread(rpqueue.a, rpqueue.off + rpqueue.len + 1)
    BY <1>7, <1>8 DEF Appended
  <2>2. ~(pq.off + rpqueue.len + 1 > pq.off + next' /\ pq.off + rpqueue.len + 1 <= pq.off + pq.len)
    BY <1>5, <2>1 DEF Que!Unread
  <2>3. rpqueue.len + 1 <= pq.len /\ rpqueue.len \in Nat /\ next' \in Nat /\ pq.off \in Nat
    BY <1>5, WindowFacts
  <2> QED
    BY <2>2, <2>3, WindowFacts
<1>11. PassInv'
  BY <1>5, <1>9, <1>10, WindowFacts DEF PassInv
<1>k. PICK k \in Nat : k = rpqueue.len + 1
  BY WindowFacts
<1>12. /\ \A i \in QIndex : QCell(i)' = QCell(i)
       /\ QCell(k)' = p
       /\ QIndex' = QIndex \cup {k} /\ k \notin QIndex
  <2>1. \A i \in QIndex : QCell(i)' = QCell(i)
    BY <1>7 DEF Appended, QCell, QIndex
  <2>2. QCell(k)' = p
    <3>1. rpqueue'.off \in Nat /\ rpqueue.len \in Nat
      BY <1>9, WindowFacts
    <3>2. rpqueue'.off + rpqueue.len + 1 = rpqueue'.off + k
      BY <1>k, <3>1
    <3>3. mem'[rpqueue'.a][rpqueue'.off + rpqueue.len + 1] = p
      BY <1>7 DEF Appended
    <3> QED
      BY <3>2, <3>3 DEF QCell
  <2>3. QIndex' = QIndex \cup {k} /\ k \notin QIndex
    BY <1>9, <1>k, WindowFacts DEF QIndex
  <2> QED
    BY <2>1, <2>2, <2>3
<1>13. PIndex' \subseteq PIndex /\ \A i \in PIndex' : PCell(i)' = PCell(i)
  <2>1. PIndex' \subseteq PIndex
    BY WindowFacts DEF PIndex
  <2>2. ASSUME NEW i \in PIndex' PROVE PCell(i)' = PCell(i)
    <3>1. i \in Nat /\ next' + 1 <= i /\ i <= pq.len
      BY WindowFacts DEF PIndex
    <3>2. pq.off + i \in 1 .. Len(mem[pq.a]) /\ pq.off + i # rpqueue.off + rpqueue.len + 1
      <4>0. next' \in Nat
        BY WindowFacts
      <4>1. /\ pq.len \in Nat /\ pq.off \in Nat /\ rpqueue.len \in Nat
            /\ i \in Nat /\ 1 <= i /\ i <= pq.len /\ rpqueue.len + 1 < i
        BY <1>10, <3>1, <4>0, WindowFacts
      <4>2. pq.off + pq.len <= Len(mem[pq.a]) /\ Len(mem[pq.a]) \in Nat
        BY WindowFacts
      <4>3. pq.off + i \in 1 .. Len(mem[pq.a])
        BY <4>1, <4>2
      <4>4. pq.off + i # pq.off + rpqueue.len + 1
        BY <4>1
      <4> QED
        BY <1>5, <4>3, <4>4
    <3>3. mem'[pq.a][pq.off + i] = mem[pq.a][pq.off + i]
      BY <1>7, <1>8, <3>2 DEF Appended
    <3> QED
      BY <3>3 DEF PCell
  <2> QED
    BY <2>1, <2>2
<1>15. \A i \in QIndex : QCell(i) # p
  BY DEF QSet
<1>16. \A i \in PIndex' : PCell(i) # p /\ i \in PIndex
  BY <1>13
<1>17. QCellsInv'
  <2>1. ASSUME NEW i \in QIndex'
        PROVE  QCell(i)' \in received' /\ delivered'[QCell(i)'] = 0
    <3>1. CASE i \in QIndex
      BY <1>0, <1>12, <3>1 DEF QCellsInv
    <3>2. CASE i = k
      BY <1>12, <3>2
    <3> QED
      BY <1>12, <3>1, <3>2
  <2>2. ASSUME NEW i \in QIndex', NEW j \in QIndex', QCell(i)' = QCell(j)'
        PROVE  i = j
    <3>1. CASE i \in QIndex /\ j \in QIndex
      BY <1>0, <1>12, <2>2, <3>1 DEF QCellsInv
    <3>2. CASE i \in QIndex /\ j = k
      BY <1>12, <1>15, <2>2, <3>2
    <3>3. CASE i = k /\ j \in QIndex
      BY <1>12, <1>15, <2>2, <3>3
    <3> QED
      BY <1>12, <3>1, <3>2, <3>3
  <2> QED
    BY <2>1, <2>2 DEF QCellsInv
<1>18. PCellsInv'
  BY <1>0, <1>13, <1>16 DEF PCellsInv
<1>19. ApartInv'
  <2> SUFFICES ASSUME NEW i \in QIndex', NEW j \in PIndex'
               PROVE  QCell(i)' # PCell(j)'
    BY DEF ApartInv
  <2>1. PCell(j)' = PCell(j) /\ PCell(j) # p /\ j \in PIndex
    BY <1>13, <1>16
  <2>2. CASE i \in QIndex
    BY <1>0, <1>12, <2>1, <2>2 DEF ApartInv
  <2>3. CASE i = k
    BY <1>12, <2>1, <2>3
  <2> QED
    BY <1>12, <2>2, <2>3
<1>20. OnceInv'
  BY <1>0 DEF OnceInv
<1>21. Que!Waiting' = QSet \cup {PCell(i) : i \in PIndex'} \cup {p}
  <2>1. QSet' = QSet \cup {p}
    <3>1. \A x \in QSet' : x \in QSet \cup {p}
      BY <1>12 DEF QSet
    <3>2. \A x \in QSet : x \in QSet'
      BY <1>12 DEF QSet
    <3>3. p \in QSet'
      BY <1>12 DEF QSet
    <3> QED
      BY <3>1, <3>2, <3>3
  <2>2. PSet' = {PCell(i) : i \in PIndex'}
    BY <1>13 DEF PSet
  <2> QED
    BY <2>1, <2>2, WaitingSets
<1> QED
  BY <1>11, <1>17, <1>18, <1>19, <1>20, <1>21 DEF SoundInv

(* Cardinality as the instance of DeferredPackets knows it.                *)
LEMMA SameCardinality == \A S : Que!Promise!Cardinality(S) = Cardinality(S)
  BY DEF Que!Promise!Cardinality, Cardinality

(* A packet goes to the queue, whatever is written over: the windows stay  *)
(* in their arrays and hold what they held and the packet.                 *)
LEMMA DeferAnywhere ==
  ASSUME Que!TypeOK, NEW p \in Packet, Que!Defer(p), UNCHANGED pq,
         next' \in 0 .. pq.len, next <= next'
  PROVE  /\ mem' \in [Que!Arrays -> Seq(Packet \cup {Nil})]
         /\ rpqueue' \in Que!Slice /\ rpqueue'.len <= MaxSizePacketQueue
         /\ overwritten' \in BOOLEAN /\ (overwritten => overwritten')
         /\ \A t \in {rpqueue', pq} : t.off + t.len <= Len(mem'[t.a])
         /\ p \in Que!Waiting' /\ Que!Waiting' \subseteq Que!Waiting \cup {p}
<1>2. PICK d \in {0, 1} : d = IF rpqueue.len >= MaxSizePacketQueue THEN 1 ELSE 0
  OBVIOUS
<1>3. PICK s : /\ s = [a |-> rpqueue.a, off |-> rpqueue.off + d, len |-> rpqueue.len - d]
               /\ Que!AppendCell(s, p)
  <2>1. CASE rpqueue.len >= MaxSizePacketQueue
    <3>1. Que!Shifted(rpqueue) = [a |-> rpqueue.a, off |-> rpqueue.off + d, len |-> rpqueue.len - d]
      BY <1>2, <2>1 DEF Que!Shifted
    <3> QED
      BY <2>1, <3>1 DEF Que!Defer
  <2>2. CASE ~(rpqueue.len >= MaxSizePacketQueue)
    <3>1. rpqueue = [a |-> rpqueue.a, off |-> rpqueue.off + d, len |-> rpqueue.len - d]
      BY <1>2, <2>2, WindowFacts
    <3> QED
      BY <2>2, <3>1 DEF Que!Defer
  <2> QED
    BY <2>1, <2>2
<1>4. /\ s.a = rpqueue.a /\ s.off = rpqueue.off + d /\ s.len = rpqueue.len - d
      /\ s.off \in Nat /\ s.len \in Nat /\ s.len + 1 <= MaxSizePacketQueue
      /\ s.off + s.len = rpqueue.off + rpqueue.len
  <2>1. s.a = rpqueue.a /\ s.off = rpqueue.off + d /\ s.len = rpqueue.len - d
    BY <1>3
  <2>2. /\ rpqueue.off \in Nat /\ rpqueue.len \in Nat /\ MaxSizePacketQueue \in Nat
        /\ MaxSizePacketQueue > 0 /\ rpqueue.len <= MaxSizePacketQueue
    BY WindowFacts
  <2> QED
    BY <1>2, <2>1, <2>2
<1>5. s \in Que!Slice /\ s.off + s.len <= Len(mem[s.a])
  BY <1>3, <1>4, WindowFacts DEF Que!Slice
<1>6. Appended(s, p)
  BY <1>3, <1>5, AppendSound
<1>7. /\ mem' \in [Que!Arrays -> Seq(Packet \cup {Nil})]
      /\ rpqueue' \in Que!Slice /\ rpqueue'.len = s.len + 1
      /\ rpqueue'.off + rpqueue'.len <= Len(mem'[rpqueue'.a])
      /\ Len(mem'[pq.a]) = Len(mem[pq.a])
      /\ overwritten' \in BOOLEAN /\ (overwritten => overwritten')
  BY <1>6 DEF Appended
<1>8. \A t \in {rpqueue', pq} : t.off + t.len <= Len(mem'[t.a])
  BY <1>7, WindowFacts
<1>9. QIndex' = 1 .. s.len + 1 /\ QCell(s.len + 1)' = p
  <2>1. rpqueue'.off \in Nat /\ rpqueue'.off + s.len + 1 = rpqueue'.off + (s.len + 1)
    BY <1>4, <1>7 DEF Que!Slice
  <2> QED
    BY <1>6, <1>7, <2>1 DEF Appended, QCell, QIndex
<1>10. ASSUME NEW x \in QSet' PROVE x \in QSet \cup {p}
  <2>1. PICK i \in QIndex' : x = QCell(i)'
    BY <1>10 DEF QSet
  <2>2. i \in 1 .. s.len \/ i = s.len + 1
    BY <1>4, <1>9
  <2>3. CASE i \in 1 .. s.len
    <3>1. mem'[rpqueue'.a][rpqueue'.off + i] = mem[s.a][s.off + i]
      BY <1>6, <2>3 DEF Appended
    <3>2. s.off + i = rpqueue.off + (i + d) /\ i + d \in QIndex
      <4>1. s.off + i = rpqueue.off + (i + d)
        BY <1>4, <2>3, WindowFacts
      <4>2. i + d \in QIndex
        BY <1>4, <2>3, WindowFacts DEF QIndex
      <4> QED
        BY <4>1, <4>2
    <3>3. QCell(i)' = QCell(i + d)
      BY <1>4, <3>1, <3>2 DEF QCell
    <3> QED
      BY <2>1, <3>2, <3>3 DEF QSet
  <2> QED
    BY <1>9, <2>1, <2>2, <2>3
<1>11. ASSUME NEW x \in PSet' PROVE x \in PSet \cup {p}
  <2>1. PICK i \in PIndex' : x = PCell(i)'
    BY <1>11 DEF PSet
  <2>2. i \in PIndex /\ i \in Nat /\ i <= pq.len /\ i > 0
    BY WindowFacts DEF PIndex
  <2>3. pq.off + i \in 1 .. Len(mem[pq.a])
    BY <2>2, WindowFacts
  <2>4. mem'[pq.a][pq.off + i] = mem[pq.a][pq.off + i] \/ mem'[pq.a][pq.off + i] = p
    BY <1>6, <2>3 DEF Appended
  <2>5. PCell(i)' = PCell(i) \/ PCell(i)' = p
    BY <2>4 DEF PCell
  <2> QED
    BY <2>1, <2>2, <2>5 DEF PSet
<1>12. p \in QSet'
  <2>1. s.len + 1 \in QIndex'
    BY <1>4, <1>9
  <2> QED
    BY <1>9, <2>1 DEF QSet
<1>13. rpqueue'.len <= MaxSizePacketQueue
  BY <1>4, <1>7
<1>14. p \in Que!Waiting' /\ Que!Waiting' \subseteq Que!Waiting \cup {p}
  BY <1>10, <1>11, <1>12, WaitingSets
<1> QED
  BY <1>7, <1>8, <1>13, <1>14

\* The types and the windows after a step, and no packet has gone back.
Forward ==
  /\ Que!TypeOK' /\ Que!WindowsFilled'
  /\ \A x \in Packet : Que!Fate(x)' \in Que!Promise!After(Que!Fate(x))
  /\ overwritten => overwritten'

(* It is enough to see that what waits waited before or has just come in,  *)
(* and that nothing is taken back of what came in or was handed over.      *)
LEMMA ForwardFates ==
  ASSUME Que!WindowsFilled, Que!TypeOK', overwritten => overwritten',
         NEW S, received' = received \cup S, Que!Waiting' \subseteq Que!Waiting \cup (S \ received),
         \A x \in S \ received : x \in Que!Waiting' \/ delivered'[x] > 0,
         \A x \in Packet : delivered[x] > 0 => delivered'[x] > 0,
         \A x \in received : delivered'[x] > 0 => delivered[x] > 0 \/ x \in Que!Waiting
  PROVE  Forward
<1>1. Que!WindowsFilled'
  BY DEF Que!WindowsFilled
<1>2. ASSUME NEW x \in Packet
      PROVE  Que!Fate(x)' \in Que!Promise!After(Que!Fate(x))
  <2>1. CASE x \notin received
    <3>1. Que!Fate(x) = "new"
      BY <2>1 DEF Que!Fate
    <3>2. Que!Fate(x)' \in {"new", "waiting", "delivered"}
      BY <2>1 DEF Que!Fate
    <3> QED
      BY <3>1, <3>2 DEF Que!Promise!After
  <2>2. CASE x \in received
    <3>1. x \in Que!Waiting' => x \in Que!Waiting
      BY <2>2
    <3>2. CASE delivered[x] > 0
      <4>1. Que!Fate(x) = "delivered" /\ Que!Fate(x)' = "delivered"
        BY <2>2, <3>2 DEF Que!Fate
      <4> QED
        BY <4>1 DEF Que!Promise!After
    <3>3. CASE ~(delivered[x] > 0) /\ x \in Que!Waiting
      <4>1. Que!Fate(x) = "waiting" /\ Que!Fate(x)' \in {"waiting", "delivered", "dropped"}
        BY <2>2, <3>3 DEF Que!Fate
      <4> QED
        BY <4>1 DEF Que!Promise!After
    <3>4. CASE ~(delivered[x] > 0) /\ x \notin Que!Waiting /\ ~(delivered'[x] > 0)
      <4>1. Que!Fate(x) = "dropped" /\ Que!Fate(x)' = "dropped"
        BY <2>2, <3>1, <3>4 DEF Que!Fate
      <4> QED
        BY <4>1 DEF Que!Promise!After
    <3> QED
      BY <2>2, <3>2, <3>3, <3>4
  <2> QED
    BY <2>1, <2>2
<1> QED
  BY <1>1, <1>2 DEF Forward

(* The same for the steps in which no packet comes in.                     *)
LEMMA NothingNew ==
  ASSUME Que!WindowsFilled, Que!TypeOK', overwritten => overwritten',
         received' = received, Que!Waiting' \subseteq Que!Waiting,
         \A x \in Packet : delivered[x] > 0 => delivered'[x] > 0,
         \A x \in received : delivered'[x] > 0 => delivered[x] > 0 \/ x \in Que!Waiting
  PROVE  Forward
<1>1. received' = received \cup {} /\ Que!Waiting' \subseteq Que!Waiting \cup ({} \ received)
  OBVIOUS
<1> QED
  BY <1>1, ForwardFates

(* A step of the queue moves no packet back, whatever it writes over.      *)
LEMMA WindowStep ==
  ASSUME Que!TypeOK, Que!WindowsFilled, [Que!Next]_queVars
  PROVE  Forward
<1>h. ASSUME NEW p \in Packet, Que!HandOver(p)
      PROVE  /\ UNCHANGED <<mem, rpqueue, overwritten>> /\ delivered' \in [Packet -> Nat]
             /\ delivered'[p] > 0 /\ \A x \in Packet : delivered[x] > 0 => delivered'[x] > 0
             /\ \A x \in Packet : x # p => delivered'[x] = delivered[x]
  BY <1>h DEF Que!HandOver, Que!TypeOK
<1>q. ASSUME UNCHANGED <<mem, rpqueue, pq>>, next' \in 0 .. pq.len, next <= next'
      PROVE  Que!Waiting' \subseteq Que!Waiting
  <2>1. PIndex' \subseteq PIndex
    BY <1>q, WindowFacts DEF PIndex
  <2>2. PSet' \subseteq PSet /\ QSet' = QSet
    BY <1>q, <2>1 DEF PSet, QSet, PCell, QCell, QIndex
  <2> QED
    BY <2>2, WaitingSets
<1>1. CASE UNCHANGED queVars
  <2>1. UNCHANGED <<mem, rpqueue, pq, next, up, received, delivered, old, overwritten>>
    BY <1>1 DEF queVars
  <2>2. Que!TypeOK' /\ Que!Waiting' = Que!Waiting
    BY <2>1, QueueStill DEF Que!TypeOK
  <2> QED
    BY <2>1, <2>2, NothingNew
<1>2. ASSUME NEW p \in Packet, Que!Receive(p) PROVE Forward
  <2>0. /\ p \notin received /\ UNCHANGED <<pq, next, up, old>> /\ received' = received \cup {p}
        /\ Que!RecvPacket(p) /\ next' \in 0 .. pq.len /\ next <= next'
    BY <1>2, WindowFacts DEF Que!Receive
  <2>1. CASE Que!HandOver(p)
    <3>1. Que!TypeOK'
      BY <1>h, <2>0, <2>1 DEF Que!TypeOK
    <3>2. Que!Waiting' \subseteq Que!Waiting
      BY <1>h, <1>q, <2>0, <2>1
    <3>3. delivered'[p] > 0 /\ \A x \in received : x # p /\ x \in Packet
      BY <1>h, <2>0, <2>1 DEF Que!TypeOK
    <3> QED
      BY <1>h, <2>0, <2>1, <3>1, <3>2, <3>3, ForwardFates
  <2>2. CASE Que!Defer(p) /\ UNCHANGED delivered
    <3>1. /\ mem' \in [Que!Arrays -> Seq(Packet \cup {Nil})]
          /\ rpqueue' \in Que!Slice /\ rpqueue'.len <= MaxSizePacketQueue
          /\ overwritten' \in BOOLEAN /\ (overwritten => overwritten')
          /\ \A t \in {rpqueue', pq} : t.off + t.len <= Len(mem'[t.a])
          /\ p \in Que!Waiting' /\ Que!Waiting' \subseteq Que!Waiting \cup {p}
      BY <2>0, <2>2, DeferAnywhere
    <3>2. Que!TypeOK'
      BY <2>0, <2>2, <3>1 DEF Que!TypeOK
    <3> QED
      BY <2>0, <2>2, <3>1, <3>2, ForwardFates
  <2> QED
    BY <2>0, <2>1, <2>2 DEF Que!RecvPacket
<1>3. CASE Que!SetUp \/ (\E p \in Packet : Que!Age(p))
  <2>1. UNCHANGED <<mem, rpqueue, pq, next, received, delivered, overwritten>>
    BY <1>3 DEF Que!SetUp, Que!Age
  <2>2. up' \in BOOLEAN /\ old' \subseteq received
    <3>1. up' \in BOOLEAN
      BY <1>3, Zenon DEF Que!SetUp, Que!Age, Que!TypeOK
    <3>2. old' \subseteq received
      BY <1>3 DEF Que!SetUp, Que!Age, Que!TypeOK
    <3> QED
      BY <3>1, <3>2
  <2>3. Que!TypeOK' /\ Que!Waiting' = Que!Waiting
    BY <2>1, <2>2, QueueStill DEF Que!TypeOK
  <2> QED
    BY <2>1, <2>3, NothingNew
<1>4. CASE Que!Swap
  <2>1. Que!TypeOK' /\ Que!Waiting' = Que!Waiting
    BY <1>4, QueueSwap
  <2>2. UNCHANGED <<received, delivered, overwritten>>
    BY <1>4 DEF Que!Swap
  <2> QED
    BY <2>1, <2>2, NothingNew
<1>5. CASE Que!Retry
  <2>0. /\ next' = next + 1 /\ next < pq.len /\ UNCHANGED <<pq, up, received, old>>
        /\ next' \in 0 .. pq.len /\ next <= next'
    <3>1. next' = next + 1 /\ next # pq.len /\ UNCHANGED <<pq, up, received, old>>
      BY <1>5 DEF Que!Retry, Que!Idle
    <3> QED
      BY <3>1, WindowFacts
  <2>p. PICK p \in Packet : p = PCell(next + 1) /\ p \in Que!Waiting /\ p \in received
    <3>1. next + 1 \in PIndex
      BY <2>0, WindowFacts DEF PIndex
    <3>2. PCell(next + 1) \in Que!Waiting
      BY <3>1, WaitingSets DEF PSet
    <3> QED
      BY <3>2 DEF Que!WindowsFilled, Que!TypeOK
  <2>c. mem[pq.a][pq.off + next'] = p
    BY <2>0, <2>p DEF PCell
  <2>1. CASE UNCHANGED <<mem, rpqueue, delivered, overwritten>>
    <3>1. Que!TypeOK'
      BY <2>0, <2>1 DEF Que!TypeOK
    <3>2. Que!Waiting' \subseteq Que!Waiting
      BY <1>q, <2>0, <2>1
    <3> QED
      BY <2>0, <2>1, <3>1, <3>2, NothingNew
  <2>2. CASE Que!HandOver(p)
    <3>1. Que!TypeOK'
      BY <1>h, <2>0, <2>2 DEF Que!TypeOK
    <3>2. Que!Waiting' \subseteq Que!Waiting
      BY <1>h, <1>q, <2>0, <2>2
    <3>3. \A x \in received : delivered'[x] > 0 => delivered[x] > 0 \/ x \in Que!Waiting
      BY <1>h, <2>p, <2>2 DEF Que!TypeOK
    <3>4. \A x \in Packet : delivered[x] > 0 => delivered'[x] > 0
      BY <1>h, <2>2
    <3>5. overwritten => overwritten'
      BY <1>h, <2>2
    <3> QED
      BY <2>0, <3>1, <3>2, <3>3, <3>4, <3>5, NothingNew
  <2>3. CASE Que!Defer(p) /\ UNCHANGED delivered
    <3>1. /\ mem' \in [Que!Arrays -> Seq(Packet \cup {Nil})]
          /\ rpqueue' \in Que!Slice /\ rpqueue'.len <= MaxSizePacketQueue
          /\ overwritten' \in BOOLEAN /\ (overwritten => overwritten')
          /\ \A t \in {rpqueue', pq} : t.off + t.len <= Len(mem'[t.a])
          /\ p \in Que!Waiting' /\ Que!Waiting' \subseteq Que!Waiting \cup {p}
      BY <2>0, <2>3, DeferAnywhere
    <3>2. Que!TypeOK'
      BY <2>0, <2>3, <3>1 DEF Que!TypeOK
    <3>3. Que!Waiting' \subseteq Que!Waiting
      BY <2>p, <3>1
    <3> QED
      BY <2>0, <2>3, <3>1, <3>2, <3>3, NothingNew
  <2> QED
    BY <1>5, <2>c, <2>1, <2>2, <2>3 DEF Que!Retry, Que!RecvPacket
<1> QED
  BY <1>1, <1>2, <1>3, <1>4, <1>5 DEF Que!Next

(* A step that keeps clear of unread cells keeps the invariant, and is a   *)
(* step of the promise or none.                                            *)
LEMMA SoundNext ==
  ASSUME Que!TypeOK, SoundInv, [Que!Next]_queVars, ~ overwritten'
  PROVE  SoundInv' /\ (Que!Promise!Kept \/ UNCHANGED <<fateOf, old>>)
<1>0. fateOf = [p \in Packet |-> Que!Fate(p)] /\ fateOf' = [p \in Packet |-> Que!Fate(p)']
  BY DEF fateOf
<1>f. ASSUME NEW p \in Packet, NEW to,
             \A x \in Packet : Que!Fate(x)' = IF x = p THEN to ELSE Que!Fate(x)
      PROVE  [x \in Packet |-> Que!Fate(x)]' = [[x \in Packet |-> Que!Fate(x)] EXCEPT ![p] = to]
  BY <1>f
<1>1. CASE UNCHANGED queVars
  BY <1>1, QueueStill DEF queVars
<1>2. ASSUME NEW p \in Packet, Que!Receive(p)
      PROVE  SoundInv' /\ (Que!Promise!Kept \/ UNCHANGED <<fateOf, old>>)
  <2>0. /\ p \notin received /\ UNCHANGED <<pq, next, up, old>> /\ received' = received \cup {p}
        /\ Que!RecvPacket(p)
    BY <1>2 DEF Que!Receive
  <2>1. CASE up /\ Que!HandOver(p)
    <3>1. delivered[p] = 0 /\ Que!Fate(p) = "new" /\ p \notin QSet
      BY <2>0, WindowFacts, StateFacts DEF SoundInv, OnceInv, Que!Fate
    <3>2. /\ PIndex' = PIndex /\ next' \in 0 .. pq.len /\ next <= next' /\ p \in received'
          /\ \A i \in PIndex' : PCell(i) # p
          /\ PSet \subseteq {PCell(i) : i \in PIndex'} \cup {p}
      <4>1. PIndex' = PIndex /\ next' \in 0 .. pq.len /\ next <= next' /\ p \in received'
        BY <2>0, WindowFacts DEF PIndex
      <4> QED
        BY <2>0, <4>1, StateFacts DEF PSet
    <3>3. /\ SoundInv'
          /\ \A x \in Packet : Que!Fate(x)' = IF x = p THEN "delivered" ELSE Que!Fate(x)
      BY <2>0, <2>1, <3>1, <3>2, QueueHandOver
    <3>4. Que!Promise!HandOver(p)
      BY <1>f, <2>0, <3>1, <3>3 DEF Que!Promise!HandOver, Que!Promise!Become
    <3> QED
      BY <3>3, <3>4 DEF Que!Promise!Kept
  <2>2. CASE Que!Idle /\ ~ up /\ Que!Defer(p) /\ UNCHANGED delivered
    <3>1. /\ SoundInv'
          /\ Que!Fate(p) = "new"
          /\ \/ \A x \in Packet : Que!Fate(x)' = IF x = p THEN "waiting" ELSE Que!Fate(x)
             \/ \E o \in Packet :
                  /\ Que!Fate(o) = "waiting"
                  /\ Cardinality({x \in Packet : Que!Fate(x) = "waiting"}) >= MaxSizePacketQueue
                  /\ \A x \in Packet : Que!Fate(x)' = IF x = p THEN "waiting"
                                                      ELSE IF x = o THEN "dropped" ELSE Que!Fate(x)
      BY <1>2, <2>2, QueueDefer
    <3>2. CASE \A x \in Packet : Que!Fate(x)' = IF x = p THEN "waiting" ELSE Que!Fate(x)
      <4>1. Que!Promise!Defer(p)
        BY <1>f, <2>0, <3>1, <3>2 DEF Que!Promise!Defer, Que!Promise!Become
      <4> QED
        BY <3>1, <4>1 DEF Que!Promise!Kept
    <3>3. ASSUME NEW o \in Packet, Que!Fate(o) = "waiting",
                 Cardinality({x \in Packet : Que!Fate(x) = "waiting"}) >= MaxSizePacketQueue,
                 \A x \in Packet : Que!Fate(x)' = IF x = p THEN "waiting"
                                                  ELSE IF x = o THEN "dropped" ELSE Que!Fate(x)
          PROVE  Que!Promise!Evict(p, o)
      <4>1. [x \in Packet |-> Que!Fate(x)]'
              = [[x \in Packet |-> Que!Fate(x)] EXCEPT ![p] = "waiting", ![o] = "dropped"]
        BY <3>1, <3>3
      <4>2. {x \in Packet : [y \in Packet |-> Que!Fate(y)][x] = "waiting"}
              = {x \in Packet : Que!Fate(x) = "waiting"}
        OBVIOUS
      <4>3. /\ [y \in Packet |-> Que!Fate(y)][p] = "new"
            /\ [y \in Packet |-> Que!Fate(y)][o] = "waiting"
        BY <3>1, <3>3
      <4>4. Que!Promise!Cardinality({x \in Packet : [y \in Packet |-> Que!Fate(y)][x] = "waiting"})
              >= MaxSizePacketQueue
        BY <3>3, <4>2, SameCardinality
      <4>5. UNCHANGED old
        BY <2>0
      <4> QED
        BY <4>1, <4>3, <4>4, <4>5 DEF Que!Promise!Evict
    <3>4. CASE \E o \in Packet : Que!Promise!Evict(p, o)
      BY <3>1, <3>4 DEF Que!Promise!Kept
    <3> QED
      BY <3>1, <3>2, <3>3, <3>4
  <2>3. CASE ~ Que!Idle /\ ~ up /\ Que!Defer(p) /\ UNCHANGED delivered
    <3>1. next < pq.len /\ next' \in {next, next + 1}
      BY <2>0, <2>3, WindowFacts DEF Que!Idle
    <3>2. delivered[p] = 0 /\ p \notin QSet /\ p \notin PSet /\ Que!Fate(p) = "new"
      BY <2>0, WindowFacts, StateFacts DEF SoundInv, OnceInv, Que!Fate
    <3>3. PIndex' = PIndex /\ PSet = {PCell(i) : i \in PIndex'} /\ \A i \in PIndex' : PCell(i) # p
      BY <2>0, <3>2 DEF PIndex, PSet
    <3>4. SoundInv' /\ Que!Waiting' = QSet \cup {PCell(i) : i \in PIndex'} \cup {p}
      BY <2>0, <2>3, <3>1, <3>2, <3>3, QueueDeferInPass
    <3>5. Que!Waiting' = Que!Waiting \cup {p}
      BY <3>3, <3>4, WaitingSets
    <3>6. \A x \in Packet : Que!Fate(x)' = IF x = p THEN "waiting" ELSE Que!Fate(x)
      BY <2>0, <2>3, <3>2, <3>5 DEF Que!Fate
    <3>7. Que!Promise!Defer(p)
      BY <1>f, <2>0, <3>2, <3>6 DEF Que!Promise!Defer, Que!Promise!Become
    <3> QED
      BY <3>4, <3>7 DEF Que!Promise!Kept
  <2> QED
    BY <2>0, <2>1, <2>2, <2>3 DEF Que!RecvPacket
<1>3. ASSUME NEW p \in Packet, Que!Age(p)
      PROVE  SoundInv' /\ (Que!Promise!Kept \/ UNCHANGED <<fateOf, old>>)
  <2>1. SoundInv' /\ UNCHANGED fateOf
    BY <1>3, QueueStill DEF Que!Age
  <2>2. p \in received /\ old' = old \cup {p}
    BY <1>3 DEF Que!Age
  <2>3. Que!Fate(p) # "new"
    BY <2>2 DEF Que!Fate
  <2>4. Que!Promise!Age(p)
    BY <1>0, <2>1, <2>2, <2>3 DEF Que!Promise!Age
  <2> QED
    BY <2>1, <2>4 DEF Que!Promise!Kept
<1>4. CASE Que!Swap
  BY <1>4, QueueSwap DEF Que!Swap
<1>5. CASE Que!SetUp
  BY <1>5, QueueStill DEF Que!SetUp
<1>6. CASE Que!Retry
  <2>0. next' = next + 1 /\ next < pq.len /\ UNCHANGED <<pq, up, received, old>>
    <3>1. next' = next + 1 /\ next # pq.len /\ UNCHANGED <<pq, up, received, old>>
      BY <1>6 DEF Que!Retry, Que!Idle
    <3> QED
      BY <3>1, WindowFacts, StateFacts
  <2>p. PICK p \in Packet : p = PCell(next + 1) /\ next + 1 \in PIndex
    <3>1. next + 1 \in PIndex
      BY <2>0, WindowFacts, StateFacts DEF PIndex
    <3> QED
      BY <3>1, WindowFacts, StateFacts DEF PSet
  <2>1. CASE p \in old
    <3>1. /\ SoundInv' /\ Que!Fate(p) = "waiting"
          /\ \A x \in Packet : Que!Fate(x)' = IF x = p THEN "dropped" ELSE Que!Fate(x)
      BY <1>6, <2>p, <2>1, QueueForget
    <3>2. Que!Promise!Forget(p)
      BY <1>f, <2>0, <2>1, <3>1 DEF Que!Promise!Forget, Que!Promise!Become
    <3> QED
      BY <3>1, <3>2 DEF Que!Promise!Kept
  <2>2. CASE p \notin old /\ ~ up
    <3>1. Que!Defer(p) /\ UNCHANGED delivered
      <4>1. mem[pq.a][pq.off + next'] = p
        BY <2>0, <2>p DEF PCell
      <4> QED
        BY <1>6, <2>2, <4>1 DEF Que!Retry, Que!RecvPacket
    <3>2. p \in received /\ delivered[p] = 0 /\ p \in PSet /\ p \notin QSet
      BY <2>p DEF SoundInv, PCellsInv, ApartInv, PSet, QSet
    <3>3. PIndex = PIndex' \cup {next + 1} /\ next + 1 \notin PIndex'
      BY <2>0, WindowFacts DEF PIndex
    <3>4. \A i \in PIndex' : PCell(i) # p
      BY <2>p, <3>3 DEF SoundInv, PCellsInv
    <3>5. next' \in {next, next + 1} /\ received' = received \cup {p}
      BY <2>0, <3>2
    <3>6. SoundInv' /\ Que!Waiting' = QSet \cup {PCell(i) : i \in PIndex'} \cup {p}
      BY <2>0, <3>1, <3>2, <3>4, <3>5, QueueDeferInPass
    <3>7. {PCell(i) : i \in PIndex'} \cup {p} = PSet
      BY <2>p, <3>3 DEF PSet
    <3>8. Que!Waiting' = Que!Waiting
      BY <3>6, <3>7, WaitingSets
    <3>9. \A x \in Packet : Que!Fate(x)' = Que!Fate(x)
      BY <2>0, <3>1, <3>8 DEF Que!Fate
    <3> QED
      BY <1>0, <2>0, <3>6, <3>9
  <2>3. CASE p \notin old /\ up
    <3>1. Que!HandOver(p)
      <4>1. mem[pq.a][pq.off + next'] = p
        BY <2>0, <2>p DEF PCell
      <4> QED
        BY <1>6, <2>3, <4>1 DEF Que!Retry, Que!RecvPacket
    <3>2. p \in received /\ delivered[p] = 0 /\ p \in PSet
      BY <2>p DEF SoundInv, PCellsInv, PSet
    <3>3. p \notin QSet
      BY <2>p DEF SoundInv, ApartInv, QSet
    <3>4. PIndex = PIndex' \cup {next + 1} /\ next + 1 \notin PIndex'
      BY <2>0, WindowFacts, StateFacts DEF PIndex
    <3>5. \A i \in PIndex' : PCell(i) # p
      BY <2>p, <3>4 DEF SoundInv, PCellsInv
    <3>6. PSet \subseteq {PCell(i) : i \in PIndex'} \cup {p}
      BY <2>p, <3>4 DEF PSet
    <3>7. next' \in 0 .. pq.len /\ next <= next' /\ received' = received \cup {p} /\ p \in received'
      BY <2>0, <3>2, WindowFacts, StateFacts
    <3>8. /\ SoundInv'
          /\ \A x \in Packet : Que!Fate(x)' = IF x = p THEN "delivered" ELSE Que!Fate(x)
      BY <2>0, <3>1, <3>2, <3>3, <3>5, <3>6, <3>7, QueueHandOver
    <3>9. Que!Fate(p) = "waiting"
      BY <3>2, WaitingSets DEF Que!Fate
    <3>10. Que!Promise!HandOver(p)
      BY <1>f, <2>0, <3>8, <3>9 DEF Que!Promise!HandOver, Que!Promise!Become
    <3> QED
      BY <3>8, <3>10 DEF Que!Promise!Kept
  <2> QED
    BY <2>1, <2>2, <2>3
<1> QED
  BY <1>1, <1>2, <1>3, <1>4, <1>5, <1>6 DEF Que!Next

(* Every step of the queue keeps the invariant, and is a step of           *)
(* DeferredPackets or none.                                                *)
LEMMA QueueNext ==
  ASSUME QueueInv, [Que!Next]_queVars
  PROVE  QueueInv' /\ [Que!Promise!Next]_<<fateOf, old, overwritten>>
<1>1. Forward
  BY WindowStep DEF QueueInv
<1>2. Que!TypeOK' /\ Que!WindowsFilled'
  BY <1>1 DEF Forward
<1>3. overwritten \in BOOLEAN /\ overwritten' \in BOOLEAN /\ (overwritten => overwritten')
  BY <1>1, <1>2 DEF QueueInv, Que!TypeOK, Forward
<1>4. CASE ~ overwritten'
  <2>1. SoundInv /\ overwritten' = overwritten
    BY <1>3, <1>4 DEF QueueInv
  <2>2. SoundInv' /\ (Que!Promise!Kept \/ UNCHANGED <<fateOf, old>>)
    BY <1>4, <2>1, SoundNext DEF QueueInv
  <2> QED
    BY <1>2, <2>1, <2>2 DEF QueueInv, Que!Promise!Next
<1>5. CASE overwritten' /\ UNCHANGED old
  <2>1. \A x \in Packet : Que!Fate(x)' \in Que!Promise!After(Que!Fate(x))
    BY <1>1 DEF Forward
  <2>2. \A x \in Packet : [y \in Packet |-> Que!Fate(y)]'[x]
                            \in Que!Promise!After([y \in Packet |-> Que!Fate(y)][x])
    BY <2>1
  <2>3. Que!Promise!Overwrite
    BY <1>5, <2>2 DEF Que!Promise!Overwrite
  <2> QED
    BY <1>2, <1>5, <2>3 DEF QueueInv, Que!Promise!Next
<1>6. CASE overwritten' /\ ~ UNCHANGED old
  <2>1. PICK p \in Packet : Que!Age(p)
    BY <1>6 DEF Que!Next, Que!Receive, Que!Swap, Que!Retry, Que!SetUp, queVars
  <2>2. p \in received /\ old' = old \cup {p} /\ UNCHANGED overwritten
    BY <2>1 DEF Que!Age
  <2>3. UNCHANGED fateOf
    BY <2>1, QueueStill DEF Que!Age
  <2>4. Que!Fate(p) # "new"
    BY <2>2 DEF Que!Fate
  <2>5. Que!Promise!Age(p)
    BY <2>2, <2>3, <2>4 DEF Que!Promise!Age, fateOf
  <2> QED
    BY <1>2, <1>6, <2>2, <2>5 DEF QueueInv, Que!Promise!Next, Que!Promise!Kept
<1> QED
  BY <1>4, <1>5, <1>6

(* The queue starts empty, with every packet still to come.                *)
LEMMA QueueInit == Que!Init => QueueInv /\ Que!Promise!Init
<1> SUFFICES ASSUME Que!Init PROVE QueueInv /\ Que!Promise!Init
  OBVIOUS
<1>1. /\ rpqueue = [a |-> 1, off |-> 0, len |-> 0] /\ pq = rpqueue /\ next = 0
      /\ mem = [a \in Que!Arrays |-> <<>>] /\ up = FALSE /\ received = {} /\ old = {}
      /\ delivered = [p \in Packet |-> 0] /\ overwritten = FALSE
  BY DEF Que!Init
<1>2. rpqueue.a = 1 /\ rpqueue.off = 0 /\ rpqueue.len = 0 /\ rpqueue \in Que!Slice
  BY <1>1 DEF Que!Slice, Que!Arrays
<1>3. MaxSizePacketQueue \in Nat
  BY QueueAssumption DEF Que!ParametersOK
<1>4. Que!TypeOK
  <2>1. mem \in [Que!Arrays -> Seq(Packet \cup {Nil})] /\ Len(mem[1]) = 0
    BY <1>1 DEF Que!Arrays
  <2>2. \A s \in {rpqueue, pq} : s.off + s.len <= Len(mem[s.a])
    BY <1>1, <1>2, <2>1
  <2>3. next \in 0 .. pq.len /\ rpqueue.len <= MaxSizePacketQueue /\ pq \in Que!Slice
    BY <1>1, <1>2, <1>3
  <2>4. /\ up \in BOOLEAN /\ overwritten \in BOOLEAN /\ received \subseteq Packet /\ old \subseteq received
        /\ delivered \in [Packet -> Nat]
    BY <1>1
  <2> QED
    BY <1>2, <2>1, <2>2, <2>3, <2>4 DEF Que!TypeOK
<1>5. QIndex = {} /\ PIndex = {}
  BY <1>1, <1>2 DEF QIndex, PIndex
<1>6. QCellsInv /\ PCellsInv /\ ApartInv
  BY <1>5 DEF QCellsInv, PCellsInv, ApartInv
<1>7. PassInv /\ OnceInv
  BY <1>1, <1>2, <1>3 DEF PassInv, OnceInv
<1>8. \A p \in Packet : Que!Fate(p) = "new"
  BY <1>1 DEF Que!Fate
<1>9. Que!Promise!Init
  BY <1>1, <1>8 DEF Que!Promise!Init
<1>10. Que!WindowsFilled
  BY <1>5, WaitingSets DEF Que!WindowsFilled, QSet, PSet
<1> QED
  BY <1>4, <1>6, <1>7, <1>9, <1>10 DEF QueueInv, SoundInv

(* A step of the two components together is a step of the queue or leaves  *)
(* it alone.                                                               *)
LEMMA PartsQueue ==
  /\ PartsInit => Que!Init
  /\ [PartsNext]_allVars => [Que!Next]_queVars
  BY DEF PartsInit, PartsNext, allVars, OfCache, OfQueue

------------------------------------------------------------------------------
(* Theorems *)

(* QueueInv holds whatever order packets come in, passes of runRecvPQueue  *)
(* begin and agents or modules register in, also when packets are deferred *)
(* during a pass.                                                          *)
THEOREM QueueInductive ==
  /\ Que!Spec => []QueueInv
  /\ PartsSpec => []QueueInv
<1>1. Que!Spec => []QueueInv
  BY QueueInit, QueueNext, PTL DEF Que!Spec, Que!vars, queVars
<1>2. PartsSpec => []QueueInv
  BY QueueInit, QueueNext, PartsQueue, PTL DEF PartsSpec
<1> QED
  BY <1>1, <1>2

(* Both windows of rpqueue stay inside their arrays and within the limit   *)
(* and hold only packets that came in; and until a packet deferred during  *)
(* a pass is written over a cell yet to be read, runRecvPQueue hands no    *)
(* packet over twice although it reuses the array it reads.                *)
THEOREM QueueIsSound ==
  /\ Que!Spec => []QueueSound
  /\ PartsSpec => []QueueSound
<1>1. QueueInv => QueueSound
  <2>1. \A n \in {0, 1} : n <= 1
    OBVIOUS
  <2> QED
    BY <2>1 DEF QueueInv, SoundInv, QueueSound, Que!HandedOverOnce, OnceInv
<1> QED
  BY <1>1, QueueInductive, PTL

(* The slice, its arrays and the goroutine implement DeferredPackets: a    *)
(* deferred packet stays until it is handed over, outlives its time or is  *)
(* pushed out of a full queue; this ends when a packet deferred during a   *)
(* pass is written over an unread cell, after which packets can be lost    *)
(* but none that was handed over or lost waits again.                      *)
THEOREM QueueKeepsPromise ==
  /\ Que!Spec => KeepsPromise
  /\ PartsSpec => KeepsPromise
<1>1. Que!Spec => KeepsPromise
  BY QueueInit, QueueNext, QueueInductive, PTL
     DEF Que!Spec, Que!vars, queVars, KeepsPromise, Que!KeepsPromise, Que!Promise!Spec, fateOf
<1>2. PartsSpec => KeepsPromise
  BY QueueInit, QueueNext, PartsQueue, QueueInductive, PTL
     DEF PartsSpec, KeepsPromise, Que!KeepsPromise, Que!Promise!Spec, fateOf
<1> QED
  BY <1>1, <1>2
=============================================================================
