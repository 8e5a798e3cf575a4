-------------------------- MODULE RecvRouterProofs --------------------------
(***************************************************************************)
(* The receive router, for every number of peers, streams, notifications   *)
(* and receiver goroutines and every capacity of the channel: RouterInv is *)
(* inductive, and gives the four invariants of the module.                 *)
(*                                                                         *)
(* None of the four is inductive by itself.  They rest on who holds        *)
(* apiMutex (MutexInv): a look-up has the router to itself but for the     *)
(* notifications, the module's main loop and close, so the packets it took *)
(* out and the ones still in the channel keep the order they came in       *)
(* (SortedInv, AheadInv) and what is left behind at the end of the         *)
(* look-up's count are notifications only (LookupInv).                     *)
(***************************************************************************)
EXTENDS RecvRouter, FiniteSetTheorems, SequenceTheorems, WellFoundedInduction, TLAPS

(* One peer routes p before q; and they are of one type as well.           *)
Earlier(p, q) == \E s \in Src : \E i, j \in DOMAIN Stream[s] :
                   i < j /\ p = Stream[s][i] /\ q = Stream[s][j]
Older(p, q) == Earlier(p, q) /\ TypeOf[p] = TypeOf[q]

(* The places a packet can be in: the channel, the module's hands, the     *)
(* main loop's, a look-up's, and the result of a look-up.                  *)
Queued == ToSet(receiver)
Handed == ToSet(delivered)
Taken  == ToSet(consumed)
Held   == UNION {ToSet(drained[r]) : r \in Receiver}
Chosen == {got[r] : r \in {x \in Receiver : recv[x] = "putback"}} \ {None}

(* routePacket between its locked steps, and a look-up, hold apiMutex.      *)
MutexInv ==
  /\ \A p \in Packet : route[p] \in {"hand", "check", "enqueue"} => apiMutex = p
  /\ \A r \in Receiver : recv[r] \in {"drain", "putback"} => apiMutex = r
  /\ \A r \in Receiver : recv[r] \notin {"drain", "putback"} => drained[r] = <<>>

(* A waiting call is registered; a sender that chose a blocker chose one   *)
(* its packet fits, and one that chose none fits no waiting call.          *)
BlockerInv ==
  /\ \A r \in Receiver : recv[r] = "wait" => r \in ToSet(queue)
  /\ \A r \in Receiver : recv[r] # "idle" => call[r].pType \in PType
  /\ \A p \in Packet : route[p] = "hand" =>
       target[p] \in Receiver /\ ~ closed[target[p]] /\ Matches(call[target[p]], p)
  /\ \A p \in Packet : route[p] \in {"check", "enqueue"} =>
       \A r \in Receiver : recv[r] = "wait" /\ ~ closed[r] => ~ Matches(call[r], p)

(* What lies in the channel or in a look-up's hands fits no waiting call.  *)
WaitInv ==
  \A r \in Receiver : recv[r] = "wait" /\ ~ closed[r] =>
       \A p \in Queued \cup Held : ~ Matches(call[r], p)

(* A look-up leaves only notifications behind, and one that found nothing  *)
(* registers a call that nothing fits.                                     *)
LookupInv ==
  \A r \in Receiver :
    /\ recv[r] = "drain" => got[r] = None
    /\ recv[r] = "drain" => \A i \in DOMAIN receiver : i > todo[r] => receiver[i] \in Notice
    /\ recv[r] = "putback" /\ got[r] = None =>
         \A p \in Queued \cup Held : ~ Matches(call[r], p)

(* No packet is twice in one place ...                                     *)
DistinctInv ==
  /\ IsInjective(receiver) /\ IsInjective(delivered) /\ IsInjective(consumed)
  /\ \A r \in Receiver : IsInjective(drained[r])

(* ... or in two places, and the accepted ones are somewhere.              *)
PlaceInv ==
  \A p \in Packet :
    /\ Accepted(p) <=> p \in Queued \cup Handed \cup Taken \cup Held \cup Chosen \cup dropped
    /\ p \in Queued => p \notin Handed \cup Taken \cup Held \cup Chosen \cup dropped
    /\ p \in Handed => p \notin Taken \cup Held \cup Chosen \cup dropped
    /\ p \in Taken => p \notin Held \cup Chosen \cup dropped
    /\ p \in Held => p \notin Chosen \cup dropped
    /\ p \in Chosen => p \notin dropped

(* The peers route one packet after another.                               *)
BegunInv ==
  \A q \in Routed : route[q] # "new" => \A p \in Routed : Earlier(p, q) => Returned(p)

(* Packets of one peer and type lie in the order they were routed in.      *)
Sorted(seq) == \A m, n \in DOMAIN seq : Older(seq[m], seq[n]) => m < n

SortedInv == Sorted(receiver) /\ Sorted(delivered) /\ \A r \in Receiver : Sorted(drained[r])

(* Some look-up is at that point.                                          *)
Looking(pc) == \E r \in Receiver : recv[r] = pc

(* The same between two places: an older packet is delivered first, and    *)
(* stays ahead while a look-up takes packets out and puts them back.       *)
AheadInv ==
  \A p, q \in Packet : Older(p, q) =>
    /\ q \in Handed => p \notin Queued \cup Held \cup Chosen
    /\ q \in Chosen => p \notin Queued \cup Held
    /\ q \in Held /\ p \in Queued => Looking("putback")
    /\ q \in Queued /\ p \in Held => Looking("drain")

(* The inductive invariant.                                                *)
RouterInv ==
  /\ TypeOK /\ MutexInv /\ BlockerInv /\ WaitInv /\ LookupInv
  /\ DistinctInv /\ PlaceInv /\ BegunInv /\ SortedInv /\ AheadInv

(* Each part of the invariant only reads some of the variables.            *)
LEMMA Frames ==
  ASSUME RouterInv
  PROVE  /\ UNCHANGED <<apiMutex, receiver, control, panicked, closing, left>> => ChannelOK'
         /\ UNCHANGED <<queue, closed>> => BlockersOK'
         /\ UNCHANGED <<route, target>> => SendersOK'
         /\ UNCHANGED <<recv, call, drained, todo, got, calls>> => ReceiversOK'
         /\ UNCHANGED <<acked, dropped, cur, delivered, consumed, unlocks>> => HistoryOK'
         /\ UNCHANGED <<route, apiMutex, recv, drained>> => MutexInv'
         /\ UNCHANGED <<recv, queue, call, route, target, closed>> => BlockerInv'
         /\ UNCHANGED <<recv, closed, receiver, drained, call>> => WaitInv'
         /\ UNCHANGED <<recv, receiver, todo, got, drained, call>> => LookupInv'
         /\ UNCHANGED <<receiver, delivered, consumed, drained>> => DistinctInv'
         /\ UNCHANGED <<receiver, delivered, consumed, drained, route, got, recv,
                        dropped>> => PlaceInv'
         /\ UNCHANGED <<route>> => BegunInv'
         /\ UNCHANGED <<receiver, delivered, drained>> => SortedInv'
         /\ UNCHANGED <<receiver, delivered, drained, got, recv>> => AheadInv'
<1> USE DEF RouterInv, TypeOK
<1>1. UNCHANGED <<apiMutex, receiver, control, panicked, closing, left>> => ChannelOK'
  BY DEF ChannelOK
<1>2. UNCHANGED <<queue, closed>> => BlockersOK'
  BY DEF BlockersOK
<1>3. UNCHANGED <<route, target>> => SendersOK'
  BY DEF SendersOK
<1>4. UNCHANGED <<recv, call, drained, todo, got, calls>> => ReceiversOK'
  BY DEF ReceiversOK
<1>5. UNCHANGED <<acked, dropped, cur, delivered, consumed, unlocks>> => HistoryOK'
  BY DEF HistoryOK
<1>6. UNCHANGED <<route, apiMutex, recv, drained>> => MutexInv'
  BY DEF MutexInv
<1>7. UNCHANGED <<recv, queue, call, route, target, closed>> => BlockerInv'
  BY DEF BlockerInv, Matches
<1>8. UNCHANGED <<recv, closed, receiver, drained, call>> => WaitInv'
  BY DEF WaitInv, Queued, Held, Matches
<1>9. UNCHANGED <<recv, receiver, todo, got, drained, call>> => LookupInv'
  BY DEF LookupInv, Queued, Held, Matches
<1>10. UNCHANGED <<receiver, delivered, consumed, drained>> => DistinctInv'
  BY DEF DistinctInv
<1>11. UNCHANGED <<receiver, delivered, consumed, drained, route, got, recv,
                   dropped>> => PlaceInv'
  BY DEF PlaceInv, Accepted, Queued, Handed, Taken, Held, Chosen
<1>12. UNCHANGED <<route>> => BegunInv'
  BY DEF BegunInv, Returned
<1>13. UNCHANGED <<receiver, delivered, drained>> => SortedInv'
  BY DEF SortedInv
<1>14. UNCHANGED <<receiver, delivered, drained, got, recv>> => AheadInv'
  BY DEF AheadInv, Queued, Handed, Held, Chosen, Looking
<1> QED
  BY <1>1, <1>2, <1>3, <1>4, <1>5, <1>6, <1>7, <1>8, <1>9, <1>10, <1>11, <1>12, <1>13, <1>14

(* The same for the places.                                                *)
LEMMA SetFrames ==
  /\ UNCHANGED receiver => Queued' = Queued
  /\ UNCHANGED delivered => Handed' = Handed
  /\ UNCHANGED consumed => Taken' = Taken
  /\ UNCHANGED drained => Held' = Held
  /\ UNCHANGED <<recv, got>> => Chosen' = Chosen
  /\ \A pc : UNCHANGED recv => (Looking(pc)' <=> Looking(pc))
BY DEF Queued, Handed, Taken, Held, Chosen, Looking

(* What the assumption says of the constants, and that RecvData and its    *)
(* like never ask for the type of a notification.                          *)
LEMMA Constants ==
  /\ Routed \subseteq Packet /\ Notice \subseteq Packet /\ Routed \cap Notice = {}
  /\ Packet \cap Receiver = {} /\ Free \notin Packet \cup Receiver /\ None \notin Packet \cup Receiver
  /\ QueueSize \in Nat /\ Filters \subseteq Src \cup {AnySrc}
  /\ Modes \subseteq {"forever", "timeout", "poll"}
  /\ \A p \in Notice, r \in Receiver : call[r].pType \in PType => ~ Matches(call[r], p)
<1>1. ASSUME NEW p \in Notice, NEW r \in Receiver, call[r].pType \in PType PROVE ~ Matches(call[r], p)
  BY <1>1, RouterAssumption DEF Matches
<1> QED
  BY <1>1, RouterAssumption DEF Packet

(* The places hold packets.                                                *)
LEMMA SetsTyped ==
  ASSUME TypeOK
  PROVE  Queued \subseteq Packet /\ Handed \subseteq Packet /\ Taken \subseteq Packet
         /\ Held \subseteq Packet /\ Chosen \subseteq Packet
<1>1. \A s \in Seq(Packet) : ToSet(s) \subseteq Packet
  BY DEF ToSet
<1>2. Queued \subseteq Packet /\ Handed \subseteq Packet /\ Taken \subseteq Packet
  BY <1>1 DEF TypeOK, ChannelOK, HistoryOK, Queued, Handed, Taken
<1>3. Held \subseteq Packet
  BY <1>1 DEF TypeOK, ReceiversOK, Held
<1>4. Chosen \subseteq Packet
  BY DEF TypeOK, ReceiversOK, Chosen
<1> QED
  BY <1>2, <1>3, <1>4

(* The order in which a peer routes is strict.                             *)
LEMMA OlderFacts ==
  /\ \A p, q : Older(p, q) => p \in Routed /\ q \in Routed /\ p # q /\ SrcOf[p] = SrcOf[q]
                              /\ TypeOf[p] = TypeOf[q] /\ Earlier(p, q)
  /\ \A p, q : Earlier(p, q) => p \in Routed /\ q \in Routed /\ ~ Earlier(q, p) /\ p # q
<1>1. ASSUME NEW s \in Src, NEW i \in DOMAIN Stream[s]
      PROVE  Stream[s][i] \in Routed /\ SrcOf[Stream[s][i]] = s /\ i \in Nat
  BY RouterAssumption
<1>2. ASSUME NEW p, NEW q, Earlier(p, q)
      PROVE  p \in Routed /\ q \in Routed /\ SrcOf[p] = SrcOf[q] /\ p # q /\ ~ Earlier(q, p)
  <2>1. PICK s \in Src : \E i, j \in DOMAIN Stream[s] : i < j /\ p = Stream[s][i] /\ q = Stream[s][j]
    BY <1>2 DEF Earlier
  <2>2. PICK i \in DOMAIN Stream[s], j \in DOMAIN Stream[s] : i < j /\ p = Stream[s][i] /\ q = Stream[s][j]
    BY <2>1
  <2>3. p \in Routed /\ q \in Routed /\ SrcOf[p] = s /\ SrcOf[q] = s /\ i \in Nat /\ j \in Nat
    BY <1>1, <2>2
  <2>4. IsInjective(Stream[s])
    BY RouterAssumption
  <2>5. p # q
    BY <2>2, <2>3, <2>4 DEF IsInjective
  <2>6. ASSUME Earlier(q, p) PROVE FALSE
    <3>1. PICK t \in Src : \E k, l \in DOMAIN Stream[t] : k < l /\ q = Stream[t][k] /\ p = Stream[t][l]
      BY <2>6 DEF Earlier
    <3>2. PICK k \in DOMAIN Stream[t], l \in DOMAIN Stream[t] : k < l /\ q = Stream[t][k] /\ p = Stream[t][l]
      BY <3>1
    <3>3. t = s
      BY <1>1, <2>3, <3>2
    <3>4. k = j /\ l = i
      BY <2>2, <2>4, <3>2, <3>3 DEF IsInjective
    <3> QED
      BY <2>2, <2>3, <3>2, <3>4
  <2> QED
    BY <2>3, <2>5, <2>6
<1> QED
  BY <1>2 DEF Older

(* A packet put at the end of a sequence of packets.                       *)
LEMMA Appended ==
  ASSUME NEW S, NEW s \in Seq(S), NEW x \in S
  PROVE  /\ ToSet(Append(s, x)) = ToSet(s) \cup {x}
         /\ IsInjective(s) /\ x \notin ToSet(s) => IsInjective(Append(s, x))
         /\ Sorted(s) /\ ~ Older(x, x) /\ (\A y \in ToSet(s) : ~ Older(x, y)) => Sorted(Append(s, x))
<1>1. /\ Len(Append(s, x)) = Len(s) + 1 /\ Append(s, x)[Len(s) + 1] = x
      /\ \A i \in 1 .. Len(s) : Append(s, x)[i] = s[i]
      /\ DOMAIN Append(s, x) = 1 .. Len(s) + 1 /\ DOMAIN s = 1 .. Len(s) /\ Len(s) \in Nat
  OBVIOUS
<1>2. 1 .. Len(s) + 1 = 1 .. Len(s) \cup {Len(s) + 1}
  BY <1>1
<1>3. ToSet(Append(s, x)) = ToSet(s) \cup {x}
  BY <1>1, <1>2 DEF ToSet
<1>4. IsInjective(s) /\ x \notin ToSet(s) => IsInjective(Append(s, x))
  BY <1>1, <1>2 DEF ToSet, IsInjective
<1>5. ASSUME Sorted(s), ~ Older(x, x), \A y \in ToSet(s) : ~ Older(x, y)
      PROVE  Sorted(Append(s, x))
  <2>1. \A i \in DOMAIN s : ~ Older(x, s[i])
    BY <1>5 DEF ToSet
  <2> QED
    BY <1>1, <1>2, <1>5, <2>1 DEF Sorted
<1> QED
  BY <1>3, <1>4, <1>5

(* A packet taken from the front.                                          *)
LEMMA Taking ==
  ASSUME NEW S, NEW s \in Seq(S), s # <<>>, IsInjective(s)
  PROVE  /\ Head(s) \in S /\ Head(s) \in ToSet(s) /\ Tail(s) \in Seq(S) /\ Len(Tail(s)) = Len(s) - 1
         /\ Len(s) \in Nat \ {0}
         /\ \A i \in DOMAIN Tail(s) : i + 1 \in DOMAIN s /\ Tail(s)[i] = s[i + 1]
         /\ ToSet(Tail(s)) = ToSet(s) \ {Head(s)} /\ IsInjective(Tail(s))
         /\ Sorted(s) => Sorted(Tail(s)) /\ \A y \in ToSet(Tail(s)) : ~ Older(y, Head(s))
<1>1. /\ Len(s) \in Nat \ {0} /\ Head(s) = s[1] /\ DOMAIN s = 1 .. Len(s) /\ Head(s) \in S
      /\ Len(Tail(s)) = Len(s) - 1 /\ DOMAIN Tail(s) = 1 .. Len(s) - 1 /\ Tail(s) \in Seq(S)
  OBVIOUS
<1>2. \A i \in DOMAIN Tail(s) : i + 1 \in DOMAIN s /\ Tail(s)[i] = s[i + 1]
  BY <1>1
<1>3. IsInjective(Tail(s))
  BY <1>1, <1>2 DEF IsInjective
<1>4. \A i \in DOMAIN s : i = 1 \/ (i - 1 \in DOMAIN Tail(s) /\ Tail(s)[i - 1] = s[i])
  BY <1>1, <1>2
<1>5. ASSUME NEW y \in ToSet(Tail(s)) PROVE y \in ToSet(s) /\ y # Head(s)
  BY <1>1, <1>2 DEF ToSet, IsInjective
<1>6. ASSUME NEW y \in ToSet(s), y # Head(s) PROVE y \in ToSet(Tail(s))
  BY <1>1, <1>4, <1>6 DEF ToSet
<1>7. ToSet(Tail(s)) = ToSet(s) \ {Head(s)}
  BY <1>5, <1>6
<1>8. ASSUME Sorted(s) PROVE Sorted(Tail(s)) /\ \A y \in ToSet(Tail(s)) : ~ Older(y, Head(s))
  <2>1. Sorted(Tail(s))
    BY <1>1, <1>2, <1>8 DEF Sorted
  <2>2. ASSUME NEW y \in ToSet(Tail(s)), Older(y, Head(s)) PROVE FALSE
    <3>1. PICK i \in DOMAIN Tail(s) : y = Tail(s)[i]
      BY DEF ToSet
    <3>2. i + 1 \in DOMAIN s /\ 1 \in DOMAIN s /\ Older(s[i + 1], s[1])
      BY <1>1, <1>2, <2>2, <3>1
    <3>3. i + 1 < 1
      BY <1>8, <3>2 DEF Sorted
    <3> QED
      BY <1>1, <3>1, <3>3
  <2> QED
    BY <2>1, <2>2
<1>9. Head(s) \in ToSet(s)
  BY <1>1 DEF ToSet
<1> QED
  BY <1>1, <1>2, <1>3, <1>7, <1>8, <1>9

(* A packet taken from the middle: queue = append(queue[:idx], ...).       *)
LEMMA Removed ==
  ASSUME NEW S, NEW s \in Seq(S), NEW i \in 1 .. Len(s)
  PROVE  /\ RemoveAt(s, i) \in Seq(S)
         /\ \A j \in DOMAIN s : j # i => s[j] \in ToSet(RemoveAt(s, i))
         /\ IsInjective(s) => IsInjective(RemoveAt(s, i)) /\ ToSet(RemoveAt(s, i)) = ToSet(s) \ {s[i]}
         /\ Sorted(s) => Sorted(RemoveAt(s, i))
<1> DEFINE t == RemoveAt(s, i)
           a == SubSeq(s, 1, i - 1)
           b == SubSeq(s, i + 1, Len(s))
<1>1. /\ a \in Seq(S) /\ b \in Seq(S) /\ Len(a) = i - 1 /\ Len(b) = Len(s) - i /\ t = a \o b
      /\ \A k \in 1 .. i - 1 : a[k] = s[k]
      /\ \A k \in 1 .. Len(s) - i : b[k] = s[i + k]
  <2>1. a \in Seq(S) /\ Len(a) = i - 1 /\ \A k \in 1 .. i - 1 : a[k] = s[k]
    BY SubSeqProperties
  <2>2. b \in Seq(S) /\ Len(b) = Len(s) - i /\ \A k \in 1 .. Len(s) - i : b[k] = s[i + k]
    BY SubSeqProperties
  <2> QED
    BY <2>1, <2>2 DEF RemoveAt
<1> HIDE DEF a, b, t
<1>2. /\ t \in Seq(S) /\ Len(t) = Len(s) - 1 /\ DOMAIN t = 1 .. Len(s) - 1 /\ DOMAIN s = 1 .. Len(s)
      /\ \A k \in 1 .. i - 1 : t[k] = s[k]
      /\ \A k \in i .. Len(s) - 1 : t[k] = s[k + 1]
  <2>1. /\ t \in Seq(S) /\ Len(t) = Len(a) + Len(b)
        /\ \A k \in 1 .. Len(a) : t[k] = a[k]
        /\ \A k \in Len(a) + 1 .. Len(a) + Len(b) : t[k] = b[k - Len(a)]
    <3>1. a \o b \in Seq(S) /\ Len(a \o b) = Len(a) + Len(b)
      BY <1>1, ConcatProperties
    <3>2. \A k \in 1 .. Len(a) : t[k] = a[k]
      BY <1>1
    <3>3. \A k \in Len(a) + 1 .. Len(a) + Len(b) : t[k] = b[k - Len(a)]
      BY <1>1
    <3> QED
      BY <1>1, <3>1, <3>2, <3>3
  <2>2. Len(s) \in Nat /\ i \in Nat
    OBVIOUS
  <2>3. ASSUME NEW k \in i .. Len(s) - 1 PROVE t[k] = s[k + 1]
    <3>1. t[k] = b[k - (i - 1)] /\ k - (i - 1) \in 1 .. Len(s) - i
      BY <1>1, <2>1, <2>2
    <3>2. i + (k - (i - 1)) = k + 1
      BY <2>2
    <3> QED
      BY <1>1, <3>1, <3>2
  <2>4. Len(t) = Len(s) - 1
    BY <1>1, <2>1, <2>2
  <2>5. \A k \in 1 .. i - 1 : t[k] = s[k]
    BY <1>1, <2>1
  <2> QED
    BY <2>1, <2>3, <2>4, <2>5
<1> DEFINE at(k) == IF k < i THEN k ELSE k + 1
<1>3. \A k \in DOMAIN t : at(k) \in DOMAIN s /\ at(k) # i /\ t[k] = s[at(k)]
  BY <1>2
<1>4. \A k, l \in DOMAIN t : at(k) < at(l) => k < l
  BY <1>2
<1>5. \A k, l \in DOMAIN t : at(k) = at(l) => k = l
  BY <1>2
<1>6. \A j \in DOMAIN s : j # i => \E k \in DOMAIN t : at(k) = j
  <2> TAKE j \in DOMAIN s
  <2>1. CASE j < i
    BY <1>2, <2>1
  <2>2. CASE j > i
    <3>1. j - 1 \in DOMAIN t /\ at(j - 1) = j
      BY <1>2, <2>2
    <3> QED
      BY <3>1
  <2> QED
    BY <1>2, <2>1, <2>2
<1> HIDE DEF at
<1>7. \A j \in DOMAIN s : j # i => s[j] \in ToSet(t)
  BY <1>3, <1>6 DEF ToSet
<1>8. ASSUME IsInjective(s) PROVE IsInjective(t) /\ ToSet(t) = ToSet(s) \ {s[i]}
  <2>1. IsInjective(t)
    BY <1>3, <1>5, <1>8 DEF IsInjective
  <2>2. \A x \in ToSet(t) : x \in ToSet(s) /\ x # s[i]
    BY <1>2, <1>3, <1>8 DEF IsInjective, ToSet
  <2>3. \A x \in ToSet(s) : x # s[i] => x \in ToSet(t)
    BY <1>7 DEF ToSet
  <2> QED
    BY <2>1, <2>2, <2>3
<1>9. Sorted(s) => Sorted(t)
  BY <1>3, <1>4 DEF Sorted
<1> QED
  BY <1>2, <1>7, <1>8, <1>9 DEF t

(* A set of naturals that is not empty has a least element.                *)
LEMMA MinExists ==
  ASSUME NEW S \in SUBSET Nat, S # {}
  PROVE  Min(S) \in S /\ \A y \in S : Min(S) <= y
<1> DEFINE R == OpToRel(<, Nat)
<1>1. IsWellFoundedOn(R, Nat)
  BY NatLessThanWellFounded
<1> HIDE DEF R
<1>2. PICK x \in S : \A y \in S : ~ (<<y, x>> \in R)
  BY <1>1, WFMin
<1>3. \A y \in S : ~ (y < x)
  BY <1>2 DEF OpToRel, R
<1>4. \A y \in S : x <= y
  BY <1>3
<1> QED
  BY <1>4 DEF Min

(* delBlocker removes no other call's blocker.                             *)
LEMMA BlockerRemoved ==
  ASSUME NEW s \in Seq(Receiver), NEW e
  PROVE  RemoveFirst(s, e) \in Seq(Receiver) /\ ToSet(s) \ {e} \subseteq ToSet(RemoveFirst(s, e))
<1>1. CASE \E j \in 1 .. Len(s) : s[j] = e
  <2> DEFINE i == SelectInSeq(s, LAMBDA v : v = e)
             I == {j \in 1 .. Len(s) : s[j] = e}
  <2>1. I # {} /\ I \in SUBSET Nat /\ i = Min(I)
    BY <1>1 DEF SelectInSeq
  <2>2. i \in I /\ RemoveFirst(s, e) = RemoveAt(s, i)
    BY <1>1, <2>1, MinExists DEF RemoveFirst
  <2>3. i \in 1 .. Len(s) /\ s[i] = e
    BY <2>2
  <2> HIDE DEF i
  <2>4. RemoveAt(s, i) \in Seq(Receiver) /\ \A j \in DOMAIN s : j # i => s[j] \in ToSet(RemoveAt(s, i))
    BY <2>3, Removed
  <2> QED
    BY <2>2, <2>3, <2>4 DEF ToSet
<1> QED
  BY <1>1 DEF RemoveFirst

(* Without the mutex no look-up holds a packet.                            *)
LEMMA NoLookup ==
  ASSUME RouterInv, \A r \in Receiver : apiMutex # r
  PROVE  /\ Held = {} /\ Chosen = {}
         /\ \A r \in Receiver : recv[r] \notin {"drain", "putback"} /\ drained[r] = <<>>
<1>1. \A r \in Receiver : recv[r] \notin {"drain", "putback"} /\ drained[r] = <<>>
  BY DEF RouterInv, MutexInv
<1> QED
  BY <1>1 DEF Held, Chosen, ToSet

(* There is one look-up at a time, and no sender in the critical section.  *)
LEMMA OneLookup ==
  ASSUME RouterInv, NEW r \in Receiver, recv[r] \in {"drain", "putback"}
  PROVE  /\ apiMutex = r /\ Held = ToSet(drained[r])
         /\ Chosen = IF recv[r] = "putback" THEN {got[r]} \ {None} ELSE {}
         /\ \A x \in Receiver \ {r} : recv[x] \notin {"drain", "putback"} /\ drained[x] = <<>>
         /\ \A p \in Packet : route[p] \notin {"hand", "check", "enqueue"}
<1>1. /\ apiMutex = r
      /\ \A x \in Receiver \ {r} : recv[x] \notin {"drain", "putback"} /\ drained[x] = <<>>
  BY DEF RouterInv, MutexInv
<1>2. \A p \in Packet : route[p] \notin {"hand", "check", "enqueue"}
  BY <1>1, RouterAssumption DEF RouterInv, MutexInv
<1>3. Held = ToSet(drained[r])
  BY <1>1 DEF Held, ToSet
<1>4. Chosen = IF recv[r] = "putback" THEN {got[r]} \ {None} ELSE {}
  BY <1>1 DEF Chosen
<1> QED
  BY <1>1, <1>2, <1>3, <1>4

(* What the loop of routePacket over the blockers finds.                   *)
LEMMA BlockerFound ==
  ASSUME BlockersOK, NEW p
  PROVE  /\ BlockerFor(p) # 0 => /\ BlockerFor(p) \in 1 .. Len(queue) /\ queue[BlockerFor(p)] \in Receiver
                                 /\ ~ closed[queue[BlockerFor(p)]] /\ Matches(call[queue[BlockerFor(p)]], p)
         /\ BlockerFor(p) = 0 => \A r \in ToSet(queue) : closed[r] \/ ~ Matches(call[r], p)
<1> DEFINE I == {i \in 1 .. Len(queue) : ~ closed[queue[i]] /\ Matches(call[queue[i]], p)}
<1>1. I \in SUBSET Nat /\ 0 \notin I /\ BlockerFor(p) = IF I # {} THEN Min(I) ELSE 0
  BY DEF BlockerFor, SelectInSeq
<1>2. I # {} => BlockerFor(p) \in I
  BY <1>1, MinExists
<1>3. ASSUME BlockerFor(p) # 0
      PROVE  /\ BlockerFor(p) \in 1 .. Len(queue) /\ queue[BlockerFor(p)] \in Receiver
             /\ ~ closed[queue[BlockerFor(p)]] /\ Matches(call[queue[BlockerFor(p)]], p)
  <2>1. BlockerFor(p) \in I
    BY <1>1, <1>2, <1>3
  <2> QED
    BY <2>1 DEF BlockersOK
<1>4. ASSUME BlockerFor(p) = 0, NEW r \in ToSet(queue) PROVE closed[r] \/ ~ Matches(call[r], p)
  <2>1. I = {}
    BY <1>1, <1>2, <1>4
  <2>2. PICK i \in 1 .. Len(queue) : r = queue[i]
    BY DEF ToSet, BlockersOK
  <2> QED
    BY <2>1, <2>2
<1> QED
  BY <1>3, <1>4

(* What the loop of lookupPacket over the packets finds.                   *)
LEMMA FitFound ==
  ASSUME ReceiversOK, NEW r \in Receiver
  PROVE  /\ FirstFit(r) # 0 => /\ FirstFit(r) \in 1 .. Len(drained[r])
                               /\ Matches(call[r], drained[r][FirstFit(r)])
                               /\ \A j \in 1 .. Len(drained[r]) : j < FirstFit(r) => ~ Matches(call[r], drained[r][j])
         /\ FirstFit(r) = 0 => \A x \in ToSet(drained[r]) : ~ Matches(call[r], x)
<1> DEFINE I == {i \in 1 .. Len(drained[r]) : Matches(call[r], drained[r][i])}
<1>1. I \in SUBSET Nat /\ 0 \notin I /\ FirstFit(r) = IF I # {} THEN Min(I) ELSE 0
  BY DEF FirstFit, SelectInSeq
<1>2. I # {} => FirstFit(r) \in I /\ \A j \in I : FirstFit(r) <= j
  BY <1>1, MinExists
<1>3. ASSUME FirstFit(r) # 0
      PROVE  /\ FirstFit(r) \in 1 .. Len(drained[r])
             /\ Matches(call[r], drained[r][FirstFit(r)])
             /\ \A j \in 1 .. Len(drained[r]) : j < FirstFit(r) => ~ Matches(call[r], drained[r][j])
  <2>1. FirstFit(r) \in I /\ \A j \in I : FirstFit(r) <= j
    BY <1>1, <1>2, <1>3
  <2>2. FirstFit(r) \in 1 .. Len(drained[r]) /\ Matches(call[r], drained[r][FirstFit(r)])
    BY <2>1
  <2>3. ASSUME NEW j \in 1 .. Len(drained[r]), j < FirstFit(r), Matches(call[r], drained[r][j]) PROVE FALSE
    <3>1. j \in I
      BY <2>3
    <3>2. FirstFit(r) <= j /\ FirstFit(r) \in Nat /\ j \in Nat
      BY <2>1, <2>2, <3>1
    <3> QED
      BY <2>3, <3>2
  <2> QED
    BY <2>2, <2>3
<1>4. ASSUME FirstFit(r) = 0, NEW x \in ToSet(drained[r]) PROVE ~ Matches(call[r], x)
  <2>1. I = {}
    BY <1>1, <1>2, <1>4
  <2>2. PICK i \in 1 .. Len(drained[r]) : x = drained[r][i]
    BY DEF ToSet, ReceiversOK
  <2> QED
    BY <2>1, <2>2
<1> QED
  BY <1>3, <1>4

(* A peer that routes p has had the answers for what it routed before.     *)
LEMMA TurnEarlier ==
  ASSUME NEW p, NEW x, Turn(p), Earlier(x, p)
  PROVE  Returned(x)
<1>1. PICK s \in Src : \E i, j \in DOMAIN Stream[s] : i < j /\ x = Stream[s][i] /\ p = Stream[s][j]
  BY DEF Earlier
<1>2. PICK i \in DOMAIN Stream[s], j \in DOMAIN Stream[s] : i < j /\ x = Stream[s][i] /\ p = Stream[s][j]
  BY <1>1
<1>3. SrcOf[p] = s /\ i \in 1 .. j - 1
  BY <1>2, RouterAssumption
<1> QED
  BY <1>2, <1>3 DEF Turn

(* Every step keeps the invariant, action by action.                       *)
LEMMA RouterNext == RouterInv /\ Next => RouterInv'
<1> SUFFICES ASSUME RouterInv, Next PROVE RouterInv'
  OBVIOUS
<1> USE Constants DEF RouterInv, TypeOK
<1>1. ASSUME NEW p \in Routed, RouteLock(p) PROVE RouterInv'
  <2>1. UNCHANGED <<receiver, control, queue, closed, recv, call, drained, todo, got,
                    acked, cur, closing, left, dropped, delivered, consumed, calls, unlocks, panicked>>
    BY <1>1 DEF RouteLock, senderVars, receiverVars, closeVars, consumerVars
  <2>2. /\ route[p] = "new" /\ Turn(p) /\ apiMutex = Free /\ apiMutex' = p
        /\ \/ /\ BlockerFor(p) # 0 /\ route' = [route EXCEPT ![p] = "hand"]
              /\ target' = [target EXCEPT ![p] = queue[BlockerFor(p)]]
           \/ BlockerFor(p) = 0 /\ route' = [route EXCEPT ![p] = "check"] /\ target' = target
    BY <1>1 DEF RouteLock
  <2>3. /\ p \in Packet /\ route'[p] \in {"hand", "check"}
        /\ \A x \in Packet : x # p => route'[x] = route[x]
    BY <2>2 DEF SendersOK
  <2>4. \A x \in Packet : Accepted(x)' <=> Accepted(x)
    BY <2>2, <2>3 DEF Accepted
  <2>5. /\ Queued' = Queued /\ Handed' = Handed /\ Taken' = Taken /\ Held' = Held
        /\ Chosen' = Chosen
    BY <2>1, SetFrames
  <2>6. ChannelOK'
    BY <2>1, <2>2, <2>3 DEF ChannelOK
  <2>7. SendersOK'
    BY <2>2, <2>3, BlockerFound DEF SendersOK
  <2>8. MutexInv'
    BY <2>1, <2>2, <2>3 DEF MutexInv
  <2>9. BlockerInv'
    <3>1. CASE route'[p] = "hand"
      <4>1. target'[p] \in Receiver /\ ~ closed[target'[p]] /\ Matches(call[target'[p]], p)
        BY <2>2, <2>3, <3>1, BlockerFound DEF SendersOK
      <4>2. \A x \in Packet : x # p => target'[x] = target[x]
        BY <2>2 DEF SendersOK
      <4> QED
        BY <2>1, <2>3, <3>1, <4>1, <4>2 DEF BlockerInv, Matches
    <3>2. CASE route'[p] = "check"
      <4>1. \A r \in Receiver : recv[r] = "wait" /\ ~ closed[r] => ~ Matches(call[r], p)
        BY <2>2, <2>3, <3>2, BlockerFound DEF BlockerInv, SendersOK
      <4>2. target' = target
        BY <2>2, <2>3, <3>2 DEF SendersOK
      <4> QED
        BY <2>1, <2>3, <3>2, <4>1, <4>2 DEF BlockerInv, Matches
    <3> QED
      BY <2>3, <3>1, <3>2
  <2>10. PlaceInv'
    BY <2>1, <2>2, <2>3, <2>4, <2>5, SetsTyped DEF PlaceInv
  <2>11. BegunInv'
    <3>1. \A x \in Packet : Returned(x) => x # p /\ Returned(x)'
      BY <2>2, <2>3 DEF Returned
    <3> QED
      BY <2>2, <2>3, <3>1, TurnEarlier DEF BegunInv
  <2> QED
    BY <2>1, <2>6, <2>7, <2>8, <2>9, <2>10, <2>11, Frames
<1>2. ASSUME NEW p \in Routed, RouteHand(p) PROVE RouterInv'
  <2> DEFINE r == target[p]
  <2>1. UNCHANGED <<receiver, control, closed, call, drained, todo, acked, cur, closing,
                    left, dropped, consumed, calls, unlocks, panicked>>
    BY <1>2 DEF RouteHand, senderVars, receiverVars, closeVars, consumerVars
  <2>2. /\ route[p] = "hand" /\ recv[r] = "wait" /\ apiMutex' = Free /\ queue' = RemoveFirst(queue, r)
        /\ route' = [route EXCEPT ![p] = Placed(p)] /\ target' = [target EXCEPT ![p] = None]
        /\ got' = [got EXCEPT ![r] = p] /\ recv' = [recv EXCEPT ![r] = "del"]
        /\ delivered' = Append(delivered, p)
    BY <1>2 DEF RouteHand
  <2>3. /\ p \in Packet /\ r \in Receiver /\ ~ closed[r] /\ Matches(call[r], p) /\ apiMutex = p
        /\ Placed(p) \in {"ack", "ok"}
    BY <2>2 DEF BlockerInv, MutexInv, Placed
  <2>4. /\ Held = {} /\ Chosen = {}
        /\ \A x \in Receiver : recv[x] \notin {"drain", "putback"} /\ drained[x] = <<>>
    BY <2>3, NoLookup
  <2> HIDE DEF r
  <2>5. /\ recv'[r] = "del" /\ (\A x \in Receiver : x # r => recv'[x] = recv[x])
        /\ route'[p] \in {"ack", "ok"} /\ (\A x \in Packet : x # p => route'[x] = route[x])
    BY <2>2, <2>3 DEF SendersOK, ReceiversOK
  <2>6. \A x \in Packet : Accepted(x)' <=> Accepted(x) \/ x = p
    BY <2>5 DEF Accepted
  <2>7. ~ Accepted(p) /\ p \notin Handed
    BY <2>2, <2>3 DEF Accepted, PlaceInv
  <2>8. \A y \in Packet : Older(p, y) => ~ Accepted(y) /\ y # p
    BY <2>2, <2>3, OlderFacts DEF BegunInv, Accepted, Returned
  <2>9. Queued' = Queued /\ Taken' = Taken /\ Held' = {} /\ Chosen' = {} /\ Handed' = Handed \cup {p}
    <3>1. Queued' = Queued /\ Taken' = Taken /\ Held' = {}
      BY <2>1, <2>4, SetFrames
    <3>2. Chosen' = {}
      BY <2>4, <2>5 DEF Chosen
    <3>3. Handed' = Handed \cup {p}
      BY <2>2, <2>3, Appended DEF HistoryOK, Handed
    <3> QED
      BY <3>1, <3>2, <3>3
  <2>10. ChannelOK'
    BY <1>2, <2>1, <2>2, <2>3, <2>4, <2>5, <2>6, <2>7, <2>8, <2>9 DEF RouteHand, Placed,
       ChannelOK
  <2>11. BlockersOK'
    BY <2>1, <2>2, BlockerRemoved DEF BlockersOK
  <2>12. SendersOK'
    BY <2>2, <2>3 DEF SendersOK
  <2>13. ReceiversOK'
    BY <2>1, <2>2, <2>3 DEF ReceiversOK
  <2>14. HistoryOK'
    BY <2>1, <2>2, <2>3 DEF HistoryOK
  <2>15. MutexInv'
    BY <2>1, <2>2, <2>3, <2>4, <2>5 DEF MutexInv
  <2>16. BlockerInv'
    <3>1. \A x \in Packet : route'[x] \notin {"hand", "check", "enqueue"}
      BY <2>3, <2>5 DEF MutexInv
    <3>2. \A x \in Receiver : recv'[x] = "wait" => x \in ToSet(queue')
      BY <2>2, <2>3, <2>5, BlockerRemoved DEF BlockerInv, BlockersOK
    <3> QED
      BY <2>1, <2>2, <2>3, <2>5, <3>1, <3>2 DEF BlockerInv
  <2>17. WaitInv'
    BY <2>1, <2>4, <2>5, <2>9 DEF WaitInv, Matches
  <2>18. LookupInv'
    BY <2>1, <2>4, <2>5, <2>9 DEF LookupInv, Matches
  <2>19. DistinctInv'
    BY <2>1, <2>2, <2>3, <2>7, Appended DEF DistinctInv, HistoryOK, Handed
  <2>20. PlaceInv'
    BY <2>1, <2>3, <2>6, <2>7, <2>9, <2>4 DEF PlaceInv
  <2>21. BegunInv'
    BY <2>2, <2>3, <2>5 DEF BegunInv, Returned
  <2>22. SortedInv'
    <3>1. \A y \in ToSet(delivered) : ~ Older(p, y)
      BY <2>8, SetsTyped DEF PlaceInv, Handed
    <3>2. ~ Older(p, p)
      BY OlderFacts
    <3> QED
      BY <2>1, <2>2, <2>3, <3>1, <3>2, Appended DEF SortedInv, HistoryOK
  <2>23. AheadInv'
    <3>1. ASSUME NEW x \in Queued, Older(x, p) PROVE FALSE
      <4>1. Matches(call[r], x)
        BY <2>3, <3>1, OlderFacts DEF Matches
      <4> QED
        BY <2>2, <2>3, <4>1 DEF WaitInv
    <3> QED
      BY <2>3, <2>4, <2>9, <3>1 DEF AheadInv
  <2> QED
    BY <2>1, <2>10, <2>11, <2>12, <2>13, <2>14, <2>15, <2>16, <2>17, <2>18, <2>19, <2>20,
       <2>21, <2>22, <2>23, Frames
<1>3. ASSUME NEW p \in Routed, RouteCheck(p) PROVE RouterInv'
  <2>1. UNCHANGED <<receiver, control, queue, closed, target, recv, call, drained, todo,
                    got, acked, cur, closing, left, dropped, delivered, consumed, calls, unlocks, panicked>>
    BY <1>3 DEF RouteCheck, senderVars, receiverVars, closeVars, consumerVars
  <2>2. /\ p \in Packet /\ route[p] = "check" /\ apiMutex = p
        /\ \/ apiMutex' = Free /\ route' = [route EXCEPT ![p] = "refused"]
           \/ apiMutex' = p /\ route' = [route EXCEPT ![p] = "enqueue"]
    BY <1>3 DEF RouteCheck, MutexInv
  <2>3. /\ route'[p] \in {"refused", "enqueue"} /\ (\A x \in Packet : x # p => route'[x] = route[x])
        /\ route'[p] = "enqueue" => apiMutex' = p
    BY <2>2 DEF SendersOK
  <2>4. \A x \in Packet : Accepted(x)' <=> Accepted(x)
    BY <2>2, <2>3 DEF Accepted
  <2>5. /\ Queued' = Queued /\ Handed' = Handed /\ Taken' = Taken /\ Held' = Held
        /\ Chosen' = Chosen
    BY <2>1, SetFrames
  <2>6. ChannelOK'
    BY <1>3, <2>1, <2>2, <2>3, <2>4, <2>5 DEF RouteCheck, ChannelOK
  <2>7. SendersOK'
    BY <1>3, <2>1, <2>2, <2>3, <2>4, <2>5 DEF RouteCheck, SendersOK
  <2>8. MutexInv'
    BY <2>1, <2>2, <2>3 DEF MutexInv
  <2>9. BlockerInv'
    BY <2>1, <2>2, <2>3 DEF BlockerInv, Matches
  <2>10. PlaceInv'
    BY <2>1, <2>2, <2>3, <2>4, <2>5, SetsTyped DEF PlaceInv
  <2>11. BegunInv'
    BY <2>2, <2>3 DEF BegunInv, Returned
  <2> QED
    BY <2>1, <2>6, <2>7, <2>8, <2>9, <2>10, <2>11, Frames
<1>4. ASSUME NEW p \in Routed, RouteEnqueue(p) PROVE RouterInv'
  <2>1. UNCHANGED <<control, queue, closed, target, recv, call, drained, todo, got,
                    acked, cur, closing, left, dropped, delivered, consumed, calls, unlocks, panicked>>
    BY <1>4 DEF RouteEnqueue, senderVars, receiverVars, closeVars, consumerVars
  <2>2. /\ p \in Packet /\ route[p] = "enqueue" /\ apiMutex = p /\ apiMutex' = Free /\ Len(receiver) < QueueSize
        /\ receiver' = Append(receiver, p) /\ route' = [route EXCEPT ![p] = Placed(p)]
        /\ Placed(p) \in {"ack", "ok"}
    BY <1>4 DEF RouteEnqueue, MutexInv, Placed
  <2>3. /\ Held = {} /\ Chosen = {}
        /\ \A x \in Receiver : recv[x] \notin {"drain", "putback"} /\ drained[x] = <<>>
    BY <2>2, NoLookup
  <2>4. route'[p] \in {"ack", "ok"} /\ (\A x \in Packet : x # p => route'[x] = route[x])
    BY <2>2 DEF SendersOK
  <2>5. \A x \in Packet : Accepted(x)' <=> Accepted(x) \/ x = p
    BY <2>4 DEF Accepted
  <2>6. ~ Accepted(p) /\ p \notin Queued
    BY <2>2 DEF Accepted, PlaceInv
  <2>7. \A y \in Packet : Older(p, y) => ~ Accepted(y) /\ y # p
    BY <2>2, OlderFacts DEF BegunInv, Accepted, Returned
  <2>8. Handed' = Handed /\ Taken' = Taken /\ Held' = {} /\ Chosen' = {} /\ Queued' = Queued \cup {p}
    BY <2>1, <2>2, <2>3, SetFrames, Appended DEF ChannelOK, Queued
  <2>9. ChannelOK'
    BY <2>1, <2>2 DEF ChannelOK
  <2>10. SendersOK'
    BY <2>1, <2>2 DEF SendersOK
  <2>11. MutexInv'
    BY <2>1, <2>2, <2>3, <2>4 DEF MutexInv
  <2>12. BlockerInv'
    <3>1. \A x \in Packet : route'[x] \notin {"hand", "check", "enqueue"}
      BY <2>2, <2>4 DEF MutexInv
    <3> QED
      BY <2>1, <3>1 DEF BlockerInv
  <2>13. WaitInv'
    <3>1. \A r \in Receiver : recv[r] = "wait" /\ ~ closed[r] => ~ Matches(call[r], p)
      BY <2>2 DEF BlockerInv
    <3> QED
      BY <2>1, <2>3, <2>8, <3>1 DEF WaitInv, Matches
  <2>14. LookupInv'
    BY <2>1, <2>3 DEF LookupInv
  <2>15. DistinctInv'
    BY <2>1, <2>2, <2>6, Appended DEF DistinctInv, ChannelOK, Queued
  <2>16. PlaceInv'
    BY <2>1, <2>2, <2>3, <2>5, <2>6, <2>8 DEF PlaceInv
  <2>17. BegunInv'
    BY <2>2, <2>4 DEF BegunInv, Returned
  <2>18. SortedInv'
    <3>1. \A y \in ToSet(receiver) : ~ Older(p, y)
      BY <2>7, SetsTyped DEF PlaceInv, Queued
    <3>2. ~ Older(p, p)
      BY OlderFacts
    <3> QED
      BY <2>1, <2>2, <3>1, <3>2, Appended DEF SortedInv, ChannelOK
  <2>19. AheadInv'
    <3>1. \A y \in Handed : ~ Older(p, y)
      BY <2>7, SetsTyped DEF PlaceInv
    <3> QED
      BY <2>2, <2>3, <2>8, <3>1 DEF AheadInv
  <2> QED
    BY <2>1, <2>9, <2>10, <2>11, <2>12, <2>13, <2>14, <2>15, <2>16, <2>17, <2>18, <2>19,
       Frames
<1>5. ASSUME NEW p \in Routed, RouteAck(p) PROVE RouterInv'
  <2>1. UNCHANGED <<apiMutex, receiver, control, queue, closed, target, recv, call,
                    drained, todo, got, acked, cur, closing, left, dropped, delivered, consumed, calls, unlocks, panicked>>
    BY <1>5 DEF RouteAck, senderVars, receiverVars, closeVars, consumerVars
  <2>2. /\ p \in Packet /\ route[p] = "ack" /\ route'[p] \in {"ok", "unacked"}
        /\ \A x \in Packet : x # p => route'[x] = route[x]
    BY <1>5 DEF RouteAck, SendersOK
  <2>3. \A x \in Packet : Accepted(x)' <=> Accepted(x)
    BY <2>2 DEF Accepted
  <2>4. /\ Queued' = Queued /\ Handed' = Handed /\ Taken' = Taken /\ Held' = Held
        /\ Chosen' = Chosen
    BY <2>1, SetFrames
  <2>5. SendersOK'
    BY <1>5, <2>1, <2>2, <2>3, <2>4 DEF RouteAck, SendersOK
  <2>6. MutexInv'
    BY <2>1, <2>2 DEF MutexInv
  <2>7. BlockerInv'
    BY <2>1, <2>2 DEF BlockerInv, Matches
  <2>8. PlaceInv'
    BY <2>1, <2>2, <2>3, <2>4, SetsTyped DEF PlaceInv
  <2>9. BegunInv'
    BY <2>2 DEF BegunInv, Returned
  <2> QED
    BY <2>1, <2>5, <2>6, <2>7, <2>8, <2>9, Frames
<1>6. ASSUME NEW p \in Notice, Notify(p) PROVE RouterInv'
  <2>1. UNCHANGED <<apiMutex, control, queue, closed, target, recv, call, drained, todo,
                    got, acked, cur, closing, left, dropped, delivered, consumed, calls, unlocks, panicked>>
    BY <1>6 DEF Notify, senderVars, receiverVars, closeVars, consumerVars
  <2>2. /\ p \in Packet /\ p \notin Routed /\ route[p] \in {"new", "async"}
        /\ \/ /\ Len(receiver) < QueueSize /\ receiver' = Append(receiver, p)
              /\ route' = [route EXCEPT ![p] = "ok"]
           \/ /\ receiver' = receiver
              /\ route' = [route EXCEPT ![p] = "async"] \/ route' = [route EXCEPT ![p] = "refused"]
    BY <1>6 DEF Notify
  <2>3. /\ route'[p] \in {"ok", "async", "refused"} /\ (\A x \in Packet : x # p => route'[x] = route[x])
        /\ route'[p] # "ok" => receiver' = receiver
        /\ route'[p] = "ok" => Len(receiver) < QueueSize /\ receiver' = Append(receiver, p)
    BY <2>2 DEF SendersOK
  <2>4. \A x \in Packet : Accepted(x)' <=> Accepted(x) \/ (x = p /\ route'[p] = "ok")
    BY <2>2, <2>3 DEF Accepted
  <2>5. ~ Accepted(p) /\ p \notin Queued
    BY <2>2 DEF Accepted, PlaceInv
  <2>6. Handed' = Handed /\ Taken' = Taken /\ Held' = Held /\ Chosen' = Chosen
    BY <2>1, SetFrames
  <2>7. \A x : ~ Older(x, p) /\ ~ Older(p, x)
    BY <2>2, OlderFacts
  <2>8. /\ Queued' = IF route'[p] = "ok" THEN Queued \cup {p} ELSE Queued
        /\ IsInjective(receiver') /\ Sorted(receiver')
    <3>1. CASE route'[p] = "ok"
      <4>1. receiver \in Seq(Packet) /\ p \notin ToSet(receiver) /\ IsInjective(receiver) /\ Sorted(receiver)
        BY <2>5 DEF ChannelOK, DistinctInv, SortedInv, Queued
      <4>2. /\ ToSet(Append(receiver, p)) = ToSet(receiver) \cup {p}
            /\ IsInjective(Append(receiver, p)) /\ Sorted(Append(receiver, p))
        BY <2>2, <2>7, <4>1, Appended
      <4> QED
        BY <2>3, <3>1, <4>2 DEF Queued
    <3>2. CASE route'[p] # "ok"
      BY <2>3, <3>2, SetFrames DEF DistinctInv, SortedInv
    <3> QED
      BY <3>1, <3>2
  <2>9. \A r \in Receiver : recv[r] # "idle" => ~ Matches(call[r], p)
    BY <1>6 DEF BlockerInv
  <2>10. ChannelOK'
    <3>1. receiver' \in Seq(Packet)
      BY <2>2 DEF ChannelOK
    <3>2. Len(receiver') <= QueueSize
      BY <2>2 DEF ChannelOK
    <3> QED
      BY <2>1, <3>1, <3>2 DEF ChannelOK
  <2>11. SendersOK'
    BY <2>1, <2>2 DEF SendersOK
  <2>12. MutexInv'
    BY <2>1, <2>2, <2>3 DEF MutexInv
  <2>13. BlockerInv'
    BY <2>1, <2>2, <2>3 DEF BlockerInv, Matches
  <2>14. WaitInv'
    BY <2>1, <2>6, <2>8, <2>9 DEF WaitInv, Matches
  <2>15. LookupInv'
    <3>1. \A r \in Receiver : recv[r] = "drain" => \A i \in DOMAIN receiver' : i > todo[r] => receiver'[i] \in Notice
      <4>1. CASE receiver' = receiver
        BY <4>1 DEF LookupInv
      <4>2. CASE receiver' = Append(receiver, p)
        <5>1. /\ DOMAIN receiver' = 1 .. Len(receiver) \cup {Len(receiver) + 1} /\ DOMAIN receiver = 1 .. Len(receiver)
              /\ receiver'[Len(receiver) + 1] = p /\ \A i \in 1 .. Len(receiver) : receiver'[i] = receiver[i]
          BY <2>2, <4>2 DEF ChannelOK
        <5> QED
          BY <1>6, <5>1 DEF LookupInv
      <4> QED
        BY <2>2, <4>1, <4>2
    <3>2. \A r \in Receiver : recv[r] = "putback" /\ got[r] = None => \A x \in Queued' \cup Held : ~ Matches(call[r], x)
      BY <2>8, <2>9 DEF LookupInv
    <3> QED
      BY <2>1, <2>6, <3>1, <3>2 DEF LookupInv, Matches
  <2>16. DistinctInv'
    BY <2>1, <2>8 DEF DistinctInv
  <2>17. PlaceInv'
    BY <2>1, <2>2, <2>4, <2>5, <2>6, <2>8 DEF PlaceInv
  <2>18. BegunInv'
    BY <2>2, <2>3 DEF BegunInv, Returned
  <2>19. SortedInv'
    BY <2>1, <2>8 DEF SortedInv
  <2>20. AheadInv'
    BY <2>1, <2>6, <2>7, <2>8, SetFrames DEF AheadInv
  <2> QED
    BY <2>1, <2>10, <2>11, <2>12, <2>13, <2>14, <2>15, <2>16, <2>17, <2>18, <2>19, <2>20,
       Frames
<1>7. ASSUME NEW p \in Notice, AsyncSend(p) PROVE RouterInv'
  <2>1. UNCHANGED <<apiMutex, control, queue, closed, target, recv, call, drained, todo,
                    got, acked, cur, closing, left, dropped, delivered, consumed, calls, unlocks, panicked>>
    BY <1>7 DEF AsyncSend, senderVars, receiverVars, closeVars, consumerVars
  <2>2. /\ p \in Packet /\ p \notin Routed /\ route[p] \in {"new", "async"}
        /\ \/ /\ Len(receiver) < QueueSize /\ receiver' = Append(receiver, p)
              /\ route' = [route EXCEPT ![p] = "ok"]
           \/ /\ receiver' = receiver
              /\ route' = [route EXCEPT ![p] = "async"] \/ route' = [route EXCEPT ![p] = "refused"]
    BY <1>7 DEF AsyncSend
  <2>3. /\ route'[p] \in {"ok", "async", "refused"} /\ (\A x \in Packet : x # p => route'[x] = route[x])
        /\ route'[p] # "ok" => receiver' = receiver
        /\ route'[p] = "ok" => Len(receiver) < QueueSize /\ receiver' = Append(receiver, p)
    BY <2>2 DEF SendersOK
  <2>4. \A x \in Packet : Accepted(x)' <=> Accepted(x) \/ (x = p /\ route'[p] = "ok")
    BY <2>2, <2>3 DEF Accepted
  <2>5. ~ Accepted(p) /\ p \notin Queued
    BY <2>2 DEF Accepted, PlaceInv
  <2>6. Handed' = Handed /\ Taken' = Taken /\ Held' = Held /\ Chosen' = Chosen
    BY <2>1, SetFrames
  <2>7. \A x : ~ Older(x, p) /\ ~ Older(p, x)
    BY <2>2, OlderFacts
  <2>8. /\ Queued' = IF route'[p] = "ok" THEN Queued \cup {p} ELSE Queued
        /\ IsInjective(receiver') /\ Sorted(receiver')
    <3>1. CASE route'[p] = "ok"
      <4>1. receiver \in Seq(Packet) /\ p \notin ToSet(receiver) /\ IsInjective(receiver) /\ Sorted(receiver)
        BY <2>5 DEF ChannelOK, DistinctInv, SortedInv, Queued
      <4>2. /\ ToSet(Append(receiver, p)) = ToSet(receiver) \cup {p}
            /\ IsInjective(Append(receiver, p)) /\ Sorted(Append(receiver, p))
        BY <2>2, <2>7, <4>1, Appended
      <4> QED
        BY <2>3, <3>1, <4>2 DEF Queued
    <3>2. CASE route'[p] # "ok"
      BY <2>3, <3>2, SetFrames DEF DistinctInv, SortedInv
    <3> QED
      BY <3>1, <3>2
  <2>9. \A r \in Receiver : recv[r] # "idle" => ~ Matches(call[r], p)
    BY <1>7 DEF BlockerInv
  <2>10. ChannelOK'
    <3>1. receiver' \in Seq(Packet)
      BY <2>2 DEF ChannelOK
    <3>2. Len(receiver') <= QueueSize
      BY <2>2 DEF ChannelOK
    <3> QED
      BY <2>1, <3>1, <3>2 DEF ChannelOK
  <2>11. SendersOK'
    BY <2>1, <2>2 DEF SendersOK
  <2>12. MutexInv'
    BY <2>1, <2>2, <2>3 DEF MutexInv
  <2>13. BlockerInv'
    BY <2>1, <2>2, <2>3 DEF BlockerInv, Matches
  <2>14. WaitInv'
    BY <2>1, <2>6, <2>8, <2>9 DEF WaitInv, Matches
  <2>15. LookupInv'
    <3>1. \A r \in Receiver : recv[r] = "drain" => \A i \in DOMAIN receiver' : i > todo[r] => receiver'[i] \in Notice
      <4>1. CASE receiver' = receiver
        BY <4>1 DEF LookupInv
      <4>2. CASE receiver' = Append(receiver, p)
        <5>1. /\ DOMAIN receiver' = 1 .. Len(receiver) \cup {Len(receiver) + 1} /\ DOMAIN receiver = 1 .. Len(receiver)
              /\ receiver'[Len(receiver) + 1] = p /\ \A i \in 1 .. Len(receiver) : receiver'[i] = receiver[i]
          BY <2>2, <4>2 DEF ChannelOK
        <5> QED
          BY <1>7, <5>1 DEF LookupInv
      <4> QED
        BY <2>2, <4>1, <4>2
    <3>2. \A r \in Receiver : recv[r] = "putback" /\ got[r] = None => \A x \in Queued' \cup Held : ~ Matches(call[r], x)
      BY <2>8, <2>9 DEF LookupInv
    <3> QED
      BY <2>1, <2>6, <3>1, <3>2 DEF LookupInv, Matches
  <2>16. DistinctInv'
    BY <2>1, <2>8 DEF DistinctInv
  <2>17. PlaceInv'
    BY <2>1, <2>2, <2>4, <2>5, <2>6, <2>8 DEF PlaceInv
  <2>18. BegunInv'
    BY <2>2, <2>3 DEF BegunInv, Returned
  <2>19. SortedInv'
    BY <2>1, <2>8 DEF SortedInv
  <2>20. AheadInv'
    BY <2>1, <2>6, <2>7, <2>8, SetFrames DEF AheadInv
  <2> QED
    BY <2>1, <2>10, <2>11, <2>12, <2>13, <2>14, <2>15, <2>16, <2>17, <2>18, <2>19, <2>20,
       Frames
<1>8. ASSUME NEW r \in Receiver, RecvLock(r) PROVE RouterInv'
  <2>1. UNCHANGED <<receiver, control, queue, route, target, drained, acked, cur,
                    closing, left, dropped, delivered, consumed, unlocks, panicked>>
    BY <1>8 DEF RecvLock, senderVars, receiverVars, closeVars, consumerVars
  <2>2. /\ recv[r] = "idle" /\ apiMutex = Free /\ apiMutex' = r
        /\ todo' = [todo EXCEPT ![r] = Len(receiver)] /\ closed' = [closed EXCEPT ![r] = FALSE]
        /\ got' = [got EXCEPT ![r] = None] /\ recv' = [recv EXCEPT ![r] = "drain"]
        /\ \E s \in Filters, t \in PType, m \in Modes :
             call' = [call EXCEPT ![r] = [src |-> s, pType |-> t, mode |-> m]]
    BY <1>8 DEF RecvLock
  <2>3. Held = {} /\ Chosen = {} /\ \A x \in Receiver : recv[x] \notin {"drain", "putback"} /\ drained[x] = <<>>
    BY <2>2, NoLookup
  <2>4. /\ recv'[r] = "drain" /\ todo'[r] = Len(receiver) /\ call'[r].pType \in PType
        /\ \A x \in Receiver : x # r => recv'[x] = recv[x] /\ call'[x] = call[x] /\ closed'[x] = closed[x]
    BY <2>2 DEF ReceiversOK, BlockersOK
  <2>5. Queued' = Queued /\ Handed' = Handed /\ Taken' = Taken /\ Held' = {} /\ Chosen' = {}
    BY <2>1, <2>3, <2>4, SetFrames DEF Chosen
  <2>6. \A x \in Packet : Accepted(x)' <=> Accepted(x)
    BY <2>1 DEF Accepted
  <2>7. ChannelOK'
    BY <1>8, <2>1, <2>2, <2>3, <2>4, <2>5, <2>6 DEF RecvLock, ChannelOK
  <2>8. BlockersOK'
    BY <1>8, <2>1, <2>2, <2>3, <2>4, <2>5, <2>6 DEF RecvLock, BlockersOK
  <2>9. ReceiversOK'
    BY <1>8, <2>1, <2>2, <2>3, <2>4, <2>5, <2>6 DEF RecvLock, ReceiversOK, ChannelOK
  <2>10. MutexInv'
    BY <2>1, <2>2, <2>3, <2>4 DEF MutexInv
  <2>11. BlockerInv'
    <3>1. \A x \in Packet : route'[x] \notin {"hand", "check", "enqueue"}
      BY <2>1, <2>2 DEF MutexInv
    <3> QED
      BY <2>1, <2>4, <3>1 DEF BlockerInv
  <2>12. WaitInv'
    BY <2>1, <2>3, <2>4, <2>5 DEF WaitInv, Matches
  <2>13. LookupInv'
    BY <2>1, <2>2, <2>3, <2>4 DEF LookupInv, ChannelOK, ReceiversOK
  <2>14. PlaceInv'
    BY <2>1, <2>3, <2>5, <2>6 DEF PlaceInv
  <2>15. AheadInv'
    BY <2>3, <2>5 DEF AheadInv
  <2> QED
    BY <2>1, <2>7, <2>8, <2>9, <2>10, <2>11, <2>12, <2>13, <2>14, <2>15, Frames
<1>9. ASSUME NEW r \in Receiver, LookupTake(r) PROVE RouterInv'
  <2> DEFINE h == Head(receiver)
  <2>1. UNCHANGED <<apiMutex, control, queue, closed, route, target, recv, call, got,
                    acked, cur, closing, left, dropped, delivered, consumed, calls, unlocks, panicked>>
    BY <1>9 DEF LookupTake, senderVars, receiverVars, closeVars, consumerVars
  <2>2. /\ recv[r] = "drain" /\ todo[r] > 0 /\ receiver # <<>> /\ receiver' = Tail(receiver)
        /\ drained' = [drained EXCEPT ![r] = Append(@, h)] /\ todo' = [todo EXCEPT ![r] = @ - 1]
    BY <1>9 DEF LookupTake
  <2>3. /\ apiMutex = r /\ Held = ToSet(drained[r]) /\ Chosen = {}
        /\ \A x \in Receiver \ {r} : recv[x] \notin {"drain", "putback"} /\ drained[x] = <<>>
    BY <2>2, OneLookup
  <2>4. /\ h \in Packet /\ h \in Queued /\ Tail(receiver) \in Seq(Packet) /\ Len(Tail(receiver)) = Len(receiver) - 1
        /\ Queued' = Queued \ {h} /\ IsInjective(receiver') /\ Sorted(receiver')
        /\ \A y \in Queued' : ~ Older(y, h)
        /\ \A i \in DOMAIN receiver' : i + 1 \in DOMAIN receiver /\ receiver'[i] = receiver[i + 1]
    BY <2>2, Taking DEF ChannelOK, DistinctInv, SortedInv, Queued
  <2>5. h \notin Held /\ \A y \in Held : ~ Older(h, y)
    <3>1. ~ Looking("putback")
      BY <2>2, <2>3 DEF Looking
    <3> QED
      BY <2>4, <3>1, SetsTyped DEF PlaceInv, AheadInv
  <2> HIDE DEF h
  <2>6. /\ drained'[r] = Append(drained[r], h) /\ drained[r] \in Seq(Packet) /\ todo'[r] = todo[r] - 1
        /\ todo[r] \in Nat /\ \A x \in Receiver \ {r} : drained'[x] = drained[x] /\ todo'[x] = todo[x]
    BY <2>2 DEF ReceiversOK
  <2>7. /\ ToSet(drained'[r]) = Held \cup {h} /\ IsInjective(drained'[r]) /\ Sorted(drained'[r])
    <3>1. ~ Older(h, h) /\ IsInjective(drained[r]) /\ Sorted(drained[r])
      BY OlderFacts DEF DistinctInv, SortedInv
    <3> QED
      BY <2>3, <2>4, <2>5, <2>6, <3>1, Appended
  <2>8. Held' = Held \cup {h}
    <3>1. \A x \in Receiver \ {r} : ToSet(drained'[x]) = {}
      BY <2>3, <2>6 DEF ToSet
    <3> QED
      BY <2>7, <3>1 DEF Held
  <2>9. Handed' = Handed /\ Taken' = Taken /\ Chosen' = Chosen
    BY <2>1, SetFrames
  <2>10. \A x \in Packet : Accepted(x)' <=> Accepted(x)
    BY <2>1 DEF Accepted
  <2>11. ChannelOK'
    BY <2>1, <2>2, <2>4 DEF ChannelOK
  <2>12. ReceiversOK'
    BY <2>1, <2>2, <2>4, <2>6 DEF ReceiversOK
  <2>13. MutexInv'
    BY <2>1, <2>2, <2>6 DEF MutexInv
  <2>14. WaitInv'
    BY <2>1, <2>4, <2>8 DEF WaitInv, Matches
  <2>15. LookupInv'
    <3>1. \A i \in DOMAIN receiver' : i > todo'[r] => receiver'[i] \in Notice
      <4> SUFFICES ASSUME NEW i \in DOMAIN receiver', i > todo'[r] PROVE receiver'[i] \in Notice
        OBVIOUS
      <4>1. i \in Nat /\ i + 1 > todo[r]
        BY <2>2, <2>4, <2>6 DEF ChannelOK
      <4> QED
        BY <2>2, <2>4, <4>1 DEF LookupInv
    <3> QED
      BY <2>1, <2>2, <2>3, <3>1 DEF LookupInv
  <2>16. DistinctInv'
    BY <2>1, <2>4, <2>6, <2>7 DEF DistinctInv
  <2>17. PlaceInv'
    BY <2>1, <2>4, <2>5, <2>8, <2>9, <2>10 DEF PlaceInv
  <2>18. SortedInv'
    BY <2>1, <2>4, <2>6, <2>7 DEF SortedInv
  <2>19. AheadInv'
    <3>1. Looking("drain")'
      BY <2>1, <2>2 DEF Looking
    <3>2. ~ Looking("putback")
      BY <2>2, <2>3 DEF Looking
    <3> QED
      BY <2>3, <2>4, <2>5, <2>8, <2>9, <3>1, <3>2, SetsTyped DEF AheadInv
  <2> QED
    BY <2>1, <2>11, <2>12, <2>13, <2>14, <2>15, <2>16, <2>17, <2>18, <2>19, Frames
<1>10. ASSUME NEW r \in Receiver, LookupMatch(r) PROVE RouterInv'
  <2> DEFINE i == FirstFit(r)
             g == drained[r][i]
  <2>1. UNCHANGED <<apiMutex, receiver, control, queue, closed, route, target, call,
                    todo, acked, cur, closing, left, dropped, delivered, consumed, calls, unlocks, panicked>>
    BY <1>10 DEF LookupMatch, senderVars, receiverVars, closeVars, consumerVars
  <2>2. /\ recv[r] = "drain" /\ todo[r] = 0 /\ recv' = [recv EXCEPT ![r] = "putback"]
        /\ \/ i = 0 /\ UNCHANGED <<got, drained>>
           \/ /\ i # 0 /\ got' = [got EXCEPT ![r] = g]
              /\ drained' = [drained EXCEPT ![r] = RemoveAt(drained[r], i)]
    BY <1>10 DEF LookupMatch, Others
  <2>3. /\ apiMutex = r /\ Held = ToSet(drained[r]) /\ Chosen = {} /\ drained[r] \in Seq(Packet)
        /\ \A x \in Receiver \ {r} : recv[x] \notin {"drain", "putback"} /\ drained[x] = <<>>
        /\ \A x \in Packet : route[x] \notin {"hand", "check", "enqueue"}
    BY <2>2, OneLookup DEF ReceiversOK
  <2>4. Queued \subseteq Notice
    <3>1. \A k \in DOMAIN receiver : k > 0
      BY DEF ChannelOK
    <3> QED
      BY <2>2, <3>1 DEF LookupInv, Queued, ToSet
  <2>5. i # 0 => /\ i \in 1 .. Len(drained[r]) /\ Matches(call[r], g) /\ g \in Packet /\ g \in Held
                 /\ \A j \in 1 .. Len(drained[r]) : j < i => ~ Matches(call[r], drained[r][j])
    BY <2>3, FitFound DEF ToSet
  <2>6. i = 0 => \A x \in Held : ~ Matches(call[r], x)
    BY <2>3, FitFound
  <2> HIDE DEF i
  <2>7. i # 0 => /\ RemoveAt(drained[r], i) \in Seq(Packet) /\ ToSet(RemoveAt(drained[r], i)) = Held \ {g}
                 /\ IsInjective(RemoveAt(drained[r], i)) /\ Sorted(RemoveAt(drained[r], i))
    BY <2>3, <2>5, Removed DEF DistinctInv, SortedInv
  <2>8. i # 0 => \A x \in Held : ~ Older(x, g)
    <3> SUFFICES ASSUME i # 0, NEW x \in Held, Older(x, g) PROVE FALSE
      OBVIOUS
    <3>1. PICK k \in 1 .. Len(drained[r]) : x = drained[r][k]
      BY <2>3 DEF ToSet
    <3>2. k < i
      BY <2>3, <2>5, <3>1 DEF SortedInv, Sorted
    <3>3. Matches(call[r], x)
      BY <2>5, OlderFacts DEF Matches
    <3> QED
      BY <2>5, <3>1, <3>2, <3>3
  <2> HIDE DEF g
  <2>9. /\ recv'[r] = "putback" /\ \A x \in Receiver \ {r} : recv'[x] = recv[x] /\ drained'[x] = drained[x] /\ got'[x] = got[x]
        /\ i # 0 => drained'[r] = RemoveAt(drained[r], i) /\ got'[r] = g
        /\ i = 0 => drained'[r] = drained[r] /\ got'[r] = got[r]
    BY <2>2 DEF ReceiversOK
  <2>10. got[r] = None
    BY <2>2 DEF LookupInv
  <2>11. Queued' = Queued /\ Handed' = Handed /\ Taken' = Taken
    BY <2>1, SetFrames
  <2>12. Held' = ToSet(drained'[r]) /\ Chosen' = {got'[r]} \ {None}
    BY <2>3, <2>9 DEF Held, Chosen, ToSet
  <2>13. \/ i = 0 /\ Held' = Held /\ Chosen' = {} /\ got'[r] = None
         \/ i # 0 /\ Held' = Held \ {g} /\ Chosen' = {g} /\ got'[r] = g /\ g \in Held /\ g \in Packet
    BY <2>3, <2>5, <2>7, <2>9, <2>10, <2>12
  <2>14. \A x \in Packet : Accepted(x)' <=> Accepted(x)
    BY <2>1 DEF Accepted
  <2>15. ReceiversOK'
    <3>1. recv' \in [Receiver -> {"idle", "drain", "putback", "wait", "del"}]
      BY <2>2 DEF ReceiversOK
    <3>2. CASE i = 0
      <4>1. UNCHANGED <<got, drained>>
        BY <2>2, <3>2
      <4> QED
        BY <2>1, <3>1, <4>1 DEF ReceiversOK
    <3>3. CASE i # 0
      <4>1. got' = [got EXCEPT ![r] = g] /\ g \in Packet
        BY <2>2, <2>5, <3>3
      <4>2. drained' = [drained EXCEPT ![r] = RemoveAt(drained[r], i)] /\ RemoveAt(drained[r], i) \in Seq(Packet)
        BY <2>2, <2>7, <3>3
      <4>3. got' \in [Receiver -> Packet \cup {None}]
        BY <4>1 DEF ReceiversOK
      <4>4. drained' \in [Receiver -> Seq(Packet)]
        BY <4>2 DEF ReceiversOK
      <4> QED
        BY <2>1, <3>1, <4>3, <4>4 DEF ReceiversOK
    <3> QED
      BY <3>2, <3>3
  <2>16. MutexInv'
    BY <2>1, <2>3, <2>9 DEF MutexInv
  <2>17. BlockerInv'
    BY <2>1, <2>2, <2>3, <2>9 DEF BlockerInv, Matches
  <2>18. WaitInv'
    BY <2>1, <2>2, <2>9, <2>11, <2>13 DEF WaitInv, Matches
  <2>19. LookupInv'
    <3>1. ASSUME got'[r] = None, NEW x \in Queued' \cup Held' PROVE ~ Matches(call[r], x)
      BY <2>2, <2>4, <2>6, <2>11, <2>13, <3>1 DEF BlockerInv
    <3> QED
      BY <2>1, <2>3, <2>9, <3>1 DEF LookupInv, Matches
  <2>20. DistinctInv'
    BY <2>1, <2>7, <2>9 DEF DistinctInv
  <2>21. PlaceInv'
    BY <2>1, <2>3, <2>11, <2>13, <2>14 DEF PlaceInv
  <2>22. SortedInv'
    BY <2>1, <2>7, <2>9 DEF SortedInv
  <2>23. AheadInv'
    <3>1. \A x, y : Older(x, y) => x \notin Queued /\ y \notin Queued
      BY <2>4, OlderFacts
    <3> QED
      BY <2>3, <2>8, <2>11, <2>13, <3>1 DEF AheadInv
  <2> QED
    BY <2>1, <2>15, <2>16, <2>17, <2>18, <2>19, <2>20, <2>21, <2>22, <2>23, Frames
<1>11. ASSUME NEW r \in Receiver, LookupPutBack(r) PROVE RouterInv'
  <2> DEFINE h == Head(drained[r])
  <2>1. UNCHANGED <<apiMutex, control, queue, closed, route, target, recv, call, todo,
                    got, acked, cur, closing, left, dropped, delivered, consumed, calls, unlocks, panicked>>
    BY <1>11 DEF LookupPutBack, senderVars, receiverVars, closeVars, consumerVars
  <2>2. /\ recv[r] = "putback" /\ drained[r] # <<>> /\ Len(receiver) < QueueSize
        /\ receiver' = Append(receiver, h) /\ drained' = [drained EXCEPT ![r] = Tail(drained[r])]
    BY <1>11 DEF LookupPutBack
  <2>3. /\ apiMutex = r /\ Held = ToSet(drained[r]) /\ drained[r] \in Seq(Packet)
        /\ \A x \in Receiver \ {r} : recv[x] \notin {"drain", "putback"} /\ drained[x] = <<>>
    BY <2>2, OneLookup DEF ReceiversOK
  <2>4. drained'[r] = Tail(drained[r]) /\ \A x \in Receiver \ {r} : drained'[x] = drained[x]
    BY <2>2 DEF ReceiversOK
  <2>5. /\ h \in Packet /\ h \in Held /\ Tail(drained[r]) \in Seq(Packet)
        /\ ToSet(drained'[r]) = Held \ {h} /\ IsInjective(drained'[r]) /\ Sorted(drained'[r])
        /\ \A y \in ToSet(drained'[r]) : ~ Older(y, h)
    BY <2>2, <2>3, <2>4, Taking DEF DistinctInv, SortedInv
  <2> HIDE DEF h
  <2>6. Held' = Held \ {h}
    <3>1. \A x \in Receiver \ {r} : ToSet(drained'[x]) = {}
      BY <2>3, <2>4 DEF ToSet
    <3> QED
      BY <2>5, <3>1 DEF Held
  <2>7. h \notin Queued /\ \A y \in Queued : ~ Older(h, y)
    <3>1. ~ Looking("drain")
      BY <2>2, <2>3 DEF Looking
    <3> QED
      BY <2>5, <3>1, SetsTyped DEF PlaceInv, AheadInv
  <2>8. Queued' = Queued \cup {h} /\ IsInjective(receiver') /\ Sorted(receiver')
    <3>1. ~ Older(h, h)
      BY OlderFacts
    <3> QED
      BY <2>2, <2>5, <2>7, <3>1, Appended DEF ChannelOK, Queued, DistinctInv, SortedInv
  <2>9. Handed' = Handed /\ Taken' = Taken /\ Chosen' = Chosen
    BY <2>1, SetFrames
  <2>10. \A x \in Packet : Accepted(x)' <=> Accepted(x)
    BY <2>1 DEF Accepted
  <2>11. ChannelOK'
    BY <2>1, <2>2, <2>5 DEF ChannelOK
  <2>12. ReceiversOK'
    BY <2>1, <2>2, <2>5 DEF ReceiversOK
  <2>13. MutexInv'
    BY <2>1, <2>2, <2>4 DEF MutexInv
  <2>14. WaitInv'
    BY <2>1, <2>5, <2>6, <2>8 DEF WaitInv, Matches
  <2>15. LookupInv'
    BY <2>1, <2>2, <2>3, <2>5, <2>6, <2>8 DEF LookupInv, Matches
  <2>16. DistinctInv'
    BY <2>1, <2>4, <2>5, <2>8 DEF DistinctInv
  <2>17. PlaceInv'
    BY <2>1, <2>5, <2>6, <2>7, <2>8, <2>9, <2>10 DEF PlaceInv
  <2>18. SortedInv'
    BY <2>1, <2>4, <2>5, <2>8 DEF SortedInv
  <2>19. AheadInv'
    <3>1. Looking("putback")'
      BY <2>1, <2>2 DEF Looking
    <3>2. ~ Looking("drain")
      BY <2>2, <2>3 DEF Looking
    <3>3. \A y \in Held' : ~ Older(y, h)
      BY <2>3, <2>5, <2>6
    <3> QED
      BY <2>5, <2>6, <2>8, <2>9, <3>1, <3>2, <3>3, SetsTyped DEF AheadInv
  <2> QED
    BY <2>1, <2>11, <2>12, <2>13, <2>14, <2>15, <2>16, <2>17, <2>18, <2>19, Frames
<1>12. ASSUME NEW r \in Receiver, RecvAdd(r) PROVE RouterInv'
  <2> DEFINE g == got[r]
  <2>1. UNCHANGED <<receiver, control, closed, route, target, call, drained, todo, got,
                    cur, closing, left, dropped, consumed, calls, unlocks, panicked>>
    BY <1>12 DEF RecvAdd, senderVars, receiverVars, closeVars, consumerVars
  <2>2. /\ recv[r] = "putback" /\ drained[r] = <<>> /\ apiMutex' = Free
        /\ \/ /\ g # None /\ recv' = [recv EXCEPT ![r] = "idle"] /\ delivered' = Append(delivered, g)
              /\ acked' = acked \cup ({g} \cap Imc) /\ queue' = queue
           \/ /\ g = None /\ recv' = [recv EXCEPT ![r] = "wait"] /\ queue' = Append(queue, r)
              /\ UNCHANGED <<delivered, acked>>
    BY <1>12 DEF RecvAdd
  <2>3. /\ apiMutex = r /\ Held = {} /\ Chosen = {g} \ {None} /\ g \in Packet \cup {None}
        /\ \A x \in Receiver \ {r} : recv[x] \notin {"drain", "putback"} /\ drained[x] = <<>>
        /\ \A x \in Packet : route[x] \notin {"hand", "check", "enqueue"}
    BY <2>2, OneLookup DEF ReceiversOK, ToSet
  <2>4. \A x \in Receiver \ {r} : recv'[x] = recv[x]
    BY <2>2 DEF ReceiversOK
  <2>5. recv'[r] = IF g # None THEN "idle" ELSE "wait"
    BY <2>2 DEF ReceiversOK
  <2>6. g # None => g \in Packet /\ g \in Chosen /\ g \notin Handed
    BY <2>3 DEF PlaceInv
  <2>7. \A y \in Handed : g # None => ~ Older(g, y)
    BY <2>6, SetsTyped DEF AheadInv
  <2>8. g = None => \A x \in Queued : ~ Matches(call[r], x)
    BY <2>2 DEF LookupInv
  <2> HIDE DEF g
  <2>9. Queued' = Queued /\ Taken' = Taken /\ Held' = {}
    BY <2>1, <2>3, SetFrames
  <2>10. Chosen' = {}
    BY <2>3, <2>4, <2>5 DEF Chosen
  <2>11. Handed' = Handed \cup Chosen /\ IsInjective(delivered') /\ Sorted(delivered')
    <3>1. CASE g # None
      <4>1. /\ delivered \in Seq(Packet) /\ g \in Packet /\ g \notin ToSet(delivered) /\ ~ Older(g, g)
            /\ IsInjective(delivered) /\ Sorted(delivered) /\ \A y \in ToSet(delivered) : ~ Older(g, y)
        BY <2>6, <2>7, <3>1, OlderFacts DEF HistoryOK, DistinctInv, SortedInv, Handed
      <4>2. /\ ToSet(Append(delivered, g)) = ToSet(delivered) \cup {g}
            /\ IsInjective(Append(delivered, g)) /\ Sorted(Append(delivered, g))
        BY <4>1, Appended
      <4> QED
        BY <2>2, <2>3, <3>1, <4>2 DEF Handed
    <3>2. CASE g = None
      BY <2>2, <2>3, <3>2, SetFrames DEF DistinctInv, SortedInv
    <3> QED
      BY <3>1, <3>2
  <2>12. \A x \in Packet : Accepted(x)' <=> Accepted(x)
    BY <2>1 DEF Accepted
  <2>13. ChannelOK'
    BY <1>12, <2>1, <2>2, <2>3, <2>4, <2>5, <2>6, <2>7, <2>8, <2>9, <2>10, <2>11,
       <2>12 DEF RecvAdd, ChannelOK
  <2>14. BlockersOK'
    BY <2>1, <2>2 DEF BlockersOK
  <2>15. ReceiversOK'
    BY <2>1, <2>2 DEF ReceiversOK
  <2>16. HistoryOK'
    <3>1. delivered' \in Seq(Packet)
      BY <2>2, <2>6 DEF HistoryOK
    <3>2. acked' \subseteq Packet
      BY <2>2, <2>6 DEF HistoryOK
    <3> QED
      BY <2>1, <3>1, <3>2 DEF HistoryOK
  <2>17. MutexInv'
    BY <2>1, <2>2, <2>3, <2>4, <2>5 DEF MutexInv
  <2>18. BlockerInv'
    <3>0. queue \in Seq(Receiver) /\ ToSet(Append(queue, r)) = ToSet(queue) \cup {r}
      BY Appended DEF BlockersOK
    <3>1. ToSet(queue') = ToSet(queue) \/ ToSet(queue') = ToSet(queue) \cup {r}
      BY <2>2, <3>0
    <3>2. recv'[r] = "wait" => r \in ToSet(queue')
      BY <2>2, <2>5, <3>0
    <3>3. \A x \in Receiver : recv'[x] = "wait" => x \in ToSet(queue')
      BY <2>4, <3>1, <3>2 DEF BlockerInv
    <3>4. \A x \in Receiver : recv'[x] # "idle" => call'[x].pType \in PType
      BY <2>1, <2>2, <2>4 DEF BlockerInv
    <3> QED
      BY <2>1, <2>3, <3>3, <3>4 DEF BlockerInv
  <2>19. WaitInv'
    BY <2>1, <2>4, <2>5, <2>8, <2>9, <2>3 DEF WaitInv, Matches
  <2>20. LookupInv'
    BY <2>1, <2>3, <2>4, <2>5 DEF LookupInv
  <2>21. DistinctInv'
    BY <2>1, <2>11 DEF DistinctInv
  <2>22. PlaceInv'
    BY <2>1, <2>3, <2>9, <2>10, <2>11, <2>12 DEF PlaceInv
  <2>23. SortedInv'
    BY <2>1, <2>11 DEF SortedInv
  <2>24. AheadInv'
    BY <2>3, <2>9, <2>10, <2>11 DEF AheadInv
  <2> QED
    BY <2>1, <2>13, <2>14, <2>15, <2>16, <2>17, <2>18, <2>19, <2>20, <2>21, <2>22, <2>23,
       <2>24, Frames
<1>13. ASSUME NEW r \in Receiver, RecvGiveUp(r) PROVE RouterInv'
  <2>1. UNCHANGED <<apiMutex, receiver, control, queue, closed, route, target, call,
                    drained, todo, got, acked, cur, closing, left, dropped, delivered, consumed, calls, unlocks, panicked>>
    BY <1>13 DEF RecvGiveUp, senderVars, receiverVars, closeVars, consumerVars
  <2>2. recv' = [recv EXCEPT ![r] = "del"] /\ recv[r] = "wait"
    BY <1>13 DEF RecvGiveUp
  <2>3. /\ recv'[r] \in {"idle", "del"} /\ \A x \in Receiver \ {r} : recv'[x] = recv[x]
    BY <2>2 DEF ReceiversOK
  <2>4. Queued' = Queued /\ Handed' = Handed /\ Taken' = Taken /\ Held' = Held
    BY <2>1, SetFrames
  <2>5. Chosen' = Chosen
    BY <2>1, <2>2, <2>3 DEF Chosen
  <2>6. /\ \A x \in Packet : Accepted(x)' <=> Accepted(x)
        /\ \A pc \in {"drain", "putback"} : Looking(pc)' <=> Looking(pc)
    BY <2>1, <2>2, <2>3 DEF Accepted, Looking
  <2>7. ReceiversOK'
    BY <2>1, <2>2 DEF ReceiversOK
  <2>8. MutexInv'
    BY <2>1, <2>2, <2>3 DEF MutexInv
  <2>9. BlockerInv'
    BY <2>1, <2>2, <2>3 DEF BlockerInv, Matches
  <2>10. WaitInv'
    BY <2>1, <2>3, <2>4 DEF WaitInv, Matches
  <2>11. LookupInv'
    BY <2>1, <2>3, <2>4 DEF LookupInv, Matches
  <2>12. PlaceInv'
    BY <2>1, <2>4, <2>5, <2>6 DEF PlaceInv
  <2>13. AheadInv'
    BY <2>1, <2>4, <2>5, <2>6 DEF AheadInv
  <2> QED
    BY <2>1, <2>7, <2>8, <2>9, <2>10, <2>11, <2>12, <2>13, Frames
<1>14. ASSUME NEW r \in Receiver, RecvReset(r) PROVE RouterInv'
  <2>1. UNCHANGED <<apiMutex, receiver, control, queue, closed, route, target, call,
                    drained, todo, got, acked, cur, closing, left, dropped, delivered, consumed, calls, unlocks, panicked>>
    BY <1>14 DEF RecvReset, senderVars, receiverVars, closeVars, consumerVars
  <2>2. recv' = [recv EXCEPT ![r] = "del"] /\ recv[r] = "wait"
    BY <1>14 DEF RecvReset
  <2>3. /\ recv'[r] \in {"idle", "del"} /\ \A x \in Receiver \ {r} : recv'[x] = recv[x]
    BY <2>2 DEF ReceiversOK
  <2>4. Queued' = Queued /\ Handed' = Handed /\ Taken' = Taken /\ Held' = Held
    BY <2>1, SetFrames
  <2>5. Chosen' = Chosen
    BY <2>1, <2>2, <2>3 DEF Chosen
  <2>6. /\ \A x \in Packet : Accepted(x)' <=> Accepted(x)
        /\ \A pc \in {"drain", "putback"} : Looking(pc)' <=> Looking(pc)
    BY <2>1, <2>2, <2>3 DEF Accepted, Looking
  <2>7. ReceiversOK'
    BY <2>1, <2>2 DEF ReceiversOK
  <2>8. MutexInv'
    BY <2>1, <2>2, <2>3 DEF MutexInv
  <2>9. BlockerInv'
    BY <2>1, <2>2, <2>3 DEF BlockerInv, Matches
  <2>10. WaitInv'
    BY <2>1, <2>3, <2>4 DEF WaitInv, Matches
  <2>11. LookupInv'
    BY <2>1, <2>3, <2>4 DEF LookupInv, Matches
  <2>12. PlaceInv'
    BY <2>1, <2>4, <2>5, <2>6 DEF PlaceInv
  <2>13. AheadInv'
    BY <2>1, <2>4, <2>5, <2>6 DEF AheadInv
  <2> QED
    BY <2>1, <2>7, <2>8, <2>9, <2>10, <2>11, <2>12, <2>13, Frames
<1>15. ASSUME NEW r \in Receiver, RecvDel(r) PROVE RouterInv'
  <2>1. UNCHANGED <<apiMutex, receiver, control, closed, route, target, call, drained,
                    todo, got, cur, closing, left, dropped, delivered, consumed, calls, unlocks, panicked>>
    BY <1>15 DEF RecvDel, senderVars, receiverVars, closeVars, consumerVars
  <2>2. recv' = [recv EXCEPT ![r] = "idle"] /\ queue' = RemoveFirst(queue, r) /\ recv[r] = "del" /\ apiMutex = Free
    BY <1>15 DEF RecvDel
  <2>3. /\ recv'[r] \in {"idle", "del"} /\ \A x \in Receiver \ {r} : recv'[x] = recv[x]
    BY <2>2 DEF ReceiversOK
  <2>4. Queued' = Queued /\ Handed' = Handed /\ Taken' = Taken /\ Held' = Held
    BY <2>1, SetFrames
  <2>5. Chosen' = Chosen
    BY <2>1, <2>2, <2>3 DEF Chosen
  <2>6. /\ \A x \in Packet : Accepted(x)' <=> Accepted(x)
        /\ \A pc \in {"drain", "putback"} : Looking(pc)' <=> Looking(pc)
    BY <2>1, <2>2, <2>3 DEF Accepted, Looking
  <2>7. BlockersOK'
    BY <2>1, <2>2, BlockerRemoved DEF BlockersOK
  <2>8. ReceiversOK'
    BY <2>1, <2>2 DEF ReceiversOK
  <2>9. HistoryOK'
    <3>1. acked' = acked \cup ({got[r]} \cap Imc) /\ Imc \subseteq Packet
      BY <1>15, RouterAssumption DEF RecvDel
    <3> QED
      BY <2>1, <3>1 DEF HistoryOK
  <2>10. MutexInv'
    BY <2>1, <2>2, <2>3 DEF MutexInv
  <2>11. BlockerInv'
    <3>1. \A x \in Packet : route[x] \notin {"hand", "check", "enqueue"}
      BY <2>2 DEF MutexInv
    <3>2. \A x \in Receiver : recv'[x] = "wait" => x \in ToSet(queue')
      BY <2>2, <2>3, BlockerRemoved DEF BlockerInv, BlockersOK
    <3> QED
      BY <2>1, <2>2, <2>3, <3>1, <3>2 DEF BlockerInv
  <2>12. WaitInv'
    BY <2>1, <2>3, <2>4 DEF WaitInv, Matches
  <2>13. LookupInv'
    BY <2>1, <2>3, <2>4 DEF LookupInv, Matches
  <2>14. PlaceInv'
    BY <2>1, <2>4, <2>5, <2>6 DEF PlaceInv
  <2>15. AheadInv'
    BY <2>1, <2>4, <2>5, <2>6 DEF AheadInv
  <2> QED
    BY <2>1, <2>7, <2>8, <2>9, <2>10, <2>11, <2>12, <2>13, <2>14, <2>15, Frames
<1>16. CASE ConsumerTake
  <2> DEFINE h == Head(receiver)
  <2>1. UNCHANGED <<apiMutex, control, queue, closed, route, target, recv, call, drained,
                    todo, got, acked, closing, left, dropped, delivered, calls, unlocks, panicked>>
    BY <1>16 DEF ConsumerTake, senderVars, receiverVars, closeVars, consumerVars
  <2>2. receiver # <<>> /\ receiver' = Tail(receiver) /\ cur' = h /\ consumed' = Append(consumed, h)
    BY <1>16 DEF ConsumerTake
  <2>3. /\ h \in Packet /\ h \in Queued /\ Tail(receiver) \in Seq(Packet) /\ Len(Tail(receiver)) = Len(receiver) - 1
        /\ Len(receiver) \in Nat \ {0}
        /\ Queued' = Queued \ {h} /\ IsInjective(receiver') /\ Sorted(receiver')
        /\ \A i \in DOMAIN receiver' : i + 1 \in DOMAIN receiver /\ receiver'[i] = receiver[i + 1]
    BY <2>2, Taking DEF ChannelOK, DistinctInv, SortedInv, Queued
  <2> HIDE DEF h
  <2>4. Handed' = Handed /\ Held' = Held /\ Chosen' = Chosen /\ Taken' = Taken \cup {h}
    <3>1. consumed \in Seq(Packet) /\ ToSet(Append(consumed, h)) = ToSet(consumed) \cup {h}
      BY <2>3, Appended DEF HistoryOK
    <3> QED
      BY <2>1, <2>2, <3>1, SetFrames DEF Taken
  <2>5. \A x \in Packet : Accepted(x)' <=> Accepted(x)
    BY <2>1 DEF Accepted
  <2>6. ChannelOK'
    BY <2>1, <2>2, <2>3 DEF ChannelOK
  <2>7. HistoryOK'
    BY <2>1, <2>2, <2>3 DEF HistoryOK
  <2>8. WaitInv'
    BY <2>1, <2>3, <2>4 DEF WaitInv, Matches
  <2>9. LookupInv'
    <3>1. ASSUME NEW r \in Receiver, recv[r] = "drain", NEW i \in DOMAIN receiver', i > todo[r]
          PROVE  receiver'[i] \in Notice
      <4>1. i \in Nat /\ todo[r] \in Nat /\ i + 1 > todo[r]
        BY <2>2, <2>3, <3>1 DEF ReceiversOK
      <4> QED
        BY <2>3, <3>1, <4>1 DEF LookupInv
    <3>2. \A r \in Receiver : recv[r] = "putback" /\ got[r] = None => \A x \in Queued' \cup Held : ~ Matches(call[r], x)
      BY <2>3 DEF LookupInv
    <3> QED
      BY <2>1, <2>4, <3>1, <3>2 DEF LookupInv, Matches
  <2>10. DistinctInv'
    BY <2>1, <2>2, <2>3, Appended DEF DistinctInv, HistoryOK, Taken, PlaceInv
  <2>11. PlaceInv'
    BY <2>1, <2>2, <2>3, <2>4, <2>5 DEF PlaceInv
  <2>12. SortedInv'
    BY <2>1, <2>3 DEF SortedInv
  <2>13. AheadInv'
    BY <2>1, <2>3, <2>4, SetFrames DEF AheadInv
  <2> QED
    BY <2>1, <2>6, <2>7, <2>8, <2>9, <2>10, <2>11, <2>12, <2>13, Frames
<1>17. CASE ConsumerAck
  <2>1. UNCHANGED <<apiMutex, receiver, control, queue, closed, route, target, recv,
                    call, drained, todo, got, closing, left, dropped, delivered, consumed, calls, unlocks, panicked>>
    BY <1>17 DEF ConsumerAck, senderVars, receiverVars, closeVars, consumerVars
  <2>2. HistoryOK'
    BY <1>17, <2>1 DEF ConsumerAck, HistoryOK, ChannelOK, ReceiversOK
  <2> QED
    BY <2>1, <2>2, Frames
<1>18. ASSUME NEW s \in Src, Unlock(s) PROVE RouterInv'
  <2>1. UNCHANGED <<apiMutex, receiver, control, queue, route, target, recv, call,
                    drained, todo, got, acked, cur, closing, left, dropped, delivered, consumed, calls>>
    BY <1>18 DEF Unlock, senderVars, receiverVars, closeVars, consumerVars, CloseBlockers
  <2>2. ChannelOK'
    BY <1>18, <2>1 DEF Unlock, CloseBlockers, ChannelOK
  <2>3. BlockersOK'
    BY <1>18, <2>1 DEF Unlock, CloseBlockers, BlockersOK
  <2>4. HistoryOK'
    BY <1>18, <2>1 DEF Unlock, CloseBlockers, HistoryOK, ChannelOK, ReceiversOK
  <2>5. BlockerInv'
    <3>1. \A r \in Receiver : closed[r] => closed'[r]
      BY <1>18 DEF Unlock, CloseBlockers
    <3>2. \A x \in Packet : route[x] \notin {"hand", "check", "enqueue"}
      BY <1>18 DEF Unlock, MutexInv
    <3> QED
      BY <2>1, <3>1, <3>2 DEF BlockerInv, Matches
  <2>6. WaitInv'
    <3>1. \A r \in Receiver : closed[r] => closed'[r]
      BY <1>18 DEF Unlock, CloseBlockers
    <3> QED
      BY <2>1, <3>1, SetFrames DEF WaitInv, Matches
  <2> QED
    BY <2>1, <2>2, <2>3, <2>4, <2>5, <2>6, Frames
<1>19. CASE CloseUnlockAll
  <2>1. UNCHANGED <<apiMutex, receiver, control, queue, route, target, recv, call,
                    drained, todo, got, acked, cur, left, dropped, delivered, consumed, calls, unlocks>>
    BY <1>19 DEF CloseUnlockAll, senderVars, receiverVars, closeVars, consumerVars,
       CloseBlockers
  <2>2. ChannelOK'
    BY <1>19, <2>1 DEF CloseUnlockAll, CloseBlockers, ChannelOK
  <2>3. BlockersOK'
    BY <1>19, <2>1 DEF CloseUnlockAll, CloseBlockers, BlockersOK
  <2>4. BlockerInv'
    <3>1. \A r \in Receiver : closed[r] => closed'[r]
      BY <1>19 DEF CloseUnlockAll, CloseBlockers
    <3>2. \A x \in Packet : route[x] \notin {"hand", "check", "enqueue"}
      BY <1>19 DEF CloseUnlockAll, MutexInv
    <3> QED
      BY <2>1, <3>1, <3>2 DEF BlockerInv, Matches
  <2>5. WaitInv'
    <3>1. \A r \in Receiver : closed[r] => closed'[r]
      BY <1>19 DEF CloseUnlockAll, CloseBlockers
    <3> QED
      BY <2>1, <3>1, SetFrames DEF WaitInv, Matches
  <2> QED
    BY <2>1, <2>2, <2>3, <2>4, <2>5, Frames
<1>20. CASE CloseControl
  <2>1. UNCHANGED <<apiMutex, receiver, queue, closed, route, target, recv, call,
                    drained, todo, got, acked, cur, dropped, delivered, consumed, calls, unlocks, panicked>>
    BY <1>20 DEF CloseControl, senderVars, receiverVars, closeVars, consumerVars
  <2>2. ChannelOK'
    BY <1>20, <2>1 DEF CloseControl, ChannelOK
  <2> QED
    BY <2>1, <2>2, Frames
<1>21. CASE CloseDrain
  <2> DEFINE h == Head(receiver)
  <2>1. UNCHANGED <<apiMutex, control, queue, closed, route, target, recv, call, drained,
                    todo, got, acked, cur, closing, delivered, consumed, calls, unlocks, panicked>>
    BY <1>21 DEF CloseDrain, senderVars, receiverVars, closeVars, consumerVars
  <2>2. receiver # <<>> /\ receiver' = Tail(receiver) /\ dropped' = dropped \cup {h} /\ left' = left - 1 /\ left > 0
    BY <1>21 DEF CloseDrain
  <2>3. /\ h \in Packet /\ h \in Queued /\ Tail(receiver) \in Seq(Packet) /\ Len(Tail(receiver)) = Len(receiver) - 1
        /\ Len(receiver) \in Nat \ {0}
        /\ Queued' = Queued \ {h} /\ IsInjective(receiver') /\ Sorted(receiver')
        /\ \A i \in DOMAIN receiver' : i + 1 \in DOMAIN receiver /\ receiver'[i] = receiver[i + 1]
    BY <2>2, Taking DEF ChannelOK, DistinctInv, SortedInv, Queued
  <2> HIDE DEF h
  <2>4. Handed' = Handed /\ Held' = Held /\ Chosen' = Chosen /\ Taken' = Taken
    <3>1. consumed \in Seq(Packet) /\ ToSet(Append(consumed, h)) = ToSet(consumed) \cup {h}
      BY <2>3, Appended DEF HistoryOK
    <3> QED
      BY <2>1, <2>2, <3>1, SetFrames DEF Taken
  <2>5. \A x \in Packet : Accepted(x)' <=> Accepted(x)
    BY <2>1 DEF Accepted
  <2>6. ChannelOK'
    BY <2>1, <2>2, <2>3 DEF ChannelOK
  <2>7. HistoryOK'
    BY <2>1, <2>2, <2>3 DEF HistoryOK
  <2>8. WaitInv'
    BY <2>1, <2>3, <2>4 DEF WaitInv, Matches
  <2>9. LookupInv'
    <3>1. ASSUME NEW r \in Receiver, recv[r] = "drain", NEW i \in DOMAIN receiver', i > todo[r]
          PROVE  receiver'[i] \in Notice
      <4>1. i \in Nat /\ todo[r] \in Nat /\ i + 1 > todo[r]
        BY <2>2, <2>3, <3>1 DEF ReceiversOK
      <4> QED
        BY <2>3, <3>1, <4>1 DEF LookupInv
    <3>2. \A r \in Receiver : recv[r] = "putback" /\ got[r] = None => \A x \in Queued' \cup Held : ~ Matches(call[r], x)
      BY <2>3 DEF LookupInv
    <3> QED
      BY <2>1, <2>4, <3>1, <3>2 DEF LookupInv, Matches
  <2>10. DistinctInv'
    BY <2>1, <2>2, <2>3, Appended DEF DistinctInv, HistoryOK, Taken, PlaceInv
  <2>11. PlaceInv'
    BY <2>1, <2>2, <2>3, <2>4, <2>5 DEF PlaceInv
  <2>12. SortedInv'
    BY <2>1, <2>3 DEF SortedInv
  <2>13. AheadInv'
    BY <2>1, <2>3, <2>4, SetFrames DEF AheadInv
  <2> QED
    BY <2>1, <2>6, <2>7, <2>8, <2>9, <2>10, <2>11, <2>12, <2>13, Frames
<1> QED
  BY <1>1, <1>2, <1>3, <1>4, <1>5, <1>6, <1>7, <1>8, <1>9, <1>10, <1>11, <1>12, <1>13,
     <1>14, <1>15, <1>16, <1>17, <1>18, <1>19, <1>20, <1>21 DEF Next, Route, Recv, Consume, Close

(* newRouter establishes the invariant.                                    *)
LEMMA RouterInit == Init => RouterInv
<1> SUFFICES ASSUME Init PROVE RouterInv
  OBVIOUS
<1>0. ChannelOK /\ SendersOK /\ HistoryOK
  <2>1. ChannelOK
    <3>1. receiver \in Seq(Packet) /\ Len(receiver) <= QueueSize
      BY RouterAssumption DEF Init
    <3>2. control \in BOOLEAN /\ panicked \in BOOLEAN /\ apiMutex \in Packet \cup Receiver \cup {Free}
      BY Zenon DEF Init
    <3> QED
      BY <3>1, <3>2 DEF Init, ChannelOK
  <2>2. SendersOK
    BY DEF Init, SendersOK
  <2>3. HistoryOK
    BY DEF Init, HistoryOK
  <2> QED
    BY <2>1, <2>2, <2>3
<1>1. BlockersOK
  BY DEF Init, BlockersOK
<1>2. ReceiversOK
  BY Constants DEF Init, ReceiversOK, NoCall
<1>3. Queued = {} /\ Handed = {} /\ Taken = {} /\ Held = {} /\ Chosen = {}
  BY DEF Init, Queued, Handed, Taken, Held, Chosen, ToSet
<1>4. MutexInv /\ BlockerInv /\ WaitInv /\ LookupInv
  BY <1>3 DEF Init, MutexInv, BlockerInv, WaitInv, LookupInv
<1>5. DistinctInv /\ SortedInv
  BY DEF Init, DistinctInv, SortedInv, Sorted, IsInjective
<1>6. PlaceInv
  BY <1>3 DEF Init, PlaceInv, Accepted
<1>7. BegunInv
  BY Constants DEF Init, BegunInv
<1>8. AheadInv
  BY <1>3 DEF AheadInv
<1> QED
  BY <1>0, <1>1, <1>2, <1>4, <1>5, <1>6, <1>7, <1>8 DEF RouterInv, TypeOK

(* The inductive invariant, for every instance.                            *)
THEOREM RouterInductive == Spec => []RouterInv
<1>1. RouterInv /\ UNCHANGED vars => RouterInv'
  BY Frames DEF RouterInv, TypeOK, vars
<1> QED
  BY <1>1, RouterInit, RouterNext, PTL DEF Spec

(* The router's variables keep their types, and the receiver channel its   *)
(* capacity.                                                               *)
THEOREM RouterTypeOK == Spec => []TypeOK
  BY RouterInductive, PTL DEF RouterInv

(* No recvPacket call sleeps on a packet that lies in the channel.         *)
THEOREM RouterNoStrandedPacket == Spec => []NoStrandedPacket
<1>1. RouterInv => NoStrandedPacket
  BY DEF RouterInv, WaitInv, NoStrandedPacket, Queued, ToSet
<1> QED
  BY <1>1, RouterInductive, PTL

(* How often a packet is in a sequence without repetitions.                *)
LEMMA Counted ==
  ASSUME NEW s \in Seq(Packet), IsInjective(s), NEW p
  PROVE  Count(s, p) = IF p \in ToSet(s) THEN 1 ELSE 0
<1>1. CASE p \in ToSet(s)
  <2>1. PICK i \in DOMAIN s : s[i] = p
    BY <1>1 DEF ToSet
  <2>2. {k \in DOMAIN s : s[k] = p} = {i}
    BY <2>1 DEF IsInjective
  <2> QED
    BY <1>1, <2>2, FS_Singleton DEF Count
<1>2. CASE p \notin ToSet(s)
  <2>1. {k \in DOMAIN s : s[k] = p} = {}
    BY <1>2 DEF ToSet
  <2> QED
    BY <1>2, <2>1, FS_EmptySet DEF Count
<1> QED
  BY <1>1, <1>2

(* The counts of Places are 0 or 1.                                        *)
LEMMA PlacesCounted ==
  ASSUME RouterInv, NEW p \in Packet
  PROVE  /\ Count(receiver, p) = IF p \in Queued THEN 1 ELSE 0
         /\ Count(delivered, p) = IF p \in Handed THEN 1 ELSE 0
         /\ Count(consumed, p) = IF p \in Taken THEN 1 ELSE 0
         /\ Cardinality({r \in Receiver : Count(drained[r], p) > 0}) = IF p \in Held THEN 1 ELSE 0
         /\ Cardinality({r \in Receiver : recv[r] = "putback" /\ got[r] = p})
              = IF p \in Chosen THEN 1 ELSE 0
         /\ Cardinality({p} \cap dropped) = IF p \in dropped THEN 1 ELSE 0
<1> USE DEF RouterInv, TypeOK
<1>1. /\ Count(receiver, p) = IF p \in Queued THEN 1 ELSE 0
      /\ Count(delivered, p) = IF p \in Handed THEN 1 ELSE 0
      /\ Count(consumed, p) = IF p \in Taken THEN 1 ELSE 0
  BY Counted DEF ChannelOK, HistoryOK, DistinctInv, Queued, Handed, Taken
<1>2. \A r \in Receiver : Count(drained[r], p) > 0 <=> p \in ToSet(drained[r])
  <2> TAKE r \in Receiver
  <2>1. Count(drained[r], p) = IF p \in ToSet(drained[r]) THEN 1 ELSE 0
    BY Counted DEF ReceiversOK, DistinctInv
  <2> QED
    BY <2>1
<1>3. \A r, x \in Receiver : p \in ToSet(drained[r]) /\ p \in ToSet(drained[x]) => r = x
  <2>1. \A r \in Receiver : p \in ToSet(drained[r]) => apiMutex = r
    BY DEF MutexInv, ToSet
  <2> QED
    BY <2>1
<1>4. \A r, x \in Receiver : recv[r] = "putback" /\ recv[x] = "putback" => r = x
  BY DEF MutexInv
<1>5. Cardinality({r \in Receiver : Count(drained[r], p) > 0}) = IF p \in Held THEN 1 ELSE 0
  <2>1. CASE p \in Held
    <3>1. PICK r \in Receiver : p \in ToSet(drained[r])
      BY <2>1 DEF Held
    <3>2. {x \in Receiver : Count(drained[x], p) > 0} = {r}
      BY <1>2, <1>3, <3>1
    <3> QED
      BY <2>1, <3>2, FS_Singleton
  <2>2. CASE p \notin Held
    <3>1. {x \in Receiver : Count(drained[x], p) > 0} = {}
      BY <1>2, <2>2 DEF Held
    <3> QED
      BY <2>2, <3>1, FS_EmptySet
  <2> QED
    BY <2>1, <2>2
<1>6. Cardinality({r \in Receiver : recv[r] = "putback" /\ got[r] = p}) = IF p \in Chosen THEN 1 ELSE 0
  <2>1. CASE p \in Chosen
    <3>1. PICK r \in Receiver : recv[r] = "putback" /\ got[r] = p
      BY <2>1 DEF Chosen
    <3>2. {x \in Receiver : recv[x] = "putback" /\ got[x] = p} = {r}
      BY <1>4, <3>1
    <3> QED
      BY <2>1, <3>2, FS_Singleton
  <2>2. CASE p \notin Chosen
    <3>1. {x \in Receiver : recv[x] = "putback" /\ got[x] = p} = {}
      BY <2>2, Constants DEF Chosen
    <3> QED
      BY <2>2, <3>1, FS_EmptySet
  <2> QED
    BY <2>1, <2>2
<1>7. Cardinality({p} \cap dropped) = IF p \in dropped THEN 1 ELSE 0
  <2>1. CASE p \in dropped
    <3>1. {p} \cap dropped = {p}
      BY <2>1
    <3> QED
      BY <2>1, <3>1, FS_Singleton
  <2>2. CASE p \notin dropped
    <3>1. {p} \cap dropped = {}
      BY <2>2
    <3> QED
      BY <2>2, <3>1, FS_EmptySet
  <2> QED
    BY <2>1, <2>2
<1> QED
  BY <1>1, <1>5, <1>6, <1>7

(* Every accepted packet is in exactly one place, for any number of        *)
(* senders and receivers: nothing is lost, and nothing delivered twice.    *)
THEOREM RouterExactlyOnce == Spec => []ExactlyOnce
<1>1. ASSUME RouterInv PROVE ExactlyOnce
  <2> SUFFICES ASSUME NEW p \in Packet PROVE Places(p) = IF Accepted(p) THEN 1 ELSE 0
    BY DEF ExactlyOnce
  <2>1. PlaceInv
    BY <1>1 DEF RouterInv
  <2> QED
    BY <1>1, <2>1, PlacesCounted DEF PlaceInv, Places
<1> QED
  BY <1>1, RouterInductive, PTL

(* recvPacket never returns a packet before an older one of its stream.    *)
THEOREM RouterInOrder == Spec => []InOrder
<1>1. ASSUME RouterInv PROVE InOrder
  <2> SUFFICES ASSUME NEW s \in Src, NEW i \in DOMAIN Stream[s], NEW j \in DOMAIN Stream[s], i < j,
                      TypeOf[Stream[s][i]] = TypeOf[Stream[s][j]],
                      Stream[s][j] \in ToSet(delivered), Accepted(Stream[s][i]),
                      Stream[s][i] \notin dropped \cup ToSet(consumed)
               PROVE  \E m, n \in DOMAIN delivered :
                        m < n /\ delivered[m] = Stream[s][i] /\ delivered[n] = Stream[s][j]
    BY DEF InOrder
  <2> DEFINE p == Stream[s][i]
             q == Stream[s][j]
  <2>1. Older(p, q) /\ p \in Packet /\ q \in Packet
    <3>1. Older(p, q)
      BY DEF Older, Earlier
    <3> QED
      BY <3>1, OlderFacts, Constants
  <2>2. p \in Handed
    BY <1>1, <2>1 DEF RouterInv, PlaceInv, AheadInv, Handed, Taken
  <2>3. PICK m \in DOMAIN delivered, n \in DOMAIN delivered : delivered[m] = p /\ delivered[n] = q
    BY <2>2 DEF Handed, ToSet
  <2>4. m < n
    BY <1>1, <2>1, <2>3 DEF RouterInv, SortedInv, Sorted
  <2> QED
    BY <2>3, <2>4
<1> QED
  BY <1>1, RouterInductive, PTL
=============================================================================
