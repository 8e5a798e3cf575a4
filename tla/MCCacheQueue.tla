---------------------------- MODULE MCCacheQueue ----------------------------
(***************************************************************************)
(* Two components of the server that share nothing, side by side for TLC:  *)
(* the cache of upgraders and the queue of deferred packets.  One of them  *)
(* runs in a behaviour, chosen at the start; the other stays as it begins, *)
(* where its properties hold.  More keys than tracker slots; more packets  *)
(* than the queue takes, deferred during a pass and between two.           *)
(***************************************************************************)
EXTENDS UpgraderCache

CONSTANTS Packet, Nil, MaxSizePacketQueue                        \* of DeferredQueue

VARIABLES part,                                                  \* the one that runs
          mem, rpqueue, pq, next, up, received, delivered, old, overwritten   \* of DeferredQueue

Que == INSTANCE DeferredQueue

ASSUME QueueAssumption == Que!ParametersOK

cacheVars == vars
queVars   == <<mem, rpqueue, pq, next, up, received, delivered, old, overwritten>>
allVars   == <<part, cacheVars, queVars>>

OfCache(A) == part = "cache" /\ A /\ UNCHANGED <<part, queVars>>
OfQueue(A) == part = "queue" /\ A /\ UNCHANGED <<part, cacheVars>>

PartsInit == part \in {"cache", "queue"} /\ Init /\ Que!Init

PartsNext == OfCache(Next) \/ OfQueue(Que!Next)

\* The fairness of FairSpec of the two, for the part that runs.
PartsFairness ==
    /\ \A k \in Key : WF_allVars(OfCache(Watcher(k)))
    /\ WF_allVars(OfQueue(Que!Swap)) /\ WF_allVars(OfQueue(Que!Retry))
    /\ \A p \in Packet : WF_allVars(OfQueue(Que!Age(p)))

PartsSpec == PartsInit /\ [][PartsNext]_allVars /\ PartsFairness

----------------------------------------------------------------------------
\* Both windows of the deferred queue stay inside their arrays and hold only packets
\* that came in, whatever was written over what; and runRecvPQueue hands no packet
\* over twice, unless a packet deferred during a pass was written over a cell the
\* pass had yet to read (that packet is in both windows then).
QueueSound == Que!TypeOK /\ Que!WindowsFilled /\ Que!HandedOverOnce

\* The slice, its arrays and the goroutine of the deferred queue implement
\* DeferredPackets: a packet stays until it is handed over, outlives its time to
\* live or is pushed out of a full queue, until a packet deferred during a pass is
\* written over an unread cell; from then on packets can be lost, but none that was
\* handed over or lost waits again.
KeepsPromise == Que!KeepsPromise

\* The time to live ends the wait of every deferred packet.
WaitEnds == Que!WaitEnds
=============================================================================
