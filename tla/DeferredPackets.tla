-------------------------- MODULE DeferredPackets --------------------------
(***************************************************************************)
(* What the deferred packet queues of vxproto promise: a packet that       *)
(* cannot be handed over waits, and is then handed over once, or dropped,  *)
(* but only when it has outlived its time to live or when a newer packet   *)
(* finds the queue full.  The promise ends for good when a packet that is  *)
(* deferred during a pass is written over one the pass has yet to read:    *)
(* packets may then be lost at any step.  What is left of it is that no    *)
(* packet goes back: one that was handed over or lost does not wait again. *)
(***************************************************************************)
EXTENDS Naturals, FiniteSets

CONSTANTS Packet, MaxSizePacketQueue

VARIABLES
  fate,         \* Packet -> what has become of it
  old,          \* the packets whose time to live is over
  overwritten   \* has a waiting packet been written over?

Init == fate = [p \in Packet |-> "new"] /\ old = {} /\ overwritten = FALSE

Become(p, from, to) ==
  fate[p] \in from /\ fate' = [fate EXCEPT ![p] = to] /\ UNCHANGED old

HandOver(p) == Become(p, {"new", "waiting"}, "delivered")
Defer(p) == Become(p, {"new"}, "waiting")
Forget(p) == p \in old /\ Become(p, {"waiting"}, "dropped")

(* A packet joins a full queue and pushes out another.                     *)
Evict(p, o) ==
  /\ fate[p] = "new" /\ fate[o] = "waiting"
  /\ Cardinality({x \in Packet : fate[x] = "waiting"}) >= MaxSizePacketQueue
  /\ fate' = [fate EXCEPT ![p] = "waiting", ![o] = "dropped"]
  /\ UNCHANGED old

Age(p) == fate[p] # "new" /\ old' = old \cup {p} /\ UNCHANGED fate

(* What can become of a packet once packets were written over others.      *)
After(f) ==
  CASE f = "new"     -> {"new", "waiting", "delivered"}
    [] f = "waiting" -> {"waiting", "delivered", "dropped"}
    [] OTHER         -> {f}

Overwrite ==
  /\ overwritten'
  /\ \A p \in Packet : fate'[p] \in After(fate[p])
  /\ UNCHANGED old

Kept ==
  \E p \in Packet : \/ HandOver(p) \/ Defer(p) \/ Forget(p) \/ Age(p)
                    \/ \E o \in Packet : Evict(p, o)

Next == (Kept /\ UNCHANGED overwritten) \/ Overwrite

Spec == Init /\ [][Next]_<<fate, old, overwritten>>
=============================================================================
