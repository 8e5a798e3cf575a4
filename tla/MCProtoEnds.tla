---------------------------- MODULE MCProtoEnds ----------------------------
(***************************************************************************)
(* The two ends of the protocol that the repository implements apart from  *)
(* the agent: the hub of the server and the link of the browser, side by   *)
(* side for TLC.  The hub sees of a browser only that it connects, so one  *)
(* of them runs in a behaviour and the other stays as it begins.           *)
(***************************************************************************)
EXTENDS MCVXProto

CONSTANTS MaxSockets, MaxSends, MaxPackets                      \* of BrowserLink

ASSUME LinkAssumption == MaxSockets \in Nat \ {0} /\ MaxSends \in Nat /\ MaxPackets \in Nat

VARIABLES part,                                                 \* the one that runs
          state, token, socket, sockets, queue, timers, reads,  \* of BrowserLink
          sent, packets, wrote, handled, unread, crossed

Lnk == INSTANCE BrowserLink

hubVars == vars
lnkVars == <<state, token, socket, sockets, queue, timers, reads,
             sent, packets, wrote, handled, unread, crossed>>
allVars == <<part, hubVars, lnkVars>>

OfHub(A)  == part = "hub"  /\ A /\ UNCHANGED <<part, lnkVars>>
OfLink(A) == part = "link" /\ A /\ UNCHANGED <<part, hubVars>>

EndsInit == part \in {"hub", "link"} /\ Init /\ Lnk!Init

EndsNext == OfHub(Next) \/ OfLink(Lnk!Next)

\* A timer of the browser that runs goes off.
EndsFairness == WF_allVars(OfLink(Lnk!drainTimer))

EndsSpec == EndsInit /\ [][EndsNext]_allVars /\ EndsFairness

----------------------------------------------------------------------------
\* A message of the page goes out at most once and with the tokens of the session
\* it goes out on, the handlers of the page get packets and never the answer to
\* a handshake (both unless a socket was opened during the handshake of another,
\* which VXAPI does not prevent), and a message waits only for something that is
\* on its way (send, changedState, _msgHandler of VXAPI).
LinkSound ==
    /\ Lnk!TypeOK /\ Lnk!WrittenOnce /\ Lnk!TokensOwn /\ Lnk!PacketsOnly
    /\ Lnk!QueueServed

\* While the link stays connected, its queue runs empty.
QueueDrains == Lnk!QueueDrains
=============================================================================
