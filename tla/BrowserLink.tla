---------------------------- MODULE BrowserLink ----------------------------
(***************************************************************************)
(* The browser's end of vxproto: class VXAPI of                            *)
(* libs/features/modules-interactivity/src/lib/utils/proto.js, through     *)
(* which the page of a module talks to the module's part on the server.    *)
(*                                                                         *)
(* Messages sent before the link is up wait in _queue.  The websockets,    *)
(* the server behind them and the FileReader that turns a message into     *)
(* bytes are the environment: a FileReader finishes some time after its    *)
(* message has come in, in no fixed order.  Pings change nothing here.     *)
(***************************************************************************)
EXTENDS Integers, Sequences, FiniteSets, SequencesExt

CONSTANTS MaxSockets,   \* bound: websockets
          MaxSends,     \* bound: messages of the page
          MaxPackets    \* bound: packets of the server

VARIABLES state,     \* _state: 0 init, 1 waits for the answer to the handshake,
                     \* 2 connected, 3 closing, 4 closed
          token,     \* _srcToken and _dstToken: the socket they were given on, 0 if none
          socket,    \* _socket, 0 if null
          sockets,   \* the websockets, by number
          queue,     \* _queue: messages with the tokens they were made with
          timers,    \* timers that run: "dial" connects, "drain" looks at the queue
          reads,     \* FileReaders that have not finished
          sent,      \* history: messages of the page
          packets,   \* history: packets of the server
          wrote,     \* history: what has gone out on a live socket
          handled,   \* history: what was handed to the page's handlers
          unread,    \* history: a FileReader has failed
          crossed    \* history: a socket was opened during the handshake of another

vars == <<state, token, socket, sockets, queue, timers, reads,
          sent, packets, wrote, handled, unread, crossed>>

Ids == 1 .. MaxSockets

(***************************************************************************)
(* A websocket: its readyState, what the server has done with it, and the  *)
(* server's messages under way.                                            *)
(***************************************************************************)
NoSocket   == [ready |-> "none", peer |-> "idle", down |-> <<>>]
Undialled  == {s \in Ids : sockets[s].ready = "none"}
Alive(s)   == sockets[s].ready \in {"dialling", "open", "closing"}

\* The answer to its handshake has not come in; one that has come in may still be
\* with its FileReader.
Handshakes(s) ==
    /\ sockets[s].ready = "open"
    /\ \/ sockets[s].peer = "asked"
       \/ \E i \in DOMAIN sockets[s].down : sockets[s].down[i].kind # "packet"

AnswerRead == \E r \in reads : r.msg.kind # "packet"

Dial(s)    == [sockets EXCEPT ![s].ready = "dialling"]

\* WebSocket.send drops what is sent once the socket closes.
Write(msgs) ==
    wrote' = IF sockets[socket].ready = "open"
             THEN wrote \o [i \in DOMAIN msgs |-> [id |-> msgs[i].id, token |-> msgs[i].token, on |-> socket]]
             ELSE wrote

(***************************************************************************)
(* The page.                                                               *)
(***************************************************************************)
Init ==
    /\ state = 0 /\ token = 0 /\ socket = 0
    /\ sockets = [s \in Ids |-> NoSocket]
    /\ queue = <<>> /\ timers = [dial |-> 0, drain |-> 0] /\ reads = {}
    /\ sent = 0 /\ packets = 0 /\ wrote = <<>> /\ handled = {} /\ unread = FALSE /\ crossed = FALSE

\* The page connects once; it gets the means to send from the promise.
connect ==
    /\ Undialled = Ids
    /\ sockets' = Dial(1)
    /\ UNCHANGED <<state, token, socket, queue, timers, reads, sent, packets, wrote, handled, unread, crossed>>

send ==
    LET msg == [id |-> sent + 1, token |-> token]
    IN /\ socket # 0
       /\ sent < MaxSends
       /\ sent' = sent + 1
       /\ \/ /\ state = 2
             /\ Write(<<msg>>)
             /\ UNCHANGED <<state, sockets, queue>>
          \/ /\ state \notin {2, 4}
             /\ queue' = Append(queue, msg)
             /\ UNCHANGED <<state, sockets, wrote>>
          \/ /\ state = 4
             /\ queue' = Append(queue, msg)
             /\ state' = 0
             /\ \E s \in Undialled : (\A t \in Undialled : s <= t) /\ sockets' = Dial(s)
             /\ UNCHANGED wrote
       /\ UNCHANGED <<token, socket, timers, reads, packets, handled, unread, crossed>>

\* Messages that come in on a closing socket are dropped.
close ==
    /\ socket # 0
    /\ state' = 3
    /\ sockets' = IF sockets[socket].ready = "open"
                  THEN [sockets EXCEPT ![socket].ready = "closing", ![socket].down = <<>>]
                  ELSE sockets
    /\ UNCHANGED <<token, socket, queue, timers, reads, sent, packets, wrote, handled, unread, crossed>>

(***************************************************************************)
(* changedState takes messages from the end of the queue, and the queue    *)
(* shrinks under the loop's bound: one call takes half of it, and a timer  *)
(* comes back for the rest.                                                *)
(***************************************************************************)
\* mutant: the half that stays is rounded up
DrainedLess(q) == SubSeq(q, 1, (Len(q) + 1) \div 2)

Drained(q) == SubSeq(q, 1, Len(q) \div 2)

Taken(q) == Reverse(SubSeq(q, (Len(q) \div 2) + 1, Len(q)))

\* mutant: a message keeps the tokens it was queued with
RelabelledNot(msgs, t) == msgs

Relabelled(msgs, t) == [i \in DOMAIN msgs |-> [msgs[i] EXCEPT !.token = t]]

\* mutant: no timer comes back for the rest
changedStateOnce(st, tok, waiting) ==
    /\ timers' = [timers EXCEPT !.drain = waiting]
    /\ IF st = 2 /\ queue # <<>>
       THEN queue' = Drained(queue) /\ Write(Relabelled(Taken(queue), tok))
       ELSE UNCHANGED <<queue, wrote>>

\* mutant: the loop ends before the last message
changedStateButOne(st, tok, waiting) ==
    IF st = 2 /\ queue # <<>>
    THEN /\ IF Len(queue) > 1
            THEN queue' = Drained(queue) /\ Write(Relabelled(Taken(queue), tok))
            ELSE UNCHANGED <<queue, wrote>>
         /\ timers' = [timers EXCEPT !.drain = waiting + 1]
    ELSE /\ timers' = [timers EXCEPT !.drain = waiting]
         /\ UNCHANGED <<queue, wrote>>

changedState(st, tok, waiting) ==
    IF st = 2 /\ queue # <<>>
    THEN /\ queue' = Drained(queue)
         /\ Write(Relabelled(Taken(queue), tok))
         /\ timers' = [timers EXCEPT !.drain = waiting + 1]
    ELSE /\ timers' = [timers EXCEPT !.drain = waiting]
         /\ UNCHANGED <<queue, wrote>>

\* mutant: changedState may run without its timer
drainAnyTime ==
    /\ changedState(state, token, timers.drain - 1)
    /\ UNCHANGED <<state, token, socket, sockets, reads, sent, packets, handled, unread, crossed>>

drainTimer ==
    /\ timers.drain > 0
    /\ changedState(state, token, timers.drain - 1)
    /\ UNCHANGED <<state, token, socket, sockets, reads, sent, packets, handled, unread, crossed>>

(***************************************************************************)
(* The events of a websocket.                                              *)
(***************************************************************************)
\* onopen, with _handshake.
onopen(s) ==
    /\ sockets[s].ready = "dialling"
    /\ sockets' = [sockets EXCEPT ![s].ready = "open", ![s].peer = "asked"]
    /\ socket' = s
    /\ state' = 1
    /\ crossed' = (crossed \/ AnswerRead \/ \E t \in Ids \ {s} : Handshakes(t))
    /\ UNCHANGED <<token, queue, timers, reads, sent, packets, wrote, handled, unread>>

\* onclose does not ask whether the socket is the one in use.
onclose(s, wasClean) ==
    /\ Alive(s)
    /\ wasClean => sockets[s].ready # "dialling" /\ sockets[s].down = <<>>
    /\ sockets' = [sockets EXCEPT ![s].ready = "closed", ![s].down = <<>>]
    /\ IF wasClean \/ state = 3
       THEN state' = 4 /\ UNCHANGED timers
       ELSE timers' = [timers EXCEPT !.dial = @ + 1] /\ UNCHANGED state
    /\ UNCHANGED <<token, socket, queue, reads, sent, packets, wrote, handled, unread, crossed>>

dialTimer ==
    /\ timers.dial > 0
    /\ timers' = [timers EXCEPT !.dial = @ - 1]
    /\ \E s \in Undialled : (\A t \in Undialled : s <= t) /\ sockets' = Dial(s)
    /\ UNCHANGED <<state, token, socket, queue, reads, sent, packets, wrote, handled, unread, crossed>>

\* mutant: whoever has had tokens is taken for connected
onmessageByTokens(s) ==
    /\ sockets[s].down # <<>>
    /\ sockets' = [sockets EXCEPT ![s].down = Tail(@)]
    /\ LET as == IF state = 1 /\ token # 0 THEN 2 ELSE state
       IN reads' = IF as \in {1, 2} THEN reads \cup {[as |-> as, msg |-> Head(sockets[s].down)]} ELSE reads
    /\ UNCHANGED <<state, token, socket, queue, timers, sent, packets, wrote, handled, unread, crossed>>

\* _msgHandler: the state at this moment decides what the message is taken for.
onmessage(s) ==
    /\ sockets[s].down # <<>>
    /\ sockets' = [sockets EXCEPT ![s].down = Tail(@)]
    /\ reads' = IF state \in {1, 2} THEN reads \cup {[as |-> state, msg |-> Head(sockets[s].down)]} ELSE reads
    /\ UNCHANGED <<state, token, socket, queue, timers, sent, packets, wrote, handled, unread, crossed>>

\* A packet that is decoded as the answer to the handshake is no authorisation,
\* or makes the decoder throw.
onloadResponse(r) ==
    /\ r \in reads
    /\ r.as = 1
    /\ reads' = reads \ {r}
    /\ \/ /\ r.msg.kind = "authorized"
          /\ token' = r.msg.on
          /\ state' = 2
          /\ changedState(2, r.msg.on, timers.drain)
       \/ /\ r.msg.kind # "authorized"
          /\ state' = 4
          /\ UNCHANGED <<token, queue, timers, wrote>>
       \/ /\ r.msg.kind = "packet"
          /\ UNCHANGED <<state, token, queue, timers, wrote>>
    /\ UNCHANGED <<socket, sockets, sent, packets, handled, unread, crossed>>

\* With _userHandlers set for packets of every type.
onloadPacket(r) ==
    /\ r \in reads
    /\ r.as = 2
    /\ reads' = reads \ {r}
    /\ handled' = handled \cup {r.msg}
    /\ UNCHANGED <<state, token, socket, sockets, queue, timers, sent, packets, wrote, unread, crossed>>

onerror(r) ==
    /\ r \in reads
    /\ reads' = reads \ {r}
    /\ unread' = TRUE
    /\ state' = IF r.as = 1 THEN 0 ELSE state
    /\ UNCHANGED <<token, socket, sockets, queue, timers, sent, packets, wrote, handled, crossed>>

(***************************************************************************)
(* The API server (server/proto), which passes on the answer of the        *)
(* server's main module to the handshake, and its packets once that has    *)
(* accepted the browser.  "denied" is an answer with any other status, the *)
(* one that a failed check of the agent's data gives.                      *)
(***************************************************************************)
ServerAnswer(s, kind) ==
    /\ sockets[s].ready = "open"
    /\ sockets[s].peer = "asked"
    /\ sockets' = [sockets EXCEPT ![s].peer = kind, ![s].down = Append(@, [kind |-> kind, on |-> s, id |-> 0])]
    /\ UNCHANGED <<state, token, socket, queue, timers, reads, sent, packets, wrote, handled, unread, crossed>>

ServerPacket(s) ==
    /\ sockets[s].ready = "open"
    /\ sockets[s].peer = "authorized"
    /\ packets < MaxPackets
    /\ packets' = packets + 1
    /\ sockets' = [sockets EXCEPT ![s].down = Append(@, [kind |-> "packet", on |-> s, id |-> packets + 1])]
    /\ UNCHANGED <<state, token, socket, queue, timers, reads, sent, wrote, handled, unread, crossed>>

Next ==
    \/ connect \/ send \/ close \/ drainTimer \/ dialTimer
    \/ \E s \in Ids : \/ onopen(s) \/ onmessage(s) \/ ServerPacket(s)
                      \/ \E clean \in BOOLEAN : onclose(s, clean)
                      \/ \E kind \in {"authorized", "denied"} : ServerAnswer(s, kind)
    \/ \E r \in reads : onloadResponse(r) \/ onloadPacket(r) \/ onerror(r)

\* A timer that runs goes off.
Spec == Init /\ [][Next]_vars /\ WF_vars(drainTimer)

(***************************************************************************)
(* Properties.                                                             *)
(***************************************************************************)
\* The fields of VXAPI hold what the code puts into them.
TypeOK ==
    /\ state \in 0 .. 4
    /\ token \in 0 .. MaxSockets /\ socket \in 0 .. MaxSockets
    /\ \A s \in Ids : /\ sockets[s].ready \in {"none", "dialling", "open", "closing", "closed"}
                      /\ sockets[s].peer \in {"idle", "asked", "authorized", "denied"}
    /\ \A i \in DOMAIN queue : queue[i].id \in 1 .. sent /\ queue[i].token \in 0 .. MaxSockets
    /\ timers \in [{"dial", "drain"} -> Nat]
    /\ \A r \in reads : r.as \in {1, 2}

\* A message goes out at most once: none is written twice, and none that was
\* written still waits in the queue (send and the loop of changedState).
WrittenOnce ==
    LET ids == [i \in DOMAIN wrote |-> wrote[i].id] \o [i \in DOMAIN queue |-> queue[i].id]
    IN \A i, j \in DOMAIN ids : i # j => ids[i] # ids[j]

\* Whatever goes out on a socket carries the tokens of the session of that
\* socket, also when it was queued before, under another session or none: as
\* long as no socket is opened during the handshake of another, before its answer
\* has come in or while that is read.  A timer that dials and a send after state
\* 4 can bring this about, and tokens of one socket then go out on another.
TokensOwn == crossed \/ \A i \in DOMAIN wrote : wrote[i].token = wrote[i].on

\* Only packets reach the handlers of the page, never the answer to a
\* handshake: _msgHandler tells them apart by _state alone, which takes that no
\* socket is opened during the handshake of another.  When one is, its answer can
\* be taken for a packet.
PacketsOnly == crossed \/ \A m \in handled : m.kind = "packet"

\* A message waits only for something that is on its way: a timer for the rest of
\* the queue when connected, a socket or the timer that dials one before that
\* (unless a FileReader has failed).
QueueServed ==
    queue # <<>> => /\ state = 2 => timers.drain > 0
                    /\ state \in {0, 1} => \/ timers.dial > 0
                                           \/ \E s \in Ids : Alive(s)
                                           \/ unread

\* While the link stays connected, the queue runs empty.
QueueDrains == (state = 2 /\ queue # <<>>) ~> (queue = <<>> \/ state # 2)
============================================================================
