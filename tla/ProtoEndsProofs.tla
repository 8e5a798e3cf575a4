-------------------------- MODULE ProtoEndsProofs --------------------------
(***************************************************************************)
(* That the browser's end of the protocol is sound, for any number of      *)
(* websockets, messages and packets: what LinkSound says of VXAPI.         *)
(*                                                                         *)
(* VXAPI keeps one _state, one pair of tokens and one _socket for all its  *)
(* websockets.  What ties them together is that, as long as no socket was  *)
(* opened during the handshake of another (crossed), the one that waits is *)
(* _socket, and that an answer that is being read belongs to it.  What     *)
(* becomes of the tokens after such a crossing is left open, as it is by   *)
(* the code; the rest of LinkSound holds then as well.                     *)
(***************************************************************************)
EXTENDS MCProtoEnds, TLAPS

Kind     == {"packet", "authorized", "denied"}
Arriving == [kind : Kind, on : Lnk!Ids, id : Nat]
Number   == 0 .. MaxSockets
Waiting  == [id : Nat, token : Number]
Written  == [id : Nat, token : Number, on : Number]

FieldsOK ==
  /\ state \in 0 .. 4 /\ token \in Number /\ socket \in Number
  /\ timers \in [dial : Nat, drain : Nat]
  /\ sent \in Nat /\ packets \in Nat /\ unread \in BOOLEAN /\ crossed \in BOOLEAN

Wire == [ready : {"none", "dialling", "open", "closing", "closed"},
         peer : {"idle", "asked", "authorized", "denied"}, down : Seq(Arriving)]

\* Messages are under way on an open socket w only, the answer to the handshake
\* before all packets.
WireOK(w, s) ==
  /\ w.ready # "open" \/ w.peer = "asked" => w.down = <<>>
  /\ \A i \in 1 .. Len(w.down) : w.down[i].on = s /\ (w.down[i].kind # "packet" => i = 1)

SocketsOK ==
  sockets \in [Lnk!Ids -> Wire] /\ \A s \in Lnk!Ids : WireOK(sockets[s], s)

\* Every message of those written, w, and those that wait, q, has an id of its
\* own among the first n.
Once(w, q, n) ==
  /\ q \in Seq(Waiting) /\ w \in Seq(Written)
  /\ \A i \in 1 .. Len(q) : q[i].id \in 1 .. n
  /\ \A i \in 1 .. Len(w) : w[i].id \in 1 .. n
  /\ \A i, j \in 1 .. Len(q) : i # j => q[i].id # q[j].id
  /\ \A i, j \in 1 .. Len(w) : i # j => w[i].id # w[j].id
  /\ \A i \in 1 .. Len(w), j \in 1 .. Len(q) : w[i].id # q[j].id

MessagesOK == Once(wrote, queue, sent)

\* Only _socket waits for the answer to its handshake, and none once _state is 2:
\* then the tokens are those of _socket.
SessionOK ==
  crossed \/ /\ \A s \in Lnk!Ids : Lnk!Handshakes(s) => s = socket /\ state # 2
             /\ state = 2 => token = socket

\* What is read as an answer came in on _socket and was the only one; what is
\* read as a packet is one.
ReadsOK ==
  /\ reads \subseteq [as : {1, 2}, msg : Arriving]
  /\ crossed \/ \A r \in reads :
       /\ r.as = 1 /\ r.msg.kind # "packet" => r.msg.on = socket /\ ~Lnk!Handshakes(r.msg.on)
       /\ r.as = 2 => r.msg.kind = "packet"

OwnOK == crossed \/ \A i \in 1 .. Len(wrote) : wrote[i].token = wrote[i].on

\* Something is on its way for a page that has connected.
ServedOK ==
  /\ queue # <<>> => socket # 0 /\ (state = 2 => timers.drain > 0)
  /\ socket # 0 /\ state \in {0, 1} =>
       timers.dial > 0 \/ unread \/ \E s \in Lnk!Ids : Lnk!Alive(s)

LinkInv ==
  /\ FieldsOK /\ SocketsOK /\ MessagesOK /\ SessionOK /\ ReadsOK /\ Lnk!PacketsOnly
  /\ OwnOK /\ ServedOK

----------------------------------------------------------------------------
(***************************************************************************)
(* What a step disturbs.                                                   *)
(***************************************************************************)
\* The parts of LinkInv, by the variables they speak of.
LEMMA LinkFrames ==
  ASSUME LinkInv
  PROVE  /\ UNCHANGED sockets => SocketsOK'
         /\ UNCHANGED <<queue, wrote, sent>> => MessagesOK'
         /\ UNCHANGED <<crossed, handled>> => Lnk!PacketsOnly'
         /\ UNCHANGED <<crossed, wrote>> => OwnOK'
<1>1. UNCHANGED sockets => SocketsOK'
  BY DEF LinkInv, SocketsOK, WireOK
<1>2. UNCHANGED <<queue, wrote, sent>> => MessagesOK'
  BY DEF LinkInv, MessagesOK
<1>3. UNCHANGED <<crossed, handled>> => Lnk!PacketsOnly'
  BY DEF LinkInv, Lnk!PacketsOnly
<1>4. UNCHANGED <<crossed, wrote>> => OwnOK'
  BY DEF LinkInv, OwnOK
<1>. QED
  BY <1>1, <1>2, <1>3, <1>4

\* No socket asks anew, and _socket stays.
Quieter ==
  /\ UNCHANGED <<crossed, socket>>
  /\ \A s \in Lnk!Ids : Lnk!Handshakes(s)' => Lnk!Handshakes(s)

LEMMA QuietReads ==
  ASSUME LinkInv, Quieter, reads' \subseteq reads
  PROVE  ReadsOK'
BY DEF LinkInv, Quieter, ReadsOK, Arriving, Lnk!Ids

LEMMA QuietSession ==
  ASSUME LinkInv, Quieter, state' # 2 \/ UNCHANGED <<state, token>>
  PROVE  SessionOK'
BY DEF LinkInv, Quieter, SessionOK, Lnk!Ids

LEMMA StillQuiet ==
  ASSUME UNCHANGED <<crossed, socket, sockets>>
  PROVE  Quieter
BY DEF Quieter, Lnk!Handshakes

\* One socket changes.
SocketStep(s) ==
  /\ SocketsOK' /\ sockets'[s] \in Wire
  /\ \A t \in Lnk!Ids \ {s} :
       /\ sockets'[t] = sockets[t]
       /\ Lnk!Handshakes(t)' <=> Lnk!Handshakes(t)
       /\ Lnk!Alive(t)' <=> Lnk!Alive(t)

LEMMA OneSocket ==
  ASSUME SocketsOK, NEW s \in Lnk!Ids, sockets' \in [Lnk!Ids -> Wire],
         \A t \in Lnk!Ids \ {s} : sockets'[t] = sockets[t], WireOK(sockets'[s], s)
  PROVE  SocketStep(s)
<1>1. SocketsOK'
  BY DEF SocketsOK, WireOK
<1>2. \A t \in Lnk!Ids \ {s} :
        /\ Lnk!Handshakes(t)' <=> Lnk!Handshakes(t)
        /\ Lnk!Alive(t)' <=> Lnk!Alive(t)
  BY DEF Lnk!Handshakes, Lnk!Alive
<1>3. sockets'[s] \in Wire
  OBVIOUS
<1>. QED
  BY <1>1, <1>2, <1>3, Zenon DEF SocketStep

LEMMA DialStep ==
  ASSUME SocketsOK, NEW s \in Lnk!Ids, sockets[s].ready = "none", sockets' = Lnk!Dial(s)
  PROVE  /\ SocketStep(s)
         /\ ~Lnk!Handshakes(s)' /\ Lnk!Alive(s)'
<1>1. /\ sockets' \in [Lnk!Ids -> Wire] /\ \A t \in Lnk!Ids \ {s} : sockets'[t] = sockets[t]
      /\ sockets'[s].ready = "dialling" /\ sockets'[s].down = sockets[s].down
  BY DEF Lnk!Dial, SocketsOK, Wire
<1>2. sockets[s].down = <<>>
  BY DEF SocketsOK, WireOK
<1>3. WireOK(sockets'[s], s)
  BY <1>1, <1>2 DEF WireOK
<1>4. ~Lnk!Handshakes(s)' /\ Lnk!Alive(s)'
  BY <1>1 DEF Lnk!Handshakes, Lnk!Alive
<1>. QED
  BY <1>1, <1>3, <1>4, OneSocket

\* A socket is shut, and what is under way on it is dropped.
LEMMA ShutWire ==
  ASSUME SocketsOK, NEW s \in Lnk!Ids, NEW v \in {"closing", "closed"},
         sockets' = [sockets EXCEPT ![s].ready = v, ![s].down = <<>>]
  PROVE  /\ sockets' \in [Lnk!Ids -> Wire]
         /\ \A t \in Lnk!Ids \ {s} : sockets'[t] = sockets[t]
         /\ sockets'[s].ready = v /\ sockets'[s].down = <<>>
<1>1. <<>> \in Seq(Arriving)
  OBVIOUS
<1>2. sockets[s] \in Wire /\ sockets \in [Lnk!Ids -> Wire]
  BY DEF SocketsOK
<1>3. PICK x : x = [sockets EXCEPT ![s].ready = v]
  OBVIOUS
<1>4. /\ x \in [Lnk!Ids -> Wire] /\ x[s].ready = v
      /\ \A t \in Lnk!Ids \ {s} : x[t] = sockets[t]
  BY <1>2, <1>3 DEF Wire
<1>5. sockets' = [x EXCEPT ![s].down = <<>>]
  BY <1>3
<1>6. PICK w : w = [x[s] EXCEPT !.down = <<>>]
  OBVIOUS
<1>7. w \in Wire /\ w.ready = v /\ w.down = <<>>
  BY <1>1, <1>4, <1>6 DEF Wire
<1>8. sockets' = [x EXCEPT ![s] = w]
  BY <1>4, <1>5, <1>6
<1>. QED
  BY <1>4, <1>7, <1>8

----------------------------------------------------------------------------
(***************************************************************************)
(* The queue.                                                              *)
(***************************************************************************)
\* A drain leaves the first half of the queue, and takes the others, the last
\* one first; it always takes one.
LEMMA DrainHalves ==
  ASSUME NEW q \in Seq(Waiting), q # <<>>
  PROVE  \E h \in 0 .. (Len(q) - 1) :
           /\ Lnk!Drained(q) \in Seq(Waiting) /\ Len(Lnk!Drained(q)) = h
           /\ \A i \in 1 .. h : Lnk!Drained(q)[i] = q[i]
           /\ Lnk!Taken(q) \in Seq(Waiting) /\ Len(Lnk!Taken(q)) = Len(q) - h
           /\ \A i \in 1 .. (Len(q) - h) : Lnk!Taken(q)[i] = q[Len(q) + 1 - i]
<1>. DEFINE h == Len(q) \div 2
<1>1. Len(q) \in Nat /\ Len(q) > 0
  OBVIOUS
<1>2. h \in 0 .. (Len(q) - 1)
  BY <1>1
<1>. HIDE DEF h
<1>3. /\ Lnk!Drained(q) \in Seq(Waiting) /\ Len(Lnk!Drained(q)) = h
      /\ \A i \in 1 .. h : Lnk!Drained(q)[i] = q[i]
  <2>1. Lnk!Drained(q) = SubSeq(q, 1, h)
    BY DEF Lnk!Drained, h
  <2>. QED
    BY <1>1, <1>2, <2>1
<1>4. PICK r : r = SubSeq(q, h + 1, Len(q))
  OBVIOUS
<1>5. r \in Seq(Waiting) /\ Len(r) = Len(q) - h /\ \A i \in 1 .. (Len(q) - h) : r[i] = q[h + i]
  BY <1>1, <1>2, <1>4
<1>6. Lnk!Taken(q) = [i \in 1 .. Len(r) |-> r[Len(r) - i + 1]]
  BY <1>4 DEF Lnk!Taken, Lnk!Reverse, h
<1>7. ASSUME NEW i \in 1 .. (Len(q) - h)
      PROVE  Len(r) - i + 1 \in 1 .. (Len(q) - h) /\ r[Len(r) - i + 1] = q[Len(q) + 1 - i]
  BY <1>1, <1>2, <1>5
<1>8. /\ Lnk!Taken(q) \in Seq(Waiting) /\ Len(Lnk!Taken(q)) = Len(q) - h
      /\ \A i \in 1 .. (Len(q) - h) : Lnk!Taken(q)[i] = q[Len(q) + 1 - i]
  BY <1>1, <1>2, <1>5, <1>6, <1>7
<1>. QED
  BY <1>2, <1>3, <1>8

\* What goes out on socket o of the messages m.
Out(m, o) == [i \in DOMAIN m |-> [id |-> m[i].id, token |-> m[i].token, on |-> o]]

\* y is w followed by what goes out.
GoneOut(w, m, o, y) ==
  /\ y \in Seq(Written) /\ Len(y) = Len(w) + Len(m)
  /\ \A i \in 1 .. Len(w) : y[i] = w[i]
  /\ \A i \in 1 .. Len(m) :
       /\ y[Len(w) + i].id = m[i].id
       /\ y[Len(w) + i].token = m[i].token
       /\ y[Len(w) + i].on = o

LEMMA OutIs ==
  ASSUME NEW w \in Seq(Written), NEW m \in Seq(Waiting), NEW o \in Number
  PROVE  GoneOut(w, m, o, w \o Out(m, o))
<1>1. Len(m) \in Nat /\ DOMAIN m = 1 .. Len(m) /\ Len(w) \in Nat
  OBVIOUS
<1>2. PICK x : x = Out(m, o)
  OBVIOUS
<1>3. ASSUME NEW i \in 1 .. Len(m)
      PROVE  /\ x[i] \in Written
             /\ x[i].id = m[i].id /\ x[i].token = m[i].token /\ x[i].on = o
  <2>1. m[i] \in Waiting
    BY <1>1
  <2>2. x[i] = [id |-> m[i].id, token |-> m[i].token, on |-> o]
    BY <1>1, <1>2 DEF Out
  <2>. QED
    BY <2>1, <2>2 DEF Waiting, Written
<1>4. x \in Seq(Written) /\ Len(x) = Len(m)
  BY <1>1, <1>2, <1>3 DEF Out
<1>5. PICK y : y = w \o x
  OBVIOUS
<1>6. y \in Seq(Written) /\ Len(y) = Len(w) + Len(m)
  <2>1. y \in Seq(Written)
    BY <1>4, <1>5
  <2>2. Len(w \o x) = Len(w) + Len(x)
    BY <1>4
  <2>. QED
    BY <2>1, <2>2, <1>4, <1>5
<1>7. \A i \in 1 .. Len(w) : y[i] = w[i]
  BY <1>1, <1>4, <1>5
<1>8. \A i \in 1 .. Len(m) : y[Len(w) + i] = x[i]
  BY <1>1, <1>4, <1>5
<1>9. GoneOut(w, m, o, y)
  BY <1>3, <1>6, <1>7, <1>8 DEF GoneOut
<1>. QED
  BY <1>2, <1>5, <1>9

\* Of the messages taken from the queue no id changes, and each one gets tok.
LEMMA RelabelledIs ==
  ASSUME NEW m \in Seq(Waiting), NEW tok \in Number
  PROVE  /\ Lnk!Relabelled(m, tok) \in Seq(Waiting) /\ Len(Lnk!Relabelled(m, tok)) = Len(m)
         /\ \A i \in 1 .. Len(m) :
              /\ Lnk!Relabelled(m, tok)[i].id = m[i].id
              /\ Lnk!Relabelled(m, tok)[i].token = tok
<1>1. Len(m) \in Nat /\ DOMAIN m = 1 .. Len(m)
  OBVIOUS
<1>2. PICK x : x = Lnk!Relabelled(m, tok)
  OBVIOUS
<1>3. ASSUME NEW i \in 1 .. Len(m)
      PROVE  x[i] \in Waiting /\ x[i].id = m[i].id /\ x[i].token = tok
  <2>1. m[i] \in Waiting
    BY <1>1
  <2>2. x[i] = [m[i] EXCEPT !.token = tok]
    BY <1>1, <1>2 DEF Lnk!Relabelled
  <2>. QED
    BY <2>1, <2>2 DEF Waiting
<1>4. x \in Seq(Waiting) /\ Len(x) = Len(m)
  BY <1>1, <1>2, <1>3 DEF Lnk!Relabelled
<1>. QED
  BY <1>2, <1>3, <1>4

\* Messages m, of their own ids, go out: all are there once.
LEMMA OutOnce ==
  ASSUME NEW n \in Nat, NEW w, NEW q, Once(w, q, n), NEW m \in Seq(Waiting), NEW o \in Number,
         \A i \in 1 .. Len(m) : m[i].id \in 1 .. n,
         \A i, j \in 1 .. Len(m) : i # j => m[i].id # m[j].id,
         \A i \in 1 .. Len(m), j \in 1 .. Len(w) : m[i].id # w[j].id,
         \A i \in 1 .. Len(m), j \in 1 .. Len(q) : m[i].id # q[j].id
  PROVE  Once(w \o Out(m, o), q, n)
<1>0. w \in Seq(Written) /\ Len(w) \in Nat /\ Len(m) \in Nat /\ Len(q) \in Nat
  BY DEF Once
<1>a. \A i, j \in 1 .. Len(w) : i # j => w[i].id # w[j].id
  BY DEF Once
<1>b. \A i \in 1 .. Len(w), j \in 1 .. Len(q) : w[i].id # q[j].id
  BY DEF Once
<1>1. PICK y : y = w \o Out(m, o)
  OBVIOUS
<1>2. /\ y \in Seq(Written) /\ Len(y) = Len(w) + Len(m)
      /\ \A i \in 1 .. Len(w) : y[i] = w[i]
      /\ \A i \in 1 .. Len(m) : y[Len(w) + i].id = m[i].id
  <2>1. GoneOut(w, m, o, y)
    BY <1>0, <1>1, OutIs
  <2>. QED
    BY <2>1 DEF GoneOut
<1>3. \A i \in 1 .. Len(y) : \/ i \in 1 .. Len(w) /\ y[i].id = w[i].id
                             \/ i - Len(w) \in 1 .. Len(m) /\ y[i].id = m[i - Len(w)].id
  <2>1. ASSUME NEW i \in 1 .. Len(y), i \notin 1 .. Len(w)
        PROVE  i - Len(w) \in 1 .. Len(m) /\ i = Len(w) + (i - Len(w))
    BY <1>0, <1>2, <2>1
  <2>. QED
    BY <1>2, <2>1
<1>4. \A i \in 1 .. Len(y) : y[i].id \in 1 .. n
  BY <1>3 DEF Once
<1>5. \A i, j \in 1 .. Len(y) : i # j => y[i].id # y[j].id
  <2>1. SUFFICES ASSUME NEW i \in 1 .. Len(y), NEW j \in 1 .. Len(y), i # j
                 PROVE  y[i].id # y[j].id
    OBVIOUS
  <2>2. CASE i \in 1 .. Len(w) /\ j \in 1 .. Len(w)
    BY <2>1, <2>2, <1>2, <1>a
  <2>3. CASE i \notin 1 .. Len(w) /\ j \in 1 .. Len(w)
    BY <2>1, <2>3, <1>2, <1>3
  <2>4. CASE i \in 1 .. Len(w) /\ j \notin 1 .. Len(w)
    BY <2>1, <2>4, <1>2, <1>3
  <2>5. CASE i \notin 1 .. Len(w) /\ j \notin 1 .. Len(w)
    <3>1. /\ i - Len(w) \in 1 .. Len(m) /\ y[i].id = m[i - Len(w)].id
          /\ j - Len(w) \in 1 .. Len(m) /\ y[j].id = m[j - Len(w)].id
      BY <2>5, <1>3
    <3>2. i - Len(w) # j - Len(w)
      BY <1>0, <1>2, <2>1
    <3>. QED
      BY <3>1, <3>2
  <2>. QED
    BY <2>2, <2>3, <2>4, <2>5
<1>6. \A i \in 1 .. Len(y), j \in 1 .. Len(q) : y[i].id # q[j].id
  <2>1. SUFFICES ASSUME NEW i \in 1 .. Len(y), NEW j \in 1 .. Len(q)
                 PROVE  y[i].id # q[j].id
    OBVIOUS
  <2>2. CASE i \in 1 .. Len(w)
    BY <2>1, <2>2, <1>2, <1>b
  <2>3. CASE i \notin 1 .. Len(w)
    BY <2>1, <2>3, <1>3
  <2>. QED
    BY <2>2, <2>3
<1>7. Once(y, q, n)
  BY <1>2, <1>4, <1>5, <1>6 DEF Once
<1>. QED
  BY <1>1, <1>7

\* A drain keeps every message once.
DrainedOnce(w, n, d, m, tok, o) ==
  /\ Once(w, d, n) /\ Once(w \o Out(m, o), d, n)
  /\ m \in Seq(Waiting) /\ \A i \in 1 .. Len(m) : m[i].token = tok

LEMMA DrainOnce ==
  ASSUME NEW n \in Nat, NEW w, NEW q, Once(w, q, n), q # <<>>, NEW tok \in Number, NEW o \in Number
  PROVE  DrainedOnce(w, n, Lnk!Drained(q), Lnk!Relabelled(Lnk!Taken(q), tok), tok, o)
<1>0. q \in Seq(Waiting) /\ Len(q) \in Nat
  BY DEF Once
<1>a. /\ \A i \in 1 .. Len(q) : q[i].id \in 1 .. n
      /\ \A i, j \in 1 .. Len(q) : i # j => q[i].id # q[j].id
  BY DEF Once
<1>b. \A i \in 1 .. Len(w), j \in 1 .. Len(q) : w[i].id # q[j].id
  BY DEF Once
<1>1. PICK h \in 0 .. (Len(q) - 1) :
         /\ Lnk!Drained(q) \in Seq(Waiting) /\ Len(Lnk!Drained(q)) = h
         /\ \A i \in 1 .. h : Lnk!Drained(q)[i] = q[i]
         /\ Lnk!Taken(q) \in Seq(Waiting) /\ Len(Lnk!Taken(q)) = Len(q) - h
         /\ \A i \in 1 .. (Len(q) - h) : Lnk!Taken(q)[i] = q[Len(q) + 1 - i]
  BY <1>0, DrainHalves
<1>2. PICK d : d = Lnk!Drained(q)
  OBVIOUS
<1>3. PICK t, m : t = Lnk!Taken(q) /\ m = Lnk!Relabelled(t, tok)
  OBVIOUS
<1>4. /\ m \in Seq(Waiting) /\ Len(m) = Len(q) - h
      /\ \A i \in 1 .. Len(m) : m[i].id = t[i].id /\ m[i].token = tok
  <2>1. t \in Seq(Waiting) /\ Len(t) = Len(q) - h
    BY <1>1, <1>3
  <2>2. /\ m \in Seq(Waiting) /\ Len(m) = Len(t)
        /\ \A i \in 1 .. Len(t) : m[i].id = t[i].id /\ m[i].token = tok
    BY <1>3, <2>1, RelabelledIs
  <2>. QED
    BY <2>1, <2>2
<1>5. \A i \in 1 .. Len(m) : Len(q) + 1 - i \in (h + 1) .. Len(q) /\ Len(q) + 1 - i \in 1 .. Len(q)
  BY <1>0, <1>1, <1>4
<1>6. \A i \in 1 .. Len(m) : m[i].id = q[Len(q) + 1 - i].id
  BY <1>1, <1>3, <1>4
<1>7. d \in Seq(Waiting) /\ Len(d) = h /\ \A i \in 1 .. h : i \in 1 .. Len(q) /\ d[i] = q[i]
  BY <1>0, <1>1, <1>2
<1>8. Once(w, d, n)
  <2>1. /\ \A i \in 1 .. Len(d) : d[i].id \in 1 .. n
        /\ \A i, j \in 1 .. Len(d) : i # j => d[i].id # d[j].id
    BY <1>7, <1>a
  <2>2. \A i \in 1 .. Len(w), j \in 1 .. Len(d) : w[i].id # d[j].id
    BY <1>7, <1>b
  <2>. QED
    BY <1>7, <2>1, <2>2 DEF Once
<1>9. \A i \in 1 .. Len(m) : m[i].id \in 1 .. n
  BY <1>5, <1>6, <1>a
<1>10. \A i, j \in 1 .. Len(m) : i # j => m[i].id # m[j].id
  <2>1. SUFFICES ASSUME NEW i \in 1 .. Len(m), NEW j \in 1 .. Len(m), i # j
                 PROVE  m[i].id # m[j].id
    OBVIOUS
  <2>2. Len(q) + 1 - i # Len(q) + 1 - j
    BY <1>0, <1>1, <1>4, <2>1
  <2>. QED
    BY <1>5, <1>6, <1>a, <2>1, <2>2
<1>11. \A i \in 1 .. Len(m), j \in 1 .. Len(w) : m[i].id # w[j].id
  BY <1>5, <1>6, <1>b
<1>12. \A i \in 1 .. Len(m), j \in 1 .. Len(d) : m[i].id # d[j].id
  <2>1. SUFFICES ASSUME NEW i \in 1 .. Len(m), NEW j \in 1 .. Len(d)
                 PROVE  m[i].id # d[j].id
    OBVIOUS
  <2>2. j \in 1 .. Len(q) /\ d[j] = q[j] /\ j # Len(q) + 1 - i
    BY <1>0, <1>1, <1>5, <1>7, <2>1
  <2>. QED
    BY <1>5, <1>6, <1>a, <2>1, <2>2
<1>13. Once(w \o Out(m, o), d, n)
  BY <1>4, <1>8, <1>9, <1>10, <1>11, <1>12, OutOnce
<1>14. DrainedOnce(w, n, d, m, tok, o)
  BY <1>4, <1>8, <1>13 DEF DrainedOnce
<1>. QED
  BY <1>2, <1>3, <1>14

\* What is written is what was written before, and messages with tok.
Adds(tok) ==
  \A i \in 1 .. Len(wrote') :
    \/ i \in 1 .. Len(wrote) /\ wrote'[i] = wrote[i]
    \/ wrote'[i].token = tok /\ wrote'[i].on = socket

LEMMA WriteAdds ==
  ASSUME wrote \in Seq(Written), NEW m \in Seq(Waiting), socket \in Number, NEW tok, Lnk!Write(m),
         \A i \in 1 .. Len(m) : m[i].token = tok
  PROVE  /\ UNCHANGED wrote \/ wrote' = wrote \o Out(m, socket)
         /\ Adds(tok)
<1>1. UNCHANGED wrote \/ wrote' = wrote \o Out(m, socket)
  BY DEF Lnk!Write, Out
<1>2. CASE UNCHANGED wrote
  BY <1>1, <1>2 DEF Adds
<1>3. CASE wrote' = wrote \o Out(m, socket)
  <2>1. PICK w : w = wrote
    OBVIOUS
  <2>2. PICK y : y = w \o Out(m, socket)
    OBVIOUS
  <2>3. /\ y \in Seq(Written) /\ Len(y) = Len(w) + Len(m)
        /\ \A i \in 1 .. Len(w) : y[i] = w[i]
        /\ \A i \in 1 .. Len(m) : y[Len(w) + i].token = m[i].token /\ y[Len(w) + i].on = socket
    <3>1. GoneOut(w, m, socket, y)
      BY <2>1, <2>2, OutIs
    <3>. QED
      BY <3>1 DEF GoneOut
  <2>4. ASSUME NEW i \in 1 .. Len(y), i \notin 1 .. Len(w)
        PROVE  y[i].token = tok /\ y[i].on = socket
    <3>1. i - Len(w) \in 1 .. Len(m) /\ i = Len(w) + (i - Len(w))
      BY <2>1, <2>3, <2>4
    <3>. QED
      BY <3>1, <2>3
  <2>. QED
    BY <1>1, <1>3, <2>1, <2>2, <2>3, <2>4 DEF Adds
<1>. QED
  BY <1>1, <1>2, <1>3

\* What changedState does: it keeps every message once, and a timer runs for
\* what is left.
Drains(st, tok) ==
  /\ MessagesOK' /\ (UNCHANGED wrote \/ (st = 2 /\ Adds(tok)))
  /\ timers' \in [dial : Nat, drain : Nat] /\ timers'.dial = timers.dial
  /\ queue' # <<>> => queue # <<>> /\ (st = 2 => timers'.drain > 0)

LEMMA changedStateDrains ==
  ASSUME FieldsOK, MessagesOK, NEW st, NEW tok \in Number, NEW waiting \in Nat, UNCHANGED sent,
         Lnk!changedState(st, tok, waiting)
  PROVE  Drains(st, tok)
<1>0. sent \in Nat /\ socket \in Number /\ timers \in [dial : Nat, drain : Nat]
  BY DEF FieldsOK
<1>1. CASE ~(st = 2 /\ queue # <<>>)
  <2>1. UNCHANGED queue /\ UNCHANGED wrote /\ timers' = [timers EXCEPT !.drain = waiting]
    BY <1>1 DEF Lnk!changedState
  <2>2. timers' \in [dial : Nat, drain : Nat] /\ timers'.dial = timers.dial
    BY <1>0, <2>1
  <2>3. MessagesOK'
    BY <2>1 DEF MessagesOK
  <2>4. queue' # <<>> => queue # <<>> /\ (st = 2 => timers'.drain > 0)
    BY <1>1, <2>1
  <2>. QED
    BY <2>1, <2>2, <2>3, <2>4 DEF Drains
<1>2. CASE st = 2 /\ queue # <<>>
  <2>1. /\ queue' = Lnk!Drained(queue) /\ Lnk!Write(Lnk!Relabelled(Lnk!Taken(queue), tok))
        /\ timers' = [timers EXCEPT !.drain = waiting + 1]
    BY <1>2 DEF Lnk!changedState
  <2>2. PICK m : m = Lnk!Relabelled(Lnk!Taken(queue), tok)
    OBVIOUS
  <2>3. PICK d : d = Lnk!Drained(queue)
    OBVIOUS
  <2>4. /\ Once(wrote, d, sent) /\ Once(wrote \o Out(m, socket), d, sent)
        /\ m \in Seq(Waiting) /\ \A i \in 1 .. Len(m) : m[i].token = tok
    <3>1. DrainedOnce(wrote, sent, d, m, tok, socket)
      BY <1>0, <1>2, <2>2, <2>3, DrainOnce DEF MessagesOK
    <3>. QED
      BY <3>1 DEF DrainedOnce
  <2>5. (UNCHANGED wrote \/ wrote' = wrote \o Out(m, socket)) /\ Adds(tok)
    BY <1>0, <2>1, <2>2, <2>4, WriteAdds DEF Once
  <2>6. MessagesOK'
    BY <2>1, <2>3, <2>4, <2>5 DEF MessagesOK
  <2>7. timers' \in [dial : Nat, drain : Nat] /\ timers'.dial = timers.dial /\ timers'.drain > 0
    BY <1>0, <2>1
  <2>. QED
    BY <1>2, <2>5, <2>6, <2>7 DEF Drains
<1>. QED
  BY <1>1, <1>2

----------------------------------------------------------------------------
(***************************************************************************)
(* The steps of the page and of the timers.                                *)
(***************************************************************************)
\* What is written with the tokens of _socket is written with its own.
LEMMA AddsOwn ==
  ASSUME OwnOK, NEW tok, Adds(tok), UNCHANGED crossed, crossed \/ tok = socket
  PROVE  OwnOK'
BY DEF OwnOK, Adds

\* A socket is dialled.
LEMMA DialInv ==
  ASSUME LinkInv, NEW s \in Lnk!Ids, sockets[s].ready = "none", sockets' = Lnk!Dial(s),
         UNCHANGED <<crossed, socket>>
  PROVE  SocketsOK' /\ Quieter /\ Lnk!Alive(s)'
<1>1. SocketStep(s) /\ ~Lnk!Handshakes(s)' /\ Lnk!Alive(s)'
  BY DialStep DEF LinkInv
<1>. QED
  BY <1>1, Zenon DEF SocketStep, Quieter

LEMMA connectInv ==
  ASSUME LinkInv, Lnk!connect
  PROVE  LinkInv'
<1>0. FieldsOK /\ ServedOK
  BY DEF LinkInv
<1>1. /\ sockets' = Lnk!Dial(1) /\ Lnk!Undialled = Lnk!Ids
      /\ UNCHANGED <<state, token, socket, queue, timers, reads, sent, packets, wrote, handled,
                     unread, crossed>>
  BY DEF Lnk!connect
<1>2. 1 \in Lnk!Ids /\ sockets[1].ready = "none"
  BY <1>1, LinkAssumption DEF Lnk!Ids, Lnk!Undialled
<1>3. SocketsOK' /\ Quieter /\ Lnk!Alive(1)'
  BY <1>1, <1>2, DialInv
<1>4. FieldsOK'
  BY <1>0, <1>1 DEF FieldsOK
<1>5. ServedOK'
  BY <1>0, <1>1, <1>2, <1>3 DEF ServedOK
<1>. QED
  BY <1>1, <1>3, <1>4, <1>5, LinkFrames, QuietReads, QuietSession DEF LinkInv

LEMMA dialTimerInv ==
  ASSUME LinkInv, Lnk!dialTimer
  PROVE  LinkInv'
<1>0. FieldsOK /\ ServedOK
  BY DEF LinkInv
<1>1. /\ timers.dial > 0 /\ timers' = [timers EXCEPT !.dial = @ - 1]
      /\ UNCHANGED <<state, token, socket, queue, reads, sent, packets, wrote, handled, unread,
                     crossed>>
  BY DEF Lnk!dialTimer
<1>2. PICK s \in Lnk!Ids : sockets[s].ready = "none" /\ sockets' = Lnk!Dial(s)
  BY DEF Lnk!dialTimer, Lnk!Undialled
<1>3. SocketsOK' /\ Quieter /\ Lnk!Alive(s)'
  BY <1>1, <1>2, DialInv
<1>4. timers' \in [dial : Nat, drain : Nat] /\ timers'.drain = timers.drain
  BY <1>0, <1>1 DEF FieldsOK
<1>5. FieldsOK'
  BY <1>0, <1>1, <1>4 DEF FieldsOK
<1>6. ServedOK'
  BY <1>0, <1>1, <1>2, <1>3, <1>4 DEF ServedOK
<1>. QED
  BY <1>1, <1>3, <1>5, <1>6, LinkFrames, QuietReads, QuietSession DEF LinkInv

\* A page sends: the message goes out, or waits; from state 4 it dials as well.
LEMMA sendInv ==
  ASSUME LinkInv, Lnk!send
  PROVE  LinkInv'
<1>0. FieldsOK /\ ServedOK /\ OwnOK /\ MessagesOK /\ SessionOK
  BY DEF LinkInv
<1>. DEFINE msg == [id |-> sent + 1, token |-> token]
<1>1. /\ socket # 0 /\ sent' = sent + 1
      /\ UNCHANGED <<token, socket, timers, reads, packets, handled, unread, crossed>>
      /\ \/ state = 2 /\ Lnk!Write(<<msg>>) /\ UNCHANGED <<state, sockets, queue>>
         \/ /\ state \notin {2, 4} /\ queue' = Append(queue, msg)
            /\ UNCHANGED <<state, sockets, wrote>>
         \/ /\ state = 4 /\ queue' = Append(queue, msg) /\ state' = 0 /\ UNCHANGED wrote
            /\ \E s \in Lnk!Ids : sockets[s].ready = "none" /\ sockets' = Lnk!Dial(s)
  BY DEF Lnk!send, Lnk!Undialled
<1>2. msg \in Waiting /\ msg.id = sent + 1 /\ msg.token = token /\ sent \in Nat
  BY <1>0 DEF FieldsOK, Waiting
<1>. HIDE DEF msg
<1>3. FieldsOK'
  BY <1>0, <1>1 DEF FieldsOK
<1>4. CASE state = 2 /\ Lnk!Write(<<msg>>) /\ UNCHANGED <<state, sockets, queue>>
  <2>1. PICK m : m = <<msg>>
    OBVIOUS
  <2>2. /\ m \in Seq(Waiting) /\ Len(m) = 1 /\ m[1] = msg
        /\ \A i \in 1 .. Len(m) : i = 1 /\ m[i].id = sent + 1 /\ m[i].token = token
    BY <1>2, <2>1
  <2>3. wrote \in Seq(Written) /\ Once(wrote, queue, sent)
    BY <1>0 DEF MessagesOK, Once
  <2>4. (UNCHANGED wrote \/ wrote' = wrote \o Out(m, socket)) /\ Adds(token)
    BY <1>0, <1>4, <2>1, <2>2, <2>3, WriteAdds DEF FieldsOK
  <2>5. Once(wrote, queue, sent + 1)
    BY <1>2, <2>3 DEF Once
  <2>6. Once(wrote \o Out(m, socket), queue, sent + 1)
    <3>1. \A i \in 1 .. Len(m), j \in 1 .. Len(wrote) : m[i].id # wrote[j].id
      BY <1>2, <2>2, <2>3 DEF Once
    <3>2. \A i \in 1 .. Len(m), j \in 1 .. Len(queue) : m[i].id # queue[j].id
      BY <1>2, <2>2, <2>3 DEF Once
    <3>3. /\ \A i \in 1 .. Len(m) : m[i].id \in 1 .. (sent + 1)
          /\ \A i, j \in 1 .. Len(m) : i # j => m[i].id # m[j].id
      BY <1>2, <2>2
    <3>4. sent + 1 \in Nat /\ socket \in Number
      BY <1>0 DEF FieldsOK
    <3>. QED
      BY <2>2, <2>5, <3>1, <3>2, <3>3, <3>4, OutOnce
  <2>7. MessagesOK'
    BY <1>1, <1>4, <2>4, <2>5, <2>6 DEF MessagesOK
  <2>8. OwnOK'
    BY <1>0, <1>1, <1>4, <2>4, AddsOwn DEF SessionOK
  <2>9. ServedOK'
    BY <1>0, <1>1, <1>4 DEF ServedOK, Lnk!Alive
  <2>10. Quieter
    BY <1>1, <1>4, StillQuiet
  <2>. QED
    BY <1>1, <1>3, <1>4, <2>7, <2>8, <2>9, <2>10, LinkFrames, QuietReads, QuietSession
       DEF LinkInv
<1>5. CASE queue' = Append(queue, msg) /\ UNCHANGED wrote
  <2>1. PICK q, r : q = queue /\ r = queue'
    OBVIOUS
  <2>2. Once(wrote, q, sent)
    BY <1>0, <2>1 DEF MessagesOK
  <2>3. /\ r \in Seq(Waiting) /\ Len(r) = Len(q) + 1 /\ Len(q) \in Nat
        /\ \A i \in 1 .. Len(q) : r[i] = q[i]
        /\ r[Len(q) + 1] = msg
    BY <1>2, <1>5, <2>1, <2>2 DEF Once
  <2>4. \A i \in 1 .. Len(r) : \/ i \in 1 .. Len(q) /\ r[i].id = q[i].id
                               \/ i = Len(q) + 1 /\ r[i].id = sent + 1
    BY <1>2, <2>3
  <2>5. \A i \in 1 .. Len(r) : r[i].id \in 1 .. (sent + 1)
    BY <1>2, <2>2, <2>4 DEF Once
  <2>6. \A i, j \in 1 .. Len(r) : i # j => r[i].id # r[j].id
    BY <1>2, <2>2, <2>3, <2>4 DEF Once
  <2>7. \A i \in 1 .. Len(wrote), j \in 1 .. Len(r) : wrote[i].id # r[j].id
    BY <1>2, <2>2, <2>3, <2>4 DEF Once
  <2>8. Once(wrote, r, sent + 1)
    BY <1>2, <2>2, <2>3, <2>5, <2>6, <2>7 DEF Once
  <2>9. MessagesOK'
    BY <1>1, <1>5, <2>1, <2>8 DEF MessagesOK
  <2>10. CASE state \notin {2, 4} /\ UNCHANGED <<state, sockets>>
    <3>1. ServedOK'
      BY <1>0, <1>1, <2>10 DEF ServedOK, Lnk!Alive
    <3>2. Quieter
      BY <1>1, <2>10, StillQuiet
    <3>. QED
      BY <1>1, <1>3, <1>5, <2>9, <2>10, <3>1, <3>2, LinkFrames, QuietReads, QuietSession
         DEF LinkInv
  <2>11. ASSUME NEW s \in Lnk!Ids, state' = 0, sockets[s].ready = "none", sockets' = Lnk!Dial(s)
         PROVE  LinkInv'
    <3>1. SocketsOK' /\ Quieter /\ Lnk!Alive(s)'
      BY <1>1, <2>11, DialInv
    <3>2. ServedOK'
      BY <1>0, <1>1, <2>11, <3>1 DEF ServedOK
    <3>. QED
      BY <1>1, <1>3, <1>5, <2>9, <2>11, <3>1, <3>2, LinkFrames, QuietReads, QuietSession
         DEF LinkInv
  <2>. QED
    BY <1>1, <1>5, <2>10, <2>11
<1>. QED
  BY <1>1, <1>4, <1>5

LEMMA drainTimerInv ==
  ASSUME LinkInv, Lnk!drainTimer
  PROVE  LinkInv'
<1>0. FieldsOK /\ ServedOK /\ OwnOK /\ MessagesOK /\ SessionOK
  BY DEF LinkInv
<1>1. /\ timers.drain > 0 /\ Lnk!changedState(state, token, timers.drain - 1)
      /\ UNCHANGED <<state, token, socket, sockets, reads, sent, packets, handled, unread, crossed>>
  BY DEF Lnk!drainTimer
<1>2. timers.drain - 1 \in Nat /\ token \in Number
  BY <1>0, <1>1 DEF FieldsOK
<1>3. Drains(state, token)
  BY <1>0, <1>1, <1>2, changedStateDrains
<1>4. FieldsOK'
  BY <1>0, <1>1, <1>3 DEF FieldsOK, Drains
<1>5. OwnOK'
  BY <1>0, <1>1, <1>3, AddsOwn, LinkFrames DEF Drains, SessionOK
<1>6. ServedOK'
  BY <1>0, <1>1, <1>3 DEF ServedOK, Drains, Lnk!Alive
<1>7. Quieter /\ MessagesOK'
  BY <1>1, <1>3, StillQuiet DEF Drains
<1>. QED
  BY <1>1, <1>4, <1>5, <1>6, <1>7, LinkFrames, QuietReads, QuietSession DEF LinkInv

LEMMA closeInv ==
  ASSUME LinkInv, Lnk!close
  PROVE  LinkInv'
<1>0. FieldsOK /\ SocketsOK /\ ServedOK
  BY DEF LinkInv
<1>1. /\ socket # 0 /\ state' = 3
      /\ sockets' = IF sockets[socket].ready = "open"
                    THEN [sockets EXCEPT ![socket].ready = "closing", ![socket].down = <<>>]
                    ELSE sockets
      /\ UNCHANGED <<token, socket, queue, timers, reads, sent, packets, wrote, handled, unread,
                     crossed>>
  BY DEF Lnk!close
<1>2. socket \in Lnk!Ids
  BY <1>0, <1>1, LinkAssumption DEF FieldsOK, Number, Lnk!Ids
<1>3. SocketsOK' /\ Quieter
  <2>1. CASE UNCHANGED sockets
    BY <1>1, <2>1, LinkFrames, StillQuiet
  <2>2. CASE sockets' = [sockets EXCEPT ![socket].ready = "closing", ![socket].down = <<>>]
    <3>1. /\ sockets' \in [Lnk!Ids -> Wire]
          /\ \A t \in Lnk!Ids \ {socket} : sockets'[t] = sockets[t]
          /\ sockets'[socket].ready = "closing" /\ sockets'[socket].down = <<>>
      BY <1>0, <1>2, <2>2, ShutWire
    <3>2. WireOK(sockets'[socket], socket)
      BY <3>1 DEF WireOK
    <3>3. SocketStep(socket)
      BY <1>0, <1>2, <3>1, <3>2, OneSocket
    <3>4. ~Lnk!Handshakes(socket)'
      BY <1>1, <3>1 DEF Lnk!Handshakes
    <3>. QED
      BY <1>1, <3>3, <3>4 DEF SocketStep, Quieter
  <2>. QED
    BY <1>1, <2>1, <2>2
<1>4. FieldsOK'
  BY <1>0, <1>1 DEF FieldsOK
<1>5. ServedOK'
  BY <1>0, <1>1 DEF ServedOK
<1>. QED
  BY <1>1, <1>3, <1>4, <1>5, LinkFrames, QuietReads, QuietSession DEF LinkInv

----------------------------------------------------------------------------
(***************************************************************************)
(* The events of the sockets.                                              *)
(***************************************************************************)
\* A socket opens and asks: unless the handshake of another one is not over, it is
\* alone, and nothing is read but packets.
LEMMA onopenInv ==
  ASSUME LinkInv, NEW s \in Lnk!Ids, Lnk!onopen(s)
  PROVE  LinkInv'
<1>0. FieldsOK /\ SocketsOK /\ ServedOK /\ OwnOK /\ Lnk!PacketsOnly
  BY DEF LinkInv
<1>1. /\ sockets[s].ready = "dialling" /\ socket' = s /\ state' = 1
      /\ sockets' = [sockets EXCEPT ![s].ready = "open", ![s].peer = "asked"]
      /\ crossed' = (crossed \/ Lnk!AnswerRead \/ \E t \in Lnk!Ids \ {s} : Lnk!Handshakes(t))
      /\ UNCHANGED <<token, queue, timers, reads, sent, packets, wrote, handled, unread>>
  BY DEF Lnk!onopen
<1>2. /\ sockets' \in [Lnk!Ids -> Wire]
      /\ \A t \in Lnk!Ids \ {s} : sockets'[t] = sockets[t]
      /\ sockets'[s].ready = "open" /\ sockets'[s].down = sockets[s].down
  BY <1>0, <1>1 DEF SocketsOK, Wire
<1>3. WireOK(sockets'[s], s)
  BY <1>0, <1>1, <1>2 DEF SocketsOK, WireOK
<1>4. SocketStep(s)
  BY <1>0, <1>2, <1>3, OneSocket
<1>5. FieldsOK'
  <2>1. s \in Number
    BY LinkAssumption DEF Number, Lnk!Ids
  <2>2. crossed' \in BOOLEAN
    BY <1>1, Zenon
  <2>. QED
    BY <1>0, <1>1, <2>1, <2>2 DEF FieldsOK
<1>6. SessionOK'
  <2>1. crossed' \/ \A t \in Lnk!Ids \ {s} : ~Lnk!Handshakes(t)
    BY <1>1, Zenon
  <2>2. crossed' \/ \A t \in Lnk!Ids : Lnk!Handshakes(t)' => t = s
    BY <1>4, <2>1, Zenon DEF SocketStep
  <2>. QED
    BY <1>1, <2>2 DEF SessionOK
<1>7. ReadsOK' /\ MessagesOK'
  <2>1. crossed' \/ (~crossed /\ \A r \in reads : r.msg.kind = "packet")
    BY <1>1, Zenon DEF Lnk!AnswerRead
  <2>2. reads' \subseteq [as : {1, 2}, msg : Arriving]
    BY <1>1 DEF LinkInv, ReadsOK
  <2>3. MessagesOK'
    BY <1>1, LinkFrames
  <2>. QED
    BY <1>1, <2>1, <2>2, <2>3 DEF ReadsOK
<1>8. Lnk!PacketsOnly' /\ OwnOK'
  <2>1. crossed => crossed'
    BY <1>1, Zenon
  <2>. QED
    BY <1>0, <1>1, <2>1 DEF Lnk!PacketsOnly, OwnOK
<1>9. ServedOK'
  <2>1. Lnk!Alive(s)'
    BY <1>2 DEF Lnk!Alive
  <2>2. s # 0
    BY LinkAssumption DEF Lnk!Ids
  <2>. QED
    BY <1>0, <1>1, <2>1, <2>2 DEF ServedOK
<1>. QED
  BY <1>4, <1>5, <1>6, <1>7, <1>8, <1>9 DEF LinkInv, SocketStep

LEMMA oncloseInv ==
  ASSUME LinkInv, NEW s \in Lnk!Ids, NEW clean \in BOOLEAN, Lnk!onclose(s, clean)
  PROVE  LinkInv'
<1>0. FieldsOK /\ SocketsOK /\ ServedOK
  BY DEF LinkInv
<1>1. /\ sockets' = [sockets EXCEPT ![s].ready = "closed", ![s].down = <<>>]
      /\ \/ state' = 4 /\ UNCHANGED timers
         \/ timers' = [timers EXCEPT !.dial = @ + 1] /\ UNCHANGED state
      /\ UNCHANGED <<token, socket, queue, reads, sent, packets, wrote, handled, unread, crossed>>
  BY DEF Lnk!onclose
<1>2. /\ sockets' \in [Lnk!Ids -> Wire]
      /\ \A t \in Lnk!Ids \ {s} : sockets'[t] = sockets[t]
      /\ sockets'[s].ready = "closed" /\ sockets'[s].down = <<>>
  BY <1>0, <1>1, ShutWire
<1>3. WireOK(sockets'[s], s)
  BY <1>2 DEF WireOK
<1>4. SocketStep(s) /\ ~Lnk!Handshakes(s)'
  BY <1>0, <1>2, <1>3, OneSocket DEF Lnk!Handshakes
<1>5. Quieter /\ SocketsOK'
  BY <1>1, <1>4, Zenon DEF SocketStep, Quieter
<1>6. \/ state' = 4 /\ UNCHANGED timers
      \/ /\ UNCHANGED state /\ timers' \in [dial : Nat, drain : Nat]
         /\ timers'.dial > 0 /\ timers'.drain = timers.drain
  BY <1>0, <1>1 DEF FieldsOK
<1>7. FieldsOK'
  BY <1>0, <1>1, <1>6 DEF FieldsOK
<1>8. ServedOK'
  BY <1>0, <1>1, <1>6 DEF ServedOK
<1>. QED
  BY <1>1, <1>5, <1>6, <1>7, <1>8, LinkFrames, QuietReads, QuietSession DEF LinkInv

\* A message comes in.  An answer ends the wait of its socket, which is _socket,
\* and _state is not 2.
LEMMA onmessageInv ==
  ASSUME LinkInv, NEW s \in Lnk!Ids, Lnk!onmessage(s)
  PROVE  LinkInv'
<1>0. FieldsOK /\ SocketsOK /\ ServedOK /\ SessionOK /\ ReadsOK
  BY DEF LinkInv
<1>1. /\ sockets[s].down # <<>> /\ sockets' = [sockets EXCEPT ![s].down = Tail(@)]
      /\ reads' = IF state \in {1, 2}
                  THEN reads \cup {[as |-> state, msg |-> Head(sockets[s].down)]} ELSE reads
      /\ UNCHANGED <<state, token, socket, queue, timers, sent, packets, wrote, handled, unread,
                     crossed>>
  BY DEF Lnk!onmessage
<1>2. PICK d, e, m : d = sockets[s].down /\ e = Tail(d) /\ m = Head(d)
  OBVIOUS
<1>3. d \in Seq(Arriving) /\ Len(d) \in Nat /\ Len(d) > 0 /\ m = d[1] /\ m \in Arriving
  BY <1>0, <1>1, <1>2 DEF SocketsOK, Wire
<1>4. e \in Seq(Arriving) /\ Len(e) = Len(d) - 1 /\ \A i \in 1 .. Len(e) : e[i] = d[i + 1]
  BY <1>2, <1>3
<1>5. /\ sockets' \in [Lnk!Ids -> Wire]
      /\ \A t \in Lnk!Ids \ {s} : sockets'[t] = sockets[t]
      /\ sockets'[s].ready = sockets[s].ready /\ sockets'[s].peer = sockets[s].peer
      /\ sockets'[s].down = e
  BY <1>0, <1>1, <1>2, <1>4 DEF SocketsOK, Wire
<1>6. /\ sockets[s].ready = "open" /\ sockets[s].peer # "asked"
      /\ \A i \in 1 .. Len(d) : d[i].on = s /\ (d[i].kind # "packet" => i = 1)
  BY <1>0, <1>1, <1>2 DEF SocketsOK, WireOK
<1>7. \A i \in 1 .. Len(e) : e[i].on = s /\ e[i].kind = "packet"
  BY <1>3, <1>4, <1>6
<1>8. WireOK(sockets'[s], s)
  BY <1>5, <1>6, <1>7 DEF WireOK
<1>9. SocketStep(s)
  BY <1>0, <1>5, <1>8, OneSocket
<1>10. ~Lnk!Handshakes(s)'
  <2>1. DOMAIN e = 1 .. Len(e)
    BY <1>4
  <2>. QED
    BY <1>5, <1>6, <1>7, <2>1 DEF Lnk!Handshakes
<1>11. m.kind # "packet" => Lnk!Handshakes(s)
  <2>1. 1 \in DOMAIN d
    BY <1>3
  <2>. QED
    BY <1>2, <1>3, <1>6, <2>1 DEF Lnk!Handshakes
<1>12. Quieter /\ SocketsOK'
  BY <1>1, <1>9, <1>10, Zenon DEF SocketStep, Quieter
<1>13. ReadsOK'
  <2>1. CASE reads' = reads
    BY <1>12, <2>1, QuietReads
  <2>2. CASE state \in {1, 2} /\ reads' = reads \cup {[as |-> state, msg |-> m]}
    <3>1. PICK r : r = [as |-> state, msg |-> m]
      OBVIOUS
    <3>2. r \in [as : {1, 2}, msg : Arriving] /\ r.as = state /\ r.msg = m
      BY <1>3, <2>2, <3>1
    <3>3. m.on = s
      BY <1>3, <1>6
    <3>4. crossed \/ (m.kind # "packet" => s = socket /\ state # 2)
      BY <1>0, <1>11 DEF SessionOK
    <3>5. \A t \in Lnk!Ids : Lnk!Handshakes(t)' => Lnk!Handshakes(t)
      BY <1>12 DEF Quieter
    <3>6. \A x \in reads : x.msg.on \in Lnk!Ids
      BY <1>0 DEF ReadsOK, Arriving
    <3>7. crossed \/ \A x \in reads :
            /\ x.as = 1 /\ x.msg.kind # "packet" =>
                 x.msg.on = socket /\ ~Lnk!Handshakes(x.msg.on)'
            /\ x.as = 2 => x.msg.kind = "packet"
      BY <1>0, <3>5, <3>6 DEF ReadsOK
    <3>8. crossed \/ /\ r.as = 1 /\ r.msg.kind # "packet" =>
                          r.msg.on = socket /\ ~Lnk!Handshakes(r.msg.on)'
                     /\ r.as = 2 => r.msg.kind = "packet"
      BY <1>10, <3>2, <3>3, <3>4
    <3>. QED
      BY <1>0, <1>1, <2>2, <3>1, <3>2, <3>7, <3>8 DEF ReadsOK
  <2>. QED
    BY <1>1, <1>2, <2>1, <2>2
<1>14. FieldsOK'
  BY <1>0, <1>1 DEF FieldsOK
<1>15. ServedOK'
  <2>1. \A t \in Lnk!Ids : Lnk!Alive(t) => Lnk!Alive(t)'
    BY <1>5 DEF Lnk!Alive
  <2>. QED
    BY <1>0, <1>1, <2>1 DEF ServedOK
<1>. QED
  BY <1>1, <1>12, <1>13, <1>14, <1>15, LinkFrames, QuietSession DEF LinkInv

\* The answer to the handshake is read: it is that of _socket.
LEMMA onloadResponseInv ==
  ASSUME LinkInv, NEW r \in reads, Lnk!onloadResponse(r)
  PROVE  LinkInv'
<1>0. FieldsOK /\ SocketsOK /\ ServedOK /\ SessionOK /\ ReadsOK /\ MessagesOK /\ OwnOK
  BY DEF LinkInv
<1>1. /\ r.as = 1 /\ reads' = reads \ {r}
      /\ UNCHANGED <<socket, sockets, sent, packets, handled, unread, crossed>>
      /\ \/ /\ r.msg.kind = "authorized" /\ token' = r.msg.on /\ state' = 2
            /\ Lnk!changedState(2, r.msg.on, timers.drain)
         \/ state' = 4 /\ UNCHANGED <<token, queue, timers, wrote>>
         \/ UNCHANGED <<state, token, queue, timers, wrote>>
  BY DEF Lnk!onloadResponse
<1>2. Quieter
  BY <1>1, StillQuiet
<1>3. SocketsOK' /\ ReadsOK' /\ Lnk!PacketsOnly'
  BY <1>1, <1>2, LinkFrames, QuietReads
<1>4. CASE /\ r.msg.kind = "authorized" /\ token' = r.msg.on /\ state' = 2
           /\ Lnk!changedState(2, r.msg.on, timers.drain)
  <2>1. r.msg.on \in Lnk!Ids /\ r.msg.on \in Number /\ r.msg.on # 0
    BY <1>0, LinkAssumption DEF ReadsOK, Arriving, Lnk!Ids, Number
  <2>2. timers.drain \in Nat
    BY <1>0 DEF FieldsOK
  <2>3. Drains(2, r.msg.on)
    BY <1>0, <1>1, <1>4, <2>1, <2>2, changedStateDrains
  <2>4. crossed \/ (r.msg.on = socket /\ ~Lnk!Handshakes(r.msg.on))
    BY <1>0, <1>1, <1>4 DEF ReadsOK
  <2>5. FieldsOK'
    BY <1>0, <1>1, <1>4, <2>1, <2>3 DEF FieldsOK, Drains
  <2>6. SessionOK'
    <3>1. crossed \/ \A t \in Lnk!Ids : ~Lnk!Handshakes(t)
      BY <1>0, <2>4 DEF SessionOK
    <3>2. crossed \/ \A t \in Lnk!Ids : ~Lnk!Handshakes(t)'
      BY <1>2, <3>1 DEF Quieter
    <3>. QED
      BY <1>1, <1>4, <2>4, <3>2 DEF SessionOK
  <2>7. OwnOK'
    BY <1>0, <1>1, <2>3, <2>4, AddsOwn, LinkFrames DEF Drains
  <2>8. ServedOK'
    BY <1>0, <1>1, <1>4, <2>3 DEF ServedOK, Drains
  <2>. QED
    BY <1>3, <2>3, <2>5, <2>6, <2>7, <2>8 DEF LinkInv, Drains
<1>5. CASE /\ state' = 4 \/ UNCHANGED state
           /\ UNCHANGED <<token, queue, timers, wrote>>
  <2>1. FieldsOK' /\ ServedOK'
    BY <1>0, <1>1, <1>5 DEF FieldsOK, ServedOK, Lnk!Alive
  <2>. QED
    BY <1>1, <1>2, <1>3, <1>5, <2>1, LinkFrames, QuietSession DEF LinkInv
<1>. QED
  BY <1>1, <1>4, <1>5

\* What the page is handed was read as a packet.
LEMMA onloadPacketInv ==
  ASSUME LinkInv, NEW r \in reads, Lnk!onloadPacket(r)
  PROVE  LinkInv'
<1>0. FieldsOK /\ ServedOK /\ ReadsOK /\ Lnk!PacketsOnly
  BY DEF LinkInv
<1>1. /\ r.as = 2 /\ reads' = reads \ {r} /\ handled' = handled \cup {r.msg}
      /\ UNCHANGED <<state, token, socket, sockets, queue, timers, sent, packets, wrote, unread,
                     crossed>>
  BY DEF Lnk!onloadPacket
<1>2. Quieter
  BY <1>1, StillQuiet
<1>3. FieldsOK' /\ ServedOK'
  BY <1>0, <1>1 DEF FieldsOK, ServedOK, Lnk!Alive
<1>4. Lnk!PacketsOnly'
  BY <1>0, <1>1 DEF Lnk!PacketsOnly, ReadsOK
<1>. QED
  BY <1>1, <1>2, <1>3, <1>4, LinkFrames, QuietReads, QuietSession DEF LinkInv

LEMMA onerrorInv ==
  ASSUME LinkInv, NEW r \in reads, Lnk!onerror(r)
  PROVE  LinkInv'
<1>0. FieldsOK /\ ServedOK
  BY DEF LinkInv
<1>1. /\ reads' = reads \ {r} /\ unread' = TRUE /\ (state' = 0 \/ UNCHANGED state)
      /\ UNCHANGED <<token, socket, sockets, queue, timers, sent, packets, wrote, handled, crossed>>
  BY DEF Lnk!onerror
<1>2. Quieter
  BY <1>1, StillQuiet
<1>3. FieldsOK' /\ ServedOK'
  BY <1>0, <1>1 DEF FieldsOK, ServedOK
<1>. QED
  BY <1>1, <1>2, <1>3, LinkFrames, QuietReads, QuietSession DEF LinkInv

----------------------------------------------------------------------------
(***************************************************************************)
(* The server.                                                             *)
(***************************************************************************)
\* A message goes to the browser on an open socket.
LEMMA DownStep ==
  ASSUME SocketsOK, NEW s \in Lnk!Ids, NEW m \in Arriving, m.on = s,
         NEW p \in {"authorized", "denied"}, sockets' \in [Lnk!Ids -> Wire],
         \A t \in Lnk!Ids \ {s} : sockets'[t] = sockets[t],
         sockets[s].ready = "open", sockets'[s].ready = "open", sockets'[s].peer = p,
         sockets'[s].down = Append(sockets[s].down, m),
         m.kind = "packet" \/ sockets[s].peer = "asked"
  PROVE  /\ SocketStep(s)
         /\ Lnk!Handshakes(s)' => Lnk!Handshakes(s)
         /\ Lnk!Alive(s)'
<1>1. PICK d, e : d = sockets[s].down /\ e = Append(d, m)
  OBVIOUS
<1>2. d \in Seq(Arriving) /\ sockets'[s].down = e
  BY <1>1 DEF SocketsOK, Wire
<1>3. /\ e \in Seq(Arriving) /\ Len(e) = Len(d) + 1 /\ Len(d) \in Nat
      /\ \A i \in 1 .. Len(d) : e[i] = d[i]
      /\ e[Len(d) + 1] = m /\ DOMAIN e = 1 .. Len(e) /\ DOMAIN d = 1 .. Len(d)
  BY <1>1, <1>2
<1>4. \A i \in 1 .. Len(d) : d[i].on = s /\ (d[i].kind # "packet" => i = 1)
  BY <1>1 DEF SocketsOK, WireOK
<1>5. m.kind # "packet" => Len(d) = 0
  BY <1>1 DEF SocketsOK, WireOK
<1>6. \A i \in 1 .. Len(e) : e[i].on = s /\ (e[i].kind # "packet" => i = 1)
  BY <1>3, <1>4, <1>5
<1>7. WireOK(sockets'[s], s)
  BY <1>2, <1>6 DEF WireOK
<1>8. Lnk!Handshakes(s)' => Lnk!Handshakes(s)
  BY <1>1, <1>2, <1>3 DEF Lnk!Handshakes
<1>9. Lnk!Alive(s)'
  BY DEF Lnk!Alive
<1>. QED
  BY <1>7, <1>8, <1>9, OneSocket

LEMMA ServerInv ==
  ASSUME LinkInv, NEW s \in Lnk!Ids, packets' \in Nat, SocketStep(s),
         Lnk!Handshakes(s)' => Lnk!Handshakes(s), Lnk!Alive(s)',
         UNCHANGED <<state, token, socket, queue, timers, reads, sent, wrote, handled, unread,
                     crossed>>
  PROVE  LinkInv'
<1>0. FieldsOK /\ ServedOK
  BY DEF LinkInv
<1>1. Quieter /\ SocketsOK'
  BY Zenon DEF SocketStep, Quieter
<1>2. FieldsOK' /\ ServedOK'
  BY <1>0 DEF FieldsOK, ServedOK
<1>. QED
  BY <1>1, <1>2, LinkFrames, QuietReads, QuietSession DEF LinkInv

LEMMA ServerAnswerInv ==
  ASSUME LinkInv, NEW s \in Lnk!Ids, NEW kind \in {"authorized", "denied"},
         Lnk!ServerAnswer(s, kind)
  PROVE  LinkInv'
<1>0. FieldsOK /\ SocketsOK /\ sockets \in [Lnk!Ids -> Wire]
  BY DEF LinkInv, SocketsOK
<1>1. PICK m : m = [kind |-> kind, on |-> s, id |-> 0]
  OBVIOUS
<1>2. m \in Arriving /\ m.on = s
  BY <1>1 DEF Arriving, Kind
<1>3. /\ sockets[s].ready = "open" /\ sockets[s].peer = "asked"
      /\ sockets' = [sockets EXCEPT ![s].peer = kind, ![s].down = Append(@, m)]
      /\ UNCHANGED <<state, token, socket, queue, timers, reads, sent, packets, wrote, handled,
                     unread, crossed>>
  BY <1>1 DEF Lnk!ServerAnswer
<1>4. /\ sockets' \in [Lnk!Ids -> Wire] /\ \A t \in Lnk!Ids \ {s} : sockets'[t] = sockets[t]
      /\ sockets'[s].ready = "open" /\ sockets'[s].peer = kind
      /\ sockets'[s].down = Append(sockets[s].down, m)
  <2>1. PICK x : x = [sockets EXCEPT ![s].peer = kind]
    OBVIOUS
  <2>2. /\ x \in [Lnk!Ids -> Wire] /\ x[s].peer = kind /\ x[s].ready = "open"
        /\ x[s].down = sockets[s].down /\ \A t \in Lnk!Ids \ {s} : x[t] = sockets[t]
    BY <1>0, <1>3, <2>1 DEF Wire
  <2>3. sockets' = [x EXCEPT ![s].down = Append(@, m)]
    BY <1>3, <2>1
  <2>4. Append(x[s].down, m) \in Seq(Arriving)
    BY <1>2, <2>2 DEF Wire
  <2>5. PICK w : w = [x[s] EXCEPT !.down = Append(@, m)]
    OBVIOUS
  <2>6. w \in Wire /\ w.ready = "open" /\ w.peer = kind /\ w.down = Append(x[s].down, m)
    BY <2>2, <2>4, <2>5 DEF Wire
  <2>7. sockets' = [x EXCEPT ![s] = w]
    BY <2>2, <2>3, <2>5
  <2>. QED
    BY <2>2, <2>6, <2>7
<1>5. SocketStep(s) /\ (Lnk!Handshakes(s)' => Lnk!Handshakes(s)) /\ Lnk!Alive(s)'
  BY <1>0, <1>2, <1>3, <1>4, DownStep
<1>. QED
  BY <1>0, <1>3, <1>5, ServerInv DEF FieldsOK

LEMMA ServerPacketInv ==
  ASSUME LinkInv, NEW s \in Lnk!Ids, Lnk!ServerPacket(s)
  PROVE  LinkInv'
<1>0. FieldsOK /\ SocketsOK /\ sockets \in [Lnk!Ids -> Wire]
  BY DEF LinkInv, SocketsOK
<1>1. PICK m : m = [kind |-> "packet", on |-> s, id |-> packets + 1]
  OBVIOUS
<1>2. m \in Arriving /\ m.on = s /\ m.kind = "packet"
  BY <1>0, <1>1 DEF Arriving, Kind, FieldsOK
<1>3. /\ sockets[s].ready = "open" /\ sockets[s].peer = "authorized" /\ packets' = packets + 1
      /\ sockets' = [sockets EXCEPT ![s].down = Append(@, m)]
      /\ UNCHANGED <<state, token, socket, queue, timers, reads, sent, wrote, handled, unread,
                     crossed>>
  BY <1>1 DEF Lnk!ServerPacket
<1>4. /\ sockets' \in [Lnk!Ids -> Wire] /\ \A t \in Lnk!Ids \ {s} : sockets'[t] = sockets[t]
      /\ sockets'[s].ready = "open" /\ sockets'[s].peer = "authorized"
      /\ sockets'[s].down = Append(sockets[s].down, m)
  <2>1. Append(sockets[s].down, m) \in Seq(Arriving)
    BY <1>0, <1>2 DEF Wire
  <2>2. PICK w : w = [sockets[s] EXCEPT !.down = Append(@, m)]
    OBVIOUS
  <2>3. /\ w \in Wire /\ w.ready = "open" /\ w.peer = "authorized"
        /\ w.down = Append(sockets[s].down, m)
    BY <1>0, <1>3, <2>1, <2>2 DEF Wire
  <2>4. sockets' = [sockets EXCEPT ![s] = w]
    BY <1>0, <1>3, <2>2
  <2>. QED
    BY <1>0, <2>3, <2>4
<1>5. SocketStep(s) /\ (Lnk!Handshakes(s)' => Lnk!Handshakes(s)) /\ Lnk!Alive(s)'
  BY <1>0, <1>2, <1>3, <1>4, DownStep
<1>6. packets' \in Nat
  BY <1>0, <1>3 DEF FieldsOK
<1>. QED
  BY <1>3, <1>5, <1>6, ServerInv

----------------------------------------------------------------------------
LEMMA LinkInit ==
  ASSUME Lnk!Init
  PROVE  LinkInv
<1>1. /\ state = 0 /\ token = 0 /\ socket = 0 /\ sockets = [s \in Lnk!Ids |-> Lnk!NoSocket]
      /\ queue = <<>> /\ timers = [dial |-> 0, drain |-> 0] /\ reads = {}
      /\ sent = 0 /\ packets = 0 /\ wrote = <<>> /\ handled = {} /\ unread = FALSE
      /\ crossed = FALSE
  BY DEF Lnk!Init
<1>2. FieldsOK
  <2>1. 0 \in Number
    BY LinkAssumption DEF Number
  <2>2. timers \in [dial : Nat, drain : Nat]
    BY <1>1
  <2>3. state \in 0 .. 4 /\ sent \in Nat /\ packets \in Nat
    BY <1>1
  <2>4. unread \in BOOLEAN /\ crossed \in BOOLEAN
    BY <1>1
  <2>5. token \in Number /\ socket \in Number
    BY <1>1, <2>1
  <2>. QED
    BY <2>2, <2>3, <2>4, <2>5 DEF FieldsOK
<1>3. <<>> \in Seq(Arriving) /\ <<>> \in Seq(Waiting) /\ <<>> \in Seq(Written) /\ Len(<<>>) = 0
  OBVIOUS
<1>4. PICK w : w = Lnk!NoSocket
  OBVIOUS
<1>5. w \in Wire /\ w.ready = "none" /\ w.down = <<>>
  BY <1>3, <1>4 DEF Wire, Lnk!NoSocket
<1>6. SocketsOK
  BY <1>1, <1>3, <1>4, <1>5 DEF SocketsOK, WireOK
<1>7. MessagesOK
  BY <1>1, <1>3 DEF MessagesOK, Once
<1>8. SessionOK
  BY <1>1, <1>4, <1>5 DEF SessionOK, Lnk!Handshakes
<1>9. ReadsOK /\ Lnk!PacketsOnly /\ ServedOK
  BY <1>1 DEF ReadsOK, Lnk!PacketsOnly, ServedOK
<1>10. OwnOK
  BY <1>1, <1>3 DEF OwnOK
<1>. QED
  BY <1>2, <1>6, <1>7, <1>8, <1>9, <1>10 DEF LinkInv

LEMMA LinkStutter ==
  ASSUME LinkInv, UNCHANGED lnkVars
  PROVE  LinkInv'
<1>1. UNCHANGED <<state, token, socket, sockets, queue, timers, reads, sent, packets, wrote,
                  handled, unread, crossed>>
  BY DEF lnkVars
<1>2. FieldsOK' /\ ServedOK'
  BY <1>1 DEF LinkInv, FieldsOK, ServedOK, Lnk!Alive
<1>3. Quieter
  BY <1>1, StillQuiet
<1>. QED
  BY <1>1, <1>2, <1>3, LinkFrames, QuietReads, QuietSession DEF LinkInv

LEMMA LinkNext ==
  ASSUME LinkInv, Lnk!Next
  PROVE  LinkInv'
<1>1. CASE Lnk!connect \/ Lnk!send \/ Lnk!close \/ Lnk!drainTimer \/ Lnk!dialTimer
  BY <1>1, connectInv, sendInv, closeInv, drainTimerInv, dialTimerInv
<1>2. ASSUME NEW s \in Lnk!Ids,
             \/ Lnk!onopen(s) \/ Lnk!onmessage(s) \/ Lnk!ServerPacket(s)
             \/ \E clean \in BOOLEAN : Lnk!onclose(s, clean)
             \/ \E kind \in {"authorized", "denied"} : Lnk!ServerAnswer(s, kind)
      PROVE  LinkInv'
  BY <1>2, onopenInv, onmessageInv, ServerPacketInv, oncloseInv, ServerAnswerInv
<1>3. ASSUME NEW r \in reads, Lnk!onloadResponse(r) \/ Lnk!onloadPacket(r) \/ Lnk!onerror(r)
      PROVE  LinkInv'
  BY <1>3, onloadResponseInv, onloadPacketInv, onerrorInv
<1>. QED
  BY <1>1, <1>2, <1>3 DEF Lnk!Next

\* Two lists of ids in a row share none.
Apart(c) == \A i, j \in DOMAIN c : i # j => c[i] # c[j]

LEMMA ApartIs ==
  ASSUME NEW a \in Seq(Nat), NEW b \in Seq(Nat), Apart(a), Apart(b),
         \A i \in DOMAIN a, j \in DOMAIN b : a[i] # b[j]
  PROVE  Apart(a \o b)
<1>1. PICK c : c = a \o b
  OBVIOUS
<1>2. /\ Len(a) \in Nat /\ DOMAIN a = 1 .. Len(a)
      /\ Len(b) \in Nat /\ DOMAIN b = 1 .. Len(b)
  OBVIOUS
<1>3. c \in Seq(Nat) /\ Len(c) = Len(a) + Len(b) /\ DOMAIN c = 1 .. Len(c)
  BY <1>1
<1>4. \A i \in 1 .. Len(a) : c[i] = a[i]
  BY <1>1
<1>5. \A i \in 1 .. Len(b) : c[Len(a) + i] = b[i]
  BY <1>1
<1>6. ASSUME NEW i \in DOMAIN c, i \notin DOMAIN a
      PROVE  i - Len(a) \in DOMAIN b /\ c[i] = b[i - Len(a)]
  <2>1. i - Len(a) \in 1 .. Len(b) /\ i = Len(a) + (i - Len(a))
    BY <1>2, <1>3, <1>6
  <2>. QED
    BY <1>2, <1>5, <2>1
<1>7. ASSUME NEW i \in DOMAIN c, NEW j \in DOMAIN c, i # j
      PROVE  c[i] # c[j]
  <2>1. CASE i \in DOMAIN a /\ j \in DOMAIN a
    BY <1>2, <1>4, <1>7, <2>1 DEF Apart
  <2>2. CASE i \in DOMAIN a /\ j \notin DOMAIN a
    BY <1>2, <1>4, <1>6, <2>2
  <2>3. CASE i \notin DOMAIN a /\ j \in DOMAIN a
    BY <1>2, <1>4, <1>6, <2>3
  <2>4. CASE i \notin DOMAIN a /\ j \notin DOMAIN a
    <3>1. i - Len(a) # j - Len(a)
      BY <1>2, <1>3, <1>7
    <3>. QED
      BY <1>6, <2>4, <3>1 DEF Apart
  <2>. QED
    BY <2>1, <2>2, <2>3, <2>4
<1>8. Apart(c)
  BY <1>7 DEF Apart
<1>. QED
  BY <1>1, <1>8

LEMMA OnceMeans ==
  ASSUME NEW w, NEW q, NEW n, Once(w, q, n)
  PROVE  Apart([i \in DOMAIN w |-> w[i].id] \o [i \in DOMAIN q |-> q[i].id])
<1>1. PICK a : a = [i \in DOMAIN w |-> w[i].id]
  OBVIOUS
<1>2. PICK b : b = [i \in DOMAIN q |-> q[i].id]
  OBVIOUS
<1>3. /\ w \in Seq(Written) /\ DOMAIN w = 1 .. Len(w) /\ Len(w) \in Nat
      /\ q \in Seq(Waiting) /\ DOMAIN q = 1 .. Len(q) /\ Len(q) \in Nat
  BY DEF Once
<1>4. a \in Seq(Nat) /\ DOMAIN a = 1 .. Len(w) /\ \A i \in 1 .. Len(w) : a[i] = w[i].id
  <2>1. \A i \in 1 .. Len(w) : w[i] \in Written
    BY <1>3
  <2>2. \A i \in 1 .. Len(w) : w[i].id \in Nat
    BY <2>1 DEF Written
  <2>. QED
    BY <1>1, <1>3, <2>2
<1>5. b \in Seq(Nat) /\ DOMAIN b = 1 .. Len(q) /\ \A i \in 1 .. Len(q) : b[i] = q[i].id
  <2>1. \A i \in 1 .. Len(q) : q[i] \in Waiting
    BY <1>3
  <2>2. \A i \in 1 .. Len(q) : q[i].id \in Nat
    BY <2>1 DEF Waiting
  <2>. QED
    BY <1>2, <1>3, <2>2
<1>6. \A i, j \in 1 .. Len(w) : i # j => w[i].id # w[j].id
  BY DEF Once
<1>7. \A i, j \in 1 .. Len(q) : i # j => q[i].id # q[j].id
  BY DEF Once
<1>8. \A i \in 1 .. Len(w), j \in 1 .. Len(q) : w[i].id # q[j].id
  BY DEF Once
<1>9. Apart(a) /\ Apart(b)
  <2>1. Apart(a)
    BY <1>4, <1>6 DEF Apart
  <2>2. Apart(b)
    BY <1>5, <1>7 DEF Apart
  <2>. QED
    BY <2>1, <2>2
<1>10. \A i \in DOMAIN a, j \in DOMAIN b : a[i] # b[j]
  BY <1>4, <1>5, <1>8
<1>11. Apart(a \o b)
  BY <1>4, <1>5, <1>9, <1>10, ApartIs
<1>. QED
  BY <1>1, <1>2, <1>11

\* The invariant says what LinkSound says.
LEMMA LinkMeans ==
  ASSUME LinkInv
  PROVE  LinkSound
<1>0. FieldsOK /\ SocketsOK /\ MessagesOK /\ ReadsOK /\ OwnOK /\ ServedOK
  BY DEF LinkInv
<1>1. /\ queue \in Seq(Waiting) /\ DOMAIN queue = 1 .. Len(queue) /\ Len(queue) \in Nat
      /\ wrote \in Seq(Written) /\ DOMAIN wrote = 1 .. Len(wrote) /\ Len(wrote) \in Nat
  BY <1>0 DEF MessagesOK, Once
<1>2. Lnk!TypeOK
  <2>1. state \in 0 .. 4 /\ token \in 0 .. MaxSockets /\ socket \in 0 .. MaxSockets
    BY <1>0 DEF FieldsOK, Number
  <2>2. \A s \in Lnk!Ids :
          /\ sockets[s].ready \in {"none", "dialling", "open", "closing", "closed"}
          /\ sockets[s].peer \in {"idle", "asked", "authorized", "denied"}
    BY <1>0 DEF SocketsOK, Wire
  <2>3. \A i \in DOMAIN queue : queue[i].id \in 1 .. sent /\ queue[i].token \in 0 .. MaxSockets
    <3>1. \A i \in DOMAIN queue : queue[i] \in Waiting
      BY <1>1
    <3>2. \A i \in DOMAIN queue : queue[i].id \in 1 .. sent
      BY <1>0, <1>1 DEF MessagesOK, Once
    <3>. QED
      BY <3>1, <3>2 DEF Waiting, Number
  <2>4. timers \in [{"dial", "drain"} -> Nat]
    BY <1>0 DEF FieldsOK
  <2>5. \A r \in reads : r.as \in {1, 2}
    BY <1>0 DEF ReadsOK
  <2>. QED
    BY <2>1, <2>2, <2>3, <2>4, <2>5 DEF Lnk!TypeOK
<1>3. Lnk!WrittenOnce
  <2>1. Once(wrote, queue, sent)
    BY <1>0 DEF MessagesOK
  <2>2. PICK c : c = [i \in DOMAIN wrote |-> wrote[i].id] \o [i \in DOMAIN queue |-> queue[i].id]
    OBVIOUS
  <2>3. Apart(c)
    BY <2>1, <2>2, OnceMeans
  <2>. QED
    BY <2>2, <2>3 DEF Lnk!WrittenOnce, Apart
<1>4. Lnk!TokensOwn /\ Lnk!PacketsOnly
  BY <1>0, <1>1 DEF OwnOK, Lnk!TokensOwn, LinkInv
<1>5. Lnk!QueueServed
  BY <1>0 DEF ServedOK, Lnk!QueueServed
<1>. QED
  BY <1>2, <1>3, <1>4, <1>5 DEF LinkSound

----------------------------------------------------------------------------
\* For any number of sockets, messages and packets: ids are never shared, only
\* _socket waits for its handshake unless sockets have crossed, and something is
\* on its way for what waits (VXAPI).
THEOREM LinkInductive == Lnk!Spec => []LinkInv
<1>1. Lnk!Init => LinkInv
  BY LinkInit
<1>2. LinkInv /\ [Lnk!Next]_Lnk!vars => LinkInv'
  <2>1. UNCHANGED Lnk!vars => UNCHANGED lnkVars
    BY DEF Lnk!vars, lnkVars
  <2>. QED
    BY <2>1, LinkNext, LinkStutter
<1>. QED
  BY <1>1, <1>2, PTL DEF Lnk!Spec

\* A message of the page goes out at most once, under the session it goes out on,
\* the page is handed packets and never the answer to a handshake (both unless
\* a socket was opened during the handshake of another), and a message waits only for
\* something that is on its way; for the link alone, and beside the hub.
THEOREM LinkIsSound ==
  /\ Lnk!Spec => []LinkSound
  /\ EndsSpec => []LinkSound
<1>1. Lnk!Spec => []LinkSound
  BY LinkInductive, LinkMeans, PTL
<1>2. EndsInit => LinkInv
  BY LinkInit DEF EndsInit
<1>3. LinkInv /\ [EndsNext]_allVars => LinkInv'
  <2>1. EndsNext => Lnk!Next \/ UNCHANGED lnkVars
    BY DEF EndsNext, OfHub, OfLink
  <2>2. UNCHANGED allVars => UNCHANGED lnkVars
    BY DEF allVars
  <2>. QED
    BY <2>1, <2>2, LinkNext, LinkStutter
<1>4. EndsSpec => []LinkSound
  BY <1>2, <1>3, LinkMeans, PTL DEF EndsSpec
<1>. QED
  BY <1>1, <1>4
=============================================================================
