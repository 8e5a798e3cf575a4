--------------------------- MODULE VXProtoProofs ---------------------------
(***************************************************************************)
(* The tables of the hub and the main module's queue, for every set of     *)
(* connections, tokens, groups and modules and every channel capacity:     *)
(* the invariant HubInv is inductive.  The lemmas say how the two          *)
(* predicates on a queue fare when a message is appended and when one is   *)
(* taken.                                                                  *)
(***************************************************************************)
EXTENDS VXProto, SequenceTheorems, WellFoundedInduction, TLAPS

(* A set of positions of a sequence that is not empty has a last one.      *)
LEMMA MaxExists ==
  ASSUME NEW n \in Nat, NEW S, S \subseteq 1 .. n, S # {}
  PROVE  \E j \in S : \A k \in S : k <= j
  <1> DEFINE R == OpToRel(<, Nat)
             T == {m \in Nat : n - m \in S}
  <1>1. \A k \in S : k \in Nat /\ n - k \in Nat /\ n - (n - k) = k
    OBVIOUS
  <1>2. T \subseteq Nat /\ T # {}
    BY <1>1
  <1>3. IsWellFoundedOn(R, Nat)
    BY NatLessThanWellFounded
  <1> HIDE DEF R
  <1>4. PICK x \in T : \A y \in T : ~ (<<y, x>> \in R)
    BY <1>2, <1>3, WFMin
  <1>5. \A y \in T : ~ (y < x)
    BY <1>2, <1>4 DEF OpToRel, R
  <1>6. n - x \in S /\ x \in Nat
    OBVIOUS
  <1>7. \A k \in S : n - k \in T
    BY <1>1
  <1>8. \A k \in S : k <= n - x
    <2> TAKE k \in S
    <2>1. ~ (n - k < x) /\ k \in Nat
      BY <1>1, <1>5, <1>7
    <2> QED
      BY <2>1, <1>6
  <1> QED
    BY <1>6, <1>8

(* Appending a message about s that says t makes the module end up         *)
(* believing t.                                                            *)
LEMMA InformedAppend ==
  ASSUME NEW q \in Seq(Message), NEW msg \in Message, NEW s, NEW v, NEW t,
         SrcOf[msg.conn] = s, Says(msg) = t
  PROVE  Informed(Append(q, msg), s, v, t)
  BY DEF Informed, About

(* A message about another source does not matter.                         *)
LEMMA InformedOther ==
  ASSUME NEW q \in Seq(Message), NEW msg \in Message, NEW s, NEW v, NEW t,
         SrcOf[msg.conn] # s, Informed(q, s, v, t)
  PROVE  Informed(Append(q, msg), s, v, t)
  <1> DEFINE r == Append(q, msg)
  <1>1. About(r, s) = About(q, s)
    BY DEF About
  <1>2. \A i \in About(q, s) : r[i] = q[i]
    BY DEF About
  <1> QED
    BY <1>1, <1>2 DEF Informed

(* Taking the first message moves what it says into the list.              *)
LEMMA InformedTake ==
  ASSUME NEW q \in Seq(Message), q # <<>>, NEW s, NEW v, NEW t,
         Informed(q, s, v, t)
  PROVE  Informed(Tail(q), s, IF SrcOf[Head(q).conn] = s THEN Says(Head(q)) ELSE v, t)
  <1> DEFINE r == Tail(q)
             w == IF SrcOf[Head(q).conn] = s THEN Says(Head(q)) ELSE v
  <1>1. /\ r \in Seq(Message) /\ Len(r) = Len(q) - 1 /\ Len(q) \in Nat \ {0}
        /\ \A i \in 1 .. Len(r) : r[i] = q[i + 1]
        /\ Head(q) = q[1]
    OBVIOUS
  <1>2. DOMAIN r = 1 .. Len(r) /\ DOMAIN q = 1 .. Len(q)
    BY <1>1
  <1>3. \A i \in About(r, s) : i \in Nat /\ i + 1 \in About(q, s)
    BY <1>1, <1>2 DEF About
  <1>4. \A i \in About(q, s) : i # 1 => i \in Nat /\ i - 1 \in About(r, s)
    BY <1>1, <1>2 DEF About
  <1>5. ASSUME About(r, s) = {} PROVE w = t
    <2>1. \A i \in About(q, s) : i = 1
      BY <1>4, <1>5
    <2>2. CASE SrcOf[Head(q).conn] = s
      <3>1. 1 \in About(q, s)
        BY <2>2, <1>1, <1>2 DEF About
      <3> QED
        BY <3>1, <2>1, <2>2, <1>1 DEF Informed
    <2>3. CASE SrcOf[Head(q).conn] # s
      <3>1. About(q, s) = {}
        BY <2>1, <2>3, <1>1 DEF About
      <3> QED
        BY <3>1, <2>3 DEF Informed
    <2> QED
      BY <2>2, <2>3
  <1>6. ASSUME NEW i \in About(r, s), \A j \in About(r, s) : j <= i
        PROVE  Says(r[i]) = t
    <2>1. i + 1 \in About(q, s) /\ i \in Nat /\ r[i] = q[i + 1]
      BY <1>1, <1>2, <1>3 DEF About
    <2>2. \A j \in About(q, s) : j <= i + 1
      BY <1>4, <1>6, <2>1
    <2> QED
      BY <2>1, <2>2 DEF Informed
  <1> QED
    BY <1>5, <1>6 DEF Informed

(* A connected message about s may be appended when the module will by     *)
(* then believe that s is gone.                                            *)
LEMMA AlternatingAppend ==
  ASSUME NEW q \in Seq(Message), NEW msg \in Message, NEW s, NEW v,
         SrcOf[msg.conn] = s => msg.kind = "disconnected" \/ Informed(q, s, v, None),
         Alternating(q, s, v), None \notin Group
  PROVE  Alternating(Append(q, msg), s, v)
  <1> DEFINE r == Append(q, msg)
             n == Len(q) + 1
  <1>1. /\ r \in Seq(Message) /\ Len(r) = n /\ n \in Nat
        /\ \A i \in 1 .. Len(q) : r[i] = q[i]
        /\ r[n] = msg
    OBVIOUS
  <1>2. DOMAIN r = 1 .. n /\ DOMAIN q = 1 .. Len(q) /\ Len(q) \in Nat
    BY <1>1
  <1>3. \A i \in About(q, s) : i \in About(r, s) /\ i < n /\ r[i] = q[i] /\ i \in Nat
    BY <1>1, <1>2 DEF About
  <1>4. \A i \in About(r, s) : i \in About(q, s) \/ i = n
    BY <1>1, <1>2 DEF About
  <1> SUFFICES ASSUME NEW i \in About(r, s), r[i].kind = "connected"
               PROVE  \/ (\A j \in About(r, s) : j >= i) /\ v = None
                      \/ \E j \in About(r, s) :
                           /\ j < i /\ r[j].kind = "disconnected"
                           /\ \A k \in About(r, s) : k <= j \/ k >= i
    BY DEF Alternating
  <1>5. CASE i \in About(q, s)
    <2>1. CASE (\A j \in About(q, s) : j >= i) /\ v = None
      BY <2>1, <1>3, <1>4, <1>5, <1>1
    <2>2. CASE \E j \in About(q, s) :
                  /\ j < i /\ q[j].kind = "disconnected"
                  /\ \A k \in About(q, s) : k <= j \/ k >= i
      <3>1. PICK j \in About(q, s) :
                   /\ j < i /\ q[j].kind = "disconnected"
                   /\ \A k \in About(q, s) : k <= j \/ k >= i
        BY <2>2
      <3>2. j \in About(r, s) /\ j < i /\ r[j].kind = "disconnected"
        BY <3>1, <1>3
      <3>3. i < n /\ i \in Nat
        BY <1>3, <1>5
      <3>4. \A k \in About(r, s) : k <= j \/ k >= i
        BY <3>1, <3>3, <1>4, <1>1
      <3> QED
        BY <3>2, <3>4
    <2> QED
      BY <2>1, <2>2, <1>3, <1>5 DEF Alternating
  <1>6. CASE i = n
    <2>1. Informed(q, s, v, None)
      <3>1. r[i] = msg /\ msg.kind # "disconnected"
        BY <1>6, <1>1
      <3>2. SrcOf[r[i].conn] = s
        BY DEF About
      <3> QED
        BY <3>1, <3>2
    <2>2. CASE About(q, s) = {}
      BY <2>1, <2>2, <1>4, <1>6, <1>1 DEF Informed
    <2>3. CASE About(q, s) # {}
      <3>1. PICK j \in About(q, s) : \A k \in About(q, s) : k <= j
        <4>1. About(q, s) \subseteq 1 .. Len(q)
          BY <1>2 DEF About
        <4> QED
          BY <4>1, <2>3, <1>2, MaxExists
      <3>2. Says(q[j]) = None /\ q[j] \in Message
        BY <3>1, <2>1, <1>2 DEF Informed, About
      <3>3. q[j].kind = "disconnected"
        BY <3>2 DEF Says, Message
      <3>4. j \in About(r, s) /\ j < i /\ r[j].kind = "disconnected" /\ j \in Nat
        BY <3>3, <1>3, <1>6
      <3>5. \A k \in About(r, s) : k <= j \/ k >= i
        BY <3>1, <1>4, <1>6, <1>1
      <3> QED
        BY <3>4, <3>5
    <2> QED
      BY <2>2, <2>3
  <1> QED
    BY <1>4, <1>5, <1>6

(* Taking a message keeps the order, provided the list is updated by it.   *)
LEMMA AlternatingTake ==
  ASSUME NEW q \in Seq(Message), q # <<>>, NEW s, NEW v,
         Alternating(q, s, v)
  PROVE  Alternating(Tail(q), s, IF SrcOf[Head(q).conn] = s THEN Says(Head(q)) ELSE v)
  <1> DEFINE r == Tail(q)
             w == IF SrcOf[Head(q).conn] = s THEN Says(Head(q)) ELSE v
  <1>1. /\ r \in Seq(Message) /\ Len(r) = Len(q) - 1 /\ Len(q) \in Nat \ {0}
        /\ \A i \in 1 .. Len(r) : r[i] = q[i + 1]
        /\ Head(q) = q[1] /\ Head(q) \in Message
    OBVIOUS
  <1>2. DOMAIN r = 1 .. Len(r) /\ DOMAIN q = 1 .. Len(q)
    BY <1>1
  <1>3. \A i \in About(r, s) : i \in Nat \ {0} /\ i + 1 \in About(q, s) /\ r[i] = q[i + 1]
    BY <1>1, <1>2 DEF About
  <1>4. \A i \in About(q, s) :
           i \in Nat /\ (i # 1 => i - 1 \in About(r, s) /\ r[i - 1] = q[i])
    BY <1>1, <1>2 DEF About
  <1>5. 1 \in About(q, s) <=> SrcOf[Head(q).conn] = s
    BY <1>1, <1>2 DEF About
  <1> HIDE DEF r
  <1> SUFFICES ASSUME NEW i \in About(r, s), r[i].kind = "connected"
               PROVE  \/ (\A j \in About(r, s) : j >= i) /\ w = None
                      \/ \E j \in About(r, s) :
                           /\ j < i /\ r[j].kind = "disconnected"
                           /\ \A k \in About(r, s) : k <= j \/ k >= i
    BY DEF Alternating, r
  <1>6. i + 1 \in About(q, s) /\ q[i + 1].kind = "connected" /\ i \in Nat \ {0}
    BY <1>3
  <1>7. CASE (\A j \in About(q, s) : j >= i + 1) /\ v = None
    <2>1. 1 \notin About(q, s)
      BY <1>6, <1>7
    <2>2. w = None
      BY <2>1, <1>5, <1>7
    <2>3. \A j \in About(r, s) : j >= i
      BY <1>3, <1>6, <1>7
    <2> QED
      BY <2>2, <2>3
  <1>8. ASSUME NEW j \in About(q, s), j < i + 1, q[j].kind = "disconnected",
               \A k \in About(q, s) : k <= j \/ k >= i + 1
        PROVE  \/ (\A h \in About(r, s) : h >= i) /\ w = None
               \/ \E h \in About(r, s) :
                    /\ h < i /\ r[h].kind = "disconnected"
                    /\ \A k \in About(r, s) : k <= h \/ k >= i
    <2>1. CASE j = 1
      <3>1. w = None
        BY <2>1, <1>1, <1>5, <1>8 DEF Says
      <3>2. \A h \in About(r, s) : h >= i
        BY <2>1, <1>3, <1>6, <1>8
      <3> QED
        BY <3>1, <3>2
    <2>2. CASE j # 1
      <3>1. j \in Nat /\ j - 1 \in About(r, s) /\ r[j - 1].kind = "disconnected"
        BY <2>2, <1>4, <1>8
      <3>2. j - 1 < i
        BY <3>1, <1>6, <1>8
      <3>3. \A k \in About(r, s) : k <= j - 1 \/ k >= i
        BY <3>1, <1>3, <1>6, <1>8
      <3> QED
        BY <3>1, <3>2, <3>3
    <2> QED
      BY <2>1, <2>2
  <1> QED
    BY <1>6, <1>7, <1>8 DEF Alternating

-----------------------------------------------------------------------------
(* What one notification does to the queues.                               *)
LEMMA NotifyEffect ==
  ASSUME TypeOK, TablesSound, NEW c \in Conn, NEW g \in Group,
         NEW kind \in {"connected", "disconnected"}, Notify(kind, c, g)
  PROVE  /\ inbox'[Main] = Append(inbox[Main], [kind |-> kind, conn |-> c, gid |-> g])
         /\ inbox' \in [Module -> Seq(Message)]
         /\ \A m \in Module : Len(inbox'[m]) <= QueueSize
         /\ async' \in [Module -> Seq(Message)]
         /\ async'[Main] = <<>>
         /\ view' = view
  <1> DEFINE msg == [kind |-> kind, conn |-> c, gid |-> g]
  <1>1. msg \in Message
    BY DEF Message
  <1>2. Main \in Module /\ ModGid[Main] = NoGroup /\ QueueSize \in Nat
    BY ConstAssumption
  <1>3. Main \in Audience(c, g)
    BY <1>2 DEF Audience, TablesSound
  <1> HIDE DEF msg
  <1>4. /\ ~ Full(Main)
        /\ inbox' = [m \in Module |-> IF m \in Audience(c, g) /\ ~ Full(m)
                                      THEN Append(inbox[m], msg) ELSE inbox[m]]
        /\ async' = [m \in Module |-> IF m \in Audience(c, g) /\ Full(m)
                                      THEN Append(async[m], msg) ELSE async[m]]
        /\ view' = view
    BY DEF Notify, msg
  <1>5. /\ \A m \in Module : inbox[m] \in Seq(Message) /\ Len(inbox[m]) <= QueueSize
        /\ \A m \in Module : async[m] \in Seq(Message)
    BY DEF TypeOK
  <1>6. inbox'[Main] = Append(inbox[Main], msg) /\ async'[Main] = <<>>
    BY <1>2, <1>3, <1>4 DEF TablesSound
  <1>7. \A m \in Module : inbox'[m] \in Seq(Message) /\ Len(inbox'[m]) <= QueueSize
    <2> TAKE m \in Module
    <2>1. CASE m \in Audience(c, g) /\ ~ Full(m)
      <3>1. inbox'[m] = Append(inbox[m], msg) /\ ~ (Len(inbox[m]) >= QueueSize)
        BY <2>1, <1>4 DEF Full
      <3> QED
        BY <3>1, <1>1, <1>2, <1>5
    <2>2. CASE ~ (m \in Audience(c, g) /\ ~ Full(m))
      BY <2>2, <1>4, <1>5
    <2> QED
      BY <2>1, <2>2
  <1>8. inbox' \in [Module -> Seq(Message)]
    BY <1>4, <1>7
  <1>9. async' \in [Module -> Seq(Message)]
    BY <1>1, <1>4, <1>5
  <1> QED
    BY <1>4, <1>6, <1>7, <1>8, <1>9 DEF msg

(* A notification keeps the main module informed when it says of its       *)
(* source what becomes true, and nothing changes for other sources.        *)
LEMMA NotifyInforms ==
  ASSUME TypeOK, TablesSound, MainInformed, MainAlternates,
         NEW c \in Conn, NEW g \in Group,
         NEW kind \in {"connected", "disconnected"}, Notify(kind, c, g),
         Truth(SrcOf[c])' = IF kind = "connected" THEN g ELSE None,
         kind = "connected" => Truth(SrcOf[c]) = None,
         \A s \in Src \ {SrcOf[c]} : Truth(s)' = Truth(s)
  PROVE  MainInformed' /\ MainAlternates'
  <1> DEFINE msg == [kind |-> kind, conn |-> c, gid |-> g]
  <1>1. msg \in Message /\ msg.conn = c /\ msg.kind = kind
        /\ Says(msg) = IF kind = "connected" THEN g ELSE None
    BY DEF Message, Says
  <1>2. inbox'[Main] = Append(inbox[Main], msg) /\ view' = view
    BY NotifyEffect
  <1> HIDE DEF msg
  <1>3. inbox[Main] \in Seq(Message) /\ None \notin Group
    BY ConstAssumption DEF TypeOK
  <1>4. ASSUME NEW s \in Src PROVE Informed(inbox'[Main], s, view'[Main][s], Truth(s)')
    <2>1. Informed(inbox[Main], s, view[Main][s], Truth(s))
      BY DEF MainInformed
    <2>2. CASE s = SrcOf[c]
      <3>1. Informed(Append(inbox[Main], msg), s, view[Main][s], Says(msg))
        BY <2>2, <1>1, <1>3, InformedAppend
      <3>2. Truth(s)' = Says(msg)
        BY <2>2, <1>1
      <3> QED
        BY <3>1, <3>2, <1>2
    <2>3. CASE s # SrcOf[c]
      <3>1. Truth(s)' = Truth(s)
        BY <2>3
      <3>2. Informed(Append(inbox[Main], msg), s, view[Main][s], Truth(s))
        BY <2>1, <2>3, <1>1, <1>3, InformedOther
      <3> QED
        BY <3>1, <3>2, <1>2
    <2> QED
      BY <2>2, <2>3
  <1>5. ASSUME NEW s \in Src PROVE Alternating(inbox'[Main], s, view'[Main][s])
    <2>1. /\ Informed(inbox[Main], s, view[Main][s], Truth(s))
          /\ Alternating(inbox[Main], s, view[Main][s])
      BY DEF MainInformed, MainAlternates
    <2>2. SrcOf[msg.conn] = s =>
             msg.kind = "disconnected" \/ Informed(inbox[Main], s, view[Main][s], None)
      BY <2>1, <1>1
    <2>3. Alternating(Append(inbox[Main], msg), s, view[Main][s])
      BY <2>1, <2>2, <1>1, <1>3, AlternatingAppend
    <2> QED
      BY <2>3, <1>2
  <1> QED
    BY <1>4, <1>5 DEF MainInformed, MainAlternates

(* Nothing changes for the main module when its queue, its list and the    *)
(* truth stay.                                                             *)
LEMMA StillInformed ==
  ASSUME MainInformed, MainAlternates, inbox'[Main] = inbox[Main],
         view'[Main] = view[Main], \A s \in Src : Truth(s)' = Truth(s)
  PROVE  MainInformed' /\ MainAlternates'
  BY DEF MainInformed, MainAlternates

(* delAgentI keeps every part of the invariant that it can disturb.        *)
LEMMA DelAgentKeeps ==
  ASSUME HubInv, NEW c \in Conn, DelAgentI(c), op.cur = None, op'.cur = None,
         UNCHANGED <<gid, mods, starting>>,
         \A d \in Conn \ {c} : phase'[d] = phase[d]
  PROVE  /\ open' \subseteq Conn
         /\ agents' \in [Src -> Conn \cup {None}]
         /\ routes' \in [Dst -> Src \cup {None}]
         /\ inbox' \in [Module -> Seq(Message)]
         /\ \A m \in Module : Len(inbox'[m]) <= QueueSize
         /\ async' \in [Module -> Seq(Message)]
         /\ view' \in [Module -> [Src -> Group \cup {None}]]
         /\ \A s \in Src \ {SrcOf[c]} : agents'[s] = agents[s]
         /\ TablesSound' /\ RoutesLive' /\ MainInformed' /\ MainAlternates'
  <1> DEFINE s == SrcOf[c]
             r == agents[s]
  <1>1. s \in Src /\ r \in Conn \cup {None} /\ None \notin Conn /\ None \notin Src
    BY ConstAssumption DEF HubInv, TypeOK
  <1> USE DEF HubInv
  <1>2. CASE r = None
    <2>1. UNCHANGED <<agents, routes, inbox, async, view, open>>
      BY <1>2 DEF DelAgentI, mail
    <2>2. \A x \in Src : Truth(x)' = Truth(x)
      BY <2>1 DEF Truth
    <2>3. MainInformed' /\ MainAlternates'
      BY <2>1, <2>2, StillInformed
    <2>4. TablesSound'
      BY <1>1, <1>2, <2>1 DEF TypeOK, TablesSound
    <2> QED
      BY <2>1, <2>3, <2>4 DEF TypeOK, RoutesLive
  <1>3. CASE r # None
    <2>1. /\ routes' = [d \in Dst |-> IF routes[d] = s THEN None ELSE routes[d]]
          /\ Notify("disconnected", r, gid[r])
          /\ agents' = [agents EXCEPT ![s] = None]
          /\ open' = open \ {c}
      BY <1>3 DEF DelAgentI
    <2>2. r \in Conn /\ SrcOf[r] = s /\ gid[r] \in Group
      BY <1>1, <1>3 DEF TypeOK, TablesSound
    <2> HIDE DEF r, s
    <2>3. /\ inbox' \in [Module -> Seq(Message)]
          /\ \A m \in Module : Len(inbox'[m]) <= QueueSize
          /\ async' \in [Module -> Seq(Message)]
          /\ async'[Main] = <<>>
          /\ view' = view
      BY <2>1, <2>2, NotifyEffect
    <2>4. agents'[s] = None /\ \A x \in Src \ {s} : agents'[x] = agents[x]
      BY <1>1, <2>1 DEF TypeOK
    <2>5. Truth(s)' = None /\ \A x \in Src \ {s} : Truth(x)' = Truth(x)
      BY <1>1, <2>4 DEF Truth
    <2>6. MainInformed' /\ MainAlternates'
      BY <2>1, <2>2, <2>5, NotifyInforms
    <2>7. RoutesLive'
      BY <1>1, <2>1, <2>4 DEF RoutesLive, TypeOK
    <2>8. TablesSound'
      <3>1. Main \in mods' /\ async'[Main] = <<>>
        BY <2>3 DEF TablesSound
      <3>2. ASSUME NEW x \in Src, agents'[x] # None
            PROVE  SrcOf[agents'[x]] = x /\ phase'[agents'[x]] = "serving"
        <4>1. x # s /\ agents'[x] = agents[x] /\ agents[x] \in Conn
          BY <2>4, <3>2 DEF TypeOK
        <4>2. SrcOf[agents[x]] = x /\ phase[agents[x]] = "serving"
          BY <4>1, <3>2 DEF TablesSound
        <4>3. agents[x] # c
          BY <4>1, <4>2 DEF s
        <4> QED
          BY <4>1, <4>2, <4>3
      <3> QED
        BY <3>1, <3>2 DEF TablesSound
    <2>9. agents' \in [Src -> Conn \cup {None}] /\ routes' \in [Dst -> Src \cup {None}]
          /\ open' \subseteq Conn
      BY <2>1 DEF TypeOK
    <2>10. view' \in [Module -> [Src -> Group \cup {None}]]
      BY <2>3 DEF TypeOK
    <2> QED
      BY <2>3, <2>4, <2>6, <2>7, <2>8, <2>9, <2>10 DEF s
  <1> QED
    BY <1>2, <1>3

-----------------------------------------------------------------------------
(* The invariant holds at the start.                                       *)
LEMMA HubInit == Init => HubInv
  <1> SUFFICES ASSUME Init PROVE HubInv
    OBVIOUS
  <1>1. TypeOK
    BY ConstAssumption DEF Init, TypeOK, Free, Message
  <1>2. TablesSound /\ OpSound /\ RoutesLive
    BY ConstAssumption DEF Init, TablesSound, OpSound, RoutesLive, Free
  <1>3. Main \in Module /\ inbox[Main] = <<>> /\ \A s \in Src : view[Main][s] = None
    BY ConstAssumption DEF Init
  <1>4. \A s \in Src : Truth(s) = None
    BY DEF Init, Truth
  <1>5. \A s \in Src : About(inbox[Main], s) = {}
    BY <1>3 DEF About
  <1>6. MainInformed /\ MainAlternates
    BY <1>3, <1>4, <1>5 DEF MainInformed, MainAlternates, Informed, Alternating
  <1> QED
    BY <1>1, <1>2, <1>6 DEF HubInv

(* Every action keeps it.                                                  *)
LEMMA HubNext == HubInv /\ [Next]_vars => HubInv'
  <1> SUFFICES ASSUME HubInv, [Next]_vars PROVE HubInv'
    OBVIOUS
  <1> USE DEF HubInv
  <1>0. /\ None \notin Conn /\ None \notin Src /\ None \notin Group /\ Main \in Module
        /\ SrcOf \in [Conn -> Src] /\ DstOf \in [Conn -> Dst] /\ NoGroup \in Group
    BY ConstAssumption
  <1>1. ASSUME NEW c \in Conn, Accept(c) PROVE HubInv'
    <2>1. PICK g \in Group : gid' = [gid EXCEPT ![c] = g]
      BY <1>1 DEF Accept
    <2>2. /\ phase[c] = "new" /\ phase' = [phase EXCEPT ![c] = "accepted"]
          /\ open' = open \cup {c}
          /\ UNCHANGED <<agents, routes, mods, starting, inbox, async, view, op>>
      BY <1>1 DEF Accept, tables, mail
    <2>3. \A s \in Src : agents[s] # c
      <3>1. c # None
        BY <1>0
      <3>2. \A s \in Src : agents[s] # None => phase[agents[s]] = "serving"
        BY DEF TablesSound
      <3>. QED
        BY <2>2, <3>1, <3>2
    <2>4. \A s \in Src : Truth(s)' = Truth(s)
      BY <2>1, <2>2, <2>3 DEF Truth, TypeOK
    <2>5. MainInformed' /\ MainAlternates'
      BY <2>2, <2>4, StillInformed
    <2>6. TypeOK'
      BY <2>1, <2>2 DEF TypeOK
    <2>7. TablesSound' /\ OpSound' /\ RoutesLive'
      BY <2>2, <2>3 DEF TypeOK, TablesSound, OpSound, RoutesLive
    <2> QED
      BY <2>5, <2>6, <2>7
  <1>2. ASSUME NEW c \in Conn, Deny(c) \/ Refuse(c) \/ Disconnect(c) PROVE HubInv'
    <2>1. UNCHANGED <<gid, agents, routes, mods, starting, inbox, async, view, op>>
      BY <1>2 DEF Deny, Refuse, Disconnect, tables, mail
    <2>2. \A s \in Src : Truth(s)' = Truth(s)
      BY <2>1 DEF Truth
    <2>3. MainInformed' /\ MainAlternates'
      BY <2>1, <2>2, StillInformed
    <2>4. /\ \/ phase' = phase
             \/ phase' = [phase EXCEPT ![c] = "gone"] /\ phase[c] # "serving"
          /\ open' \subseteq open
      BY <1>2 DEF Deny, Refuse, Disconnect
    <2>5. TypeOK'
      BY <2>1, <2>4 DEF TypeOK
    <2>6. TablesSound' /\ OpSound' /\ RoutesLive'
      BY <2>1, <2>4, <1>0 DEF TypeOK, TablesSound, OpSound, RoutesLive
    <2> QED
      BY <2>3, <2>5, <2>6
  <1>3. ASSUME NEW c \in Conn, Register(c) PROVE HubInv'
    <2>1. /\ phase' = [phase EXCEPT ![c] = "serving"]
          /\ agents[SrcOf[c]] = None
          /\ agents' = [agents EXCEPT ![SrcOf[c]] = c]
          /\ routes' = [routes EXCEPT ![DstOf[c]] = SrcOf[c]]
          /\ Notify("connected", c, gid[c])
          /\ op.kind = "free"
          /\ UNCHANGED <<open, gid, mods, starting, op>>
      BY <1>3 DEF Register, AddAgentI, Unlocked
    <2>2. SrcOf[c] \in Src /\ DstOf[c] \in Dst /\ gid[c] \in Group
      BY <1>0 DEF TypeOK
    <2>3. op.cur = None /\ op.todo = {}
      BY <2>1 DEF OpSound, Free
    <2>4. agents'[SrcOf[c]] = c /\ \A s \in Src \ {SrcOf[c]} : agents'[s] = agents[s]
      BY <2>1, <2>2 DEF TypeOK
    <2>5. /\ Truth(SrcOf[c])' = gid[c] /\ Truth(SrcOf[c]) = None
          /\ \A s \in Src \ {SrcOf[c]} : Truth(s)' = Truth(s)
      BY <1>0, <2>1, <2>3, <2>4 DEF Truth
    <2>6. MainInformed' /\ MainAlternates'
      BY <2>1, <2>2, <2>5, NotifyInforms
    <2>7. /\ inbox' \in [Module -> Seq(Message)]
          /\ \A m \in Module : Len(inbox'[m]) <= QueueSize
          /\ async' \in [Module -> Seq(Message)]
          /\ async'[Main] = <<>> /\ view' = view
      BY <2>1, <2>2, NotifyEffect
    <2>8. TypeOK'
      BY <2>1, <2>2, <2>7 DEF TypeOK
    <2>9. TablesSound'
      BY <1>0, <2>1, <2>4, <2>7 DEF TypeOK, TablesSound
    <2>10. OpSound'
      BY <2>1, <2>3 DEF OpSound
    <2>11. RoutesLive'
      BY <1>0, <2>1, <2>2, <2>4 DEF TypeOK, RoutesLive
    <2> QED
      BY <2>6, <2>8, <2>9, <2>10, <2>11
  <1>4. ASSUME NEW c \in Conn, HandlerExit(c) PROVE HubInv'
    <2>1. /\ DelAgentI(c) /\ phase' = [phase EXCEPT ![c] = "gone"] /\ op.kind = "free"
          /\ UNCHANGED <<gid, mods, starting, op>>
      BY <1>4 DEF HandlerExit, Unlocked
    <2>2. op.cur = None /\ op.todo = {}
      BY <2>1 DEF OpSound, Free
    <2>3. \A d \in Conn \ {c} : phase'[d] = phase[d]
      BY <2>1 DEF TypeOK
    <2>4. /\ open' \subseteq Conn
          /\ agents' \in [Src -> Conn \cup {None}]
          /\ routes' \in [Dst -> Src \cup {None}]
          /\ inbox' \in [Module -> Seq(Message)]
          /\ \A m \in Module : Len(inbox'[m]) <= QueueSize
          /\ async' \in [Module -> Seq(Message)]
          /\ view' \in [Module -> [Src -> Group \cup {None}]]
          /\ TablesSound' /\ RoutesLive' /\ MainInformed' /\ MainAlternates'
      BY <2>1, <2>2, <2>3, DelAgentKeeps
    <2>5. TypeOK'
      BY <2>1, <2>4 DEF TypeOK
    <2>6. OpSound'
      BY <2>1, <2>2 DEF OpSound
    <2> QED
      BY <2>4, <2>5, <2>6
  <1>5. ASSUME NEW c \in Conn, DropNext(c) PROVE HubInv'
    <2>1. /\ DelAgentI(c) /\ op.kind = "drop" /\ c \in op.todo
          /\ op' = IF op.todo = {c} THEN Free ELSE [op EXCEPT !.todo = @ \ {c}]
          /\ UNCHANGED <<phase, gid, mods, starting>>
      BY <1>5 DEF DropNext
    <2>2. op.cur = None /\ op'.cur = None
      BY <2>1 DEF OpSound, Free, TypeOK
    <2>3. /\ open' \subseteq Conn
          /\ agents' \in [Src -> Conn \cup {None}]
          /\ routes' \in [Dst -> Src \cup {None}]
          /\ inbox' \in [Module -> Seq(Message)]
          /\ \A m \in Module : Len(inbox'[m]) <= QueueSize
          /\ async' \in [Module -> Seq(Message)]
          /\ view' \in [Module -> [Src -> Group \cup {None}]]
          /\ \A s \in Src \ {SrcOf[c]} : agents'[s] = agents[s]
          /\ TablesSound' /\ RoutesLive' /\ MainInformed' /\ MainAlternates'
      BY <2>1, <2>2, DelAgentKeeps
    <2>4. op' \in [kind : {"free", "drop", "move"}, todo : SUBSET Conn, gid : Group,
                   cur : Conn \cup {None}]
      BY <1>0, <2>1 DEF TypeOK, Free
    <2>5. TypeOK'
      BY <2>1, <2>3, <2>4 DEF TypeOK
    <2>6. \A d \in op.todo : agents[SrcOf[d]] = d
      BY DEF OpSound
    <2>7. \A d \in op'.todo : d \in op.todo /\ d # c
      BY <2>1 DEF Free, TypeOK
    <2>8. \A d \in op'.todo : agents'[SrcOf[d]] = d
      <3> TAKE d \in op'.todo
      <3>1. d \in Conn /\ agents[SrcOf[d]] = d /\ agents[SrcOf[c]] = c /\ d # c
        BY <2>1, <2>6, <2>7 DEF TypeOK
      <3>2. SrcOf[d] \in Src \ {SrcOf[c]}
        BY <3>1, <1>0
      <3> QED
        BY <3>1, <3>2, <2>3
    <2>9. OpSound'
      BY <2>1, <2>2, <2>8 DEF OpSound, Free, TypeOK
    <2> QED
      BY <2>3, <2>5, <2>9
  <1>6. ASSUME NEW a \in Agent, NEW g \in Group, DropAgent(a) \/ MoveAgent(a, g)
        PROVE  HubInv'
    <2>1. /\ UNCHANGED <<phase, open, gid, agents, routes, mods, starting, inbox, async, view>>
          /\ op.kind = "free"
      BY <1>6 DEF DropAgent, MoveAgent, Unlocked, tables, mail
    <2>2. /\ op' \in [kind : {"drop", "move"}, todo : SUBSET Registered, gid : Group,
                      cur : {None}]
      <3>1. CASE DropAgent(a)
        <4>1. PICK t \in SUBSET Registered : op' = [Free EXCEPT !.kind = "drop", !.todo = t]
          BY <3>1 DEF DropAgent
        <4>2. op' = [kind |-> "drop", todo |-> t, gid |-> NoGroup, cur |-> None]
          BY <4>1 DEF Free
        <4>. QED
          BY <1>0, <4>2
      <3>2. CASE MoveAgent(a, g)
        <4>1. PICK t \in SUBSET Registered :
                op' = [Free EXCEPT !.kind = "move", !.todo = t, !.gid = g]
          BY <3>2 DEF MoveAgent
        <4>2. op' = [kind |-> "move", todo |-> t, gid |-> g, cur |-> None]
          BY <4>1 DEF Free
        <4>. QED
          BY <1>6, <4>2
      <3>. QED
        BY <1>6, <3>1, <3>2
    <2>3. op.cur = None
      BY <2>1 DEF OpSound, Free
    <2>4. \A s \in Src : Truth(s)' = Truth(s)
      BY <2>1, <2>2, <2>3 DEF Truth
    <2>5. MainInformed' /\ MainAlternates'
      BY <2>1, <2>4, StillInformed
    <2>6. TypeOK'
      BY <2>1, <2>2 DEF TypeOK, Registered
    <2>7. TablesSound' /\ RoutesLive'
      BY <2>1 DEF TablesSound, RoutesLive
    <2>8. OpSound'
      BY <2>1, <2>2 DEF OpSound, Registered
    <2> QED
      BY <2>5, <2>6, <2>7, <2>8
  <1>7. ASSUME NEW c \in Conn, MoveOut(c) PROVE HubInv'
    <2>1. /\ op.kind = "move" /\ op.cur = None /\ c \in op.todo
          /\ Notify("disconnected", c, gid[c])
          /\ gid' = [gid EXCEPT ![c] = op.gid]
          /\ op' = [op EXCEPT !.cur = c]
          /\ UNCHANGED <<phase, open, agents, routes, mods, starting>>
      BY <1>7 DEF MoveOut, tables
    <2>2. agents[SrcOf[c]] = c /\ SrcOf[c] \in Src /\ gid[c] \in Group /\ op.gid \in Group
      BY <1>0, <2>1 DEF OpSound, TypeOK
    <2>3. /\ op' \in [kind : {"free", "drop", "move"}, todo : SUBSET Conn, gid : Group,
                      cur : Conn \cup {None}]
          /\ op'.kind = "move" /\ op'.cur = c /\ op'.todo = op.todo
      BY <2>1 DEF TypeOK
    <2>4. \A s \in Src \ {SrcOf[c]} : agents[s] # c
      BY <1>0 DEF TablesSound
    <2>5. /\ Truth(SrcOf[c])' = None
          /\ \A s \in Src \ {SrcOf[c]} : Truth(s)' = Truth(s)
      BY <1>0, <2>1, <2>2, <2>3, <2>4 DEF Truth, TypeOK
    <2>6. MainInformed' /\ MainAlternates'
      BY <2>1, <2>2, <2>5, NotifyInforms
    <2>7. /\ inbox' \in [Module -> Seq(Message)]
          /\ \A m \in Module : Len(inbox'[m]) <= QueueSize
          /\ async' \in [Module -> Seq(Message)]
          /\ async'[Main] = <<>> /\ view' = view
      BY <2>1, <2>2, NotifyEffect
    <2>8. TypeOK'
      BY <2>1, <2>2, <2>3, <2>7 DEF TypeOK
    <2>9. TablesSound' /\ RoutesLive'
      BY <2>1, <2>7 DEF TablesSound, RoutesLive
    <2>10. OpSound'
      BY <2>1, <2>3 DEF OpSound
    <2> QED
      BY <2>6, <2>8, <2>9, <2>10
  <1>8. ASSUME MoveIn PROVE HubInv'
    <2>0. PICK c \in Conn : c = op.cur
      BY <1>8 DEF MoveIn, TypeOK
    <2>1. /\ op.kind = "move" /\ c # None
          /\ Notify("connected", c, gid[c])
          /\ op' = IF op.todo = {c} THEN Free
                   ELSE [op EXCEPT !.todo = @ \ {c}, !.cur = None]
          /\ UNCHANGED <<phase, open, gid, agents, routes, mods, starting>>
      BY <1>8, <2>0 DEF MoveIn, tables
    <2>2. /\ c \in Conn /\ c \in op.todo /\ agents[SrcOf[c]] = c
          /\ SrcOf[c] \in Src /\ gid[c] \in Group
      BY <1>0, <2>0, <2>1 DEF OpSound, TypeOK
    <2>3. /\ op' \in [kind : {"free", "drop", "move"}, todo : SUBSET Conn, gid : Group,
                      cur : Conn \cup {None}]
          /\ op'.cur = None /\ op'.todo \subseteq op.todo
          /\ op'.kind = "free" => op' = Free
      BY <1>0, <2>1, <2>2 DEF TypeOK, Free
    <2>4. \A s \in Src \ {SrcOf[c]} : agents[s] # c
      BY <1>0, <2>2 DEF TablesSound
    <2>5. /\ Truth(SrcOf[c])' = gid[c] /\ Truth(SrcOf[c]) = None
          /\ \A s \in Src \ {SrcOf[c]} : Truth(s)' = Truth(s)
      <3>1. Truth(SrcOf[c]) = None
        BY <2>0, <2>2 DEF Truth
      <3>2. Truth(SrcOf[c])' = gid[c]
        BY <1>0, <2>1, <2>2, <2>3 DEF Truth
      <3>3. ASSUME NEW s \in Src \ {SrcOf[c]} PROVE Truth(s)' = Truth(s)
        <4>1. agents[s] # c /\ agents' = agents /\ gid' = gid
          BY <2>1, <2>4
        <4>2. agents[s] \in Conn \cup {None}
          BY DEF TypeOK
        <4> QED
          BY <4>1, <4>2, <1>0, <2>0, <2>3 DEF Truth
      <3> QED
        BY <3>1, <3>2, <3>3
    <2>6. MainInformed' /\ MainAlternates'
      BY <2>1, <2>2, <2>5, NotifyInforms
    <2>7. /\ inbox' \in [Module -> Seq(Message)]
          /\ \A m \in Module : Len(inbox'[m]) <= QueueSize
          /\ async' \in [Module -> Seq(Message)]
          /\ async'[Main] = <<>> /\ view' = view
      BY <2>1, <2>2, NotifyEffect
    <2>8. TypeOK'
      BY <2>1, <2>3, <2>7 DEF TypeOK
    <2>9. TablesSound' /\ RoutesLive'
      <3>1. UNCHANGED <<phase, agents, routes, mods>> /\ async'[Main] = <<>>
        BY <2>1, <2>7
      <3> QED
        BY <3>1 DEF TablesSound, RoutesLive
    <2>10. OpSound'
      <3>1. agents' = agents /\ \A x \in op'.todo : x \in op.todo
        BY <2>1, <2>3
      <3>2. \A x \in op'.todo : agents'[SrcOf[x]] = x
        BY <3>1 DEF OpSound
      <3> QED
        BY <3>2, <2>3 DEF OpSound
    <2> QED
      BY <2>6, <2>8, <2>9, <2>10
  <1>9. ASSUME NEW d \in Dst, DelRoute(d) \/ \E s \in Src : AddRoute(d, s) PROVE HubInv'
    <2>1. /\ \/ routes' = [routes EXCEPT ![d] = None]
             \/ \E s \in Src : routes' = [routes EXCEPT ![d] = s] /\ agents[s] # None
          /\ UNCHANGED <<phase, open, gid, agents, mods, starting, inbox, async, view, op>>
      BY <1>9 DEF DelRoute, AddRoute, mail
    <2>2. \A x \in Src : Truth(x)' = Truth(x)
      BY <2>1 DEF Truth
    <2>3. MainInformed' /\ MainAlternates'
      BY <2>1, <2>2, StillInformed
    <2>4. TypeOK'
      BY <2>1 DEF TypeOK
    <2>5. TablesSound' /\ OpSound'
      BY <2>1 DEF TablesSound, OpSound
    <2>6. RoutesLive'
      BY <2>1 DEF RoutesLive, TypeOK
    <2> QED
      BY <2>3, <2>4, <2>5, <2>6
  <1>10. ASSUME NEW m \in Module, ReadAgentList(m) PROVE HubInv'
    <2> DEFINE new == [s \in Src |-> IF agents[s] # None /\ InGroup(m, agents[s])
                                     THEN gid[agents[s]] ELSE None]
    <2>1. /\ view' = [view EXCEPT ![m] = new] /\ m \in Stoppable
          /\ starting' = starting \cup {m}
          /\ UNCHANGED <<phase, open, gid, agents, routes, mods, inbox, async, op>>
      BY <1>10 DEF ReadAgentList
    <2>2. new \in [Src -> Group \cup {None}]
      BY DEF TypeOK
    <2> HIDE DEF new
    <2>3. view'[Main] = view[Main]
      BY <1>0, <2>1, ConstAssumption DEF TypeOK
    <2>4. \A s \in Src : Truth(s)' = Truth(s)
      BY <2>1 DEF Truth
    <2>5. MainInformed' /\ MainAlternates'
      BY <2>1, <2>3, <2>4, StillInformed
    <2>6. TypeOK'
      BY <2>1, <2>2 DEF TypeOK
    <2>7. TablesSound' /\ OpSound' /\ RoutesLive'
      BY <2>1 DEF TablesSound, OpSound, RoutesLive
    <2> QED
      BY <2>5, <2>6, <2>7
  <1>11. ASSUME NEW m \in Module, AddModule(m) PROVE HubInv'
    <2>1. /\ mods' = mods \cup {m} /\ starting' = starting \ {m}
          /\ UNCHANGED <<phase, open, gid, agents, routes, inbox, async, view, op>>
      BY <1>11 DEF AddModule, mail
    <2>2. \A s \in Src : Truth(s)' = Truth(s)
      BY <2>1 DEF Truth
    <2>3. MainInformed' /\ MainAlternates'
      BY <2>1, <2>2, StillInformed
    <2>4. TypeOK'
      BY <2>1 DEF TypeOK
    <2>5. TablesSound' /\ OpSound' /\ RoutesLive'
      BY <2>1 DEF TablesSound, OpSound, RoutesLive
    <2> QED
      BY <2>3, <2>4, <2>5
  <1>12. ASSUME NEW m \in Module, DelModule(m) PROVE HubInv'
    <2>1. /\ mods' = mods \ {m} /\ m # Main
          /\ inbox' = [inbox EXCEPT ![m] = <<>>]
          /\ async' = [async EXCEPT ![m] = <<>>]
          /\ view' = [view EXCEPT ![m] = [s \in Src |-> None]]
          /\ UNCHANGED <<phase, open, gid, agents, routes, starting, op>>
      BY <1>12, ConstAssumption DEF DelModule
    <2>2. inbox'[Main] = inbox[Main] /\ async'[Main] = async[Main] /\ view'[Main] = view[Main]
      BY <1>0, <2>1 DEF TypeOK
    <2>3. \A s \in Src : Truth(s)' = Truth(s)
      BY <2>1 DEF Truth
    <2>4. MainInformed' /\ MainAlternates'
      BY <2>2, <2>3, StillInformed
    <2>5. QueueSize \in Nat
      BY ConstAssumption
    <2>6. <<>> \in Seq(Message) /\ Len(<<>>) <= QueueSize
      BY <2>5
    <2>7. TypeOK'
      <3>1. inbox' \in [Module -> Seq(Message)] /\ async' \in [Module -> Seq(Message)]
        BY <2>1, <2>6 DEF TypeOK
      <3>2. \A x \in Module : Len(inbox'[x]) <= QueueSize
        BY <2>1, <2>6 DEF TypeOK
      <3>3. view' \in [Module -> [Src -> Group \cup {None}]]
        BY <2>1 DEF TypeOK
      <3> QED
        BY <2>1, <3>1, <3>2, <3>3 DEF TypeOK
    <2>8. TablesSound' /\ OpSound' /\ RoutesLive'
      BY <2>1, <2>2 DEF TablesSound, OpSound, RoutesLive
    <2> QED
      BY <2>4, <2>7, <2>8
  <1>13. ASSUME NEW m \in Module, NEW i \in 1 .. MaxAsync, AsyncDeliver(m, i) PROVE HubInv'
    <2>1. /\ i \in DOMAIN async[m] /\ ~ (Len(inbox[m]) >= QueueSize)
          /\ inbox' = [inbox EXCEPT ![m] = Append(inbox[m], async[m][i])]
          /\ async' = [async EXCEPT ![m] = RemoveAt(async[m], i)]
          /\ UNCHANGED <<phase, open, gid, agents, routes, mods, starting, view, op>>
      BY <1>13 DEF AsyncDeliver, Full, tables
    <2>2. m # Main
      BY <2>1 DEF TablesSound
    <2>3. inbox'[Main] = inbox[Main] /\ async'[Main] = async[Main]
      BY <1>0, <2>1, <2>2 DEF TypeOK
    <2>4. \A s \in Src : Truth(s)' = Truth(s)
      BY <2>1 DEF Truth
    <2>5. MainInformed' /\ MainAlternates'
      BY <2>1, <2>3, <2>4, StillInformed
    <2>6. async[m] \in Seq(Message) /\ inbox[m] \in Seq(Message) /\ QueueSize \in Nat
      BY ConstAssumption DEF TypeOK
    <2>7. async[m][i] \in Message /\ i \in 1 .. Len(async[m])
      BY <2>1, <2>6
    <2>8. RemoveAt(async[m], i) \in Seq(Message)
      <3>1. SubSeq(async[m], 1, i - 1) \in Seq(Message)
        BY <2>6, <2>7
      <3>2. SubSeq(async[m], i + 1, Len(async[m])) \in Seq(Message)
        BY <2>6, <2>7
      <3> QED
        BY <3>1, <3>2 DEF RemoveAt
    <2>9. Append(inbox[m], async[m][i]) \in Seq(Message)
          /\ Len(Append(inbox[m], async[m][i])) <= QueueSize
      BY <2>1, <2>6, <2>7
    <2>10. TypeOK'
      <3>1. inbox' \in [Module -> Seq(Message)] /\ async' \in [Module -> Seq(Message)]
        BY <2>1, <2>8, <2>9 DEF TypeOK
      <3>2. \A x \in Module : Len(inbox'[x]) <= QueueSize
        BY <2>1, <2>9 DEF TypeOK
      <3> QED
        BY <2>1, <3>1, <3>2 DEF TypeOK
    <2>11. TablesSound' /\ OpSound' /\ RoutesLive'
      BY <2>1, <2>3 DEF TablesSound, OpSound, RoutesLive
    <2> QED
      BY <2>5, <2>10, <2>11
  <1>14. ASSUME NEW m \in Module, Take(m) PROVE HubInv'
    <2> DEFINE q == inbox[m]
               t == SrcOf[Head(q).conn]
    <2>1. /\ q # <<>>
          /\ view' = [view EXCEPT ![m][t] = Says(Head(q))]
          /\ inbox' = [inbox EXCEPT ![m] = Tail(q)]
          /\ UNCHANGED <<phase, open, gid, agents, routes, mods, starting, async, op>>
      BY <1>14 DEF Take, Says, tables
    <2>2. q \in Seq(Message) /\ Len(q) <= QueueSize /\ QueueSize \in Nat
      BY ConstAssumption DEF TypeOK
    <2>3. /\ Head(q) \in Message /\ Tail(q) \in Seq(Message)
          /\ Len(Tail(q)) <= QueueSize
      BY <2>1, <2>2
    <2>4. t \in Src /\ Says(Head(q)) \in Group \cup {None}
      BY <1>0, <2>3 DEF Message, Says
    <2> HIDE DEF t
    <2>5. TypeOK'
      <3>1. inbox' \in [Module -> Seq(Message)]
        BY <2>1, <2>3 DEF TypeOK
      <3>2. \A x \in Module : Len(inbox'[x]) <= QueueSize
        BY <2>1, <2>3 DEF TypeOK
      <3>3. view' \in [Module -> [Src -> Group \cup {None}]]
        BY <2>1, <2>4 DEF TypeOK
      <3> QED
        BY <2>1, <3>1, <3>2, <3>3 DEF TypeOK
    <2>6. TablesSound' /\ OpSound' /\ RoutesLive'
      BY <2>1 DEF TablesSound, OpSound, RoutesLive
    <2>7. \A s \in Src : Truth(s)' = Truth(s)
      BY <2>1 DEF Truth
    <2>8. MainInformed' /\ MainAlternates'
      <3>1. CASE m # Main
        <4>1. inbox'[Main] = inbox[Main] /\ view'[Main] = view[Main]
          BY <1>0, <2>1, <3>1 DEF TypeOK
        <4> QED
          BY <4>1, <2>7, StillInformed
      <3>2. CASE m = Main
        <4>1. inbox'[Main] = Tail(q)
          BY <2>1, <3>2 DEF TypeOK
        <4>2. ASSUME NEW s \in Src
              PROVE  view'[Main][s] = IF t = s THEN Says(Head(q)) ELSE view[Main][s]
          BY <2>1, <2>4, <3>2 DEF TypeOK
        <4>3. ASSUME NEW s \in Src
              PROVE  Informed(q, s, view[Main][s], Truth(s)) /\ Alternating(q, s, view[Main][s])
          BY <3>2 DEF MainInformed, MainAlternates
        <4>4. ASSUME NEW s \in Src
              PROVE  /\ Informed(Tail(q), s, IF t = s THEN Says(Head(q)) ELSE view[Main][s],
                                 Truth(s))
                     /\ Alternating(Tail(q), s, IF t = s THEN Says(Head(q)) ELSE view[Main][s])
          BY <4>3, <2>1, <2>2, InformedTake, AlternatingTake DEF t
        <4> QED
          BY <4>1, <4>2, <4>4, <2>7 DEF MainInformed, MainAlternates
      <3> QED
        BY <3>1, <3>2
    <2> QED
      BY <2>5, <2>6, <2>8
  <1>15. ASSUME NEW s \in Src, ForceQuit(s) PROVE HubInv'
    <2>1. /\ About(inbox[Main], s) # {}
          /\ view' = [view EXCEPT ![Main][s] = None]
          /\ UNCHANGED <<phase, open, gid, agents, routes, mods, starting, inbox, async, op>>
      BY <1>15 DEF ForceQuit, About, tables
    <2>2. TypeOK'
      BY <1>0, <2>1 DEF TypeOK
    <2>3. TablesSound' /\ OpSound' /\ RoutesLive'
      BY <2>1 DEF TablesSound, OpSound, RoutesLive
    <2>4. \A x \in Src : Truth(x)' = Truth(x)
      BY <2>1 DEF Truth
    <2>5. /\ view'[Main][s] = None
          /\ \A x \in Src \ {s} : view'[Main][x] = view[Main][x]
      BY <1>0, <2>1 DEF TypeOK
    <2>6. ASSUME NEW x \in Src PROVE Informed(inbox[Main], x, view'[Main][x], Truth(x))
      <3>1. Informed(inbox[Main], x, view[Main][x], Truth(x))
        BY DEF MainInformed
      <3>2. x # s => view'[Main][x] = view[Main][x]
        BY <2>5
      <3> QED
        BY <3>1, <3>2, <2>1 DEF Informed
    <2>7. ASSUME NEW x \in Src PROVE Alternating(inbox[Main], x, view'[Main][x])
      <3>1. Alternating(inbox[Main], x, view[Main][x])
        BY DEF MainAlternates
      <3>2. view'[Main][x] = None \/ view'[Main][x] = view[Main][x]
        BY <2>5
      <3> QED
        BY <3>1, <3>2 DEF Alternating
    <2>8. MainInformed' /\ MainAlternates'
      BY <2>1, <2>4, <2>6, <2>7 DEF MainInformed, MainAlternates
    <2> QED
      BY <2>2, <2>3, <2>8
  <1>16. CASE UNCHANGED vars
    <2>1. UNCHANGED <<phase, open, gid, agents, routes, mods, starting, inbox, async, view, op>>
      BY <1>16 DEF vars
    <2>2. \A s \in Src : Truth(s)' = Truth(s)
      BY <2>1 DEF Truth
    <2>3. MainInformed' /\ MainAlternates'
      BY <2>1, <2>2, StillInformed
    <2>4. TypeOK' /\ TablesSound' /\ OpSound' /\ RoutesLive'
      BY <2>1 DEF TypeOK, TablesSound, OpSound, RoutesLive
    <2> QED
      BY <2>3, <2>4
  <1>17. NoGroup \in Group
    BY <1>0
  <1> QED
    BY <1>1, <1>2, <1>3, <1>4, <1>5, <1>6, <1>7, <1>8, <1>9, <1>10, <1>11, <1>12,
       <1>13, <1>14, <1>15, <1>16, <1>17 DEF Next

(* The inductive invariant, for every instance.                            *)
THEOREM HubInductive == Spec => []HubInv
  BY HubInit, HubNext, PTL DEF Spec

(* Every variable of the hub keeps its type, and no receiver channel holds *)
(* more messages than its capacity.                                        *)
THEOREM HubTypeOK == Spec => []TypeOK
  BY HubInductive, PTL DEF HubInv

(* No route outlives the registration it points at (delAgentI, AddRoute).  *)
THEOREM HubRoutesLive == Spec => []RoutesLive
  BY HubInductive, PTL DEF HubInv

(* The main module is told the truth about every source, in the end.       *)
THEOREM HubMainInformed == Spec => []MainInformed
  BY HubInductive, PTL DEF HubInv

(* The main module never meets a connected message for an agent it lists.  *)
THEOREM HubMainAlternates == Spec => []MainAlternates
  BY HubInductive, PTL DEF HubInv
=============================================================================
