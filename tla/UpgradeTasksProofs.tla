------------------------- MODULE UpgradeTasksProofs -------------------------
(***************************************************************************)
(* Proofs about UpgradeTasks: the types of the state, what the store says  *)
(* of the watchers, the counter that limits the fetched tasks, and the     *)
(* truth of a row that says "ready".                                       *)
(*                                                                         *)
(* UpgradeInv is inductive.  What it adds to the properties: an entry of   *)
(* the store is under the hash of its task and its watcher lives (whatever *)
(* the tasks of one agent do to each other's entries), a task that was not *)
(* taken yet has no watcher, and a channel holds the version its task asks *)
(* for only if the agent, or a page under its hash, came with it.          *)
(***************************************************************************)
EXTENDS UpgradeTasks, FiniteSetTheorems, FunctionTheorems, NaturalsInduction,
        WellFoundedInduction, TLAPS

Watched == {t \in Task : watch[t] \in Live}

\* An entry of the store is under its own agent, and its watcher lives.
StoreSound ==
  \A k \in Agent \cup Id : store[k] # NoTask => /\ HashOf[store[k]] = k
                                               /\ watch[store[k]] \in Live

\* A row that was not taken has no watcher.
NotStarted == \A t \in Task : status[t] \in {"none", "new"} => watch[t] = "none"

\* A version in a channel is one that the agent came with, or a page of it.
ChanTruth == \A t \in Task : chan[t] = VersionOf[t] => Told(t)

\* processNewTasks ends when nothing is left to register or to signal.
BatchSound == \A b \in batches : b.todo = {} => b.gen = 0 /\ b.failed # {}

\* No agent has two tasks.
OneTaskEach == \A t, u \in Task : HashOf[t] = HashOf[u] => t = u

\* With one task per agent a live watcher has its entry.
WatchedStored == OneTaskEach => \A t \in Watched : store[HashOf[t]] = t

UpgradeInv ==
  /\ TypeOK /\ StoreSound /\ NotStarted /\ ChanTruth /\ BatchSound
  /\ WatchedStored /\ CountNeverHigh /\ ReadyTruth

------------------------------------------------------------------------------
(* Lemmas *)


(* A set of natural numbers that is not empty has a minimum.               *)
LEMMA LeastTask ==
  ASSUME NEW S \in SUBSET Nat, S # {}
  PROVE  Min(S) \in S /\ \A y \in S : Min(S) <= y
<1> DEFINE R == OpToRel(<, Nat)
<1>1. IsWellFoundedOn(R, Nat)
  BY NatLessThanWellFounded
<1> HIDE DEF R
<1>2. PICK x \in S : \A y \in S : ~ (<<y, x>> \in R)
  BY <1>1, WFMin
<1>3. \A y \in S : ~ (y < x)
  BY <1>2 DEF OpToRel, R
<1>4. \A y \in S : x <= y
  BY <1>3
<1> QED
  BY <1>4 DEF Min

(* A set of tasks that is not empty has a maximum: the least of its upper  *)
(* bounds.                                                                 *)
LEMMA LastTask ==
  ASSUME NEW S \in SUBSET Task, S # {}
  PROVE  Max(S) \in S
<1>0. NTasks \in Nat
  BY ConstAssumption
<1> DEFINE U == {n \in Nat : \A y \in S : y <= n}
<1>1. NTasks \in U
  BY <1>0 DEF Task
<1>3. PICK m \in U : \A n \in U : m <= n
  BY <1>1, LeastTask
<1>4. m \in S
  <2>1. SUFFICES ASSUME m \notin S PROVE FALSE
    OBVIOUS
  <2>2. \A y \in S : y <= m /\ y # m /\ y \in Nat /\ y >= 1
    BY <1>3, <2>1, <1>0 DEF Task
  <2>3. m - 1 \in U
    <3>1. m >= 1
      BY <2>2
    <3> QED
      BY <2>2, <3>1
  <2> QED
    BY <1>3, <2>3
<1>5. \A y \in S : m >= y
  BY <1>3, <1>0 DEF Task
<1> QED
  BY <1>4, <1>5 DEF Max

(* The tasks are finitely many.                                            *)
LEMMA TasksFinite ==
  ASSUME NEW S \in SUBSET Task
  PROVE  /\ IsFiniteSet(S)
         /\ Cardinality(S) \in Nat
         /\ Cardinality(S) <= NTasks
<1>1. IsFiniteSet(Task) /\ Cardinality(Task) = NTasks
  BY ConstAssumption, FS_Interval DEF Task
<1>2. IsFiniteSet(S) /\ Cardinality(S) <= NTasks
  BY <1>1, FS_Subset
<1> QED
  BY <1>2, FS_CardinalityType

(* Two new rows have two places, between 1 and the number of new rows.     *)
LEMMA RankInjective ==
  /\ \A t \in New : Rank(t) \in 1 .. Cardinality(New)
  /\ \A t, u \in New : Rank(t) = Rank(u) => t = u
<1> DEFINE Upto(t) == {u \in New : u <= t}
<1>0. New \in SUBSET Task /\ \A t \in New : t \in Nat
  BY ConstAssumption DEF New, Task
<1>1. ASSUME NEW t \in New
      PROVE  /\ IsFiniteSet(Upto(t)) /\ Rank(t) = Cardinality(Upto(t))
             /\ Rank(t) \in 1 .. Cardinality(New)
  <2>1. Upto(t) \in SUBSET New /\ Upto(t) \in SUBSET Task /\ t \in Upto(t)
    BY <1>0
  <2>2. IsFiniteSet(New) /\ Cardinality(New) \in Nat
    BY <1>0, TasksFinite
  <2>3. IsFiniteSet(Upto(t)) /\ Cardinality(Upto(t)) \in Nat
    BY <2>1, TasksFinite
  <2>4. Cardinality(Upto(t)) <= Cardinality(New)
    BY <2>1, <2>2, FS_Subset
  <2>5. Cardinality(Upto(t)) # 0
    BY <2>1, <2>3, FS_EmptySet
  <2>6. Rank(t) = Cardinality(Upto(t))
    BY DEF Rank
  <2> HIDE DEF Upto
  <2> QED
    BY <2>2, <2>3, <2>4, <2>5, <2>6
<1>2. ASSUME NEW t \in New, NEW u \in New, Rank(t) = Rank(u), t < u
      PROVE  FALSE
  <2>1. Upto(t) \in SUBSET Upto(u) /\ u \in Upto(u) /\ u \notin Upto(t)
    BY <1>0, <1>2
  <2>2. Cardinality(Upto(t)) = Cardinality(Upto(u)) /\ IsFiniteSet(Upto(u))
    BY <1>1, <1>2
  <2> HIDE DEF Upto
  <2>3. Upto(u) = Upto(t)
    BY <2>1, <2>2, FS_Subset
  <2> QED
    BY <2>1, <2>3
<1>3. ASSUME NEW t \in New, NEW u \in New, Rank(t) = Rank(u)
      PROVE  t = u
  BY <1>0, <1>2, <1>3
<1> QED
  BY <1>1, <1>3

(* The window of fetchTasks never reaches behind the last row.             *)
LEMMA WindowFits ==
  ASSUME ConsumerOK
  PROVE  /\ FetchNew \in SUBSET New
         /\ Cardinality(FetchNew) \in Nat
         /\ offset + Cardinality(FetchNew) <= NTasks
<1>0. FetchNew \in SUBSET New /\ FetchNew \in SUBSET Task /\ New \in SUBSET Task
  BY DEF FetchNew, New
<1>1. IsFiniteSet(FetchNew) /\ Cardinality(FetchNew) \in Nat
  BY <1>0, TasksFinite
<1>2. PICK n : n = Cardinality(New) /\ n \in Nat /\ n <= NTasks
  BY <1>0, TasksFinite
<1>3. offset \in Nat /\ offset <= NTasks /\ NTasks \in Nat
  BY ConstAssumption DEF ConsumerOK
<1> DEFINE W == (offset + 1) .. n
           f == [t \in FetchNew |-> Rank(t)]
<1>4. f \in Injection(FetchNew, W)
  <2>1. \A t \in FetchNew : f[t] \in W
    <3> SUFFICES ASSUME NEW t \in FetchNew PROVE Rank(t) \in W
      OBVIOUS
    <3>1. Rank(t) \in 1 .. n /\ offset < Rank(t)
      BY <1>0, <1>2, RankInjective DEF FetchNew
    <3> QED
      BY <3>1, <1>2, <1>3
  <2>2. \A t, u \in FetchNew : f[t] = f[u] => t = u
    BY <1>0, RankInjective
  <2>3. f \in [FetchNew -> W]
    BY <2>1
  <2> HIDE DEF f, W
  <2> QED
    BY <2>2, <2>3 DEF Injection, IsInjective
<1>5. IsFiniteSet(W) /\ Cardinality(W) = IF offset + 1 > n THEN 0 ELSE n - (offset + 1) + 1
  <2>1. offset + 1 \in Int /\ n \in Int
    BY <1>2, <1>3
  <2> QED
    BY <2>1, FS_Interval
<1>6. Cardinality(FetchNew) <= Cardinality(W)
  <2> HIDE DEF f, W
  <2> QED
    BY <1>4, <1>5, FS_Injection
<1> HIDE DEF f, W
<1> QED
  BY <1>0, <1>1, <1>2, <1>3, <1>5, <1>6

(* What a step leaves alone keeps the parts of the invariant about it.     *)
LEMMA Frames ==
  /\ RowsOK /\ UNCHANGED status => RowsOK'
  /\ AgentsOK /\ UNCHANGED agents => AgentsOK'
  /\ TasksOK /\ UNCHANGED tasks => TasksOK'
  /\ ConsumerOK /\ UNCHANGED consumer => ConsumerOK'
  /\ BoundsOK /\ UNCHANGED <<stop, heard, fails, crashes>> => BoundsOK'
  /\ StoreSound /\ UNCHANGED <<store, watch>> => StoreSound'
  /\ NotStarted /\ UNCHANGED <<status, watch>> => NotStarted'
  /\ ChanTruth /\ UNCHANGED <<chan, heard>> => ChanTruth'
  /\ BatchSound /\ UNCHANGED batches => BatchSound'
  /\ WatchedStored /\ UNCHANGED <<store, watch>> => WatchedStored'
  /\ CountNeverHigh /\ UNCHANGED <<count, watch>> => CountNeverHigh'
  /\ ReadyTruth /\ UNCHANGED <<status, heard>> => ReadyTruth'
<1>1. RowsOK /\ UNCHANGED status => RowsOK'
  BY DEF RowsOK
<1>2. AgentsOK /\ UNCHANGED agents => AgentsOK'
  BY DEF AgentsOK, agents
<1>3. TasksOK /\ UNCHANGED tasks => TasksOK'
  BY DEF TasksOK, tasks
<1>4. ConsumerOK /\ UNCHANGED consumer => ConsumerOK'
  BY DEF ConsumerOK, consumer
<1>5. BoundsOK /\ UNCHANGED <<stop, heard, fails, crashes>> => BoundsOK'
  BY DEF BoundsOK, heard
<1>6. StoreSound /\ UNCHANGED <<store, watch>> => StoreSound'
  BY DEF StoreSound
<1>7. NotStarted /\ UNCHANGED <<status, watch>> => NotStarted'
  BY DEF NotStarted
<1>8. ChanTruth /\ UNCHANGED <<chan, heard>> => ChanTruth'
  BY DEF ChanTruth, Told, heard
<1>9. BatchSound /\ UNCHANGED batches => BatchSound'
  BY DEF BatchSound
<1>10. WatchedStored /\ UNCHANGED <<store, watch>> => WatchedStored'
  BY DEF WatchedStored, Watched
<1>11. CountNeverHigh /\ UNCHANGED <<count, watch>> => CountNeverHigh'
  BY DEF CountNeverHigh
<1>12. ReadyTruth /\ UNCHANGED <<status, heard>> => ReadyTruth'
  BY DEF ReadyTruth, Told, heard
<1> QED
  BY <1>1, <1>2, <1>3, <1>4, <1>5, <1>6, <1>7, <1>8, <1>9, <1>10, <1>11, <1>12

(* sendTaskSignal writes to the channel of a task of that agent which is   *)
(* still watched, or to none.                                              *)
LEMMA SignalSound ==
  ASSUME TasksOK, StoreSound, NEW a \in Agent, NEW ev \in {"fail"} \cup Version, Signal(a, ev)
  PROVE  /\ chan' \in [Task -> ChanState \cup Version]
         /\ \A t \in Task : \/ chan'[t] = chan[t]
                            \/ chan'[t] = ev /\ HashOf[t] = a /\ watch[t] \in Live
<1>1. store[a] \in Task \cup {NoTask}
  BY DEF TasksOK
<1>2. store[a] # NoTask => HashOf[store[a]] = a /\ watch[store[a]] \in Live
  BY DEF StoreSound
<1>3. chan \in [Task -> ChanState \cup Version] /\ ev \in ChanState \cup Version
  BY DEF TasksOK, ChanState
<1> QED
  BY <1>1, <1>2, <1>3 DEF Signal

\* The effect of startTask on a set of tasks.
Started(ts, st, ch, w) ==
  /\ store' \in [Agent \cup Id -> Task \cup {NoTask}]
  /\ chan' \in [Task -> ChanState \cup Version]
  /\ watch' \in [Task -> {"none", "gone"} \cup Live]
  /\ \A k \in Agent \cup Id : \/ store'[k] \in ts /\ HashOf[store'[k]] = k
                              \/ store'[k] = st[k] /\ \A t \in ts : HashOf[t] # k
  /\ \A t \in ts : watch'[t] = "wait" /\ chan'[t] = "open"
  /\ \A t \in Task \ ts : watch'[t] = w[t] /\ chan'[t] = ch[t]

(* startTask for a set of tasks: each has an open channel and a watcher,   *)
(* and the last one of an agent has the entry.                             *)
LEMMA StartSound ==
  ASSUME NEW ts \in SUBSET Task, NEW st \in [Agent \cup Id -> Task \cup {NoTask}],
         NEW ch \in [Task -> ChanState \cup Version],
         NEW w \in [Task -> {"none", "gone"} \cup Live],
         StartTasks(ts, st, ch, w)
  PROVE  Started(ts, st, ch, w)
<1> DEFINE Own(k) == {t \in ts : HashOf[t] = k}
<1>1. ASSUME NEW k \in Agent \cup Id
      PROVE  \/ store'[k] \in ts /\ HashOf[store'[k]] = k
             \/ store'[k] = st[k] /\ \A t \in ts : HashOf[t] # k
  <2>1. store'[k] = IF \E t \in ts : HashOf[t] = k THEN Max(Own(k)) ELSE st[k]
    BY DEF StartTasks
  <2>2. CASE \E t \in ts : HashOf[t] = k
    <3>1. Own(k) \in SUBSET Task /\ Own(k) # {}
      BY <2>2
    <3>2. Max(Own(k)) \in Own(k)
      BY <3>1, LastTask
    <3> QED
      BY <2>1, <2>2, <3>2
  <2> QED
    BY <2>1, <2>2
<1>2. \A t \in ts : watch'[t] = "wait" /\ chan'[t] = "open"
  BY DEF StartTasks
<1>3. \A t \in Task \ ts : watch'[t] = w[t] /\ chan'[t] = ch[t]
  BY DEF StartTasks
<1>4. DOMAIN store' = Agent \cup Id /\ store' = [k \in Agent \cup Id |-> store'[k]]
  BY DEF StartTasks
<1>5. store' \in [Agent \cup Id -> Task \cup {NoTask}]
  BY <1>1, <1>4
<1>6. watch' \in [Task -> {"none", "gone"} \cup Live]
  BY DEF StartTasks, Live
<1>7. chan' \in [Task -> ChanState \cup Version]
  BY DEF StartTasks, ChanState
<1> QED
  BY <1>1, <1>2, <1>3, <1>5, <1>6, <1>7 DEF Started

(* A batch that loses a task or gets a connection stays a batch.           *)
LEMMA StepSound ==
  ASSUME ConsumerOK, BatchSound, NEW b \in batches, NEW c \in Batch, Step(b, c),
         c.gen # 0 => c.todo # {}
  PROVE  batches' \subseteq Batch /\ BatchSound'
<1>1. \A d \in batches' : d \in batches \/ (d = c /\ ~(c.todo = {} /\ c.failed = {}))
  BY DEF Step
<1> QED
  BY <1>1 DEF BatchSound, ConsumerOK

(* Each step keeps the invariant.                                          *)
LEMMA UpgradeNext ==
  ASSUME UpgradeInv, [Next]_vars
  PROVE  UpgradeInv'
<1>0. /\ RowsOK /\ AgentsOK /\ TasksOK /\ ConsumerOK /\ BoundsOK
      /\ StoreSound /\ NotStarted /\ ChanTruth /\ BatchSound
      /\ WatchedStored /\ CountNeverHigh /\ ReadyTruth
  BY DEF UpgradeInv, TypeOK
<1>c. /\ HashOf \in [Task -> Agent] /\ VersionOf \in [Task -> Version]
      /\ Version \cap ChanState = {} /\ Agent \cap Id = {} /\ None \notin Agent
      /\ ServerVersion \in Version /\ MaxFails \in Nat /\ MaxCrashes \in Nat /\ NTasks \in Nat
  BY ConstAssumption
<1>t. /\ IsFiniteSet(Watched) /\ Cardinality(Watched) \in Nat
      /\ Cardinality(Watched)' = Cardinality(Watched')
      /\ CountNeverHigh <=> count <= Cardinality(Watched)
      /\ CountNeverHigh' <=> count' <= Cardinality(Watched')
  BY TasksFinite DEF Watched, CountNeverHigh
<1>p. ASSUME RowsOK', AgentsOK', TasksOK', ConsumerOK', BoundsOK', StoreSound', NotStarted',
             ChanTruth', BatchSound', WatchedStored', CountNeverHigh', ReadyTruth'
      PROVE  UpgradeInv'
  BY <1>p DEF UpgradeInv, TypeOK
<1>a1. ASSUME NEW t \in Task, AddTask(t)
       PROVE  UpgradeInv'
  <2>1. UNCHANGED <<agents, tasks, consumer, stop, heard, fails, crashes, store, chan, watch, count,
                    batches>>
    BY <1>a1 DEF AddTask, tasks, consumer
  <2>2. status' \in [Task -> {"none", "new", "running", "ready", "failed"}]
    BY <1>0, <1>a1 DEF RowsOK, AddTask
  <2>3. \A u \in Task : IF u = t THEN status'[u] = "new" /\ status[u] = "none"
                                 ELSE status'[u] = status[u]
    BY <1>0, <1>a1 DEF RowsOK, AddTask
  <2>4. RowsOK' /\ NotStarted' /\ ReadyTruth'
    BY <1>0, <2>1, <2>2, <2>3 DEF RowsOK, NotStarted, ReadyTruth, Told, heard
  <2> QED
    BY <1>0, <1>p, <2>1, <2>4, Frames
<1>a2. ASSUME NEW t \in Task, Cancel(t)
       PROVE  UpgradeInv'
  <2>1. UNCHANGED <<agents, tasks, consumer, stop, heard, fails, crashes, store, chan, watch, count,
                    batches>>
    BY <1>a2 DEF Cancel, tasks, consumer
  <2>2. status' \in [Task -> {"none", "new", "running", "ready", "failed"}]
    BY <1>0, <1>a2 DEF RowsOK, Cancel
  <2>3. \A u \in Task : status'[u] = "failed" \/ status'[u] = status[u]
    BY <1>0, <1>a2 DEF RowsOK, Cancel
  <2>4. RowsOK' /\ NotStarted' /\ ReadyTruth'
    BY <1>0, <2>1, <2>2, <2>3 DEF RowsOK, NotStarted, ReadyTruth, Told, heard
  <2> QED
    BY <1>0, <1>p, <2>1, <2>4, Frames
<1>a3. ASSUME NEW a \in Agent, Connect(a)
       PROVE  UpgradeInv'
  <2>1. UNCHANGED <<status, fails, tasks, consumer, stop, heard, crashes, store, chan, watch, count,
                    batches>>
    BY <1>a3 DEF Connect, rows, tasks, consumer
  <2>2. AgentsOK'
    <3>1. gen[a] + 1 \in Nat
      BY <1>0, <1>c, <1>a3 DEF Connect, AgentsOK
    <3> QED
      BY <3>1, <1>0, <1>a3 DEF Connect, AgentsOK
  <2> QED
    BY <1>0, <1>p, <2>1, <2>2, Frames
<1>a4. CASE SignalConnection
  <2>1. UNCHANGED <<status, fails, online, viewers, gen, ver, pushed, store, watch, count, consumer,
                    stop, crashes, batches>>
    BY <1>a4 DEF SignalConnection, rows, consumer
  <2>2. arriving \in Agent /\ InfoVer \in Version /\ Signal(arriving, InfoVer)
    BY <1>0, <1>a4, <1>c DEF SignalConnection, AgentsOK, InfoVer
  <2>3. /\ chan' \in [Task -> ChanState \cup Version]
        /\ \A t \in Task : \/ chan'[t] = chan[t]
                           \/ chan'[t] = InfoVer /\ HashOf[t] = arriving /\ watch[t] \in Live
    BY <1>0, <2>2, SignalSound
  <2>4. Heard \subseteq Task /\ \A t \in Heard : page => VersionOf[t] = ServerVersion
    BY DEF Heard, InfoVer
  <2>5. /\ came \subseteq came' /\ came' \subseteq Task
        /\ viewed \subseteq viewed' /\ viewed' \subseteq Task
        /\ \A t \in Heard : t \in came' \/ (t \in viewed' /\ VersionOf[t] = ServerVersion)
    <3>1. CASE page
      BY <1>0, <1>a4, <2>4, <3>1 DEF SignalConnection, BoundsOK
    <3>2. CASE ~page
      BY <1>0, <1>a4, <2>4, <3>2 DEF SignalConnection, BoundsOK
    <3> QED
      BY <3>1, <3>2
  <2>6. \A t \in Task : Told(t) \/ t \in Heard => Told(t)'
    BY <2>5 DEF Told
  <2>7. AgentsOK'
    BY <1>0, <1>a4, <2>1 DEF SignalConnection, AgentsOK
  <2>8. TasksOK'
    BY <1>0, <2>1, <2>3 DEF TasksOK
  <2>9. BoundsOK'
    BY <1>0, <2>1, <2>5 DEF BoundsOK
  <2>10. ReadyTruth'
    BY <1>0, <2>1, <2>6 DEF ReadyTruth
  <2>11. ChanTruth'
    <3>1. \A t \in Task : \/ chan'[t] = chan[t]
                          \/ chan'[t] = VersionOf[t] => t \in Heard
      BY <2>3 DEF Heard
    <3> QED
      BY <1>0, <2>6, <3>1 DEF ChanTruth
  <2> QED
    BY <1>0, <1>p, <2>1, <2>7, <2>8, <2>9, <2>10, <2>11, Frames
<1>p1. ASSUME NEW a \in Agent, OpenPage(a) \/ ClosePage(a)
       PROVE  UpgradeInv'
  <2>1. UNCHANGED <<status, fails, online, gen, ver, pushed, tasks, consumer, stop, heard, crashes,
                    store, chan, watch, count, batches>>
    BY <1>p1 DEF OpenPage, ClosePage, rows, tasks, consumer
  <2>2. AgentsOK'
    BY <1>0, <1>p1, <2>1 DEF OpenPage, ClosePage, AgentsOK
  <2> QED
    BY <1>0, <1>p, <2>1, <2>2, Frames
<1>a5. ASSUME NEW a \in Agent, Disconnect(a)
       PROVE  UpgradeInv'
  <2>1. UNCHANGED <<status, fails, viewers, arriving, page, gen, ver, pushed, tasks, consumer, stop,
                    heard, crashes, store, chan, watch, count, batches>>
    BY <1>a5 DEF Disconnect, rows, tasks, consumer
  <2>2. AgentsOK'
    BY <1>0, <1>a5, <2>1 DEF Disconnect, AgentsOK
  <2> QED
    BY <1>0, <1>p, <2>1, <2>2, Frames
<1>n. ASSUME NEW ok \in BOOLEAN, Outcome(ok)
      PROVE  fails' \in 0 .. MaxFails
  BY <1>0, <1>c, <1>n DEF Outcome, BoundsOK
<1>a6. CASE Poll
  <2>1. UNCHANGED <<agents, req, stop, heard, crashes>>
    BY <1>a6 DEF Poll
  <2>2. PICK fetched \in BOOLEAN, written \in BOOLEAN :
          LET ts == IF fetched THEN FilterTasks(FetchNew) ELSE {} IN
            /\ ts = {} => written
            /\ Outcome(fetched /\ written)
            /\ offset' = IF fetched THEN NewOffset(Cardinality(FetchNew)) ELSE offset
            /\ IF ts # {} /\ written
                 THEN /\ status' = [t \in Task |-> IF t \in ts THEN "running" ELSE status[t]]
                      /\ StartTasks(ts, store, chan, watch)
                      /\ count' = count + Cardinality(ts)
                      /\ batches' = batches \cup {[todo |-> ts, gen |-> 0, failed |-> {}]}
                 ELSE UNCHANGED <<status, tasks, batches>>
    BY <1>a6 DEF Poll
  <2>3. PICK ts : ts = IF fetched THEN FilterTasks(FetchNew) ELSE {}
    OBVIOUS
  <2>4. offset' \in 0 .. NTasks
    <3>1. /\ Cardinality(FetchNew) \in Nat /\ offset + Cardinality(FetchNew) <= NTasks
          /\ offset \in 0 .. NTasks
      BY <1>0, WindowFits DEF ConsumerOK
    <3>2. offset' \in {0, offset, offset + Cardinality(FetchNew)}
      BY <2>2 DEF NewOffset
    <3> QED
      BY <3>1, <3>2, <1>c
  <2>5. BoundsOK'
    <3>1. fails' \in 0 .. MaxFails
      BY <1>n, <2>2
    <3> QED
      BY <1>0, <2>1, <3>1 DEF BoundsOK, heard
  <2>6. CASE UNCHANGED <<status, tasks, batches>>
    <3>1. UNCHANGED <<status, tasks, batches, store, chan, watch, count>>
      BY <2>6 DEF tasks
    <3>2. ConsumerOK'
      BY <1>0, <2>1, <2>4, <3>1 DEF ConsumerOK
    <3> QED
      BY <1>0, <1>p, <2>1, <2>5, <3>1, <3>2, Frames
  <2>7. CASE /\ ts # {}
             /\ status' = [t \in Task |-> IF t \in ts THEN "running" ELSE status[t]]
             /\ StartTasks(ts, store, chan, watch)
             /\ count' = count + Cardinality(ts)
             /\ batches' = batches \cup {[todo |-> ts, gen |-> 0, failed |-> {}]}
    <3>1. ts \in SUBSET New /\ ts \in SUBSET Task
      BY <2>3, <1>0, WindowFits DEF FilterTasks, New
    <3>2. \A t \in ts : status[t] = "new" /\ watch[t] = "none"
      BY <3>1, <1>0 DEF NotStarted, New
    <3>3. /\ store' \in [Agent \cup Id -> Task \cup {NoTask}]
          /\ chan' \in [Task -> ChanState \cup Version]
          /\ watch' \in [Task -> {"none", "gone"} \cup Live]
          /\ \A k \in Agent \cup Id : \/ store'[k] \in ts /\ HashOf[store'[k]] = k
                                      \/ store'[k] = store[k] /\ \A t \in ts : HashOf[t] # k
          /\ \A t \in ts : watch'[t] = "wait" /\ chan'[t] = "open"
          /\ \A t \in Task \ ts : watch'[t] = watch[t] /\ chan'[t] = chan[t]
      <4>1. /\ store \in [Agent \cup Id -> Task \cup {NoTask}]
            /\ chan \in [Task -> ChanState \cup Version]
            /\ watch \in [Task -> {"none", "gone"} \cup Live]
        BY <1>0 DEF TasksOK
      <4>2. StartTasks(ts, store, chan, watch)
        BY <2>7
      <4>3. Started(ts, store, chan, watch)
        BY <3>1, <4>1, <4>2, StartSound
      <4> QED
        BY <4>3 DEF Started
    <3>4. IsFiniteSet(ts) /\ Cardinality(ts) \in Nat
      BY <3>1, TasksFinite
    <3>5. TasksOK'
      BY <1>0, <2>7, <3>3, <3>4 DEF TasksOK
    <3>6. RowsOK' /\ NotStarted' /\ ReadyTruth'
      BY <1>0, <2>1, <2>7, <3>1, <3>3 DEF RowsOK, NotStarted, ReadyTruth, Told, heard
    <3>7. ConsumerOK' /\ BatchSound'
      <4>1. batches' \subseteq Batch
        BY <1>0, <1>c, <2>7, <3>1 DEF ConsumerOK, Batch
      <4>2. ConsumerOK'
        BY <1>0, <2>1, <2>4, <4>1 DEF ConsumerOK
      <4>3. BatchSound'
        BY <1>0, <2>7 DEF BatchSound
      <4> QED
        BY <4>2, <4>3
    <3>8. StoreSound'
      <4> SUFFICES ASSUME NEW k \in Agent \cup Id, store'[k] # NoTask
                   PROVE  HashOf[store'[k]] = k /\ watch'[store'[k]] \in Live
        BY DEF StoreSound
      <4>1. CASE store'[k] \in ts /\ HashOf[store'[k]] = k
        BY <3>3, <4>1 DEF Live
      <4>2. CASE store'[k] = store[k]
        <5>1. HashOf[store[k]] = k /\ watch[store[k]] \in Live /\ store[k] \in Task
          BY <1>0, <4>2 DEF StoreSound, TasksOK
        <5>2. watch[store[k]] # "none"
          BY <5>1 DEF Live
        <5> QED
          BY <3>2, <3>3, <4>2, <5>1, <5>2
      <4> QED
        BY <3>3, <4>1, <4>2
    <3>9. ChanTruth'
      <4>1. \A t \in Task : VersionOf[t] # "open"
        BY <1>c DEF ChanState
      <4> QED
        BY <1>0, <2>1, <3>3, <4>1 DEF ChanTruth, Told, heard
    <3>10. Watched' = Watched \cup ts /\ Watched \cap ts = {}
      BY <3>1, <3>2, <3>3 DEF Watched, Live
    <3>11. CountNeverHigh'
      <4>1. Cardinality(Watched') = Cardinality(Watched) + Cardinality(ts)
        <5>1. Cardinality(Watched \cap ts) = 0
          BY <3>10, FS_EmptySet
        <5>2. Cardinality(Watched \cup ts)
                = Cardinality(Watched) + Cardinality(ts) - Cardinality(Watched \cap ts)
          BY <1>t, <3>4, FS_Union
        <5> QED
          BY <1>t, <3>4, <3>10, <5>1, <5>2
      <4>2. count \in Int
        BY <1>0 DEF TasksOK
      <4> QED
        BY <1>0, <1>t, <2>7, <3>4, <4>1, <4>2
    <3>12. WatchedStored'
      <4> SUFFICES ASSUME OneTaskEach, NEW t \in Watched'
                   PROVE  store'[HashOf[t]] = t
        BY DEF WatchedStored, OneTaskEach
      <4>1. t \in Task /\ HashOf[t] \in Agent \cup Id
        BY <1>c, <3>10, <3>1 DEF Watched
      <4>2. CASE t \in ts
        BY <3>1, <3>3, <4>1, <4>2 DEF OneTaskEach
      <4>3. CASE t \in Watched /\ t \notin ts
        <5>1. store[HashOf[t]] = t
          BY <1>0, <4>3 DEF WatchedStored
        <5> QED
          BY <3>1, <3>3, <4>1, <4>3, <5>1 DEF OneTaskEach
      <4> QED
        BY <3>10, <4>2, <4>3
    <3>13. AgentsOK'
      BY <1>0, <2>1, Frames
    <3> QED
      BY <1>p, <2>5, <3>5, <3>6, <3>7, <3>8, <3>9, <3>11, <3>12, <3>13
  <2>8. CASE ts # {} /\ written
    BY <2>2, <2>3, <2>7, <2>8
  <2>9. CASE ~(ts # {} /\ written)
    BY <2>2, <2>3, <2>6, <2>9
  <2> QED
    BY <2>8, <2>9
<1>b. ASSUME NEW b \in batches
      PROVE  /\ b \in Batch /\ b.todo \in SUBSET Task /\ b.failed \in SUBSET Task
             /\ b.todo # {} => Min(b.todo) \in b.todo
             /\ b.failed # {} => Min(b.failed) \in b.failed
             /\ b = [todo |-> b.todo, gen |-> b.gen, failed |-> b.failed]
  <2>1. /\ b \in Batch /\ b.todo \in SUBSET Task /\ b.failed \in SUBSET Task
        /\ b = [todo |-> b.todo, gen |-> b.gen, failed |-> b.failed]
    BY <1>0 DEF ConsumerOK, Batch
  <2>2. b.todo \in SUBSET Nat /\ b.failed \in SUBSET Nat
    BY <1>c, <2>1 DEF Task
  <2> QED
    BY <2>1, <2>2, LeastTask
<1>a7. ASSUME NEW b \in batches, BatchLookup(b)
       PROVE  UpgradeInv'
  <2>1. UNCHANGED <<status, fails, agents, tasks, offset, req, stop, heard, crashes, store, chan,
                    watch, count>>
    BY <1>a7 DEF BatchLookup, rows, tasks
  <2>2. PICK t \in Task : t = Min(b.todo) /\ t \in b.todo
    BY <1>a7, <1>b DEF BatchLookup
  <2>3. PICK c : /\ c = IF HashOf[t] \in online
                          THEN [b EXCEPT !.gen = gen[HashOf[t]]]
                          ELSE [b EXCEPT !.todo = @ \ {t}, !.failed = @ \cup {t}]
                 /\ Step(b, c)
    BY <1>a7, <2>2 DEF BatchLookup
  <2>4. b.gen = 0 /\ gen[HashOf[t]] \in Nat /\ b \in Batch /\ 0 \in Nat
    BY <1>0, <1>a7, <1>b, <1>c DEF BatchLookup, AgentsOK
  <2>5. c \in Batch /\ (c.gen # 0 => c.todo # {})
    BY <2>2, <2>3, <2>4 DEF Batch
  <2>6. batches' \subseteq Batch /\ BatchSound'
    BY <1>0, <2>3, <2>5, StepSound
  <2>7. ConsumerOK'
    BY <1>0, <2>1, <2>6 DEF ConsumerOK
  <2> QED
    BY <1>0, <1>p, <2>1, <2>6, <2>7, Frames
<1>a8. ASSUME NEW b \in batches, BatchSend(b)
       PROVE  UpgradeInv'
  <2>1. UNCHANGED <<status, fails, agents, tasks, offset, stop, heard, crashes, store, chan, watch,
                    count>>
    BY <1>a8 DEF BatchSend, rows, tasks
  <2>2. b.todo # {}
    BY <1>0, <1>a8 DEF BatchSend, BatchSound
  <2>3. PICK t \in Task : t = Min(b.todo) /\ t \in b.todo
    BY <1>b, <2>2
  <2>4. PICK c : c = [b EXCEPT !.todo = @ \ {t}, !.gen = 0] /\ Step(b, c)
    BY <1>a8, <2>3 DEF BatchSend
  <2>5. c \in Batch /\ c.gen = 0
    <3>1. /\ b = [todo |-> b.todo, gen |-> b.gen, failed |-> b.failed]
          /\ b.todo \in SUBSET Task /\ b.failed \in SUBSET Task /\ 0 \in Nat
      BY <1>b, <1>c
    <3>2. c = [todo |-> b.todo \ {t}, gen |-> 0, failed |-> b.failed]
      BY <2>4, <3>1
    <3> QED
      BY <3>1, <3>2 DEF Batch
  <2>6. batches' \subseteq Batch /\ BatchSound'
    BY <1>0, <2>4, <2>5, StepSound
  <2>7. req' \in [Task -> {"none", "run", "done"}]
    BY <1>0, <1>a8, <2>3 DEF BatchSend, ConsumerOK
  <2>8. ConsumerOK'
    BY <1>0, <2>1, <2>6, <2>7 DEF ConsumerOK
  <2> QED
    BY <1>0, <1>p, <2>1, <2>6, <2>8, Frames
<1>f. ASSUME NEW t \in Task, Signal(HashOf[t], "fail"), UNCHANGED <<store, watch, heard>>,
             count' \in Int
      PROVE  TasksOK' /\ ChanTruth'
  <2>1. /\ chan' \in [Task -> ChanState \cup Version]
        /\ \A u \in Task : chan'[u] = chan[u] \/ chan'[u] = "fail"
    BY <1>0, <1>c, <1>f, SignalSound
  <2>2. \A u \in Task : VersionOf[u] # "fail"
    BY <1>c DEF ChanState
  <2> QED
    BY <1>0, <1>f, <2>1, <2>2 DEF TasksOK, ChanTruth, Told, heard
<1>a9. ASSUME NEW b \in batches, BatchSignal(b)
       PROVE  UpgradeInv'
  <2>1. UNCHANGED <<status, fails, agents, offset, req, stop, heard, crashes, store, watch, count>>
    BY <1>a9 DEF BatchSignal, rows
  <2>2. b.failed # {} /\ b.gen = 0
    BY <1>0, <1>a9 DEF BatchSignal, BatchSound
  <2>3. PICK t \in Task : t = Min(b.failed) /\ t \in b.failed
    BY <1>b, <2>2
  <2>4. PICK c : c = [b EXCEPT !.failed = @ \ {t}] /\ Step(b, c)
    BY <1>a9, <2>3 DEF BatchSignal
  <2>5. c \in Batch /\ c.gen = 0
    <3>1. /\ b = [todo |-> b.todo, gen |-> b.gen, failed |-> b.failed]
          /\ b.todo \in SUBSET Task /\ b.failed \in SUBSET Task /\ 0 \in Nat
      BY <1>b, <1>c
    <3>2. c = [todo |-> b.todo, gen |-> 0, failed |-> b.failed \ {t}]
      BY <2>2, <2>4, <3>1
    <3> QED
      BY <3>1, <3>2 DEF Batch
  <2>6. batches' \subseteq Batch /\ BatchSound'
    BY <1>0, <2>4, <2>5, StepSound
  <2>7. ConsumerOK'
    BY <1>0, <2>1, <2>6 DEF ConsumerOK
  <2>8. Signal(HashOf[t], "fail") /\ count' \in Int
    BY <1>0, <1>a9, <2>1, <2>3 DEF BatchSignal, TasksOK
  <2>9. TasksOK' /\ ChanTruth'
    BY <1>f, <2>1, <2>8
  <2> QED
    BY <1>0, <1>p, <2>1, <2>6, <2>7, <2>9, Frames
<1>d. ASSUME count' = count - 1, UNCHANGED watch
      PROVE  CountNeverHigh' /\ count' \in Int
  <2>1. count \in Int /\ Watched' = Watched
    BY <1>0, <1>d DEF TasksOK, Watched
  <2> QED
    BY <1>0, <1>d, <1>t, <2>1
<1>a10. ASSUME NEW t \in Task, RequestDone(t)
        PROVE  UpgradeInv'
  <2>1. UNCHANGED <<status, fails, online, viewers, arriving, page, gen, ver, store, chan, watch,
                    offset, batches, stop, heard, crashes>>
    BY <1>a10 DEF RequestDone, rows
  <2>2. AgentsOK'
    BY <1>0, <1>a10, <1>c, <2>1 DEF RequestDone, AgentsOK
  <2>3. ConsumerOK'
    BY <1>0, <1>a10, <2>1 DEF RequestDone, ConsumerOK
  <2>4. CountNeverHigh' /\ count' \in Int
    BY <1>a10, <1>d, <2>1 DEF RequestDone
  <2>5. TasksOK'
    BY <1>0, <2>1, <2>4 DEF TasksOK
  <2> QED
    BY <1>0, <1>p, <2>1, <2>2, <2>3, <2>4, <2>5, Frames
<1>a11. ASSUME NEW t \in Task, RequestFails(t)
        PROVE  UpgradeInv'
  <2>1. UNCHANGED <<status, fails, online, viewers, arriving, page, gen, ver, store, watch, offset,
                    batches, stop, heard, crashes>>
    BY <1>a11 DEF RequestFails, rows
  <2>2. AgentsOK'
    <3>1. pushed' \in [Agent -> SUBSET Version]
      BY <1>0, <1>a11, <1>c DEF RequestFails, AgentsOK
    <3> QED
      BY <1>0, <2>1, <3>1 DEF AgentsOK
  <2>3. ConsumerOK'
    BY <1>0, <1>a11, <2>1 DEF RequestFails, ConsumerOK
  <2>4. CountNeverHigh' /\ count' \in Int
    BY <1>a11, <1>d, <2>1 DEF RequestFails
  <2>5. TasksOK' /\ ChanTruth'
    <3>1. CASE Signal(HashOf[t], "fail")
      BY <1>f, <2>1, <2>4, <3>1
    <3>2. CASE UNCHANGED chan
      BY <1>0, <2>1, <2>4, <3>2 DEF TasksOK, ChanTruth, Told, heard
    <3> QED
      BY <1>a11, <3>1, <3>2 DEF RequestFails
  <2> QED
    BY <1>0, <1>p, <2>1, <2>2, <2>3, <2>4, <2>5, Frames
<1>w. ASSUME NEW t \in Task, watch[t] = "wait", NEW to \in {"got", "late"},
             watch' = [watch EXCEPT ![t] = to], UNCHANGED <<store, chan, count, status>>
      PROVE  TasksOK' /\ StoreSound' /\ NotStarted' /\ CountNeverHigh' /\ WatchedStored'
  <2>1. /\ watch' \in [Task -> {"none", "gone"} \cup Live]
        /\ \A u \in Task : watch'[u] = IF u = t THEN to ELSE watch[u]
    BY <1>0, <1>w DEF TasksOK, Live
  <2>2. \A u \in Task : watch'[u] \in Live <=> watch[u] \in Live
    BY <1>w, <2>1 DEF Live
  <2>3. Watched' = Watched
    BY <2>2 DEF Watched
  <2>4. TasksOK'
    BY <1>0, <1>w, <2>1 DEF TasksOK
  <2>5. StoreSound'
    BY <1>0, <1>w, <2>2 DEF StoreSound, TasksOK
  <2>6. NotStarted'
    BY <1>0, <1>w, <2>1 DEF NotStarted
  <2>7. CountNeverHigh'
    BY <1>0, <1>t, <1>w, <2>3
  <2>8. WatchedStored'
    BY <1>0, <1>w, <2>3 DEF WatchedStored
  <2> QED
    BY <2>4, <2>5, <2>6, <2>7, <2>8
<1>a12. ASSUME NEW t \in Task, WatchWake(t) \/ WatchTimeout(t)
        PROVE  UpgradeInv'
  <2>1. UNCHANGED <<status, fails, agents, store, chan, count, consumer, stop, heard, crashes,
                    batches>>
    BY <1>a12 DEF WatchWake, WatchTimeout, rows, consumer
  <2>2. TasksOK' /\ StoreSound' /\ NotStarted' /\ CountNeverHigh' /\ WatchedStored'
    BY <1>a12, <1>w, <2>1 DEF WatchWake, WatchTimeout
  <2> QED
    BY <1>0, <1>p, <2>1, <2>2, Frames
<1>a13. ASSUME NEW t \in Task, WatchFinish(t)
        PROVE  UpgradeInv'
  <2>1. UNCHANGED <<agents, chan, consumer, stop, heard, crashes, batches>>
    BY <1>a13 DEF WatchFinish, consumer
  <2>2. PICK ok \in BOOLEAN :
          Outcome(ok) /\ status' = IF ok THEN [status EXCEPT ![t] = Verdict(t)] ELSE status
    BY <1>a13 DEF WatchFinish
  <2>3. /\ watch[t] \in Live /\ watch[t] # "none"
        /\ watch' = [watch EXCEPT ![t] = "gone"] /\ count' = count - 1
        /\ store' = [store EXCEPT ![HashOf[t]] = NoTask]
    BY <1>a13 DEF WatchFinish, Live
  <2>4. /\ watch' \in [Task -> {"none", "gone"} \cup Live]
        /\ \A u \in Task : watch'[u] = IF u = t THEN "gone" ELSE watch[u]
    BY <1>0, <2>3 DEF TasksOK
  <2>5. /\ store' \in [Agent \cup Id -> Task \cup {NoTask}]
        /\ \A k \in Agent \cup Id : store'[k] = IF k = HashOf[t] THEN NoTask ELSE store[k]
    BY <1>0, <2>3 DEF TasksOK
  <2>6. /\ status' \in [Task -> {"none", "new", "running", "ready", "failed"}]
        /\ \A u \in Task : \/ status'[u] = status[u]
                           \/ /\ u = t /\ status'[u] \in {"ready", "failed"}
                              /\ status'[u] = "ready" => chan[t] = VersionOf[t]
    <3>1. Verdict(t) \in {"ready", "failed"} /\ (Verdict(t) = "ready" => chan[t] = VersionOf[t])
      BY DEF Verdict
    <3> QED
      BY <1>0, <2>2, <3>1 DEF RowsOK
  <2>7. RowsOK' /\ NotStarted' /\ ReadyTruth'
    <3>1. status[t] \notin {"none", "new"}
      BY <1>0, <2>3 DEF NotStarted
    <3>2. RowsOK'
      BY <2>6 DEF RowsOK
    <3>3. NotStarted'
      BY <1>0, <2>4, <2>6, <3>1 DEF NotStarted
    <3>4. ReadyTruth'
      BY <1>0, <2>1, <2>6 DEF ReadyTruth, ChanTruth, Told, heard
    <3> QED
      BY <3>2, <3>3, <3>4
  <2>8. count \in Int /\ TasksOK'
    BY <1>0, <2>1, <2>3, <2>4, <2>5 DEF TasksOK
  <2>9. StoreSound'
    <3> SUFFICES ASSUME NEW k \in Agent \cup Id, store'[k] # NoTask
                 PROVE  HashOf[store'[k]] = k /\ watch'[store'[k]] \in Live
      BY DEF StoreSound
    <3>1. k # HashOf[t] /\ store'[k] = store[k] /\ store[k] \in Task
      BY <1>0, <2>5 DEF TasksOK
    <3>2. HashOf[store[k]] = k /\ watch[store[k]] \in Live
      BY <1>0, <3>1 DEF StoreSound
    <3> QED
      BY <2>4, <3>1, <3>2
  <2>10. Watched' = Watched \ {t} /\ t \in Watched
    BY <2>3, <2>4 DEF Watched, Live
  <2>11. CountNeverHigh'
    <3>1. Cardinality(Watched') = Cardinality(Watched) - 1
      BY <1>t, <2>10, FS_RemoveElement
    <3> QED
      BY <1>0, <1>t, <2>3, <2>8, <3>1
  <2>12. WatchedStored'
    <3> SUFFICES ASSUME OneTaskEach, NEW u \in Watched'
                 PROVE  store'[HashOf[u]] = u
      BY DEF WatchedStored, OneTaskEach
    <3>1. u \in Task /\ u # t /\ HashOf[u] \in Agent /\ store[HashOf[u]] = u
      BY <1>0, <1>c, <2>10 DEF WatchedStored, Watched
    <3>2. HashOf[u] # HashOf[t]
      BY <3>1 DEF OneTaskEach
    <3> QED
      BY <2>5, <3>1, <3>2
  <2>13. BoundsOK'
    <3>1. fails' \in 0 .. MaxFails
      BY <1>n, <2>2
    <3> QED
      BY <1>0, <2>1, <3>1 DEF BoundsOK, heard
  <2> QED
    BY <1>0, <1>p, <2>1, <2>7, <2>8, <2>9, <2>11, <2>12, <2>13, Frames
<1>a14. CASE StopAsk \/ ConsumerEnds \/ CloseEnds
  <2>1. UNCHANGED <<status, fails, agents, tasks, consumer, heard, crashes, store, chan, watch,
                    count, batches>>
    BY <1>a14 DEF StopAsk, ConsumerEnds, CloseEnds, rows, tasks, consumer
  <2>2. BoundsOK'
    BY <1>0, <1>a14, <2>1 DEF StopAsk, ConsumerEnds, CloseEnds, BoundsOK, heard
  <2> QED
    BY <1>0, <1>p, <2>1, <2>2, Frames
<1>a15. CASE CloseBegin
  <2>1. UNCHANGED <<status, fails, agents, store, watch, count, consumer, heard, crashes, batches>>
    BY <1>a15 DEF CloseBegin, rows, consumer
  <2>2. BoundsOK'
    BY <1>0, <1>a15, <2>1 DEF CloseBegin, BoundsOK, heard
  <2>3. /\ chan' \in [Task -> ChanState \cup Version]
        /\ \A t \in Task : chan'[t] = chan[t] \/ chan'[t] = "closed"
    BY <1>0, <1>a15 DEF CloseBegin, TasksOK, ChanState
  <2>4. TasksOK'
    BY <1>0, <2>1, <2>3 DEF TasksOK
  <2>5. ChanTruth'
    <3>1. \A t \in Task : VersionOf[t] # "closed"
      BY <1>c DEF ChanState
    <3> QED
      BY <1>0, <2>1, <2>3, <3>1 DEF ChanTruth, Told, heard
  <2> QED
    BY <1>0, <1>p, <2>1, <2>2, <2>4, <2>5, Frames
<1>a16. CASE Crash
  <2>1. Restart
    BY <1>a16 DEF Crash
  <2>2. PICK ok \in BOOLEAN :
          Outcome(ok) /\ StartAfresh(IF ok THEN {t \in Task : status[t] = "running"} ELSE {})
    BY <1>a16 DEF Crash
  <2>3. PICK ts \in SUBSET Task : /\ ts = IF ok THEN {t \in Task : status[t] = "running"} ELSE {}
                                  /\ StartAfresh(ts)
    BY <2>2
  <2>4. /\ store' \in [Agent \cup Id -> Task \cup {NoTask}]
        /\ chan' \in [Task -> ChanState \cup Version]
        /\ watch' \in [Task -> {"none", "gone"} \cup Live]
        /\ \A k \in Agent \cup Id : \/ store'[k] \in ts /\ HashOf[store'[k]] = k
                                    \/ store'[k] = NoTask /\ \A t \in ts : HashOf[t] # k
        /\ \A t \in ts : watch'[t] = "wait" /\ chan'[t] = "open"
        /\ \A t \in Task \ ts : watch'[t] = "none" /\ chan'[t] = "none"
    <3>2. PICK st, w : st = [k \in Agent \cup Id |-> NoTask] /\ w = [t \in Task |-> "none"]
      OBVIOUS
    <3>1. /\ st \in [Agent \cup Id -> Task \cup {NoTask}]
          /\ w \in [Task -> ChanState \cup Version]
          /\ w \in [Task -> {"none", "gone"} \cup Live]
      BY <3>2 DEF ChanState
    <3>3. StartTasks(ts, st, w, w)
      BY <2>3, <3>2 DEF StartAfresh
    <3>4. Started(ts, st, w, w)
      BY <3>1, <3>3, StartSound
    <3> QED
      BY <3>2, <3>4 DEF Started
  <2>5. UNCHANGED <<status, gen, ver, pushed, stop, heard>> /\ count' = 0
    BY <2>1 DEF Restart
  <2>6. AgentsOK'
    BY <1>0, <2>1 DEF Restart, AgentsOK
  <2>7. ConsumerOK' /\ BatchSound'
    BY <1>0, <1>c, <2>1 DEF Restart, ConsumerOK, BatchSound
  <2>8. BoundsOK'
    <3>1. fails' \in 0 .. MaxFails
      BY <1>n, <2>2
    <3>2. crashes' \in 0 .. MaxCrashes
      BY <1>0, <1>c, <2>1 DEF Restart, BoundsOK
    <3> QED
      BY <1>0, <2>5, <3>1, <3>2 DEF BoundsOK, heard
  <2>9. TasksOK'
    BY <2>4, <2>5 DEF TasksOK
  <2>10. StoreSound'
    BY <2>4 DEF StoreSound, Live
  <2>11. NotStarted'
    <3>1. \A t \in Task : status[t] \in {"none", "new"} => t \notin ts
      BY <2>3
    <3> QED
      BY <2>4, <2>5, <3>1 DEF NotStarted
  <2>12. ChanTruth'
    <3>1. \A t \in Task : VersionOf[t] \notin {"open", "none"}
      BY <1>c DEF ChanState
    <3> QED
      BY <2>4, <3>1 DEF ChanTruth
  <2>13. Watched' \in SUBSET ts
    BY <2>4 DEF Watched, Live
  <2>14. WatchedStored'
    <3> SUFFICES ASSUME OneTaskEach, NEW t \in Watched'
                 PROVE  store'[HashOf[t]] = t
      BY DEF WatchedStored, OneTaskEach
    <3>1. t \in ts /\ HashOf[t] \in Agent \cup Id
      BY <1>c, <2>13
    <3> QED
      BY <2>4, <3>1 DEF OneTaskEach
  <2>15. CountNeverHigh'
    <3>1. Cardinality(Watched') \in Nat
      BY <2>13, TasksFinite
    <3> QED
      BY <1>t, <2>5, <3>1
  <2>16. RowsOK' /\ ReadyTruth'
    BY <1>0, <2>5, Frames
  <2> QED
    BY <1>p, <2>6, <2>7, <2>8, <2>9, <2>10, <2>11, <2>12, <2>14, <2>15, <2>16
<1>a17. CASE UNCHANGED vars
  <2>1. UNCHANGED <<status, fails, agents, tasks, consumer, stop, heard, crashes, store, chan, watch,
                    count, batches>>
    BY <1>a17 DEF vars, rows, tasks, consumer
  <2> QED
    BY <1>0, <1>p, <2>1, Frames
<1> QED
  BY <1>a1, <1>a2, <1>a3, <1>a4, <1>p1, <1>a5, <1>a6, <1>a7, <1>a8, <1>a9, <1>a10, <1>a11, <1>a12, <1>a13,
     <1>a14, <1>a15, <1>a16, <1>a17 DEF Next

(* The server starts without tasks, agents and watchers.                   *)
LEMMA UpgradeInit == Init => UpgradeInv
<1> SUFFICES ASSUME Init PROVE UpgradeInv
  OBVIOUS
<1>1. TypeOK
  <2>1. RowsOK /\ TasksOK /\ ConsumerOK /\ BoundsOK
    BY ConstAssumption DEF Init, RowsOK, TasksOK, ConsumerOK, BoundsOK, ChanState
  <2>2. AgentsOK
    <3>1. gen \in [Agent -> Nat] /\ ver \in [Agent -> Version] /\ pushed \in [Agent -> SUBSET Version]
      BY ConstAssumption DEF Init
    <3> QED
      BY <3>1 DEF Init, AgentsOK
  <2> QED
    BY <2>1, <2>2 DEF TypeOK
<1>2. StoreSound /\ NotStarted /\ BatchSound /\ ReadyTruth
  BY DEF Init, StoreSound, NotStarted, BatchSound, ReadyTruth
<1>3. ChanTruth
  BY ConstAssumption DEF Init, ChanTruth, ChanState
<1>4. Watched = {}
  BY DEF Init, Watched, Live
<1>5. WatchedStored
  BY <1>4 DEF WatchedStored
<1>6. CountNeverHigh
  <2>1. Cardinality(Watched) = 0 /\ count = 0
    BY <1>4, FS_EmptySet DEF Init
  <2> QED
    BY <2>1 DEF CountNeverHigh, Watched
<1> QED
  BY <1>1, <1>2, <1>3, <1>5, <1>6 DEF UpgradeInv

------------------------------------------------------------------------------
(* Theorems *)

(* UpgradeInv holds in every state the consumer, the task store, the       *)
(* agents, the administrator, Stop and a crash of the server lead to.      *)
THEOREM UpgradeInductive == Spec => []UpgradeInv
  BY UpgradeInit, UpgradeNext, PTL DEF Spec

(* Every variable keeps its type, and the offset of fetchTasks stays       *)
(* within the rows, although it moves by what each fetch found.            *)
THEOREM UpgradeTypeOK == Spec => []TypeOK
<1>1. UpgradeInv => TypeOK
  BY DEF UpgradeInv
<1> QED
  BY <1>1, UpgradeInductive, PTL

(* With one task per agent, TasksStore.store has an entry exactly while    *)
(* the task's watchTask goroutine lives.                                   *)
THEOREM UpgradeStoreExact ==
  ASSUME OneTaskEach
  PROVE  Spec => []StoreExact
<1>1. UpgradeInv => StoreExact
  <2> SUFFICES ASSUME UpgradeInv, NEW t \in Task
               PROVE  store[HashOf[t]] = t <=> watch[t] \in Live
    BY DEF StoreExact
  <2>1. HashOf[t] \in Agent \cup Id /\ t # NoTask
    BY ConstAssumption DEF Task, NoTask
  <2>2. store[HashOf[t]] = t => watch[t] \in Live
    BY <2>1 DEF UpgradeInv, StoreSound
  <2>3. watch[t] \in Live => store[HashOf[t]] = t
    BY DEF UpgradeInv, WatchedStored, Watched
  <2> QED
    BY <2>2, <2>3
<1> QED
  BY <1>1, UpgradeInductive, PTL

(* currentTasksCount is at most the number of live watchers.               *)
THEOREM UpgradeCountNeverHigh == Spec => []CountNeverHigh
<1>1. UpgradeInv => CountNeverHigh
  BY DEF UpgradeInv
<1> QED
  BY <1>1, UpgradeInductive, PTL

(* setTasksStatus writes "ready" only if the agent came back with the      *)
(* version asked for while its task was watched, even when tasks of one    *)
(* agent take each other's entries over, or if a page of the agent was     *)
(* opened then by an API server of that version: for an API server of any  *)
(* other version "ready" means that the agent came back.                   *)
THEOREM UpgradeReadyTruth == Spec => []ReadyTruth
<1>1. UpgradeInv => ReadyTruth
  BY DEF UpgradeInv
<1> QED
  BY <1>1, UpgradeInductive, PTL
=============================================================================
