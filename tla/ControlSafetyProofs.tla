------------------------ MODULE ControlSafetyProofs ------------------------
(***************************************************************************)
(* The control of modules and groups, for any modules, groups and bounds.  *)
(*                                                                         *)
(* First, what the operations of the module controller leave.  A world x   *)
(* is the controller's list, the loader's states, the hub's sockets and    *)
(* the history of what was given up.  WorldOK says that they agree on      *)
(* every module; SameAt that an operation has left a module alone.  The    *)
(* loops of the code (StartModulesForGroup and its like, the three checks  *)
(* of doSync, Load) are recursive functions: each has an operator UpTo for *)
(* what holds after k steps, a lemma for one step, and LoopRuns and        *)
(* LoopKeeps carry it to the end of the loop.                              *)
(*                                                                         *)
(* Second, that nobody waits in vain: the controller that notifies,        *)
(* syncGroups that waits for a goroutine it has started or told to quit,   *)
(* and Stop that waits for done.  That proof follows the goroutines of the *)
(* groups and leaves the modules aside: whatever doSync does with them,    *)
(* whom it notifies is drawn from the subscriptions.  At any time after    *)
(* Start at most one goroutine is not at rest, and sg.pc and mainModule    *)
(* say which way it is going (WaitInv).                                    *)
(*                                                                         *)
(* Third, that the modules are sound and that after a sync the database's  *)
(* modules run.  ModInv says what list, loader, hub and history agree on,  *)
(* what each check of doSync has established while the updater holds the   *)
(* mutex, and that a group under control has its listed modules running.   *)
(***************************************************************************)
EXTENDS MCControlSafety, SequenceTheorems, WellFoundedInduction, TLAPS

(* A loop of n steps: what holds at first and is handed on from each step  *)
(* to the next holds at the end.                                           *)
LEMMA LoopKeeps ==
  ASSUME NEW n \in Nat, NEW f, NEW P, f[0] \in P[0],
         \A k \in 1 .. n : f[k - 1] \in P[k - 1] => f[k] \in P[k]
  PROVE  \A k \in 0 .. n : f[k] \in P[k]
<1> DEFINE R == OpToRel(<, Nat)
           S == {k \in 0 .. n : f[k] \notin P[k]}
<1>1. IsWellFoundedOn(R, Nat)
  BY NatLessThanWellFounded
<1>2. SUFFICES ASSUME S # {} PROVE FALSE
  OBVIOUS
<1>3. S \subseteq Nat
  OBVIOUS
<1> HIDE DEF R
<1>4. PICK k \in S : \A y \in S : ~ (<<y, k>> \in R)
  BY <1>1, <1>2, <1>3, WFMin
<1>5. \A y \in S : ~ (y < k)
  BY <1>3, <1>4 DEF OpToRel, R
<1>6. k # 0 /\ k \in 1 .. n /\ k - 1 \in 0 .. n /\ k - 1 < k
  OBVIOUS
<1>7. k - 1 \notin S
  BY <1>5, <1>6
<1> QED
  BY <1>6, <1>7

\* f is the loop that begins with a and takes step k with F[k].
LoopOf(f, n, a, F) == f = [k \in 0 .. n |-> IF k = 0 THEN a ELSE F[k][f[k - 1]]]

(* Such a loop can be run: it is a function of the number of steps.        *)
LEMMA LoopRuns ==
  ASSUME NEW n \in Nat, NEW a, NEW F, NEW P, a \in P[0],
         \A k \in 1 .. n : \A b \in P[k - 1] : F[k][b] \in P[k]
  PROVE  \E f : LoopOf(f, n, a, F) /\ \A k \in 0 .. n : f[k] \in P[k]
<1> DEFINE Run(f, m) == f = [k \in 0 .. m |-> IF k = 0 THEN a ELSE F[k][f[k - 1]]]
           R == OpToRel(<, Nat)
           S == {m \in 0 .. n : ~ \E f : Run(f, m)}
<1>1. S = {}
  <2>1. IsWellFoundedOn(R, Nat)
    BY NatLessThanWellFounded
  <2>2. SUFFICES ASSUME S # {} PROVE FALSE
    OBVIOUS
  <2>3. S \subseteq Nat
    OBVIOUS
  <2> HIDE DEF R
  <2>4. PICK m \in S : \A y \in S : ~ (<<y, m>> \in R)
    BY <2>1, <2>2, <2>3, WFMin
  <2>5. \A y \in S : ~ (y < m)
    BY <2>3, <2>4 DEF OpToRel, R
  <2>6. m # 0
    <3>1. Run([k \in 0 .. 0 |-> a], 0)
      OBVIOUS
    <3> QED
      BY <3>1
  <2>7. m \in 1 .. n /\ m - 1 \in 0 .. n /\ m - 1 < m
    BY <2>6
  <2>8. PICK f : Run(f, m - 1)
    BY <2>5, <2>7
  <2> DEFINE g == [k \in 0 .. m |-> IF k = m THEN F[m][f[m - 1]] ELSE f[k]]
  <2>9. Run(g, m)
    <3>1. \A k \in 0 .. m : g[k] = IF k = 0 THEN a ELSE F[k][g[k - 1]]
      <4> TAKE k \in 0 .. m
      <4>1. CASE k = m
        <5>1. g[k] = F[m][f[m - 1]] /\ g[k - 1] = f[m - 1]
          BY <2>7, <4>1
        <5> QED
          BY <5>1, <4>1, <2>7
      <4>2. CASE k # m
        <5>1. k \in 0 .. m - 1 /\ g[k] = f[k]
          BY <2>7, <4>2
        <5>2. f[k] = IF k = 0 THEN a ELSE F[k][f[k - 1]]
          BY <2>8, <5>1
        <5>3. k # 0 => g[k - 1] = f[k - 1]
          BY <2>7, <5>1
        <5> QED
          BY <5>1, <5>2, <5>3
      <4> QED
        BY <4>1, <4>2
    <3> QED
      BY <3>1
  <2> QED
    BY <2>9
<1>2. PICK f : Run(f, n)
  BY <1>1
<1>3. f[0] \in P[0] /\ \A k \in 1 .. n : f[k - 1] \in P[k - 1] => f[k] \in P[k]
  BY <1>2
<1>4. \A k \in 0 .. n : f[k] \in P[k]
  BY <1>3, LoopKeeps
<1> QED
  BY <1>2, <1>4 DEF LoopOf

----------------------------------------------------------------------------
\* The types of the list, of a row, of a state, and of all four together.
Item   == [id : Mod!Id, v : Mod!Stamp, c : Mod!Stamp]
Row    == [v : Mod!Stamp, c : Mod!Stamp]
Status == [status : {"none", "LOADED", "RUNNING", "STOPPED"}, v : Mod!Stamp, c : Mod!Stamp]
Worlds == [modules : Seq(Item), states : [Mod!Id -> Status],
           sockets : SUBSET Mod!Id, lost : SUBSET Mod!Id]

\* What the controller's list has of module i.
Entries(x, i) == {m \in Item : m.id = i /\ \E k \in DOMAIN x.modules : x.modules[k] = m}
Distinct(x) == \A j, k \in DOMAIN x.modules : x.modules[j].id = x.modules[k].id => j = k

\* What the list, the loader, the hub and the history say of module i agree.
ModuleOK(x, i) ==
  /\ x.states[i].status = "none" => x.states[i] = Mod!NoState
  /\ x.states[i].status = "RUNNING" => Entries(x, i) # {}
  /\ x.states[i].status \in {"LOADED", "STOPPED"} => i \in x.lost
  /\ i \in x.sockets <=> x.states[i].status \in {"RUNNING", "STOPPED"}
  /\ \A m \in Entries(x, i) : x.states[i].status \in {"LOADED", "RUNNING"} =>
       x.states[i].v = m.v /\ x.states[i].c = m.c
WorldOK(x) == x \in Worlds /\ Distinct(x) /\ \A i \in Mod!Id : ModuleOK(x, i)

\* Nothing that concerns module i differs in x and y.
SameAt(x, y, i) ==
  /\ x.states[i] = y.states[i] /\ Entries(x, i) = Entries(y, i)
  /\ i \in x.lost <=> i \in y.lost
  /\ i \in x.sockets <=> i \in y.sockets

\* What is sound at i stays so where nothing differs at i.
LEMMA SameOK ==
  ASSUME NEW x, NEW y, NEW i, SameAt(x, y, i), ModuleOK(x, i)
  PROVE  ModuleOK(y, i)
BY DEF SameAt, ModuleOK

\* A module is listed if the list has an entry of it ...
LEMMA ListedIs ==
  ASSUME NEW x \in Worlds, NEW i
  PROVE  Mod!Listed(x, i) <=> Entries(x, i) # {}
BY DEF Mod!Listed, Entries, Worlds

\* ... and Place finds that entry.
LEMMA PlaceIs ==
  ASSUME NEW x \in Worlds, NEW i, Mod!Listed(x, i)
  PROVE  /\ Mod!Place(x, i) \in DOMAIN x.modules
         /\ x.modules[Mod!Place(x, i)].id = i
         /\ x.modules[Mod!Place(x, i)] \in Entries(x, i)
<1>1. Mod!Place(x, i) \in DOMAIN x.modules /\ x.modules[Mod!Place(x, i)].id = i
  BY DEF Mod!Place, Mod!Listed
<1> QED
  BY <1>1 DEF Entries, Worlds

\* The list as it is leaves the entries as they are.
LEMMA SameEntries ==
  ASSUME NEW x, NEW y, x.modules = y.modules
  PROVE  \A i : Entries(x, i) = Entries(y, i)
BY DEF Entries

\* The stamps of a fresh row, and what stands for no row and no state.
LEMMA StampIs == 0 \in Mod!Stamp /\ 1 \in Mod!Stamp /\ Mod!NoState \in Status /\ Mod!NoRow \in Row
BY ModuleAssumption DEF Mod!Stamp, Mod!NoState, Mod!NoRow, Status, Row, Mod!ParametersOK

\* What stopModule leaves: of its module nothing, unless it has ended by itself.
LEMMA StopModuleIs ==
  ASSUME NEW x \in Worlds, NEW i \in Mod!Id, NEW y, y = Mod!stopModule(x, i)
  PROVE  /\ y \in Worlds /\ y.modules = x.modules /\ y.lost = x.lost
         /\ Mod!StopFails(x, i) => y = x
         /\ ~ Mod!StopFails(x, i) => y.states[i] = Mod!NoState /\ i \notin y.sockets
         /\ \A j \in Mod!Id \ {i} : SameAt(x, y, j)
<1>1. CASE Mod!StopFails(x, i)
  BY <1>1 DEF Mod!stopModule, SameAt
<1>2. CASE ~ Mod!StopFails(x, i)
  <2>1. y = [x EXCEPT !.states = [x.states EXCEPT ![i] = Mod!NoState], !.sockets = x.sockets \ {i}]
    BY <1>2 DEF Mod!stopModule
  <2>2. /\ y \in Worlds /\ y.modules = x.modules /\ y.lost = x.lost
        /\ y.states = [x.states EXCEPT ![i] = Mod!NoState] /\ y.sockets = x.sockets \ {i}
    BY <2>1, StampIs DEF Worlds
  <2>3. \A j \in Mod!Id \ {i} : y.states[j] = x.states[j]
    BY <2>2 DEF Worlds
  <2> QED
    BY <1>2, <2>2, <2>3, SameEntries DEF Worlds, SameAt
<1> QED
  BY <1>1, <1>2

\* The state m.id has been given, if it was given one.
Loaded(x, y, m, bad) ==
  \/ y.states[m.id] = x.states[m.id] /\ (x.states[m.id] # Mod!NoState \/ m.id \in bad)
  \/ /\ x.states[m.id] = Mod!NoState /\ m.id \notin bad
     /\ y.states[m.id] = [status |-> "LOADED", v |-> m.v, c |-> m.c]

\* All but the state of module i is as it was.
OnlyState(x, y, i) ==
  /\ y \in Worlds /\ y.modules = x.modules /\ y.lost = x.lost /\ y.sockets = x.sockets
  /\ \A j \in Mod!Id \ {i} : y.states[j] = x.states[j]

\* What NewState makes of a module without a state.
LEMMA NewStateIs ==
  ASSUME NEW x \in Worlds, NEW m \in Item, NEW bad, NEW y, y = Mod!NewState(x, m, bad)
  PROVE  OnlyState(x, y, m.id) /\ Loaded(x, y, m, bad)
<1> USE DEF OnlyState, Loaded
<1>1. CASE x.states[m.id] # Mod!NoState \/ m.id \in bad
  BY <1>1 DEF Mod!NewState
<1>2. CASE ~ (x.states[m.id] # Mod!NoState \/ m.id \in bad)
  <2> DEFINE s == [status |-> "LOADED", v |-> m.v, c |-> m.c]
  <2>0. m.id \in Mod!Id /\ s \in Status
    BY DEF Item, Status
  <2>1. y = [x EXCEPT !.states = [x.states EXCEPT ![m.id] = s]]
    BY <1>2 DEF Mod!NewState
  <2> HIDE DEF s
  <2>2. /\ y \in Worlds /\ y.modules = x.modules /\ y.lost = x.lost /\ y.sockets = x.sockets
        /\ y.states = [x.states EXCEPT ![m.id] = s]
    BY <2>0, <2>1 DEF Worlds
  <2>3. (\A j \in Mod!Id \ {m.id} : y.states[j] = x.states[j]) /\ y.states[m.id] = s
    BY <2>0, <2>2 DEF Worlds
  <2> QED
    BY <1>2, <2>2, <2>3 DEF s
<1> QED
  BY <1>1, <1>2

\* Module i runs now, in the version it had.
Runs(x, y, i) ==
  /\ y \in Worlds /\ y.modules = x.modules
  /\ y.lost = x.lost \ {i} /\ y.sockets = x.sockets \cup {i}
  /\ \A j \in Mod!Id \ {i} : y.states[j] = x.states[j]
  /\ y.states[i].status = "RUNNING" /\ y.states[i].v = x.states[i].v /\ y.states[i].c = x.states[i].c

\* What ModuleState.Start does, where it can.
LEMMA StartIs ==
  ASSUME NEW x \in Worlds, NEW i \in Mod!Id, NEW y, y = Mod!Start(x, i)
  PROVE  IF Mod!CanStart(x, i) THEN Runs(x, y, i) ELSE y = x
<1> USE DEF Runs
<1>1. CASE ~ Mod!CanStart(x, i)
  BY <1>1 DEF Mod!Start
<1>2. CASE Mod!CanStart(x, i)
  <2> DEFINE s == [status |-> "RUNNING", v |-> x.states[i].v, c |-> x.states[i].c]
  <2>0. s \in Status /\ x.states[i] \in Status
    BY DEF Status, Worlds
  <2>1. s = [x.states[i] EXCEPT !.status = "RUNNING"]
    BY <2>0 DEF Status
  <2>2. y = [x EXCEPT !.states = [x.states EXCEPT ![i] = [x.states[i] EXCEPT !.status = "RUNNING"]],
                      !.sockets = x.sockets \cup {i}, !.lost = x.lost \ {i}]
    BY <1>2 DEF Mod!Start
  <2> HIDE DEF s
  <2>3. /\ y \in Worlds /\ y.modules = x.modules /\ y.lost = x.lost \ {i}
        /\ y.sockets = x.sockets \cup {i} /\ y.states = [x.states EXCEPT ![i] = s]
    <3>1. [x.states EXCEPT ![i] = s] \in [Mod!Id -> Status]
      BY <2>0 DEF Worlds
    <3>2. y = [x EXCEPT !.states = [x.states EXCEPT ![i] = s], !.sockets = x.sockets \cup {i}, !.lost = x.lost \ {i}]
      BY <2>1, <2>2
    <3> QED
      BY <3>1, <3>2 DEF Worlds
  <2>4. (\A j \in Mod!Id \ {i} : y.states[j] = x.states[j]) /\ y.states[i] = s
    BY <2>3 DEF Worlds
  <2> QED
    BY <1>2, <2>3, <2>4 DEF s
<1> QED
  BY <1>1, <1>2

\* A start that fails makes a LOADED state at most ...
Failed(x, y, m, bad) == OnlyState(x, y, m.id) /\ Loaded(x, y, m, bad)

\* ... one that succeeds leaves the module with its socket and its version.
Succeeded(x, y, m) ==
  /\ y \in Worlds /\ y.modules = x.modules
  /\ \A j \in Mod!Id \ {m.id} : SameAt(x, y, j)
  /\ y.states[m.id].status = "RUNNING" /\ m.id \in y.sockets
  /\ \/ x.states[m.id] = Mod!NoState /\ y.states[m.id].v = m.v /\ y.states[m.id].c = m.c
     \/ /\ x.states[m.id].status = "LOADED"
        /\ y.states[m.id].v = x.states[m.id].v /\ y.states[m.id].c = x.states[m.id].c

\* What startModule leaves, where it fails and where it succeeds.
LEMMA StartModuleIs ==
  ASSUME NEW x, WorldOK(x), NEW m \in Item, NEW bad, NEW y, y = Mod!startModule(x, m, bad)
  PROVE  IF Mod!StartFails(x, m, bad) THEN Failed(x, y, m, bad) ELSE Succeeded(x, y, m)
<1>0. x \in Worlds /\ m.id \in Mod!Id
  BY DEF WorldOK, Item
<1>1. PICK z : z = Mod!NewState(x, m, bad)
  OBVIOUS
<1>2. y = Mod!Start(z, m.id) /\ (Mod!StartFails(x, m, bad) <=> ~ Mod!CanStart(z, m.id))
  BY <1>1 DEF Mod!startModule, Mod!StartFails
<1>3. OnlyState(x, z, m.id) /\ Loaded(x, z, m, bad)
  BY <1>0, <1>1, NewStateIs
<1>4. z \in Worlds
  BY <1>3 DEF OnlyState
<1>5. IF Mod!CanStart(z, m.id) THEN Runs(z, y, m.id) ELSE y = z
  BY <1>0, <1>2, <1>4, StartIs
<1>6. CASE Mod!StartFails(x, m, bad)
  BY <1>2, <1>3, <1>5, <1>6 DEF Failed
<1>7. CASE ~ Mod!StartFails(x, m, bad)
  <2>1. Runs(z, y, m.id)
    BY <1>2, <1>5, <1>7
  <2>2. z.states[m.id].status \in {"LOADED", "STOPPED"} /\ m.id \notin x.sockets
    BY <1>2, <1>3, <1>7 DEF Mod!CanStart, OnlyState
  <2>3. x.states[m.id].status # "STOPPED"
    BY <1>0, <2>2 DEF WorldOK, ModuleOK
  <2>4. \/ x.states[m.id] = Mod!NoState /\ z.states[m.id].v = m.v /\ z.states[m.id].c = m.c
        \/ x.states[m.id].status = "LOADED" /\ z.states[m.id] = x.states[m.id]
    <3>1. CASE z.states[m.id] = x.states[m.id]
      BY <2>2, <2>3, <3>1
    <3>2. CASE z.states[m.id] # x.states[m.id]
      BY <1>3, <3>2 DEF Loaded
    <3> QED
      BY <3>1, <3>2
  <2>5. \A j \in Mod!Id \ {m.id} : SameAt(x, y, j)
    <3>1. \A j : Entries(x, j) = Entries(y, j)
      BY <1>3, <2>1, SameEntries DEF Runs, OnlyState
    <3> QED
      BY <1>3, <2>1, <3>1 DEF SameAt, Runs, OnlyState
  <2> QED
    BY <1>3, <1>7, <2>1, <2>4, <2>5 DEF Succeeded, Runs, OnlyState
<1> QED
  BY <1>6, <1>7

\* What is given up, and nothing else.
LEMMA LoseIs ==
  ASSUME NEW x \in Worlds, NEW is \in SUBSET Mod!Id, NEW y, y = Mod!Lose(x, is)
  PROVE  /\ y \in Worlds /\ y.modules = x.modules /\ y.states = x.states
         /\ y.sockets = x.sockets /\ y.lost = x.lost \cup is
BY DEF Mod!Lose, Worlds

\* A state changed at i only is sound if it is sound at i.
LEMMA OneChanged ==
  ASSUME NEW x, WorldOK(x), NEW y \in Worlds, Distinct(y), NEW i \in Mod!Id, ModuleOK(y, i),
         \A j \in Mod!Id \ {i} : SameAt(x, y, j)
  PROVE  WorldOK(y)
BY SameOK DEF WorldOK

\* A listed module that is started, or given up, where the list says it is.
LEMMA StartListed ==
  ASSUME NEW x, WorldOK(x), NEW m \in Item, m \in Entries(x, m.id), NEW bad,
         NEW z, z = Mod!StartOrLose(x, m, bad)
  PROVE  /\ WorldOK(z) /\ z.modules = x.modules
         /\ \A j \in Mod!Id \ {m.id} : SameAt(x, z, j)
         /\ m.id \notin z.lost => z.states[m.id].status = "RUNNING"
         /\ z.states[m.id].status = "STOPPED" => x.states[m.id].status = "STOPPED"
<1> DEFINE y == Mod!startModule(x, m, bad)
<1>0. x \in Worlds /\ m.id \in Mod!Id /\ ModuleOK(x, m.id) /\ Distinct(x)
  BY DEF WorldOK, Item
<1>1. IF Mod!StartFails(x, m, bad) THEN Failed(x, y, m, bad) ELSE Succeeded(x, y, m)
  BY StartModuleIs
<1>b. z = IF Mod!StartFails(x, m, bad) THEN Mod!Lose(y, {m.id}) ELSE y
  BY DEF Mod!StartOrLose
<1> HIDE DEF y
<1>a. y \in Worlds /\ y.modules = x.modules
  BY <1>1 DEF Failed, OnlyState, Succeeded
<1>2. /\ z \in Worlds /\ z.modules = y.modules /\ z.states = y.states
      /\ z.sockets = y.sockets
      /\ z.lost = y.lost \cup IF Mod!StartFails(x, m, bad) THEN {m.id} ELSE {}
  BY <1>0, <1>a, <1>b, LoseIs
<1>4. Distinct(z) /\ \A j : Entries(z, j) = Entries(x, j) /\ Entries(y, j) = Entries(x, j)
  BY <1>0, <1>a, <1>2, SameEntries DEF Distinct
<1>3. \A j \in Mod!Id \ {m.id} : SameAt(x, z, j)
  <2>1. CASE Mod!StartFails(x, m, bad)
    BY <1>1, <1>2, <1>4, <2>1 DEF SameAt, Failed, OnlyState
  <2>2. CASE ~ Mod!StartFails(x, m, bad)
    BY <1>1, <1>2, <1>4, <2>2 DEF SameAt, Succeeded
  <2> QED
    BY <2>1, <2>2
<1>5. \A n \in Entries(x, m.id) : n = m
  BY <1>0 DEF Distinct, Entries
<1>6. CASE Mod!StartFails(x, m, bad)
  <2>1. OnlyState(x, y, m.id) /\ Loaded(x, y, m, bad)
    BY <1>1, <1>6 DEF Failed
  <2>2. ModuleOK(z, m.id)
    <3>1. CASE y.states[m.id] = x.states[m.id]
      BY <1>0, <1>2, <1>4, <1>6, <2>1, <3>1 DEF ModuleOK, OnlyState
    <3>2. CASE y.states[m.id] # x.states[m.id]
      <4>1. x.states[m.id].status = "none"
        BY <2>1, <3>2 DEF Loaded, Mod!NoState
      <4>2. z.states[m.id].status = "LOADED" /\ z.states[m.id].v = m.v /\ z.states[m.id].c = m.c
        BY <1>2, <2>1, <3>2 DEF Loaded
      <4>3. m.id \in z.lost /\ m.id \notin z.sockets
        BY <1>0, <1>2, <1>6, <2>1, <4>1 DEF ModuleOK, OnlyState
      <4> QED
        BY <1>4, <1>5, <4>2, <4>3 DEF ModuleOK
    <3> QED
      BY <3>1, <3>2
  <2>3. WorldOK(z)
    BY <1>0, <1>2, <1>3, <1>4, <2>2, OneChanged
  <2>4. z.states[m.id].status = "STOPPED" => x.states[m.id].status = "STOPPED"
    BY <1>2, <2>1 DEF Loaded
  <2> QED
    BY <1>a, <1>2, <1>3, <1>6, <2>3, <2>4
<1>7. CASE ~ Mod!StartFails(x, m, bad)
  <2>1. y.states[m.id].status = "RUNNING" /\ m.id \in y.sockets
    BY <1>1, <1>7 DEF Succeeded
  <2>2. y.states[m.id].v = m.v /\ y.states[m.id].c = m.c
    BY <1>0, <1>1, <1>7 DEF ModuleOK, Succeeded
  <2>3. ModuleOK(z, m.id)
    BY <1>2, <1>4, <1>5, <2>1, <2>2 DEF ModuleOK
  <2>4. WorldOK(z)
    BY <1>0, <1>2, <1>3, <1>4, <2>3, OneChanged
  <2> QED
    BY <1>a, <1>2, <1>3, <1>7, <2>1, <2>4
<1> QED
  BY <1>6, <1>7

----------------------------------------------------------------------------
\* A loop that may fail: what it has made, and whether it has failed.
Acc == [x : Worlds, err : BOOLEAN]

\* Module i has ended by itself.
Stopped(x, i) == x.states[i].status = "STOPPED"

\* Module i runs, or has been given up.
Served(x, i) == x.states[i].status = "RUNNING" \/ i \in x.lost

\* Whether a module is served, or stopped, is the same where nothing differs.
LEMMA SameServed ==
  ASSUME NEW x, NEW y, NEW i, SameAt(x, y, i)
  PROVE  (Served(x, i) <=> Served(y, i)) /\ (Stopped(x, i) <=> Stopped(y, i))
BY DEF SameAt, Served, Stopped

\* Twice nothing is nothing.
LEMMA SameTrans ==
  ASSUME NEW x, NEW y, NEW z, NEW i, SameAt(x, y, i), SameAt(y, z, i)
  PROVE  SameAt(x, z, i)
BY DEF SameAt

\* StartModulesForGroup after k modules of the list.
StartedUpTo(x, a, g, k) ==
  /\ WorldOK(a.x) /\ a.x.modules = x.modules
  /\ \A i \in Mod!Id : GroupOf[i] # g => SameAt(x, a.x, i)
  /\ \A i \in Mod!Id : Stopped(a.x, i) => Stopped(x, i)
  /\ \A l \in 1 .. k : GroupOf[x.modules[l].id] = g => Served(a.x, x.modules[l].id)

\* One more module of the list.
LEMMA StartNextKeeps ==
  ASSUME NEW x, WorldOK(x), NEW g, NEW bad, NEW k \in 1 .. Len(x.modules),
         NEW a \in Acc, StartedUpTo(x, a, g, k - 1),
         NEW b, b = Mod!StartNext(a, x.modules[k], g, bad)
  PROVE  b \in Acc /\ StartedUpTo(x, b, g, k)
<1>0. /\ x \in Worlds /\ x.modules[k] \in Item /\ a.x \in Worlds
      /\ Len(x.modules) \in Nat /\ WorldOK(a.x)
  BY DEF WorldOK, Worlds, StartedUpTo
<1>1. PICK m : m = x.modules[k]
  OBVIOUS
<1>2. m \in Item /\ m.id \in Mod!Id
  BY <1>0, <1>1 DEF Item
<1>3. \A l \in 1 .. k : l = k \/ l \in 1 .. k - 1
  BY <1>0
<1>4. m \in Entries(a.x, m.id)
  BY <1>0, <1>1, <1>2 DEF Entries, StartedUpTo, Worlds
\* What a step does to m only, and to its good.
<1>5. ASSUME b \in Acc, WorldOK(b.x), b.x.modules = x.modules, GroupOf[m.id] = g,
             \A j \in Mod!Id \ {m.id} : SameAt(a.x, b.x, j),
             Stopped(b.x, m.id) => Stopped(a.x, m.id), Served(b.x, m.id)
      PROVE  StartedUpTo(x, b, g, k)
  <2>1. \A i \in Mod!Id : GroupOf[i] # g => SameAt(x, b.x, i)
    BY <1>5, SameTrans DEF StartedUpTo
  <2>2. \A i \in Mod!Id : Stopped(b.x, i) => Stopped(x, i)
    BY <1>5, SameServed DEF StartedUpTo
  <2>3. \A l \in 1 .. k : GroupOf[x.modules[l].id] = g => Served(b.x, x.modules[l].id)
    <3> SUFFICES ASSUME NEW l \in 1 .. k, GroupOf[x.modules[l].id] = g
                 PROVE  Served(b.x, x.modules[l].id)
      OBVIOUS
    <3>1. x.modules[l].id \in Mod!Id
      <4>1. l \in 1 .. Len(x.modules)
        BY <1>0
      <4>2. x.modules[l] \in Item
        BY <1>0, <4>1 DEF Worlds
      <4> QED
        BY <4>2 DEF Item
    <3> QED
      BY <1>1, <1>3, <1>5, <3>1, SameServed DEF StartedUpTo
  <2> QED
    BY <1>5, <2>1, <2>2, <2>3 DEF StartedUpTo
<1>6. CASE GroupOf[m.id] # g
  <2>1. b = a
    BY <1>1, <1>6 DEF Mod!StartNext
  <2> QED
    BY <1>1, <1>3, <1>6, <2>1 DEF StartedUpTo
<1>7. CASE GroupOf[m.id] = g /\ a.err
  <2>1. b = [a EXCEPT !.x = IF a.x.states[m.id] = Mod!NoState THEN Mod!Lose(a.x, {m.id}) ELSE a.x]
    BY <1>1, <1>7 DEF Mod!StartNext
  <2>2. CASE a.x.states[m.id] = Mod!NoState
    <3>1. b \in Acc /\ b.x = Mod!Lose(a.x, {m.id})
      BY <1>0, <1>2, <2>1, <2>2, LoseIs DEF Acc
    <3>2. /\ b.x \in Worlds /\ b.x.modules = a.x.modules /\ b.x.states = a.x.states
          /\ b.x.sockets = a.x.sockets /\ b.x.lost = a.x.lost \cup {m.id}
      BY <1>0, <1>2, <3>1, LoseIs
    <3>3. \A j : Entries(b.x, j) = Entries(a.x, j)
      BY <3>2, SameEntries
    <3>4. \A j \in Mod!Id \ {m.id} : SameAt(a.x, b.x, j)
      BY <3>2, <3>3 DEF SameAt
    <3>5. ModuleOK(b.x, m.id) /\ Distinct(b.x)
      BY <1>0, <1>2, <3>2, <3>3 DEF WorldOK, ModuleOK, Distinct
    <3>6. WorldOK(b.x)
      BY <1>0, <1>2, <3>2, <3>4, <3>5, OneChanged
    <3> QED
      BY <1>5, <1>7, <3>1, <3>2, <3>4, <3>6 DEF Served, Stopped, StartedUpTo
  <2>3. CASE a.x.states[m.id] # Mod!NoState
    <3>1. b \in Acc /\ b.x = a.x
      BY <2>1, <2>3 DEF Acc
    <3>2. Served(a.x, m.id)
      BY <1>0, <1>2, <2>3 DEF WorldOK, ModuleOK, Served, Worlds, Status
    <3> QED
      BY <1>0, <1>5, <1>7, <3>1, <3>2 DEF StartedUpTo, SameAt
  <2> QED
    BY <2>2, <2>3
<1>8. CASE GroupOf[m.id] = g /\ ~ a.err
  <2>1. CASE a.x.states[m.id].status = "RUNNING"
    <3>1. b = [a EXCEPT !.err = TRUE]
      BY <1>1, <1>8, <2>1 DEF Mod!StartNext
    <3>2. b \in Acc /\ b.x = a.x
      BY <3>1 DEF Acc
    <3> QED
      BY <1>0, <1>5, <1>8, <2>1, <3>2 DEF StartedUpTo, SameAt, Served
  <2>2. CASE a.x.states[m.id].status # "RUNNING"
    <3>1. b = [x |-> Mod!StartOrLose(a.x, m, bad), err |-> Mod!StartFails(a.x, m, bad)]
      BY <1>1, <1>8, <2>2 DEF Mod!StartNext
    <3>2. PICK z : z = Mod!StartOrLose(a.x, m, bad)
      OBVIOUS
    <3>3. /\ WorldOK(z) /\ z.modules = a.x.modules
          /\ \A j \in Mod!Id \ {m.id} : SameAt(a.x, z, j)
          /\ m.id \notin z.lost => z.states[m.id].status = "RUNNING"
          /\ z.states[m.id].status = "STOPPED" => a.x.states[m.id].status = "STOPPED"
      BY <1>0, <1>2, <1>4, <3>2, StartListed
    <3>4. Mod!StartFails(a.x, m, bad) \in BOOLEAN
      BY DEF Mod!StartFails
    <3>5. b \in Acc /\ b.x = z
      BY <3>1, <3>2, <3>3, <3>4 DEF Acc, WorldOK
    <3>6. Served(z, m.id) /\ (Stopped(z, m.id) => Stopped(a.x, m.id))
      BY <3>3 DEF Served, Stopped
    <3> QED
      BY <1>5, <1>8, <3>3, <3>5, <3>6 DEF StartedUpTo
  <2> QED
    BY <2>1, <2>2
<1> QED
  BY <1>6, <1>7, <1>8 DEF Acc

\* What StartModulesForGroup leaves.
LEMMA StartGroupIs ==
  ASSUME NEW x, WorldOK(x), NEW g, NEW bad
  PROVE  \E a \in Acc : a.x = Mod!startGroup(x, g, bad) /\ StartedUpTo(x, a, g, Len(x.modules))
<1> DEFINE n == Len(x.modules)
           s == [x |-> x, err |-> FALSE]
           Q(k) == {a \in Acc : StartedUpTo(x, a, g, k)}
           P == [k \in 0 .. n |-> Q(k)]
           Body(a, k) == Mod!StartNext(a, x.modules[k], g, bad)
           F == [k \in 1 .. n |-> [a \in P[k - 1] |-> Body(a, k)]]
           Loop(f) == f = [k \in 0 .. n |-> IF k = 0 THEN s ELSE Body(f[k - 1], k)]
           h == CHOOSE f : Loop(f)
<1>0. x \in Worlds /\ n \in Nat
  BY DEF WorldOK, Worlds
<1>1. s \in Q(0)
  BY <1>0 DEF Acc, StartedUpTo, SameAt
<1>2. \A k \in 1 .. n : \A a \in Q(k - 1) : Body(a, k) \in Q(k)
  BY <1>0, StartNextKeeps
<1>3. Mod!startGroup(x, g, bad) = h[n].x
  BY DEF Mod!startGroup, Mod!ForEach
<1>4. /\ \A k \in 1 .. n : \A a \in P[k - 1] : F[k][a] = Body(a, k)
      /\ \A k \in 0 .. n : P[k] = Q(k)
  OBVIOUS
<1> HIDE DEF n, s, Q, Body, h, P, F
<1>5. 0 \in 0 .. n /\ n \in 0 .. n /\ \A k \in 1 .. n : k \in 0 .. n /\ k - 1 \in 0 .. n /\ k # 0
  BY <1>0
<1>6. s \in P[0] /\ \A k \in 1 .. n : \A a \in P[k - 1] : Body(a, k) \in P[k]
  BY <1>1, <1>2, <1>4, <1>5
<1>7. PICK f : LoopOf(f, n, s, F) /\ \A k \in 0 .. n : f[k] \in P[k]
  <2>1. \A k \in 1 .. n : \A a \in P[k - 1] : F[k][a] \in P[k]
    BY <1>4, <1>6
  <2> QED
    BY <1>0, <1>6, <2>1, LoopRuns
<1>8. Loop(f)
  <2>1. \A k \in 0 .. n : k # 0 => k \in 1 .. n
    BY <1>0
  <2>2. \A k \in 0 .. n : (IF k = 0 THEN s ELSE F[k][f[k - 1]]) = IF k = 0 THEN s ELSE Body(f[k - 1], k)
    BY <1>4, <1>5, <1>7, <2>1
  <2> QED
    BY <1>7, <2>2 DEF LoopOf
<1> HIDE DEF Loop
<1>9. Loop(h)
  BY <1>8 DEF h
<1>10. h[0] = s /\ \A k \in 1 .. n : h[k] = Body(h[k - 1], k)
  <2>1. h[0] = s
    BY <1>5, <1>9 DEF Loop
  <2>2. \A k \in 1 .. n : h[k] = Body(h[k - 1], k)
    BY <1>5, <1>9 DEF Loop
  <2> QED
    BY <2>1, <2>2
<1>11. h[n] \in P[n]
  <2>1. \A k \in 1 .. n : h[k - 1] \in P[k - 1] => h[k] \in P[k]
    BY <1>6, <1>10
  <2>2. \A k \in 0 .. n : h[k] \in P[k]
    BY <1>0, <1>6, <1>10, <2>1, LoopKeeps
  <2> QED
    BY <1>5, <2>2
<1>12. h[n] \in Q(n)
  BY <1>4, <1>5, <1>11
<1> QED
  BY <1>3, <1>12 DEF Q, n

----------------------------------------------------------------------------
\* StopModulesForGroup after k modules of the list.
StoppedUpTo(x, a, gs, k) ==
  /\ WorldOK(a.x) /\ a.x.modules = x.modules /\ a.x.lost = x.lost
  /\ \A i \in Mod!Id : SameAt(x, a.x, i) \/ (GroupOf[i] \in gs /\ a.x.states[i] = Mod!NoState)
  /\ a.err => \E i \in Mod!Id : Stopped(x, i)
  /\ ~a.err => \A l \in 1 .. k : GroupOf[x.modules[l].id] \in gs => a.x.states[x.modules[l].id] = Mod!NoState

\* One more module of the list.
LEMMA StopNextKeeps ==
  ASSUME NEW x, WorldOK(x), NEW gs, NEW k \in 1 .. Len(x.modules),
         NEW a \in Acc, StoppedUpTo(x, a, gs, k - 1),
         NEW b, b = Mod!StopNext(a, x.modules[k], gs)
  PROVE  b \in Acc /\ StoppedUpTo(x, b, gs, k)
<1>0. /\ x \in Worlds /\ x.modules[k] \in Item /\ a.x \in Worlds
      /\ Len(x.modules) \in Nat /\ WorldOK(a.x)
  BY DEF WorldOK, Worlds, StoppedUpTo
<1>1. PICK m : m = x.modules[k]
  OBVIOUS
<1>2. m \in Item /\ m.id \in Mod!Id
  BY <1>0, <1>1 DEF Item
<1>3. \A l \in 1 .. k : l = k \/ l \in 1 .. k - 1
  BY <1>0
<1>4. CASE a.err \/ GroupOf[m.id] \notin gs
  <2>1. b = a
    BY <1>1, <1>4 DEF Mod!StopNext
  <2> QED
    BY <1>1, <1>3, <1>4, <2>1 DEF StoppedUpTo
<1>5. CASE ~ (a.err \/ GroupOf[m.id] \notin gs)
  <2>1. b = [x |-> Mod!stopModule(a.x, m.id), err |-> Mod!StopFails(a.x, m.id)]
    BY <1>1, <1>5 DEF Mod!StopNext
  <2>2. PICK y : y = Mod!stopModule(a.x, m.id)
    OBVIOUS
  <2>3. /\ y \in Worlds /\ y.modules = a.x.modules /\ y.lost = a.x.lost
        /\ Mod!StopFails(a.x, m.id) => y = a.x
        /\ ~ Mod!StopFails(a.x, m.id) => y.states[m.id] = Mod!NoState /\ m.id \notin y.sockets
        /\ \A j \in Mod!Id \ {m.id} : SameAt(a.x, y, j)
    BY <1>0, <1>2, <2>2, StopModuleIs
  <2>4. b \in Acc /\ b.x = y /\ b.err = Mod!StopFails(a.x, m.id)
    BY <2>1, <2>2, <2>3 DEF Acc, Mod!StopFails
  <2>5. CASE Mod!StopFails(a.x, m.id)
    <3>1. Stopped(a.x, m.id)
      BY <2>5 DEF Stopped, Mod!StopFails
    <3>2. Stopped(x, m.id)
      BY <1>2, <3>1 DEF StoppedUpTo, Stopped, SameAt, Mod!NoState
    <3> QED
      BY <1>2, <2>3, <2>4, <2>5, <3>2 DEF StoppedUpTo
  <2>6. CASE ~ Mod!StopFails(a.x, m.id)
    <3>1. ModuleOK(y, m.id) /\ Distinct(y)
      BY <1>0, <2>3, <2>6 DEF ModuleOK, Mod!NoState, WorldOK, Distinct
    <3>2. WorldOK(y)
      BY <1>0, <1>2, <2>3, <3>1, OneChanged
    <3>3. \A i \in Mod!Id : SameAt(x, y, i) \/ (GroupOf[i] \in gs /\ y.states[i] = Mod!NoState)
      <4> TAKE i \in Mod!Id
      <4>1. CASE i = m.id
        BY <1>5, <2>3, <2>6, <4>1
      <4>2. CASE i # m.id
        BY <2>3, <4>2, SameTrans DEF StoppedUpTo, SameAt
      <4> QED
        BY <4>1, <4>2
    <3>4. \A l \in 1 .. k : GroupOf[x.modules[l].id] \in gs => y.states[x.modules[l].id] = Mod!NoState
      <4> SUFFICES ASSUME NEW l \in 1 .. k, GroupOf[x.modules[l].id] \in gs
                   PROVE  y.states[x.modules[l].id] = Mod!NoState
        OBVIOUS
      <4>1. l \in 1 .. Len(x.modules)
        BY <1>0
      <4>2. x.modules[l] \in Item
        BY <1>0, <4>1 DEF Worlds
      <4>3. x.modules[l].id \in Mod!Id
        BY <4>2 DEF Item
      <4>4. CASE x.modules[l].id = m.id
        BY <2>3, <2>6, <4>4
      <4>5. CASE x.modules[l].id # m.id
        BY <1>1, <1>3, <1>5, <2>3, <4>3, <4>5 DEF StoppedUpTo, SameAt
      <4> QED
        BY <4>4, <4>5
    <3> QED
      BY <2>3, <2>4, <2>6, <3>2, <3>3, <3>4 DEF StoppedUpTo
  <2> QED
    BY <2>5, <2>6, <2>4
<1> QED
  BY <1>4, <1>5

\* What StopModulesForGroup, or StopAllModules, leaves.
LEMMA StopGroupsIs ==
  ASSUME NEW x, WorldOK(x), NEW gs
  PROVE  \E a \in Acc : a.x = Mod!stopGroups(x, gs) /\ StoppedUpTo(x, a, gs, Len(x.modules))
<1> DEFINE n == Len(x.modules)
           s == [x |-> x, err |-> FALSE]
           Q(k) == {a \in Acc : StoppedUpTo(x, a, gs, k)}
           P == [k \in 0 .. n |-> Q(k)]
           Body(a, k) == Mod!StopNext(a, x.modules[k], gs)
           F == [k \in 1 .. n |-> [a \in P[k - 1] |-> Body(a, k)]]
           Loop(f) == f = [k \in 0 .. n |-> IF k = 0 THEN s ELSE Body(f[k - 1], k)]
           h == CHOOSE f : Loop(f)
<1>0. x \in Worlds /\ n \in Nat
  BY DEF WorldOK, Worlds
<1>1. s \in Q(0)
  BY <1>0 DEF Acc, StoppedUpTo, SameAt
<1>2. \A k \in 1 .. n : \A a \in Q(k - 1) : Body(a, k) \in Q(k)
  BY <1>0, StopNextKeeps
<1>3. Mod!stopGroups(x, gs) = h[n].x
  BY DEF Mod!stopGroups, Mod!ForEach
<1>4. /\ \A k \in 1 .. n : \A a \in P[k - 1] : F[k][a] = Body(a, k)
      /\ \A k \in 0 .. n : P[k] = Q(k)
  OBVIOUS
<1> HIDE DEF n, s, Q, Body, h, P, F
<1>5. 0 \in 0 .. n /\ n \in 0 .. n /\ \A k \in 1 .. n : k \in 0 .. n /\ k - 1 \in 0 .. n /\ k # 0
  BY <1>0
<1>6. s \in P[0] /\ \A k \in 1 .. n : \A a \in P[k - 1] : Body(a, k) \in P[k]
  BY <1>1, <1>2, <1>4, <1>5
<1>7. PICK f : LoopOf(f, n, s, F) /\ \A k \in 0 .. n : f[k] \in P[k]
  <2>1. \A k \in 1 .. n : \A a \in P[k - 1] : F[k][a] \in P[k]
    BY <1>4, <1>6
  <2> QED
    BY <1>0, <1>6, <2>1, LoopRuns
<1>8. Loop(f)
  <2>1. \A k \in 0 .. n : k # 0 => k \in 1 .. n
    BY <1>0
  <2>2. \A k \in 0 .. n : (IF k = 0 THEN s ELSE F[k][f[k - 1]]) = IF k = 0 THEN s ELSE Body(f[k - 1], k)
    BY <1>4, <1>5, <1>7, <2>1
  <2> QED
    BY <1>7, <2>2 DEF LoopOf
<1> HIDE DEF Loop
<1>9. Loop(h)
  BY <1>8 DEF h
<1>10. h[0] = s /\ \A k \in 1 .. n : h[k] = Body(h[k - 1], k)
  <2>1. h[0] = s
    BY <1>5, <1>9 DEF Loop
  <2>2. \A k \in 1 .. n : h[k] = Body(h[k - 1], k)
    BY <1>5, <1>9 DEF Loop
  <2> QED
    BY <2>1, <2>2
<1>11. h[n] \in P[n]
  <2>1. \A k \in 1 .. n : h[k - 1] \in P[k - 1] => h[k] \in P[k]
    BY <1>6, <1>10
  <2>2. \A k \in 0 .. n : h[k] \in P[k]
    BY <1>0, <1>6, <1>10, <2>1, LoopKeeps
  <2> QED
    BY <1>5, <2>2
<1>12. h[n] \in Q(n)
  BY <1>4, <1>5, <1>11
<1> QED
  BY <1>3, <1>12 DEF Q, n

----------------------------------------------------------------------------
\* A check of doSync: what it has made, and whom it will notify.
Tel == [x : Worlds, told : SUBSET Mod!All]

\* A configuration: what it makes of an item.
LEMMA ItemIs ==
  ASSUME NEW C \in [Mod!Id -> Row], NEW i \in Mod!Id, NEW m, m = Mod!Item(i, C[i])
  PROVE  m \in Item /\ m.id = i /\ m.v = C[i].v /\ m.c = C[i].c
<1>1. C[i] \in Row
  OBVIOUS
<1> QED
  BY <1>1 DEF Mod!Item, Item, Row

\* The list with m in the place of the entry of its module.
LEMMA ReplaceIs ==
  ASSUME NEW x \in Worlds, Distinct(x), NEW m \in Item, Mod!Listed(x, m.id),
         NEW y, y \in Worlds, y.modules = [x.modules EXCEPT ![Mod!Place(x, m.id)] = m]
  PROVE  /\ Distinct(y) /\ Entries(y, m.id) = {m}
         /\ \A j \in Mod!Id \ {m.id} : Entries(y, j) = Entries(x, j)
<1>1. PICK p : p = Mod!Place(x, m.id)
  OBVIOUS
<1>2. p \in DOMAIN x.modules /\ x.modules[p].id = m.id
  BY <1>1, PlaceIs
<1>3. DOMAIN y.modules = DOMAIN x.modules
  BY <1>1 DEF Worlds
<1>4. y.modules[p] = m /\ \A l \in DOMAIN x.modules \ {p} : y.modules[l] = x.modules[l] /\ x.modules[l].id # m.id
  BY <1>1, <1>2 DEF Worlds, Distinct
<1>5. Distinct(y)
  BY <1>2, <1>3, <1>4 DEF Distinct
<1>6. Entries(y, m.id) = {m}
  BY <1>2, <1>3, <1>4 DEF Entries
<1>7. \A j \in Mod!Id \ {m.id} : Entries(y, j) = Entries(x, j)
  BY <1>2, <1>3, <1>4 DEF Entries
<1> QED
  BY <1>5, <1>6, <1>7

\* What only changes listed modules of S, and stops none for good.
Kept(x, y, S) ==
  /\ WorldOK(y)
  /\ \A i \in Mod!Id :
       /\ Entries(y, i) # {} <=> Entries(x, i) # {}
       /\ Served(x, i) => Served(y, i)
       /\ Stopped(y, i) => Stopped(x, i)
       /\ i \notin S => SameAt(x, y, i)

\* One such step after the other.
LEMMA KeptTrans ==
  ASSUME NEW x, NEW y, NEW z, NEW S, NEW T, NEW U, S \subseteq U, T \subseteq U,
         Kept(x, y, S), Kept(y, z, T)
  PROVE  Kept(x, z, U)
<1>1. \A i \in Mod!Id : i \notin U => SameAt(x, z, i)
  BY SameTrans DEF Kept
<1> QED
  BY <1>1 DEF Kept

\* Module i, if it runs and is not given up, runs as C has it.
CurrentAt(x, C, i) ==
  i \notin x.lost /\ x.states[i].status = "RUNNING" /\ C[i] # Mod!NoRow =>
     x.states[i].v = C[i].v /\ x.states[i].c = C[i].c

\* What runs as C has it does so where nothing differs.
LEMMA SameCurrent ==
  ASSUME NEW x, NEW y, NEW C, NEW i, SameAt(x, y, i), CurrentAt(x, C, i)
  PROVE  CurrentAt(y, C, i)
BY DEF SameAt, CurrentAt

\* What updateModule leaves: the list has the new version, and what runs of it is that.
LEMMA UpdateIs ==
  ASSUME NEW x, WorldOK(x), NEW m \in Item, Mod!Listed(x, m.id), NEW bad,
         NEW z, z = Mod!updateModule(x, m, bad)
  PROVE  Kept(x, z, {m.id}) /\ (z.states[m.id].status = "RUNNING" => z.states[m.id].v = m.v /\ z.states[m.id].c = m.c)
<1>0. x \in Worlds /\ m.id \in Mod!Id /\ Distinct(x) /\ ModuleOK(x, m.id)
  BY DEF WorldOK, Item
<1>1. PICK y : y = [x EXCEPT !.modules = [x.modules EXCEPT ![Mod!Place(x, m.id)] = m]]
  OBVIOUS
<1>2. Mod!Place(x, m.id) \in DOMAIN x.modules
  BY <1>0, PlaceIs
<1>3. /\ y \in Worlds /\ y.modules = [x.modules EXCEPT ![Mod!Place(x, m.id)] = m]
      /\ y.states = x.states /\ y.sockets = x.sockets /\ y.lost = x.lost
  <2>1. PICK p : p = Mod!Place(x, m.id)
    OBVIOUS
  <2>2. x.modules \in Seq(Item) /\ p \in 1 .. Len(x.modules)
    BY <1>0, <1>2, <2>1 DEF Worlds
  <2>3. [x.modules EXCEPT ![p] = m] \in Seq(Item)
    BY <2>2
  <2> QED
    BY <1>0, <1>1, <2>1, <2>3 DEF Worlds
<1>4. /\ Distinct(y) /\ Entries(y, m.id) = {m}
      /\ \A j \in Mod!Id \ {m.id} : Entries(y, j) = Entries(x, j)
  BY <1>0, <1>3, ReplaceIs
<1>5. \A j \in Mod!Id \ {m.id} : SameAt(x, y, j)
  BY <1>3, <1>4 DEF SameAt
<1>6. Entries(x, m.id) # {}
  BY <1>0, ListedIs
<1>7. z = IF Mod!StopFails(y, m.id) THEN y ELSE Mod!StartOrLose(Mod!stopModule(y, m.id), m, bad)
  BY <1>1 DEF Mod!updateModule
<1>8. CASE Mod!StopFails(y, m.id)
  <2>1. z = y /\ Stopped(x, m.id) /\ Stopped(y, m.id)
    BY <1>3, <1>7, <1>8 DEF Mod!StopFails, Stopped
  <2>2. ModuleOK(y, m.id)
    BY <1>0, <1>3, <2>1 DEF ModuleOK, Stopped
  <2>3. WorldOK(y)
    BY <1>0, <1>3, <1>4, <1>5, <2>2, OneChanged
  <2>4. Served(y, m.id)
    BY <2>1, <2>2 DEF Served, ModuleOK, Stopped
  <2>5. \A i \in Mod!Id : /\ Entries(y, i) # {} <=> Entries(x, i) # {}
                          /\ Served(x, i) => Served(y, i)
                          /\ Stopped(y, i) => Stopped(x, i)
    BY <1>4, <1>5, <1>6, <2>1, <2>4, SameServed
  <2> QED
    BY <1>5, <2>1, <2>3, <2>5 DEF Kept, Stopped
<1>9. CASE ~ Mod!StopFails(y, m.id)
  <2>1. PICK w : w = Mod!stopModule(y, m.id)
    OBVIOUS
  <2>2. /\ w \in Worlds /\ w.modules = y.modules /\ w.lost = y.lost
        /\ w.states[m.id] = Mod!NoState /\ m.id \notin w.sockets
        /\ \A j \in Mod!Id \ {m.id} : SameAt(y, w, j)
    BY <1>0, <1>3, <1>9, <2>1, StopModuleIs
  <2>3. \A j : Entries(w, j) = Entries(y, j)
    BY <2>2, SameEntries
  <2>4. ModuleOK(w, m.id) /\ Distinct(w)
    BY <1>4, <2>2 DEF ModuleOK, Mod!NoState, Distinct
  <2>5. \A j \in Mod!Id \ {m.id} : SameAt(x, w, j)
    BY <1>5, <2>2, SameTrans
  <2>6. WorldOK(w)
    BY <1>0, <2>2, <2>4, <2>5, OneChanged
  <2>7. m \in Entries(w, m.id)
    BY <1>4, <2>3
  <2>8. /\ WorldOK(z) /\ z.modules = w.modules
        /\ \A j \in Mod!Id \ {m.id} : SameAt(w, z, j)
        /\ m.id \notin z.lost => z.states[m.id].status = "RUNNING"
        /\ z.states[m.id].status = "STOPPED" => w.states[m.id].status = "STOPPED"
    BY <1>7, <1>9, <2>1, <2>6, <2>7, StartListed
  <2>9. \A j : Entries(z, j) = Entries(y, j)
    BY <2>2, <2>8, SameEntries
  <2>10. \A j \in Mod!Id \ {m.id} : SameAt(x, z, j)
    BY <2>5, <2>8, SameTrans
  <2>11. Served(z, m.id) /\ ~ Stopped(z, m.id)
    BY <2>2, <2>8 DEF Served, Stopped, Mod!NoState
  <2>12. z.states[m.id].status = "RUNNING" => z.states[m.id].v = m.v /\ z.states[m.id].c = m.c
    BY <1>0, <1>4, <2>8, <2>9 DEF WorldOK, ModuleOK
  <2>13. \A i \in Mod!Id : /\ Entries(z, i) # {} <=> Entries(x, i) # {}
                           /\ Served(x, i) => Served(z, i)
                           /\ Stopped(z, i) => Stopped(x, i)
    BY <1>4, <1>6, <2>9, <2>10, <2>11, SameServed
  <2> QED
    BY <2>8, <2>10, <2>12, <2>13 DEF Kept
<1> QED
  BY <1>8, <1>9

\* The order of the database names every module once.
LEMMA OrderIs ==
  /\ Order \in Seq(Mod!Id) /\ Len(Order) \in Nat
  /\ \A i : i \in Mod!Id <=> \E l \in 1 .. Len(Order) : Order[l] = i
  /\ \A i \in Mod!Id : GroupOf[i] \in Mod!All
  /\ \A j, k \in 1 .. Len(Order) : Order[j] = Order[k] => j = k
<1>1. Order \in Seq(Mod!Id) /\ \A i \in Mod!Id : GroupOf[i] \in Mod!All
  BY ModuleAssumption DEF Mod!ParametersOK
<1>2. Len(Order) \in Nat /\ DOMAIN Order = 1 .. Len(Order)
  BY <1>1
<1>3. \A i : i \in Mod!Id <=> \E l \in 1 .. Len(Order) : Order[l] = i
  BY <1>2 DEF Mod!Id, Mod!Range
<1>4. \A j, k \in 1 .. Len(Order) : Order[j] = Order[k] => j = k
  BY <1>2, ModuleAssumption DEF Mod!ParametersOK
<1> QED
  BY <1>1, <1>2, <1>3, <1>4

----------------------------------------------------------------------------
\* The new versions, after k modules of the configuration.
UpdatedUpTo(x, a, C, newv, k) ==
  Kept(x, a.x, newv) /\ \A l \in 1 .. k : Order[l] \in newv => CurrentAt(a.x, C, Order[l])

\* One more module of the configuration.
LEMMA UpdateNextKeeps ==
  ASSUME NEW x, WorldOK(x), NEW C \in [Mod!Id -> Row], NEW bad, NEW newv,
         \A i \in newv : i \in Mod!Id /\ Entries(x, i) # {}, NEW k \in 1 .. Len(Order),
         NEW a \in Tel, UpdatedUpTo(x, a, C, newv, k - 1),
         NEW b, b = Mod!UpdateNext(a, Order[k], C, bad, newv)
  PROVE  b \in Tel /\ UpdatedUpTo(x, b, C, newv, k)
<1>1. PICK i : i = Order[k]
  OBVIOUS
<1>2. Len(Order) \in Nat /\ i \in Mod!Id /\ GroupOf[i] \in Mod!All
  BY <1>1, OrderIs
<1>3. \A l \in 1 .. k : (l = k \/ l \in 1 .. k - 1) /\ Order[l] \in Mod!Id
  <2>1. \A l \in 1 .. k : (l = k \/ l \in 1 .. k - 1) /\ l \in 1 .. Len(Order)
    BY <1>2
  <2>2. \A l \in 1 .. Len(Order) : Order[l] \in Mod!Id
    BY OrderIs
  <2> QED
    BY <2>1, <2>2
<1>4. CASE i \notin newv
  <2>1. b = a
    BY <1>1, <1>4 DEF Mod!UpdateNext
  <2> QED
    BY <1>1, <1>3, <1>4, <2>1 DEF UpdatedUpTo
<1>5. CASE i \in newv
  <2>1. PICK m : m = Mod!Item(i, C[i])
    OBVIOUS
  <2>2. m \in Item /\ m.id = i /\ m.v = C[i].v /\ m.c = C[i].c
    BY <1>2, <2>1, ItemIs
  <2>3. PICK z : z = Mod!updateModule(a.x, m, bad)
    OBVIOUS
  <2>4. b.x = z /\ b.told \in SUBSET Mod!All /\ b = [x |-> b.x, told |-> b.told]
    <3>1. b = [x |-> z, told |-> IF Mod!UpdateFails(a.x, m, bad) THEN a.told ELSE a.told \cup {GroupOf[i]}]
      BY <1>1, <1>5, <2>1, <2>3 DEF Mod!UpdateNext
    <3> QED
      BY <1>2, <3>1 DEF Tel
  <2>5. WorldOK(a.x) /\ Kept(x, a.x, newv) /\ a.x \in Worlds
    BY DEF UpdatedUpTo, Kept, Tel
  <2>6. Mod!Listed(a.x, m.id)
    BY <1>2, <1>5, <2>2, <2>5, ListedIs DEF Kept
  <2>7. /\ Kept(a.x, z, {m.id})
        /\ z.states[m.id].status = "RUNNING" => z.states[m.id].v = m.v /\ z.states[m.id].c = m.c
    BY <2>2, <2>3, <2>5, <2>6, UpdateIs
  <2>8. Kept(x, z, newv)
    BY <1>5, <2>2, <2>5, <2>7, KeptTrans
  <2>9. CurrentAt(z, C, i)
    BY <2>2, <2>7 DEF CurrentAt
  <2>10. \A l \in 1 .. k : Order[l] \in newv => CurrentAt(z, C, Order[l])
    <3> SUFFICES ASSUME NEW l \in 1 .. k, Order[l] \in newv PROVE CurrentAt(z, C, Order[l])
      OBVIOUS
    <3>1. CASE Order[l] = i
      BY <2>9, <3>1
    <3>2. CASE Order[l] # i
      <4>1. SameAt(a.x, z, Order[l])
        BY <1>3, <2>2, <2>7, <3>2 DEF Kept
      <4>2. CurrentAt(a.x, C, Order[l])
        BY <1>1, <1>3, <3>2 DEF UpdatedUpTo
      <4> QED
        BY <4>1, <4>2, SameCurrent
    <3> QED
      BY <3>1, <3>2
  <2>11. b \in Tel
    BY <2>4, <2>8 DEF Tel, Kept, WorldOK
  <2> QED
    BY <2>4, <2>8, <2>10, <2>11 DEF UpdatedUpTo
<1> QED
  BY <1>4, <1>5

\* The first loop of checkUpdateModules ...
Updates(x, C, bad, newv) ==
  Mod!ForEach(LAMBDA a, i : Mod!UpdateNext(a, i, C, bad, newv), [x |-> x, told |-> {}], Order)

\* What the loop of new versions leaves.
LEMMA UpdatesIs ==
  ASSUME NEW x, WorldOK(x), NEW C \in [Mod!Id -> Row], NEW bad, NEW newv,
         \A i \in newv : i \in Mod!Id /\ Entries(x, i) # {}
  PROVE  \E a \in Tel : a = Updates(x, C, bad, newv) /\ UpdatedUpTo(x, a, C, newv, Len(Order))
<1> DEFINE n == Len(Order)
           s == [x |-> x, told |-> {}]
           Q(k) == {a \in Tel : UpdatedUpTo(x, a, C, newv, k)}
           P == [k \in 0 .. n |-> Q(k)]
           Body(a, k) == Mod!UpdateNext(a, Order[k], C, bad, newv)
           F == [k \in 1 .. n |-> [a \in P[k - 1] |-> Body(a, k)]]
           Loop(f) == f = [k \in 0 .. n |-> IF k = 0 THEN s ELSE Body(f[k - 1], k)]
           h == CHOOSE f : Loop(f)
<1>0. x \in Worlds /\ n \in Nat
  BY OrderIs DEF WorldOK
<1>1. s \in Q(0)
  BY <1>0 DEF Tel, UpdatedUpTo, Kept, SameAt
<1>2. \A k \in 1 .. n : \A a \in Q(k - 1) : Body(a, k) \in Q(k)
  BY <1>0, UpdateNextKeeps
<1>3. Updates(x, C, bad, newv) = h[n]
  BY DEF Updates, Mod!ForEach
<1>4. /\ \A k \in 1 .. n : \A a \in P[k - 1] : F[k][a] = Body(a, k)
      /\ \A k \in 0 .. n : P[k] = Q(k)
  OBVIOUS
<1> HIDE DEF n, s, Q, Body, h, P, F
<1>5. 0 \in 0 .. n /\ n \in 0 .. n /\ \A k \in 1 .. n : k \in 0 .. n /\ k - 1 \in 0 .. n /\ k # 0
  BY <1>0
<1>6. s \in P[0] /\ \A k \in 1 .. n : \A a \in P[k - 1] : Body(a, k) \in P[k]
  BY <1>1, <1>2, <1>4, <1>5
<1>7. PICK f : LoopOf(f, n, s, F) /\ \A k \in 0 .. n : f[k] \in P[k]
  <2>1. \A k \in 1 .. n : \A a \in P[k - 1] : F[k][a] \in P[k]
    BY <1>4, <1>6
  <2> QED
    BY <1>0, <1>6, <2>1, LoopRuns
<1>8. Loop(f)
  <2>1. \A k \in 0 .. n : k # 0 => k \in 1 .. n
    BY <1>0
  <2>2. \A k \in 0 .. n : (IF k = 0 THEN s ELSE F[k][f[k - 1]]) = IF k = 0 THEN s ELSE Body(f[k - 1], k)
    BY <1>4, <1>5, <1>7, <2>1
  <2> QED
    BY <1>7, <2>2 DEF LoopOf
<1> HIDE DEF Loop
<1>9. Loop(h)
  BY <1>8 DEF h
<1>10. h[0] = s /\ \A k \in 1 .. n : h[k] = Body(h[k - 1], k)
  <2>1. h[0] = s
    BY <1>5, <1>9 DEF Loop
  <2>2. \A k \in 1 .. n : h[k] = Body(h[k - 1], k)
    BY <1>5, <1>9 DEF Loop
  <2> QED
    BY <2>1, <2>2
<1>11. h[n] \in P[n]
  <2>1. \A k \in 1 .. n : h[k - 1] \in P[k - 1] => h[k] \in P[k]
    BY <1>6, <1>10
  <2>2. \A k \in 0 .. n : h[k] \in P[k]
    BY <1>0, <1>6, <1>10, <2>1, LoopKeeps
  <2> QED
    BY <1>5, <2>2
<1>12. h[n] \in Q(n)
  BY <1>4, <1>5, <1>11
<1> QED
  BY <1>3, <1>12 DEF Q, n

----------------------------------------------------------------------------
\* The new configurations, after k modules of it.
RenewedUpTo(x, a, C, newc, k) ==
  /\ Kept(x, a.x, newc)
  /\ \A i \in newc : \A m \in Entries(a.x, i) : m.v = C[i].v
  /\ \A l \in 1 .. k : Order[l] \in newc => CurrentAt(a.x, C, Order[l])

\* Module m.id has m's configuration, in the version it had.
RenewedAt(x, z, m) ==
  /\ Kept(x, z, {m.id})
  /\ \A e \in Entries(z, m.id) : e.v = m.v
  /\ z.states[m.id].status = "RUNNING" => z.states[m.id].v = m.v /\ z.states[m.id].c = m.c

\* What updateModuleConfig leaves.
LEMMA UpdateConfigIs ==
  ASSUME NEW x, WorldOK(x), NEW m \in Item, Mod!Listed(x, m.id),
         \A e \in Entries(x, m.id) : e.v = m.v,
         NEW z, z = Mod!updateModuleConfig(x, m)
  PROVE  RenewedAt(x, z, m)
<1>0. x \in Worlds /\ m.id \in Mod!Id /\ Distinct(x) /\ ModuleOK(x, m.id)
  BY DEF WorldOK, Item
<1>1. CASE x.states[m.id] = Mod!NoState
  <2>1. z = x
    BY <1>1 DEF Mod!updateModuleConfig
  <2> QED
    BY <1>1, <2>1 DEF RenewedAt, Kept, SameAt, Mod!NoState
<1>2. CASE x.states[m.id] # Mod!NoState
  <2>1. PICK p : p = Mod!Place(x, m.id)
    OBVIOUS
  <2>2. /\ x.modules \in Seq(Item) /\ p \in 1 .. Len(x.modules) /\ p \in DOMAIN x.modules
        /\ x.modules[p].id = m.id /\ x.modules[p] \in Entries(x, m.id)
    BY <1>0, <2>1, PlaceIs DEF Worlds
  <2>3. x.modules[p].v = m.v /\ x.modules[p] \in Item
    BY <2>2 DEF Entries
  <2>4. [x.modules[p] EXCEPT !.c = m.c] = m
    BY <2>2, <2>3 DEF Item
  <2>5. z = [x EXCEPT !.modules = [x.modules EXCEPT ![p] = [x.modules[p] EXCEPT !.c = m.c]],
                      !.states = [x.states EXCEPT ![m.id] = [x.states[m.id] EXCEPT !.c = m.c]]]
    BY <1>2, <2>1 DEF Mod!updateModuleConfig
  <2>6. PICK t : t = [x.states[m.id] EXCEPT !.c = m.c]
    OBVIOUS
  <2>7. x.states[m.id] \in Status /\ m.c \in Mod!Stamp
    BY <1>0 DEF Worlds, Item
  <2>8. t \in Status /\ t.status = x.states[m.id].status /\ t.v = x.states[m.id].v /\ t.c = m.c
    BY <2>6, <2>7 DEF Status
  <2>9. [x.modules EXCEPT ![p] = m] \in Seq(Item)
    BY <2>2
  <2>10. /\ z.modules = [x.modules EXCEPT ![p] = m] /\ z.states = [x.states EXCEPT ![m.id] = t]
         /\ z.sockets = x.sockets /\ z.lost = x.lost /\ z \in Worlds
    <3>1. z = [x EXCEPT !.modules = [x.modules EXCEPT ![p] = m], !.states = [x.states EXCEPT ![m.id] = t]]
      BY <2>4, <2>5, <2>6
    <3>2. [x.states EXCEPT ![m.id] = t] \in [Mod!Id -> Status]
      BY <1>0, <2>8 DEF Worlds
    <3> QED
      BY <1>0, <2>9, <3>1, <3>2 DEF Worlds
  <2>11. z.states[m.id] = t /\ \A j \in Mod!Id \ {m.id} : z.states[j] = x.states[j]
    BY <1>0, <2>10 DEF Worlds
  <2>12. /\ Distinct(z) /\ Entries(z, m.id) = {m}
         /\ \A j \in Mod!Id \ {m.id} : Entries(z, j) = Entries(x, j)
    BY <1>0, <2>1, <2>10, ReplaceIs
  <2>13. \A j \in Mod!Id \ {m.id} : SameAt(x, z, j)
    BY <2>10, <2>11, <2>12 DEF SameAt
  <2>14. t.status # "none"
    BY <1>0, <1>2, <2>8 DEF ModuleOK
  <2>15. t.status \in {"LOADED", "RUNNING"} => t.v = m.v /\ t.c = m.c
    BY <1>0, <2>2, <2>3, <2>8 DEF ModuleOK
  <2>16. ModuleOK(z, m.id)
    BY <1>0, <2>8, <2>10, <2>11, <2>12, <2>14, <2>15 DEF ModuleOK
  <2>17. WorldOK(z)
    BY <1>0, <2>10, <2>12, <2>13, <2>16, OneChanged
  <2>18. /\ Served(x, m.id) <=> Served(z, m.id)
         /\ Stopped(x, m.id) <=> Stopped(z, m.id)
    BY <2>8, <2>10, <2>11 DEF Served, Stopped
  <2>19. \A i \in Mod!Id : /\ Entries(z, i) # {} <=> Entries(x, i) # {}
                           /\ Served(x, i) => Served(z, i)
                           /\ Stopped(z, i) => Stopped(x, i)
    BY <2>2, <2>12, <2>13, <2>18, SameServed
  <2> QED
    BY <2>11, <2>12, <2>13, <2>15, <2>17, <2>19 DEF RenewedAt, Kept
<1> QED
  BY <1>1, <1>2

\* One more module of the configuration.
LEMMA RenewNextKeeps ==
  ASSUME NEW x, WorldOK(x), NEW C \in [Mod!Id -> Row], NEW newc,
         \A i \in newc : i \in Mod!Id /\ Entries(x, i) # {}, NEW k \in 1 .. Len(Order),
         NEW a \in Tel, RenewedUpTo(x, a, C, newc, k - 1),
         NEW b, b = Mod!RenewNext(a, Order[k], C, newc)
  PROVE  b \in Tel /\ RenewedUpTo(x, b, C, newc, k)
<1>1. PICK i : i = Order[k]
  OBVIOUS
<1>2. Len(Order) \in Nat /\ i \in Mod!Id /\ GroupOf[i] \in Mod!All
  BY <1>1, OrderIs
<1>3. \A l \in 1 .. k : (l = k \/ l \in 1 .. k - 1) /\ Order[l] \in Mod!Id
  <2>1. \A l \in 1 .. k : (l = k \/ l \in 1 .. k - 1) /\ l \in 1 .. Len(Order)
    BY <1>2
  <2>2. \A l \in 1 .. Len(Order) : Order[l] \in Mod!Id
    BY OrderIs
  <2> QED
    BY <2>1, <2>2
<1>4. CASE i \notin newc
  <2>1. b = a
    BY <1>1, <1>4 DEF Mod!RenewNext
  <2> QED
    BY <1>1, <1>3, <1>4, <2>1 DEF RenewedUpTo
<1>5. CASE i \in newc
  <2>1. PICK m : m = Mod!Item(i, C[i])
    OBVIOUS
  <2>2. m \in Item /\ m.id = i /\ m.v = C[i].v /\ m.c = C[i].c
    BY <1>2, <2>1, ItemIs
  <2>3. PICK z : z = Mod!updateModuleConfig(a.x, m)
    OBVIOUS
  <2>4. b.x = z /\ b.told \in SUBSET Mod!All /\ b = [x |-> b.x, told |-> b.told]
    <3>1. b = [x |-> z, told |-> a.told \cup {GroupOf[i]}]
      BY <1>1, <1>5, <2>1, <2>3 DEF Mod!RenewNext
    <3> QED
      BY <1>2, <3>1 DEF Tel
  <2>5. WorldOK(a.x) /\ Kept(x, a.x, newc) /\ a.x \in Worlds
    BY DEF RenewedUpTo, Kept, Tel
  <2>6. Mod!Listed(a.x, m.id)
    BY <1>2, <1>5, <2>2, <2>5, ListedIs DEF Kept
  <2>0. \A e \in Entries(a.x, m.id) : e.v = m.v
    BY <1>5, <2>2 DEF RenewedUpTo
  <2>7. /\ Kept(a.x, z, {m.id})
        /\ \A e \in Entries(z, m.id) : e.v = m.v
        /\ z.states[m.id].status = "RUNNING" => z.states[m.id].v = m.v /\ z.states[m.id].c = m.c
    <3>1. RenewedAt(a.x, z, m)
      BY <2>0, <2>2, <2>3, <2>5, <2>6, UpdateConfigIs
    <3> QED
      BY <3>1 DEF RenewedAt
  <2>8. Kept(x, z, newc)
    BY <1>5, <2>2, <2>5, <2>7, KeptTrans
  <2>9. CurrentAt(z, C, i)
    BY <2>2, <2>7 DEF CurrentAt
  <2>10. \A l \in 1 .. k : Order[l] \in newc => CurrentAt(z, C, Order[l])
    <3> SUFFICES ASSUME NEW l \in 1 .. k, Order[l] \in newc PROVE CurrentAt(z, C, Order[l])
      OBVIOUS
    <3>1. CASE Order[l] = i
      BY <2>9, <3>1
    <3>2. CASE Order[l] # i
      <4>1. SameAt(a.x, z, Order[l])
        BY <1>3, <2>2, <2>7, <3>2 DEF Kept
      <4>2. CurrentAt(a.x, C, Order[l])
        BY <1>1, <1>3, <3>2 DEF RenewedUpTo
      <4> QED
        BY <4>1, <4>2, SameCurrent
    <3> QED
      BY <3>1, <3>2
  <2>11. b \in Tel
    BY <2>4, <2>8 DEF Tel, Kept, WorldOK
  <2>12. \A j \in newc : \A e \in Entries(z, j) : e.v = C[j].v
    BY <2>2, <2>7 DEF Kept, SameAt, RenewedUpTo
  <2> QED
    BY <2>4, <2>8, <2>10, <2>11, <2>12 DEF RenewedUpTo
<1> QED
  BY <1>4, <1>5

\* ... and the second.
Renews(y, C, newc) ==
  Mod!ForEach(LAMBDA a, i : Mod!RenewNext(a, i, C, newc), y, Order)

\* What the loop of new configurations leaves.
LEMMA RenewsIs ==
  ASSUME NEW y \in Tel, WorldOK(y.x), NEW C \in [Mod!Id -> Row], NEW newc,
         \A i \in newc : i \in Mod!Id /\ Entries(y.x, i) # {} /\ \A m \in Entries(y.x, i) : m.v = C[i].v
  PROVE  \E a \in Tel : a = Renews(y, C, newc) /\ RenewedUpTo(y.x, a, C, newc, Len(Order))
<1> DEFINE n == Len(Order)
           s == y
           Q(k) == {a \in Tel : RenewedUpTo(y.x, a, C, newc, k)}
           P == [k \in 0 .. n |-> Q(k)]
           Body(a, k) == Mod!RenewNext(a, Order[k], C, newc)
           F == [k \in 1 .. n |-> [a \in P[k - 1] |-> Body(a, k)]]
           Loop(f) == f = [k \in 0 .. n |-> IF k = 0 THEN s ELSE Body(f[k - 1], k)]
           h == CHOOSE f : Loop(f)
<1>0. n \in Nat
  BY OrderIs
<1>1. s \in Q(0)
  BY <1>0 DEF Tel, RenewedUpTo, Kept, SameAt
<1>2. \A k \in 1 .. n : \A a \in Q(k - 1) : Body(a, k) \in Q(k)
  BY <1>0, RenewNextKeeps
<1>3. Renews(y, C, newc) = h[n]
  BY DEF Renews, Mod!ForEach
<1>4. /\ \A k \in 1 .. n : \A a \in P[k - 1] : F[k][a] = Body(a, k)
      /\ \A k \in 0 .. n : P[k] = Q(k)
  OBVIOUS
<1> HIDE DEF n, s, Q, Body, h, P, F
<1>5. 0 \in 0 .. n /\ n \in 0 .. n /\ \A k \in 1 .. n : k \in 0 .. n /\ k - 1 \in 0 .. n /\ k # 0
  BY <1>0
<1>6. s \in P[0] /\ \A k \in 1 .. n : \A a \in P[k - 1] : Body(a, k) \in P[k]
  BY <1>1, <1>2, <1>4, <1>5
<1>7. PICK f : LoopOf(f, n, s, F) /\ \A k \in 0 .. n : f[k] \in P[k]
  <2>1. \A k \in 1 .. n : \A a \in P[k - 1] : F[k][a] \in P[k]
    BY <1>4, <1>6
  <2> QED
    BY <1>0, <1>6, <2>1, LoopRuns
<1>8. Loop(f)
  <2>1. \A k \in 0 .. n : k # 0 => k \in 1 .. n
    BY <1>0
  <2>2. \A k \in 0 .. n : (IF k = 0 THEN s ELSE F[k][f[k - 1]]) = IF k = 0 THEN s ELSE Body(f[k - 1], k)
    BY <1>4, <1>5, <1>7, <2>1
  <2> QED
    BY <1>7, <2>2 DEF LoopOf
<1> HIDE DEF Loop
<1>9. Loop(h)
  BY <1>8 DEF h
<1>10. h[0] = s /\ \A k \in 1 .. n : h[k] = Body(h[k - 1], k)
  <2>1. h[0] = s
    BY <1>5, <1>9 DEF Loop
  <2>2. \A k \in 1 .. n : h[k] = Body(h[k - 1], k)
    BY <1>5, <1>9 DEF Loop
  <2> QED
    BY <2>1, <2>2
<1>11. h[n] \in P[n]
  <2>1. \A k \in 1 .. n : h[k - 1] \in P[k - 1] => h[k] \in P[k]
    BY <1>6, <1>10
  <2>2. \A k \in 0 .. n : h[k] \in P[k]
    BY <1>0, <1>6, <1>10, <2>1, LoopKeeps
  <2> QED
    BY <1>5, <2>2
<1>12. h[n] \in Q(n)
  BY <1>4, <1>5, <1>11
<1> QED
  BY <1>3, <1>12 DEF Q, n

\* Every module that runs, and is not given up, runs as C has it.
Current(x, C) == \A i \in Mod!Id : CurrentAt(x, C, i)

\* What checkUpdateModules leaves.
LEMMA CheckUpdateIs ==
  ASSUME NEW x, WorldOK(x), NEW C \in [Mod!Id -> Row], NEW bad,
         NEW r, r = Mod!checkUpdateModules(x, C, bad)
  PROVE  r \in Tel /\ Kept(x, r.x, Mod!Id) /\ Current(r.x, C)
<1> DEFINE newv == Mod!Changed(x, C)
           newc == Mod!Reconfigured(x, C)
<1>0. x \in Worlds
  BY DEF WorldOK
<1>1. \A i \in Mod!Id : Entries(x, i) # {} =>
         Mod!Entry(x, i) \in Entries(x, i) /\ \A m \in Entries(x, i) : m = Mod!Entry(x, i)
  <2> SUFFICES ASSUME NEW i \in Mod!Id, Entries(x, i) # {}
               PROVE  Mod!Entry(x, i) \in Entries(x, i) /\ \A m \in Entries(x, i) : m = Mod!Entry(x, i)
    OBVIOUS
  <2>1. Mod!Entry(x, i) \in Entries(x, i)
    BY <1>0, ListedIs, PlaceIs DEF Mod!Entry
  <2> QED
    BY <2>1 DEF WorldOK, Distinct, Entries
<1>2. \A i : i \in newv <=> i \in Mod!Id /\ C[i] # Mod!NoRow /\ Entries(x, i) # {} /\ Mod!Entry(x, i).v # C[i].v
  BY <1>0, ListedIs DEF Mod!Changed
<1>3. \A i : i \in newc <=> i \in Mod!Id /\ C[i] # Mod!NoRow /\ Entries(x, i) # {}
                            /\ Mod!Entry(x, i).v = C[i].v /\ Mod!Entry(x, i).c # C[i].c
  BY <1>0, ListedIs DEF Mod!Reconfigured
<1>4. r = Renews(Updates(x, C, bad, newv), C, newc)
  BY DEF Mod!checkUpdateModules, Renews, Updates
<1> HIDE DEF newv, newc
<1>5. PICK y \in Tel : y = Updates(x, C, bad, newv) /\ UpdatedUpTo(x, y, C, newv, Len(Order))
  BY <1>2, UpdatesIs
<1>6. Kept(x, y.x, newv) /\ WorldOK(y.x)
  BY <1>5 DEF UpdatedUpTo, Kept
<1>7. \A i \in newc : i \in Mod!Id /\ SameAt(x, y.x, i)
  BY <1>2, <1>3, <1>6 DEF Kept
<1>8. \A i \in newc : i \in Mod!Id /\ Entries(y.x, i) # {} /\ \A m \in Entries(y.x, i) : m.v = C[i].v
  BY <1>1, <1>3, <1>7 DEF SameAt
<1>9. r \in Tel /\ RenewedUpTo(y.x, r, C, newc, Len(Order))
  BY <1>4, <1>5, <1>6, <1>8, RenewsIs
<1>10. Kept(y.x, r.x, newc) /\ WorldOK(r.x)
  BY <1>9 DEF RenewedUpTo, Kept
<1>11. newv \subseteq Mod!Id /\ newc \subseteq Mod!Id
  BY <1>2, <1>3
<1>12. Kept(x, r.x, Mod!Id)
  BY <1>6, <1>10, <1>11, KeptTrans
<1>13. ASSUME NEW i \in Mod!Id PROVE CurrentAt(r.x, C, i)
  <2>0. PICK l \in 1 .. Len(Order) : Order[l] = i
    BY OrderIs
  <2>1. CASE i \in newv
    <3>1. CurrentAt(y.x, C, i)
      BY <1>5, <2>0, <2>1 DEF UpdatedUpTo
    <3>2. SameAt(y.x, r.x, i)
      BY <1>2, <1>3, <1>10, <2>1 DEF Kept
    <3> QED
      BY <3>1, <3>2, SameCurrent
  <2>2. CASE i \in newc
    BY <1>9, <2>0, <2>2 DEF RenewedUpTo
  <2>3. CASE i \notin newv /\ i \notin newc
    <3>1. SameAt(x, y.x, i) /\ SameAt(y.x, r.x, i)
      BY <1>6, <1>10, <2>3 DEF Kept
    <3>2. ModuleOK(x, i)
      BY DEF WorldOK
    <3>3. CurrentAt(x, C, i)
      <4>1. SUFFICES ASSUME x.states[i].status = "RUNNING", C[i] # Mod!NoRow
                     PROVE  x.states[i].v = C[i].v /\ x.states[i].c = C[i].c
        BY DEF CurrentAt
      <4>2. Entries(x, i) # {}
        BY <3>2, <4>1 DEF ModuleOK
      <4>3. Mod!Entry(x, i).v = C[i].v /\ Mod!Entry(x, i).c = C[i].c
        BY <1>2, <1>3, <2>3, <4>1, <4>2
      <4> QED
        BY <1>1, <3>2, <4>1, <4>2, <4>3 DEF ModuleOK
    <3> QED
      BY <3>1, <3>3, SameCurrent
  <2> QED
    BY <2>1, <2>2, <2>3
<1> QED
  BY <1>9, <1>12, <1>13 DEF Current

\* The list without its entry at p.
LEMMA RemoveAtIs ==
  ASSUME NEW s \in Seq(Item), NEW p \in 1 .. Len(s), NEW t, t = Mod!RemoveAt(s, p)
  PROVE  /\ t \in Seq(Item) /\ Len(t) = Len(s) - 1
         /\ \A l \in 1 .. Len(t) : t[l] = IF l < p THEN s[l] ELSE s[l + 1]
<1> DEFINE u == SubSeq(s, 1, p - 1)
           w == SubSeq(s, p + 1, Len(s))
<1>0. Len(s) \in Nat /\ p - 1 \in Int /\ p + 1 \in Int /\ p \in Int
  OBVIOUS
<1>1. \A l \in 1 .. Len(s) : s[l] \in Item
  OBVIOUS
<1>2. \A l \in 1 .. p - 1 : s[l] \in Item
  BY <1>0, <1>1
<1>3. \A l \in p + 1 .. Len(s) : s[l] \in Item
  BY <1>0, <1>1
<1>4. /\ u \in Seq(Item) /\ Len(u) = IF 1 <= p - 1 THEN p - 1 - 1 + 1 ELSE 0
      /\ \A l \in 1 .. p - 1 - 1 + 1 : u[l] = s[1 + l - 1]
  BY <1>0, <1>2, SubSeqProperties
<1>5. /\ w \in Seq(Item) /\ Len(w) = IF p + 1 <= Len(s) THEN Len(s) - (p + 1) + 1 ELSE 0
      /\ \A l \in 1 .. Len(s) - (p + 1) + 1 : w[l] = s[p + 1 + l - 1]
  BY <1>0, <1>3, SubSeqProperties
<1> HIDE DEF u, w
<1>6. /\ u \o w \in Seq(Item) /\ Len(u \o w) = Len(u) + Len(w)
      /\ \A l \in 1 .. Len(u) + Len(w) : (u \o w)[l] = IF l <= Len(u) THEN u[l] ELSE w[l - Len(u)]
  BY <1>4, <1>5, ConcatProperties
<1>7. t = u \o w
  BY DEF Mod!RemoveAt, u, w
<1>8. Len(u) = p - 1 /\ Len(w) = Len(s) - p
  BY <1>0, <1>4, <1>5
<1>9. Len(t) = Len(s) - 1
  <2>1. Len(t) = Len(u) + Len(w)
    BY <1>6, <1>7
  <2>2. (p - 1) + (Len(s) - p) = Len(s) - 1
    BY <1>0
  <2> QED
    BY <1>8, <2>1, <2>2
<1>10. ASSUME NEW l \in 1 .. Len(t) PROVE t[l] = IF l < p THEN s[l] ELSE s[l + 1]
  <2>1. CASE l < p
    <3>1. l \in 1 .. p - 1 - 1 + 1 /\ l <= Len(u) /\ l \in 1 .. Len(u) + Len(w) /\ 1 + l - 1 = l
      BY <1>0, <1>8, <1>9, <2>1
    <3> QED
      BY <1>4, <1>6, <1>7, <2>1, <3>1
  <2>2. CASE ~ (l < p)
    <3>1. /\ l - Len(u) \in 1 .. Len(s) - (p + 1) + 1 /\ ~ (l <= Len(u))
          /\ l \in 1 .. Len(u) + Len(w) /\ p + 1 + (l - Len(u)) - 1 = l + 1
      BY <1>0, <1>8, <1>9, <2>2
    <3> QED
      BY <1>5, <1>6, <1>7, <2>2, <3>1
  <2> QED
    BY <2>1, <2>2
<1> QED
  BY <1>6, <1>7, <1>9, <1>10

\* The list without module i.
LEMMA RemovedIs ==
  ASSUME NEW x \in Worlds, Distinct(x), NEW i \in Mod!Id, Mod!Listed(x, i),
         NEW y, y.modules = Mod!RemoveAt(x.modules, Mod!Place(x, i))
  PROVE  /\ y.modules \in Seq(Item) /\ Distinct(y) /\ Entries(y, i) = {}
         /\ \A j \in Mod!Id \ {i} : Entries(y, j) = Entries(x, j)
<1>1. PICK p : p = Mod!Place(x, i)
  OBVIOUS
<1>2. PICK s : s = x.modules
  OBVIOUS
<1>3. PICK t : t = y.modules
  OBVIOUS
<1>4. s \in Seq(Item) /\ p \in 1 .. Len(s) /\ s[p].id = i /\ Len(s) \in Nat
  BY <1>1, <1>2, PlaceIs DEF Worlds
<1>5. /\ t \in Seq(Item) /\ Len(t) = Len(s) - 1
      /\ \A l \in 1 .. Len(t) : t[l] = IF l < p THEN s[l] ELSE s[l + 1]
  <2>1. t = Mod!RemoveAt(s, p)
    BY <1>1, <1>2, <1>3
  <2> QED
    BY <1>4, <2>1, RemoveAtIs
<1>6. \A j, k \in 1 .. Len(s) : s[j].id = s[k].id => j = k
  BY <1>2, <1>4 DEF Distinct
<1>7. \A l \in 1 .. Len(t) : \E j \in 1 .. Len(s) \ {p} : t[l] = s[j] /\ j = IF l < p THEN l ELSE l + 1
  BY <1>4, <1>5
<1>8. \A j, k \in 1 .. Len(t) : t[j].id = t[k].id => j = k
  <2> SUFFICES ASSUME NEW j \in 1 .. Len(t), NEW k \in 1 .. Len(t), t[j].id = t[k].id PROVE j = k
    OBVIOUS
  <2>1. PICK u \in 1 .. Len(s) \ {p} : t[j] = s[u] /\ u = IF j < p THEN j ELSE j + 1
    BY <1>7
  <2>2. PICK w \in 1 .. Len(s) \ {p} : t[k] = s[w] /\ w = IF k < p THEN k ELSE k + 1
    BY <1>7
  <2>3. u = w
    BY <1>6, <2>1, <2>2
  <2> QED
    BY <1>4, <2>1, <2>2, <2>3
<1>9. Distinct(y)
  BY <1>3, <1>5, <1>8 DEF Distinct
<1>10. \A l \in 1 .. Len(t) : t[l].id # i
  BY <1>4, <1>6, <1>7
<1>11. Entries(y, i) = {}
  BY <1>3, <1>5, <1>10 DEF Entries
<1>12. \A j \in 1 .. Len(s) \ {p} : \E l \in 1 .. Len(t) : t[l] = s[j]
  <2> TAKE j \in 1 .. Len(s) \ {p}
  <2>1. CASE j < p
    BY <1>4, <1>5, <2>1
  <2>2. CASE j > p
    <3>1. j - 1 \in 1 .. Len(t) /\ ~ (j - 1 < p) /\ j - 1 + 1 = j
      BY <1>4, <1>5, <2>2
    <3> QED
      BY <1>5, <3>1
  <2> QED
    BY <1>4, <2>1, <2>2
<1>13. ASSUME NEW j \in Mod!Id \ {i} PROVE Entries(y, j) = Entries(x, j)
  <2>1. DOMAIN y.modules = 1 .. Len(t) /\ DOMAIN x.modules = 1 .. Len(s)
    BY <1>2, <1>3, <1>4, <1>5
  <2>2. ASSUME NEW m \in Item, m.id = j
        PROVE  (\E l \in 1 .. Len(t) : t[l] = m) <=> \E l \in 1 .. Len(s) : s[l] = m
    <3>1. ASSUME NEW l \in 1 .. Len(t), t[l] = m PROVE \E k \in 1 .. Len(s) : s[k] = m
      BY <1>7, <3>1
    <3>2. ASSUME NEW l \in 1 .. Len(s), s[l] = m PROVE \E k \in 1 .. Len(t) : t[k] = m
      BY <1>4, <1>12, <2>2, <3>2
    <3> QED
      BY <3>1, <3>2
  <2> QED
    BY <1>2, <1>3, <2>1, <2>2 DEF Entries
<1> QED
  BY <1>3, <1>5, <1>9, <1>11, <1>13

----------------------------------------------------------------------------
\* The modules that are gone, after k modules of the list.
RemovedUpTo(x, a, C, k) ==
  /\ WorldOK(a.x) /\ a.x.lost = x.lost
  /\ \A i \in Mod!Id : SameAt(x, a.x, i) \/ (C[i] = Mod!NoRow /\ a.x.states[i] = Mod!NoState /\ Entries(a.x, i) = {})
  /\ \A l \in 1 .. k : C[x.modules[l].id] = Mod!NoRow => a.x.states[x.modules[l].id].status # "RUNNING"

\* One more module of the list.
LEMMA RemoveNextKeeps ==
  ASSUME NEW x, WorldOK(x), NEW C, NEW k \in 1 .. Len(x.modules),
         NEW a \in Tel, RemovedUpTo(x, a, C, k - 1),
         NEW b, b = Mod!RemoveNext(a, x.modules[k], C)
  PROVE  b \in Tel /\ RemovedUpTo(x, b, C, k)
<1>0. /\ x \in Worlds /\ x.modules[k] \in Item /\ a.x \in Worlds
      /\ Len(x.modules) \in Nat /\ WorldOK(a.x)
  BY DEF WorldOK, Worlds, RemovedUpTo
<1>1. PICK m : m = x.modules[k]
  OBVIOUS
<1>2. m \in Item /\ m.id \in Mod!Id /\ GroupOf[m.id] \in Mod!All
  <2>1. m \in Item /\ m.id \in Mod!Id
    BY <1>0, <1>1 DEF Item
  <2> QED
    BY <2>1, OrderIs
<1>3. \A l \in 1 .. k : l = k \/ l \in 1 .. k - 1
  BY <1>0
<1>4. CASE C[m.id] # Mod!NoRow \/ a.x.states[m.id] = Mod!NoState \/ Mod!StopFails(a.x, m.id)
  <2>1. b = a
    BY <1>1, <1>4 DEF Mod!RemoveNext
  <2>2. C[m.id] = Mod!NoRow => a.x.states[m.id].status # "RUNNING"
    BY <1>4 DEF Mod!NoState, Mod!StopFails
  <2> QED
    BY <1>1, <1>3, <2>1, <2>2 DEF RemovedUpTo
<1>5. CASE ~ (C[m.id] # Mod!NoRow \/ a.x.states[m.id] = Mod!NoState \/ Mod!StopFails(a.x, m.id))
  <2>1. PICK y : y = Mod!stopModule(a.x, m.id)
    OBVIOUS
  <2>2. PICK z : z = [y EXCEPT !.modules = Mod!RemoveAt(y.modules, Mod!Place(a.x, m.id))]
    OBVIOUS
  <2>3. b = [x |-> z, told |-> a.told \cup {GroupOf[m.id]}]
    BY <1>1, <1>5, <2>1, <2>2 DEF Mod!RemoveNext
  <2>4. /\ y \in Worlds /\ y.modules = a.x.modules /\ y.lost = a.x.lost
        /\ y.states[m.id] = Mod!NoState /\ m.id \notin y.sockets
        /\ \A j \in Mod!Id \ {m.id} : SameAt(a.x, y, j)
    BY <1>0, <1>2, <1>5, <2>1, StopModuleIs
  <2>5. SameAt(x, a.x, m.id) /\ m \in Entries(x, m.id)
    BY <1>0, <1>1, <1>2, <1>5 DEF RemovedUpTo, Entries, Worlds
  <2>6. Mod!Listed(a.x, m.id)
    BY <1>0, <2>5, ListedIs DEF SameAt
  <2>7. /\ z.modules = Mod!RemoveAt(a.x.modules, Mod!Place(a.x, m.id))
        /\ z.states = y.states /\ z.sockets = y.sockets /\ z.lost = y.lost
    BY <2>2, <2>4 DEF Worlds
  <2>8. /\ z.modules \in Seq(Item) /\ Distinct(z) /\ Entries(z, m.id) = {}
        /\ \A j \in Mod!Id \ {m.id} : Entries(z, j) = Entries(a.x, j)
    BY <1>0, <1>2, <2>6, <2>7, RemovedIs DEF WorldOK
  <2>9. z \in Worlds
    BY <2>2, <2>4, <2>7, <2>8 DEF Worlds
  <2>10. \A j \in Mod!Id \ {m.id} : SameAt(a.x, z, j)
    BY <2>4, <2>7, <2>8 DEF SameAt
  <2>11. ModuleOK(z, m.id)
    BY <2>4, <2>7, <2>8 DEF ModuleOK, Mod!NoState
  <2>12. WorldOK(z)
    BY <1>0, <1>2, <2>8, <2>9, <2>10, <2>11, OneChanged
  <2>13. \A i \in Mod!Id : SameAt(x, z, i) \/ (C[i] = Mod!NoRow /\ z.states[i] = Mod!NoState /\ Entries(z, i) = {})
    <3> TAKE i \in Mod!Id
    <3>1. CASE i = m.id
      BY <1>5, <2>4, <2>7, <2>8, <3>1
    <3>2. CASE i # m.id
      BY <2>10, <3>2, SameTrans DEF RemovedUpTo, SameAt
    <3> QED
      BY <3>1, <3>2
  <2>14. \A l \in 1 .. k : C[x.modules[l].id] = Mod!NoRow => z.states[x.modules[l].id].status # "RUNNING"
    <3> SUFFICES ASSUME NEW l \in 1 .. k, C[x.modules[l].id] = Mod!NoRow
                 PROVE  z.states[x.modules[l].id].status # "RUNNING"
      OBVIOUS
    <3>1. l \in 1 .. Len(x.modules)
      BY <1>0
    <3>2. x.modules[l] \in Item
      BY <1>0, <3>1 DEF Worlds
    <3>3. x.modules[l].id \in Mod!Id
      BY <3>2 DEF Item
    <3>4. CASE x.modules[l].id = m.id
      BY <2>4, <2>7, <3>4 DEF Mod!NoState
    <3>5. CASE x.modules[l].id # m.id
      BY <1>1, <1>3, <2>10, <3>3, <3>5 DEF RemovedUpTo, SameAt
    <3> QED
      BY <3>4, <3>5
  <2>15. b \in Tel /\ b.x = z
    BY <1>2, <2>3, <2>9 DEF Tel
  <2> QED
    BY <2>4, <2>7, <2>12, <2>13, <2>14, <2>15 DEF RemovedUpTo
<1> QED
  BY <1>4, <1>5

\* What checkStopModules leaves.
LEMMA CheckStopIs ==
  ASSUME NEW x, WorldOK(x), NEW C
  PROVE  \E a \in Tel : a = Mod!checkStopModules(x, C) /\ RemovedUpTo(x, a, C, Len(x.modules))
<1> DEFINE n == Len(x.modules)
           s == [x |-> x, told |-> {}]
           Q(k) == {a \in Tel : RemovedUpTo(x, a, C, k)}
           P == [k \in 0 .. n |-> Q(k)]
           Body(a, k) == Mod!RemoveNext(a, x.modules[k], C)
           F == [k \in 1 .. n |-> [a \in P[k - 1] |-> Body(a, k)]]
           Loop(f) == f = [k \in 0 .. n |-> IF k = 0 THEN s ELSE Body(f[k - 1], k)]
           h == CHOOSE f : Loop(f)
<1>0. x \in Worlds /\ n \in Nat
  BY DEF WorldOK, Worlds
<1>1. s \in Q(0)
  BY <1>0 DEF Tel, RemovedUpTo, SameAt
<1>2. \A k \in 1 .. n : \A a \in Q(k - 1) : Body(a, k) \in Q(k)
  BY <1>0, RemoveNextKeeps
<1>3. Mod!checkStopModules(x, C) = h[n]
  BY DEF Mod!checkStopModules, Mod!ForEach
<1>4. /\ \A k \in 1 .. n : \A a \in P[k - 1] : F[k][a] = Body(a, k)
      /\ \A k \in 0 .. n : P[k] = Q(k)
  OBVIOUS
<1> HIDE DEF n, s, Q, Body, h, P, F
<1>5. 0 \in 0 .. n /\ n \in 0 .. n /\ \A k \in 1 .. n : k \in 0 .. n /\ k - 1 \in 0 .. n /\ k # 0
  BY <1>0
<1>6. s \in P[0] /\ \A k \in 1 .. n : \A a \in P[k - 1] : Body(a, k) \in P[k]
  BY <1>1, <1>2, <1>4, <1>5
<1>7. PICK f : LoopOf(f, n, s, F) /\ \A k \in 0 .. n : f[k] \in P[k]
  <2>1. \A k \in 1 .. n : \A a \in P[k - 1] : F[k][a] \in P[k]
    BY <1>4, <1>6
  <2> QED
    BY <1>0, <1>6, <2>1, LoopRuns
<1>8. Loop(f)
  <2>1. \A k \in 0 .. n : k # 0 => k \in 1 .. n
    BY <1>0
  <2>2. \A k \in 0 .. n : (IF k = 0 THEN s ELSE F[k][f[k - 1]]) = IF k = 0 THEN s ELSE Body(f[k - 1], k)
    BY <1>4, <1>5, <1>7, <2>1
  <2> QED
    BY <1>7, <2>2 DEF LoopOf
<1> HIDE DEF Loop
<1>9. Loop(h)
  BY <1>8 DEF h
<1>10. h[0] = s /\ \A k \in 1 .. n : h[k] = Body(h[k - 1], k)
  <2>1. h[0] = s
    BY <1>5, <1>9 DEF Loop
  <2>2. \A k \in 1 .. n : h[k] = Body(h[k - 1], k)
    BY <1>5, <1>9 DEF Loop
  <2> QED
    BY <2>1, <2>2
<1>11. h[n] \in P[n]
  <2>1. \A k \in 1 .. n : h[k - 1] \in P[k - 1] => h[k] \in P[k]
    BY <1>6, <1>10
  <2>2. \A k \in 0 .. n : h[k] \in P[k]
    BY <1>0, <1>6, <1>10, <2>1, LoopKeeps
  <2> QED
    BY <1>5, <2>2
<1>12. h[n] \in Q(n)
  BY <1>4, <1>5, <1>11
<1> QED
  BY <1>3, <1>12 DEF Q, n

----------------------------------------------------------------------------
\* The new modules, after k of the configuration.
AddedUpTo(x, a, C, bad, new, k) ==
  /\ WorldOK(a.x)
  /\ \A i \in Mod!Id : i \notin new => SameAt(x, a.x, i)
  /\ \A i \in new : Entries(a.x, i) # {} =>
       a.x.states[i].status = "RUNNING" /\ a.x.states[i].v = C[i].v /\ a.x.states[i].c = C[i].c
  /\ \A i \in Mod!Id : Stopped(a.x, i) => Stopped(x, i)
  /\ \A l \in 1 .. k : Order[l] \in new /\ bad = {} => Entries(a.x, Order[l]) # {} \/ Order[l] \in a.x.lost

\* The list has m at its end.
AppendedTo(x, y, m) ==
  /\ y.modules \in Seq(Item) /\ Distinct(y) /\ Entries(y, m.id) = {m}
  /\ \A j \in Mod!Id \ {m.id} : Entries(y, j) = Entries(x, j)

\* What Append makes of a list without the module.
LEMMA AppendedIs ==
  ASSUME NEW x \in Worlds, Distinct(x), NEW m \in Item, Entries(x, m.id) = {},
         NEW y, y.modules = Append(x.modules, m)
  PROVE  AppendedTo(x, y, m)
<1>1. PICK s : s = x.modules
  OBVIOUS
<1>2. PICK t : t = y.modules
  OBVIOUS
<1>3. s \in Seq(Item) /\ Len(s) \in Nat /\ DOMAIN s = 1 .. Len(s)
  BY <1>1 DEF Worlds
<1>4. /\ t \in Seq(Item) /\ Len(t) = Len(s) + 1
      /\ \A l \in 1 .. Len(s) : t[l] = s[l]
      /\ t[Len(s) + 1] = m
  BY <1>1, <1>2, <1>3, AppendProperties
<1>5. \A l \in 1 .. Len(t) : l = Len(s) + 1 \/ l \in 1 .. Len(s)
  BY <1>3, <1>4
<1>6. \A l \in 1 .. Len(s) : s[l].id # m.id /\ s[l] \in Item
  BY <1>1, <1>3 DEF Entries
<1>7. \A j, k \in 1 .. Len(s) : s[j].id = s[k].id => j = k
  BY <1>1, <1>3 DEF Distinct
<1>8. \A j, k \in 1 .. Len(t) : t[j].id = t[k].id => j = k
  BY <1>4, <1>5, <1>6, <1>7
<1>9. DOMAIN t = 1 .. Len(t) /\ Len(s) + 1 \in 1 .. Len(t) /\ \A l \in 1 .. Len(s) : l \in 1 .. Len(t)
  BY <1>3, <1>4
<1>10. Distinct(y)
  BY <1>2, <1>8, <1>9 DEF Distinct
<1>11. Entries(y, m.id) = {m}
  BY <1>2, <1>4, <1>5, <1>6, <1>9 DEF Entries
<1>12. \A j \in Mod!Id \ {m.id} : Entries(y, j) = Entries(x, j)
  BY <1>1, <1>2, <1>3, <1>4, <1>5, <1>9 DEF Entries
<1> QED
  BY <1>2, <1>4, <1>10, <1>11, <1>12 DEF AppendedTo

\* One more module of the configuration.
LEMMA AddNextKeeps ==
  ASSUME NEW x, WorldOK(x), NEW C \in [Mod!Id -> Row], NEW bad, NEW new,
         \A i \in new : i \in Mod!Id /\ Entries(x, i) = {}, NEW k \in 1 .. Len(Order),
         NEW a \in Tel, AddedUpTo(x, a, C, bad, new, k - 1),
         NEW b, b = Mod!AddNext(a, Order[k], C, bad, new)
  PROVE  b \in Tel /\ AddedUpTo(x, b, C, bad, new, k)
<1>1. PICK i : i = Order[k]
  OBVIOUS
<1>2. Len(Order) \in Nat /\ i \in Mod!Id /\ GroupOf[i] \in Mod!All
  BY <1>1, OrderIs
<1>3. \A l \in 1 .. k : (l = k \/ l \in 1 .. k - 1) /\ Order[l] \in Mod!Id
  <2>1. \A l \in 1 .. k : (l = k \/ l \in 1 .. k - 1) /\ l \in 1 .. Len(Order)
    BY <1>2
  <2>2. \A l \in 1 .. Len(Order) : Order[l] \in Mod!Id
    BY OrderIs
  <2> QED
    BY <2>1, <2>2
<1>4. WorldOK(a.x) /\ a.x \in Worlds /\ Distinct(a.x) /\ ModuleOK(a.x, i)
  BY <1>2 DEF AddedUpTo, WorldOK
<1>5. CASE i \notin new
  <2>1. b = a
    BY <1>1, <1>5 DEF Mod!AddNext
  <2> QED
    BY <1>1, <1>3, <1>5, <2>1 DEF AddedUpTo
<1>6. CASE i \in new /\ a.x.states[i] # Mod!NoState
  <2>1. b = a
    BY <1>1, <1>6 DEF Mod!AddNext
  <2>2. Entries(a.x, i) # {} \/ i \in a.x.lost
    <3>1. a.x.states[i] \in Status
      BY <1>2, <1>4 DEF Worlds
    <3> QED
      BY <1>4, <1>6, <3>1 DEF ModuleOK, Status
  <2> QED
    BY <1>1, <1>3, <2>1, <2>2 DEF AddedUpTo
<1>7. CASE i \in new /\ a.x.states[i] = Mod!NoState
  <2>1. PICK m : m = Mod!Item(i, C[i])
    OBVIOUS
  <2>2. m \in Item /\ m.id = i /\ m.v = C[i].v /\ m.c = C[i].c
    BY <1>2, <2>1, ItemIs
  <2>3. PICK y : y = Mod!startModule(a.x, m, bad)
    OBVIOUS
  <2>4. IF Mod!StartFails(a.x, m, bad) THEN Failed(a.x, y, m, bad) ELSE Succeeded(a.x, y, m)
    BY <1>4, <2>2, <2>3, StartModuleIs
  <2>5. a.x.states[i].status = "none" /\ i \notin a.x.sockets /\ Entries(a.x, i) = {}
    BY <1>4, <1>7 DEF ModuleOK, Mod!NoState, AddedUpTo
  \* What a step does to i only, and to its good.
  <2>6. ASSUME b \in Tel, WorldOK(b.x), \A j \in Mod!Id \ {i} : SameAt(a.x, b.x, j),
               Entries(b.x, i) # {} =>
                 b.x.states[i].status = "RUNNING" /\ b.x.states[i].v = C[i].v /\ b.x.states[i].c = C[i].c,
               ~ Stopped(b.x, i), bad = {} => Entries(b.x, i) # {} \/ i \in b.x.lost
        PROVE  AddedUpTo(x, b, C, bad, new, k)
    <3>1. \A j \in Mod!Id : j \notin new => SameAt(x, b.x, j)
      BY <1>7, <2>6, SameTrans DEF AddedUpTo
    <3>2. \A j \in new : Entries(b.x, j) # {} =>
             b.x.states[j].status = "RUNNING" /\ b.x.states[j].v = C[j].v /\ b.x.states[j].c = C[j].c
      BY <2>6 DEF AddedUpTo, SameAt
    <3>3. \A j \in Mod!Id : Stopped(b.x, j) => Stopped(x, j)
      BY <2>6, SameServed DEF AddedUpTo
    <3>4. \A l \in 1 .. k : Order[l] \in new /\ bad = {} => Entries(b.x, Order[l]) # {} \/ Order[l] \in b.x.lost
      BY <1>1, <1>3, <2>6 DEF AddedUpTo, SameAt
    <3> QED
      BY <2>6, <3>1, <3>2, <3>3, <3>4 DEF AddedUpTo
  <2>7. CASE Mod!StartFails(a.x, m, bad)
    <3>1. OnlyState(a.x, y, i) /\ Loaded(a.x, y, m, bad)
      BY <2>2, <2>4, <2>7 DEF Failed
    <3>2. PICK z : z = Mod!Lose(y, {i} \ bad)
      OBVIOUS
    <3>3. b = [a EXCEPT !.x = z]
      BY <1>1, <1>7, <2>1, <2>3, <2>7, <3>2 DEF Mod!AddNext
    <3>4. /\ z \in Worlds /\ z.modules = y.modules /\ z.states = y.states
          /\ z.sockets = y.sockets /\ z.lost = y.lost \cup ({i} \ bad)
      BY <1>2, <3>1, <3>2, LoseIs DEF OnlyState
    <3>5. z.modules = a.x.modules /\ z.sockets = a.x.sockets /\ y.lost = a.x.lost
      BY <3>1, <3>4 DEF OnlyState
    <3>6. Distinct(z) /\ \A j : Entries(z, j) = Entries(a.x, j)
      BY <1>4, <3>5, SameEntries DEF Distinct
    <3>7. \A j \in Mod!Id \ {i} : SameAt(a.x, z, j)
      BY <3>1, <3>4, <3>5, <3>6 DEF SameAt, OnlyState
    <3>8. \/ z.states[i] = Mod!NoState /\ i \in bad
          \/ z.states[i].status = "LOADED" /\ i \notin bad
      BY <1>7, <2>2, <3>1, <3>4 DEF Loaded
    <3>9. z.states[i] = Mod!NoState => z.states[i].status = "none"
      BY DEF Mod!NoState
    <3>10. ModuleOK(z, i)
      BY <2>5, <3>4, <3>5, <3>6, <3>8, <3>9 DEF ModuleOK
    <3>11. WorldOK(z)
      BY <1>2, <1>4, <3>4, <3>6, <3>7, <3>10, OneChanged
    <3>12. b \in Tel /\ b.x = z
      BY <3>3, <3>4 DEF Tel
    <3>13. ~ Stopped(z, i) /\ Entries(z, i) = {} /\ (bad = {} => i \in z.lost)
      BY <2>5, <3>4, <3>6, <3>8, <3>9 DEF Stopped
    <3> QED
      BY <2>6, <3>7, <3>11, <3>12, <3>13
  <2>8. CASE ~ Mod!StartFails(a.x, m, bad)
    <3>1. Succeeded(a.x, y, m)
      BY <2>4, <2>8
    <3>2. PICK z : z = [y EXCEPT !.modules = Append(y.modules, m)]
      OBVIOUS
    <3>3. b = [x |-> z, told |-> a.told \cup {GroupOf[i]}]
      BY <1>1, <1>7, <2>1, <2>3, <2>8, <3>2 DEF Mod!AddNext
    <3>4. y \in Worlds /\ y.modules = a.x.modules
      BY <3>1 DEF Succeeded
    <3>5. /\ z.modules = Append(y.modules, m) /\ z.states = y.states
          /\ z.sockets = y.sockets /\ z.lost = y.lost
      BY <3>2, <3>4 DEF Worlds
    <3>6. Distinct(y) /\ \A j : Entries(y, j) = Entries(a.x, j)
      BY <1>4, <3>4, SameEntries DEF Distinct
    <3>7. /\ z.modules \in Seq(Item) /\ Distinct(z) /\ Entries(z, m.id) = {m}
          /\ \A j \in Mod!Id \ {m.id} : Entries(z, j) = Entries(y, j)
      <4>1. Entries(y, m.id) = {}
        BY <2>2, <2>5, <3>6
      <4>2. AppendedTo(y, z, m)
        BY <2>2, <3>4, <3>5, <3>6, <4>1, AppendedIs
      <4> QED
        BY <4>2 DEF AppendedTo
    <3>8. z \in Worlds
      BY <3>2, <3>4, <3>5, <3>7 DEF Worlds
    <3>9. \A j \in Mod!Id \ {i} : SameAt(a.x, z, j)
      BY <2>2, <3>1, <3>5, <3>6, <3>7 DEF SameAt, Succeeded
    <3>10. z.states[i].status = "RUNNING" /\ i \in z.sockets
      BY <2>2, <3>1, <3>5 DEF Succeeded
    <3>11. z.states[i].v = m.v /\ z.states[i].c = m.c
      BY <1>7, <2>2, <2>5, <3>1, <3>5 DEF Succeeded
    <3>12. ModuleOK(z, i)
      BY <2>2, <3>7, <3>10, <3>11 DEF ModuleOK
    <3>13. WorldOK(z)
      BY <1>2, <1>4, <3>7, <3>8, <3>9, <3>12, OneChanged
    <3>14. b \in Tel /\ b.x = z
      BY <1>2, <3>3, <3>8 DEF Tel
    <3> QED
      BY <2>2, <2>6, <3>7, <3>9, <3>10, <3>11, <3>13, <3>14 DEF Stopped
  <2> QED
    BY <2>6, <2>7, <2>8
<1> QED
  BY <1>5, <1>6, <1>7

\* What checkStartModules leaves.
LEMMA CheckStartIs ==
  ASSUME NEW x, WorldOK(x), NEW C \in [Mod!Id -> Row], NEW bad,
         NEW new, new = Mod!Unlisted(x, C)
  PROVE  \E a \in Tel : a = Mod!checkStartModules(x, C, bad) /\ AddedUpTo(x, a, C, bad, new, Len(Order))
<1> DEFINE n == Len(Order)
           s == [x |-> x, told |-> {}]
           Q(k) == {a \in Tel : AddedUpTo(x, a, C, bad, new, k)}
           P == [k \in 0 .. n |-> Q(k)]
           Body(a, k) == Mod!AddNext(a, Order[k], C, bad, new)
           F == [k \in 1 .. n |-> [a \in P[k - 1] |-> Body(a, k)]]
           Loop(f) == f = [k \in 0 .. n |-> IF k = 0 THEN s ELSE Body(f[k - 1], k)]
           h == CHOOSE f : Loop(f)
<1>0. x \in Worlds /\ n \in Nat /\ \A i \in new : i \in Mod!Id /\ Entries(x, i) = {}
  BY OrderIs, ListedIs DEF WorldOK, Mod!Unlisted
<1>1. s \in Q(0)
  BY <1>0 DEF Tel, AddedUpTo, SameAt
<1>2. \A k \in 1 .. n : \A a \in Q(k - 1) : Body(a, k) \in Q(k)
  BY <1>0, AddNextKeeps
<1>3. Mod!checkStartModules(x, C, bad) = h[n]
  BY DEF Mod!checkStartModules, Mod!ForEach
<1>4. /\ \A k \in 1 .. n : \A a \in P[k - 1] : F[k][a] = Body(a, k)
      /\ \A k \in 0 .. n : P[k] = Q(k)
  OBVIOUS
<1> HIDE DEF n, s, Q, Body, h, P, F
<1>5. 0 \in 0 .. n /\ n \in 0 .. n /\ \A k \in 1 .. n : k \in 0 .. n /\ k - 1 \in 0 .. n /\ k # 0
  BY <1>0
<1>6. s \in P[0] /\ \A k \in 1 .. n : \A a \in P[k - 1] : Body(a, k) \in P[k]
  BY <1>1, <1>2, <1>4, <1>5
<1>7. PICK f : LoopOf(f, n, s, F) /\ \A k \in 0 .. n : f[k] \in P[k]
  <2>1. \A k \in 1 .. n : \A a \in P[k - 1] : F[k][a] \in P[k]
    BY <1>4, <1>6
  <2> QED
    BY <1>0, <1>6, <2>1, LoopRuns
<1>8. Loop(f)
  <2>1. \A k \in 0 .. n : k # 0 => k \in 1 .. n
    BY <1>0
  <2>2. \A k \in 0 .. n : (IF k = 0 THEN s ELSE F[k][f[k - 1]]) = IF k = 0 THEN s ELSE Body(f[k - 1], k)
    BY <1>4, <1>5, <1>7, <2>1
  <2> QED
    BY <1>7, <2>2 DEF LoopOf
<1> HIDE DEF Loop
<1>9. Loop(h)
  BY <1>8 DEF h
<1>10. h[0] = s /\ \A k \in 1 .. n : h[k] = Body(h[k - 1], k)
  <2>1. h[0] = s
    BY <1>5, <1>9 DEF Loop
  <2>2. \A k \in 1 .. n : h[k] = Body(h[k - 1], k)
    BY <1>5, <1>9 DEF Loop
  <2> QED
    BY <2>1, <2>2
<1>11. h[n] \in P[n]
  <2>1. \A k \in 1 .. n : h[k - 1] \in P[k - 1] => h[k] \in P[k]
    BY <1>6, <1>10
  <2>2. \A k \in 0 .. n : h[k] \in P[k]
    BY <1>0, <1>6, <1>10, <2>1, LoopKeeps
  <2> QED
    BY <1>5, <2>2
<1>12. h[n] \in Q(n)
  BY <1>4, <1>5, <1>11
<1> QED
  BY <1>3, <1>12 DEF Q, n

----------------------------------------------------------------------------
\* Load after k rows of the database.
LoadedUpTo(ls, k) ==
  /\ \A j \in 1 .. Len(ls) : \E l \in 1 .. k : ls[j].id = Order[l]
  /\ \A j, l \in 1 .. Len(ls) : ls[j].id = ls[l].id => j = l

\* A row of a group that is there is listed.
LoadNext(ls, i) ==
  IF i \in {j \in FirstRows : GroupOf[j] \in FirstGroups \cup {Shared}}
  THEN Append(ls, [id |-> i, v |-> 1, c |-> 1]) ELSE ls

\* One more row.
LEMMA LoadNextKeeps ==
  ASSUME NEW k \in 1 .. Len(Order), NEW a \in Seq(Item), LoadedUpTo(a, k - 1),
         NEW b, b = LoadNext(a, Order[k])
  PROVE  b \in Seq(Item) /\ LoadedUpTo(b, k)
<1>0. Len(Order) \in Nat /\ Order[k] \in Mod!Id /\ Len(a) \in Nat
  BY OrderIs
<1>1. \A l \in 1 .. k - 1 : l \in 1 .. k /\ l # k /\ l \in 1 .. Len(Order)
  BY <1>0
<1>2. CASE b = a
  BY <1>1, <1>2 DEF LoadedUpTo
<1>3. CASE b # a
  <2>1. PICK m : m = [id |-> Order[k], v |-> 1, c |-> 1]
    OBVIOUS
  <2>2. m \in Item /\ m.id = Order[k] /\ b = Append(a, m)
    BY <1>0, <1>3, <2>1, StampIs DEF LoadNext, Item
  <2>3. /\ b \in Seq(Item) /\ Len(b) = Len(a) + 1
        /\ \A l \in 1 .. Len(a) : b[l] = a[l]
        /\ b[Len(a) + 1] = m
    BY <2>2, AppendProperties
  <2>4. \A l \in 1 .. Len(b) : l = Len(a) + 1 \/ l \in 1 .. Len(a)
    BY <1>0, <2>3
  <2>5. \A l \in 1 .. Len(a) : a[l].id # m.id /\ \E j \in 1 .. k : a[l].id = Order[j]
    BY <1>1, <2>2, OrderIs DEF LoadedUpTo
  <2>6. \A j \in 1 .. Len(b) : \E l \in 1 .. k : b[j].id = Order[l]
    <3>1. k \in 1 .. k
      BY <1>0
    <3> QED
      BY <2>2, <2>3, <2>4, <2>5, <3>1
  <2>7. \A j, l \in 1 .. Len(b) : b[j].id = b[l].id => j = l
    <3>1. b[Len(a) + 1].id = m.id /\ \A l \in 1 .. Len(a) : b[l].id = a[l].id /\ b[l].id # m.id
      BY <2>3, <2>5
    <3> SUFFICES ASSUME NEW j \in 1 .. Len(b), NEW l \in 1 .. Len(b), b[j].id = b[l].id PROVE j = l
      OBVIOUS
    <3>2. CASE j \in 1 .. Len(a) /\ l \in 1 .. Len(a)
      BY <3>1, <3>2 DEF LoadedUpTo
    <3>3. CASE j = Len(a) + 1 \/ l = Len(a) + 1
      BY <2>4, <3>1, <3>3
    <3> QED
      BY <2>4, <3>2, <3>3
  <2> QED
    BY <2>3, <2>6, <2>7 DEF LoadedUpTo
<1> QED
  BY <1>2, <1>3

\* What Load gives.
LEMMA LoadIs ==
  \E ls \in Seq(Item) : ls = Mod!Load /\ LoadedUpTo(ls, Len(Order))
<1> DEFINE n == Len(Order)
           s == <<>>
           Q(k) == {a \in Seq(Item) : LoadedUpTo(a, k)}
           P == [k \in 0 .. n |-> Q(k)]
           Body(a, k) == LoadNext(a, Order[k])
           F == [k \in 1 .. n |-> [a \in P[k - 1] |-> Body(a, k)]]
           Loop(f) == f = [k \in 0 .. n |-> IF k = 0 THEN s ELSE Body(f[k - 1], k)]
           h == CHOOSE f : Loop(f)
<1>0. n \in Nat
  BY OrderIs
<1>1. s \in Q(0)
  BY <1>0 DEF LoadedUpTo
<1>2. \A k \in 1 .. n : \A a \in Q(k - 1) : Body(a, k) \in Q(k)
  BY <1>0, LoadNextKeeps
<1>3. Mod!Load = h[n]
  BY DEF Mod!Load, Mod!ForEach, LoadNext
<1>4. /\ \A k \in 1 .. n : \A a \in P[k - 1] : F[k][a] = Body(a, k)
      /\ \A k \in 0 .. n : P[k] = Q(k)
  OBVIOUS
<1> HIDE DEF n, s, Q, Body, h, P, F
<1>5. 0 \in 0 .. n /\ n \in 0 .. n /\ \A k \in 1 .. n : k \in 0 .. n /\ k - 1 \in 0 .. n /\ k # 0
  BY <1>0
<1>6. s \in P[0] /\ \A k \in 1 .. n : \A a \in P[k - 1] : Body(a, k) \in P[k]
  BY <1>1, <1>2, <1>4, <1>5
<1>7. PICK f : LoopOf(f, n, s, F) /\ \A k \in 0 .. n : f[k] \in P[k]
  <2>1. \A k \in 1 .. n : \A a \in P[k - 1] : F[k][a] \in P[k]
    BY <1>4, <1>6
  <2> QED
    BY <1>0, <1>6, <2>1, LoopRuns
<1>8. Loop(f)
  <2>1. \A k \in 0 .. n : k # 0 => k \in 1 .. n
    BY <1>0
  <2>2. \A k \in 0 .. n : (IF k = 0 THEN s ELSE F[k][f[k - 1]]) = IF k = 0 THEN s ELSE Body(f[k - 1], k)
    BY <1>4, <1>5, <1>7, <2>1
  <2> QED
    BY <1>7, <2>2 DEF LoopOf
<1> HIDE DEF Loop
<1>9. Loop(h)
  BY <1>8 DEF h
<1>10. h[0] = s /\ \A k \in 1 .. n : h[k] = Body(h[k - 1], k)
  <2>1. h[0] = s
    BY <1>5, <1>9 DEF Loop
  <2>2. \A k \in 1 .. n : h[k] = Body(h[k - 1], k)
    BY <1>5, <1>9 DEF Loop
  <2> QED
    BY <2>1, <2>2
<1>11. h[n] \in P[n]
  <2>1. \A k \in 1 .. n : h[k - 1] \in P[k - 1] => h[k] \in P[k]
    BY <1>6, <1>10
  <2>2. \A k \in 0 .. n : h[k] \in P[k]
    BY <1>0, <1>6, <1>10, <2>1, LoopKeeps
  <2> QED
    BY <1>5, <2>2
<1>12. h[n] \in Q(n)
  BY <1>4, <1>5, <1>11
<1> QED
  BY <1>3, <1>12 DEF Q, n

----------------------------------------------------------------------------
\* Where the goroutine of a group can be: not there or in its loop, on its way
\* into the loop, on its way out.
Resting == {"none", "loop"}
Coming  == {"start", "starting", "set", "sync"}
Going   == {"unset", "stop", "stopping", "del"}

Pc(g) == grp[g].pc

AllRest      == \A g \in Mod!All : Pc(g) \in Resting
OneBusy(S, G) == \E h \in G : Pc(h) \in S /\ \A k \in Mod!All : k # h => Pc(k) \in Resting

GoroutinesOK ==
  /\ grp \in [Mod!All -> [pc : Resting \cup Coming \cup Going, shutdown : BOOLEAN]]
  /\ sg \in [pc : {"off", "first", "stop", "done", "start", "wait", "sleep", "gone"},
             stops : SUBSET Mod!All, starts : SUBSET Group]

\* The subscriptions are those of the goroutines between SetUpdateChan and
\* UnsetUpdateChan.
Subscribed == notified = {g \in Mod!All : Pc(g) \in {"sync", "loop", "unset"}}

\* Only the holder of the mutex notifies, and only subscribers.
MutexOK ==
  /\ DOMAIN lock = {"who", "todo"}
  /\ lock.who = "nobody" => lock.todo = {}
  /\ \A n \in lock.todo : n[2] \in notified

\* What Start and Stop have come to, and syncGroups with them.
PhaseOK ==
  /\ mainModule \in {"new", "boot"} <=> sg.pc = "off"
  /\ mainModule \in {"up", "quit"} <=>
       sg.pc \in {"first", "sleep", "stop", "start", "wait", "done"}
  /\ mainModule \in {"groups", "done", "close", "closed"} <=> sg.pc = "gone"

\* And where the goroutines are meanwhile.
BusyOK ==
  /\ mainModule = "new" => \A g \in Mod!All : Pc(g) = "none"
  /\ mainModule = "boot" => \A g \in Mod!All : Pc(g) \in Resting \cup Coming
  /\ sg.pc \in {"first", "sleep", "stop", "start"} \/ mainModule = "groups" => AllRest
  /\ sg.pc = "wait" => OneBusy(Coming, Group)
  /\ sg.pc = "done" \/ mainModule = "done" => OneBusy(Going, Mod!All)
  /\ mainModule \in {"close", "closed"} => \A g \in Mod!All : Pc(g) = "none"

\* What syncGroups has read stays true while it works on it.
ListsOK ==
  /\ sg.pc \in {"stop", "done"} => \A g \in sg.stops : Pc(g) = "loop"
  /\ sg.pc \in {"stop", "done", "start", "wait"} => \A g \in sg.starts : Pc(g) = "none"

WaitInv == GoroutinesOK /\ Subscribed /\ MutexOK /\ PhaseOK /\ BusyOK /\ ListsOK

----------------------------------------------------------------------------
(***************************************************************************)
(* What a step disturbs.                                                   *)
(***************************************************************************)
waitVars == <<notified, grp, sg, mainModule>>

GoroutineInv == GoroutinesOK /\ PhaseOK /\ BusyOK /\ ListsOK

\* Steps of the database, of the Lua programs, and of a controller that does
\* not come to its list disturb nothing of WaitInv.
LEMMA WaitFrame ==
  ASSUME WaitInv, UNCHANGED <<lock, waitVars>>
  PROVE  WaitInv'
<1>1. GoroutinesOK' /\ PhaseOK' /\ ListsOK' /\ Subscribed' /\ MutexOK'
  BY DEF WaitInv, GoroutinesOK, PhaseOK, ListsOK, Subscribed, MutexOK, Pc, waitVars, Mod!All
<1>2. BusyOK'
  BY DEF WaitInv, BusyOK, AllRest, OneBusy, Pc, waitVars, Mod!All
<1>. QED
  BY <1>1, <1>2 DEF WaitInv

\* Steps of the mutex alone leave the goroutines where they are.
LEMMA LockFrame ==
  ASSUME WaitInv, UNCHANGED waitVars, MutexOK'
  PROVE  WaitInv'
<1>1. GoroutinesOK' /\ PhaseOK' /\ ListsOK' /\ Subscribed'
  BY DEF WaitInv, GoroutinesOK, PhaseOK, ListsOK, Subscribed, Pc, waitVars, Mod!All
<1>2. BusyOK'
  BY DEF WaitInv, BusyOK, AllRest, OneBusy, Pc, waitVars, Mod!All
<1>. QED
  BY <1>1, <1>2 DEF WaitInv

\* Whoever takes the mutex notifies subscribers.
LEMMA HoldOK ==
  ASSUME NEW who, NEW told, Mod!Hold(who, Mod!notifyModules(told)), UNCHANGED notified,
         who # "nobody"
  PROVE  MutexOK'
BY DEF Mod!Hold, Mod!notifyModules, MutexOK

LEMMA ReleaseOK ==
  ASSUME Mod!Release
  PROVE  MutexOK'
BY DEF Mod!Release, MutexOK

\* With the mutex free there is nobody to notify: the list may change.
LEMMA FreeOK ==
  ASSUME MutexOK, Mod!Free, UNCHANGED lock
  PROVE  MutexOK'
BY DEF Mod!Free, MutexOK

\* What Goes does with the goroutines.
LEMMA GoesTo ==
  ASSUME GoroutinesOK, NEW g \in Mod!All, NEW p \in Resting \cup Coming \cup Going, Mod!Goes(g, p)
  PROVE  /\ grp' \in [Mod!All -> [pc : Resting \cup Coming \cup Going, shutdown : BOOLEAN]]
         /\ Pc(g)' = p
         /\ \A k \in Mod!All : k # g => Pc(k)' = Pc(k)
BY DEF GoroutinesOK, Mod!Goes, Pc

LEMMA QuitTo ==
  ASSUME GoroutinesOK, NEW g \in Mod!All, NEW b \in BOOLEAN, Mod!Quit(g, b)
  PROVE  /\ grp' \in [Mod!All -> [pc : Resting \cup Coming \cup Going, shutdown : BOOLEAN]]
         /\ Pc(g)' = "unset"
         /\ \A k \in Mod!All : k # g => Pc(k)' = Pc(k)
BY DEF GoroutinesOK, Mod!Quit, Pc, Going

\* A goroutine on its way goes on: nothing of the phases changes.
LEMMA OnItsWay ==
  ASSUME GoroutineInv, NEW g \in Mod!All, NEW p, Mod!Goes(g, p), UNCHANGED <<sg, mainModule>>,
         \/ Pc(g) \in Coming /\ p \in Coming
         \/ Pc(g) \in Going  /\ p \in Going
  PROVE  GoroutineInv'
<1>0. GoroutinesOK /\ PhaseOK /\ BusyOK /\ ListsOK
  BY DEF GoroutineInv
<1>1. /\ grp' \in [Mod!All -> [pc : Resting \cup Coming \cup Going, shutdown : BOOLEAN]]
      /\ Pc(g)' = p
      /\ \A k \in Mod!All : k # g => Pc(k)' = Pc(k)
  BY <1>0, GoesTo
<1>2. Pc(g) \notin Resting
  BY DEF Resting, Coming, Going
<1>3. GoroutinesOK' /\ PhaseOK'
  BY <1>0, <1>1 DEF GoroutinesOK, PhaseOK, Mod!All
<1>4. ListsOK'
  BY <1>0, <1>1, <1>2 DEF ListsOK, GoroutinesOK, Resting, Mod!All
<1>5. ~AllRest
  BY <1>2 DEF AllRest
<1>6. ASSUME NEW S, NEW G \in SUBSET Mod!All, OneBusy(S, G), S \in {Coming, Going}
      PROVE  OneBusy(S, G)'
  <2>1. PICK h \in G : Pc(h) \in S /\ \A k \in Mod!All : k # h => Pc(k) \in Resting
    BY <1>6 DEF OneBusy
  <2>2. h = g
    BY <2>1, <1>2
  <2>3. p \in S
    BY <2>1, <2>2, <1>6 DEF Coming, Going
  <2>. QED
    BY <2>1, <2>2, <2>3, <1>1 DEF OneBusy, Mod!All
<1>7. BusyOK'
  <2>1. mainModule \notin {"new", "close", "closed"}
    BY <1>0, <1>2 DEF BusyOK, Resting
  <2>2. mainModule = "boot" => \A k \in Mod!All : Pc(k)' \in Resting \cup Coming
    BY <1>0, <1>1 DEF BusyOK, Resting, Coming, Going
  <2>3. sg.pc \notin {"first", "sleep", "stop", "start"} /\ mainModule # "groups"
    BY <1>0, <1>5 DEF BusyOK
  <2>4. sg.pc = "wait" => OneBusy(Coming, Group)'
    BY <1>0, <1>6 DEF BusyOK, Mod!All
  <2>5. sg.pc = "done" \/ mainModule = "done" => OneBusy(Going, Mod!All)'
    BY <1>0, <1>6 DEF BusyOK
  <2>. QED
    BY <2>1, <2>2, <2>3, <2>4, <2>5 DEF BusyOK, Mod!All
<1>. QED
  BY <1>3, <1>4, <1>7 DEF GoroutineInv

----------------------------------------------------------------------------
(***************************************************************************)
(* The steps that begin or end a wait.                                     *)
(***************************************************************************)
\* A goroutine comes to its loop: Start has waited for it with the others, or
\* syncGroups for it alone.
LEMMA SyncRunInv ==
  ASSUME WaitInv, NEW g \in Mod!All, Mod!SyncRun(g)
  PROVE  WaitInv'
<1>0. GoroutinesOK /\ PhaseOK /\ BusyOK /\ ListsOK /\ Subscribed /\ MutexOK
  BY DEF WaitInv
<1>a. /\ Pc(g) = "sync" /\ Mod!Goes(g, "loop") /\ UNCHANGED <<notified, lock, mainModule>>
      /\ sg' = IF sg.pc = "wait" THEN [sg EXCEPT !.pc = "start"] ELSE sg
  BY DEF Mod!SyncRun, Mod!At, Pc
<1>1. /\ grp' \in [Mod!All -> [pc : Resting \cup Coming \cup Going, shutdown : BOOLEAN]]
      /\ Pc(g)' = "loop"
      /\ \A k \in Mod!All : k # g => Pc(k)' = Pc(k)
  BY <1>0, <1>a, GoesTo DEF Resting
<1>2. Subscribed' /\ MutexOK'
  BY <1>0, <1>1, <1>a DEF Subscribed, MutexOK, Mod!All
<1>3. ~AllRest
  BY <1>a DEF AllRest, Resting
<1>4. CASE sg.pc = "wait"
  <2>1. /\ sg' \in [pc : {"start"}, stops : SUBSET Mod!All, starts : SUBSET Group]
        /\ sg'.pc = "start" /\ sg'.starts = sg.starts
    BY <1>0, <1>a, <1>4 DEF GoroutinesOK
  <2>2. mainModule \in {"up", "quit"}
    BY <1>0, <1>4 DEF PhaseOK
  <2>3. AllRest'
    <3>1. PICK h \in Group : Pc(h) \in Coming /\ \A k \in Mod!All : k # h => Pc(k) \in Resting
      BY <1>0, <1>4 DEF BusyOK, OneBusy
    <3>2. h = g
      BY <3>1, <1>a DEF Resting
    <3>. QED
      BY <3>1, <3>2, <1>1 DEF AllRest, Resting, Mod!All
  <2>4. GoroutinesOK' /\ PhaseOK'
    BY <1>1, <1>a, <2>1, <2>2 DEF GoroutinesOK, PhaseOK, Mod!All
  <2>5. BusyOK'
    BY <1>a, <2>1, <2>2, <2>3 DEF BusyOK
  <2>6. ListsOK'
    BY <1>0, <1>1, <1>a, <1>4, <2>1 DEF ListsOK, GoroutinesOK, Mod!All
  <2>. QED
    BY <1>2, <2>4, <2>5, <2>6 DEF WaitInv
<1>5. CASE sg.pc # "wait"
  <2>1. UNCHANGED sg
    BY <1>a, <1>5
  <2>2. mainModule = "boot" /\ sg.pc = "off"
    <3>1. sg.pc # "done" /\ mainModule # "done"
      BY <1>0, <1>a DEF BusyOK, OneBusy, Going, Resting
    <3>2. sg.pc \notin {"first", "sleep", "stop", "start"} /\ mainModule # "groups"
      BY <1>0, <1>3 DEF BusyOK
    <3>3. mainModule \notin {"new", "close", "closed"}
      BY <1>0, <1>a DEF BusyOK
    <3>. QED
      BY <1>0, <1>5, <3>1, <3>2, <3>3 DEF GoroutinesOK, PhaseOK
  <2>3. \A k \in Mod!All : Pc(k)' \in Resting \cup Coming
    BY <1>0, <1>1, <2>2 DEF BusyOK, Resting
  <2>4. GoroutinesOK' /\ PhaseOK' /\ ListsOK'
    BY <1>0, <1>1, <1>a, <2>1, <2>2 DEF GoroutinesOK, PhaseOK, ListsOK, Mod!All
  <2>5. BusyOK'
    BY <1>a, <2>1, <2>2, <2>3 DEF BusyOK, Mod!All
  <2>. QED
    BY <1>2, <2>4, <2>5 DEF WaitInv
<1>. QED
  BY <1>4, <1>5

\* A goroutine is gone: whoever has told it to quit goes on.
LEMMA DoneInv ==
  ASSUME WaitInv, NEW g \in Mod!All, Mod!Done(g)
  PROVE  WaitInv'
<1>0. GoroutinesOK /\ PhaseOK /\ BusyOK /\ ListsOK /\ Subscribed /\ MutexOK
  BY DEF WaitInv
<1>a. /\ Pc(g) = "del" /\ UNCHANGED <<notified, lock>>
      /\ grp' = [grp EXCEPT ![g] = [pc |-> "none", shutdown |-> FALSE]]
      /\ \/ sg.pc = "done" /\ sg' = [sg EXCEPT !.pc = "stop"] /\ UNCHANGED mainModule
         \/ mainModule = "done" /\ mainModule' = "groups" /\ UNCHANGED sg
  BY DEF Mod!Done, Mod!At, Pc
<1>1. /\ grp' \in [Mod!All -> [pc : Resting \cup Coming \cup Going, shutdown : BOOLEAN]]
      /\ Pc(g)' = "none"
      /\ \A k \in Mod!All : k # g => Pc(k)' = Pc(k)
  BY <1>0, <1>a DEF GoroutinesOK, Pc, Resting
<1>2. Subscribed' /\ MutexOK'
  BY <1>0, <1>1, <1>a DEF Subscribed, MutexOK, Mod!All
<1>3. AllRest'
  <2>1. PICK h \in Mod!All : Pc(h) \in Going /\ \A k \in Mod!All : k # h => Pc(k) \in Resting
    BY <1>0, <1>a DEF BusyOK, OneBusy
  <2>2. h = g
    BY <2>1, <1>a DEF Resting
  <2>. QED
    BY <2>1, <2>2, <1>1 DEF AllRest, Resting, Mod!All
<1>4. \A k \in Mod!All : Pc(k) \in Resting => Pc(k)' = Pc(k)
  BY <1>1, <1>a DEF Resting
<1>5. CASE sg.pc = "done" /\ sg' = [sg EXCEPT !.pc = "stop"] /\ UNCHANGED mainModule
  <2>1. /\ sg' \in [pc : {"stop"}, stops : SUBSET Mod!All, starts : SUBSET Group]
        /\ sg'.pc = "stop" /\ sg'.starts = sg.starts /\ sg'.stops = sg.stops
    BY <1>0, <1>5 DEF GoroutinesOK
  <2>2. mainModule \in {"up", "quit"}
    BY <1>0, <1>5 DEF PhaseOK
  <2>3. GoroutinesOK' /\ PhaseOK'
    BY <1>1, <1>5, <2>1, <2>2 DEF GoroutinesOK, PhaseOK, Mod!All
  <2>4. BusyOK'
    BY <1>3, <1>5, <2>1, <2>2 DEF BusyOK
  <2>5. ListsOK'
    BY <1>0, <1>4, <1>5, <2>1 DEF ListsOK, GoroutinesOK, Resting, Mod!All
  <2>. QED
    BY <1>2, <2>3, <2>4, <2>5 DEF WaitInv
<1>6. CASE mainModule = "done" /\ mainModule' = "groups" /\ UNCHANGED sg
  <2>1. sg.pc = "gone"
    BY <1>0, <1>6 DEF PhaseOK
  <2>2. GoroutinesOK' /\ PhaseOK' /\ ListsOK'
    BY <1>0, <1>1, <1>6, <2>1 DEF GoroutinesOK, PhaseOK, ListsOK, Mod!All
  <2>3. BusyOK'
    BY <1>3, <1>6, <2>1 DEF BusyOK
  <2>. QED
    BY <1>2, <2>2, <2>3 DEF WaitInv
<1>. QED
  BY <1>5, <1>6, <1>a

\* syncGroups reads which goroutines there are while all of them are at rest.
LEMMA syncGroupsInv ==
  ASSUME WaitInv, Mod!syncGroups
  PROVE  WaitInv'
<1>0. GoroutinesOK /\ PhaseOK /\ BusyOK /\ Subscribed /\ MutexOK
  BY DEF WaitInv
<1>1. PICK ok \in BOOLEAN : sg' = [pc |-> "stop", stops |-> Mod!Live \ Mod!getGroupsList(ok),
                                  starts |-> Mod!getGroupsList(ok) \ Mod!Live]
  BY DEF Mod!syncGroups
<1>2. sg.pc \in {"first", "sleep"} /\ UNCHANGED <<notified, lock, grp, mainModule>>
  BY DEF Mod!syncGroups
<1>3. Mod!Live \subseteq Mod!All /\ Mod!getGroupsList(ok) \subseteq Group
  BY DEF Mod!Live, Mod!getGroupsList
<1>4. AllRest /\ mainModule \in {"up", "quit"}
  BY <1>0, <1>2 DEF BusyOK, PhaseOK
<1>5. /\ \A g \in Mod!Live : Pc(g) = "loop"
      /\ \A g \in Mod!All \ Mod!Live : Pc(g) = "none"
  BY <1>4 DEF AllRest, Resting, Mod!Live, Mod!At, Pc
<1>6. GoroutinesOK' /\ PhaseOK' /\ Subscribed' /\ MutexOK'
  BY <1>0, <1>1, <1>2, <1>3, <1>4 DEF GoroutinesOK, PhaseOK, Subscribed, MutexOK, Pc, Mod!All
<1>7. BusyOK'
  BY <1>1, <1>2, <1>4 DEF BusyOK, AllRest, Pc, Mod!All
<1>8. ListsOK'
  BY <1>1, <1>2, <1>3, <1>5 DEF ListsOK, Pc, Mod!All
<1>. QED
  BY <1>6, <1>7, <1>8 DEF WaitInv

LEMMA GroupsSyncedInv ==
  ASSUME WaitInv, Mod!GroupsSynced
  PROVE  WaitInv'
<1>0. GoroutinesOK /\ PhaseOK /\ BusyOK /\ ListsOK /\ Subscribed /\ MutexOK
  BY DEF WaitInv
<1>1. /\ sg.pc \in {"stop", "start"} /\ sg' = [sg EXCEPT !.pc = "sleep"]
      /\ UNCHANGED <<notified, lock, grp, mainModule>>
  BY DEF Mod!GroupsSynced
<1>2. sg' \in [pc : {"sleep"}, stops : SUBSET Mod!All, starts : SUBSET Group] /\ sg'.pc = "sleep"
  BY <1>0, <1>1 DEF GoroutinesOK
<1>3. AllRest /\ mainModule \in {"up", "quit"}
  BY <1>0, <1>1 DEF BusyOK, PhaseOK
<1>4. GoroutinesOK' /\ PhaseOK' /\ Subscribed' /\ MutexOK' /\ ListsOK'
  BY <1>0, <1>1, <1>2, <1>3 DEF GoroutinesOK, PhaseOK, Subscribed, MutexOK, ListsOK, Pc, Mod!All
<1>5. BusyOK'
  BY <1>1, <1>2, <1>3 DEF BusyOK, AllRest, Pc, Mod!All
<1>. QED
  BY <1>4, <1>5 DEF WaitInv

\* syncGroups tells a goroutine to quit, and waits for its done.
LEMMA stopGroupStateInv ==
  ASSUME WaitInv, NEW g \in Mod!All, Mod!stopGroupState(g)
  PROVE  WaitInv'
<1>0. GoroutinesOK /\ PhaseOK /\ BusyOK /\ ListsOK /\ Subscribed /\ MutexOK
  BY DEF WaitInv
<1>a. /\ sg.pc = "stop" /\ g \in sg.stops /\ Pc(g) = "loop" /\ Mod!Quit(g, FALSE)
      /\ sg' = [sg EXCEPT !.pc = "done", !.stops = @ \ {g}]
      /\ UNCHANGED <<notified, lock, mainModule>>
  BY DEF Mod!stopGroupState, Mod!At, Pc
<1>1. /\ grp' \in [Mod!All -> [pc : Resting \cup Coming \cup Going, shutdown : BOOLEAN]]
      /\ Pc(g)' = "unset"
      /\ \A k \in Mod!All : k # g => Pc(k)' = Pc(k)
  BY <1>0, <1>a, QuitTo
<1>2. /\ sg' \in [pc : {"done"}, stops : SUBSET Mod!All, starts : SUBSET Group]
      /\ sg'.pc = "done" /\ sg'.starts = sg.starts /\ sg'.stops = sg.stops \ {g}
  BY <1>0, <1>a DEF GoroutinesOK
<1>3. AllRest /\ mainModule \in {"up", "quit"}
  BY <1>0, <1>a DEF BusyOK, PhaseOK
<1>4. Subscribed' /\ MutexOK'
  BY <1>0, <1>1, <1>a DEF Subscribed, MutexOK, Mod!All
<1>5. GoroutinesOK' /\ PhaseOK'
  BY <1>1, <1>a, <1>2, <1>3 DEF GoroutinesOK, PhaseOK, Mod!All
<1>6. OneBusy(Going, Mod!All)'
  BY <1>1, <1>3 DEF OneBusy, AllRest, Going, Mod!All
<1>7. BusyOK'
  BY <1>a, <1>2, <1>3, <1>6 DEF BusyOK
<1>8. ListsOK'
  BY <1>0, <1>1, <1>a, <1>2 DEF ListsOK, GoroutinesOK, Mod!All
<1>. QED
  BY <1>4, <1>5, <1>7, <1>8 DEF WaitInv

\* syncGroups starts a goroutine, and waits for it to come to its loop.
LEMMA startGroupStateInv ==
  ASSUME WaitInv, NEW g \in Mod!All, Mod!startGroupState(g)
  PROVE  WaitInv'
<1>0. GoroutinesOK /\ PhaseOK /\ BusyOK /\ ListsOK /\ Subscribed /\ MutexOK
  BY DEF WaitInv
<1>a. /\ sg.pc \in {"stop", "start"} /\ g \in sg.starts /\ Mod!Goes(g, "start")
      /\ sg' = [sg EXCEPT !.pc = "wait", !.starts = @ \ {g}]
      /\ UNCHANGED <<notified, lock, mainModule>>
  BY DEF Mod!startGroupState
<1>1. /\ grp' \in [Mod!All -> [pc : Resting \cup Coming \cup Going, shutdown : BOOLEAN]]
      /\ Pc(g)' = "start"
      /\ \A k \in Mod!All : k # g => Pc(k)' = Pc(k)
  BY <1>0, <1>a, GoesTo DEF Coming
<1>2. /\ sg' \in [pc : {"wait"}, stops : SUBSET Mod!All, starts : SUBSET Group]
      /\ sg'.pc = "wait" /\ sg'.starts = sg.starts \ {g} /\ g \in Group
  BY <1>0, <1>a DEF GoroutinesOK
<1>3. AllRest /\ mainModule \in {"up", "quit"} /\ Pc(g) = "none"
  BY <1>0, <1>a DEF BusyOK, PhaseOK, ListsOK
<1>4. Subscribed' /\ MutexOK'
  BY <1>0, <1>1, <1>3, <1>a DEF Subscribed, MutexOK, Mod!All
<1>5. GoroutinesOK' /\ PhaseOK'
  BY <1>1, <1>a, <1>2, <1>3 DEF GoroutinesOK, PhaseOK, Mod!All
<1>6. OneBusy(Coming, Group)'
  BY <1>1, <1>2, <1>3 DEF OneBusy, AllRest, Coming, Mod!All
<1>7. BusyOK'
  BY <1>a, <1>2, <1>3, <1>6 DEF BusyOK
<1>8. ListsOK'
  BY <1>0, <1>1, <1>a, <1>2 DEF ListsOK, GoroutinesOK, Mod!All
<1>. QED
  BY <1>4, <1>5, <1>7, <1>8 DEF WaitInv

LEMMA StartMainInv ==
  ASSUME WaitInv, Mod!StartMain
  PROVE  WaitInv'
<1>0. GoroutinesOK /\ PhaseOK /\ BusyOK /\ ListsOK /\ Subscribed /\ MutexOK
  BY DEF WaitInv
<1>1. /\ mainModule = "new" /\ mainModule' = "boot" /\ UNCHANGED <<notified, lock, sg>>
      /\ \E ok \in BOOLEAN :
           grp' = [g \in Mod!All |-> [grp[g] EXCEPT !.pc =
                     IF g \in {Shared} \cup Mod!getGroupsList(ok) THEN "start" ELSE @]]
  BY DEF Mod!StartMain
<1>2. sg.pc = "off" /\ \A g \in Mod!All : Pc(g) = "none"
  BY <1>0, <1>1 DEF PhaseOK, BusyOK
<1>3. /\ grp' \in [Mod!All -> [pc : Resting \cup Coming \cup Going, shutdown : BOOLEAN]]
      /\ \A g \in Mod!All : Pc(g)' \in {"none", "start"}
  BY <1>0, <1>1, <1>2 DEF GoroutinesOK, Pc, Resting, Coming
<1>4. GoroutinesOK' /\ PhaseOK' /\ ListsOK'
  BY <1>0, <1>1, <1>2, <1>3 DEF GoroutinesOK, PhaseOK, ListsOK, Mod!All
<1>5. Subscribed' /\ MutexOK'
  BY <1>0, <1>1, <1>2, <1>3 DEF Subscribed, MutexOK, Mod!All
<1>6. BusyOK'
  BY <1>1, <1>2, <1>3 DEF BusyOK, Resting, Coming, Mod!All
<1>. QED
  BY <1>4, <1>5, <1>6 DEF WaitInv

LEMMA BootedInv ==
  ASSUME WaitInv, Mod!Booted
  PROVE  WaitInv'
<1>0. GoroutinesOK /\ PhaseOK /\ BusyOK /\ ListsOK /\ Subscribed /\ MutexOK
  BY DEF WaitInv
<1>1. /\ mainModule = "boot" /\ mainModule' = "up" /\ sg' = [sg EXCEPT !.pc = "first"]
      /\ \A g \in Mod!Live : Mod!At(g, "loop")
      /\ UNCHANGED <<notified, lock, grp>>
  BY DEF Mod!Booted
<1>2. sg' \in [pc : {"first"}, stops : SUBSET Mod!All, starts : SUBSET Group] /\ sg'.pc = "first"
  BY <1>0, <1>1 DEF GoroutinesOK
<1>3. AllRest
  BY <1>1 DEF AllRest, Resting, Mod!Live, Mod!At, Pc
<1>4. GoroutinesOK' /\ PhaseOK' /\ ListsOK' /\ Subscribed' /\ MutexOK'
  BY <1>0, <1>1, <1>2 DEF GoroutinesOK, PhaseOK, ListsOK, Subscribed, MutexOK, Pc, Mod!All
<1>5. BusyOK'
  BY <1>1, <1>2, <1>3 DEF BusyOK, AllRest, Pc, Mod!All
<1>. QED
  BY <1>4, <1>5 DEF WaitInv

LEMMA StopMainInv ==
  ASSUME WaitInv, Mod!StopMain
  PROVE  WaitInv'
<1>0. GoroutinesOK /\ PhaseOK /\ BusyOK /\ ListsOK /\ Subscribed /\ MutexOK
  BY DEF WaitInv
<1>1. mainModule = "up" /\ mainModule' = "quit" /\ UNCHANGED <<notified, lock, grp, sg>>
  BY DEF Mod!StopMain
<1>2. GoroutinesOK' /\ PhaseOK' /\ ListsOK' /\ Subscribed' /\ MutexOK'
  BY <1>0, <1>1 DEF GoroutinesOK, PhaseOK, ListsOK, Subscribed, MutexOK, Pc, Mod!All
<1>3. BusyOK'
  BY <1>0, <1>1 DEF BusyOK, AllRest, OneBusy, Pc, Mod!All
<1>. QED
  BY <1>2, <1>3 DEF WaitInv

\* Stop waits for syncGroups to be asleep, then tells one goroutine after
\* another to quit.
LEMMA handlerStopInv ==
  ASSUME WaitInv, Mod!handlerStopMainModule
  PROVE  WaitInv'
<1>0. GoroutinesOK /\ PhaseOK /\ BusyOK /\ ListsOK /\ Subscribed /\ MutexOK
  BY DEF WaitInv
<1>1. CASE /\ mainModule = "quit" /\ sg.pc = "sleep"
           /\ sg' = [sg EXCEPT !.pc = "gone"] /\ mainModule' = "groups"
           /\ UNCHANGED <<notified, lock, grp>>
  <2>1. sg' \in [pc : {"gone"}, stops : SUBSET Mod!All, starts : SUBSET Group] /\ sg'.pc = "gone"
    BY <1>0, <1>1 DEF GoroutinesOK
  <2>2. GoroutinesOK' /\ PhaseOK' /\ ListsOK' /\ Subscribed' /\ MutexOK'
    BY <1>0, <1>1, <2>1 DEF GoroutinesOK, PhaseOK, ListsOK, Subscribed, MutexOK, Pc, Mod!All
  <2>3. BusyOK'
    BY <1>0, <1>1, <2>1 DEF BusyOK, AllRest, Pc, Mod!All
  <2>. QED
    BY <2>2, <2>3 DEF WaitInv
<1>2. ASSUME NEW g \in Mod!All, mainModule = "groups", Mod!At(g, "loop"), Mod!Quit(g, TRUE),
             mainModule' = "done", UNCHANGED <<notified, lock, sg>>
      PROVE  WaitInv'
  <2>1. /\ grp' \in [Mod!All -> [pc : Resting \cup Coming \cup Going, shutdown : BOOLEAN]]
        /\ Pc(g)' = "unset"
        /\ \A k \in Mod!All : k # g => Pc(k)' = Pc(k)
    BY <1>0, <1>2, QuitTo
  <2>2. AllRest /\ sg.pc = "gone" /\ Pc(g) = "loop"
    BY <1>0, <1>2 DEF BusyOK, PhaseOK, Mod!At, Pc
  <2>3. Subscribed' /\ MutexOK'
    BY <1>0, <1>2, <2>1, <2>2 DEF Subscribed, MutexOK, Mod!All
  <2>4. GoroutinesOK' /\ PhaseOK' /\ ListsOK'
    BY <1>0, <1>2, <2>1, <2>2 DEF GoroutinesOK, PhaseOK, ListsOK, Mod!All
  <2>5. OneBusy(Going, Mod!All)'
    BY <2>1, <2>2 DEF OneBusy, AllRest, Going, Mod!All
  <2>6. BusyOK'
    BY <1>2, <2>2, <2>5 DEF BusyOK
  <2>. QED
    BY <2>3, <2>4, <2>6 DEF WaitInv
<1>. QED
  BY <1>1, <1>2 DEF Mod!handlerStopMainModule

LEMMA CloseInv ==
  ASSUME WaitInv, Mod!Close
  PROVE  WaitInv'
<1>0. GoroutinesOK /\ PhaseOK /\ BusyOK /\ ListsOK /\ Subscribed /\ MutexOK
  BY DEF WaitInv
<1>1. /\ UNCHANGED <<notified, lock, grp, sg>>
      /\ \/ mainModule = "groups" /\ Mod!Live = {} /\ mainModule' = "close"
         \/ mainModule = "close" /\ mainModule' = "closed"
  BY DEF Mod!Close
<1>2. sg.pc = "gone" /\ \A g \in Mod!All : Pc(g) = "none"
  BY <1>0, <1>1 DEF PhaseOK, BusyOK, Mod!Live, Mod!At, Pc
<1>3. GoroutinesOK' /\ PhaseOK' /\ ListsOK' /\ Subscribed' /\ MutexOK'
  BY <1>0, <1>1, <1>2 DEF GoroutinesOK, PhaseOK, ListsOK, Subscribed, MutexOK, Pc, Mod!All
<1>4. BusyOK'
  BY <1>1, <1>2 DEF BusyOK, Pc, Mod!All
<1>. QED
  BY <1>3, <1>4 DEF WaitInv

----------------------------------------------------------------------------
(***************************************************************************)
(* The steps of the mutex: the updater's, and those of a goroutine that    *)
(* takes the mutex or gives it back.                                       *)
(***************************************************************************)
LEMMA UpdaterInv ==
  ASSUME WaitInv, Mod!doSync \/ Mod!Updater
  PROVE  WaitInv'
<1>1. UNCHANGED waitVars
  BY DEF Mod!doSync, Mod!Updater, Mod!SyncStops, Mod!SyncStarts, Mod!SyncEnds, waitVars
<1>2. Mod!Release \/ \E told : Mod!Hold("sync", Mod!notifyModules(told))
  BY Zenon DEF Mod!doSync, Mod!Updater, Mod!SyncStops, Mod!SyncStarts, Mod!SyncEnds
<1>3. MutexOK'
  BY <1>1, <1>2, HoldOK, ReleaseOK DEF waitVars
<1>. QED
  BY <1>1, <1>3, LockFrame

LEMMA NotifiedInv ==
  ASSUME WaitInv, NEW n, Mod!Notified(n)
  PROVE  WaitInv'
<1>1. UNCHANGED waitVars /\ lock' = [lock EXCEPT !.todo = @ \ {n}]
  BY DEF Mod!Notified, waitVars
<1>2. MutexOK'
  BY <1>1 DEF WaitInv, MutexOK, waitVars
<1>. QED
  BY <1>1, <1>2, LockFrame

\* A goroutine on its way, that keeps its subscription.
LEMMA WayInv ==
  ASSUME WaitInv, NEW g \in Mod!All, NEW p, Mod!Goes(g, p), UNCHANGED <<notified, sg, mainModule>>,
         \/ Pc(g) \in Coming /\ p \in Coming
         \/ Pc(g) \in Going  /\ p \in Going,
         Pc(g) \notin {"sync", "unset"}, p \notin {"sync", "unset"}, MutexOK'
  PROVE  WaitInv'
<1>1. GoroutineInv'
  BY OnItsWay DEF WaitInv, GoroutineInv
<1>2. Pc(g)' = p /\ \A k \in Mod!All : k # g => Pc(k)' = Pc(k)
  BY GoesTo DEF WaitInv
<1>3. Subscribed'
  BY <1>2 DEF WaitInv, Subscribed, Mod!All, Coming, Going
<1>. QED
  BY <1>1, <1>3 DEF GoroutineInv, WaitInv

LEMMA TakesInv ==
  ASSUME WaitInv, NEW g \in Mod!All, Mod!Takes(g)
  PROVE  WaitInv'
<1>0. GoroutinesOK /\ Subscribed /\ MutexOK /\ GoroutineInv /\ g # "nobody"
  BY ModuleAssumption DEF WaitInv, GoroutineInv, Mod!ParametersOK
<1>1. CASE Mod!StartModulesForGroup(g)
  <2>1. /\ Pc(g) = "start" /\ Mod!Hold(g, Mod!notifyModules({g})) /\ Mod!Goes(g, "starting")
        /\ UNCHANGED <<notified, sg, mainModule>>
    BY <1>1 DEF Mod!StartModulesForGroup, Mod!At, Pc
  <2>2. MutexOK'
    BY <1>0, <2>1, HoldOK
  <2>. QED
    BY <2>1, <2>2, WayInv DEF Coming
<1>2. CASE Mod!SetUpdateChan(g)
  <2>1. /\ Pc(g) = "set" /\ Mod!Free /\ notified' = notified \cup {g} /\ Mod!Goes(g, "sync")
        /\ UNCHANGED <<lock, sg, mainModule>>
    BY <1>2 DEF Mod!SetUpdateChan, Mod!At, Pc
  <2>2. MutexOK'
    BY <1>0, <2>1, FreeOK
  <2>3. GoroutineInv'
    BY <1>0, <2>1, OnItsWay DEF Coming
  <2>4. Pc(g)' = "sync" /\ \A k \in Mod!All : k # g => Pc(k)' = Pc(k)
    BY <1>0, <2>1, GoesTo DEF Coming
  <2>5. Subscribed'
    BY <1>0, <2>1, <2>4 DEF Subscribed, Mod!All
  <2>. QED
    BY <2>2, <2>3, <2>5 DEF GoroutineInv, WaitInv
<1>3. CASE Mod!UnsetUpdateChan(g)
  <2>1. /\ Pc(g) = "unset" /\ Mod!Free /\ notified' = notified \ {g} /\ Mod!Goes(g, "stop")
        /\ UNCHANGED <<lock, sg, mainModule>>
    BY <1>3 DEF Mod!UnsetUpdateChan, Mod!At, Pc
  <2>2. MutexOK'
    BY <1>0, <2>1, FreeOK
  <2>3. GoroutineInv'
    BY <1>0, <2>1, OnItsWay DEF Going
  <2>4. Pc(g)' = "stop" /\ \A k \in Mod!All : k # g => Pc(k)' = Pc(k)
    BY <1>0, <2>1, GoesTo DEF Going
  <2>5. Subscribed'
    BY <1>0, <2>1, <2>4 DEF Subscribed, Mod!All
  <2>. QED
    BY <2>2, <2>3, <2>5 DEF GoroutineInv, WaitInv
<1>4. CASE Mod!StopModulesForGroup(g)
  <2>1. /\ Pc(g) = "stop" /\ Mod!Free /\ UNCHANGED <<notified, sg, mainModule>>
        /\ \/ UNCHANGED lock /\ Mod!Goes(g, "del")
           \/ Mod!Hold(g, Mod!notifyModules({g})) /\ Mod!Goes(g, "stopping")
    BY <1>4 DEF Mod!StopModulesForGroup, Mod!At, Pc
  <2>2. MutexOK'
    BY <1>0, <2>1, HoldOK, FreeOK
  <2>. QED
    BY <2>1, <2>2, WayInv DEF Going
<1>. QED
  BY <1>1, <1>2, <1>3, <1>4 DEF Mod!Takes

LEMMA GivesInv ==
  ASSUME WaitInv, NEW g \in Mod!All, Mod!Started(g) \/ Mod!Stopped(g)
  PROVE  WaitInv'
<1>1. /\ \/ Pc(g) = "starting" /\ Mod!Goes(g, "set")
         \/ Pc(g) = "stopping" /\ Mod!Goes(g, "del")
      /\ Mod!Release /\ UNCHANGED <<notified, sg, mainModule>>
  BY DEF Mod!Started, Mod!Stopped, Mod!At, Pc
<1>2. MutexOK'
  BY <1>1, ReleaseOK
<1>. QED
  BY <1>1, <1>2, WayInv DEF Coming, Going

LEMMA OthersInv ==
  ASSUME WaitInv,
         \/ Mod!doSyncFails
         \/ \E i \in Mod!Id : Mod!InstallModule(i) \/ Mod!ChangeModule(i) \/ Mod!LuaEnds(i)
         \/ \E g \in Group : Mod!ChangeGroup(g)
  PROVE  WaitInv'
<1>1. UNCHANGED <<lock, waitVars>>
  BY DEF Mod!doSyncFails, Mod!InstallModule, Mod!ChangeModule, Mod!LuaEnds, Mod!ChangeGroup,
         Mod!Same, waitVars
<1>. QED
  BY <1>1, WaitFrame

----------------------------------------------------------------------------
LEMMA WaitInit ==
  ASSUME Mod!Init
  PROVE  WaitInv
<1>1. /\ grp = [g \in Mod!All |-> [pc |-> "none", shutdown |-> FALSE]]
      /\ sg = [pc |-> "off", stops |-> {}, starts |-> {}] /\ mainModule = "new"
      /\ notified = {} /\ lock = [who |-> "nobody", todo |-> {}]
  BY DEF Mod!Init
<1>2. GoroutinesOK /\ Subscribed
  BY <1>1 DEF GoroutinesOK, Subscribed, Pc, Resting
<1>3. MutexOK /\ PhaseOK /\ BusyOK /\ ListsOK
  BY <1>1 DEF MutexOK, PhaseOK, BusyOK, ListsOK, Pc
<1>. QED
  BY <1>2, <1>3 DEF WaitInv

LEMMA WaitNext ==
  ASSUME WaitInv, Mod!Next
  PROVE  WaitInv'
<1>1. CASE Mod!Environment
  BY <1>1, OthersInv, StopMainInv DEF Mod!Environment
<1>2. CASE Mod!doSync \/ Mod!doSyncFails \/ Mod!Updater
  BY <1>2, OthersInv, UpdaterInv
<1>3. CASE Mod!Mains
  BY <1>3, StartMainInv, BootedInv, syncGroupsInv, GroupsSyncedInv, handlerStopInv, CloseInv
     DEF Mod!Mains
<1>4. CASE Mod!Receivers
  BY <1>4, NotifiedInv DEF Mod!Receivers
<1>5. ASSUME NEW g \in Mod!All, Mod!Takes(g) \/ Mod!GoesOn(g)
      PROVE  WaitInv'
  BY <1>5, TakesInv, GivesInv, SyncRunInv, DoneInv, stopGroupStateInv, startGroupStateInv
     DEF Mod!GoesOn
<1>6. CASE UNCHANGED Mod!vars
  BY <1>6, WaitFrame DEF Mod!vars, waitVars
<1>. QED
  BY <1>1, <1>2, <1>3, <1>4, <1>5, <1>6 DEF Mod!Next

\* The invariant says that nobody waits in vain.
LEMMA WaitMeans ==
  ASSUME WaitInv
  PROVE  Mod!NobodyWaits
<1>1. \A n \in lock.todo : n[2] \in notified /\ (Mod!Stuck \/ grp[n[2]].pc \in {"sync", "loop"})
  BY DEF WaitInv, MutexOK, Subscribed, Pc, Mod!Stuck, Mod!At
<1>2. sg.pc = "wait" => \E g \in Group : grp[g].pc \in {"start", "starting", "set", "sync"}
  BY DEF WaitInv, BusyOK, OneBusy, Pc, Coming
<1>3. sg.pc = "stop" => \A g \in sg.stops : Mod!At(g, "loop")
  BY DEF WaitInv, ListsOK, Pc, Mod!At
<1>4. sg.pc = "done" \/ mainModule = "done" =>
        \E g \in Mod!All : grp[g].pc \in {"unset", "stop", "stopping", "del"}
  BY DEF WaitInv, BusyOK, OneBusy, Pc, Going
<1>. QED
  BY <1>1, <1>2, <1>3, <1>4 DEF Mod!NobodyWaits

----------------------------------------------------------------------------
\* For any modules, groups and bounds: the subscriptions are those of goroutines
\* that will take or give up theirs, and one goroutine at most is not at rest
\* while syncGroups or Stop waits (controlGroupState, syncGroups, Stop).
THEOREM WaitInductive == Mod!Spec => []WaitInv
<1>1. WaitInv /\ [Mod!Next]_Mod!vars => WaitInv'
  <2>1. ASSUME WaitInv, UNCHANGED Mod!vars
        PROVE  WaitInv'
    BY <2>1, WaitFrame DEF Mod!vars, waitVars
  <2>. QED
    BY <2>1, WaitNext
<1>2. Mod!Init => WaitInv
  BY WaitInit
<1>. QED
  BY <1>1, <1>2, PTL DEF Mod!Spec

\* A notification always finds a goroutine that takes it, syncGroups one that
\* comes to its loop or to done, and Stop one that comes to done, except in the
\* deadlock of a notifier with a goroutine that waits for the mutex to
\* unsubscribe; alone, and beside the control of agents.
THEOREM ControlNobodyWaits ==
  /\ Mod!Spec => []Mod!NobodyWaits
  /\ PartsSpec => []NobodyWaits
<1>1. Mod!Spec => []Mod!NobodyWaits
  BY WaitInductive, WaitMeans, PTL
<1>2. PartsInit => WaitInv
  BY WaitInit DEF PartsInit
<1>3. WaitInv /\ [PartsNext]_<<part, vars, modVars>> => WaitInv'
  <2>1. ASSUME WaitInv, UNCHANGED modVars
        PROVE  WaitInv'
    BY <2>1, WaitFrame DEF modVars, waitVars
  <2>. QED
    BY <2>1, WaitNext DEF PartsNext
<1>4. WaitInv => NobodyWaits
  BY WaitMeans DEF NobodyWaits
<1>5. PartsSpec => []NobodyWaits
  BY <1>2, <1>3, <1>4, PTL DEF PartsSpec
<1>. QED
  BY <1>1, <1>5

----------------------------------------------------------------------------
(***************************************************************************)
(* The modules.                                                            *)
(***************************************************************************)
\* No module runs that C has not, and every one that C has is in the list, or
\* given up.
Wanted(x, C)  == \A i \in Mod!Id : x.states[i].status = "RUNNING" => C[i] # Mod!NoRow
Present(x, C) == \A i \in Mod!Id : C[i] # Mod!NoRow => Entries(x, i) # {} \/ i \in x.lost

\* doSync holds the mutex; a goroutine has started its modules and not stopped them.
Syncing == updater.pc \in {"stop", "start", "unlock"}
Serving == {"starting", "set", "sync", "loop", "unset", "stop"}

\* The types of the rest.
DataOK ==
  /\ moduleRows \in [Mod!Id -> Row] /\ groupRows \in [Group -> {"no", "yes", "deleted"}]
  /\ changes \in 0 .. MaxChanges /\ synced \in BOOLEAN /\ ended \in BOOLEAN
  /\ updater \in [pc : {"first", "idle", "stop", "start", "unlock", "gone"},
                  config : [Mod!Id -> Row], ok : BOOLEAN]
  /\ lock \in [who : {"nobody", "sync"} \cup Mod!All, todo : SUBSET (Mod!All \X Mod!All)]

\* A module that has ended by itself is remembered, the updater goes before the
\* controller closes, and then nothing is left.
EndsOK ==
  /\ ~ended => \A i \in Mod!Id : ~ Stopped(Mod!World, i)
  /\ mainModule \in {"close", "closed"} <=> updater.pc = "gone"
  /\ mainModule = "closed" /\ ~ended => sockets = {}

\* The updater has the mutex from the first of its checks to the last, and
\* what each of them has established is not lost before the next sync.
SyncsOK ==
  /\ Syncing <=> lock.who = "sync"
  /\ Syncing => ~synced
  /\ updater.ok /\ Syncing => Current(Mod!World, updater.config)
  /\ updater.ok /\ updater.pc \in {"start", "unlock"} => Wanted(Mod!World, updater.config)
  /\ updater.ok /\ updater.pc = "unlock" => Present(Mod!World, updater.config)
  /\ synced => /\ Current(Mod!World, Mod!Config) /\ Wanted(Mod!World, Mod!Config)
               /\ Present(Mod!World, Mod!Config)

\* From its start to its stop, a group has the modules in the list running.
GroupsOK(x) ==
  \A i \in Mod!Id : Entries(x, i) # {} /\ Pc(GroupOf[i]) \in Serving => Served(x, i)

\* The inductive invariant, with WaitInv.
ModInv == DataOK /\ WorldOK(Mod!World) /\ EndsOK /\ SyncsOK /\ GroupsOK(Mod!World)

\* The parts of the world.
modData == <<modules, states, sockets, lost>>

----------------------------------------------------------------------------
\* The parts of the world.
LEMMA WorldIs ==
  /\ Mod!World.modules = modules /\ Mod!World.states = states
  /\ Mod!World.sockets = sockets /\ Mod!World.lost = lost
BY DEF Mod!World

\* What an operation makes is the next world.
LEMMA BecomesIs ==
  ASSUME NEW x \in Worlds, Mod!Becomes(x)
  PROVE  Mod!World' = x
BY DEF Mod!Becomes, Mod!World, Worlds

\* A step that touches none of its parts leaves the world.
LEMMA SameWorld ==
  ASSUME UNCHANGED modData
  PROVE  Mod!World' = Mod!World
BY DEF Mod!World, modData

\* The configuration of the database is one.
LEMMA ConfigIs ==
  ASSUME DataOK
  PROVE  Mod!Config \in [Mod!Id -> Row]
BY StampIs DEF DataOK, Mod!Config

\* It is that of its rows.
LEMMA SameConfig ==
  ASSUME UNCHANGED <<moduleRows, groupRows>>
  PROVE  Mod!Config' = Mod!Config
BY DEF Mod!Config

\* No group is called as the updater or as nobody.
LEMMA NotSync ==
  ASSUME NEW g \in Mod!All
  PROVE  g # "sync" /\ g # "nobody"
BY ModuleAssumption DEF Mod!ParametersOK

\* Notifications go from group to subscriber.
LEMMA NotifyIs ==
  ASSUME WaitInv, NEW told \in SUBSET Mod!All
  PROVE  Mod!notifyModules(told) \in SUBSET (Mod!All \X Mod!All)
BY DEF WaitInv, Subscribed, Mod!notifyModules

\* Steps that touch neither the modules nor the database.
LEMMA MoveInv ==
  ASSUME ModInv, UNCHANGED <<modData, moduleRows, groupRows, changes, updater, synced, ended>>,
         lock' \in [who : {"nobody", "sync"} \cup Mod!All, todo : SUBSET (Mod!All \X Mod!All)],
         (lock.who = "sync") <=> (lock'.who = "sync"),
         (mainModule \in {"close", "closed"}) <=> (mainModule' \in {"close", "closed"}),
         mainModule' = "closed" => mainModule = "closed",
         \A g \in Mod!All : Pc(g)' \in Serving => Pc(g) \in Serving
  PROVE  ModInv'
<1>1. Mod!World' = Mod!World /\ Mod!Config' = Mod!Config
  BY SameWorld, SameConfig
<1>2. DataOK'
  BY DEF ModInv, DataOK
<1>3. EndsOK'
  BY <1>1 DEF ModInv, EndsOK, modData
<1>4. SyncsOK'
  BY <1>1 DEF ModInv, SyncsOK, Syncing
<1>5. GroupsOK(Mod!World)'
  BY <1>1, OrderIs DEF ModInv, GroupsOK
<1> QED
  BY <1>1, <1>2, <1>3, <1>4, <1>5 DEF ModInv

----------------------------------------------------------------------------
\* The API changes rows: the last sync is out of date.
LEMMA ChangesInv ==
  ASSUME ModInv, \/ \E i \in Mod!Id : Mod!InstallModule(i) \/ Mod!ChangeModule(i)
                 \/ \E g \in Group : Mod!ChangeGroup(g)
  PROVE  ModInv'
<1>0. DataOK /\ MaxChanges \in Nat
  BY ModuleAssumption DEF ModInv, Mod!ParametersOK
<1>1. /\ synced' = FALSE /\ changes < MaxChanges /\ changes' = changes + 1
      /\ UNCHANGED <<modData, lock, updater, grp, mainModule, ended>>
  BY DEF Mod!InstallModule, Mod!ChangeModule, Mod!ChangeGroup, Mod!Same, Mod!data, Mod!Change, modData
<1>2. changes' \in 0 .. MaxChanges /\ Mod!Fresh \in Mod!Stamp
  BY <1>0, <1>1 DEF DataOK, Mod!Fresh, Mod!Stamp
<1>3. moduleRows' \in [Mod!Id -> Row] /\ groupRows' \in [Group -> {"no", "yes", "deleted"}]
  <2>1. [v |-> Mod!Fresh, c |-> Mod!Fresh] \in Row /\ Mod!NoRow \in Row
    BY <1>2, StampIs DEF Row
  <2>2. ASSUME NEW i \in Mod!Id, Mod!InstallModule(i)
        PROVE  moduleRows' \in [Mod!Id -> Row] /\ UNCHANGED groupRows
    BY <1>0, <2>1, <2>2 DEF DataOK, Mod!InstallModule
  <2>3. ASSUME NEW i \in Mod!Id, Mod!ChangeModule(i)
        PROVE  moduleRows' \in [Mod!Id -> Row] /\ UNCHANGED groupRows
    <3>1. moduleRows[i] \in Row
      BY <1>0 DEF DataOK
    <3>2. [v |-> moduleRows[i].v, c |-> Mod!Fresh] \in Row
      BY <1>2, <3>1 DEF Row
    <3> QED
      BY <1>0, <2>1, <2>3, <3>2 DEF DataOK, Mod!ChangeModule
  <2>4. ASSUME NEW g \in Group, Mod!ChangeGroup(g)
        PROVE  groupRows' \in [Group -> {"no", "yes", "deleted"}] /\ UNCHANGED moduleRows
    BY <1>0, <2>4 DEF DataOK, Mod!ChangeGroup
  <2> QED
    BY <1>0, <2>2, <2>3, <2>4 DEF DataOK
<1>4. Mod!World' = Mod!World
  BY <1>1, SameWorld
<1>5. DataOK'
  BY <1>0, <1>1, <1>2, <1>3 DEF DataOK
<1>6. EndsOK'
  BY <1>1, <1>4 DEF ModInv, EndsOK, modData
<1>7. SyncsOK'
  BY <1>1, <1>4 DEF ModInv, SyncsOK, Syncing
<1>8. GroupsOK(Mod!World)'
  BY <1>1, <1>4 DEF ModInv, GroupsOK, Pc
<1> QED
  BY <1>4, <1>5, <1>6, <1>7, <1>8 DEF ModInv

\* A program that ends by itself leaves its socket, and is given up.
LEMMA LuaEndsInv ==
  ASSUME ModInv, NEW i \in Mod!Id, Mod!LuaEnds(i)
  PROVE  ModInv'
<1>1. PICK x : x = Mod!World
  OBVIOUS
<1>2. PICK y : y = Mod!World'
  OBVIOUS
<1>3. /\ x.states[i].status = "RUNNING" /\ ended' = TRUE
      /\ states' = [states EXCEPT ![i] = [states[i] EXCEPT !.status = "STOPPED"]]
      /\ lost' = lost \cup {i}
      /\ UNCHANGED <<moduleRows, groupRows, changes, modules, sockets, lock, updater, grp, mainModule, synced>>
  BY <1>1, WorldIs DEF Mod!LuaEnds, Mod!db
<1>4. WorldOK(x) /\ x \in Worlds /\ Distinct(x) /\ ModuleOK(x, i) /\ x.states[i] \in Status
  BY <1>1 DEF ModInv, WorldOK, Worlds
<1>5. PICK t : t = [x.states[i] EXCEPT !.status = "STOPPED"]
  OBVIOUS
<1>6. t \in Status /\ t.status = "STOPPED"
  BY <1>4, <1>5 DEF Status
<1>7. y = [modules |-> x.modules, states |-> [x.states EXCEPT ![i] = t],
           sockets |-> x.sockets, lost |-> x.lost \cup {i}]
  BY <1>1, <1>2, <1>3, <1>5 DEF Mod!World
<1>8. y \in Worlds
  BY <1>4, <1>6, <1>7 DEF Worlds
<1>9. /\ y.states[i] = t /\ i \in y.lost /\ y.sockets = x.sockets
      /\ \A j \in Mod!Id \ {i} : y.states[j] = x.states[j] /\ (j \in y.lost <=> j \in x.lost)
  BY <1>4, <1>7 DEF Worlds
<1>10. Distinct(y) /\ \A j : Entries(y, j) = Entries(x, j)
  BY <1>4, <1>7, SameEntries DEF Distinct
<1>11. ModuleOK(y, i)
  BY <1>3, <1>4, <1>6, <1>9, <1>10 DEF ModuleOK
<1>12. \A j \in Mod!Id \ {i} : SameAt(x, y, j)
  BY <1>9, <1>10 DEF SameAt
<1>13. WorldOK(y)
  BY <1>4, <1>8, <1>10, <1>11, <1>12, OneChanged
<1>14. DataOK'
  BY <1>3 DEF ModInv, DataOK
<1>15. EndsOK'
  BY <1>3 DEF ModInv, EndsOK
<1>16. \A C : (Current(x, C) => Current(y, C)) /\ (Wanted(x, C) => Wanted(y, C)) /\ (Present(x, C) => Present(y, C))
  <2> TAKE C
  <2>1. Current(x, C) => Current(y, C)
    BY <1>9 DEF Current, CurrentAt
  <2>2. Wanted(x, C) => Wanted(y, C)
    BY <1>6, <1>9 DEF Wanted
  <2>3. Present(x, C) => Present(y, C)
    BY <1>9, <1>10 DEF Present
  <2> QED
    BY <2>1, <2>2, <2>3
<1>17. SyncsOK'
  <2>1. Mod!Config' = Mod!Config
    BY <1>3, SameConfig
  <2> QED
    BY <1>1, <1>2, <1>3, <1>16, <2>1 DEF ModInv, SyncsOK, Syncing
<1>18. GroupsOK(Mod!World)'
  BY <1>1, <1>2, <1>3, <1>9, <1>10 DEF ModInv, GroupsOK, Pc, Served
<1> QED
  BY <1>2, <1>13, <1>14, <1>15, <1>17, <1>18 DEF ModInv

----------------------------------------------------------------------------
\* What keeps the listed modules served keeps the groups running.
LEMMA KeptGroups ==
  ASSUME NEW x, NEW y, NEW S, Kept(x, y, S), GroupsOK(x)
  PROVE  GroupsOK(y)
BY DEF Kept, GroupsOK

\* doSync has loaded the configuration and updates what is listed.
LEMMA doSyncInv ==
  ASSUME WaitInv, ModInv, Mod!doSync
  PROVE  ModInv'
<1>1. PICK x : x = Mod!World
  OBVIOUS
<1>2. PICK C : C = Mod!Config
  OBVIOUS
<1>3. WorldOK(x) /\ x \in Worlds /\ C \in [Mod!Id -> Row] /\ DataOK
  BY <1>1, <1>2, ConfigIs DEF ModInv, WorldOK
<1>4. PICK bad \in Mod!Bad, loaded \in BOOLEAN :
        LET r == IF loaded THEN Mod!checkUpdateModules(x, C, bad) ELSE [x |-> x, told |-> {}]
        IN /\ Mod!Becomes(r.x) /\ Mod!Hold("sync", Mod!notifyModules(r.told))
           /\ Mod!Sync("stop", C, loaded /\ bad = {})
  BY <1>1, <1>2, Zenon DEF Mod!doSync
<1>5. /\ updater.pc \in {"first", "idle"} /\ synced' = FALSE
      /\ UNCHANGED <<moduleRows, groupRows, changes, grp, mainModule, ended>>
  BY DEF Mod!doSync, Mod!db
<1>6. PICK r : r = IF loaded THEN Mod!checkUpdateModules(x, C, bad) ELSE [x |-> x, told |-> {}]
  OBVIOUS
<1>7. /\ Mod!Becomes(r.x) /\ Mod!Hold("sync", Mod!notifyModules(r.told))
      /\ updater' = [pc |-> "stop", config |-> C, ok |-> loaded /\ bad = {}]
  BY <1>4, <1>6 DEF Mod!Sync
<1>8. r \in Tel /\ Kept(x, r.x, Mod!Id) /\ (loaded => Current(r.x, C))
  <2>1. CASE loaded
    BY <1>3, <1>6, <2>1, CheckUpdateIs
  <2>2. CASE ~ loaded
    BY <1>3, <1>6, <2>2 DEF Tel, Kept, SameAt
  <2> QED
    BY <2>1, <2>2
<1>9. r.x \in Worlds /\ r.told \in SUBSET Mod!All /\ WorldOK(r.x)
  BY <1>8 DEF Tel, Kept
<1>10. Mod!World' = r.x
  BY <1>7, <1>9, BecomesIs
<1>11. lock' = [who |-> "sync", todo |-> Mod!notifyModules(r.told)]
  BY <1>7 DEF Mod!Hold
<1>12. DataOK'
  <2>1. Mod!notifyModules(r.told) \in SUBSET (Mod!All \X Mod!All)
    BY <1>9, NotifyIs
  <2> QED
    BY <1>3, <1>5, <1>7, <1>11, <2>1 DEF DataOK
<1>13. EndsOK'
  <2>1. mainModule \notin {"close", "closed"}
    BY <1>5 DEF ModInv, EndsOK
  <2> QED
    BY <1>1, <1>5, <1>7, <1>8, <1>10, <2>1 DEF ModInv, EndsOK, Kept
<1>14. SyncsOK'
  BY <1>5, <1>7, <1>8, <1>10, <1>11 DEF SyncsOK, Syncing
<1>15. GroupsOK(Mod!World)'
  <2>1. GroupsOK(r.x)
    BY <1>1, <1>8, KeptGroups DEF ModInv
  <2> QED
    BY <1>5, <1>10, <2>1 DEF GroupsOK, Pc
<1> QED
  BY <1>9, <1>10, <1>12, <1>13, <1>14, <1>15 DEF ModInv

\* doSync without a configuration changes nothing.
LEMMA doSyncFailsInv ==
  ASSUME ModInv, Mod!doSyncFails
  PROVE  ModInv'
<1>1. /\ updater.pc \in {"first", "idle"} /\ updater' = [pc |-> "idle", config |-> Mod!NoConfig, ok |-> FALSE]
      /\ UNCHANGED <<synced, modData, moduleRows, groupRows, changes, lock, grp, mainModule, ended>>
  BY DEF Mod!doSyncFails, Mod!Sync, Mod!db, Mod!data, modData
<1>2. Mod!World' = Mod!World /\ Mod!Config' = Mod!Config
  BY <1>1, SameWorld, SameConfig
<1>3. Mod!NoConfig \in [Mod!Id -> Row]
  BY StampIs DEF Mod!NoConfig
<1>4. DataOK'
  BY <1>1, <1>3 DEF ModInv, DataOK
<1>5. EndsOK'
  BY <1>1, <1>2 DEF ModInv, EndsOK, modData
<1>6. SyncsOK'
  BY <1>1, <1>2 DEF ModInv, SyncsOK, Syncing
<1>7. GroupsOK(Mod!World)'
  BY <1>1, <1>2 DEF ModInv, GroupsOK, Pc
<1> QED
  BY <1>2, <1>4, <1>5, <1>6, <1>7 DEF ModInv

\* Then it stops what the configuration has not ...
LEMMA SyncStopsInv ==
  ASSUME WaitInv, ModInv, Mod!SyncStops
  PROVE  ModInv'
<1>1. PICK x : x = Mod!World
  OBVIOUS
<1>2. PICK C : C = updater.config
  OBVIOUS
<1>3. WorldOK(x) /\ x \in Worlds /\ DataOK
  BY <1>1 DEF ModInv, WorldOK
<1>4. PICK r \in Tel : r = Mod!checkStopModules(x, C) /\ RemovedUpTo(x, r, C, Len(x.modules))
  BY <1>3, CheckStopIs
<1>5. /\ updater.pc = "stop" /\ Mod!Becomes(r.x) /\ Mod!Hold("sync", Mod!notifyModules(r.told))
      /\ updater' = [pc |-> "start", config |-> C, ok |-> updater.ok]
      /\ UNCHANGED <<moduleRows, groupRows, changes, grp, mainModule, ended, synced>>
  BY <1>1, <1>2, <1>4 DEF Mod!SyncStops, Mod!Sync, Mod!db
<1>6. r.x \in Worlds /\ r.told \in SUBSET Mod!All /\ WorldOK(r.x)
  BY <1>4 DEF Tel, RemovedUpTo
<1>7. Mod!World' = r.x
  BY <1>5, <1>6, BecomesIs
<1>8. lock' = [who |-> "sync", todo |-> Mod!notifyModules(r.told)]
  BY <1>5 DEF Mod!Hold
<1>9. DataOK'
  <2>1. Mod!notifyModules(r.told) \in SUBSET (Mod!All \X Mod!All)
    BY <1>6, NotifyIs
  <2> QED
    BY <1>2, <1>3, <1>5, <1>8, <2>1 DEF DataOK
<1>10. EndsOK'
  <2>1. mainModule \notin {"close", "closed"}
    BY <1>5 DEF ModInv, EndsOK
  <2>2. \A i \in Mod!Id : Stopped(r.x, i) => Stopped(x, i)
    BY <1>4 DEF RemovedUpTo, Stopped, SameAt, Mod!NoState
  <2> QED
    BY <1>1, <1>5, <1>7, <2>1, <2>2 DEF ModInv, EndsOK
<1>11. Current(x, C) => Current(r.x, C)
  <2> SUFFICES ASSUME Current(x, C), NEW i \in Mod!Id PROVE CurrentAt(r.x, C, i)
    BY DEF Current
  <2>1. CASE SameAt(x, r.x, i)
    BY <2>1, SameCurrent DEF Current
  <2>2. CASE ~ SameAt(x, r.x, i)
    BY <1>4, <2>2 DEF RemovedUpTo, CurrentAt
  <2> QED
    BY <2>1, <2>2
<1>12. Wanted(r.x, C)
  <2> SUFFICES ASSUME NEW i \in Mod!Id, r.x.states[i].status = "RUNNING", C[i] = Mod!NoRow PROVE FALSE
    BY DEF Wanted
  <2>1. SameAt(x, r.x, i)
    BY <1>4 DEF RemovedUpTo, Mod!NoState
  <2>2. x.states[i].status = "RUNNING"
    BY <2>1 DEF SameAt
  <2>3. Entries(x, i) # {}
    BY <1>3, <2>2 DEF WorldOK, ModuleOK
  <2>4. PICK l \in 1 .. Len(x.modules) : x.modules[l].id = i
    BY <1>3, <2>3 DEF Entries, Worlds
  <2> QED
    BY <1>4, <2>4 DEF RemovedUpTo
<1>13. SyncsOK'
  BY <1>1, <1>2, <1>5, <1>7, <1>8, <1>11, <1>12 DEF ModInv, SyncsOK, Syncing
<1>14. GroupsOK(Mod!World)'
  <2>1. GroupsOK(x)
    BY <1>1 DEF ModInv
  <2>2. GroupsOK(r.x)
    BY <1>4, <2>1, SameServed DEF GroupsOK, RemovedUpTo, SameAt
  <2> QED
    BY <1>5, <1>7, <2>2 DEF GroupsOK, Pc
<1> QED
  BY <1>6, <1>7, <1>9, <1>10, <1>13, <1>14 DEF ModInv

\* ... and starts what is not listed.
LEMMA SyncStartsInv ==
  ASSUME WaitInv, ModInv, Mod!SyncStarts
  PROVE  ModInv'
<1>1. PICK x : x = Mod!World
  OBVIOUS
<1>2. PICK C : C = updater.config
  OBVIOUS
<1>3. WorldOK(x) /\ x \in Worlds /\ C \in [Mod!Id -> Row] /\ DataOK
  BY <1>1, <1>2 DEF ModInv, WorldOK, DataOK
<1>4. PICK bad \in Mod!Bad, loaded \in BOOLEAN :
        LET r == IF loaded THEN Mod!checkStartModules(x, C, bad) ELSE [x |-> x, told |-> {}]
        IN /\ Mod!Becomes(r.x) /\ Mod!Hold("sync", Mod!notifyModules(r.told))
           /\ Mod!Sync("unlock", C, updater.ok /\ loaded /\ bad = {})
  BY <1>1, <1>2, Zenon DEF Mod!SyncStarts
<1>5. /\ updater.pc = "start"
      /\ UNCHANGED <<moduleRows, groupRows, changes, grp, mainModule, ended, synced>>
  BY DEF Mod!SyncStarts, Mod!db
<1>6. PICK r : r = IF loaded THEN Mod!checkStartModules(x, C, bad) ELSE [x |-> x, told |-> {}]
  OBVIOUS
<1>7. /\ Mod!Becomes(r.x) /\ Mod!Hold("sync", Mod!notifyModules(r.told))
      /\ updater' = [pc |-> "unlock", config |-> C, ok |-> updater.ok /\ loaded /\ bad = {}]
  BY <1>4, <1>6 DEF Mod!Sync
<1>8. PICK new : new = Mod!Unlisted(x, C)
  OBVIOUS
<1>9. \A i : i \in new <=> i \in Mod!Id /\ C[i] # Mod!NoRow /\ Entries(x, i) = {}
  BY <1>3, <1>8, ListedIs DEF Mod!Unlisted
<1>10. r \in Tel /\ AddedUpTo(x, r, C, bad, new, 0) /\ (loaded => AddedUpTo(x, r, C, bad, new, Len(Order)))
  <2>1. CASE loaded
    <3>1. r \in Tel /\ AddedUpTo(x, r, C, bad, new, Len(Order))
      BY <1>3, <1>6, <1>8, <2>1, CheckStartIs
    <3>2. \A l \in 1 .. 0 : FALSE
      OBVIOUS
    <3> QED
      BY <3>1, <3>2 DEF AddedUpTo
  <2>2. CASE ~ loaded
    <3>1. r.x = x /\ r \in Tel
      BY <1>3, <1>6, <2>2 DEF Tel
    <3> QED
      BY <1>3, <1>9, <2>2, <3>1 DEF AddedUpTo, SameAt
  <2> QED
    BY <2>1, <2>2
<1>11. /\ r.x \in Worlds /\ r.told \in SUBSET Mod!All /\ WorldOK(r.x)
       /\ \A i \in Mod!Id : i \notin new => SameAt(x, r.x, i)
       /\ \A i \in new : Entries(r.x, i) # {} =>
            r.x.states[i].status = "RUNNING" /\ r.x.states[i].v = C[i].v /\ r.x.states[i].c = C[i].c
       /\ \A i \in Mod!Id : Stopped(r.x, i) => Stopped(x, i)
  BY <1>10 DEF Tel, AddedUpTo
<1>12. Mod!World' = r.x
  BY <1>7, <1>11, BecomesIs
<1>13. lock' = [who |-> "sync", todo |-> Mod!notifyModules(r.told)]
  BY <1>7 DEF Mod!Hold
<1>14. DataOK'
  <2>1. Mod!notifyModules(r.told) \in SUBSET (Mod!All \X Mod!All)
    BY <1>11, NotifyIs
  <2> QED
    BY <1>3, <1>5, <1>7, <1>13, <2>1 DEF DataOK
<1>15. EndsOK'
  <2>1. mainModule \notin {"close", "closed"}
    BY <1>5 DEF ModInv, EndsOK
  <2> QED
    BY <1>1, <1>5, <1>7, <1>11, <1>12, <2>1 DEF ModInv, EndsOK
<1>16. \A i \in new : r.x.states[i].status = "RUNNING" => Entries(r.x, i) # {}
  BY <1>9, <1>11 DEF WorldOK, ModuleOK
<1>17. Current(x, C) => Current(r.x, C)
  <2> SUFFICES ASSUME Current(x, C), NEW i \in Mod!Id PROVE CurrentAt(r.x, C, i)
    BY DEF Current
  <2>1. CASE i \in new
    BY <1>11, <1>16, <2>1 DEF CurrentAt
  <2>2. CASE i \notin new
    BY <1>11, <2>2, SameCurrent DEF Current
  <2> QED
    BY <2>1, <2>2
<1>18. Wanted(x, C) => Wanted(r.x, C)
  BY <1>9, <1>11 DEF Wanted, SameAt
<1>19. loaded /\ bad = {} => Present(r.x, C)
  <2> SUFFICES ASSUME loaded, bad = {}, NEW i \in Mod!Id, C[i] # Mod!NoRow
               PROVE  Entries(r.x, i) # {} \/ i \in r.x.lost
    BY DEF Present
  <2>1. CASE i \in new
    <3>1. PICK l \in 1 .. Len(Order) : Order[l] = i
      BY OrderIs
    <3> QED
      BY <1>10, <2>1, <3>1 DEF AddedUpTo
  <2>2. CASE i \notin new
    BY <1>9, <1>11, <2>2 DEF SameAt
  <2> QED
    BY <2>1, <2>2
<1>20. SyncsOK'
  BY <1>1, <1>2, <1>5, <1>7, <1>12, <1>13, <1>17, <1>18, <1>19 DEF ModInv, SyncsOK, Syncing
<1>21. GroupsOK(Mod!World)'
  <2>1. GroupsOK(x)
    BY <1>1 DEF ModInv
  <2>2. GroupsOK(r.x)
    BY <1>11, <2>1, SameServed DEF GroupsOK, SameAt, Served
  <2> QED
    BY <1>5, <1>12, <2>2 DEF GroupsOK, Pc
<1> QED
  BY <1>11, <1>12, <1>14, <1>15, <1>20, <1>21 DEF ModInv

\* With the mutex it gives back what the three checks have established.
LEMMA SyncEndsInv ==
  ASSUME ModInv, Mod!SyncEnds
  PROVE  ModInv'
<1>1. /\ updater.pc = "unlock" /\ lock' = [who |-> "nobody", todo |-> {}]
      /\ updater' = [pc |-> "idle", config |-> Mod!NoConfig, ok |-> FALSE]
      /\ synced' = (updater.ok /\ updater.config = Mod!Config)
      /\ UNCHANGED <<modData, moduleRows, groupRows, changes, grp, mainModule, ended>>
  BY DEF Mod!SyncEnds, Mod!Sync, Mod!Release, Mod!db, Mod!data, modData
<1>2. Mod!World' = Mod!World /\ Mod!Config' = Mod!Config
  BY <1>1, SameWorld, SameConfig
<1>3. Mod!NoConfig \in [Mod!Id -> Row]
  BY StampIs DEF Mod!NoConfig
<1>4. DataOK'
  BY <1>1, <1>3 DEF ModInv, DataOK
<1>5. EndsOK'
  BY <1>1, <1>2 DEF ModInv, EndsOK, modData
<1>6. SyncsOK'
  BY <1>1, <1>2 DEF ModInv, SyncsOK, Syncing
<1>7. GroupsOK(Mod!World)'
  BY <1>1, <1>2 DEF ModInv, GroupsOK, Pc
<1> QED
  BY <1>2, <1>4, <1>5, <1>6, <1>7 DEF ModInv

----------------------------------------------------------------------------
\* A group that is started has the modules of the list running, or given up.
LEMMA StartGroupInv ==
  ASSUME WaitInv, ModInv, NEW g \in Mod!All, Mod!StartModulesForGroup(g)
  PROVE  ModInv'
<1>1. PICK x : x = Mod!World
  OBVIOUS
<1>2. WorldOK(x) /\ x \in Worlds /\ DataOK /\ Len(x.modules) \in Nat
  BY <1>1 DEF ModInv, WorldOK, Worlds
<1>3. PICK bad : Mod!Becomes(Mod!startGroup(x, g, bad))
  BY <1>1, Zenon DEF Mod!StartModulesForGroup
<1>4. /\ lock.who = "nobody" /\ lock' = [who |-> g, todo |-> Mod!notifyModules({g})] /\ Mod!Goes(g, "starting")
      /\ synced' = FALSE
      /\ UNCHANGED <<moduleRows, groupRows, changes, updater, mainModule, ended>>
  BY DEF Mod!StartModulesForGroup, Mod!Free, Mod!Hold, Mod!db
<1>5. PICK a \in Acc : a.x = Mod!startGroup(x, g, bad) /\ StartedUpTo(x, a, g, Len(x.modules))
  BY <1>2, StartGroupIs
<1>6. PICK y : y = a.x
  OBVIOUS
<1>7. y \in Worlds /\ WorldOK(y) /\ y.modules = x.modules
  BY <1>5, <1>6 DEF Acc, StartedUpTo
<1>8. Mod!World' = y
  BY <1>3, <1>5, <1>6, <1>7, BecomesIs
<1>9. DataOK'
  <2>1. Mod!notifyModules({g}) \in SUBSET (Mod!All \X Mod!All)
    BY NotifyIs
  <2> QED
    BY <1>2, <1>4, <2>1 DEF DataOK
<1>10. mainModule \notin {"close", "closed"}
  BY DEF WaitInv, BusyOK, Mod!StartModulesForGroup, Mod!At, Pc
<1>11. EndsOK'
  BY <1>1, <1>4, <1>5, <1>6, <1>8, <1>10 DEF ModInv, EndsOK, StartedUpTo
<1>12. SyncsOK'
  BY <1>4, NotSync DEF ModInv, SyncsOK, Syncing
<1>13. \A k \in Mod!All : k # g => Pc(k)' = Pc(k)
  BY <1>4, GoesTo DEF WaitInv, Coming
<1>14. GroupsOK(Mod!World)'
  <2>0. \A i : Entries(y, i) = Entries(x, i)
    BY <1>7, SameEntries
  <2> SUFFICES ASSUME NEW i \in Mod!Id, Entries(y, i) # {}, Pc(GroupOf[i])' \in Serving
               PROVE  Served(y, i)
    BY <1>8 DEF GroupsOK
  <2>1. CASE GroupOf[i] = g
    <3>1. PICK l \in 1 .. Len(x.modules) : x.modules[l].id = i
      BY <1>2, <2>0 DEF Entries, Worlds
    <3> QED
      BY <1>5, <1>6, <2>1, <3>1 DEF StartedUpTo
  <2>2. CASE GroupOf[i] # g
    <3>1. SameAt(x, y, i)
      BY <1>5, <1>6, <2>2 DEF StartedUpTo
    <3>2. Pc(GroupOf[i]) \in Serving
      BY <1>13, <2>2, OrderIs
    <3> QED
      BY <1>1, <2>0, <3>1, <3>2, SameServed DEF ModInv, GroupsOK
  <2> QED
    BY <2>1, <2>2
<1> QED
  BY <1>7, <1>8, <1>9, <1>11, <1>12, <1>14 DEF ModInv

\* What a stop leaves of what the syncs have established.
LEMMA StopKeeps ==
  ASSUME NEW x, NEW a, NEW gs, NEW k, StoppedUpTo(x, a, gs, k), NEW C
  PROVE  /\ Current(x, C) => Current(a.x, C)
         /\ Wanted(x, C) => Wanted(a.x, C)
         /\ Present(x, C) => Present(a.x, C)
         /\ \A i \in Mod!Id : Stopped(a.x, i) => Stopped(x, i)
<1>1. \A i : Entries(a.x, i) = Entries(x, i)
  BY SameEntries DEF StoppedUpTo
<1>2. \A i \in Mod!Id : a.x.states[i] = x.states[i] \/ a.x.states[i] = Mod!NoState
  BY DEF StoppedUpTo, SameAt
<1>3. Current(x, C) => Current(a.x, C)
  BY <1>2 DEF Current, CurrentAt, StoppedUpTo, Mod!NoState
<1>4. Wanted(x, C) => Wanted(a.x, C)
  BY <1>2 DEF Wanted, Mod!NoState
<1>5. Present(x, C) => Present(a.x, C)
  BY <1>1 DEF Present, StoppedUpTo
<1>6. \A i \in Mod!Id : Stopped(a.x, i) => Stopped(x, i)
  BY <1>2 DEF Stopped, Mod!NoState
<1> QED
  BY <1>3, <1>4, <1>5, <1>6

\* A group that is stopped is no longer under control.
LEMMA StopGroupInv ==
  ASSUME WaitInv, ModInv, NEW g \in Mod!All, Mod!StopModulesForGroup(g)
  PROVE  ModInv'
<1>1. PICK x : x = Mod!World
  OBVIOUS
<1>2. WorldOK(x) /\ x \in Worlds /\ DataOK
  BY <1>1 DEF ModInv, WorldOK
<1>3. PICK a \in Acc : a.x = Mod!stopGroups(x, {g}) /\ StoppedUpTo(x, a, {g}, Len(x.modules))
  BY <1>2, StopGroupsIs
<1>4. /\ Mod!Becomes(a.x) /\ lock.who = "nobody"
      /\ UNCHANGED <<moduleRows, groupRows, changes, updater, mainModule, ended, synced>>
      /\ lock' = lock \/ lock' = [who |-> g, todo |-> Mod!notifyModules({g})]
      /\ Mod!Goes(g, "del") \/ Mod!Goes(g, "stopping")
  BY <1>1, <1>3 DEF Mod!StopModulesForGroup, Mod!Free, Mod!Hold, Mod!db
<1>5. PICK y : y = a.x
  OBVIOUS
<1>6. y \in Worlds /\ WorldOK(y) /\ y.modules = x.modules
  BY <1>3, <1>5 DEF Acc, StoppedUpTo
<1>7. Mod!World' = y /\ Mod!Config' = Mod!Config
  BY <1>4, <1>5, <1>6, BecomesIs, SameConfig
<1>8. DataOK'
  <2>1. Mod!notifyModules({g}) \in SUBSET (Mod!All \X Mod!All)
    BY NotifyIs
  <2>2. [who |-> g, todo |-> Mod!notifyModules({g})] \in
           [who : {"nobody", "sync"} \cup Mod!All, todo : SUBSET (Mod!All \X Mod!All)]
    BY <2>1
  <2> QED
    BY <1>2, <1>4, <2>2 DEF DataOK
<1>9. mainModule \notin {"close", "closed"}
  BY DEF WaitInv, BusyOK, Mod!StopModulesForGroup, Mod!At, Pc
<1>10. \A C : /\ Current(x, C) => Current(y, C)
              /\ Wanted(x, C) => Wanted(y, C)
              /\ Present(x, C) => Present(y, C)
              /\ \A i \in Mod!Id : Stopped(y, i) => Stopped(x, i)
  BY <1>3, <1>5, StopKeeps
<1>11. EndsOK'
  BY <1>1, <1>4, <1>7, <1>9, <1>10 DEF ModInv, EndsOK
<1>12. SyncsOK'
  <2>1. lock'.who # "sync"
    BY <1>4, NotSync
  <2> QED
    BY <1>1, <1>4, <1>7, <1>10, <2>1 DEF ModInv, SyncsOK, Syncing
<1>13. Pc(g)' \notin Serving /\ \A k \in Mod!All : k # g => Pc(k)' = Pc(k)
  BY <1>4, GoesTo DEF WaitInv, Going, Serving
<1>14. GroupsOK(Mod!World)'
  <2>0. \A i : Entries(y, i) = Entries(x, i)
    BY <1>6, SameEntries
  <2> SUFFICES ASSUME NEW i \in Mod!Id, Entries(y, i) # {}, Pc(GroupOf[i])' \in Serving
               PROVE  Served(y, i)
    BY <1>7 DEF GroupsOK
  <2>1. GroupOf[i] # g /\ Pc(GroupOf[i]) \in Serving
    BY <1>13, OrderIs
  <2>2. SameAt(x, y, i)
    BY <1>3, <1>5, <2>1 DEF StoppedUpTo
  <2> QED
    BY <1>1, <2>0, <2>1, <2>2, SameServed DEF ModInv, GroupsOK
<1> QED
  BY <1>6, <1>7, <1>8, <1>11, <1>12, <1>14 DEF ModInv

\* Close: the updater goes, then all modules that have not ended are stopped.
LEMMA ModCloseInv ==
  ASSUME WaitInv, ModInv, Mod!Close
  PROVE  ModInv'
<1>1. CASE mainModule = "groups"
  <2>1. /\ updater.pc = "idle" /\ updater' = [pc |-> "gone", config |-> Mod!NoConfig, ok |-> FALSE]
        /\ mainModule' = "close"
        /\ UNCHANGED <<modData, moduleRows, groupRows, changes, lock, grp, ended, synced>>
    BY <1>1 DEF Mod!Close, Mod!Sync, Mod!db, Mod!data, modData
  <2>2. Mod!World' = Mod!World /\ Mod!Config' = Mod!Config
    BY <2>1, SameWorld, SameConfig
  <2>3. Mod!NoConfig \in [Mod!Id -> Row]
    BY StampIs DEF Mod!NoConfig
  <2>4. DataOK'
    BY <2>1, <2>3 DEF ModInv, DataOK
  <2>5. EndsOK'
    BY <2>1, <2>2 DEF ModInv, EndsOK, modData
  <2>6. SyncsOK'
    BY <2>1, <2>2 DEF ModInv, SyncsOK, Syncing
  <2>7. GroupsOK(Mod!World)'
    BY <2>1, <2>2 DEF ModInv, GroupsOK, Pc
  <2> QED
    BY <2>2, <2>4, <2>5, <2>6, <2>7 DEF ModInv
<1>2. CASE mainModule # "groups"
  <2>1. PICK x : x = Mod!World
    OBVIOUS
  <2>2. WorldOK(x) /\ x \in Worlds /\ DataOK
    BY <2>1 DEF ModInv, WorldOK
  <2>3. PICK a \in Acc : a.x = Mod!stopGroups(x, Mod!All) /\ StoppedUpTo(x, a, Mod!All, Len(x.modules))
    BY <2>2, StopGroupsIs
  <2>4. /\ mainModule = "close" /\ mainModule' = "closed" /\ Mod!Becomes(a.x)
        /\ UNCHANGED <<moduleRows, groupRows, changes, updater, ended, synced, lock, grp>>
    BY <1>2, <2>1, <2>3 DEF Mod!Close, Mod!db
  <2>5. PICK y : y = a.x
    OBVIOUS
  <2>6. y \in Worlds /\ WorldOK(y) /\ y.modules = x.modules
    BY <2>3, <2>5 DEF Acc, StoppedUpTo
  <2>7. Mod!World' = y /\ Mod!Config' = Mod!Config
    BY <2>4, <2>5, <2>6, BecomesIs, SameConfig
  <2>8. DataOK'
    BY <2>2, <2>4 DEF DataOK
  <2>9. \A C : /\ Current(x, C) => Current(y, C)
               /\ Wanted(x, C) => Wanted(y, C)
               /\ Present(x, C) => Present(y, C)
               /\ \A i \in Mod!Id : Stopped(y, i) => Stopped(x, i)
    BY <2>3, <2>5, StopKeeps
  <2>10. ASSUME ~ ended PROVE y.sockets = {}
    <3>1. \A i \in Mod!Id : ~ Stopped(x, i)
      BY <2>1, <2>10 DEF ModInv, EndsOK
    <3>2. \A l \in 1 .. Len(x.modules) : GroupOf[x.modules[l].id] \in Mod!All => y.states[x.modules[l].id] = Mod!NoState
      BY <2>3, <2>5, <3>1 DEF StoppedUpTo
    <3>3. ASSUME NEW i \in Mod!Id, i \in y.sockets PROVE FALSE
      <4>1. y.states[i].status = "RUNNING" /\ Entries(y, i) # {}
        BY <2>6, <2>9, <3>1, <3>3 DEF WorldOK, ModuleOK, Stopped
      <4>2. PICK l \in 1 .. Len(x.modules) : x.modules[l].id = i
        BY <2>2, <2>6, <4>1 DEF Entries, Worlds
      <4>3. GroupOf[i] \in Mod!All
        BY OrderIs
      <4>4. y.states[i] = Mod!NoState
        BY <3>2, <4>2, <4>3
      <4> QED
        BY <4>1, <4>4 DEF Mod!NoState
    <3> QED
      BY <2>6, <3>3 DEF Worlds
  <2>11. EndsOK'
    <3>1. sockets' = y.sockets
      BY <2>4, <2>5 DEF Mod!Becomes
    <3> QED
      BY <2>1, <2>4, <2>7, <2>9, <2>10, <3>1 DEF ModInv, EndsOK
  <2>12. SyncsOK'
    BY <2>1, <2>4, <2>7, <2>9 DEF ModInv, SyncsOK, Syncing
  <2>13. GroupsOK(Mod!World)'
    <3>1. \A g \in Mod!All : Pc(g)' = "none"
      BY <2>4 DEF WaitInv, BusyOK, Pc
    <3> QED
      BY <3>1, OrderIs DEF GroupsOK, Serving
  <2> QED
    BY <2>6, <2>7, <2>8, <2>11, <2>12, <2>13 DEF ModInv
<1> QED
  BY <1>1, <1>2

----------------------------------------------------------------------------
\* The steps of the goroutines that leave the modules alone.
LEMMA ModMainsInv ==
  ASSUME WaitInv, ModInv,
         \/ Mod!StopMain \/ Mod!StartMain \/ Mod!Booted \/ Mod!syncGroups \/ Mod!GroupsSynced
         \/ Mod!handlerStopMainModule
  PROVE  ModInv'
<1>0. /\ lock \in [who : {"nobody", "sync"} \cup Mod!All, todo : SUBSET (Mod!All \X Mod!All)]
      /\ GoroutinesOK /\ "sync" \notin Mod!All
  BY NotSync DEF ModInv, DataOK, WaitInv
<1>1. /\ UNCHANGED <<modData, moduleRows, groupRows, changes, updater, synced, ended, lock>>
      /\ mainModule \notin {"close", "closed"} /\ mainModule' \notin {"close", "closed"}
  <2>1. CASE Mod!StopMain \/ Mod!StartMain \/ Mod!Booted \/ Mod!handlerStopMainModule
    BY <2>1 DEF Mod!StopMain, Mod!StartMain, Mod!Booted, Mod!handlerStopMainModule, Mod!db, Mod!data, modData
  <2>2. CASE Mod!syncGroups \/ Mod!GroupsSynced
    BY <2>2 DEF Mod!syncGroups, Mod!GroupsSynced, Mod!db, Mod!data, modData, WaitInv, PhaseOK
  <2> QED
    BY <2>1, <2>2
<1>2. \A g \in Mod!All : Pc(g)' \in Serving => Pc(g) \in Serving
  <2>1. CASE UNCHANGED grp
    BY <2>1 DEF Pc
  <2>2. CASE Mod!StartMain
    BY <1>0, <2>2 DEF Mod!StartMain, GoroutinesOK, Pc, Serving
  <2>3. CASE Mod!handlerStopMainModule
    <3>1. UNCHANGED grp \/ \E g \in Mod!All : Pc(g) = "loop" /\ Mod!Quit(g, TRUE)
      BY <2>3 DEF Mod!handlerStopMainModule, Mod!At, Pc
    <3>2. ASSUME NEW g \in Mod!All, Pc(g) = "loop", Mod!Quit(g, TRUE)
          PROVE  \A h \in Mod!All : Pc(h)' \in Serving => Pc(h) \in Serving
      BY <1>0, <3>2, QuitTo DEF Serving
    <3> QED
      BY <2>1, <3>1, <3>2
  <2> QED
    BY <2>1, <2>2, <2>3 DEF Mod!StopMain, Mod!Booted, Mod!syncGroups, Mod!GroupsSynced
<1> QED
  BY <1>0, <1>1, <1>2, MoveInv

\* So do those of the goroutines of groups ...
LEMMA ModGoesInv ==
  ASSUME WaitInv, ModInv, NEW g \in Mod!All,
         \/ Mod!SetUpdateChan(g) \/ Mod!UnsetUpdateChan(g) \/ Mod!GoesOn(g)
  PROVE  ModInv'
<1>0. /\ lock \in [who : {"nobody", "sync"} \cup Mod!All, todo : SUBSET (Mod!All \X Mod!All)]
      /\ GoroutinesOK /\ g # "sync"
  BY NotSync DEF ModInv, DataOK, WaitInv
<1>1. /\ UNCHANGED <<modData, moduleRows, groupRows, changes, updater, synced, ended>>
      /\ UNCHANGED mainModule \/ (mainModule = "done" /\ mainModule' = "groups")
      /\ UNCHANGED lock \/ (lock.who = g /\ lock' = [who |-> "nobody", todo |-> {}])
  BY DEF Mod!SetUpdateChan, Mod!UnsetUpdateChan, Mod!GoesOn, Mod!Started, Mod!SyncRun, Mod!Stopped,
         Mod!Done, Mod!stopGroupState, Mod!startGroupState, Mod!Release, Mod!Holds, Mod!db, Mod!data, modData
<1>2. \/ /\ Pc(g) \in Serving
         /\ Mod!Goes(g, "set") \/ Mod!Goes(g, "sync") \/ Mod!Goes(g, "loop") \/ Mod!Goes(g, "stop") \/ Mod!Quit(g, FALSE)
      \/ Mod!Goes(g, "del") \/ Mod!Goes(g, "start")
      \/ grp' = [grp EXCEPT ![g] = [pc |-> "none", shutdown |-> FALSE]]
  BY DEF Mod!SetUpdateChan, Mod!UnsetUpdateChan, Mod!GoesOn, Mod!Started, Mod!SyncRun, Mod!Stopped,
         Mod!Done, Mod!stopGroupState, Mod!startGroupState, Mod!At, Pc, Serving
<1>3. \A h \in Mod!All : Pc(h)' \in Serving => Pc(h) \in Serving
  <2>1. \A p \in {"set", "sync", "loop", "stop", "del", "start"} : Mod!Goes(g, p) =>
           Pc(g)' = p /\ \A k \in Mod!All : k # g => Pc(k)' = Pc(k)
    BY <1>0, GoesTo DEF Coming, Going, Resting
  <2>2. Mod!Quit(g, FALSE) => Pc(g)' = "unset" /\ \A k \in Mod!All : k # g => Pc(k)' = Pc(k)
    BY <1>0, QuitTo
  <2>3. grp' = [grp EXCEPT ![g] = [pc |-> "none", shutdown |-> FALSE]] =>
           Pc(g)' = "none" /\ \A k \in Mod!All : k # g => Pc(k)' = Pc(k)
    BY <1>0 DEF GoroutinesOK, Pc
  <2> QED
    BY <1>2, <2>1, <2>2, <2>3 DEF Serving
<1>4. /\ lock' \in [who : {"nobody", "sync"} \cup Mod!All, todo : SUBSET (Mod!All \X Mod!All)]
      /\ (lock.who = "sync") <=> (lock'.who = "sync")
  BY <1>0, <1>1
<1> QED
  BY <1>1, <1>3, <1>4, MoveInv

\* ... and that of a notification.
LEMMA ModNotifiedInv ==
  ASSUME ModInv, NEW n, Mod!Notified(n)
  PROVE  ModInv'
<1>1. /\ UNCHANGED <<modData, moduleRows, groupRows, changes, updater, synced, ended, mainModule, grp>>
      /\ lock' = [lock EXCEPT !.todo = lock.todo \ {n}]
  BY DEF Mod!Notified, Mod!db, Mod!data, modData
<1>2. /\ lock' \in [who : {"nobody", "sync"} \cup Mod!All, todo : SUBSET (Mod!All \X Mod!All)]
      /\ (lock.who = "sync") <=> (lock'.who = "sync")
  BY <1>1 DEF ModInv, DataOK
<1>3. \A g \in Mod!All : Pc(g)' \in Serving => Pc(g) \in Serving
  BY <1>1 DEF Pc
<1> QED
  BY <1>1, <1>2, <1>3, MoveInv

\* Steps of the agents leave the modules alone.
LEMMA ModFrame ==
  ASSUME ModInv, UNCHANGED <<modData, moduleRows, groupRows, changes, updater, synced, ended, lock, mainModule, grp>>
  PROVE  ModInv'
<1>1. \A g \in Mod!All : Pc(g)' \in Serving => Pc(g) \in Serving
  BY DEF Pc
<1>2. lock' \in [who : {"nobody", "sync"} \cup Mod!All, todo : SUBSET (Mod!All \X Mod!All)]
  BY DEF ModInv, DataOK
<1> QED
  BY <1>1, <1>2, MoveInv

----------------------------------------------------------------------------
\* Load, before any module is started.
LEMMA ModInit ==
  ASSUME Mod!Init
  PROVE  ModInv
<1>1. PICK x : x = Mod!World
  OBVIOUS
<1>2. /\ modules = Mod!Load /\ states = [i \in Mod!Id |-> Mod!NoState] /\ sockets = {} /\ lost = {}
      /\ lock = [who |-> "nobody", todo |-> {}]
      /\ updater = [pc |-> "first", config |-> Mod!NoConfig, ok |-> FALSE]
      /\ grp = [g \in Mod!All |-> [pc |-> "none", shutdown |-> FALSE]]
      /\ mainModule = "new" /\ synced = FALSE /\ changes = 0 /\ ended = FALSE
  BY DEF Mod!Init
<1>3. /\ modules \in Seq(Item)
      /\ \A j, l \in 1 .. Len(modules) : modules[j].id = modules[l].id => j = l
  BY <1>2, LoadIs DEF LoadedUpTo
<1>4. x \in Worlds /\ x.states = states /\ x.sockets = {} /\ x.lost = {} /\ x.modules = modules
  BY <1>1, <1>2, <1>3, StampIs DEF Worlds, Mod!World
<1>5. Distinct(x)
  BY <1>3, <1>4 DEF Distinct
<1>6. \A i \in Mod!Id : x.states[i] = Mod!NoState /\ x.states[i].status = "none"
  BY <1>2, <1>4 DEF Mod!NoState
<1>7. WorldOK(x)
  BY <1>4, <1>5, <1>6 DEF WorldOK, ModuleOK
<1>8. DataOK
  <2>1. Mod!NoConfig \in [Mod!Id -> Row] /\ [v |-> 1, c |-> 1] \in Row
    BY StampIs DEF Mod!NoConfig, Row
  <2>2. moduleRows \in [Mod!Id -> Row] /\ groupRows \in [Group -> {"no", "yes", "deleted"}]
    BY <2>1, StampIs DEF Mod!Init
  <2>3. 0 \in 0 .. MaxChanges
    BY ModuleAssumption DEF Mod!ParametersOK
  <2> QED
    BY <1>2, <2>1, <2>2, <2>3 DEF DataOK
<1>9. EndsOK
  BY <1>1, <1>2, <1>6 DEF EndsOK, Stopped
<1>10. SyncsOK
  BY <1>2 DEF SyncsOK, Syncing
<1>11. GroupsOK(x)
  BY <1>2, OrderIs DEF GroupsOK, Pc, Serving
<1> QED
  BY <1>1, <1>7, <1>8, <1>9, <1>10, <1>11 DEF ModInv

\* Every step keeps the invariant.
LEMMA ModNext ==
  ASSUME WaitInv, ModInv, Mod!Next
  PROVE  ModInv'
<1>1. CASE Mod!Environment
  BY <1>1, ChangesInv, LuaEndsInv, ModMainsInv DEF Mod!Environment
<1>2. CASE Mod!doSync \/ Mod!doSyncFails \/ Mod!Updater
  BY <1>2, doSyncInv, doSyncFailsInv, SyncStopsInv, SyncStartsInv, SyncEndsInv DEF Mod!Updater
<1>3. CASE Mod!Mains
  BY <1>3, ModMainsInv, ModCloseInv DEF Mod!Mains
<1>4. CASE Mod!Receivers
  BY <1>4, ModNotifiedInv DEF Mod!Receivers
<1>5. ASSUME NEW g \in Mod!All, Mod!Takes(g) \/ Mod!GoesOn(g)
      PROVE  ModInv'
  BY <1>5, StartGroupInv, StopGroupInv, ModGoesInv DEF Mod!Takes
<1>6. CASE UNCHANGED Mod!vars
  BY <1>6, ModFrame DEF Mod!vars, modData
<1> QED
  BY <1>1, <1>2, <1>3, <1>4, <1>5, <1>6 DEF Mod!Next

\* The invariant says that the modules are sound ...
LEMMA ModMeans ==
  ASSUME WaitInv, ModInv
  PROVE  Mod!ModulesSound
<1>1. PICK x : x = Mod!World
  OBVIOUS
<1>2. /\ WorldOK(x) /\ x \in Worlds /\ Distinct(x) /\ DataOK
      /\ x.modules = modules /\ x.states = states /\ x.sockets = sockets /\ x.lost = lost
  BY <1>1, WorldIs DEF ModInv, WorldOK
<1>3. Mod!TypeOK
  <2>1. /\ moduleRows \in [Mod!Id -> [v : Mod!Stamp, c : Mod!Stamp]]
        /\ groupRows \in [Group -> {"no", "yes", "deleted"}]
        /\ synced \in BOOLEAN /\ ended \in BOOLEAN
        /\ updater.pc \in {"first", "idle", "stop", "start", "unlock", "gone"}
        /\ lock.who \in {"nobody", "sync"} \cup Mod!All /\ lock.todo \subseteq Mod!All \X Mod!All
    BY <1>2 DEF DataOK, Row
  <2>2. /\ modules \in Seq([id : Mod!Id, v : Mod!Stamp, c : Mod!Stamp])
        /\ states \in [Mod!Id -> [status : {"none", "LOADED", "RUNNING", "STOPPED"}, v : Mod!Stamp, c : Mod!Stamp]]
        /\ sockets \subseteq Mod!Id /\ lost \subseteq Mod!Id
    BY <1>2 DEF Worlds, Item, Status
  <2>3. /\ notified \subseteq Mod!All
        /\ sg.pc \in {"off", "first", "stop", "done", "start", "wait", "sleep", "gone"}
        /\ \A g \in Mod!All : grp[g].pc \in {"none", "start", "starting", "set", "sync", "loop", "unset", "stop", "stopping", "del"}
    BY DEF WaitInv, Subscribed, GoroutinesOK, Resting, Coming, Going
  <2>4. mainModule \in {"new", "boot", "up", "quit", "groups", "done", "close", "closed"}
    BY DEF WaitInv, GoroutinesOK, PhaseOK
  <2> QED
    BY <2>1, <2>2, <2>3, <2>4 DEF Mod!TypeOK
<1>4. Mod!RunningListed
  <2> SUFFICES ASSUME NEW i \in Mod!Id, states[i].status = "RUNNING"
               PROVE  \E k \in DOMAIN modules : /\ modules[k] = Mod!Item(i, states[i])
                                                /\ \A j \in DOMAIN modules : modules[j].id = i => j = k
    BY DEF Mod!RunningListed
  <2>1. PICK m \in Entries(x, i) : TRUE
    BY <1>2 DEF WorldOK, ModuleOK
  <2>2. m \in Item /\ m.id = i /\ states[i].v = m.v /\ states[i].c = m.c
    BY <1>2, <2>1 DEF WorldOK, ModuleOK, Entries
  <2>3. m = Mod!Item(i, states[i])
    BY <2>2 DEF Mod!Item, Item
  <2>4. PICK k \in DOMAIN modules : modules[k] = m
    BY <1>2, <2>1 DEF Entries
  <2> QED
    BY <1>2, <2>2, <2>3, <2>4 DEF Distinct
<1>5. Mod!SocketsOwned
  BY <1>2 DEF WorldOK, ModuleOK, Worlds, Mod!SocketsOwned
<1>6. Mod!NothingLeft
  BY DEF ModInv, EndsOK, Mod!NothingLeft
<1> QED
  BY <1>3, <1>4, <1>5, <1>6 DEF Mod!ModulesSound

\* ... and that those of a synced database run.
LEMMA SyncMeans ==
  ASSUME ModInv
  PROVE  Mod!SyncedIsRun
<1>1. PICK x : x = Mod!World
  OBVIOUS
<1>2. /\ WorldOK(x) /\ x \in Worlds /\ GroupsOK(x)
      /\ x.modules = modules /\ x.states = states /\ x.sockets = sockets /\ x.lost = lost
  BY <1>1, WorldIs DEF ModInv, WorldOK
<1> SUFFICES ASSUME synced, NEW i \in Mod!Id \ lost
             PROVE  IF Mod!Config[i] = Mod!NoRow THEN states[i].status # "RUNNING"
                    ELSE Mod!At(GroupOf[i], "loop") => Mod!Runs(i)
  BY DEF Mod!SyncedIsRun
<1>3. PICK C : C = Mod!Config
  OBVIOUS
<1>4. Current(x, C) /\ Wanted(x, C) /\ Present(x, C)
  BY <1>1, <1>3 DEF ModInv, SyncsOK
<1>5. CASE C[i] = Mod!NoRow
  BY <1>2, <1>3, <1>4, <1>5 DEF Wanted
<1>6. ASSUME C[i] # Mod!NoRow, Mod!At(GroupOf[i], "loop") PROVE Mod!Runs(i)
  <2>1. Pc(GroupOf[i]) \in Serving /\ Entries(x, i) # {}
    BY <1>2, <1>4, <1>6 DEF Mod!At, Pc, Serving, Present
  <2>2. x.states[i].status = "RUNNING"
    BY <1>2, <2>1 DEF GroupsOK, Served
  <2>3. x.states[i].v = C[i].v /\ x.states[i].c = C[i].c
    BY <1>2, <1>4, <1>6, <2>2 DEF Current, CurrentAt
  <2>4. C[i] = moduleRows[i]
    BY <1>3, <1>6 DEF Mod!Config
  <2>5. x.states[i] \in Status
    BY <1>2 DEF Worlds
  <2> QED
    BY <1>2, <2>2, <2>3, <2>4, <2>5 DEF Status, Mod!Runs
<1> QED
  BY <1>3, <1>5, <1>6

----------------------------------------------------------------------------
\* For any modules, groups, rows and bounds: list, loader, hub and history agree
\* on every module, each check of doSync establishes what the next relies on,
\* and a group that is under control has the modules in the list running.
THEOREM ModulesInductive == Mod!Spec => [](WaitInv /\ ModInv)
<1>1. WaitInv /\ ModInv /\ [Mod!Next]_Mod!vars => WaitInv' /\ ModInv'
  <2>1. ASSUME WaitInv, ModInv, UNCHANGED Mod!vars
        PROVE  WaitInv' /\ ModInv'
    BY <2>1, WaitFrame, ModFrame DEF Mod!vars, waitVars, modData
  <2> QED
    BY <2>1, WaitNext, ModNext
<1>2. Mod!Init => WaitInv /\ ModInv
  BY WaitInit, ModInit
<1> QED
  BY <1>1, <1>2, PTL DEF Mod!Spec

\* The same beside the control of agents.
LEMMA PartsInductive == PartsSpec => [](WaitInv /\ ModInv)
<1>1. PartsInit => WaitInv /\ ModInv
  BY WaitInit, ModInit DEF PartsInit
<1>2. WaitInv /\ ModInv /\ [PartsNext]_<<part, vars, modVars>> => WaitInv' /\ ModInv'
  <2>1. ASSUME WaitInv, ModInv, UNCHANGED modVars
        PROVE  WaitInv' /\ ModInv'
    BY <2>1, WaitFrame, ModFrame DEF modVars, waitVars, modData
  <2> QED
    BY <2>1, WaitNext, ModNext DEF PartsNext
<1> QED
  BY <1>1, <1>2, PTL DEF PartsSpec

\* A module that runs is in the controller's list, once, as it runs, the hub
\* has the sockets of the modules that run or have ended and no others, and
\* Stop leaves none unless a program had ended by itself (sController, sLoader).
THEOREM ControlModulesSound ==
  /\ Mod!Spec => []Mod!ModulesSound
  /\ PartsSpec => []ModulesSound
<1>1. WaitInv /\ ModInv => Mod!ModulesSound /\ ModulesSound
  BY ModMeans DEF ModulesSound
<1>2. Mod!Spec => []Mod!ModulesSound
  BY <1>1, ModulesInductive, PTL
<1>3. PartsSpec => []ModulesSound
  BY <1>1, PartsInductive, PTL
<1> QED
  BY <1>2, <1>3

\* After a sync that has loaded all, the modules of the database run, in its
\* versions and with its configurations, and no others, but for what the code
\* has given up (doSync, syncGroups, controlGroupState).
THEOREM ControlSyncedIsRun ==
  /\ Mod!Spec => []Mod!SyncedIsRun
  /\ PartsSpec => []SyncedIsRun
<1>1. WaitInv /\ ModInv => Mod!SyncedIsRun /\ SyncedIsRun
  BY SyncMeans DEF SyncedIsRun
<1>2. Mod!Spec => []Mod!SyncedIsRun
  BY <1>1, ModulesInductive, PTL
<1>3. PartsSpec => []SyncedIsRun
  BY <1>1, PartsInductive, PTL
<1> QED
  BY <1>2, <1>3
=============================================================================
