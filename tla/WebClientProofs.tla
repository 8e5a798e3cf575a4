-------------------------- MODULE WebClientProofs --------------------------
(***************************************************************************)
(* What the web client offers and saves, the server accepts: for any       *)
(* groups, policies and modules, and for any events and actions.           *)
(*                                                                         *)
(* Policy links.  The pages offer a link by comparing the policies' lists  *)
(* of modules; the server counts, for every module, the policies of the    *)
(* group that have it.  Both come to the same as long as the policies that *)
(* are linked have no module in common, which every link preserves         *)
(* (LinksInv).                                                             *)
(*                                                                         *)
(* Event actions.  ActionsInv says that the module on the page is one the  *)
(* server accepts, that the saves under way are in order (SaveOK), and     *)
(* that the lists of the open dialog hold events that fit its action, or   *)
(* actions that fit its event and come once.  Removing an action from a    *)
(* list is a loop (Erase): what it leaves is proved step by step with      *)
(* LoopRuns.                                                               *)
(***************************************************************************)
EXTENDS MCWebClient, FiniteSetTheorems, SequenceTheorems, WellFoundedInduction, TLAPS

(* A loop of n steps: what holds at first and is handed on from each step  *)
(* to the next holds at the end.                                           *)
LEMMA LoopKeeps ==
  ASSUME NEW n \in Nat, NEW f, NEW P, f[0] \in P[0],
         \A k \in 1 .. n : f[k - 1] \in P[k - 1] => f[k] \in P[k]
  PROVE  \A k \in 0 .. n : f[k] \in P[k]
<1> DEFINE R == OpToRel(<, Nat)
           S == {k \in 0 .. n : f[k] \notin P[k]}
<1>1. IsWellFoundedOn(R, Nat)
  BY NatLessThanWellFounded
<1>2. SUFFICES ASSUME S # {} PROVE FALSE
  OBVIOUS
<1>3. S \subseteq Nat
  OBVIOUS
<1> HIDE DEF R
<1>4. PICK k \in S : \A y \in S : ~ (<<y, k>> \in R)
  BY <1>1, <1>2, <1>3, WFMin
<1>5. \A y \in S : ~ (y < k)
  BY <1>3, <1>4 DEF OpToRel, R
<1>6. k # 0 /\ k \in 1 .. n /\ k - 1 \in 0 .. n /\ k - 1 < k
  OBVIOUS
<1>7. k - 1 \notin S
  BY <1>5, <1>6
<1> QED
  BY <1>6, <1>7

\* f is the loop that begins with a and takes step k with F[k].
LoopOf(f, n, a, F) == f = [k \in 0 .. n |-> IF k = 0 THEN a ELSE F[k][f[k - 1]]]

(* Such a loop can be run: it is a function of the number of steps.        *)
LEMMA LoopRuns ==
  ASSUME NEW n \in Nat, NEW a, NEW F, NEW P, a \in P[0],
         \A k \in 1 .. n : \A b \in P[k - 1] : F[k][b] \in P[k]
  PROVE  \E f : LoopOf(f, n, a, F) /\ \A k \in 0 .. n : f[k] \in P[k]
<1> DEFINE Run(f, m) == f = [k \in 0 .. m |-> IF k = 0 THEN a ELSE F[k][f[k - 1]]]
           R == OpToRel(<, Nat)
           S == {m \in 0 .. n : ~ \E f : Run(f, m)}
<1>1. S = {}
  <2>1. IsWellFoundedOn(R, Nat)
    BY NatLessThanWellFounded
  <2>2. SUFFICES ASSUME S # {} PROVE FALSE
    OBVIOUS
  <2>3. S \subseteq Nat
    OBVIOUS
  <2> HIDE DEF R
  <2>4. PICK m \in S : \A y \in S : ~ (<<y, m>> \in R)
    BY <2>1, <2>2, <2>3, WFMin
  <2>5. \A y \in S : ~ (y < m)
    BY <2>3, <2>4 DEF OpToRel, R
  <2>6. m # 0
    <3>1. Run([k \in 0 .. 0 |-> a], 0)
      OBVIOUS
    <3> QED
      BY <3>1
  <2>7. m \in 1 .. n /\ m - 1 \in 0 .. n /\ m - 1 < m
    BY <2>6
  <2>8. PICK f : Run(f, m - 1)
    BY <2>5, <2>7
  <2> DEFINE g == [k \in 0 .. m |-> IF k = m THEN F[m][f[m - 1]] ELSE f[k]]
  <2>9. Run(g, m)
    <3>1. \A k \in 0 .. m : g[k] = IF k = 0 THEN a ELSE F[k][g[k - 1]]
      <4> TAKE k \in 0 .. m
      <4>1. CASE k = m
        <5>1. g[k] = F[m][f[m - 1]] /\ g[k - 1] = f[m - 1]
          BY <2>7, <4>1
        <5> QED
          BY <5>1, <4>1, <2>7
      <4>2. CASE k # m
        <5>1. k \in 0 .. m - 1 /\ g[k] = f[k]
          BY <2>7, <4>2
        <5>2. f[k] = IF k = 0 THEN a ELSE F[k][f[k - 1]]
          BY <2>8, <5>1
        <5>3. k # 0 => g[k - 1] = f[k - 1]
          BY <2>7, <5>1
        <5> QED
          BY <5>1, <5>2, <5>3
      <4> QED
        BY <4>1, <4>2
    <3> QED
      BY <3>1
  <2> QED
    BY <2>9
<1>2. PICK f : Run(f, n)
  BY <1>1
<1>3. f[0] \in P[0] /\ \A k \in 1 .. n : f[k - 1] \in P[k - 1] => f[k] \in P[k]
  BY <1>2
<1>4. \A k \in 0 .. n : f[k] \in P[k]
  BY <1>3, LoopKeeps
<1> QED
  BY <1>2, <1>4 DEF LoopOf

----------------------------------------------------------------------------
(***************************************************************************)
(* Policy links.                                                           *)
(***************************************************************************)
\* The database, of which the page has a copy.
LinkStore == [modules : [LinkPolicies -> SUBSET LinkModules], links : SUBSET (LinkGroups \X LinkPolicies)]

\* Two policies of a group have no module in common.
Disjoint(db) ==
  \A g \in LinkGroups : \A p, q \in LinkPolicies :
     <<g, p>> \in db.links /\ <<g, q>> \in db.links /\ p # q => db.modules[p] \cap db.modules[q] = {}

\* The inductive invariant.
LinksInv == store \in LinkStore /\ ui \in LinkStore /\ Disjoint(store)

\* One policy at most: that is what the server's count says.
LEMMA AtMostOne ==
  ASSUME NEW S \in SUBSET LinkPolicies
  PROVE  Cardinality(S) <= 1 <=> \A p, q \in S : p = q
<1>1. IsFiniteSet(S) /\ Cardinality(S) \in Nat
  BY LinksAssumption, FS_Subset, FS_CardinalityType
<1>2. ASSUME Cardinality(S) <= 1, NEW p \in S, NEW q \in S
      PROVE  p = q
  <2>1. Cardinality(S) # 0
    BY <1>1, <1>2, FS_EmptySet
  <2>2. \E x : S = {x}
    BY <1>1, <1>2, <2>1, FS_Singleton
  <2> QED
    BY <1>2, <2>2
<1>3. ASSUME \A p, q \in S : p = q
      PROVE  Cardinality(S) <= 1
  <2>1. CASE S = {}
    BY <2>1, FS_EmptySet
  <2>2. CASE S # {}
    <3>1. PICK p : p \in S
      BY <2>2
    <3>2. S = {p}
      BY <1>3, <3>1
    <3> QED
      BY <3>2, FS_Singleton
  <2> QED
    BY <2>1, <2>2
<1> QED
  BY <1>2, <1>3

\* The cardinality of FiniteSets, under the name it has in PolicyLinks.
LEMMA SameCount ==
  ASSUME NEW S
  PROVE  Lnk!Cardinality(S) = Cardinality(S)
BY DEF Lnk!Cardinality, Cardinality

\* What the server accepts, without its count.
Fits(db, g, p) ==
  /\ <<g, p>> \notin db.links
  /\ \A q \in LinkPolicies : <<g, q>> \in db.links => db.modules[p] \cap db.modules[q] = {}

\* The server accepts a link exactly if the policy is not linked yet and shares
\* no module with those that are.
LEMMA AcceptsFits ==
  ASSUME NEW db \in LinkStore, Disjoint(db), NEW g \in LinkGroups, NEW p \in LinkPolicies
  PROVE  Lnk!Accepts(db, g, p) <=> Fits(db, g, p)
<1>1. \A m \in LinkModules : Lnk!Holders(db, g, p, m) \in SUBSET LinkPolicies
  BY DEF Lnk!Holders, Lnk!PoliciesOf
<1>2. \A m \in LinkModules :
        Lnk!Cardinality(Lnk!Holders(db, g, p, m)) <= 1 <=> \A q, r \in Lnk!Holders(db, g, p, m) : q = r
  BY <1>1, AtMostOne, SameCount
<1>3. \A m, q : q \in Lnk!Holders(db, g, p, m) <=>
        q \in LinkPolicies /\ (<<g, q>> \in db.links \/ q = p) /\ m \in db.modules[q]
  BY DEF Lnk!Holders, Lnk!PoliciesOf
<1>4. \A q \in LinkPolicies : db.modules[q] \subseteq LinkModules
  BY DEF LinkStore
<1>5. ASSUME Lnk!Accepts(db, g, p)
      PROVE  Fits(db, g, p)
  <2>1. <<g, p>> \notin db.links /\ \A m \in LinkModules : \A q, r \in Lnk!Holders(db, g, p, m) : q = r
    BY <1>2, <1>5 DEF Lnk!Accepts
  <2> QED
    BY <1>3, <1>4, <2>1 DEF Fits
<1>6. ASSUME Fits(db, g, p)
      PROVE  Lnk!Accepts(db, g, p)
  <2>1. \A m \in LinkModules : \A q, r \in Lnk!Holders(db, g, p, m) : q = r
    BY <1>3, <1>6 DEF Fits, Disjoint
  <2> QED
    BY <1>2, <1>6, <2>1 DEF Lnk!Accepts, Fits
<1> QED
  BY <1>5, <1>6

\* The page of a group offers exactly these policies.
LEMMA OfferedPolicies ==
  ASSUME NEW db \in LinkStore, NEW g \in LinkGroups, NEW p \in LinkPolicies
  PROVE  p \in Lnk!availablePolicies(db, g) <=> Fits(db, g, p)
<1>1. \A q : q \in Lnk!PoliciesOf(db, g) <=> q \in LinkPolicies /\ <<g, q>> \in db.links
  BY DEF Lnk!PoliciesOf
<1>2. \A m : m \in Lnk!modulesInLinked(db, g) <=> \E q \in Lnk!PoliciesOf(db, g) : m \in db.modules[q]
  BY DEF Lnk!modulesInLinked
<1>3. Lnk!conflictsOfPolicy(db, g, p) = {} <=>
        \A q \in Lnk!PoliciesOf(db, g) : db.modules[p] \cap db.modules[q] = {}
  <2>1. ASSUME NEW q \in Lnk!PoliciesOf(db, g), NEW m \in db.modules[p] \cap db.modules[q]
        PROVE  [module |-> m, conflictedPolicy |-> q] \in Lnk!conflictsOfPolicy(db, g, p)
    BY <1>2, <2>1 DEF Lnk!conflictsOfPolicy
  <2>2. ASSUME NEW c \in Lnk!conflictsOfPolicy(db, g, p)
        PROVE  /\ c.conflictedPolicy \in Lnk!PoliciesOf(db, g)
               /\ c.module \in db.modules[p] \cap db.modules[c.conflictedPolicy]
    BY <2>2 DEF Lnk!conflictsOfPolicy
  <2> QED
    BY <2>1, <2>2
<1> QED
  BY <1>1, <1>3 DEF Lnk!availablePolicies, Fits

\* So does the page of a policy with the groups: the other groups it asks for a
\* module in common have the group itself among them.
LEMMA OfferedGroups ==
  ASSUME NEW db \in LinkStore, NEW g \in LinkGroups, NEW p \in LinkPolicies
  PROVE  g \in Lnk!availableGroups(db, p) <=> Fits(db, g, p)
<1>1. \A q : q \in Lnk!PoliciesOf(db, g) <=> q \in LinkPolicies /\ <<g, q>> \in db.links
  BY DEF Lnk!PoliciesOf
<1>2. \A m : m \in Lnk!GroupModules(db, g) <=> \E q \in Lnk!PoliciesOf(db, g) : m \in db.modules[q]
  BY DEF Lnk!GroupModules
<1>3. g \in Lnk!GroupsOf(db, p) <=> <<g, p>> \in db.links
  BY DEF Lnk!GroupsOf
<1>4. ASSUME g \notin Lnk!GroupsOf(db, p)
      PROVE  Lnk!conflictsOfGroup(db, p, g) = {} <=>
               \A q \in Lnk!PoliciesOf(db, g) : db.modules[p] \cap db.modules[q] = {}
  <2>1. ASSUME NEW q \in Lnk!PoliciesOf(db, g), NEW m \in db.modules[p] \cap db.modules[q]
        PROVE  [module |-> m, conflictedPolicy |-> q] \in Lnk!conflictsOfGroup(db, p, g)
    <3>1. m \in Lnk!GroupModules(db, g) \cap db.modules[p]
      BY <1>2, <2>1
    <3>2. g \in LinkGroups \ Lnk!GroupsOf(db, p)
      BY <1>4
    <3> QED
      BY <2>1, <3>1, <3>2 DEF Lnk!conflictsOfGroup
  <2>2. ASSUME NEW c \in Lnk!conflictsOfGroup(db, p, g)
        PROVE  /\ c.conflictedPolicy \in Lnk!PoliciesOf(db, g)
               /\ c.module \in db.modules[p] \cap db.modules[c.conflictedPolicy]
    BY <2>2 DEF Lnk!conflictsOfGroup
  <2> QED
    BY <2>1, <2>2
<1> QED
  BY <1>1, <1>3, <1>4 DEF Lnk!availableGroups, Fits

\* A link or an unlink keeps the policies of every group apart.
LEMMA LinksNext ==
  ASSUME LinksInv, [Lnk!Next]_<<store, ui, ops>>
  PROVE  LinksInv'
<1>0. store \in LinkStore /\ ui \in LinkStore /\ Disjoint(store)
  BY DEF LinksInv
<1>1. ASSUME NEW g \in LinkGroups, NEW p \in LinkPolicies, Lnk!Activate(g, p)
      PROVE  store' \in LinkStore /\ Disjoint(store')
  <2>1. CASE Lnk!Accepts(store, g, p)
    <3>1. Fits(store, g, p)
      BY <1>0, <2>1, AcceptsFits
    <3>2. store' = [store EXCEPT !.links = @ \cup {<<g, p>>}]
      BY <1>1, <2>1 DEF Lnk!Activate
    <3>3. store' \in LinkStore /\ store'.modules = store.modules /\ store'.links = store.links \cup {<<g, p>>}
      BY <1>0, <3>2 DEF LinkStore
    <3> QED
      BY <1>0, <3>1, <3>3 DEF Disjoint, Fits
  <2>2. CASE ~ Lnk!Accepts(store, g, p)
    BY <1>0, <1>1, <2>2 DEF Lnk!Activate
  <2> QED
    BY <2>1, <2>2
<1>2. CASE Lnk!fetchData
  BY <1>0, <1>2 DEF Lnk!fetchData, LinksInv
<1>3. CASE \E g \in LinkGroups, p \in LinkPolicies : Lnk!linkPolicy(g, p) \/ Lnk!linkGroup(g, p)
  BY <1>0, <1>1, <1>3 DEF Lnk!linkPolicy, Lnk!linkGroup, LinksInv
<1>4. ASSUME NEW g \in LinkGroups, NEW p \in LinkPolicies, Lnk!unlink(g, p)
      PROVE  LinksInv'
  <2>1. store' = [store EXCEPT !.links = @ \ {<<g, p>>}] /\ ui' = ui
    BY <1>4 DEF Lnk!unlink
  <2>2. store' \in LinkStore /\ store'.modules = store.modules /\ store'.links = store.links \ {<<g, p>>}
    BY <1>0, <2>1 DEF LinkStore
  <2> QED
    BY <1>0, <2>1, <2>2 DEF Disjoint, LinksInv
<1>5. CASE UNCHANGED <<store, ui, ops>>
  BY <1>0, <1>5 DEF LinksInv
<1> QED
  BY <1>2, <1>3, <1>4, <1>5 DEF Lnk!Next

\* The database begins with policies apart.
LEMMA LinksInit ==
  ASSUME Lnk!Init
  PROVE  LinksInv
<1>1. \A g, q : q \in Lnk!PoliciesOf(store, g) <=> q \in LinkPolicies /\ <<g, q>> \in store.links
  BY DEF Lnk!PoliciesOf
<1> QED
  BY <1>1 DEF Lnk!Init, LinksInv, LinkStore, Disjoint

\* Both pages then offer what the server accepts.
LEMMA LinksMean ==
  ASSUME LinksInv
  PROVE  Lnk!OffersMatchServer
BY AcceptsFits, OfferedPolicies, OfferedGroups DEF LinksInv, Lnk!OffersMatchServer

----------------------------------------------------------------------------
(***************************************************************************)
(* Event actions.                                                          *)
(***************************************************************************)
Actions == DOMAIN ModuleOf
Lists   == Seq(Actions)
Places  == Events \cup {0}

\* No action twice in a list.
Once(list) == \A i, j \in DOMAIN list : list[i] = list[j] => i = j

\* The event has the fields of the action; of the actions in the list.
Fit(a, e)      == NeededFields[a] \subseteq FieldsOf[e]
AllFit(list, e) == \A i \in DOMAIN list : Fit(list[i], e)

Saved == [config : [Events -> Lists], deps : SUBSET {ModuleOf[a] : a \in Actions}]
Save  == [by : {"master", "event", "reset", "details"}, stray : BOOLEAN, m : Saved]

OnceIn(m)  == \A e \in Events : Once(m.config[e])
FitIn(m)   == \A e \in Events : AllFit(m.config[e], e)
UsedIn(m)  == Evt!UsedModules(m.config) \ {"this"}

\* What is saved: the dialogs save the dependencies of what is used, and actions
\* that fit unless stray marks were taken along.
SaveOK(s) ==
  /\ OnceIn(s.m)
  /\ s.by \in {"master", "event"} => s.m.deps = UsedIn(s.m)
  /\ s.by \in {"master", "event"} /\ ~s.stray => FitIn(s.m)

ModuleOK(m) == m \in Saved /\ OnceIn(m) /\ FitIn(m) /\ m.deps = UsedIn(m)

Page ==
  [kind : {"none", "master", "event"}, step : {1, 2}, action : Actions,
   available : SUBSET Places, unavailable : SUBSET Places, assigned : SUBSET Places,
   marked : SUBSET Places, markedSelected : SUBSET Places, event : Places, selected : Lists,
   waits : BOOLEAN, stray : BOOLEAN]

\* Every event in the lists of the first dialog, marked or not, fits.
ListsFit(u) ==
  \A e \in u.available \cup u.assigned \cup u.marked \cup u.markedSelected : e = 0 \/ Fit(u.action, e)

PageOK(u) ==
  /\ u \in Page
  /\ u.kind = "master" /\ ~u.stray => ListsFit(u)
  /\ u.kind = "event" => u.event \in Events /\ Once(u.selected) /\ AllFit(u.selected, u.event)

\* The inductive invariant.
ActionsInv ==
  /\ store \in [module : Saved, pending : Seq(Save)]
  /\ ModuleOK(store.module)
  /\ \A i \in DOMAIN store.pending : SaveOK(store.pending[i])
  /\ PageOK(ui)

\* What the assumption says in these words.
LEMMA ActionParameters ==
  /\ Events \subseteq Nat /\ 0 \notin Events
  /\ \E a \in Actions : ModuleOf[a] = "this"
  /\ \A c \in {FirstActions, DefaultActions} :
        c \in [Events -> Lists] /\ \A e \in Events : Once(c[e]) /\ AllFit(c[e], e)
BY ActionsAssumption
DEF Evt!ParametersOK, Evt!ConfigOK, Evt!Actions, Evt!THIS_MODULE_NAME, Actions, Lists, Once, AllFit, Fit

----------------------------------------------------------------------------
\* What Erase has kept of the first k actions.
KeptUpTo(list, kept, a, k) ==
  /\ \A i \in DOMAIN kept : kept[i] # a /\ \E j \in 1 .. k : list[j] = kept[i]
  /\ Once(list) => Once(kept)

\* One step of Erase.
LEMMA EraseStep ==
  ASSUME NEW list \in Lists, NEW a, NEW k \in 1 .. Len(list), NEW kept \in Lists, KeptUpTo(list, kept, a, k - 1)
  PROVE  LET next == IF list[k] = a THEN kept ELSE Append(kept, list[k])
         IN next \in Lists /\ KeptUpTo(list, next, a, k)
<1> USE DEF Lists
<1>1. k - 1 \in Nat /\ k \in DOMAIN list /\ list[k] \in Actions
  OBVIOUS
<1>2. CASE list[k] = a
  BY <1>1, <1>2 DEF KeptUpTo
<1>3. CASE list[k] # a
  <2> DEFINE next == Append(kept, list[k])
  <2>1. /\ next \in Seq(Actions) /\ DOMAIN next = 1 .. Len(kept) + 1 /\ DOMAIN kept = 1 .. Len(kept)
        /\ \A i \in 1 .. Len(kept) : next[i] = kept[i]
        /\ next[Len(kept) + 1] = list[k]
    BY <1>1
  <2> HIDE DEF next
  <2>2. \A i \in DOMAIN next : next[i] # a /\ \E j \in 1 .. k : list[j] = next[i]
    <3> TAKE i \in DOMAIN next
    <3>1. CASE i = Len(kept) + 1
      BY <1>1, <1>3, <2>1, <3>1
    <3>2. CASE i \in DOMAIN kept
      BY <1>1, <2>1, <3>2 DEF KeptUpTo
    <3> QED
      BY <2>1, <3>1, <3>2
  <2>3. ASSUME Once(list) PROVE Once(next)
    <3>1. Once(kept)
      BY <2>3 DEF KeptUpTo
    <3>2. \A i \in DOMAIN kept : kept[i] # list[k]
      <4> TAKE i \in DOMAIN kept
      <4>1. PICK j \in 1 .. k - 1 : list[j] = kept[i]
        BY DEF KeptUpTo
      <4>2. j \in DOMAIN list /\ j # k
        BY <1>1, <4>1
      <4> QED
        BY <1>1, <2>3, <4>1, <4>2 DEF Once
    <3>3. \A i \in DOMAIN next : i \in DOMAIN kept \/ i = Len(kept) + 1
      BY <2>1
    <3>4. \A i \in DOMAIN kept : next[i] = kept[i]
      BY <2>1
    <3>5. SUFFICES ASSUME NEW i \in DOMAIN next, NEW j \in DOMAIN next, next[i] = next[j]
                   PROVE  i = j
      BY DEF Once
    <3>6. CASE i \in DOMAIN kept /\ j \in DOMAIN kept
      BY <3>1, <3>4, <3>5, <3>6 DEF Once
    <3>7. CASE i = Len(kept) + 1 /\ j \in DOMAIN kept
      BY <2>1, <3>2, <3>4, <3>5, <3>7
    <3>8. CASE i \in DOMAIN kept /\ j = Len(kept) + 1
      BY <2>1, <3>2, <3>4, <3>5, <3>8
    <3> QED
      BY <3>3, <3>6, <3>7, <3>8
  <2>4. KeptUpTo(list, next, a, k)
    BY <2>2, <2>3 DEF KeptUpTo
  <2> QED
    BY <1>3, <2>1, <2>4 DEF next
<1> QED
  BY <1>2, <1>3

\* What Erase leaves: actions of the list, none of them a, no action twice if
\* there was none twice.
LEMMA EraseIs ==
  ASSUME NEW list \in Lists, NEW a
  PROVE  Evt!Erase(list, a) \in Lists /\ KeptUpTo(list, Evt!Erase(list, a), a, Len(list))
<1> DEFINE n == Len(list)
           s == <<>>
           Q(k) == {kept \in Lists : KeptUpTo(list, kept, a, k)}
           P == [k \in 0 .. n |-> Q(k)]
           Body(kept, k) == IF list[k] = a THEN kept ELSE Append(kept, list[k])
           F == [k \in 1 .. n |-> [kept \in P[k - 1] |-> Body(kept, k)]]
           Loop(f) == f = [k \in 0 .. n |-> IF k = 0 THEN s ELSE Body(f[k - 1], k)]
           h == CHOOSE f : Loop(f)
<1>0. n \in Nat
  BY DEF Lists
<1>1. s \in Q(0)
  BY DEF KeptUpTo, Once, Lists
<1>2. \A k \in 1 .. n : \A kept \in Q(k - 1) : Body(kept, k) \in Q(k)
  BY EraseStep
<1>3. Evt!Erase(list, a) = h[n]
  BY DEF Evt!Erase
<1>4. /\ \A k \in 1 .. n : \A kept \in P[k - 1] : F[k][kept] = Body(kept, k)
      /\ \A k \in 0 .. n : P[k] = Q(k)
  OBVIOUS
<1> HIDE DEF n, s, Q, Body, h, P, F
<1>5. 0 \in 0 .. n /\ n \in 0 .. n /\ \A k \in 1 .. n : k \in 0 .. n /\ k - 1 \in 0 .. n /\ k # 0
  BY <1>0
<1>6. s \in P[0] /\ \A k \in 1 .. n : \A kept \in P[k - 1] : Body(kept, k) \in P[k]
  BY <1>1, <1>2, <1>4, <1>5
<1>7. PICK f : LoopOf(f, n, s, F) /\ \A k \in 0 .. n : f[k] \in P[k]
  <2>1. \A k \in 1 .. n : \A kept \in P[k - 1] : F[k][kept] \in P[k]
    BY <1>4, <1>6
  <2> QED
    BY <1>0, <1>6, <2>1, LoopRuns
<1>8. Loop(f)
  <2>1. \A k \in 0 .. n : k # 0 => k \in 1 .. n
    BY <1>0
  <2>2. \A k \in 0 .. n : (IF k = 0 THEN s ELSE F[k][f[k - 1]]) = IF k = 0 THEN s ELSE Body(f[k - 1], k)
    BY <1>4, <1>5, <1>7, <2>1
  <2> QED
    BY <1>7, <2>2 DEF LoopOf
<1> HIDE DEF Loop
<1>9. Loop(h)
  BY <1>8 DEF h
<1>10. h[0] = s /\ \A k \in 1 .. n : h[k] = Body(h[k - 1], k)
  <2>1. h[0] = s
    BY <1>5, <1>9 DEF Loop
  <2>2. \A k \in 1 .. n : h[k] = Body(h[k - 1], k)
    BY <1>5, <1>9 DEF Loop
  <2> QED
    BY <2>1, <2>2
<1>11. h[n] \in P[n]
  <2>1. \A k \in 1 .. n : h[k - 1] \in P[k - 1] => h[k] \in P[k]
    BY <1>6, <1>10
  <2>2. \A k \in 0 .. n : h[k] \in P[k]
    BY <1>0, <1>6, <1>10, <2>1, LoopKeeps
  <2> QED
    BY <1>5, <2>2
<1>12. h[n] \in Q(n)
  BY <1>4, <1>5, <1>11
<1> QED
  BY <1>3, <1>12 DEF Q, n

\* An action that comes to the end of a list that has not got it.
LEMMA AppendOnce ==
  ASSUME NEW list \in Lists, Once(list), NEW a \in Actions, \A i \in DOMAIN list : list[i] # a
  PROVE  /\ Append(list, a) \in Lists /\ Once(Append(list, a))
         /\ \A i \in DOMAIN Append(list, a) : Append(list, a)[i] = a \/ \E j \in DOMAIN list : list[j] = Append(list, a)[i]
<1> DEFINE next == Append(list, a)
<1>1. /\ next \in Seq(Actions) /\ DOMAIN next = 1 .. Len(list) + 1 /\ DOMAIN list = 1 .. Len(list)
      /\ \A i \in 1 .. Len(list) : next[i] = list[i]
      /\ next[Len(list) + 1] = a /\ Len(list) \in Nat
  BY DEF Lists
<1> HIDE DEF next
<1>2. \A i \in DOMAIN next : i \in DOMAIN list \/ i = Len(list) + 1
  BY <1>1
<1>3. \A i \in DOMAIN list : next[i] = list[i]
  BY <1>1
<1>4. Once(next)
  <2>1. SUFFICES ASSUME NEW i \in DOMAIN next, NEW j \in DOMAIN next, next[i] = next[j]
                 PROVE  i = j
    BY DEF Once
  <2>2. CASE i \in DOMAIN list /\ j \in DOMAIN list
    BY <1>3, <2>1, <2>2 DEF Once
  <2>3. CASE i = Len(list) + 1 /\ j \in DOMAIN list
    BY <1>1, <1>3, <2>1, <2>3
  <2>4. CASE i \in DOMAIN list /\ j = Len(list) + 1
    BY <1>1, <1>3, <2>1, <2>4
  <2> QED
    BY <1>2, <2>2, <2>3, <2>4
<1>5. \A i \in DOMAIN next : next[i] = a \/ \E j \in DOMAIN list : list[j] = next[i]
  BY <1>1, <1>2, <1>3
<1> QED
  BY <1>1, <1>4, <1>5 DEF next, Lists

\* The modules whose actions are used.
LEMMA UsedIs ==
  ASSUME NEW c, NEW d
  PROVE  d \in Evt!UsedModules(c) <=>
           \E e \in Events : \E i \in DOMAIN c[e] : c[e][i] \in Actions /\ d = ModuleOf[c[e][i]]
BY DEF Evt!UsedModules, Evt!Has, Evt!Actions, Actions

\* Every action of c is one of d, at the same event, or a.
ComesFrom(c, d, a) ==
  \A e \in Events : \A i \in DOMAIN c[e] : c[e][i] = a \/ \E j \in DOMAIN d[e] : d[e][j] = c[e][i]

\* A configuration that has the actions of another one and a uses no module but
\* those of that one and the one of a.
LEMMA UsedGrows ==
  ASSUME NEW c, NEW d, NEW a, ComesFrom(c, d, a)
  PROVE  Evt!UsedModules(c) \subseteq Evt!UsedModules(d) \cup {ModuleOf[a]}
<1> SUFFICES ASSUME NEW x \in Evt!UsedModules(c), x # ModuleOf[a] PROVE x \in Evt!UsedModules(d)
  OBVIOUS
<1>1. PICK e \in Events : \E i \in DOMAIN c[e] : c[e][i] \in Actions /\ x = ModuleOf[c[e][i]]
  BY UsedIs
<1>2. PICK i \in DOMAIN c[e] : c[e][i] \in Actions /\ x = ModuleOf[c[e][i]]
  BY <1>1
<1>3. PICK j \in DOMAIN d[e] : d[e][j] = c[e][i]
  BY <1>2 DEF ComesFrom
<1> QED
  BY <1>2, <1>3, UsedIs

\* The dependencies are those of what is used once the rest is cleared away, if
\* none of them was missing.
LEMMA ClearIs ==
  ASSUME NEW m \in Saved, UsedIn(m) \subseteq m.deps, NEW r, r = Evt!clearDynamicDependencies(m)
  PROVE  r \in Saved /\ r.config = m.config /\ r.deps = UsedIn(r)
<1>1. r \in Saved /\ r.config = m.config
      /\ r.deps = {d \in m.deps : d # "this" /\ d \in Evt!UsedModules(m.config)}
  BY DEF Evt!clearDynamicDependencies, Saved, Evt!THIS_MODULE_NAME
<1> QED
  BY <1>1 DEF UsedIn

\* What With gives: the action comes, once, to the events it is assigned to.
LEMMA WithIs ==
  ASSUME NEW c \in [Events -> Lists], \A e \in Events : Once(c[e]), NEW a \in Actions, NEW es,
         NEW r, r = Evt!With(c, a, es)
  PROVE  /\ r \in [Events -> Lists] /\ \A e \in Events : Once(r[e])
         /\ \A e \in Events : \A i \in DOMAIN r[e] :
              (r[e][i] = a /\ e \in es) \/ \E j \in DOMAIN c[e] : c[e][j] = r[e][i]
<1>1. \A e \in Events : r[e] = IF e \in es /\ ~Evt!Has(c, e, a) THEN Append(c[e], a) ELSE c[e]
  BY DEF Evt!With
<1>2. r = [e \in Events |-> r[e]]
  BY DEF Evt!With
<1>3. ASSUME NEW e \in Events
      PROVE  /\ r[e] \in Lists /\ Once(r[e])
             /\ \A i \in DOMAIN r[e] : (r[e][i] = a /\ e \in es) \/ \E j \in DOMAIN c[e] : c[e][j] = r[e][i]
  <2>1. CASE e \in es /\ ~Evt!Has(c, e, a)
    <3>1. \A i \in DOMAIN c[e] : c[e][i] # a
      BY <2>1 DEF Evt!Has
    <3>2. r[e] = Append(c[e], a) /\ c[e] \in Lists /\ Once(c[e])
      BY <1>1, <2>1
    <3> QED
      BY <2>1, <3>1, <3>2, AppendOnce
  <2>2. CASE ~ (e \in es /\ ~Evt!Has(c, e, a))
    <3>1. r[e] = c[e]
      BY <1>1, <2>2
    <3> QED
      BY <3>1
  <2> QED
    BY <2>1, <2>2
<1> QED
  BY <1>2, <1>3

\* What Without gives.
LEMMA WithoutIs ==
  ASSUME NEW c \in [Events -> Lists], \A e \in Events : Once(c[e]), NEW a, NEW r, r = Evt!Without(c, a)
  PROVE  /\ r \in [Events -> Lists] /\ \A e \in Events : Once(r[e])
         /\ \A e \in Events : \A i \in DOMAIN r[e] : \E j \in DOMAIN c[e] : c[e][j] = r[e][i]
<1>1. r = [e \in Events |-> Evt!Erase(c[e], a)]
  BY DEF Evt!Without
<1>2. ASSUME NEW e \in Events
      PROVE  /\ r[e] \in Lists /\ Once(r[e])
             /\ \A i \in DOMAIN r[e] : \E j \in DOMAIN c[e] : c[e][j] = r[e][i]
  <2>1. c[e] \in Lists /\ Once(c[e]) /\ DOMAIN c[e] = 1 .. Len(c[e])
    BY DEF Lists
  <2>2. r[e] = Evt!Erase(c[e], a)
    BY <1>1
  <2>3. r[e] \in Lists /\ KeptUpTo(c[e], r[e], a, Len(c[e]))
    BY <2>1, <2>2, EraseIs
  <2> QED
    BY <2>1, <2>3 DEF KeptUpTo
<1> QED
  BY <1>1, <1>2

\* One event gets another list.
LEMMA PutList ==
  ASSUME NEW m, ModuleOK(m), NEW e \in Events, NEW list \in Lists, Once(list),
         NEW r, r = [m EXCEPT !.config[e] = list]
  PROVE  /\ r \in Saved /\ OnceIn(r) /\ r.deps = m.deps
         /\ r.config = [m.config EXCEPT ![e] = list]
         /\ AllFit(list, e) => FitIn(r)
<1>1. m \in Saved /\ OnceIn(m) /\ FitIn(m)
  BY DEF ModuleOK
<1>2. r \in Saved /\ r.deps = m.deps /\ r.config = [m.config EXCEPT ![e] = list]
  BY <1>1 DEF Saved
<1>3. m.config \in [Events -> Lists]
  BY <1>1 DEF Saved
<1> HIDE DEF Once, AllFit
<1>4. \A x \in Events : r.config[x] = IF x = e THEN list ELSE m.config[x]
  BY <1>2, <1>3
<1> QED
  BY <1>1, <1>2, <1>4 DEF OnceIn, FitIn

----------------------------------------------------------------------------
\* The two halves of the invariant.
StoreInv ==
  /\ store \in [module : Saved, pending : Seq(Save)]
  /\ ModuleOK(store.module)
  /\ \A i \in DOMAIN store.pending : SaveOK(store.pending[i])

\* A save is added to those under way.
LEMMA EmitKeeps ==
  ASSUME StoreInv, NEW by \in {"master", "event", "reset", "details"}, NEW m \in Saved, ui.stray \in BOOLEAN,
         Evt!Emit(by, m), OnceIn(m), by \in {"master", "event"} => m.deps = UsedIn(m) /\ (~ui.stray => FitIn(m))
  PROVE  StoreInv'
<1> DEFINE s == [by |-> by, stray |-> ui.stray, m |-> m]
<1>1. s \in Save /\ SaveOK(s)
  BY DEF Save, SaveOK
<1>2. store' = [store EXCEPT !.pending = Append(@, s)]
  BY DEF Evt!Emit
<1>3. store \in [module : Saved, pending : Seq(Save)] /\ store.pending \in Seq(Save)
  BY DEF StoreInv
<1> HIDE DEF s
<1>4. /\ store' \in [module : Saved, pending : Seq(Save)] /\ store'.module = store.module
      /\ store'.pending = Append(store.pending, s)
  BY <1>1, <1>2, <1>3
<1>5. \A i \in DOMAIN store'.pending : store'.pending[i] = s \/ (i \in DOMAIN store.pending /\ store'.pending[i] = store.pending[i])
  BY <1>1, <1>3, <1>4
<1>6. \A i \in DOMAIN store'.pending : SaveOK(store'.pending[i])
  BY <1>1, <1>5 DEF StoreInv
<1>7. ModuleOK(store'.module)
  BY <1>4 DEF StoreInv
<1> QED
  BY <1>4, <1>6, <1>7 DEF StoreInv

\* The page's module is replaced by one the server has accepted.
LEMMA AnswerKeeps ==
  ASSUME StoreInv, Evt!Answer
  PROVE  StoreInv'
<1>0. PICK saved \in BOOLEAN :
        store' = [module |-> IF saved /\ Evt!Accepted(Head(store.pending).m) THEN Head(store.pending).m ELSE store.module,
                  pending |-> Tail(store.pending)]
  BY Zenon DEF Evt!Answer
<1> DEFINE s == Head(store.pending)
           m == IF saved /\ Evt!Accepted(s.m) THEN s.m ELSE store.module
<1>1. store.pending \in Seq(Save) /\ store.pending # <<>> /\ store.module \in Saved
  BY DEF Evt!Answer, StoreInv
<1>2. s \in Save /\ s = store.pending[1] /\ 1 \in DOMAIN store.pending /\ Tail(store.pending) \in Seq(Save)
      /\ \A i \in DOMAIN Tail(store.pending) : i + 1 \in DOMAIN store.pending /\ Tail(store.pending)[i] = store.pending[i + 1]
  BY <1>1
<1>3. SaveOK(s) /\ s.m \in Saved
  BY <1>2 DEF StoreInv, Save
<1>4. store' = [module |-> m, pending |-> Tail(store.pending)]
  BY <1>0
<1> HIDE DEF s
<1>5. Evt!Accepted(s.m) => ModuleOK(s.m)
  <2>1. SUFFICES ASSUME Evt!Accepted(s.m) PROVE ModuleOK(s.m)
    OBVIOUS
  <2>2. s.m.deps = UsedIn(s.m)
    BY <2>1 DEF Evt!Accepted, Evt!DependenciesValid, UsedIn, Evt!THIS_MODULE_NAME
  <2>3. s.m.config \in [Events -> Seq(Actions)]
    BY <1>3 DEF Saved, Lists
  <2>4. \A e \in Events : \A a \in Actions : Evt!Has(s.m.config, e, a) => Fit(a, e)
    BY <2>1 DEF Evt!Accepted, Evt!FieldsValid, Evt!Actions, Actions, Fit
  <2>5. ASSUME NEW e \in Events, NEW i \in DOMAIN s.m.config[e]
        PROVE  Fit(s.m.config[e][i], e)
    <3>1. s.m.config[e] \in Seq(Actions)
      BY <2>3
    <3>2. s.m.config[e][i] \in Actions
      BY <2>5, <3>1
    <3>3. Evt!Has(s.m.config, e, s.m.config[e][i])
      BY <2>5 DEF Evt!Has
    <3> QED
      BY <2>4, <3>2, <3>3
  <2> QED
    BY <1>3, <2>2, <2>5 DEF ModuleOK, FitIn, AllFit, SaveOK
<1>6. ModuleOK(m)
  BY <1>5 DEF StoreInv
<1>7. m \in Saved
  BY <1>6 DEF ModuleOK
<1> HIDE DEF m
<1>8. /\ store' \in [module : Saved, pending : Seq(Save)]
      /\ store'.module = m /\ store'.pending = Tail(store.pending)
  BY <1>2, <1>4, <1>7
<1>9. \A i \in DOMAIN store'.pending : SaveOK(store'.pending[i])
  BY <1>2, <1>8 DEF StoreInv
<1> QED
  BY <1>6, <1>8, <1>9 DEF StoreInv

----------------------------------------------------------------------------
\* The least of a set of events.
LEMMA LeastIs ==
  ASSUME NEW S \in SUBSET Places, S # {}
  PROVE  Evt!Min(S) \in S
<1>1. S \subseteq Nat
  BY ActionParameters DEF Places
<1>2. \E x \in S : \A y \in S : x <= y
  <2> DEFINE R == OpToRel(<, Nat)
  <2>1. IsWellFoundedOn(R, Nat)
    BY NatLessThanWellFounded
  <2> HIDE DEF R
  <2>2. PICK x \in S : \A y \in S : ~ (<<y, x>> \in R)
    BY <1>1, <2>1, WFMin
  <2>3. \A y \in S : ~ (y < x)
    BY <1>1, <2>2 DEF OpToRel, R
  <2> QED
    BY <1>1, <2>3
<1> QED
  BY <1>2 DEF Evt!Min

\* Marking the first event that is offered.
LEMMA MarkFirstKeeps ==
  ASSUME NEW u, PageOK(u)
  PROVE  PageOK(Evt!MarkFirst(u))
<1>1. CASE u.waits /\ u.available \cup u.unavailable # {}
  <2> DEFINE e == IF u.available # {} THEN Evt!Min(u.available) ELSE 0
             v == [u EXCEPT !.waits = FALSE, !.marked = @ \cup {e}]
  <2>1. Evt!MarkFirst(u) = v
    BY <1>1 DEF Evt!MarkFirst
  <2>2. u \in Page /\ u.available \in SUBSET Places
    BY DEF PageOK, Page
  <2>3. e \in Places /\ (e = 0 \/ e \in u.available)
    BY <2>2, LeastIs DEF Places
  <2> HIDE DEF e
  <2>4. /\ v \in Page /\ v.kind = u.kind /\ v.stray = u.stray /\ v.event = u.event /\ v.selected = u.selected
        /\ v.action = u.action /\ v.available = u.available /\ v.assigned = u.assigned
        /\ v.marked = u.marked \cup {e} /\ v.markedSelected = u.markedSelected
    BY <2>2, <2>3 DEF Page
  <2> HIDE DEF v
  <2>5. ListsFit(u) => ListsFit(v)
    BY <2>3, <2>4 DEF ListsFit
  <2> QED
    BY <2>1, <2>4, <2>5 DEF PageOK
<1>2. CASE ~ (u.waits /\ u.available \cup u.unavailable # {})
  BY <1>2 DEF Evt!MarkFirst
<1> QED
  BY <1>1, <1>2

\* The lists of events are filled for an action, with no marks from before
\* unless that is known.
LEMMA SetEventsKeeps ==
  ASSUME NEW u \in Page, u.kind = "master", NEW a \in Actions,
         ~u.stray => u.marked = {} /\ u.markedSelected = {}
  PROVE  PageOK(Evt!setEventsData(u, a))
<1> DEFINE av == {e \in Events : Evt!getEventAvailability(e, a)}
           v == [u EXCEPT !.action = a, !.available = av, !.unavailable = Events \ av, !.assigned = {}]
<1>1. av \subseteq Events /\ \A e \in av : Fit(a, e)
  BY DEF Evt!getEventAvailability, Fit
<1>2. Evt!setEventsData(u, a) = Evt!MarkFirst(v)
  BY DEF Evt!setEventsData
<1> HIDE DEF av
<1>3. /\ v \in Page /\ v.kind = "master" /\ v.stray = u.stray /\ v.action = a /\ v.available = av
      /\ v.assigned = {} /\ v.marked = u.marked /\ v.markedSelected = u.markedSelected
  BY <1>1 DEF Page, Places
<1> HIDE DEF v
<1>4. ~v.stray => ListsFit(v)
  BY <1>1, <1>3 DEF ListsFit
<1>5. PageOK(v)
  BY <1>3, <1>4 DEF PageOK
<1> QED
  BY <1>2, <1>5, MarkFirstKeeps

\* Events that fit are moved to those assigned.
LEMMA MoveKeeps ==
  ASSUME NEW u, PageOK(u), u.kind = "master", NEW moving \in SUBSET Places,
         ~u.stray => \A e \in moving : e = 0 \/ Fit(u.action, e)
  PROVE  PageOK(Evt!Move(u, moving)) /\ Evt!Move(u, moving).kind = "master" /\ Evt!Move(u, moving).stray = u.stray
<1> DEFINE v == [u EXCEPT !.assigned = @ \cup moving, !.available = @ \ moving, !.marked = {}]
<1>1. Evt!Move(u, moving) = v
  BY DEF Evt!Move
<1>2. /\ v \in Page /\ v.kind = "master" /\ v.stray = u.stray /\ v.action = u.action
      /\ v.available = u.available \ moving /\ v.assigned = u.assigned \cup moving
      /\ v.marked = {} /\ v.markedSelected = u.markedSelected
  BY DEF PageOK, Page
<1> HIDE DEF v
<1>3. ~v.stray => ListsFit(v)
  BY <1>2 DEF ListsFit, PageOK
<1> QED
  BY <1>1, <1>2, <1>3 DEF PageOK

\* The events that have the action already are assigned, with those marked.
LEMMA SelectedKeeps ==
  ASSUME ModuleOK(store.module), NEW u, PageOK(u), u.kind = "master"
  PROVE  PageOK(Evt!setSelectedEvents(u))
<1> DEFINE with == {e \in Events : Evt!Has(store.module.config, e, u.action)}
           v == IF with # {} THEN Evt!Move(u, with \cup u.marked) ELSE u
           w == [v EXCEPT !.waits = TRUE]
<1>1. Evt!setSelectedEvents(u) = Evt!MarkFirst(w)
  BY DEF Evt!setSelectedEvents
<1>2. \A e \in with : Fit(u.action, e)
  BY DEF Evt!Has, ModuleOK, FitIn, AllFit
<1>3. with \in SUBSET Places /\ u.marked \in SUBSET Places
  BY DEF Places, PageOK, Page
<1> HIDE DEF with
<1>4. ~u.stray => \A e \in with \cup u.marked : e = 0 \/ Fit(u.action, e)
  BY <1>2 DEF PageOK, ListsFit
<1>5. PageOK(v) /\ v.kind = "master"
  BY <1>3, <1>4, MoveKeeps
<1> HIDE DEF v
<1>6. /\ w \in Page /\ w.kind = v.kind /\ w.stray = v.stray /\ w.action = v.action
      /\ w.available = v.available /\ w.assigned = v.assigned
      /\ w.marked = v.marked /\ w.markedSelected = v.markedSelected
  BY <1>5 DEF PageOK, Page
<1> HIDE DEF w
<1>7. PageOK(w)
  BY <1>5, <1>6 DEF PageOK, ListsFit
<1> QED
  BY <1>1, <1>7, MarkFirstKeeps

\* The action that is always there, and the page without a dialog.
LEMMA FirstPage == Evt!LOG_TO_DB \in Actions /\ PageOK(Evt!NoDialog)
<1>1. Evt!LOG_TO_DB \in Actions
  BY ActionParameters DEF Evt!LOG_TO_DB, Evt!Actions, Evt!THIS_MODULE_NAME, Actions
<1>2. <<>> \in Lists
  BY DEF Lists
<1>3. Evt!NoDialog \in Page /\ Evt!NoDialog.kind = "none"
  BY <1>1, <1>2 DEF Evt!NoDialog, Page, Places
<1> QED
  BY <1>1, <1>3 DEF PageOK

\* The dialog is closed.
LEMMA CloseKeeps ==
  ASSUME PageOK(ui), Evt!close
  PROVE  PageOK(ui')
<1>1. PICK selected \in {ui.markedSelected, {}} :
        ui' = [Evt!NoDialog EXCEPT !.markedSelected = selected, !.waits = ui.waits]
  BY DEF Evt!close
<1>2. selected \in SUBSET Places /\ ui.waits \in BOOLEAN
  BY <1>1 DEF PageOK, Page
<1>3. Evt!NoDialog \in Page /\ Evt!NoDialog.kind = "none"
  BY FirstPage DEF PageOK, Evt!NoDialog
<1>4. ui' \in Page /\ ui'.kind = "none"
  BY <1>1, <1>2, <1>3 DEF Page
<1> QED
  BY <1>4 DEF PageOK

----------------------------------------------------------------------------
\* The steps of the first dialog that save nothing.
LEMMA MasterKeeps ==
  ASSUME ActionsInv,
         \/ Evt!openMaster \/ Evt!next \/ Evt!back
         \/ \E f \in {"all", "available"}, g \in {"by-module", "no"} : Evt!setActionsData(f, g)
         \/ \E a \in Actions : Evt!onSelectAction(a)
         \/ \E es \in SUBSET Events : Evt!MarkEvents(es) \/ Evt!MarkSelected(es)
         \/ \E e \in Events : Evt!selectEvents(e) \/ Evt!unselectEvent(e)
  PROVE  PageOK(ui') /\ store' = store
<1>0. PageOK(ui) /\ ui \in Page /\ ModuleOK(store.module)
  BY DEF ActionsInv, PageOK
<1>1. CASE Evt!openMaster
  <2> DEFINE u == [ui EXCEPT !.kind = "master", !.stray = Evt!LeftOver]
  <2>1. ui' = Evt!setEventsData(u, Evt!LOG_TO_DB) /\ store' = store
    BY <1>1 DEF Evt!openMaster
  <2>2. Evt!LeftOver \in BOOLEAN /\ (~Evt!LeftOver => ui.marked = {} /\ ui.markedSelected = {})
    BY <1>0 DEF Evt!LeftOver, Page
  <2>3. u \in Page /\ u.kind = "master" /\ u.stray = Evt!LeftOver
        /\ u.marked = ui.marked /\ u.markedSelected = ui.markedSelected
    BY <1>0, <2>2 DEF Page
  <2> HIDE DEF u
  <2> QED
    BY <2>1, <2>2, <2>3, FirstPage, SetEventsKeeps
<1>2. CASE Evt!next
  <2> DEFINE u == [ui EXCEPT !.step = 2, !.stray = @ \/ ui.marked # {}]
  <2>1. ui' = Evt!setSelectedEvents(u) /\ store' = store /\ ui.kind = "master"
    BY <1>2 DEF Evt!next
  <2>2. /\ u \in Page /\ u.kind = "master" /\ u.action = ui.action /\ (~u.stray => ~ui.stray)
        /\ u.available = ui.available /\ u.assigned = ui.assigned
        /\ u.marked = ui.marked /\ u.markedSelected = ui.markedSelected
    BY <1>0, <2>1 DEF Page
  <2> HIDE DEF u
  <2>3. PageOK(u)
    BY <1>0, <2>1, <2>2 DEF PageOK, ListsFit
  <2> QED
    BY <1>0, <2>1, <2>2, <2>3, SelectedKeeps
<1>3. CASE Evt!back
  <2>1. PICK marked \in {ui.marked, {}}, selected \in {ui.markedSelected, {}} :
          ui' = [ui EXCEPT !.step = 1, !.marked = marked, !.markedSelected = selected]
    BY <1>3 DEF Evt!back
  <2>2. marked \in SUBSET Places /\ selected \in SUBSET Places
        /\ marked \subseteq ui.marked /\ selected \subseteq ui.markedSelected /\ ui.kind = "master" /\ store' = store
    BY <1>0, <1>3, <2>1 DEF Page, Evt!back
  <2>3. /\ ui' \in Page /\ ui'.kind = "master" /\ ui'.action = ui.action /\ ui'.stray = ui.stray
        /\ ui'.available = ui.available /\ ui'.assigned = ui.assigned
        /\ ui'.marked = marked /\ ui'.markedSelected = selected
    BY <1>0, <2>1, <2>2 DEF Page
  <2> QED
    BY <1>0, <2>2, <2>3 DEF PageOK, ListsFit
<1>4. ASSUME NEW f \in {"all", "available"}, NEW g \in {"by-module", "no"}, Evt!setActionsData(f, g)
      PROVE  PageOK(ui') /\ store' = store
  <2>1. PICK first \in Evt!ActionNodes(f) : ui' = [ui EXCEPT !.action = first, !.stray = @ \/ first # ui.action]
    BY <1>4 DEF Evt!setActionsData
  <2>2. first \in Actions /\ ui.kind = "master" /\ store' = store
    BY <1>4, <2>1 DEF Evt!ActionNodes, Evt!Actions, Actions, Evt!setActionsData
  <2>3. /\ ui' \in Page /\ ui'.kind = "master" /\ (~ui'.stray => ~ui.stray /\ ui'.action = ui.action)
        /\ ui'.available = ui.available /\ ui'.assigned = ui.assigned
        /\ ui'.marked = ui.marked /\ ui'.markedSelected = ui.markedSelected
    BY <1>0, <2>1, <2>2 DEF Page
  <2> QED
    BY <1>0, <2>2, <2>3 DEF PageOK, ListsFit
<1>5. ASSUME NEW a \in Actions, Evt!onSelectAction(a)
      PROVE  PageOK(ui') /\ store' = store
  <2> DEFINE u == [ui EXCEPT !.stray = Evt!LeftOver]
  <2>1. ui' = Evt!setEventsData(u, a) /\ store' = store /\ ui.kind = "master"
    BY <1>5 DEF Evt!onSelectAction
  <2>2. Evt!LeftOver \in BOOLEAN /\ (~Evt!LeftOver => ui.marked = {} /\ ui.markedSelected = {})
    BY <1>0 DEF Evt!LeftOver, Page
  <2>3. u \in Page /\ u.kind = "master" /\ u.stray = Evt!LeftOver
        /\ u.marked = ui.marked /\ u.markedSelected = ui.markedSelected
    BY <1>0, <2>1, <2>2 DEF Page
  <2> HIDE DEF u
  <2> QED
    BY <2>1, <2>2, <2>3, SetEventsKeeps
<1>6. ASSUME NEW es \in SUBSET Events, Evt!MarkEvents(es)
      PROVE  PageOK(ui') /\ store' = store
  <2>1. /\ ui' = [ui EXCEPT !.marked = es, !.stray = @ \/ ~(es \subseteq ui.available)]
        /\ ui.kind = "master" /\ store' = store /\ es \in SUBSET Places
    BY <1>6 DEF Evt!MarkEvents, Places
  <2>2. /\ ui' \in Page /\ ui'.kind = "master" /\ (~ui'.stray => ~ui.stray /\ es \subseteq ui.available)
        /\ ui'.action = ui.action /\ ui'.available = ui.available /\ ui'.assigned = ui.assigned
        /\ ui'.marked = es /\ ui'.markedSelected = ui.markedSelected
    BY <1>0, <2>1 DEF Page
  <2> QED
    BY <1>0, <2>1, <2>2 DEF PageOK, ListsFit
<1>7. ASSUME NEW es \in SUBSET Events, Evt!MarkSelected(es)
      PROVE  PageOK(ui') /\ store' = store
  <2>1. /\ ui' = [ui EXCEPT !.markedSelected = es] /\ es \subseteq ui.assigned
        /\ ui.kind = "master" /\ store' = store /\ es \in SUBSET Places
    BY <1>7 DEF Evt!MarkSelected, Places
  <2>2. /\ ui' \in Page /\ ui'.kind = "master" /\ ui'.stray = ui.stray
        /\ ui'.action = ui.action /\ ui'.available = ui.available /\ ui'.assigned = ui.assigned
        /\ ui'.marked = ui.marked /\ ui'.markedSelected = es
    BY <1>0, <2>1 DEF Page
  <2> QED
    BY <1>0, <2>1, <2>2 DEF PageOK, ListsFit
<1>8. ASSUME NEW e \in Events, Evt!selectEvents(e)
      PROVE  PageOK(ui') /\ store' = store
  <2>1. ui' = Evt!Move(ui, ui.marked \cup {e}) /\ e \in ui.available /\ ui.kind = "master" /\ store' = store
    BY <1>8 DEF Evt!selectEvents
  <2>2. ui.marked \cup {e} \in SUBSET Places
    BY <1>0 DEF Page, Places
  <2>3. ~ui.stray => \A x \in ui.marked \cup {e} : x = 0 \/ Fit(ui.action, x)
    BY <1>0, <2>1 DEF PageOK, ListsFit
  <2> QED
    BY <1>0, <2>1, <2>2, <2>3, MoveKeeps
<1>9. ASSUME NEW e \in Events, Evt!unselectEvent(e)
      PROVE  PageOK(ui') /\ store' = store
  <2> DEFINE moving == ui.markedSelected \cup {e}
             u == [ui EXCEPT !.assigned = @ \ moving, !.available = @ \cup moving, !.markedSelected = {}]
  <2>1. ui' = Evt!MarkFirst(u) /\ e \in ui.assigned /\ ui.kind = "master" /\ store' = store
    BY <1>9 DEF Evt!unselectEvent
  <2>2. moving \in SUBSET Places
    BY <1>0 DEF Page, Places
  <2>3. ~ui.stray => \A x \in moving : x = 0 \/ Fit(ui.action, x)
    BY <1>0, <2>1 DEF PageOK, ListsFit
  <2> HIDE DEF moving
  <2>4. /\ u \in Page /\ u.kind = "master" /\ u.stray = ui.stray
        /\ u.action = ui.action /\ u.available = ui.available \cup moving /\ u.assigned = ui.assigned \ moving
        /\ u.marked = ui.marked /\ u.markedSelected = {}
    BY <1>0, <2>1, <2>2 DEF Page
  <2> HIDE DEF u
  <2>5. PageOK(u)
    BY <1>0, <2>1, <2>3, <2>4 DEF PageOK, ListsFit
  <2> QED
    BY <2>1, <2>5, MarkFirstKeeps
<1> QED
  BY <1>1, <1>2, <1>3, <1>4, <1>5, <1>6, <1>7, <1>8, <1>9

\* The configuration c has actions of the page's module and, in some events, a.
Assigned(c, a, es) ==
  /\ c \in [Events -> Lists] /\ \A e \in Events : Once(c[e])
  /\ \A e \in Events : \A i \in DOMAIN c[e] :
        (c[e][i] = a /\ e \in es) \/ \E j \in DOMAIN store.module.config[e] : store.module.config[e][j] = c[e][i]

\* What the first dialog saves of such a module.
LEMMA MasterSaves ==
  ASSUME ActionsInv, NEW a \in Actions, NEW es, NEW c, Assigned(c, a, es),
         ~ui.stray => \A e \in es \cap Events : Fit(a, e),
         NEW m \in Saved, m.config = c, store.module.deps \subseteq m.deps,
         (\E e \in es \cap Events : TRUE) => ModuleOf[a] \in m.deps,
         Evt!Emit("master", Evt!clearDynamicDependencies(m))
  PROVE  StoreInv'
<1> DEFINE r == Evt!clearDynamicDependencies(m)
           old == store.module
<1>0. StoreInv /\ ModuleOK(old) /\ ui.stray \in BOOLEAN
  BY DEF ActionsInv, StoreInv, PageOK, Page
<1>00. /\ \A e \in Events : Once(c[e])
       /\ \A e \in Events : \A i \in DOMAIN c[e] :
            (c[e][i] = a /\ e \in es) \/ \E j \in DOMAIN old.config[e] : old.config[e][j] = c[e][i]
  BY DEF Assigned
<1>1. old.deps = UsedIn(old) /\ FitIn(old)
  BY <1>0 DEF ModuleOK
<1> HIDE DEF old
<1>2. UsedIn(m) \subseteq m.deps
  <2>1. CASE \E e \in es \cap Events : TRUE
    <3>1. \A e \in Events : \A i \in DOMAIN c[e] :
            c[e][i] = a \/ \E j \in DOMAIN old.config[e] : old.config[e][j] = c[e][i]
      BY <1>00
    <3>2. PICK d : d = old.config
      OBVIOUS
    <3>3. ComesFrom(c, d, a)
      BY <3>1, <3>2 DEF ComesFrom
    <3>4. Evt!UsedModules(c) \subseteq Evt!UsedModules(d) \cup {ModuleOf[a]}
      BY <3>3, UsedGrows
    <3> QED
      BY <1>1, <2>1, <3>2, <3>4 DEF UsedIn, old
  <2>2. CASE ~ \E e \in es \cap Events : TRUE
    <3>1. \A e \in Events : \A i \in DOMAIN c[e] :
            \E j \in DOMAIN old.config[e] : old.config[e][j] = c[e][i]
      BY <1>00, <2>2
    <3>2. Evt!UsedModules(c) \subseteq Evt!UsedModules(old.config)
      <4> SUFFICES ASSUME NEW x \in Evt!UsedModules(c) PROVE x \in Evt!UsedModules(old.config)
        OBVIOUS
      <4>1. PICK e \in Events : \E i \in DOMAIN c[e] : c[e][i] \in Actions /\ x = ModuleOf[c[e][i]]
        BY UsedIs
      <4> QED
        BY <3>1, <4>1, UsedIs
    <3> QED
      BY <1>1, <3>2 DEF UsedIn, old
  <2> QED
    BY <2>1, <2>2
<1>3. r \in Saved /\ r.config = c /\ r.deps = UsedIn(r)
  BY <1>2, ClearIs
<1>4. ~ui.stray => FitIn(r)
  <2> SUFFICES ASSUME ~ui.stray, NEW e \in Events, NEW i \in DOMAIN c[e] PROVE Fit(c[e][i], e)
    BY <1>3 DEF FitIn, AllFit
  <2>1. CASE c[e][i] = a /\ e \in es
    BY <2>1
  <2>2. CASE \E j \in DOMAIN old.config[e] : old.config[e][j] = c[e][i]
    BY <1>1, <2>2 DEF FitIn, AllFit
  <2> QED
    BY <1>00, <2>1, <2>2
<1>5. OnceIn(r)
  BY <1>00, <1>3 DEF OnceIn
<1> HIDE DEF r
<1> QED
  BY <1>0, <1>3, <1>4, <1>5, EmitKeeps DEF r

\* The saves of the first dialog.
LEMMA MasterEmits ==
  ASSUME ActionsInv, Evt!saveMaster \/ Evt!assignToAvailableEvents \/ Evt!removeFromAllEvents
  PROVE  StoreInv' /\ PageOK(ui')
<1> DEFINE old == store.module
           a == ui.action
<1>0. PageOK(ui) /\ ModuleOK(old) /\ a \in Actions
  BY DEF ActionsInv, PageOK, Page
<1>1. old \in Saved /\ old.config \in [Events -> Lists] /\ \A e \in Events : Once(old.config[e])
  BY <1>0 DEF ModuleOK, Saved, OnceIn
<1>2. ui.kind = "master" /\ Evt!close
  BY DEF Evt!saveMaster, Evt!assignToAvailableEvents, Evt!removeFromAllEvents
<1>3. PageOK(ui')
  BY <1>0, <1>2, CloseKeeps
<1>4. ModuleOf[a] \in {ModuleOf[b] : b \in Actions}
  BY <1>0
<1>5. ASSUME NEW c \in [Events -> Lists], NEW n, n = [old EXCEPT !.config = c]
      PROVE  /\ n \in Saved /\ n.config = c /\ n.deps = old.deps
             /\ Evt!AddDependency(n, a) \in Saved /\ Evt!AddDependency(n, a).config = c
             /\ Evt!AddDependency(n, a).deps = old.deps \cup {ModuleOf[a]}
  BY <1>1, <1>4, <1>5 DEF Saved, Evt!AddDependency
<1>6. 0 \notin Events
  BY ActionParameters
<1>7. CASE Evt!saveMaster
  <2>1. PICK d : d = Evt!Without(old.config, a)
    OBVIOUS
  <2>2. PICK c : c = Evt!With(d, a, ui.assigned)
    OBVIOUS
  <2>3. PICK n : n = [old EXCEPT !.config = c]
    OBVIOUS
  <2>4. ui.assigned \subseteq Events /\ Evt!Emit("master", Evt!clearDynamicDependencies(Evt!AddDependency(n, a)))
    BY <1>7, <2>1, <2>2, <2>3 DEF Evt!saveMaster
  <2>5. /\ d \in [Events -> Lists] /\ \A e \in Events : Once(d[e])
        /\ \A e \in Events : \A i \in DOMAIN d[e] : \E j \in DOMAIN old.config[e] : old.config[e][j] = d[e][i]
    BY <1>1, <2>1, WithoutIs
  <2>6. /\ c \in [Events -> Lists] /\ \A e \in Events : Once(c[e])
        /\ \A e \in Events : \A i \in DOMAIN c[e] :
              (c[e][i] = a /\ e \in ui.assigned) \/ \E j \in DOMAIN d[e] : d[e][j] = c[e][i]
    BY <1>0, <2>2, <2>5, WithIs
  <2>7. Assigned(c, a, ui.assigned)
    BY <2>5, <2>6 DEF Assigned
  <2>8. ~ui.stray => \A e \in ui.assigned \cap Events : Fit(a, e)
    BY <1>0, <1>2, <1>6 DEF PageOK, ListsFit
  <2>9. PICK m : m = Evt!AddDependency(n, a)
    OBVIOUS
  <2>10. m \in Saved /\ m.config = c /\ m.deps = old.deps \cup {ModuleOf[a]}
    BY <1>5, <2>3, <2>6, <2>9
  <2>11. old.deps \subseteq m.deps /\ ModuleOf[a] \in m.deps
    BY <2>10
  <2> QED
    BY <1>0, <1>3, <2>4, <2>7, <2>8, <2>9, <2>10, <2>11, MasterSaves
<1>8. CASE Evt!assignToAvailableEvents
  <2>2. PICK c : c = Evt!With(old.config, a, ui.available)
    OBVIOUS
  <2>3. PICK n : n = [old EXCEPT !.config = c]
    OBVIOUS
  <2>4. ui.available \subseteq Events /\ Evt!Emit("master", Evt!clearDynamicDependencies(Evt!AddDependency(n, a)))
    BY <1>8, <2>2, <2>3 DEF Evt!assignToAvailableEvents
  <2>6. /\ c \in [Events -> Lists] /\ \A e \in Events : Once(c[e])
        /\ \A e \in Events : \A i \in DOMAIN c[e] :
              (c[e][i] = a /\ e \in ui.available) \/ \E j \in DOMAIN old.config[e] : old.config[e][j] = c[e][i]
    BY <1>0, <1>1, <2>2, WithIs
  <2>7. Assigned(c, a, ui.available)
    BY <2>6 DEF Assigned
  <2>8. ~ui.stray => \A e \in ui.available \cap Events : Fit(a, e)
    BY <1>0, <1>2, <1>6 DEF PageOK, ListsFit
  <2>9. PICK m : m = Evt!AddDependency(n, a)
    OBVIOUS
  <2>10. m \in Saved /\ m.config = c /\ m.deps = old.deps \cup {ModuleOf[a]}
    BY <1>5, <2>3, <2>6, <2>9
  <2>11. old.deps \subseteq m.deps /\ ModuleOf[a] \in m.deps
    BY <2>10
  <2> QED
    BY <1>0, <1>3, <2>4, <2>7, <2>8, <2>9, <2>10, <2>11, MasterSaves
<1>9. CASE Evt!removeFromAllEvents
  <2>1. PICK c : c = Evt!Without(old.config, a)
    OBVIOUS
  <2>2. PICK m : m = [old EXCEPT !.config = c]
    OBVIOUS
  <2>3. Evt!Emit("master", Evt!clearDynamicDependencies(m))
    BY <1>9, <2>1, <2>2 DEF Evt!removeFromAllEvents
  <2>4. /\ c \in [Events -> Lists] /\ \A e \in Events : Once(c[e])
        /\ \A e \in Events : \A i \in DOMAIN c[e] : \E j \in DOMAIN old.config[e] : old.config[e][j] = c[e][i]
    BY <1>1, <2>1, WithoutIs
  <2>5. m \in Saved /\ m.config = c /\ m.deps = old.deps
    BY <1>5, <2>2, <2>4
  <2>6. Assigned(c, a, {})
    BY <2>4 DEF Assigned
  <2>7. /\ ~ui.stray => \A e \in {} \cap Events : Fit(a, e)
        /\ (\E e \in {} \cap Events : TRUE) => ModuleOf[a] \in m.deps
        /\ old.deps \subseteq m.deps
    BY <2>5
  <2> QED
    BY <1>0, <1>3, <2>3, <2>5, <2>6, <2>7, MasterSaves
<1> QED
  BY <1>7, <1>8, <1>9

\* The steps of the second dialog, and the end of either.
LEMMA EventKeeps ==
  ASSUME ActionsInv,
         \/ Evt!cancel \/ Evt!resetToDefault
         \/ \E e \in Events : Evt!openEvent(e)
         \/ \E a \in Actions : Evt!changeSelected(a)
  PROVE  PageOK(ui') /\ store' = store
<1>0. PageOK(ui) /\ ui \in Page /\ ModuleOK(store.module)
  BY DEF ActionsInv, PageOK
<1>1. CASE Evt!cancel
  <2>1. CASE ui.kind = "master"
    BY <1>0, <1>1, <2>1, CloseKeeps DEF Evt!cancel
  <2>2. CASE ui.kind # "master"
    <3>1. ui' = [ui EXCEPT !.kind = "none"] /\ store' = store
      BY <1>1, <2>2 DEF Evt!cancel
    <3>2. ui' \in Page /\ ui'.kind = "none"
      BY <1>0, <3>1 DEF Page
    <3> QED
      BY <3>1, <3>2 DEF PageOK
  <2> QED
    BY <2>1, <2>2
<1>2. ASSUME NEW list \in Lists, NEW e \in Events, Once(list), AllFit(list, e),
             ui' = [ui EXCEPT !.kind = "event", !.event = e, !.selected = list]
      PROVE  PageOK(ui')
  <2>1. ui' \in Page /\ ui'.kind = "event" /\ ui'.event = e /\ ui'.selected = list
    BY <1>0, <1>2 DEF Page, Places
  <2> QED
    BY <1>2, <2>1 DEF PageOK
<1>3. ASSUME NEW list \in Lists, Once(list), AllFit(list, ui.event), ui.kind = "event",
             ui' = [ui EXCEPT !.selected = list]
      PROVE  PageOK(ui')
  <2>1. ui' \in Page /\ ui'.kind = "event" /\ ui'.event = ui.event /\ ui'.selected = list
    BY <1>0, <1>3 DEF Page, Places
  <2> QED
    BY <1>0, <1>3, <2>1 DEF PageOK
<1>4. CASE Evt!resetToDefault
  <2>1. ui.kind = "event" /\ ui' = [ui EXCEPT !.selected = DefaultActions[ui.event]] /\ store' = store
    BY <1>4 DEF Evt!resetToDefault
  <2>2. ui.event \in Events
    BY <1>0, <2>1 DEF PageOK
  <2>3. PICK list : list = DefaultActions[ui.event]
    OBVIOUS
  <2>4. list \in Lists /\ Once(list) /\ AllFit(list, ui.event)
    BY <2>2, <2>3, ActionParameters
  <2> QED
    BY <1>3, <2>1, <2>3, <2>4
<1>5. ASSUME NEW e \in Events, Evt!openEvent(e)
      PROVE  PageOK(ui') /\ store' = store
  <2>1. PICK list : list = store.module.config[e]
    OBVIOUS
  <2>2. ui' = [ui EXCEPT !.kind = "event", !.event = e, !.selected = list] /\ store' = store
    BY <1>5, <2>1 DEF Evt!openEvent
  <2>3. list \in Lists /\ Once(list) /\ AllFit(list, e)
    BY <1>0, <2>1 DEF ModuleOK, Saved, OnceIn, FitIn
  <2> QED
    BY <1>2, <2>2, <2>3
<1>6. ASSUME NEW a \in Actions, Evt!changeSelected(a)
      PROVE  PageOK(ui') /\ store' = store
  <2>1. ui.kind = "event" /\ Fit(a, ui.event) /\ store' = store
    BY <1>6 DEF Evt!changeSelected, Evt!Tickable, Fit
  <2>2. PICK old : old = ui.selected
    OBVIOUS
  <2>3. old \in Lists /\ Once(old) /\ AllFit(old, ui.event)
    BY <1>0, <2>1, <2>2 DEF PageOK, Page
  <2>4. CASE a \in Evt!ToSet(old)
    <3>1. PICK list : list = Evt!Erase(old, a)
      OBVIOUS
    <3>2. ui' = [ui EXCEPT !.selected = list]
      BY <1>6, <2>2, <2>4, <3>1 DEF Evt!changeSelected
    <3>3. list \in Lists /\ KeptUpTo(old, list, a, Len(old)) /\ DOMAIN old = 1 .. Len(old)
      BY <2>3, <3>1, EraseIs DEF Lists
    <3>4. Once(list) /\ AllFit(list, ui.event)
      BY <2>3, <3>3 DEF KeptUpTo, AllFit
    <3> QED
      BY <1>3, <2>1, <3>2, <3>3, <3>4
  <2>5. CASE a \notin Evt!ToSet(old)
    <3>1. PICK list : list = Append(old, a)
      OBVIOUS
    <3>2. ui' = [ui EXCEPT !.selected = list]
      BY <1>6, <2>2, <2>5, <3>1 DEF Evt!changeSelected
    <3>3. \A i \in DOMAIN old : old[i] # a
      BY <2>5 DEF Evt!ToSet
    <3>4. /\ list \in Lists /\ Once(list)
          /\ \A i \in DOMAIN list : list[i] = a \/ \E j \in DOMAIN old : old[j] = list[i]
      BY <2>3, <3>1, <3>3, AppendOnce
    <3>5. AllFit(list, ui.event)
      BY <2>1, <2>3, <3>4 DEF AllFit
    <3> QED
      BY <1>3, <2>1, <3>2, <3>4, <3>5
  <2> QED
    BY <2>4, <2>5
<1> QED
  BY <1>1, <1>4, <1>5, <1>6

\* The save of the second dialog.
LEMMA EventEmits ==
  ASSUME ActionsInv, Evt!saveEvent
  PROVE  StoreInv' /\ PageOK(ui')
<1>0. PageOK(ui) /\ ui \in Page /\ ModuleOK(store.module) /\ StoreInv /\ ui.stray \in BOOLEAN
  BY DEF ActionsInv, StoreInv, PageOK, Page
<1>1. PICK old : old = store.module
  OBVIOUS
<1>2. PICK e : e = ui.event
  OBVIOUS
<1>3. PICK list : list = ui.selected
  OBVIOUS
<1>4. PICK n : n = [old EXCEPT !.config[e] = list]
  OBVIOUS
<1>5. PICK m : m = Evt!updateDynamicDependencies(n, Evt!ToSet(list))
  OBVIOUS
<1>6. PICK r : r = Evt!clearDynamicDependencies(m)
  OBVIOUS
<1>7. ui.kind = "event" /\ Evt!Emit("event", r) /\ ui' = [ui EXCEPT !.kind = "none"]
  BY <1>1, <1>2, <1>3, <1>4, <1>5, <1>6 DEF Evt!saveEvent
<1>8. e \in Events /\ list \in Lists /\ Once(list) /\ AllFit(list, e) /\ ModuleOK(old)
  BY <1>0, <1>1, <1>2, <1>3, <1>7 DEF PageOK, Page
<1>9. /\ n \in Saved /\ OnceIn(n) /\ n.deps = old.deps /\ FitIn(n)
      /\ n.config = [old.config EXCEPT ![e] = list]
  <2>1. n \in Saved /\ OnceIn(n)
    BY ONLY <1>4, <1>8, PutList
  <2>2. old \in Saved
    BY ONLY <1>8 DEF ModuleOK
  <2>3. n.deps = old.deps /\ n.config = [old.config EXCEPT ![e] = list]
    BY ONLY <1>4, <2>2 DEF Saved
  <2>4. AllFit(list, e) => FitIn(n)
    BY ONLY <1>4, <1>8, PutList
  <2> QED
    BY ONLY <1>8, <2>1, <2>3, <2>4
<1>10. /\ m \in Saved /\ m.config = n.config
       /\ m.deps = n.deps \cup {ModuleOf[a] : a \in {b \in Evt!ToSet(list) : b # Evt!LOG_TO_DB}}
  <2>1. Evt!ToSet(list) \subseteq Actions
    BY <1>8 DEF Evt!ToSet, Lists
  <2> HIDE DEF Evt!ToSet
  <2> QED
    BY <1>5, <1>9, <2>1 DEF Evt!updateDynamicDependencies, Saved
<1>11. UsedIn(m) \subseteq m.deps
  <2>1. SUFFICES ASSUME NEW x \in Evt!UsedModules(m.config), x # "this" PROVE x \in m.deps
    BY DEF UsedIn
  <2>2. PICK f \in Events : \E i \in DOMAIN m.config[f] : m.config[f][i] \in Actions /\ x = ModuleOf[m.config[f][i]]
    BY <2>1, UsedIs
  <2>3. PICK i \in DOMAIN m.config[f] : m.config[f][i] \in Actions /\ x = ModuleOf[m.config[f][i]]
    BY <2>2
  <2>4. old.config \in [Events -> Lists] /\ old.deps = UsedIn(old)
    BY <1>8 DEF ModuleOK, Saved
  <2>5. CASE f = e
    <3>1. m.config[f] = list
      BY <1>9, <1>10, <2>4, <2>5
    <3>2. list[i] \in Evt!ToSet(list)
      BY <2>3, <3>1 DEF Evt!ToSet
    <3>3. ModuleOf[Evt!LOG_TO_DB] = "this"
      BY ActionParameters DEF Evt!LOG_TO_DB, Evt!Actions, Evt!THIS_MODULE_NAME, Actions
    <3>4. list[i] # Evt!LOG_TO_DB
      BY <2>1, <2>3, <3>1, <3>3
    <3> QED
      BY <1>10, <2>3, <3>1, <3>2, <3>4
  <2>6. CASE f # e
    <3>1. m.config[f] = old.config[f]
      BY <1>9, <1>10, <2>4, <2>6
    <3>2. x \in Evt!UsedModules(old.config)
      BY <2>3, <3>1, UsedIs
    <3> QED
      BY <1>9, <1>10, <2>1, <2>4, <3>2 DEF UsedIn
  <2> QED
    BY <2>5, <2>6
<1>12. r \in Saved /\ r.config = n.config /\ r.deps = UsedIn(r)
  BY <1>6, <1>10, <1>11, ClearIs
<1>13. OnceIn(r) /\ FitIn(r)
  BY <1>9, <1>12 DEF OnceIn, FitIn
<1>14. StoreInv'
  BY <1>0, <1>7, <1>12, <1>13, EmitKeeps
<1>15. ui' \in Page /\ ui'.kind = "none"
  BY <1>0, <1>7 DEF Page
<1> QED
  BY <1>14, <1>15 DEF PageOK

\* The resets, which leave the dependencies alone.
LEMMA ResetEmits ==
  ASSUME ActionsInv, NEW e \in Events, Evt!resetEvent(e) \/ Evt!saveDetails(e)
  PROVE  StoreInv' /\ ui' = ui
<1>0. ModuleOK(store.module) /\ StoreInv /\ ui.stray \in BOOLEAN
  BY DEF ActionsInv, StoreInv, PageOK, Page
<1>1. PICK by \in {"reset", "details"}, list \in {store.module.config[e], DefaultActions[e]} :
        Evt!Emit(by, [store.module EXCEPT !.config[e] = list]) /\ ui' = ui
  <2>1. CASE Evt!resetEvent(e)
    BY <2>1 DEF Evt!resetEvent
  <2>2. CASE Evt!saveDetails(e)
    BY <2>2 DEF Evt!saveDetails
  <2> QED
    BY <2>1, <2>2
<1>2. list \in Lists /\ Once(list)
  BY <1>0, <1>1, ActionParameters DEF ModuleOK, Saved, OnceIn
<1>3. PICK m : m = [store.module EXCEPT !.config[e] = list]
  OBVIOUS
<1>4. m \in Saved /\ OnceIn(m)
  BY <1>0, <1>2, <1>3, PutList
<1> QED
  BY <1>0, <1>1, <1>3, <1>4, EmitKeeps

----------------------------------------------------------------------------
\* Every step keeps the invariant.
LEMMA ActionsNext ==
  ASSUME ActionsInv, [Evt!Next]_<<store, ui, ops>>
  PROVE  ActionsInv'
<1>0. ActionsInv <=> StoreInv /\ PageOK(ui)
  BY DEF ActionsInv, StoreInv
<1>1. ActionsInv' <=> StoreInv' /\ PageOK(ui')
  BY DEF ActionsInv, StoreInv
<1>2. store' = store => StoreInv'
  BY <1>0 DEF StoreInv
<1>3. CASE \/ Evt!openMaster \/ Evt!next \/ Evt!back
           \/ \E f \in {"all", "available"}, g \in {"by-module", "no"} : Evt!setActionsData(f, g)
           \/ \E a \in Actions : Evt!onSelectAction(a)
           \/ \E es \in SUBSET Events : Evt!MarkEvents(es) \/ Evt!MarkSelected(es)
           \/ \E e \in Events : Evt!selectEvents(e) \/ Evt!unselectEvent(e)
  BY <1>1, <1>2, <1>3, MasterKeeps
<1>4. CASE Evt!saveMaster \/ Evt!assignToAvailableEvents \/ Evt!removeFromAllEvents
  BY <1>1, <1>4, MasterEmits
<1>5. CASE \/ Evt!cancel \/ Evt!resetToDefault
           \/ \E e \in Events : Evt!openEvent(e)
           \/ \E a \in Actions : Evt!changeSelected(a)
  BY <1>1, <1>2, <1>5, EventKeeps
<1>6. CASE Evt!saveEvent
  BY <1>1, <1>6, EventEmits
<1>7. CASE \E e \in Events : Evt!resetEvent(e) \/ Evt!saveDetails(e)
  BY <1>0, <1>1, <1>7, ResetEmits
<1>8. CASE Evt!Answer
  <2>1. ui' = ui
    BY <1>8 DEF Evt!Answer
  <2> QED
    BY <1>0, <1>1, <1>8, <2>1, AnswerKeeps
<1>9. CASE UNCHANGED <<store, ui, ops>>
  BY <1>0, <1>1, <1>2, <1>9
<1> QED
  BY <1>3, <1>4, <1>5, <1>6, <1>7, <1>8, <1>9 DEF Evt!Next, Evt!Actions, Actions

\* The module comes with the dependencies of its actions.
LEMMA ActionsInit ==
  ASSUME Evt!Init
  PROVE  ActionsInv
<1> DEFINE m == [config |-> FirstActions, deps |-> Evt!UsedModules(FirstActions) \ {"this"}]
<1>1. store = [module |-> m, pending |-> <<>>] /\ ui = Evt!NoDialog
  BY DEF Evt!Init, Evt!THIS_MODULE_NAME
<1>2. /\ FirstActions \in [Events -> Lists]
      /\ \A e \in Events : Once(FirstActions[e]) /\ AllFit(FirstActions[e], e)
  BY ActionParameters
<1>3. Evt!UsedModules(FirstActions) \subseteq {ModuleOf[a] : a \in Actions}
  BY DEF Evt!UsedModules, Evt!Actions, Actions
<1>4. m \in Saved /\ ModuleOK(m)
  BY <1>2, <1>3 DEF Saved, ModuleOK, OnceIn, FitIn, UsedIn
<1> HIDE DEF m
<1>5. store \in [module : Saved, pending : Seq(Save)] /\ store.module = m /\ DOMAIN store.pending = {}
  BY <1>1, <1>4
<1> QED
  BY <1>1, <1>4, <1>5, FirstPage DEF ActionsInv

\* What is saved is what the server accepts.
LEMMA ActionsMean ==
  ASSUME ActionsInv
  PROVE  Evt!DependenciesKept /\ Evt!ActionOnce /\ Evt!FieldsServed
<1>1. ASSUME NEW s \in Evt!Emitted
      PROVE  SaveOK(s) /\ s.m.config \in [Events -> Lists]
  <2>1. PICK i \in DOMAIN store.pending : s = store.pending[i]
    BY <1>1 DEF Evt!Emitted
  <2>2. store.pending \in Seq(Save)
    BY DEF ActionsInv
  <2>3. SaveOK(s)
    BY <2>1 DEF ActionsInv
  <2>4. s \in Save
    BY <2>1, <2>2
  <2>5. s.m \in Saved
    BY <2>4 DEF Save
  <2> QED
    BY <2>3, <2>5 DEF Saved
<1>2. Evt!DependenciesKept
  BY <1>1 DEF Evt!DependenciesKept, Evt!DependenciesValid, SaveOK, UsedIn, Evt!THIS_MODULE_NAME
<1>3. Evt!ActionOnce
  BY <1>1 DEF Evt!ActionOnce, SaveOK, OnceIn, Once
<1>4. Evt!FieldsServed
  BY <1>1 DEF Evt!FieldsServed, Evt!FieldsValid, SaveOK, FitIn, AllFit, Fit, Evt!Has
<1> QED
  BY <1>2, <1>3, <1>4

----------------------------------------------------------------------------
(***************************************************************************)
(* The web client, of which a behaviour follows one part.                  *)
(***************************************************************************)
DialogsInv == (part = "links" => LinksInv) /\ (part = "actions" => ActionsInv)

\* For any groups, policies and modules, events and actions: the database keeps
\* the policies of every group apart, and the module on the page, the saves
\* under way and the lists of the open dialog are in order.
THEOREM DialogsInductive == Spec => []DialogsInv
<1>1. Init => DialogsInv
  BY LinksInit, ActionsInit DEF Init, NoStore, NoSections, DialogsInv
<1>2. DialogsInv /\ [Next]_vars => DialogsInv'
  <2> SUFFICES ASSUME DialogsInv, [Next]_vars PROVE DialogsInv'
    OBVIOUS
  <2>1. part' = part
    BY DEF Next, vars
  <2>2. CASE part = "links"
    <3>1. [Lnk!Next]_<<store, ui, ops>>
      BY <2>2 DEF Next, vars
    <3>2. LinksInv'
      BY <2>2, <3>1, LinksNext DEF DialogsInv
    <3> QED
      BY <2>1, <2>2, <3>2 DEF DialogsInv
  <2>3. CASE part = "actions"
    <3>1. [Evt!Next]_<<store, ui, ops>>
      BY <2>3 DEF Next, vars
    <3>2. ActionsInv'
      BY <2>3, <3>1, ActionsNext DEF DialogsInv
    <3> QED
      BY <2>1, <2>3, <3>2 DEF DialogsInv
  <2>4. CASE part # "links" /\ part # "actions"
    BY <2>1, <2>4 DEF DialogsInv
  <2> QED
    BY <2>2, <2>3, <2>4
<1> QED
  BY <1>1, <1>2, PTL DEF Spec

\* The server accepts what the dialogs save and what the pages offer
\* (checkModuleEvents, makeGroupPolicyAction): no save with dependencies too
\* many or too few, with an action twice or without its fields, and both pages
\* offer exactly the links that the server's count allows.
THEOREM WebServerAccepts == Spec => []ServerAccepts
<1>1. DialogsInv => ServerAccepts
  BY LinksMean, ActionsMean DEF DialogsInv, ServerAccepts
<1> QED
  BY <1>1, DialogsInductive, PTL
=============================================================================
