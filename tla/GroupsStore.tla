---------------------------- MODULE GroupsStore ----------------------------
(***************************************************************************)
(* The groups of the web client: the store of libs/store/groups (reducer,  *)
(* effects, facade) driven by the list page and the page of one group of   *)
(* libs/features/groups.                                                   *)
(*                                                                         *)
(* The list page has a grid of groups and shows the selected one beside    *)
(* it; the page of a group has grids of its agents, policies and events.   *)
(* A group is its number, which stands for id and hash.                    *)
(***************************************************************************)
EXTENDS StoreKit

CONSTANTS Groups,        \* groups the pages know
          NewGroup,      \* the group that create and copy make
          Searches,      \* strings of the search fields; 0 is the empty one
          Tags,          \* values of the filter "tags"
          Slices,        \* bound: sets of effects a behaviour follows, see StoreKit
          MaxOps         \* bound: operations of the user

VARIABLES store,         \* the store, see StoreKit
          ui,            \* the page on the screen, and the hash of its route
          ops            \* history: operations so far

vars == <<store, ui, ops>>

Subs     == {"agents", "policies", "events"}     \* the grids of a group's page
Items    == [agents |-> "agentItems", policies |-> "policyItems", events |-> "eventItems"]
Commands == {"create", "update", "copy", "delete", "link", "unlink",
             "upgrade", "cancelUpgrade", "agentData"}
Reported == {"create", "update", "copy", "delete", "link", "unlink"}  \* with an error member
Effects  == Subs \cup Range(Items) \cup Commands \cup {"groups", "group", "items", "filtration"}

(***************************************************************************)
(* The reducer.                                                            *)
(***************************************************************************)
InitialState ==
    [grid |-> [k \in Subs \cup {"groups"} |-> EmptyGrid], group |-> None,
     items |-> [k \in Subs \cup {"groups"} |-> None],
     createdGroup |-> None, selectedIds |-> {}, restored |-> FALSE,
     busy |-> {}, errors |-> {}]

\* The members of State that the model keeps.
StateOK(s) ==
    /\ s.group \in Groups \cup {None, NewGroup} /\ s.createdGroup \in {None, NewGroup}
    /\ s.selectedIds \subseteq Groups /\ s.restored \in BOOLEAN
    /\ s.busy \subseteq Effects /\ s.errors \subseteq Reported
    /\ \A k \in DOMAIN s.grid :
         /\ s.grid[k].search \in Searches /\ s.grid[k].sort \in {0, 1}
         /\ DOMAIN s.grid[k].filters \subseteq {"tags"} /\ s.grid[k].page \in Nat
         /\ \A i \in DOMAIN s.grid[k].rows : s.grid[k].rows[i].of \in Groups \cup {None, NewGroup}

reduceGroupsPage(s, step, req, empty) == ReducePage(s, "groups", step, req, empty)

reduceAgents(s, step, req, empty)   == ReducePage(s, "agents", step, req, empty)
reduceEvents(s, step, req, empty)   == ReducePage(s, "events", step, req, empty)
reducePolicies(s, step, req, empty) == ReducePage(s, "policies", step, req, empty)

reduceSub(s, k, step, req, empty) ==
    CASE k = "agents"   -> reduceAgents(s, step, req, empty)
      [] k = "events"   -> reduceEvents(s, step, req, empty)
      [] k = "policies" -> reducePolicies(s, step, req, empty)

\* The group and its modules come together.
reduceGroup(s, step, req) ==
    LET t == ReduceFlag(s, "group", step)
    IN IF step = "success" THEN [t EXCEPT !.group = req.of] ELSE t

reduceFilterItems(s, step, req) == ReduceItems(s, "groups", "items", step, req)

reduceAgentFilterItems(s, step, req)  == ReduceItems(s, "agents", "agentItems", step, req)
reduceEventFilterItems(s, step, req)  == ReduceItems(s, "events", "eventItems", step, req)
reducePolicyFilterItems(s, step, req) == ReduceItems(s, "policies", "policyItems", step, req)

reduceSubItems(s, k, step, req) ==
    CASE k = "agents"   -> reduceAgentFilterItems(s, step, req)
      [] k = "events"   -> reduceEventFilterItems(s, step, req)
      [] k = "policies" -> reducePolicyFilterItems(s, step, req)

\* create and copy also leave the new group; a failure takes it away.
reduceCommand(s, c, step) ==
    LET t == ReduceCommand(s, c, step)
    IN IF c \in {"create", "copy"} /\ step # "start"
       THEN [t EXCEPT !.createdGroup = IF step = "success" THEN NewGroup ELSE None] ELSE t

\* mutant: a failed upgrade leaves an error that no page shows
reduceUpgradeReported(s, c, step) == ReduceCommand(s, c, step)

reduceUpgrade(s, c, step) == ReduceFlag(s, c, step)

reduceAgentData(s, step)   == ReduceFlag(s, "agentData", step)

reduceAgentsGrid(s, grid)   == [s EXCEPT !.grid["agents"] = grid]
reduceEventsGrid(s, grid)   == [s EXCEPT !.grid["events"] = grid]
reducePoliciesGrid(s, grid) == [s EXCEPT !.grid["policies"] = grid]
reduceGroupsGrid(s, grid)   == [s EXCEPT !.grid["groups"] = grid]

selectGroups(s, ids) == [s EXCEPT !.selectedIds = ids]
restoreState(s, query) == [s EXCEPT !.restored = TRUE, !.grid["groups"].search = query.search,
                                    !.grid["groups"].filters = query.filters,
                                    !.grid["groups"].sort = query.sort]
resetCreatedGroup(s) == [s EXCEPT !.createdGroup = None]
resetGroupErrors(s)  == [s EXCEPT !.errors = {}]

(***************************************************************************)
(* The effects.  An operator named after an action dispatches it: the      *)
(* reducer's case, then what the effects that listen to it do.             *)
(***************************************************************************)
\* debounceTime: a later page replaces one that waits.
fetchGroupsPage(x, page) ==
    Debounce(x, reduceGroupsPage(x.st, "start", None, FALSE), "groups", page)

\* The timer has run out: the query is the one of this moment.
selectInitialListQuery(s) == Query(s.grid["groups"])

SendGroupsPage(x) ==
    Sent(x, "groups", [page |-> x.timer["groups"][1], query |-> selectInitialListQuery(x.st),
                       of |-> None])

fetchGroup(x, hash) ==
    Request(x, reduceGroup(x.st, "start", None), "group", [of |-> hash])

\* fetchGroupAgents, fetchGroupEvents, fetchGroupPolicies: at once, with the
\* query of the grid; switchMap drops the request on its way.
FetchSub(x, s, k, id, page) ==
    Request(x, s, k, [page |-> page, query |-> Query(x.st.grid[k]), of |-> id])

fetchGroupAgents(x, id, page)   == FetchSub(x, reduceAgents(x.st, "start", None, FALSE), "agents", id, page)
fetchGroupEvents(x, id, page)   == FetchSub(x, reduceEvents(x.st, "start", None, FALSE), "events", id, page)
fetchGroupPolicies(x, id, page) == FetchSub(x, reducePolicies(x.st, "start", None, FALSE), "policies", id, page)

fetchSub(x, k, id, page) ==
    CASE k = "agents"   -> fetchGroupAgents(x, id, page)
      [] k = "events"   -> fetchGroupEvents(x, id, page)
      [] k = "policies" -> fetchGroupPolicies(x, id, page)

fetchFilterItems(x) ==
    Request(x, reduceFilterItems(x.st, "start", None), "items", [of |-> None])

FetchItems(x, k) ==
    Request(x, reduceSubItems(x.st, k, "start", None), Items[k],
            [of |-> x.st.group])

fetchAgentFilterItems(x)  == FetchItems(x, "agents")
fetchPolicyFilterItems(x) == FetchItems(x, "policies")
fetchEventFilterItems(x)  == FetchItems(x, "events")

fetchSubItems(x, k) ==
    CASE k = "agents"   -> fetchAgentFilterItems(x)
      [] k = "events"   -> fetchEventFilterItems(x)
      [] k = "policies" -> fetchPolicyFilterItems(x)

\* A change of a group's grid asks for its first page, of the group in the
\* store, and, for a filter, for the items of the filters.
ChangeSub(x, k, grid, filtered) ==
    LET s == CASE k = "agents"   -> reduceAgentsGrid(x.st, grid)
               [] k = "events"   -> reduceEventsGrid(x.st, grid)
               [] k = "policies" -> reducePoliciesGrid(x.st, grid)
        y == fetchSub(Reduced(x, s), k, x.st.group, 1)
    IN IF filtered THEN fetchSubItems(y, k) ELSE y

\* setAgentsGridFiltrationByTag and setPoliciesGridFiltrationByTag are on the
\* list of setGridFiltration$: what is fetched is the page of groups.
ChangeSubByTag(x, k, tag) ==
    LET s == [x.st EXCEPT !.grid[k].filters = getGridFiltrationByTag(@, tag)]
    IN Excuse(Debounce(Reduced(x, s), s, "filtration", None), k)

\* A change of the list's grid; a search, a sorting and a reset also set the
\* page to 1.  The page is fetched when the user has stopped changing.
ChangeGrid(x, grid) ==
    Debounce(x, reduceGroupsGrid(x.st, grid), "filtration", None)

SendFiltration(x) ==
    fetchFilterItems(fetchGroupsPage([x EXCEPT !.timer["filtration"] = <<>>], 1))

startCommand(x, c, id) ==
    LET s == CASE c \in Reported                     -> reduceCommand(x.st, c, "start")
               [] c \in {"upgrade", "cancelUpgrade"} -> reduceUpgrade(x.st, c, "start")
               [] c = "agentData"                    -> reduceAgentData(x.st, "start")
    IN Request(x, s, c, [of |-> id, redirect |-> c = "copy" /\ ui.page = "card"])

\* A deletion that succeeds asks for the first page again.
answerCommand(x, c, step) ==
    LET s == CASE c \in Reported                     -> reduceCommand(x.st, c, step)
               [] c \in {"upgrade", "cancelUpgrade"} -> reduceUpgrade(x.st, c, step)
               [] c = "agentData"                    -> reduceAgentData(x.st, step)
        y == Done(x, c, s)
    IN IF c = "delete" /\ step = "success" THEN fetchGroupsPage(y, 1) ELSE y

(***************************************************************************)
(* The pages.                                                              *)
(***************************************************************************)
\* The page of a group follows the group in the store.
OnGroup(x) ==
    LET id == x.st.group
        a == fetchGroupEvents(fetchGroupPolicies(fetchGroupAgents(x, id, 1), id, 1), id, 1)
    IN fetchEventFilterItems(fetchPolicyFilterItems(fetchAgentFilterItems(a)))

\* A dialog is done, or isLinkingGroup or isUnlinkingGroup went to false.
OnChanged(x, page, hash) ==
    CASE page = "list" -> fetchGroupsPage(x, 1)
      [] page = "card" -> fetchGroup(x, hash)
      [] OTHER         -> x

Nowhere    == [page |-> "none", hash |-> None]
List       == [page |-> "list", hash |-> None]
Card(hash) == [page |-> "card", hash |-> hash]
NoQuery    == Query(EmptyGrid)

\* ngOnDestroy resets the store first and stops listening afterwards, so that
\* a link on its way makes the page fetch once more.
Leave(x) ==
    LET y == Reduced(x, InitialState)
    IN IF x.st.busy \cap {"link", "unlink"} # {} THEN OnChanged(y, ui.page, ui.hash) ELSE y

EnterCard(x, hash) ==
    LET y == fetchGroup(fetchGroup(x, hash), hash)
    IN IF y.st.group # None THEN OnGroup(y) ELSE y

\* From one group to another the page stays and only its route changes.
Goto(x, hash) ==
    CASE ui.page = "card" -> fetchGroup(x, hash)
      [] ui.page = "list" -> EnterCard(Leave(x), hash)
      [] OTHER            -> EnterCard(x, hash)

EnterList(x, query) == fetchGroupsPage(Reduced(x, restoreState(x.st, query)), 1)

Do(x, u) == store' = x /\ ui' = u
User(x)  == ops < MaxOps /\ ops' = ops + 1 /\ Do(x, ui)

Queries == {[search |-> v, filters |-> NoFilters, sort |-> 0] : v \in Searches}

\* The user goes to the list, to a group, or elsewhere.
OpenList ==
    /\ ops < MaxOps /\ ops' = ops + 1 /\ ui.page # "list"
    /\ \E q \in Queries :
         Do(EnterList(IF ui.page = "none" THEN store ELSE Leave(store), q),
            List)

OpenCard ==
    /\ ops < MaxOps /\ ops' = ops + 1
    /\ \E h \in Groups \ {ui.hash} : Do(Goto(store, h), Card(h))

ClosePage ==
    /\ ops < MaxOps /\ ops' = ops + 1 /\ ui.page # "none"
    /\ Do(Leave(store), Nowhere)

\* The grid has seen new rows after a group was created: the page opens it.
RefreshSelected ==
    /\ ui.page = "list" /\ store.st.createdGroup # None
    /\ Do(EnterCard(Leave(Reduced(store, resetCreatedGroup(store.st))), NewGroup),
          Card(NewGroup))
    /\ UNCHANGED ops

\* What the grid of the list can do.
ListGrid ==
    /\ ui.page = "list" /\ Follows(store, "filtration")
    /\ \/ \E v \in Searches : User(ChangeGrid(store, [store.st.grid["groups"] EXCEPT !.search = v, !.page = 1]))
       \/ \E v \in {0, 1} : User(ChangeGrid(store, [store.st.grid["groups"] EXCEPT !.sort = v, !.page = 1]))
       \/ \E t \in SUBSET Tags :
            User(ChangeGrid(store, [store.st.grid["groups"] EXCEPT !.filters = getGridFiltration(@, "tags", t)]))
       \/ \E t \in Tags :
            User(ChangeGrid(store, [store.st.grid["groups"] EXCEPT !.filters = getGridFiltrationByTag(@, t)]))
       \/ User(ChangeGrid(store, [store.st.grid["groups"] EXCEPT !.filters = NoFilters, !.page = 1]))

ListNextPage ==
    /\ ui.page = "list" /\ store.st.grid["groups"].rows # <<>> /\ Follows(store, "groups")
    /\ User(NextPage(store, fetchGroupsPage(store, store.st.grid["groups"].page + 1), "groups",
                     Pending(store, "filtration")))

RefreshData ==
    /\ ui.page # "none"
    /\ User(IF ui.page = "list" THEN fetchGroupsPage(store, 1) ELSE fetchGroup(store, ui.hash))

\* Rows of the list are selected; one alone is fetched.
OnGridSelectRows ==
    /\ ui.page = "list" /\ Follows(store, "group")
    /\ \E ids \in SUBSET Groups :
         LET x == Reduced(store, selectGroups(resetGroupErrors(store.st), ids))
         IN User(IF Cardinality(ids) = 1 THEN fetchGroup(x, CHOOSE h \in ids : TRUE) ELSE x)

\* What the grids of a group's page can do; they are there with the group.
CardGrid ==
    /\ ui.page = "card" /\ store.st.group # None
    /\ \E k \in {k \in Subs : Follows(store, k)} :
         \/ \E v \in Searches : User(ChangeSub(store, k, [store.st.grid[k] EXCEPT !.search = v], FALSE))
         \/ \E v \in {0, 1} : User(ChangeSub(store, k, [store.st.grid[k] EXCEPT !.sort = v], FALSE))
         \/ \E t \in SUBSET Tags :
              User(ChangeSub(store, k,
                    [store.st.grid[k] EXCEPT !.filters = getGridFiltration(@, "tags", t)], TRUE))
         \/ User(ChangeSub(store, k, [store.st.grid[k] EXCEPT !.filters = NoFilters], TRUE))
         \/ \E t \in Tags : k # "events" /\ User(ChangeSubByTag(store, k, t))
         \/ User(fetchSub(store, k, store.st.group, 1))

CardNextPage ==
    /\ ui.page = "card" /\ store.st.group # None
    /\ \E k \in Subs :
         /\ store.st.grid[k].rows # <<>>
         /\ User(NextPage(store, fetchSub(store, k, store.st.group, store.st.grid[k].page + 1), k, FALSE))

\* The dialogs of the pages: a command on the group of the page, or on one
\* that is selected in the list; a running command of its kind disables it.
Chosen == IF ui.page = "card" THEN {store.st.group} \ {None} ELSE store.st.selectedIds

Command(c, ids) ==
    /\ ui.page # "none" /\ Follows(store, c) /\ c \notin store.st.busy
    /\ \E id \in ids : User(startCommand(store, c, id))

SaveGroup ==
    \/ ui.page = "list" /\ Command("create", {None})
    \/ \E c \in {"update", "copy"} : Command(c, Chosen)

DeleteGroup == Command("delete", Chosen)

LinkGroup == \E c \in {"link", "unlink"} : Command(c, Chosen)

UpgradeAgents ==
    ui.page = "card" /\ \E c \in {"upgrade", "cancelUpgrade", "agentData"} : Command(c, Chosen)

(***************************************************************************)
(* Timers and answers.                                                     *)
(***************************************************************************)
Tick ==
    /\ \/ Waiting(store, "groups") /\ Do(SendGroupsPage(store), ui)
       \/ Waiting(store, "filtration") /\ Do(SendFiltration(store), ui)
    /\ UNCHANGED ops

AnswerGroupsPage(ok, empty) ==
    /\ UnderWay(store, "groups")
    /\ Do(PageAnswered(store, "groups",
                       reduceGroupsPage(store.st, Outcome(ok), store.http["groups"][1], empty), ok), ui)
    /\ UNCHANGED ops

AnswerGroup(ok) ==
    /\ UnderWay(store, "group")
    /\ LET x == Done(store, "group", reduceGroup(store.st, Outcome(ok), store.http["group"][1]))
       IN Do(CASE ~ok                       -> Excuse(x, "group")
               [] ok /\ ui.page = "card"    -> OnGroup(Settle(x, "group"))
               [] OTHER                     -> Settle(x, "group"), ui)
    /\ UNCHANGED ops

AnswerSub(k, ok, empty) ==
    /\ UnderWay(store, k)
    /\ Do(PageAnswered(store, k, reduceSub(store.st, k, Outcome(ok), store.http[k][1], empty), ok), ui)
    /\ UNCHANGED ops

AnswerItems(e, ok) ==
    /\ UnderWay(store, e)
    /\ LET req  == store.http[e][1]
           step == Outcome(ok)
           s    == IF e = "items" THEN reduceFilterItems(store.st, step, req)
                   ELSE reduceSubItems(store.st, CHOOSE k \in Subs : Items[k] = e, step, req)
           x    == Done(store, e, s)
       IN Do(IF ok THEN Settle(x, e) ELSE Excuse(x, e), ui)
    /\ UNCHANGED ops

\* The dialog that started a command closes when it sees the flag go; after a
\* reset there is nothing to see.  It listens to the flag before the error, so
\* that a command that failed is first taken for one that succeeded: the page
\* is refreshed, and a group whose deletion failed is left all the same.
OnSaved(x, c) ==
    IF c \in {"create", "update"} \/ (c = "copy" /\ ui.page = "list") THEN OnChanged(x, ui.page, ui.hash) ELSE x

OnDeleted(x) ==
    IF ui.page = "card" THEN Do(EnterList(Leave(x), NoQuery), List) ELSE Do(x, ui)

OnLinked(x, c) == IF c \in {"link", "unlink"} THEN OnChanged(x, ui.page, ui.hash) ELSE x

AnswerCommand(c, ok) ==
    /\ UnderWay(store, c)
    /\ LET x    == answerCommand(store, c, Outcome(ok))
           seen == c \in store.st.busy
           y    == IF seen THEN OnLinked(OnSaved(x, c), c) ELSE x
       IN CASE c = "copy" /\ ok /\ store.http[c][1].redirect -> Do(Goto(y, NewGroup), Card(NewGroup))
            [] c = "delete" /\ seen                          -> OnDeleted(x)
            [] OTHER                                         -> Do(y, ui)
    /\ UNCHANGED ops

Answer ==
    \E ok \in BOOLEAN :
        \/ \E empty \in BOOLEAN : AnswerGroupsPage(ok, empty) \/ \E k \in Subs : AnswerSub(k, ok, empty)
        \/ AnswerGroup(ok)
        \/ \E e \in Range(Items) \cup {"items"} : AnswerItems(e, ok)
        \/ \E c \in Commands : AnswerCommand(c, ok)

Init ==
    /\ \E slice \in Slices : store = NewStore(InitialState, slice)
    /\ ui = Nowhere /\ ops = 0

Next ==
    \/ OpenList \/ OpenCard \/ ClosePage \/ RefreshSelected
    \/ ListGrid \/ ListNextPage \/ RefreshData \/ OnGridSelectRows
    \/ CardGrid \/ CardNextPage \/ SaveGroup \/ DeleteGroup \/ LinkGroup \/ UpgradeAgents
    \/ Tick \/ Answer

Spec == Init /\ [][Next]_vars

----------------------------------------------------------------------------
TypeOK == StateOK(store.st) /\ ops \in 0..MaxOps

\* Once nothing is under way, the list holds the pages of its query, in order,
\* unless a request failed or the next page overtook another request.
ListSettled ==
    (ui.page = "list" /\ Quiet(store) /\ "groups" \notin store.log)
        => Answers(store.st.grid["groups"], None)

\* Once nothing is under way, the group beside the list is the selected one.
SelectionSettled ==
    (ui.page = "list" /\ Quiet(store) /\ Follows(store, "group") /\ "group" \notin store.log)
        => \A id \in store.st.selectedIds : store.st.selectedIds = {id} => store.st.group = id

\* Once nothing is under way, the page of a group shows that group and its
\* own agents, policies and events, whatever groups came before and however
\* late their answers were.
CardSettled ==
    (ui.page = "card" /\ Quiet(store) /\ Follows(store, "group") /\ "group" \notin store.log)
        => /\ store.st.group = ui.hash
           /\ \A k \in Subs : Follows(store, k) /\ k \notin store.log => Answers(store.st.grid[k], ui.hash)
           /\ \A k \in Subs : Follows(store, Items[k]) /\ Items[k] \notin store.log => store.st.items[k] = ui.hash

\* A flag that shows a spinner or disables a button goes with a request.
BusyPending ==
    \A f \in store.st.busy : Pending(store, f)
=============================================================================
