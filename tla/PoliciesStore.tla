--------------------------- MODULE PoliciesStore ---------------------------
(***************************************************************************)
(* The policies of the web client: the store of libs/store/policies driven *)
(* by the list page and the page of one policy of libs/features/policies.  *)
(*                                                                         *)
(* The list is narrowed by a filter or by a group, one of which is always  *)
(* selected, and shows the modules of the selected policy beside it; the   *)
(* page of a policy has grids of its agents, groups and events.  A policy  *)
(* is its number, which stands for id and hash; its modules are the number *)
(* of the policy they were loaded for.                                     *)
(***************************************************************************)
EXTENDS StoreKit

CONSTANTS Policies,      \* policies the pages know
          NewPolicy,     \* the policy that create and copy make
          FilterIds,     \* filters of the list; 1 is all_policies
          GroupIds,      \* groups the list can be narrowed to
          Searches,      \* strings of the search fields; 0 is the empty one
          Tags,          \* values of the filter "tags"
          Slices,        \* bound: sets of effects a behaviour follows, see StoreKit
          MaxOps         \* bound: operations of the user

VARIABLES store,         \* the store, see StoreKit
          ui,            \* the page on the screen, the hash of its route, its
                         \* query parameters; whether all groups are loaded
          ops            \* history: operations so far

vars == <<store, ui, ops>>

AllPolicies == 1
Subs     == {"agents", "groups", "events"}       \* the grids of a policy's page
Items    == [agents |-> "agentItems", groups |-> "groupItems", events |-> "eventItems"]
Commands == {"create", "update", "copy", "delete", "link", "unlink",
             "upgrade", "cancelUpgrade", "agentData"}
Reported == {"create", "update", "copy", "delete", "link", "unlink"}  \* with an error member
Effects  == Subs \cup Range(Items) \cup Commands
                \cup {"policies", "policy", "modules", "items", "counters"}

(***************************************************************************)
(* The reducer.                                                            *)
(***************************************************************************)
InitialState ==
    [grid |-> [k \in Subs \cup {"policies"} |-> EmptyGrid], policy |-> None, modules |-> None,
     items |-> [k \in Subs \cup {"policies"} |-> None],
     selectedFilterId |-> None, selectedGroupId |-> None, initialized |-> FALSE,
     createdPolicy |-> None, selectedIds |-> {}, restored |-> FALSE,
     busy |-> {}, errors |-> {}]

\* The members of State that the model keeps.
StateOK(s) ==
    /\ {s.policy, s.modules} \subseteq Policies \cup {None, NewPolicy}
    /\ s.createdPolicy \in {None, NewPolicy} /\ s.selectedIds \subseteq Policies \cup {NewPolicy}
    /\ s.selectedFilterId \in FilterIds \cup {None} /\ s.selectedGroupId \in GroupIds \cup {None}
    /\ s.restored \in BOOLEAN /\ s.initialized \in BOOLEAN
    /\ s.busy \subseteq Effects /\ s.errors \subseteq Reported
    /\ \A k \in DOMAIN s.grid : s.grid[k].search \in Searches /\ s.grid[k].page \in Nat

updateFilters(s) == [s EXCEPT !.initialized = TRUE]

reducePoliciesPage(s, step, req, empty) == ReducePage(s, "policies", step, req, empty)

reducePolicy(s, step, req) ==
    LET t == ReduceFlag(s, "policy", step)
    IN IF step = "success" THEN [t EXCEPT !.policy = req.of] ELSE t

reduceFilterItems(s, step, req)      == ReduceItems(s, "policies", "items", step, req)
reduceAgentFilterItems(s, step, req) == ReduceItems(s, "agents", "agentItems", step, req)
reduceEventFilterItems(s, step, req) == ReduceItems(s, "events", "eventItems", step, req)

\* Success and failure clear isLoadingGroupsFilterItems, a member of another
\* name: the flag that was raised stays.
reduceGroupFilterItems(s, step, req) ==
    CASE step = "start"   -> Flag(s, "groupItems")
      [] step = "success" -> [s EXCEPT !.items["groups"] = req.of]
      [] step = "failure" -> s

\* mutant: a failure does not clear the flag
reduceModulesSpin(s, step, req) ==
    CASE step = "start"   -> Flag(s, "modules")
      [] step = "success" -> [Unflag(s, "modules") EXCEPT !.modules = req.of]
      [] step = "failure" -> s

reduceModules(s, step, req) ==
    LET t == ReduceFlag(s, "modules", step)
    IN IF step = "success" THEN [t EXCEPT !.modules = req.of] ELSE t

reduceEvents(s, step, req, empty) == ReducePage(s, "events", step, req, empty)
reduceAgents(s, step, req, empty) == ReducePage(s, "agents", step, req, empty)
reduceGroups(s, step, req, empty) == ReducePage(s, "groups", step, req, empty)
reduceEventsGrid(s, grid)    == [s EXCEPT !.grid["events"] = grid]
reduceAgentsGrid(s, grid)    == [s EXCEPT !.grid["agents"] = grid]
reduceGroupsGrid(s, grid)    == [s EXCEPT !.grid["groups"] = grid]
reduceAgentData(s, step)          == ReduceFlag(s, "agentData", step)

\* create and copy also leave the new policy; a failure takes it away.
reduceCommand(s, c, step) ==
    LET t == ReduceCommand(s, c, step)
    IN IF c \in {"create", "copy"} /\ step # "start"
       THEN [t EXCEPT !.createdPolicy = IF step = "success" THEN NewPolicy ELSE None] ELSE t

\* A filter and a group exclude each other; both start the grid afresh.
selectFilter(s, id) ==
    [s EXCEPT !.selectedFilterId = id, !.selectedGroupId = None,
              !.grid["policies"].filters = NoFilters, !.grid["policies"].search = 0]

selectGroup(s, id) ==
    [s EXCEPT !.selectedGroupId = id, !.selectedFilterId = None,
              !.grid["policies"].filters = NoFilters, !.grid["policies"].search = 0]

reducePoliciesGrid(s, grid) == [s EXCEPT !.grid["policies"] = grid]
reduceUpgrade(s, c, step)        == ReduceFlag(s, c, step)
selectPolicies(s, ids)           == [s EXCEPT !.selectedIds = ids]
reduceRestore(s, search)         == [s EXCEPT !.restored = TRUE, !.grid["policies"].search = search]
resetCreatedPolicy(s)            == [s EXCEPT !.createdPolicy = None]
resetPolicyErrors(s)             == [s EXCEPT !.errors = {}]

(***************************************************************************)
(* The effects.                                                            *)
(***************************************************************************)
\* What the list asks for: the filter or the group, and the grid.
Scope(s) == <<s.selectedFilterId, s.selectedGroupId>>

selectInitialListQuery(s, page) ==
    [page |-> page, query |-> Query(s.grid["policies"]), of |-> Scope(s)]

\* No reducer case, and no catchError.
fetchCountersByFilters(x) == Debounce(x, x.st, "counters", None)

fetchPoliciesPage(x, page) ==
    Debounce(x, reducePoliciesPage(x.st, "start", None, FALSE), "policies", page)

fetchFilterItems(x) == Debounce(x, reduceFilterItems(x.st, "start", None), "items", None)

fetchPolicyModules(x, hash) ==
    Debounce(x, reduceModules(x.st, "start", None), "modules", hash)

\* updatePolicyModules$: the modules of a policy are fetched with it.
fetchPolicy(x, hash) ==
    fetchPolicyModules(Request(x, reducePolicy(x.st, "start", None), "policy", [of |-> hash]), hash)

SendCounters(x)     == Sent(x, "counters", None)
SendPoliciesPage(x) == Sent(x, "policies", selectInitialListQuery(x.st, x.timer["policies"][1]))
SendFilterItems(x)  == Sent(x, "items", [of |-> None])
SendModules(x)      == Sent(x, "modules", [of |-> x.timer["modules"][1]])

\* mutant: exhaustMap, the rows of a policy are not fetched while another's are
FetchSubExhaust(x, s, k, id, page) ==
    IF UnderWay(x, k) THEN x
    ELSE Request(x, s, k, [page |-> page, query |-> Query(x.st.grid[k]), of |-> id])

FetchSub(x, s, k, id, page) ==
    Request(x, s, k, [page |-> page, query |-> Query(x.st.grid[k]), of |-> id])

fetchPolicyEvents(x, id, page) == FetchSub(x, reduceEvents(x.st, "start", None, FALSE), "events", id, page)
fetchPolicyAgents(x, id, page) == FetchSub(x, reduceAgents(x.st, "start", None, FALSE), "agents", id, page)
fetchPolicyGroups(x, id, page) == FetchSub(x, reduceGroups(x.st, "start", None, FALSE), "groups", id, page)

fetchSub(x, k, id, page) ==
    CASE k = "agents" -> fetchPolicyAgents(x, id, page)
      [] k = "events" -> fetchPolicyEvents(x, id, page)
      [] k = "groups" -> fetchPolicyGroups(x, id, page)

fetchAgentFilterItems(x) ==
    Request(x, reduceAgentFilterItems(x.st, "start", None), "agentItems", [of |-> x.st.policy])
fetchEventFilterItems(x) ==
    Request(x, reduceEventFilterItems(x.st, "start", None), "eventItems", [of |-> x.st.policy])
fetchGroupFilterItems(x) ==
    Request(x, reduceGroupFilterItems(x.st, "start", None), "groupItems", [of |-> x.st.policy])

fetchSubItems(x, k) ==
    CASE k = "agents" -> fetchAgentFilterItems(x)
      [] k = "events" -> fetchEventFilterItems(x)
      [] k = "groups" -> fetchGroupFilterItems(x)

ChangeAgents(x, grid) == fetchPolicyAgents(Reduced(x, reduceAgentsGrid(x.st, grid)), x.st.policy, 1)
ChangeEvents(x, grid) == fetchPolicyEvents(Reduced(x, reduceEventsGrid(x.st, grid)), x.st.policy, 1)
ChangeGroups(x, grid) == fetchPolicyGroups(Reduced(x, reduceGroupsGrid(x.st, grid)), x.st.policy, 1)

\* A change of a policy's grid asks for its first page, of the policy in the
\* store, and, for a filter, for the items of the filters.
ChangeSub(x, k, grid, filtered) ==
    LET y == CASE k = "agents" -> ChangeAgents(x, grid)
               [] k = "events" -> ChangeEvents(x, grid)
               [] k = "groups" -> ChangeGroups(x, grid)
    IN IF filtered THEN fetchSubItems(y, k) ELSE y

\* setGridFiltration$: whatever narrows the list asks for its first page.
OnNarrowed(x, s) == fetchFilterItems(fetchPoliciesPage(Reduced(x, s), 1))

\* setAgentsGridFiltrationByTag and setGroupsGridFiltrationByTag are on the
\* list of setGridFiltration$ too: what is fetched is the page of policies.
ChangeSubByTag(x, k, tag) ==
    Excuse(OnNarrowed(x, [x.st EXCEPT !.grid[k].filters = getGridFiltrationByTag(@, tag)]), k)

startCommand(x, c, id, redirect) ==
    LET s == CASE c \in Reported                     -> reduceCommand(x.st, c, "start")
               [] c \in {"upgrade", "cancelUpgrade"} -> reduceUpgrade(x.st, c, "start")
               [] c = "agentData"                    -> reduceAgentData(x.st, "start")
    IN Request(x, s, c, [of |-> id, redirect |-> redirect])

\* A policy that was created is selected; the counters follow creation, copy
\* and deletion.
answerCommand(x, c, step) ==
    LET s == CASE c \in Reported                     -> reduceCommand(x.st, c, step)
               [] c \in {"upgrade", "cancelUpgrade"} -> reduceUpgrade(x.st, c, step)
               [] c = "agentData"                    -> reduceAgentData(x.st, step)
        y == Done(x, c, s)
    IN CASE c = "create" /\ step = "success" ->
              fetchCountersByFilters(Reduced(y, selectPolicies(s, {NewPolicy})))
         [] c \in {"copy", "delete"} /\ step = "success" -> fetchCountersByFilters(y)
         [] OTHER -> y

(***************************************************************************)
(* The pages.                                                              *)
(***************************************************************************)
OnPolicy(x) ==
    LET id == x.st.policy
        a  == fetchPolicyGroups(fetchPolicyAgents(fetchPolicyEvents(x, id, 1), id, 1), id, 1)
    IN fetchGroupFilterItems(fetchEventFilterItems(fetchAgentFilterItems(a)))

\* isLinkingPolicy or isUnlinkingPolicy went to false.
OnLinked(x, page, hash) ==
    CASE page = "list" -> fetchCountersByFilters(fetchPoliciesPage(x, 1))
      [] page = "card" -> fetchPolicy(x, hash)
      [] OTHER         -> x

\* ngOnDestroy resets the store first and stops listening afterwards.
Leave(x) ==
    LET y == Reduced(x, InitialState)
    IN IF x.st.busy \cap {"link", "unlink"} # {} THEN OnLinked(y, ui.page, ui.hash) ELSE y

EnterCard(x, hash) ==
    LET y == fetchPolicyModules(fetchPolicy(x, hash), hash)
    IN IF y.st.policy # None THEN OnPolicy(y) ELSE y

\* From one policy to another the page stays and only its route changes.
Goto(x, hash) ==
    CASE ui.page = "card" -> fetchPolicy(x, hash)
      [] ui.page = "list" -> EnterCard(Leave(x), hash)
      [] OTHER            -> EnterCard(x, hash)

\* The query parameters say how the list was narrowed; the page is fetched
\* when the state is restored.
restoreState(x, params) ==
    LET a == IF params.group # None THEN OnNarrowed(x, selectGroup(x.st, params.group)) ELSE x
        b == IF params.filter # None THEN OnNarrowed(a, selectFilter(a.st, params.filter)) ELSE a
        c == IF params.group = None /\ params.filter = None
             THEN OnNarrowed(b, selectFilter(b.st, AllPolicies)) ELSE b
    IN fetchPoliciesPage(Reduced(c, reduceRestore(c.st, params.search)), 1)

\* The state is restored at once if all groups are loaded, later if not.
EnterList(x, params, known) ==
    LET y == fetchFilterItems(fetchCountersByFilters(Reduced(x, updateFilters(x.st))))
    IN IF known THEN restoreState(y, params) ELSE y

NoParams == [group |-> None, filter |-> None, search |-> 0]
Params   == {NoParams} \cup {[NoParams EXCEPT !.group = g, !.search = v] : g \in GroupIds, v \in Searches}

To(page, hash, params) == [page |-> page, hash |-> hash, params |-> params, known |-> ui.known]

Do(x, u) == store' = x /\ ui' = u
User(x)  == ops < MaxOps /\ ops' = ops + 1 /\ Do(x, ui)

OpenList ==
    /\ ops < MaxOps /\ ops' = ops + 1 /\ ui.page # "list"
    /\ \E p \in Params :
         Do(EnterList(IF ui.page = "none" THEN store ELSE Leave(store), p, ui.known),
            To("list", None, p))

\* The groups that the list's sidebar shows have been loaded.
GroupsInitialized ==
    /\ ~ui.known
    /\ Do(IF ui.page = "list" THEN restoreState(store, ui.params) ELSE store,
          [ui EXCEPT !.known = TRUE])
    /\ UNCHANGED ops

OpenCard ==
    /\ ops < MaxOps /\ ops' = ops + 1
    /\ \E h \in Policies \ {ui.hash} : Do(Goto(store, h), To("card", h, NoParams))

ClosePage ==
    /\ ops < MaxOps /\ ops' = ops + 1 /\ ui.page # "none"
    /\ Do(Leave(store), To("none", None, NoParams))

\* The grid has seen new rows after a policy was created: the page opens it.
RefreshSelected ==
    /\ ui.page = "list" /\ store.st.createdPolicy # None
    /\ Do(EnterCard(Leave(Reduced(store, resetCreatedPolicy(store.st))), NewPolicy),
          To("card", NewPolicy, NoParams))
    /\ UNCHANGED ops

\* The sidebar of the list.
OnSelectFilter ==
    /\ ui.page = "list" /\ Follows(store, "policies")
    /\ \E id \in FilterIds : User(fetchCountersByFilters(OnNarrowed(store, selectFilter(store.st, id))))

OnSelectGroup ==
    /\ ui.page = "list" /\ Follows(store, "policies")
    /\ \E id \in GroupIds : User(fetchCountersByFilters(OnNarrowed(store, selectGroup(store.st, id))))

\* What the grid of the list can do.
ListGrid ==
    LET Change(grid) == User(OnNarrowed(store, reducePoliciesGrid(store.st, grid)))
    IN /\ ui.page = "list" /\ Follows(store, "policies")
       /\ \/ \E v \in Searches : Change([store.st.grid["policies"] EXCEPT !.search = v, !.page = 1])
          \/ \E v \in {0, 1} : Change([store.st.grid["policies"] EXCEPT !.sort = v, !.page = 1])
          \/ \E t \in SUBSET Tags :
               Change([store.st.grid["policies"] EXCEPT !.filters = getGridFiltration(@, "tags", t)])
          \/ \E t \in Tags : Change([store.st.grid["policies"] EXCEPT !.filters = getGridFiltrationByTag(@, t)])
          \/ Change([store.st.grid["policies"] EXCEPT !.filters = NoFilters, !.page = 1])

ListNextPage ==
    /\ ui.page = "list" /\ store.st.grid["policies"].rows # <<>> /\ Follows(store, "policies")
    /\ User(NextPage(store, fetchPoliciesPage(store, store.st.grid["policies"].page + 1),
                     "policies", FALSE))

RefreshData ==
    /\ ui.page # "none"
    /\ User(IF ui.page = "list" THEN fetchPoliciesPage(store, 1) ELSE fetchPolicy(store, ui.hash))

\* Rows of the list are selected: the modules of the first, and of one alone
\* also the policy.
OnGridSelectRows ==
    /\ ui.page = "list" /\ Follows(store, "policy")
    /\ \E ids \in SUBSET Policies :
         LET x == Reduced(store, selectPolicies(resetPolicyErrors(store.st), ids))
             y == IF Cardinality(ids) = 1 THEN fetchPolicy(x, CHOOSE h \in ids : TRUE) ELSE x
         IN IF ids = {} THEN User(x) ELSE \E first \in ids : User(fetchPolicyModules(y, first))

\* What the grids of a policy's page can do; they are there with the policy.
CardGrid ==
    /\ ui.page = "card" /\ store.st.policy # None
    /\ \E k \in {k \in Subs : Follows(store, k)} :
         \/ \E v \in Searches : User(ChangeSub(store, k, [store.st.grid[k] EXCEPT !.search = v], FALSE))
         \/ \E v \in {0, 1} : User(ChangeSub(store, k, [store.st.grid[k] EXCEPT !.sort = v], FALSE))
         \/ \E t \in SUBSET Tags :
              User(ChangeSub(store, k,
                    [store.st.grid[k] EXCEPT !.filters = getGridFiltration(@, "tags", t)], TRUE))
         \/ User(ChangeSub(store, k, [store.st.grid[k] EXCEPT !.filters = NoFilters], TRUE))
         \/ \E t \in Tags : k # "events" /\ User(ChangeSubByTag(store, k, t))
         \/ User(fetchSub(store, k, store.st.policy, 1))

CardNextPage ==
    /\ ui.page = "card" /\ store.st.policy # None
    /\ \E k \in Subs :
         /\ store.st.grid[k].rows # <<>>
         /\ User(NextPage(store, fetchSub(store, k, store.st.policy, store.st.grid[k].page + 1), k, FALSE))

\* The tab of the modules: refresh.
RefreshModules ==
    /\ ui.page = "card" /\ Follows(store, "modules")
    /\ User(fetchPolicyModules(store, ui.hash))

\* The dialogs of the pages: a command on the policy of the page, or on one
\* that is selected in the list; a running command of its kind disables it.
Chosen == IF ui.page = "card" THEN {store.st.policy} \ {None} ELSE store.st.selectedIds \cap Policies

Command(c, ids) ==
    /\ ui.page # "none" /\ Follows(store, c) /\ c \notin store.st.busy
    /\ \E id \in ids : User(startCommand(store, c, id, c = "copy" /\ ui.page = "card"))

SavePolicy ==
    \/ ui.page = "list" /\ Command("create", {None})
    \/ \E c \in {"update", "copy"} : Command(c, Chosen)

DeletePolicy == Command("delete", Chosen)

LinkPolicy == \E c \in {"link", "unlink"} : Command(c, Chosen)

UpgradeAgents ==
    ui.page = "card" /\ \E c \in {"upgrade", "cancelUpgrade", "agentData"} : Command(c, Chosen)

(***************************************************************************)
(* Timers and answers.                                                     *)
(***************************************************************************)
Tick ==
    /\ \/ Waiting(store, "policies") /\ Do(SendPoliciesPage(store), ui)
       \/ Waiting(store, "items")    /\ Do(SendFilterItems(store), ui)
       \/ Waiting(store, "modules")  /\ Do(SendModules(store), ui)
       \/ Waiting(store, "counters") /\ Do(SendCounters(store), ui)
    /\ UNCHANGED ops

AnswerPoliciesPage(ok, empty) ==
    /\ UnderWay(store, "policies")
    /\ LET req == store.http["policies"][1]
           x   == PageAnswered(store, "policies",
                     reducePoliciesPage(store.st, Outcome(ok), req, empty), ok)
       \* a page of another filter or group does not make up for a lost one
       IN Do(IF ok /\ req.of # Scope(store.st) THEN [x EXCEPT !.log = store.log] ELSE x, ui)
    /\ UNCHANGED ops

AnswerPolicy(ok) ==
    /\ UnderWay(store, "policy")
    /\ LET x == Done(store, "policy", reducePolicy(store.st, Outcome(ok),
                                                   store.http["policy"][1]))
       IN Do(CASE ~ok                    -> Excuse(x, "policy")
               [] ok /\ ui.page = "card" -> OnPolicy(Settle(x, "policy"))
               [] OTHER                  -> Settle(x, "policy"), ui)
    /\ UNCHANGED ops

AnswerModules(ok) ==
    /\ UnderWay(store, "modules")
    /\ LET x == Done(store, "modules", reduceModules(store.st, Outcome(ok),
                                                     store.http["modules"][1]))
       IN Do(IF ok THEN Settle(x, "modules") ELSE Excuse(x, "modules"), ui)
    /\ UNCHANGED ops

AnswerSub(k, ok, empty) ==
    /\ UnderWay(store, k)
    /\ LET req == store.http[k][1]
           s   == CASE k = "agents" -> reduceAgents(store.st, Outcome(ok), req, empty)
                    [] k = "events" -> reduceEvents(store.st, Outcome(ok), req, empty)
                    [] k = "groups" -> reduceGroups(store.st, Outcome(ok), req, empty)
       IN Do(PageAnswered(store, k, s, ok), ui)
    /\ UNCHANGED ops

AnswerItems(e, ok) ==
    /\ UnderWay(store, e)
    /\ LET req  == store.http[e][1]
           step == Outcome(ok)
           s    == CASE e = "items"      -> reduceFilterItems(store.st, step, req)
                     [] e = "agentItems" -> reduceAgentFilterItems(store.st, step, req)
                     [] e = "eventItems" -> reduceEventFilterItems(store.st, step, req)
                     [] e = "groupItems" -> reduceGroupFilterItems(store.st, step, req)
           x    == Done(store, e, s)
       IN Do(IF ok THEN Settle(x, e) ELSE Excuse(x, e), ui)
    /\ UNCHANGED ops

AnswerCounters ==
    /\ UnderWay(store, "counters")
    /\ Do(Done(store, "counters", store.st), ui)
    /\ UNCHANGED ops

\* The dialog that started a command closes when it sees the flag go, before
\* it hears of an error: what failed is first taken for a success.
OnSaved(x, c) ==
    CASE c = "update" /\ ui.page = "card"                     -> fetchPolicy(x, ui.hash)
      [] c \in {"create", "update", "copy"} /\ ui.page = "list" -> fetchPoliciesPage(x, 1)
      [] OTHER                                                -> x

OnDeleted(x) ==
    IF ui.page = "card"
    THEN Do(EnterList(Leave(x), NoParams, ui.known), To("list", None, NoParams))
    ELSE Do(IF ui.page = "list" THEN fetchPoliciesPage(x, 1) ELSE x, ui)

AnswerCommand(c, ok) ==
    /\ UnderWay(store, c)
    /\ LET x    == answerCommand(store, c, Outcome(ok))
           seen == c \in store.st.busy
           y    == CASE ~seen                    -> x
                     [] c \in {"link", "unlink"} -> OnLinked(x, ui.page, ui.hash)
                     [] OTHER                    -> OnSaved(x, c)
       IN CASE c = "copy" /\ ok /\ store.http[c][1].redirect ->
                 Do(Goto(y, NewPolicy), To("card", NewPolicy, NoParams))
            [] c = "delete" /\ seen -> OnDeleted(x)
            [] OTHER -> Do(y, ui)
    /\ UNCHANGED ops

Answer ==
    \/ AnswerCounters
    \/ \E ok \in BOOLEAN :
         \/ \E empty \in BOOLEAN : AnswerPoliciesPage(ok, empty) \/ \E k \in Subs : AnswerSub(k, ok, empty)
         \/ AnswerPolicy(ok) \/ AnswerModules(ok)
         \/ \E e \in Range(Items) \cup {"items"} : AnswerItems(e, ok)
         \/ \E c \in Commands : AnswerCommand(c, ok)

Init ==
    /\ \E slice \in Slices : store = NewStore(InitialState, slice)
    /\ \E known \in BOOLEAN :
         ui = [page |-> "none", hash |-> None, params |-> NoParams, known |-> known]
    /\ ops = 0

Next ==
    \/ OpenList \/ GroupsInitialized \/ OpenCard \/ ClosePage \/ RefreshSelected
    \/ OnSelectFilter \/ OnSelectGroup \/ ListGrid \/ ListNextPage \/ RefreshData
    \/ OnGridSelectRows \/ CardGrid \/ CardNextPage \/ RefreshModules
    \/ SavePolicy \/ DeletePolicy \/ LinkPolicy \/ UpgradeAgents
    \/ Tick \/ Answer

Spec == Init /\ [][Next]_vars

----------------------------------------------------------------------------
TypeOK == StateOK(store.st) /\ ops \in 0..MaxOps

\* Once its state is restored and nothing is under way, the list holds the
\* pages of its query, of the filter or the group that is selected, in order,
\* unless a request failed or the next page overtook another request.
ListSettled ==
    (ui.page = "list" /\ store.st.restored /\ Quiet(store) /\ "policies" \notin store.log)
        => /\ Answers(store.st.grid["policies"], Scope(store.st))
           /\ (store.st.selectedFilterId = None) # (store.st.selectedGroupId = None)

\* Once nothing is under way, the policy beside the list is the selected one,
\* and so are the modules.
SelectionSettled ==
    (ui.page = "list" /\ Quiet(store) /\ Follows(store, "policy") /\ store.log \cap {"policy", "modules"} = {})
        => \A id \in store.st.selectedIds \cap Policies : store.st.selectedIds = {id} =>
             /\ store.st.policy = id
             /\ Follows(store, "modules") => store.st.modules = id

\* Once nothing is under way, the page of a policy shows that policy, its
\* modules and its own agents, groups and events, whatever policies came
\* before and however late their answers were.
CardSettled ==
    (ui.page = "card" /\ Quiet(store) /\ Follows(store, "policy") /\ "policy" \notin store.log)
        => /\ store.st.policy = ui.hash
           /\ Follows(store, "modules") /\ "modules" \notin store.log => store.st.modules = ui.hash
           /\ \A k \in Subs : Follows(store, k) /\ k \notin store.log => Answers(store.st.grid[k], ui.hash)
           /\ \A k \in Subs : Follows(store, Items[k]) /\ Items[k] \notin store.log => store.st.items[k] = ui.hash

\* A flag that shows a spinner or disables a button goes with a request; all
\* but the one of the items of the groups' filters, which is never cleared.
BusyPending ==
    \A f \in store.st.busy \ {"groupItems"} : Pending(store, f)
=============================================================================
