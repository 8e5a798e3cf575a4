--------------------------- MODULE AgentListStore ---------------------------
(***************************************************************************)
(* The list of agents of the web client: the store of                      *)
(* libs/store/agents/src/lib/list driven by the agents page of             *)
(* libs/features/agents.  The list is narrowed by a filter or by a group;  *)
(* beside it stand the selected agent and its modules, one fetch for both. *)
(***************************************************************************)
EXTENDS StoreKit

CONSTANTS Agents,        \* agents the list can show
          FilterIds,     \* filters of the list; 1 is authorized
          GroupIds,      \* groups the list can be narrowed to
          Searches,      \* strings of the search field; 0 is the empty one
          Tags,          \* values of the filter "tags"
          Slices,        \* bound: sets of effects a behaviour follows, see StoreKit
          MaxOps         \* bound: operations of the user

VARIABLES store,         \* the store, see StoreKit
          ui,            \* whether the page is on the screen, its query
                         \* parameters; whether all groups are loaded
          ops            \* history: operations so far

vars == <<store, ui, ops>>

Authorized == 1
Commands == {"upgrade", "cancelUpgrade", "move", "createGroup", "update", "block", "delete", "agentData"}
Reported == {"move", "update", "delete"}                   \* with an error member
Effects  == Commands \cup {"moveNew", "agents", "filtration", "items", "counters", "versions", "agent"}

(***************************************************************************)
(* The reducer.                                                            *)
(***************************************************************************)
InitialState ==
    [grid |-> [k \in {"agents"} |-> EmptyGrid], items |-> [k \in {"agents"} |-> None], agent |-> None,
     selectedFilterId |-> None, selectedGroupId |-> None, initialized |-> FALSE,
     selectedIds |-> {}, restored |-> FALSE, busy |-> {}, errors |-> {}]

\* The members of State that the model keeps.
StateOK(s) ==
    /\ s.agent \in Agents \cup {None} /\ s.selectedIds \subseteq Agents
    /\ s.selectedFilterId \in FilterIds \cup {None} /\ s.selectedGroupId \in GroupIds \cup {None}
    /\ s.restored \in BOOLEAN /\ s.initialized \in BOOLEAN
    /\ s.busy \subseteq Effects /\ s.errors \subseteq Reported
    /\ s.grid["agents"].search \in Searches /\ s.grid["agents"].page \in Nat

updateFilters(s) == [s EXCEPT !.initialized = TRUE]

reduceAgentsPage(s, step, req, empty) == ReducePage(s, "agents", step, req, empty)
reduceFilterItems(s, step, req)       == ReduceItems(s, "agents", "items", step, req)

\* The rows of the agents that came are replaced, and stay where they are.
reduceAgentData(s, step) == ReduceFlag(s, "agentData", step)

selectAgents(s, ids) == [s EXCEPT !.selectedIds = ids]

reduceAgent(s, step, req) ==
    LET t == ReduceFlag(s, "agent", step)
    IN IF step = "success" THEN [t EXCEPT !.agent = req.of] ELSE t

reduceUpgrade(s, c, step) == ReduceFlag(s, c, step)

\* A filter and a group exclude each other; both start the grid afresh.
selectFilter(s, id) ==
    [s EXCEPT !.selectedFilterId = id, !.selectedGroupId = None,
              !.grid["agents"].filters = NoFilters, !.grid["agents"].search = 0]

selectGroup(s, id) ==
    [s EXCEPT !.selectedGroupId = id, !.selectedFilterId = None,
              !.grid["agents"].filters = NoFilters, !.grid["agents"].search = 0]

reduceGrid(s, grid)     == [s EXCEPT !.grid["agents"] = grid]
reduceMove(s, step)          == ReduceCommand(s, "move", step)      \* both moves, one flag
reduceUpdate(s, step)        == ReduceCommand(s, "update", step)
reduceBlock(s, step)         == ReduceFlag(s, "block", step)
reduceDelete(s, step)        == ReduceCommand(s, "delete", step)
reduceRestore(s, search)     == [s EXCEPT !.restored = TRUE, !.grid["agents"].search = search]
resetAgentErrors(s)          == [s EXCEPT !.errors = {}]

reduceCommand(s, c, step) ==
    CASE c \in {"upgrade", "cancelUpgrade"}           -> reduceUpgrade(s, c, step)
      [] c \in {"move", "createGroup", "moveNew"}     -> reduceMove(s, step)
      [] c = "update"                                 -> reduceUpdate(s, step)
      [] c = "block"                                  -> reduceBlock(s, step)
      [] c = "delete"                                 -> reduceDelete(s, step)
      [] c = "agentData"                              -> reduceAgentData(s, step)

(***************************************************************************)
(* The effects.                                                            *)
(***************************************************************************)
Scope(s) == <<s.selectedFilterId, s.selectedGroupId>>

selectInitialListQuery(s, page) ==
    [page |-> page, query |-> Query(s.grid["agents"]), of |-> Scope(s)]

fetchCountersByFilters(x) == Debounce(x, x.st, "counters", None)
fetchAgentsVersions(x)    == Request(x, x.st, "versions", None)

fetchAgentsPage(x, page) ==
    Debounce(x, reduceAgentsPage(x.st, "start", None, FALSE), "agents", page)

\* The items are those of the rows the query lets through.
fetchFilterItems(x) ==
    Request(x, reduceFilterItems(x.st, "start", None), "items",
            [of |-> <<Scope(x.st), x.st.grid["agents"].filters, x.st.grid["agents"].search>>])

\* mutant: the actions that narrow the list are not on the effect's list
OnNarrowedUnheard(x, s) == Reduced(x, s)

\* setGridFiltration$: what narrows or sorts the list is debounced on its own
\* before the page is asked for, which is debounced again.
OnNarrowed(x, s) ==
    IF Follows(x, "filtration") THEN Debounce(x, s, "filtration", None) ELSE x

setGridFiltration(x) == fetchFilterItems(fetchAgentsPage([x EXCEPT !.timer["filtration"] = <<>>], 1))

SendCounters(x)   == Sent(x, "counters", None)
SendAgentsPage(x) == Sent(x, "agents", selectInitialListQuery(x.st, x.timer["agents"][1]))

fetchAgent(x, hash) == Request(x, reduceAgent(x.st, "start", None), "agent", [of |-> hash])

\* mutant: an agent is fetched only if none is shown
OnSelectFirstAgent(x, ids) ==
    LET y == Reduced(x, selectAgents(x.st, ids))
    IN IF Cardinality(ids) = 1 /\ x.st.agent = None THEN fetchAgent(y, CHOOSE h \in ids : TRUE) ELSE y

\* selectAgent$: one agent alone is fetched.
OnSelectAgents(x, ids) ==
    LET y == Reduced(x, selectAgents(x.st, ids))
    IN IF Cardinality(ids) = 1 THEN fetchAgent(y, CHOOSE h \in ids : TRUE) ELSE y

startCommand(x, c, toolbar) == Request(x, reduceCommand(x.st, c, "start"), c, [toolbar |-> toolbar])

updateAgentsData(x) == startCommand(x, "agentData", FALSE)

\* moveToNewGroup$ creates the group and moves the agents to it.  The failure
\* of either reaches the catchError around both, and the effect ends.
OnGroupCreated(x) == [Done(x, "createGroup", x.st) EXCEPT !.http["moveNew"] = x.http["createGroup"]]

EndMoveToNewGroup(x) ==
    [x EXCEPT !.st = reduceMove(x.st, "failure"), !.http["createGroup"] = <<>>, !.http["moveNew"] = <<>>,
              !.ended = @ \cup {"createGroup"}]

answerCommand(x, c, ok) ==
    LET y == Done(x, c, reduceCommand(x.st, c, Outcome(ok)))
    IN CASE c = "createGroup" /\ ok                     -> OnGroupCreated(x)
         [] c \in {"createGroup", "moveNew"} /\ ~ok     -> EndMoveToNewGroup(x)
         [] c = "block" /\ ok                           -> fetchCountersByFilters(fetchAgentsPage(y, 1))
         [] c \in {"delete", "move", "moveNew"} /\ ok   -> fetchCountersByFilters(y)
         [] OTHER                                       -> y

(***************************************************************************)
(* The page.                                                               *)
(***************************************************************************)
\* What upgrades from the toolbar outlives the page that listens to it.
Leave(x) ==
    LET y == Reduced(x, InitialState)
    IN IF "upgrade" \in x.st.busy /\ x.http["upgrade"][1].toolbar THEN updateAgentsData(y) ELSE y

restoreState(x, params) ==
    LET a == IF params.group # None THEN OnNarrowed(x, selectGroup(x.st, params.group)) ELSE x
        b == IF params.filter # None THEN OnNarrowed(a, selectFilter(a.st, params.filter)) ELSE a
        c == IF params.group = None /\ params.filter = None
             THEN OnNarrowed(b, selectFilter(b.st, Authorized)) ELSE b
    IN fetchAgentsPage(Reduced(c, reduceRestore(c.st, params.search)), 1)

\* The constructor, and ngOnInit.
EnterList(x, params, known) ==
    LET y == fetchAgentsVersions(fetchCountersByFilters(Reduced(x, updateFilters(x.st))))
        z == IF known THEN restoreState(y, params) ELSE y
    IN fetchFilterItems(z)

NoParams == [group |-> None, filter |-> None, search |-> 0]
Params   == {NoParams} \cup {[NoParams EXCEPT !.group = g, !.search = v] : g \in GroupIds, v \in Searches}

Do(x, u) == store' = x /\ ui' = u
User(x)  == ops < MaxOps /\ ops' = ops + 1 /\ Do(x, ui)

OpenList ==
    /\ ops < MaxOps /\ ops' = ops + 1 /\ ui.page = "none"
    /\ \E p \in Params :
         Do(EnterList(store, p, ui.known), [ui EXCEPT !.page = "list", !.params = p])

\* The groups that the sidebar shows have been loaded.
GroupsInitialized ==
    /\ ~ui.known
    /\ Do(IF ui.page = "list" THEN restoreState(store, ui.params) ELSE store,
          [ui EXCEPT !.known = TRUE])
    /\ UNCHANGED ops

ClosePage ==
    /\ ops < MaxOps /\ ops' = ops + 1 /\ ui.page = "list"
    /\ Do(Leave(store), [ui EXCEPT !.page = "none", !.params = NoParams])

OnSelectFilter ==
    /\ ui.page = "list" /\ Follows(store, "filtration")
    /\ \E id \in FilterIds : User(fetchCountersByFilters(OnNarrowed(store, selectFilter(store.st, id))))

OnSelectGroup ==
    /\ ui.page = "list" /\ Follows(store, "filtration")
    /\ \E id \in GroupIds : User(fetchCountersByFilters(OnNarrowed(store, selectGroup(store.st, id))))

\* What the grid can do.
ListGrid ==
    LET Change(grid) == User(OnNarrowed(store, reduceGrid(store.st, grid)))
    IN /\ ui.page = "list" /\ Follows(store, "filtration")
       /\ \/ \E v \in Searches : Change([store.st.grid["agents"] EXCEPT !.search = v])
          \/ \E v \in {0, 1} : Change([store.st.grid["agents"] EXCEPT !.sort = v])
          \/ \E t \in SUBSET Tags :
               Change([store.st.grid["agents"] EXCEPT !.filters = getGridFiltration(@, "tags", t)])
          \/ \E t \in Tags : Change([store.st.grid["agents"] EXCEPT !.filters = getGridFiltrationByTag(@, t)])
          \/ Change([store.st.grid["agents"] EXCEPT !.filters = NoFilters])

ListNextPage ==
    /\ ui.page = "list" /\ store.st.grid["agents"].rows # <<>> /\ Follows(store, "agents")
    /\ User(NextPage(store, fetchAgentsPage(store, store.st.grid["agents"].page + 1),
                     "agents", Waiting(store, "filtration")))

RefreshData ==
    /\ ui.page = "list" /\ Follows(store, "agents")
    /\ User(fetchAgentsPage(store, 1))

OnGridSelectRows ==
    /\ ui.page = "list" /\ Follows(store, "agent")
    /\ \E ids \in SUBSET Agents :
         User(OnSelectAgents(Reduced(store, resetAgentErrors(store.st)), ids))

\* The toolbar and the dialogs, for the selected agents; a command of the same
\* kind that is running disables them.
Command(c, flag, toolbar) ==
    /\ ui.page = "list" /\ store.st.selectedIds # {} /\ Follows(store, c) /\ flag \notin store.st.busy
    /\ User(startCommand(store, c, toolbar))

UpgradeAgents ==
    \/ \E toolbar \in BOOLEAN : Command("upgrade", "upgrade", toolbar)
    \/ Command("cancelUpgrade", "cancelUpgrade", FALSE)
MoveToGroup == \E c \in {"move", "createGroup"} : Command(c, "move", FALSE)
SaveAgent == Cardinality(store.st.selectedIds) = 1 /\ Command("update", "update", FALSE)
DeleteAgents == Command("delete", "delete", FALSE)
BlockAgents == Command("block", "block", FALSE)

(***************************************************************************)
(* Timers and answers.                                                     *)
(***************************************************************************)
Tick ==
    /\ \/ Waiting(store, "filtration") /\ Do(setGridFiltration(store), ui)
       \/ Waiting(store, "agents")     /\ Do(SendAgentsPage(store), ui)
       \/ Waiting(store, "counters")   /\ Do(SendCounters(store), ui)
    /\ UNCHANGED ops

AnswerAgentsPage(ok, empty) ==
    /\ UnderWay(store, "agents")
    /\ LET req == store.http["agents"][1]
           x   == PageAnswered(store, "agents",
                     reduceAgentsPage(store.st, Outcome(ok), req, empty), ok)
       IN Do(IF ok /\ req.of # Scope(store.st) THEN [x EXCEPT !.log = store.log] ELSE x, ui)
    /\ UNCHANGED ops

AnswerItems(ok) ==
    /\ UnderWay(store, "items")
    /\ LET x == Done(store, "items", reduceFilterItems(store.st, Outcome(ok),
                                                       store.http["items"][1]))
       IN Do(IF ok THEN Settle(x, "items") ELSE Excuse(x, "items"), ui)
    /\ UNCHANGED ops

AnswerAgent(ok) ==
    /\ UnderWay(store, "agent")
    /\ LET x == Done(store, "agent", reduceAgent(store.st, Outcome(ok),
                                                 store.http["agent"][1]))
       IN Do(IF ok THEN Settle(x, "agent") ELSE Excuse(x, "agent"), ui)
    /\ UNCHANGED ops

\* The counters and the versions have no flag.
AnswerNumbers ==
    /\ \E e \in {"counters", "versions"} : UnderWay(store, e) /\ Do(Done(store, e, store.st), ui)
    /\ UNCHANGED ops

\* What waits for the flag to go.  The dialogs take a failed move, update or
\* deletion for a success first, and the list is fetched again.
OnUpgraded(x) == updateAgentsData(x)
OnMoved(x)    == IF ui.page = "list" THEN fetchAgentsPage(x, 1) ELSE x
OnUpdated(x)  == IF ui.page = "list" THEN fetchAgentsPage(x, 1) ELSE x
OnDeleted(x)  == IF ui.page = "list" THEN fetchAgentsPage(x, 1) ELSE x

OnAnswered(x, c) ==
    CASE c \in {"upgrade", "cancelUpgrade"}       -> OnUpgraded(x)
      [] c \in {"move", "createGroup", "moveNew"} -> OnMoved(x)
      [] c = "update"                             -> OnUpdated(x)
      [] c = "delete"                             -> OnDeleted(x)
      [] OTHER                                    -> x

AnswerCommand(c, ok) ==
    /\ UnderWay(store, c)
    /\ LET x    == answerCommand(store, c, ok)
           flag == IF c \in {"createGroup", "moveNew"} THEN "move" ELSE c
       IN Do(IF flag \in store.st.busy \ x.st.busy THEN OnAnswered(x, c) ELSE x, ui)
    /\ UNCHANGED ops

Answer ==
    \/ AnswerNumbers
    \/ \E ok \in BOOLEAN :
         \/ \E empty \in BOOLEAN : AnswerAgentsPage(ok, empty)
         \/ AnswerItems(ok) \/ AnswerAgent(ok)
         \/ \E c \in Commands \cup {"moveNew"} : AnswerCommand(c, ok)

Init ==
    /\ \E slice \in Slices : store = NewStore(InitialState, slice)
    /\ \E known \in BOOLEAN : ui = [page |-> "none", params |-> NoParams, known |-> known]
    /\ ops = 0

Next ==
    \/ OpenList \/ GroupsInitialized \/ ClosePage \/ OnSelectFilter \/ OnSelectGroup
    \/ ListGrid \/ ListNextPage \/ RefreshData \/ OnGridSelectRows
    \/ UpgradeAgents \/ MoveToGroup \/ SaveAgent \/ DeleteAgents \/ BlockAgents \/ Tick \/ Answer

Spec == Init /\ [][Next]_vars

----------------------------------------------------------------------------
TypeOK == StateOK(store.st) /\ ops \in 0..MaxOps

\* Once its state is restored and nothing is under way, the list holds the
\* pages of its query, of the filter or the group that is selected, in order,
\* and its column filters offer what those rows hold, unless a request failed
\* or the next page overtook another request.
ListSettled ==
    (ui.page = "list" /\ store.st.restored /\ Quiet(store) /\ "agents" \notin store.log)
        => /\ Answers(store.st.grid["agents"], Scope(store.st))
           /\ (Follows(store, "items") /\ Follows(store, "filtration")
                 /\ "items" \notin store.log) =>
                store.st.items["agents"] =
                    <<Scope(store.st), store.st.grid["agents"].filters, store.st.grid["agents"].search>>

\* Once nothing is under way, the agent beside the list is the selected one.
SelectionSettled ==
    (ui.page = "list" /\ Quiet(store) /\ Follows(store, "agent") /\ "agent" \notin store.log)
        => \A id \in Agents : store.st.selectedIds = {id} => store.st.agent = id

\* A flag that shows a spinner or disables a button goes with a request; all
\* but the one of a move to a new group, once the effect has ended.
BusyPending ==
    \A f \in store.st.busy :
        \/ Pending(store, f)
        \/ f = "move" /\ (\E e \in {"createGroup", "moveNew"} : Pending(store, e))
        \/ f = "move" /\ "createGroup" \in store.ended
=============================================================================
