--------------------------- MODULE AgentCardStore ---------------------------
(***************************************************************************)
(* The page of one agent of the web client: the store of                   *)
(* libs/store/agents/src/lib/card driven by the agent page of              *)
(* libs/features/agents.  The agent comes with its modules; its events     *)
(* fill a grid.                                                            *)
(***************************************************************************)
EXTENDS StoreKit

CONSTANTS Agents,        \* agents whose page is opened
          Searches,      \* strings of the search field; 0 is the empty one
          Tags,          \* values of a filter of the events
          Slices,        \* bound: sets of effects a behaviour follows, see StoreKit
          MaxOps         \* bound: operations of the user

VARIABLES store,         \* the store, see StoreKit
          ui,            \* the agent whose page is on the screen; whether a
                         \* subscription waits for the store to hold an agent
          ops            \* history: operations so far

vars == <<store, ui, ops>>

Commands == {"upgrade", "cancelUpgrade", "move", "createGroup", "update", "block", "delete"}
Reported == {"move", "update", "delete"}                   \* with an error member
Effects  == Commands \cup {"moveNew", "agent", "events", "eventItems"}

(***************************************************************************)
(* The reducer.                                                            *)
(***************************************************************************)
InitialState ==
    [grid |-> [k \in {"events"} |-> EmptyGrid], items |-> [k \in {"events"} |-> None],
     agent |-> None, busy |-> {}, errors |-> {}]

\* The members of State that the model keeps.
StateOK(s) ==
    /\ s.agent \in Agents \cup {None} /\ s.items["events"] \in Agents \cup {None}
    /\ s.busy \subseteq Effects /\ s.errors \subseteq Reported
    /\ s.grid["events"].search \in Searches /\ s.grid["events"].page \in Nat

reduceAgent(s, step, req) ==
    LET t == ReduceFlag(s, "agent", step)
    IN IF step = "success" THEN [t EXCEPT !.agent = req.of] ELSE t

reduceEvents(s, step, req, empty)    == ReducePage(s, "events", step, req, empty)
reduceEventFilterItems(s, step, req) == ReduceItems(s, "events", "eventItems", step, req)
reduceEventsGrid(s, grid)       == [s EXCEPT !.grid["events"] = grid]
reduceUpgrade(s, c, step)            == ReduceFlag(s, c, step)
reduceMove(s, step)                  == ReduceCommand(s, "move", step)   \* both moves, one flag
reduceUpdate(s, step)                == ReduceCommand(s, "update", step)
reduceBlock(s, step)                 == ReduceFlag(s, "block", step)
reduceDelete(s, step)                == ReduceCommand(s, "delete", step)

reduceCommand(s, c, step) ==
    CASE c \in {"upgrade", "cancelUpgrade"}       -> reduceUpgrade(s, c, step)
      [] c \in {"move", "createGroup", "moveNew"} -> reduceMove(s, step)
      [] c = "update"                             -> reduceUpdate(s, step)
      [] c = "block"                              -> reduceBlock(s, step)
      [] c = "delete"                             -> reduceDelete(s, step)

(***************************************************************************)
(* The effects.                                                            *)
(***************************************************************************)
fetchAgent(x, hash) == Request(x, reduceAgent(x.st, "start", None), "agent", [of |-> hash])

fetchAgentEvents(x, id, page) ==
    Request(x, reduceEvents(x.st, "start", None, FALSE), "events",
            [page |-> page, query |-> Query(x.st.grid["events"]), of |-> id])

fetchEventFilterItems(x) ==
    Request(x, reduceEventFilterItems(x.st, "start", None), "eventItems", [of |-> x.st.agent])

ChangeEvents(x, grid, filtered) ==
    LET y == fetchAgentEvents(Reduced(x, reduceEventsGrid(x.st, grid)), x.st.agent, 1)
    IN IF filtered THEN fetchEventFilterItems(y) ELSE y

startCommand(x, c) == Request(x, reduceCommand(x.st, c, "start"), c, [of |-> x.st.agent])

\* moveToNewGroup$ creates the group and moves the agent to it; after a failure
\* it starts over and hears the next action.
answerMoveToNewGroup(x, c, ok) ==
    CASE c = "createGroup" /\ ok ->
           [Done(x, c, x.st) EXCEPT !.http["moveNew"] = x.http["createGroup"]]
      [] c = "moveNew" /\ ok     -> Done(x, c, reduceMove(x.st, "success"))
      [] OTHER                   ->
           [Done(x, c, reduceMove(x.st, "failure")) EXCEPT !.http["createGroup"] = <<>>,
                                                           !.http["moveNew"] = <<>>]

answerCommand(x, c, ok) ==
    IF c \in {"createGroup", "moveNew"} THEN answerMoveToNewGroup(x, c, ok)
    ELSE Done(x, c, reduceCommand(x.st, c, Outcome(ok)))

(***************************************************************************)
(* The page.                                                               *)
(***************************************************************************)
OnAgent(x) == fetchEventFilterItems(fetchAgentEvents(x, x.st.agent, 1))

Do(x, u) == store' = x /\ ui' = u
User(x)  == ops < MaxOps /\ ops' = ops + 1 /\ Do(x, ui)

\* The events are asked for as soon as the store holds an agent: at once if it
\* does, whichever agent that is, or by a subscription that nothing ends.
refreshData(x, u) ==
    LET y == fetchAgent(x, u.hash)
    IN IF y.st.agent # None THEN Do(OnAgent(y), u) ELSE Do(y, [u EXCEPT !.waits = TRUE])

\* An agent that came too late for the page that asked for it, or that the page
\* of a module has left behind: the next page takes it for its own.
OpenCard ==
    /\ ops < MaxOps /\ ops' = ops + 1 /\ ui.hash = None
    /\ \E h \in Agents :
         LET stale == store.st.agent \notin {None, h}
         IN refreshData(IF stale THEN Excuse(Excuse(store, "events"), "eventItems") ELSE store,
                        [ui EXCEPT !.hash = h])

\* ngOnDestroy resets the store first and stops listening afterwards: when the
\* agent is being blocked the page fetches it once more.
Leave(u) ==
    LET x == Reduced(store, InitialState)
    IN IF "block" \in store.st.busy
       THEN Do(fetchAgent(x, ui.hash), [u EXCEPT !.hash = None, !.waits = TRUE])
       ELSE Do(x, [u EXCEPT !.hash = None])

ClosePage ==
    /\ ops < MaxOps /\ ops' = ops + 1 /\ ui.hash # None
    /\ Leave(ui)

OnRefresh ==
    /\ ops < MaxOps /\ ops' = ops + 1 /\ ui.hash # None
    /\ refreshData(store, ui)

\* The page of a module of an agent fetches the agent into the same store, and
\* leaves it there.
OpenModulePage == ui.hash = None /\ \E h \in Agents : User(fetchAgent(store, h))

RefreshDependencies == ui.hash # None /\ User(fetchAgent(store, ui.hash))

\* What the grid of events can do; it is there with the agent.
EventsGrid ==
    /\ ui.hash # None /\ store.st.agent # None /\ Follows(store, "events")
    /\ \/ \E v \in Searches : User(ChangeEvents(store, [store.st.grid["events"] EXCEPT !.search = v], FALSE))
       \/ \E v \in {0, 1} : User(ChangeEvents(store, [store.st.grid["events"] EXCEPT !.sort = v], FALSE))
       \/ \E t \in SUBSET Tags :
            User(ChangeEvents(store,
                  [store.st.grid["events"] EXCEPT !.filters = getGridFiltration(@, "tags", t)], TRUE))
       \/ User(ChangeEvents(store, [store.st.grid["events"] EXCEPT !.filters = NoFilters], TRUE))
       \/ User(fetchAgentEvents(store, store.st.agent, 1))

LoadNextEventsPage ==
    /\ ui.hash # None /\ store.st.agent # None /\ store.st.grid["events"].rows # <<>>
    /\ Follows(store, "events")
    /\ User(NextPage(store, fetchAgentEvents(store, store.st.agent, store.st.grid["events"].page + 1),
                     "events", FALSE))

\* The toolbar and the dialogs; a command of the same kind that is running
\* disables them.
Command(c, flag) ==
    /\ ui.hash # None /\ store.st.agent # None /\ Follows(store, c) /\ flag \notin store.st.busy
    /\ User(startCommand(store, c))

UpgradeAgent == \E c \in {"upgrade", "cancelUpgrade"} : Command(c, c)
MoveToGroup  == \E c \in {"move", "createGroup"} : Command(c, "move")
EditAgent    == \E c \in {"update", "block", "delete"} : Command(c, c)

(***************************************************************************)
(* Answers.                                                                *)
(***************************************************************************)
AnswerAgent(ok) ==
    /\ UnderWay(store, "agent")
    /\ LET x == Done(store, "agent", reduceAgent(store.st, Outcome(ok),
                                                 store.http["agent"][1]))
       IN IF ~ok THEN Do(Excuse(x, "agent"), ui)
          ELSE Do(IF ui.waits THEN OnAgent(Settle(x, "agent")) ELSE Settle(x, "agent"),
                  [ui EXCEPT !.waits = FALSE])
    /\ UNCHANGED ops

AnswerEvents(ok, empty) ==
    /\ UnderWay(store, "events")
    /\ LET req == store.http["events"][1]
           x   == PageAnswered(store, "events", reduceEvents(store.st, Outcome(ok), req, empty), ok)
       IN Do(IF ok /\ req.of # ui.hash THEN [x EXCEPT !.log = store.log] ELSE x, ui)
    /\ UNCHANGED ops

AnswerEventItems(ok) ==
    /\ UnderWay(store, "eventItems")
    /\ LET req == store.http["eventItems"][1]
           x   == Done(store, "eventItems",
                       reduceEventFilterItems(store.st, Outcome(ok), req))
       IN Do(CASE ~ok                          -> Excuse(x, "eventItems")
               [] ok /\ req.of = ui.hash       -> Settle(x, "eventItems")
               [] OTHER                        -> x, ui)
    /\ UNCHANGED ops

\* A failed move, update or deletion is first taken for a success: the page is
\* fetched again, and after the deletion left.
AnswerCommand(c, ok) ==
    /\ UnderWay(store, c)
    /\ LET x    == answerCommand(store, c, ok)
           flag == IF c \in {"createGroup", "moveNew"} THEN "move" ELSE c
           seen == ui.hash # None /\ flag \in store.st.busy /\ flag \notin x.st.busy
       IN \/ seen /\ c = "delete" /\ Do(Reduced(x, InitialState), [ui EXCEPT !.hash = None])
          \/ seen /\ c # "delete" /\ refreshData(x, ui)
          \/ (seen => c = "upgrade") /\ Do(x, ui)      \* from the toolbar, nothing listens
    /\ UNCHANGED ops

Answer ==
    \E ok \in BOOLEAN :
        \/ AnswerAgent(ok) \/ AnswerEventItems(ok)
        \/ \E empty \in BOOLEAN : AnswerEvents(ok, empty)
        \/ \E c \in Commands \cup {"moveNew"} : AnswerCommand(c, ok)

Init ==
    /\ \E slice \in Slices : store = NewStore(InitialState, slice)
    /\ ui = [hash |-> None, waits |-> FALSE]
    /\ ops = 0

Next ==
    \/ OpenCard \/ OpenModulePage \/ ClosePage \/ OnRefresh \/ RefreshDependencies \/ EventsGrid
    \/ LoadNextEventsPage \/ UpgradeAgent \/ MoveToGroup \/ EditAgent \/ Answer

Spec == Init /\ [][Next]_vars

----------------------------------------------------------------------------
TypeOK == StateOK(store.st) /\ ops \in 0..MaxOps

\* Once nothing is under way, the page of an agent shows that agent and its own
\* events, unless a request failed or, known and excused, the store already
\* held another agent when the page was opened.
CardSettled ==
    (ui.hash # None /\ Quiet(store) /\ "agent" \notin store.log)
        => /\ store.st.agent = ui.hash
           /\ "events" \notin store.log => Answers(store.st.grid["events"], ui.hash)
           /\ Follows(store, "eventItems") /\ "eventItems" \notin store.log =>
                store.st.items["events"] = ui.hash

\* A flag that shows a spinner or disables a button goes with a request.
BusyPending ==
    \A f \in store.st.busy :
        \/ Pending(store, f)
        \/ f = "move" /\ \E e \in {"createGroup", "moveNew"} : Pending(store, e)
=============================================================================
