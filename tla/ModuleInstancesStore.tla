------------------------ MODULE ModuleInstancesStore ------------------------
(***************************************************************************)
(* Modules where they are installed: the store of                          *)
(* libs/store/modules-instances, driven by the page of one module of an    *)
(* agent, a group or a policy, and by the tab of a policy's page that      *)
(* configures its modules (modules-config).  The entity is held by the     *)
(* store of agents, groups or policies, which the page of a module fetches *)
(* and does not reset; here that store is the entity it holds.             *)
(***************************************************************************)
EXTENDS StoreKit

CONSTANTS Entities,      \* agents, groups or policies
          ModuleNames,   \* modules of an entity
          Kinds,         \* of entities: "agent", "group", "policy"
          Searches,      \* strings of the search field; 0 is the empty one
          Tags,          \* values of a filter of the events
          Slices,        \* bound: sets of effects a behaviour follows, see StoreKit
          MaxOps         \* bound: operations of the user

VARIABLES store,         \* the store, see StoreKit
          ui,            \* the page: kind of entity, entity and module of its
                         \* route; the entity that is held and whether another is
                         \* fetched; the selections the tab has yet to report
          ops            \* history: operations so far

vars == <<store, ui, ops>>

Commands == {"enable", "disable", "delete", "changeVersion", "update", "save"}
Effects  == Commands \cup {"events", "eventItems", "versions"}

(***************************************************************************)
(* The reducer.                                                            *)
(***************************************************************************)
InitialState ==
    [grid |-> [k \in {"events"} |-> EmptyGrid], items |-> [k \in {"events"} |-> <<>>],
     of |-> <<>>, versions |-> None, busy |-> {}, errors |-> {}]

\* The members of State that the model keeps.
StateOK(s) ==
    /\ s.of = <<>> \/ s.of \in Entities \X ModuleNames
    /\ s.versions \in ModuleNames \cup {None}
    /\ s.busy \subseteq Effects /\ s.errors \subseteq Commands
    /\ s.grid["events"].search \in Searches /\ s.grid["events"].page \in Nat

reduceInit(s, entity, module)        == [s EXCEPT !.of = <<entity, module>>]
reduceEvents(s, step, req, empty)    == ReducePage(s, "events", step, req, empty)
reduceEventFilterItems(s, step, req) == ReduceItems(s, "events", "eventItems", step, req)
reduceEventsGrid(s, grid)       == [s EXCEPT !.grid["events"] = grid]

reduceVersions(s, step, req) ==
    LET t == ReduceFlag(s, "versions", step)
    IN IF step = "success" THEN [t EXCEPT !.versions = req.of] ELSE t

reduceCommand(s, c, step) == ReduceCommand(s, c, step)
resetModuleErrors(s)      == [s EXCEPT !.errors = @ \cap {"save"}]

(***************************************************************************)
(* The effects.                                                            *)
(***************************************************************************)
\* Without an entity getEventsFiltration gives undefined, which cannot be
\* spread into the filters: the effect fails and is subscribed anew, the flag
\* is up and no request is sent.
Stuck == [events |-> "stuckEvents", eventItems |-> "stuckItems"]

Failed(x, s, e) ==
    IF Follows(x, e) THEN Excuse([x EXCEPT !.st = s, !.http[e] = <<>>], Stuck[e]) ELSE x

fetchEvents(x, page) ==
    LET s == reduceEvents(x.st, "start", None, FALSE)
    IN IF x.st.of = <<>> THEN Failed(x, s, "events")
       ELSE Request(x, s, "events", [page |-> page, query |-> Query(x.st.grid["events"]), of |-> x.st.of])

fetchModuleEventsFilterItems(x) ==
    LET s == reduceEventFilterItems(x.st, "start", None)
    IN IF x.st.of = <<>> THEN Failed(x, s, "eventItems")
       ELSE Request(x, s, "eventItems", [of |-> x.st.of])

ChangeEvents(x, grid) ==
    fetchModuleEventsFilterItems(fetchEvents(Reduced(x, reduceEventsGrid(x.st, grid)), 1))

fetchVersions(x, module) == Request(x, reduceVersions(x.st, "start", None), "versions", [of |-> module])

startCommand(x, c) == Request(x, reduceCommand(x.st, c, "start"), c, [page |-> ui.page])

answerCommand(x, c, ok) == Done(x, c, reduceCommand(x.st, c, Outcome(ok)))

(***************************************************************************)
(* The page of a module.                                                   *)
(***************************************************************************)
Do(x, u) == store' = x /\ ui' = u
User(x)  == ops < MaxOps /\ ops' = ops + 1 /\ Do(x, ui)

refreshModuleData(x) == fetchModuleEventsFilterItems(fetchEvents(x, 1))

\* The entity is in its store: init, and what the page of this kind fetches.
\* The page of an agent's module does not fetch the items of the filters.
OnEntity(x, u) ==
    LET y == Reduced(x, reduceInit(x.st, u.held, u.module))
    IN IF u.kind = "agent" THEN fetchEvents(y, 1) ELSE refreshModuleData(y)

\* The module of the entity that is held is found: its versions are fetched.
OnModule(x, u) == fetchVersions(x, u.module)

OpenModulePage ==
    /\ ops < MaxOps /\ ops' = ops + 1 /\ ui.page = "none"
    /\ \E e \in Entities, m \in ModuleNames :
         LET u == [ui EXCEPT !.page = "module", !.entity = e, !.module = m, !.fetching = TRUE]
         IN Do(IF u.held # None THEN OnModule(OnEntity(store, u), u) ELSE store, u)

\* The entity comes in, or its request fails; a page that was left hears none.
EntityArrives ==
    /\ ui.fetching
    /\ LET u == [ui EXCEPT !.fetching = FALSE, !.held = ui.entity]
       IN \/ Do(IF ui.page = "module" THEN OnModule(OnEntity(store, u), u) ELSE store, u)
          \/ Do(Excuse(store, "entity"), [ui EXCEPT !.fetching = FALSE])
    /\ UNCHANGED ops

\* What a page does when it sees the flag of a command go.  A failed command is
\* first taken for a success.
OnToggled(x, c) ==
    CASE c \in {"enable", "disable"} -> refreshModuleData(x)
      [] c = "save"                  -> fetchEvents(fetchVersions(x, ui.module), 1)
      [] OTHER                       -> x

\* ngOnDestroy of the page of a module resets the store, which lowers the flag
\* of a command under way: its listener, which nothing ends, refreshes.
Leave(u) ==
    LET x       == Reduced(store, InitialState)
        here(c) == c \in store.st.busy /\ UnderWay(store, c) /\ store.http[c][1].page = "module"
        y       == IF here("save") THEN OnToggled(x, "save") ELSE x
        z       == IF here("enable") \/ here("disable") THEN refreshModuleData(y) ELSE y
    IN Do(z, [u EXCEPT !.page = "none", !.emits = <<>>])

ClosePage ==
    /\ ops < MaxOps /\ ops' = ops + 1
    /\ \/ ui.page = "module" /\ Leave(ui)
       \/ ui.page = "config" /\ Do(store, [ui EXCEPT !.page = "none", !.emits = <<>>])

EventsGrid ==
    /\ ui.page = "module" /\ Follows(store, "events") /\ store.st.of # <<>>
    /\ \/ \E v \in Searches : User(ChangeEvents(store, [store.st.grid["events"] EXCEPT !.search = v]))
       \/ \E v \in {0, 1} : User(ChangeEvents(store, [store.st.grid["events"] EXCEPT !.sort = v]))
       \/ \E t \in SUBSET Tags :
            User(ChangeEvents(store, [store.st.grid["events"] EXCEPT !.filters = getGridFiltration(@, "tags", t)]))
       \/ User(ChangeEvents(store, [store.st.grid["events"] EXCEPT !.filters = NoFilters]))
       \/ User(fetchEvents(store, 1))

LoadNextEventsPage ==
    /\ ui.page = "module" /\ Follows(store, "events") /\ store.st.grid["events"].rows # <<>>
    /\ store.st.of # <<>>
    /\ User(NextPage(store, fetchEvents(store, store.st.grid["events"].page + 1), "events", FALSE))

OpenChangeVersionPanel == ui.page = "module" /\ User(fetchVersions(store, ui.module))

(***************************************************************************)
(* The tab of a policy's modules.                                          *)
(***************************************************************************)
\* The tab selects a module: its versions are fetched under the name that the
\* page has so far, and a timer tells the page of the new one.
OpenConfig ==
    /\ ops < MaxOps /\ ops' = ops + 1 /\ ui.page = "none" /\ ui.kind = "policy" /\ ~ui.fetching
    /\ \E m \in ModuleNames :
         Do(fetchVersions(store, m), [ui EXCEPT !.page = "config", !.module = m])

OnChangeSelectedModule ==
    /\ ops < MaxOps /\ ops' = ops + 1 /\ ui.page = "config"
    /\ \E m \in ModuleNames \ {ui.module} :
         Do(fetchVersions(store, ui.module), [ui EXCEPT !.emits = Append(@, m)])

SelectModule ==
    /\ ui.page = "config" /\ ui.emits # <<>>
    /\ LET m == Head(ui.emits)
       IN Do(fetchVersions(Reduced(store, resetModuleErrors(store.st)), m),
             [ui EXCEPT !.module = m, !.emits = Tail(@)])
    /\ UNCHANGED ops

\* The modules of a policy come in, refreshed.
ModulesArrive == ui.page = "config" /\ User(fetchVersions(store, ui.module))

\* Nothing disables a command that is under way; a second one takes its place.
Command(c) ==
    /\ ui.page # "none" /\ Follows(store, c)
    /\ ui.page = "module" => store.st.of # <<>> /\ ui.kind = "policy"
    /\ User(startCommand(store, c))

ToggleModule     == \E c \in {"enable", "disable"} : Command(c)
ChangeVersion    == Command("changeVersion")
UpdateModule     == ui.page = "module" /\ Command("update")
SaveModuleConfig == Command("save")
DeleteModule     == Command("delete")

(***************************************************************************)
(* Answers.                                                                *)
(***************************************************************************)
AnswerEvents(ok, empty) ==
    /\ UnderWay(store, "events")
    /\ LET req == store.http["events"][1]
           x   == PageAnswered(store, "events", reduceEvents(store.st, Outcome(ok), req, empty), ok)
           y   == IF ok /\ req.of # store.st.of THEN [x EXCEPT !.log = store.log] ELSE x
       IN Do(Settle(y, Stuck["events"]), ui)
    /\ UNCHANGED ops

AnswerEventItems(ok) ==
    /\ UnderWay(store, "eventItems")
    /\ LET x == Done(store, "eventItems",
                     reduceEventFilterItems(store.st, Outcome(ok),
                                            store.http["eventItems"][1]))
           y == Settle(x, Stuck["eventItems"])
       IN Do(IF ok THEN Settle(y, "eventItems") ELSE Excuse(y, "eventItems"), ui)
    /\ UNCHANGED ops

AnswerVersions(ok) ==
    /\ UnderWay(store, "versions")
    /\ LET x == Done(store, "versions", reduceVersions(store.st, Outcome(ok),
                                                       store.http["versions"][1]))
       IN Do(IF ok THEN Settle(x, "versions") ELSE Excuse(x, "versions"), ui)
    /\ UNCHANGED ops

\* A deletion on the page of a module leaves it for the page of the policy.
AnswerCommand(c, ok) ==
    /\ UnderWay(store, c)
    /\ LET x    == answerCommand(store, c, ok)
           seen == c \in store.st.busy
       IN CASE seen /\ ui.page = "module" /\ c = "delete" ->
                 Do(Reduced(x, InitialState), [ui EXCEPT !.page = "none"])
            [] seen /\ ui.page = "module" /\ c # "delete" -> Do(OnToggled(x, c), ui)
            [] OTHER                                      -> Do(x, ui)
    /\ UNCHANGED ops

Answer ==
    \E ok \in BOOLEAN :
        \/ AnswerEventItems(ok) \/ AnswerVersions(ok)
        \/ \E empty \in BOOLEAN : AnswerEvents(ok, empty)
        \/ \E c \in Commands : AnswerCommand(c, ok)

Init ==
    /\ \E slice \in Slices : store = NewStore(InitialState, slice)
    /\ \E kind \in Kinds, held \in Entities \cup {None} :
         ui = [page |-> "none", kind |-> kind, entity |-> None, module |-> None, held |-> held,
               fetching |-> FALSE, emits |-> <<>>]
    /\ ops = 0

Next ==
    \/ OpenModulePage \/ EntityArrives \/ ClosePage \/ EventsGrid \/ LoadNextEventsPage
    \/ OpenChangeVersionPanel \/ OpenConfig \/ OnChangeSelectedModule \/ SelectModule
    \/ ModulesArrive \/ ToggleModule \/ ChangeVersion \/ UpdateModule \/ SaveModuleConfig
    \/ DeleteModule \/ Answer

Spec == Init /\ [][Next]_vars

----------------------------------------------------------------------------
TypeOK == StateOK(store.st) /\ ops \in 0..MaxOps

Still == Quiet(store) /\ ~ui.fetching /\ ui.emits = <<>>

\* Once nothing is under way, the page of a module shows the events of that
\* module of that entity and the module's versions, although the store of the
\* entity may have held another one when the page was opened.
CardSettled ==
    (ui.page = "module" /\ Still /\ "entity" \notin store.log)
        => /\ Follows(store, "events") => store.st.of = <<ui.entity, ui.module>>
           /\ Follows(store, "events") /\ "events" \notin store.log =>
                Answers(store.st.grid["events"], <<ui.entity, ui.module>>)
           /\ Follows(store, "eventItems") /\ "eventItems" \notin store.log /\ ui.kind # "agent" =>
                store.st.items["events"] = <<ui.entity, ui.module>>

\* Once nothing is under way, the versions on offer are those of the module on
\* the screen, although the tab first asks for those of the previous one.
SelectionSettled ==
    (ui.page # "none" /\ Still /\ Follows(store, "versions") /\ store.log \cap {"entity", "versions"} = {})
        => store.st.versions = ui.module

\* A flag that shows a spinner or disables a button goes with a request, unless
\* the effect failed since the store had no entity.
BusyPending ==
    \A f \in store.st.busy : Pending(store, f) \/ (f \in DOMAIN Stuck /\ Stuck[f] \in store.log)
=============================================================================
