--------------------------- MODULE ModuleListStore ---------------------------
(***************************************************************************)
(* The list of modules of the web client: the store of                     *)
(* libs/store/modules/src/lib/list driven by the modules page of           *)
(* libs/features/modules and its dialogs.                                  *)
(***************************************************************************)
EXTENDS StoreKit

CONSTANTS Modules,       \* modules the list can show
          NewModule,     \* the module that create makes
          Searches,      \* strings of the search field; 0 is the empty one
          Tags,          \* values of the filter "tags"
          Slices,        \* bound: sets of effects a behaviour follows, see StoreKit
          MaxOps         \* bound: operations of the user

VARIABLES store,         \* the store, see StoreKit
          ui,            \* whether the page is on the screen, the user may edit
                         \* modules, the import dialog has reported an error
          ops            \* history: operations so far

vars == <<store, ui, ops>>

Commands == {"create", "import", "delete", "deleteVersion"}
Effects  == Commands \cup {"modules", "all", "tags", "versions"}

(***************************************************************************)
(* The reducer.                                                            *)
(***************************************************************************)
InitialState ==
    [grid |-> [k \in {"modules"} |-> EmptyGrid], items |-> [k \in {"modules"} |-> <<>>],
     createdModule |-> None, selectedIds |-> {}, versions |-> None, restored |-> FALSE,
     busy |-> {}, errors |-> {}]

\* The members of State that the model keeps.
StateOK(s) ==
    /\ s.createdModule \in {None, NewModule} /\ s.selectedIds \subseteq Modules \cup {NewModule}
    /\ s.versions \in Modules \cup {None, NewModule} /\ s.restored \in BOOLEAN
    /\ s.busy \subseteq Effects /\ s.errors \subseteq Commands
    /\ s.grid["modules"].search \in Searches /\ s.grid["modules"].page \in Nat

\* The answer to fetchModules: every module there is, whatever the grid asks
\* for, in place of the rows; the number of the page stays.
Everything ==
    [page |-> 1, query |-> [search |-> 0, filters |-> [f \in {"everything"} |-> {}], sort |-> 0], of |-> None]

reduceModules(s)                       == [Unflag(s, "modules") EXCEPT !.grid["modules"].rows = <<Everything>>]
reduceModulesPage(s, step, req, empty) == ReducePage(s, "modules", step, req, empty)
reduceModulesTags(s, step, req)        == ReduceItems(s, "modules", "tags", step, req)

reduceCreate(s, step) ==
    LET t == ReduceCommand(s, "create", step)
    IN IF step = "start" THEN t
       ELSE [t EXCEPT !.createdModule = IF step = "success" THEN NewModule ELSE None]

reduceImport(s, step)        == ReduceCommand(s, "import", step)
selectModules(s, ids)        == [s EXCEPT !.selectedIds = ids]
reduceGrid(s, grid)     == [s EXCEPT !.grid["modules"] = grid]
reduceDelete(s, step)        == ReduceCommand(s, "delete", step)
reduceDeleteVersion(s, step) == ReduceCommand(s, "deleteVersion", step)

reduceVersions(s, step, req) ==
    LET t == ReduceFlag(s, "versions", step)
    IN IF step = "success" THEN [t EXCEPT !.versions = req.of] ELSE t

reduceRestore(s, search) == [s EXCEPT !.restored = TRUE, !.grid["modules"].search = search]
resetImportState(s)      == [s EXCEPT !.errors = @ \ {"import"}]
resetModuleErrors(s)     == [s EXCEPT !.errors = {}]

reduceCommand(s, c, step) ==
    CASE c = "create"        -> reduceCreate(s, step)
      [] c = "import"        -> reduceImport(s, step)
      [] c = "delete"        -> reduceDelete(s, step)
      [] c = "deleteVersion" -> reduceDeleteVersion(s, step)

(***************************************************************************)
(* The effects.                                                            *)
(***************************************************************************)
selectInitialListQuery(s, page) ==
    [page |-> page, query |-> Query(s.grid["modules"]), of |-> None]

fetchModules(x) == Debounce(x, x.st, "all", None)

fetchModulesPage(x, page) ==
    Debounce(x, reduceModulesPage(x.st, "start", None, FALSE), "modules", page)

\* The tags of the modules that the filters and the search let through.
Offered(s) == <<s.grid["modules"].filters, s.grid["modules"].search>>

fetchModulesTags(x) ==
    Request(x, reduceModulesTags(x.st, "start", None), "tags", [of |-> Offered(x.st)])

fetchModuleVersions(x, name) == Request(x, reduceVersions(x.st, "start", None), "versions", [of |-> name])

SendModules(x)     == Sent(x, "all", None)
SendModulesPage(x) == Sent(x, "modules", selectInitialListQuery(x.st, x.timer["modules"][1]))

\* setGridFiltration$ and setGridFilterItems$.  A search and the filter by a
\* tag leave the tags that the column offers as they are.
OnNarrowed(x, s, filtered) ==
    LET y == fetchModulesPage(Reduced(x, s), 1)
    IN IF filtered THEN Settle(fetchModulesTags(y), "offered") ELSE y

startCommand(x, c) == Request(x, reduceCommand(x.st, c, "start"), c, None)

answerCommand(x, c, ok) ==
    LET y == Done(x, c, reduceCommand(x.st, c, Outcome(ok)))
    IN CASE c = "create" /\ ok                      -> Reduced(y, selectModules(y.st, {NewModule}))
         [] c \in {"delete", "deleteVersion"} /\ ok -> fetchModulesPage(y, 1)
         [] OTHER                                   -> y

(***************************************************************************)
(* The page.                                                               *)
(***************************************************************************)
Do(x, u) == store' = x /\ ui' = u
User(x)  == ops < MaxOps /\ ops' = ops + 1 /\ Do(x, ui)

EnterList(x, search) == fetchModulesTags(fetchModulesPage(Reduced(x, reduceRestore(x.st, search)), 1))

OpenList ==
    /\ ops < MaxOps /\ ops' = ops + 1 /\ ui.page = "none"
    /\ \E v \in Searches : Do(EnterList(store, v), [ui EXCEPT !.page = "list"])

Leave(x, u) == Do(Reduced(x, InitialState), [u EXCEPT !.page = "none", !.importFailed = FALSE])

ClosePage ==
    /\ ops < MaxOps /\ ops' = ops + 1 /\ ui.page = "list"
    /\ Leave(store, ui)

ListGrid ==
    LET Change(grid, filtered) == OnNarrowed(store, reduceGrid(store.st, grid), filtered)
    IN /\ ui.page = "list" /\ Follows(store, "modules")
       /\ \/ \E v \in Searches : User(Excuse(Change([store.st.grid["modules"] EXCEPT !.search = v], FALSE), "offered"))
          \/ \E v \in {0, 1} : User(Change([store.st.grid["modules"] EXCEPT !.sort = v], FALSE))
          \/ \E t \in SUBSET Tags :
               User(Change([store.st.grid["modules"] EXCEPT !.filters = getGridFiltration(@, "tags", t)], TRUE))
          \/ \E t \in Tags :
               User(Excuse(Change([store.st.grid["modules"] EXCEPT !.filters = getGridFiltrationByTag(@, t)], FALSE),
                           "offered"))
          \/ User(Change([store.st.grid["modules"] EXCEPT !.filters = NoFilters], TRUE))

ListNextPage ==
    /\ ui.page = "list" /\ store.st.grid["modules"].rows # <<>> /\ Follows(store, "modules")
    /\ User(NextPage(store, fetchModulesPage(store, store.st.grid["modules"].page + 1), "modules", FALSE))

RefreshData ==
    /\ ui.page = "list" /\ Follows(store, "modules")
    /\ User(fetchModulesPage(store, 1))

OnGridSelectRows ==
    /\ ui.page = "list" /\ \E c \in Commands : Follows(store, c)
    /\ \E ids \in SUBSET Modules : User(Reduced(store, selectModules(resetModuleErrors(store.st), ids)))

\* The panel that creates a module fetches all modules, to compare names.
OpenSidePanel ==
    /\ ui.page = "list" /\ Follows(store, "all")
    /\ User(fetchModules(store))

ShowVersions ==
    /\ ui.page = "list" /\ \E id \in Modules : store.st.selectedIds = {id} /\ User(fetchModuleVersions(store, id))

Command(c) ==
    /\ ui.page = "list" /\ Follows(store, c) /\ c \notin store.st.busy
    /\ User(startCommand(store, c))

CreateModule == Command("create")
ImportModule == Command("import")
DeleteModule ==
    /\ Cardinality(store.st.selectedIds) = 1
    /\ \E c \in {"delete", "deleteVersion"} : Command(c)

\* The import dialog is closed.
CancelImport ==
    /\ ui.page = "list" /\ ui.importFailed
    /\ ops < MaxOps /\ ops' = ops + 1
    /\ Do(Reduced(store, resetImportState(store.st)), [ui EXCEPT !.importFailed = FALSE])

(***************************************************************************)
(* Timers and answers.                                                     *)
(***************************************************************************)
Tick ==
    /\ \/ Waiting(store, "modules") /\ Do(SendModulesPage(store), ui)
       \/ Waiting(store, "all")     /\ Do(SendModules(store), ui)
    /\ UNCHANGED ops

\* All modules are shown where the query lets only some through.
AnswerModules(ok) ==
    /\ UnderWay(store, "all")
    /\ Do(IF ok THEN Excuse(Done(store, "all", reduceModules(store.st)), "modules")
          ELSE Done(store, "all", store.st), ui)
    /\ UNCHANGED ops

AnswerModulesPage(ok, empty) ==
    /\ UnderWay(store, "modules")
    /\ LET s == reduceModulesPage(store.st, Outcome(ok), store.http["modules"][1], empty)
       IN Do(PageAnswered(store, "modules", s, ok), ui)
    /\ UNCHANGED ops

AnswerTags(ok) ==
    /\ UnderWay(store, "tags")
    /\ LET x == Done(store, "tags", reduceModulesTags(store.st, Outcome(ok),
                                                      store.http["tags"][1]))
       IN Do(IF ok THEN Settle(x, "tags") ELSE Excuse(x, "tags"), ui)
    /\ UNCHANGED ops

AnswerVersions(ok) ==
    /\ UnderWay(store, "versions")
    /\ Do(Done(store, "versions", reduceVersions(store.st, Outcome(ok),
                                                 store.http["versions"][1])), ui)
    /\ UNCHANGED ops

\* A module that was created is opened by a user who may edit it.
OnCreated(x) == IF ui.editor THEN Leave(x, ui) ELSE Do(x, ui)

\* An error that the import dialog reported hides every later success from it
\* until it is closed; otherwise it closes and the list is fetched again.
OnImported(x, ok) ==
    CASE ~ok                    -> Do(x, [ui EXCEPT !.importFailed = TRUE])
      [] ok /\ ui.importFailed  -> Do(x, ui)
      [] OTHER                  -> Do(fetchModulesPage(Reduced(x, resetImportState(x.st)), 1), ui)

AnswerCommand(c, ok) ==
    /\ UnderWay(store, c)
    /\ LET x    == answerCommand(store, c, ok)
           seen == ui.page = "list" /\ c \in store.st.busy
       IN CASE c = "create" /\ ui.page = "list" /\ ok -> OnCreated(x)
            [] c = "import" /\ seen                   -> OnImported(x, ok)
            [] OTHER                                  -> Do(x, ui)
    /\ UNCHANGED ops

Answer ==
    \E ok \in BOOLEAN :
        \/ AnswerModules(ok) \/ AnswerTags(ok) \/ AnswerVersions(ok)
        \/ \E empty \in BOOLEAN : AnswerModulesPage(ok, empty)
        \/ \E c \in Commands : AnswerCommand(c, ok)

Init ==
    /\ \E slice \in Slices : store = NewStore(InitialState, slice)
    /\ \E editor \in BOOLEAN : ui = [page |-> "none", editor |-> editor, importFailed |-> FALSE]
    /\ ops = 0

Next ==
    \/ OpenList \/ ClosePage \/ ListGrid \/ ListNextPage \/ RefreshData \/ OnGridSelectRows
    \/ OpenSidePanel \/ ShowVersions \/ CreateModule \/ ImportModule
    \/ DeleteModule \/ CancelImport \/ Tick \/ Answer

Spec == Init /\ [][Next]_vars

----------------------------------------------------------------------------
TypeOK == StateOK(store.st) /\ ops \in 0..MaxOps

\* Once nothing is under way, the list holds the pages of its query in order
\* and its column offers the tags of those rows.  Excused: a request failed,
\* the next page overtook another request, all modules were fetched for the
\* panel that creates one, a search or a tag narrowed the list (the tags are
\* not fetched then).
ListSettled ==
    (ui.page = "list" /\ Quiet(store))
        => /\ "modules" \notin store.log => Answers(store.st.grid["modules"], None)
           /\ Follows(store, "tags") /\ store.log \cap {"tags", "offered"} = {} =>
                store.st.items["modules"] = Offered(store.st)

\* A flag that shows a spinner or disables a button goes with a request.
BusyPending ==
    \A f \in store.st.busy : Pending(store, f)
=============================================================================
