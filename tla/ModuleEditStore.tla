-------------------------- MODULE ModuleEditStore --------------------------
(***************************************************************************)
(* The page on which a module is edited: libs/store/modules/src/lib/edit   *)
(* (reducer, effects, facade) driven by edit-module-page, its sections and *)
(* its dialogs in libs/features/modules.  What the sections do to the      *)
(* schemas is in ModuleSections; here a module is its version, its state,  *)
(* a body that stands for the sections' content, a changelog and its       *)
(* static dependencies.  A body or changelog is the stamp of its last edit.*)
(***************************************************************************)
EXTENDS StoreKit

CONSTANTS Names,         \* modules
          Versions,      \* versions a module can have: 1..n
          Slices,        \* bound: sets of effects a behaviour follows, see StoreKit
          MaxOps         \* bound: operations of the user

VARIABLES store,         \* the store, see StoreKit
          ui,            \* the page: name and version of its route, the sections'
                         \* forms, what the user asked for; and the server's modules
          ops            \* history: operations so far

vars == <<store, ui, ops>>

Latest   == 0
Commands == {"save", "release", "createDraft", "updateInPolicies", "delete", "deleteVersion"}
Effects  == Commands \cup {"module", "versions", "updates", "byName", "allModules", "agentVersions"}
Sections == {"general", "dependencies", "changelog"}

(***************************************************************************)
(* Dependencies, in the order of static_dependencies.                      *)
(***************************************************************************)
OfType(deps, t)    == SelectSeq(deps, LAMBDA d : d.type = t)
NotOfType(deps, t) == SelectSeq(deps, LAMBDA d : d.type # t)
Dep(t, name)       == [type |-> t, name |-> name]

changeAgentVersion(deps, v) ==
    NotOfType(deps, "agent") \o IF v = None THEN <<>> ELSE <<Dep("agent", v)>>

changeReceiveDataDependencies(deps, names) ==
    NotOfType(deps, "receive") \o [i \in DOMAIN names |-> Dep("receive", names[i])]

\* mutant: the dependencies of the other type are taken out
changeSendDropReceive(deps, names) ==
    NotOfType(deps, "receive") \o [i \in DOMAIN names |-> Dep("send", names[i])]

changeSendDataDependencies(deps, names) ==
    NotOfType(deps, "send") \o [i \in DOMAIN names |-> Dep("send", names[i])]

selectAgentVersionDependency(deps) ==
    LET found == OfType(deps, "agent") IN IF found = <<>> THEN None ELSE found[1].name
selectDataDependencies(deps, t) ==
    LET found == OfType(deps, t) IN [i \in DOMAIN found |-> found[i].name]

(***************************************************************************)
(* The reducer.                                                            *)
(***************************************************************************)
InitialState ==
    [module |-> <<>>, original |-> <<>>, versions |-> {}, updates |-> <<>>, byName |-> {},
     invalid |-> {}, busy |-> {}, errors |-> {}]

Key(m) == <<m.name, m.version>>

StateOK(s) ==
    /\ Len(s.module) <= 1 /\ Len(s.original) = Len(s.module)
    /\ \A i \in DOMAIN s.module : s.module[i].name \in Names /\ s.module[i].version \in Versions
    /\ s.versions \subseteq Versions /\ s.invalid \subseteq Sections
    /\ s.busy \subseteq Effects /\ s.errors \subseteq Commands

\* mutant: the policies to update stay those of the module before
reduceModuleKeepUpdates(s, step, m, versions) ==
    LET t == ReduceFlag(s, "module", step)
    IN IF step = "success" THEN [t EXCEPT !.module = <<m>>, !.original = <<m>>, !.versions = versions] ELSE t

reduceModule(s, step, m, versions) ==
    LET t == ReduceFlag(s, "module", step)
    IN IF step = "success"
       THEN [t EXCEPT !.module = <<m>>, !.original = <<m>>, !.versions = versions, !.updates = Key(m)] ELSE t

reduceVersions(s, step, versions) ==
    LET t == ReduceFlag(s, "versions", step)
    IN IF step = "success" THEN [t EXCEPT !.versions = versions] ELSE t

reduceUpdates(s, key) == [s EXCEPT !.updates = key]

\* mutant: the module counts as saved when the save starts
reduceSaveEarly(s, step) ==
    CASE step = "start"   -> [Flag(s, "save") EXCEPT !.original = s.module]
      [] step = "success" -> Unflag(s, "save")
      [] step = "failure" -> [Unflag(s, "save") EXCEPT !.errors = @ \cup {"save"}]

\* The error of the last save is not taken away when the next one starts.
reduceSave(s, step) ==
    LET t == ReduceFlag(s, "save", step)
    IN CASE step = "start"   -> t
         [] step = "success" -> [t EXCEPT !.original = s.module]
         [] step = "failure" -> [t EXCEPT !.errors = @ \cup {"save"}]

reduceRelease(s, step)          == ReduceCommand(s, "release", step)
reduceCreateDraft(s, step)      == ReduceCommand(s, "createDraft", step)
reduceDelete(s, c, step)        == ReduceCommand(s, c, step)
reduceUpdateInPolicies(s, step) == ReduceCommand(s, "updateInPolicies", step)

reduceCommand(s, c, step) ==
    CASE c = "save"             -> reduceSave(s, step)
      [] c = "release"          -> reduceRelease(s, step)
      [] c = "createDraft"      -> reduceCreateDraft(s, step)
      [] c = "updateInPolicies" -> reduceUpdateInPolicies(s, step)
      [] OTHER                  -> reduceDelete(s, c, step)

updateGeneralSection(s, body) == [s EXCEPT !.module[1].body = body, !.invalid = @ \ {"general"}]

updateChangelogSection(s, log) == [s EXCEPT !.module[1].log = log, !.invalid = @ \ {"changelog"}]

reduceDependencies(s, deps, t) ==
    [s EXCEPT !.module[1].deps = deps, !.invalid = IF t = "agent" THEN @ ELSE @ \ {"dependencies"}]

setValidationState(s, sections, ok) ==
    [s EXCEPT !.invalid = IF ok THEN @ \ sections ELSE @ \cup sections]

resetOperationErrors(s) == [s EXCEPT !.errors = @ \ {"release", "delete", "deleteVersion"}]

reduceByName(s, step, name) ==
    LET t == ReduceFlag(s, "byName", step)
    IN IF step = "success" THEN [t EXCEPT !.byName = @ \cup {name}] ELSE t

reduceOffers(s, e, step) == ReduceFlag(s, e, step)

\* Section by section, module and original are compared.  The body stands for
\* the sections but those of the dependencies and of the changelog.
Differs(s, part) == s.module # <<>> /\ s.module[1][part] # s.original[1][part]

selectIsDirtyBody(s)                    == Differs(s, "body")
selectIsDirtyStaticDependenciesModel(s) == Differs(s, "deps")
selectIsDirtyChangelogModel(s)          == Differs(s, "log")

selectIsDirty(s) ==
    selectIsDirtyBody(s) \/ selectIsDirtyStaticDependenciesModel(s) \/ selectIsDirtyChangelogModel(s)

(***************************************************************************)
(* The effects.                                                            *)
(***************************************************************************)
\* mutant: exhaustMap, a module is not fetched while another is
fetchModuleExhaust(x, name, version, chosen) ==
    IF UnderWay(x, "module") THEN x
    ELSE Request(x, reduceModule(x.st, "start", <<>>, {}), "module",
                 [name |-> name, version |-> version, chosen |-> chosen])

\* chosen: by the page, and not by the answer to a release or a draft.
fetchModule(x, name, version, chosen) ==
    Request(x, reduceModule(x.st, "start", <<>>, {}), "module",
            [name |-> name, version |-> version, chosen |-> chosen])

fetchModuleVersions(x, name) == Request(x, reduceVersions(x.st, "start", {}), "versions", [name |-> name])

fetchModuleUpdates(x, name, version) ==
    Request(x, x.st, "updates", [name |-> name, version |-> version])

\* mergeMap: every request for the versions of a dependency stays under way.
fetchModuleVersionByName(x, name) ==
    IF ~Follows(x, "byName") THEN x
    ELSE [x EXCEPT !.st = reduceByName(x.st, "start", name), !.http["byName"] = Append(@, name)]

fetchOffers(x, e) == Request(x, reduceOffers(x.st, e, "start"), e, None)

startCommand(x, c, req) == Request(x, reduceCommand(x.st, c, "start"), c, req)

(***************************************************************************)
(* The server (private/modules.go), as these requests see it: module ->    *)
(* version -> <<>> or what is stored.                                      *)
(***************************************************************************)
VersionsOf(server, name) == {v \in Versions : server[name][v] # <<>>}
LatestOf(server, name)   == CHOOSE v \in VersionsOf(server, name) :
                               \A w \in VersionsOf(server, name) : w <= v
Resolve(server, req) ==
    IF req.version = Latest /\ VersionsOf(server, req.name) # {} THEN LatestOf(server, req.name)
    ELSE req.version

NewModule(name, version, released) ==
    [name |-> name, version |-> version, released |-> released, body |-> 0,
     log |-> <<<<name, version>>, 0>>, deps |-> <<>>]

----------------------------------------------------------------------------
(***************************************************************************)
(* The page.  While a module loads, the sections make room for a loader:   *)
(* they are built anew from what has come.                                 *)
(***************************************************************************)
FormOf(deps) == [agent |-> selectAgentVersionDependency(deps),
                 receive |-> selectDataDependencies(deps, "receive"),
                 send |-> selectDataDependencies(deps, "send")]

\* Rows the form lacks are added, the others are set; none is removed.
Rows(old, new) == [i \in 1..(IF Len(old) > Len(new) THEN Len(old) ELSE Len(new)) |->
                       IF i \in DOMAIN new THEN new[i] ELSE old[i]]

watchStore(form, deps) ==
    LET now == FormOf(deps)
    IN [now EXCEPT !.receive = Rows(form.receive, @), !.send = Rows(form.send, @)]

\* For every dependency whose versions are not known they are asked for.
FetchUnknown(x, deps) ==
    LET data == SelectSeq(deps, LAMBDA d : d.type # "agent" /\ d.name \notin x.st.byName)
    IN FoldLeft(LAMBDA y, d : fetchModuleVersionByName(y, d.name), x, data)

NoForm == FormOf(<<>>)

\* The changelog's form waits in debounceTime, and is not stopped when its
\* section goes: an entry of ui.logs that is not live belongs to a section
\* that is gone.  Timers run out in the order they were set.
Gone(logs) == [i \in DOMAIN logs |-> [logs[i] EXCEPT !.live = FALSE]]

\* mutant: the form is reported before the store has filled it
FilledEmpty(logs, log) == Append(Gone(logs), [live |-> TRUE, log |-> <<<<None, None>>, 0>>])

Filled(logs, log) == Append(Gone(logs), [live |-> TRUE, log |-> log])

Typed(logs, log) == Append(SelectSeq(logs, LAMBDA e : ~e.live), [live |-> TRUE, log |-> log])

\* The sections appear: the forms are filled, the lists to choose from fetched.
ShowSections(x, m) == FetchUnknown(fetchOffers(fetchOffers(x, "allModules"), "agentVersions"), m.deps)

Loaded(s) == s.module # <<>> /\ "module" \notin s.busy
Module    == store.st.module[1]

Do(x, u)   == store' = x /\ ui' = u
Step(x, u) == ops < MaxOps /\ ops' = ops + 1 /\ Do(x, u)

\* What the user wants to see, and the fetch that brings it.
Ask(u, name, version) == [u EXCEPT !.asked = <<name, version>>]
loadModule(x, u, version) == fetchModule(x, u.name, version, TRUE)

\* The store is not reset when a page is left.
LeavePage(u) == [u EXCEPT !.name = None, !.form = NoForm, !.logs = Gone(@)]

OpenPage ==
    /\ ui.name = None
    /\ \E name \in Names :
         LET u == Ask([ui EXCEPT !.name = name, !.version = Latest], name, Latest)
         IN Step(loadModule(Settle(store, "module"), u, Latest), u)

ClosePage ==
    /\ ui.name # None
    /\ Step(store, LeavePage(ui))

\* No question is asked here when there are unsaved edits.
selectVersion ==
    /\ ui.name # None /\ store.st.module # <<>>
    /\ \E v \in store.st.versions :
         LET u == Ask([ui EXCEPT !.version = v], ui.name, v)
         IN Step(loadModule(store, u, v), u)

CanEdit == ui.name # None /\ Loaded(store.st) /\ ~Module.released

Edit ==
    /\ CanEdit
    /\ Step(Reduced(store, updateGeneralSection(store.st, ops + 1)), ui)

EditChangelog ==
    /\ CanEdit /\ ui.logs # <<>>
    /\ Step(store, [ui EXCEPT !.logs = Typed(@, <<Key(Module), ops + 1>>)])

DeleteChangelogRecord ==
    /\ CanEdit
    /\ LET log == <<Key(Module), 0>>
       IN Step(Reduced(store, [store.st EXCEPT !.module[1].log = log]), [ui EXCEPT !.logs = Typed(@, log)])

\* A row of the dependencies' form is added, filled in or removed.
ChangeRows(rows) ==
    {Append(rows, 0)} \cup {RemoveAt(rows, i) : i \in DOMAIN rows}
        \cup {[rows EXCEPT ![i] = n] : i \in DOMAIN rows, n \in Names}

EditDependencies ==
    /\ CanEdit /\ Follows(store, "byName")
    /\ \E t \in {"agent", "receive", "send"} :
       \E new \in CASE t = "agent"   -> {changeAgentVersion(Module.deps, v) : v \in {None, 1}}
                    [] t = "receive" -> {changeReceiveDataDependencies(Module.deps, r) : r \in ChangeRows(ui.form.receive)}
                    [] t = "send"    -> {changeSendDataDependencies(Module.deps, r) : r \in ChangeRows(ui.form.send)} :
         LET typed == IF t = "agent" THEN ui.form ELSE [ui.form EXCEPT ![t] = selectDataDependencies(new, t)]
         IN Step(FetchUnknown(Reduced(store, reduceDependencies(store.st, new, t)), new),
                 [ui EXCEPT !.form = watchStore(typed, new)])

\* Fields that no event and no action uses are removed, if the user agrees.
processUnusedFields(s, body) == [s EXCEPT !.module[1].body = body]

\* save asks every section to validate its forms; they answer in later tasks.
Save ==
    /\ CanEdit /\ Follows(store, "save") /\ selectIsDirty(store.st) /\ ~ui.validating
    /\ \E s \in {store.st, processUnusedFields(store.st, ops + 1)} :
         Step(Reduced(store, s), [ui EXCEPT !.validating = TRUE])

\* The module that is saved is the one the store holds now.
doSave ==
    /\ ui.validating
    /\ \E bad \in {{}} \cup {{s} : s \in Sections} :
         LET s == setValidationState(setValidationState(store.st, Sections, TRUE), bad, FALSE)
         IN Do(IF bad = {} THEN startCommand(Reduced(store, s), "save", Module) ELSE Reduced(store, s),
               [ui EXCEPT !.validating = FALSE])
    /\ UNCHANGED ops

\* The dialog sends what the store holds, unsaved edits included.
Release ==
    /\ CanEdit /\ Follows(store, "release")
    /\ Step(startCommand(Reduced(store, resetOperationErrors(store.st)), "release", Module),
            Ask(ui, Module.name, Module.version))

CreateDraft ==
    /\ ui.name # None /\ Loaded(store.st) /\ Follows(store, "createDraft")
    /\ \A v \in store.st.versions : ui.server[Module.name][v] # <<>> => ui.server[Module.name][v][1].released
    /\ \E v \in Versions :
         /\ \A w \in store.st.versions : w < v
         /\ Step(startCommand(store, "createDraft", [name |-> Module.name, version |-> v]),
                 Ask(ui, Module.name, v))

\* The version is the one of the route.
updateInPolicies ==
    /\ ui.name # None /\ store.st.updates # <<>> /\ Follows(store, "updateInPolicies")
    /\ Step(startCommand(store, "updateInPolicies", [name |-> ui.name, version |-> ui.version]), ui)

Delete ==
    /\ ui.name # None /\ Loaded(store.st)
    /\ \E c \in {"delete", "deleteVersion"} :
         /\ Follows(store, c)
         /\ Step(startCommand(store, c, [name |-> Module.name, version |-> Module.version]), ui)

(***************************************************************************)
(* Timers and answers.                                                     *)
(***************************************************************************)
\* A section that is gone writes its changelog into the module that is there;
\* the form of the section on the screen follows the store.
watchModel ==
    /\ ui.logs # <<>> /\ store.st.module # <<>>
    /\ LET e    == Head(ui.logs)
           x    == Reduced(store, updateChangelogSection(store.st, e.log))
           live == \E i \in DOMAIN ui.logs : ui.logs[i].live
       IN IF e.log[1] = Key(Module) THEN Do(x, [ui EXCEPT !.logs = Tail(@)])
          ELSE Do(IF e.live THEN x ELSE Excuse(x, "changelog"),
                  [ui EXCEPT !.logs = IF live THEN Typed(Tail(@), e.log) ELSE Tail(@)])
    /\ UNCHANGED ops

AnswerModule(ok) ==
    /\ UnderWay(store, "module")
    /\ LET req == store.http["module"][1]
           v   == Resolve(ui.server, req)
           m   == ui.server[req.name][v][1]
       IN IF ok /\ v \in VersionsOf(ui.server, req.name)
          THEN LET x == Done(store, "module", reduceModule(store.st, "success", m, VersionsOf(ui.server, req.name)))
                   y == [x EXCEPT !.log = @ \ {"updates", "unsaved"}]
                   z == CASE ui.asked \in {<<req.name, req.version>>, <<req.name, v>>} -> Settle(y, "module")
                          [] req.chosen -> y
                          [] OTHER      -> Excuse(y, "module")
               IN IF ui.name = None THEN Do(z, ui)
                  ELSE Do(ShowSections(z, m), [ui EXCEPT !.form = FormOf(m.deps), !.logs = Filled(@, m.log)])
          ELSE Do(Excuse(Done(store, "module", reduceModule(store.st, "failure", m, {})), "module"), ui)
    /\ UNCHANGED ops

AnswerVersions(ok) ==
    /\ UnderWay(store, "versions")
    /\ Do(Done(store, "versions",
               reduceVersions(store.st, Outcome(ok),
                              VersionsOf(ui.server, store.http["versions"][1].name))), ui)
    /\ UNCHANGED ops

AnswerUpdates(ok) ==
    /\ UnderWay(store, "updates")
    /\ LET req == store.http["updates"][1]
           key == <<req.name, Resolve(ui.server, req)>>
           own == store.st.module # <<>> /\ key = Key(Module)
           x   == Done(store, "updates", IF ok THEN reduceUpdates(store.st, key) ELSE store.st)
       IN Do(IF ok /\ own THEN Settle(x, "updates") ELSE Excuse(x, "updates"), ui)
    /\ UNCHANGED ops

AnswerByName(ok) ==
    /\ UnderWay(store, "byName")
    /\ \E i \in DOMAIN store.http["byName"] :
         LET name == store.http["byName"][i]
             x    == [store EXCEPT !.st = reduceByName(@, Outcome(ok), name),
                                   !.http["byName"] = RemoveAt(@, i)]
         IN Do(IF ok THEN x ELSE Excuse(x, "byName"), ui)
    /\ UNCHANGED ops

AnswerOffers(e, ok) ==
    /\ UnderWay(store, e)
    /\ Do(Done(store, e, reduceOffers(store.st, e, Outcome(ok))), ui)
    /\ UNCHANGED ops

\* A draft starts from the latest version.
Draft(server, req) ==
    <<[server[req.name][LatestOf(server, req.name)][1] EXCEPT
           !.version = req.version, !.released = FALSE, !.log = <<<<req.name, req.version>>, 0>>]>>

\* What a command changes on the server.
Stored(c, req) ==
    CASE c = "save"          -> [ui.server EXCEPT ![req.name][req.version] = <<req>>]
      [] c = "release"       -> [ui.server EXCEPT ![req.name][req.version] = <<[req EXCEPT !.released = TRUE]>>]
      [] c = "createDraft"   -> [ui.server EXCEPT ![req.name][req.version] = Draft(ui.server, req)]
      [] c = "deleteVersion" -> [ui.server EXCEPT ![req.name][req.version] = <<>>]
      [] c = "delete"        -> [ui.server EXCEPT ![req.name] = [v \in Versions |-> <<>>]]
      [] OTHER               -> ui.server

\* The server changes drafts only, makes a draft when there is none and its
\* version is above the others, and keeps the last version of a module.
Possible(c, req) ==
    CASE c \in {"save", "release"} -> /\ ui.server[req.name][req.version] # <<>>
                                      /\ ~ui.server[req.name][req.version][1].released
      [] c = "createDraft"         -> /\ VersionsOf(ui.server, req.name) # {}
                                      /\ \A v \in VersionsOf(ui.server, req.name) :
                                           ui.server[req.name][v][1].released /\ v < req.version
      [] c = "deleteVersion"       -> /\ ui.server[req.name][req.version] # <<>>
                                      /\ Cardinality(VersionsOf(ui.server, req.name)) > 1
      [] c = "delete"              -> VersionsOf(ui.server, req.name) # {}
      [] OTHER                     -> TRUE

\* What the server may hold after it has answered with an error.  The database
\* is written before the files and the policies are; only the row of a draft is
\* written last.
Left(c, req) ==
    {ui.server} \cup IF Possible(c, req) /\ c # "createDraft" THEN {Stored(c, req)} ELSE {}

\* A command that failed may have been carried out, and the page does not learn
\* of it before it fetches the module again.
Unheard(x, server) == IF server = ui.server THEN x ELSE Excuse(x, "unsaved")

AnswerSave(ok) ==
    /\ UnderWay(store, "save")
    /\ LET req  == store.http["save"][1]
           good == ok /\ Possible("save", req)
           x    == Done(store, "save", reduceSave(store.st, IF good THEN "success" ELSE "failure"))
           \* What was typed while the save was under way counts as saved.
           y    == IF store.st.module = <<req>> THEN x ELSE Excuse(x, "unsaved")
       IN IF good THEN Do(fetchModuleUpdates(y, req.name, req.version), [ui EXCEPT !.server = Stored("save", req)])
          ELSE \E server \in Left("save", req) : Do(Unheard(x, server), [ui EXCEPT !.server = server])
    /\ UNCHANGED ops

\* A release and a draft fetch their own version, whatever has been chosen since.
AnswerRelease(c, ok) ==
    /\ UnderWay(store, c)
    /\ LET req  == store.http[c][1]
           good == ok /\ Possible(c, req)
           x    == Done(store, c, reduceCommand(store.st, c, IF good THEN "success" ELSE "failure"))
       IN IF good THEN Do(fetchModuleVersions(fetchModule(x, req.name, req.version, FALSE), req.name),
                          [ui EXCEPT !.server = Stored(c, req)])
          ELSE \E server \in Left(c, req) : Do(Excuse(Unheard(x, server), "module"), [ui EXCEPT !.server = server])
    /\ UNCHANGED ops

AnswerUpdateInPolicies(ok) ==
    /\ UnderWay(store, "updateInPolicies")
    /\ LET req == store.http["updateInPolicies"][1]
           x   == Done(store, "updateInPolicies", reduceUpdateInPolicies(store.st, Outcome(ok)))
       IN Do(IF ok THEN fetchModuleUpdates(x, req.name, req.version) ELSE x, ui)
    /\ UNCHANGED ops

\* The versions of the list still hold the deleted one; the route may not name it.
goLatestVersion(x, u) ==
    IF x.st.versions \ {u.version} # {} THEN <<loadModule(x, u, Latest), Ask(u, u.name, Latest)>>
    ELSE <<x, LeavePage(u)>>

goToList(x, u) == <<x, LeavePage(u)>>

\* The dialog hears of the end before it hears of the error, see ModuleListStore:
\* a deletion that failed moves on, too.
AnswerDelete(c, ok) ==
    /\ UnderWay(store, c)
    /\ LET req  == store.http[c][1]
           good == ok /\ Possible(c, req)
           x    == Done(store, c, reduceDelete(store.st, c, IF good THEN "success" ELSE "failure"))
       IN \E server \in IF good THEN {Stored(c, req)} ELSE Left(c, req) :
            LET u == [ui EXCEPT !.server = server]
                y == Unheard(x, server)
                p == CASE u.name = None -> <<y, u>>
                       [] c = "delete"  -> goToList(y, u)
                       [] OTHER         -> goLatestVersion(y, u)
            IN Do(p[1], p[2])
    /\ UNCHANGED ops

Answer ==
    \E ok \in BOOLEAN :
        \/ AnswerModule(ok) \/ AnswerVersions(ok) \/ AnswerUpdates(ok) \/ AnswerByName(ok)
        \/ \E e \in {"allModules", "agentVersions"} : AnswerOffers(e, ok)
        \/ AnswerSave(ok) \/ AnswerUpdateInPolicies(ok)
        \/ \E c \in {"release", "createDraft"} : AnswerRelease(c, ok)
        \/ \E c \in {"delete", "deleteVersion"} : AnswerDelete(c, ok)

\* Modules differ in the versions they have at first: of the first one there is
\* a draft, of the others a release as well, where two versions are possible.
AtFirst(n) ==
    IF n > 1 /\ 2 \in Versions
    THEN [v \in Versions |-> IF v <= 2 THEN <<NewModule(n, v, v = 1)>> ELSE <<>>]
    ELSE [v \in Versions |-> IF v = 1 THEN <<NewModule(n, 1, FALSE)>> ELSE <<>>]

Init ==
    /\ \E slice \in Slices : store = NewStore(InitialState, slice)
    /\ ui = [name |-> None, version |-> Latest, asked |-> <<None, Latest>>, form |-> NoForm, logs |-> <<>>,
             validating |-> FALSE, server |-> [n \in Names |-> AtFirst(n)]]
    /\ ops = 0

Next ==
    \/ OpenPage \/ ClosePage \/ selectVersion
    \/ Edit \/ EditChangelog \/ DeleteChangelogRecord \/ EditDependencies
    \/ Save \/ doSave \/ Release \/ CreateDraft \/ updateInPolicies \/ Delete
    \/ watchModel \/ Answer

Spec == Init /\ [][Next]_vars

----------------------------------------------------------------------------
Settled == ui.name # None /\ Quiet(store) /\ store.st.module # <<>> /\ "module" \notin store.log

TypeOK == StateOK(store.st) /\ ops \in 0..MaxOps

\* Once nothing is under way, the page shows the module and the version that
\* the user asked for last, by opening it, choosing it, releasing it or making
\* it, unless its fetch failed or the answer to an earlier release or draft
\* brought another version.
ModuleSettled ==
    Settled => ui.asked \in {Key(Module), <<Module.name, Latest>>}

\* A module without unsaved edits is the one the server has, unless something
\* was typed while a save was under way, or the server carried out what it
\* answered with an error.  The page can be left without a
\* question exactly when there are no unsaved edits.
CleanIsSaved ==
    (Settled /\ "unsaved" \notin store.log /\ ~selectIsDirty(store.st))
        => ui.server[Module.name][Module.version] = <<Module>>

\* Once nothing is under way, the policies that the page offers to update are
\* those of the version it shows, unless an answer about another came later.
UpdatesSettled ==
    (Settled /\ "updates" \notin store.log) => store.st.updates = Key(Module)

\* The changelog is the one of the module and the version that are shown,
\* unless the debounceTime of a section that is gone ended after they had come.
ChangelogOwn ==
    (Settled /\ "changelog" \notin store.log) => Module.log[1] = Key(Module)

\* The form shows the module's dependencies, whatever was added, changed and
\* removed in which order, and once nothing is under way the versions of each
\* of them are known.
DependenciesShown ==
    /\ (ui.name # None /\ Loaded(store.st) /\ Follows(store, "byName") /\ "module" \notin store.log)
         => ui.form = FormOf(Module.deps)
    /\ (Settled /\ Follows(store, "byName") /\ "byName" \notin store.log)
         => \A t \in {"receive", "send"} :
              {selectDataDependencies(Module.deps, t)[i] : i \in DOMAIN selectDataDependencies(Module.deps, t)}
                  \subseteq store.st.byName

\* A flag that shows a spinner or disables a button goes with a request; the
\* one for the versions of dependencies is taken down by the first answer.
BusyPending ==
    \A f \in store.st.busy : Pending(store, f)
=============================================================================
