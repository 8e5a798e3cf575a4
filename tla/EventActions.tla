--------------------------- MODULE EventActions ----------------------------
(***************************************************************************)
(* The actions that a module runs on its events, as the pages of an agent, *)
(* a group or a policy edit them (libs/shared/src/lib/components):         *)
(* assigning-actions-master (one action, its events), assigning-actions-   *)
(* to-event (one event, its actions), the reset of module-events and the   *)
(* event-details-panel.  Each takes a copy of the module the page holds,   *)
(* changes it and emits it to be saved.                                    *)
(*                                                                         *)
(* The module is its event configuration and its dynamic dependencies, the *)
(* modules whose actions it uses.  Actions have distinct names.  Events    *)
(* are numbers, in the order of their titles; 0 is the empty name.         *)
(***************************************************************************)
EXTENDS Integers, Sequences, FiniteSets, SequencesExt, FiniteSetsExt

CONSTANTS Events,
          ModuleOf,        \* action -> the module that offers it, "this" for log_to_db
          NeededFields,    \* action -> the fields it reads
          FieldsOf,        \* event -> the fields it has
          DefaultActions,  \* event -> its actions in default_event_config
          FirstActions,    \* event -> its actions at first
          MaxOps           \* bound: operations of the user

VARIABLES store,  \* the module on the page, and the saves under way
          ui,     \* the dialog that is open
          ops     \* history: operations so far

vars == <<store, ui, ops>>

Actions == DOMAIN ModuleOf
THIS_MODULE_NAME == "this"
LOG_TO_DB == CHOOSE a \in Actions : ModuleOf[a] = THIS_MODULE_NAME

Has(config, e, a)  == \E i \in DOMAIN config[e] : config[e][i] = a
UsedModules(config) == {ModuleOf[a] : a \in {b \in Actions : \E e \in Events : Has(config, e, b)}}

(***************************************************************************)
(* What the server accepts (checkModuleEvents of                           *)
(* src/pkg/app/api/models/init.go): every action's module is a dynamic     *)
(* dependency, every dynamic dependency is used, and an event has the      *)
(* fields its actions read.                                                *)
(***************************************************************************)
DependenciesValid(m) == m.deps = UsedModules(m.config) \ {THIS_MODULE_NAME}
FieldsValid(m)       == \A e \in Events, a \in Actions : Has(m.config, e, a) => NeededFields[a] \subseteq FieldsOf[e]
Accepted(m)          == DependenciesValid(m) /\ FieldsValid(m)

\* A configuration to start from.  The server has accepted the module as it comes
\* and its default configuration: no action without its fields (checkActions).
\* That no action is there twice is what the dialogs keep; the server does not
\* check it, so it is assumed of the start.  0 is the empty name.
ConfigOK(config) ==
    /\ config \in [Events -> Seq(Actions)]
    /\ \A e \in Events : \A i, j \in DOMAIN config[e] : config[e][i] = config[e][j] => i = j
    /\ \A e \in Events : \A i \in DOMAIN config[e] : NeededFields[config[e][i]] \subseteq FieldsOf[e]

ParametersOK ==
    /\ Events \subseteq Nat \ {0}
    /\ \E a \in Actions : ModuleOf[a] = THIS_MODULE_NAME
    /\ ConfigOK(FirstActions) /\ ConfigOK(DefaultActions)

(***************************************************************************)
(* Both dialogs keep dynamic_dependencies in the same way.                 *)
(***************************************************************************)
\* mutant: a dependency stays when its last action has gone
keepDynamicDependencies(m) == [m EXCEPT !.deps = @ \ {THIS_MODULE_NAME}]

clearDynamicDependencies(m) ==
    [m EXCEPT !.deps = {d \in m.deps : d # THIS_MODULE_NAME /\ d \in UsedModules(m.config)}]

AddDependency(m, a) == [m EXCEPT !.deps = @ \cup {ModuleOf[a]}]

\* A dependency stands for one of type to_make_action, the only type that the
\* repository's own writers give to current_config's dynamic dependencies.  The
\* dialogs look a dependency up by its module's name alone, while the server
\* counts those of that type: were there another, the dialog would add none.
updateDynamicDependencies(m, actions) ==
    [m EXCEPT !.deps = @ \cup {ModuleOf[a] : a \in {b \in actions : b # LOG_TO_DB}}]

\* A list of actions without a.
Erase(actions, a) ==
    LET kept[k \in 0 .. Len(actions)] ==
            IF k = 0 THEN <<>>
            ELSE IF actions[k] = a THEN kept[k - 1] ELSE Append(kept[k - 1], actions[k])
    IN kept[Len(actions)]

Without(config, a)  == [e \in Events |-> Erase(config[e], a)]

\* mutant: an event that has the action gets it again
WithAgain(config, a, es) == [e \in Events |-> IF e \in es THEN Append(config[e], a) ELSE config[e]]

With(config, a, es) == [e \in Events |-> IF e \in es /\ ~Has(config, e, a) THEN Append(config[e], a) ELSE config[e]]

(***************************************************************************)
(* The dialogs.  waits: the subscription of setSelectedEvents that has not *)
(* seen an event yet.  stray: an event the action cannot be assigned to    *)
(* has been marked, or marks or lists are those of another action.         *)
(***************************************************************************)
NoDialog == [kind |-> "none", step |-> 1, action |-> LOG_TO_DB, available |-> {}, unavailable |-> {},
             assigned |-> {}, marked |-> {}, markedSelected |-> {}, event |-> 0, selected |-> <<>>,
             waits |-> FALSE, stray |-> FALSE]

Operation == ops < MaxOps /\ ops' = ops + 1

Emit(by, m) == store' = [store EXCEPT !.pending = Append(@, [by |-> by, stray |-> ui.stray, m |-> m])]

Init ==
    /\ store = [module |-> [config |-> FirstActions, deps |-> UsedModules(FirstActions) \ {THIS_MODULE_NAME}],
                pending |-> <<>>]
    /\ ui = NoDialog
    /\ ops = 0

getEventAvailability(e, a)  == NeededFields[a] \subseteq FieldsOf[e]
getActionAvailability(a)    == \A e \in Events : ~getEventAvailability(e, a)

\* The first event offered is marked: the empty name if none is available.
MarkFirst(u) ==
    IF u.waits /\ u.available \cup u.unavailable # {}
    THEN [u EXCEPT !.waits = FALSE,
                   !.marked = @ \cup {IF u.available # {} THEN Min(u.available) ELSE 0}]
    ELSE u

setEventsData(u, a) ==
    LET available == {e \in Events : getEventAvailability(e, a)}
    IN MarkFirst([u EXCEPT !.action = a, !.available = available,
                           !.unavailable = Events \ available, !.assigned = {}])

\* Marks that were not made for the action that is chosen now.
LeftOver == ui.waits \/ ui.marked \cup ui.markedSelected # {}

openMaster ==
    /\ ui.kind = "none"
    /\ Operation
    /\ ui' = setEventsData([ui EXCEPT !.kind = "master", !.stray = LeftOver], LOG_TO_DB)
    /\ UNCHANGED store

\* The tree of actions: its filter, its grouping.  It is built anew when one of
\* them changes, and the first action is chosen, by title if there are no groups;
\* the lists of events stay those of the action before.
ActionNodes(filter) == {a \in Actions : a = LOG_TO_DB \/ filter = "all" \/ ~getActionAvailability(a)}

setActionsData(filter, grouping) ==
    /\ ui.kind = "master" /\ ui.step = 1
    /\ Operation
    /\ \E first \in ActionNodes(filter) :
          /\ grouping = "by-module" => first = LOG_TO_DB
          /\ ui' = [ui EXCEPT !.action = first, !.stray = @ \/ first # ui.action]
    /\ UNCHANGED store

onSelectAction(a) ==
    /\ ui.kind = "master" /\ ui.step = 1
    /\ Operation
    /\ ui' = setEventsData([ui EXCEPT !.stray = LeftOver], a)
    /\ UNCHANGED store

Move(u, moving) ==
    [u EXCEPT !.assigned = @ \cup moving, !.available = @ \ moving, !.marked = {}]

\* selectEvents for each event that has the action takes the marks along.
setSelectedEvents(u) ==
    LET with == {e \in Events : Has(store.module.config, e, u.action)}
    IN MarkFirst([(IF with # {} THEN Move(u, with \cup u.marked) ELSE u) EXCEPT !.waits = TRUE])

next ==
    /\ ui.kind = "master" /\ ui.step = 1
    /\ ~getActionAvailability(ui.action)
    /\ Operation
    /\ ui' = setSelectedEvents([ui EXCEPT !.step = 2, !.stray = @ \/ ui.marked # {}])
    /\ UNCHANGED store

\* The lists go with the step; whether they take their marks along is their own affair.
back ==
    /\ ui.kind = "master" /\ ui.step = 2
    /\ Operation
    /\ \E marked \in {ui.marked, {}}, selected \in {ui.markedSelected, {}} :
          ui' = [ui EXCEPT !.step = 1, !.marked = marked, !.markedSelected = selected]
    /\ UNCHANGED store

\* Unavailable events are in the list, too.
MarkEvents(es) ==
    /\ ui.kind = "master" /\ ui.step = 2
    /\ es \subseteq ui.available \cup ui.unavailable
    /\ Operation
    /\ ui' = [ui EXCEPT !.marked = es, !.stray = @ \/ ~(es \subseteq ui.available)]
    /\ UNCHANGED store

MarkSelected(es) ==
    /\ ui.kind = "master" /\ ui.step = 2
    /\ es \subseteq ui.assigned
    /\ Operation
    /\ ui' = [ui EXCEPT !.markedSelected = es]
    /\ UNCHANGED store

selectEvents(e) ==
    /\ ui.kind = "master" /\ ui.step = 2
    /\ e \in ui.available
    /\ Operation
    /\ ui' = Move(ui, ui.marked \cup {e})
    /\ UNCHANGED store

unselectEvent(e) ==
    /\ ui.kind = "master" /\ ui.step = 2
    /\ e \in ui.assigned
    /\ Operation
    /\ LET moving == ui.markedSelected \cup {e}
       IN ui' = MarkFirst([ui EXCEPT !.assigned = @ \ moving, !.available = @ \cup moving, !.markedSelected = {}])
    /\ UNCHANGED store

close ==
    \E selected \in {ui.markedSelected, {}} :
        ui' = [NoDialog EXCEPT !.markedSelected = selected, !.waits = ui.waits]

\* An empty name among the events makes save throw.
saveMaster ==
    /\ ui.kind = "master" /\ ui.step = 2
    /\ ui.assigned \subseteq Events
    /\ Operation
    /\ LET m == store.module
           new == [m EXCEPT !.config = With(Without(m.config, ui.action), ui.action, ui.assigned)]
       IN Emit("master", clearDynamicDependencies(AddDependency(new, ui.action)))
    /\ close

assignToAvailableEvents ==
    /\ ui.kind = "master" /\ ui.step = 1
    /\ ~getActionAvailability(ui.action)
    /\ ui.available \subseteq Events
    /\ Operation
    /\ LET new == [store.module EXCEPT !.config = With(@, ui.action, ui.available)]
       IN Emit("master", clearDynamicDependencies(AddDependency(new, ui.action)))
    /\ close

removeFromAllEvents ==
    /\ ui.kind = "master" /\ ui.step = 1
    /\ ~getActionAvailability(ui.action)
    /\ \E e \in Events : Has(store.module.config, e, ui.action)
    /\ Operation
    /\ Emit("master", clearDynamicDependencies([store.module EXCEPT !.config = Without(@, ui.action)]))
    /\ close

cancel ==
    /\ ui.kind # "none"
    /\ Operation
    /\ IF ui.kind = "master" THEN close ELSE ui' = [ui EXCEPT !.kind = "none"]
    /\ UNCHANGED store

(***************************************************************************)
(* The actions of one event.  An action the event lacks fields for cannot  *)
(* be ticked.                                                              *)
(***************************************************************************)
openEvent(e) ==
    /\ ui.kind = "none"
    /\ Operation
    /\ ui' = [ui EXCEPT !.kind = "event", !.event = e, !.selected = store.module.config[e]]
    /\ UNCHANGED store

\* mutant: every action can be ticked
TickableAny(e, a) == TRUE

Tickable(e, a) == NeededFields[a] \subseteq FieldsOf[e]

changeSelected(a) ==
    /\ ui.kind = "event"
    /\ Tickable(ui.event, a)
    /\ Operation
    /\ ui' = [ui EXCEPT !.selected = IF a \in ToSet(@) THEN Erase(@, a) ELSE Append(@, a)]
    /\ UNCHANGED store

resetToDefault ==
    /\ ui.kind = "event"
    /\ Operation
    /\ ui' = [ui EXCEPT !.selected = DefaultActions[ui.event]]
    /\ UNCHANGED store

saveEvent ==
    /\ ui.kind = "event"
    /\ Operation
    /\ LET new == [store.module EXCEPT !.config[ui.event] = ui.selected]
       IN Emit("event", clearDynamicDependencies(updateDynamicDependencies(new, ToSet(ui.selected))))
    /\ ui' = [ui EXCEPT !.kind = "none"]

(***************************************************************************)
(* The reset of the list of events, and the panel of one event after its   *)
(* own reset: both leave the dependencies as they are.                     *)
(***************************************************************************)
resetEvent(e) ==
    /\ ui.kind = "none"
    /\ Operation
    /\ Emit("reset", [store.module EXCEPT !.config[e] = DefaultActions[e]])
    /\ UNCHANGED ui

saveDetails(e) ==
    /\ ui.kind = "none"
    /\ Operation
    /\ \E actions \in {store.module.config[e], DefaultActions[e]} :
          Emit("details", [store.module EXCEPT !.config[e] = actions])
    /\ UNCHANGED ui

\* The server (PatchPolicyModule, "store") validates the module and saves it, or
\* fails; the page gets the module that is stored.
Answer ==
    /\ store.pending # <<>>
    /\ \E saved \in BOOLEAN :
         LET s == Head(store.pending)
         IN store' = [module |-> IF saved /\ Accepted(s.m) THEN s.m ELSE store.module,
                      pending |-> Tail(store.pending)]
    /\ UNCHANGED <<ui, ops>>

Next ==
    \/ openMaster \/ next \/ back \/ saveMaster \/ assignToAvailableEvents \/ removeFromAllEvents \/ cancel
    \/ resetToDefault \/ saveEvent \/ Answer
    \/ \E a \in Actions : onSelectAction(a) \/ changeSelected(a)
    \/ \E e \in Events : selectEvents(e) \/ unselectEvent(e) \/ openEvent(e) \/ resetEvent(e) \/ saveDetails(e)
    \/ \E filter \in {"all", "available"}, grouping \in {"by-module", "no"} : setActionsData(filter, grouping)
    \/ \E es \in SUBSET Events : MarkEvents(es) \/ MarkSelected(es)

Spec == Init /\ [][Next]_vars

(***************************************************************************)
(* Properties.                                                             *)
(***************************************************************************)
TypeOK ==
    /\ store.module.config \in [Events -> Seq(Actions)]
    /\ store.module.deps \subseteq {ModuleOf[a] : a \in Actions}
    /\ ui.kind \in {"none", "master", "event"} /\ ui.step \in {1, 2} /\ ui.action \in Actions
    /\ ui.available \cup ui.assigned \cup ui.marked \subseteq Events \cup {0}

Emitted == {store.pending[i] : i \in DOMAIN store.pending}

\* What the two dialogs save has exactly the dynamic dependencies of the actions
\* it uses, as checkModuleEvents of the server demands, also after the module
\* was replaced under an open dialog.
DependenciesKept == \A s \in Emitted : s.by \in {"master", "event"} => DependenciesValid(s.m)

\* No event gets an action twice, whatever was moved to and fro between the lists.
ActionOnce ==
    \A s \in Emitted, e \in Events :
        \A i, j \in DOMAIN s.m.config[e] : i # j => s.m.config[e][i] # s.m.config[e][j]

\* What the dialogs save gives an event only actions whose fields it has, unless
\* an event that is not available was marked, or the lists are another action's.
FieldsServed == \A s \in Emitted : s.by \in {"master", "event"} /\ ~s.stray => FieldsValid(s.m)
============================================================================
