----------------------------- MODULE MCWebClient -----------------------------
(***************************************************************************)
(* The web client for TLC: in every behaviour the user works in one part   *)
(* of it, chosen at the start.  The parts share no state that the modules  *)
(* follow (each has a store of its own), so their behaviours are checked   *)
(* side by side in one run.                                                *)
(***************************************************************************)
EXTENDS Integers, Sequences, FiniteSets, TLC

CONSTANTS LinkGroups, LinkPolicies, LinkModules, LinkOps,     \* of PolicyLinks
          Events, ModuleOf, NeededFields, FieldsOf,           \* of EventActions
          DefaultActions, FirstActions, ActionOps

VARIABLES part,                                           \* the part, constant
          store, ui, ops,                                 \* of a store or dialog
          module, form, draft, armed, withheld, edits     \* of the module editor's sections

storeVars   == <<store, ui, ops>>
sectionVars == <<module, form, draft, armed, withheld, edits>>
vars        == <<part, store, ui, ops, module, form, draft, armed, withheld, edits>>

----------------------------------------------------------------------------
(***************************************************************************)
(* The parts and their bounds.  A slice is a set of effects that are under *)
(* way together; every effect is in one, with those it interacts with.     *)
(***************************************************************************)
Searches == {0, 1}
Tags     == {1}

GroupSlices ==
    {{"groups", "filtration", "items"}, {"groups", "filtration", "group"},
     {"groups", "group", "events", "policies"}}
      \cup {{"group"} \cup s : s \in {{"agents", "agentItems"}, {"policies", "policyItems"},
                                      {"events", "eventItems"}}}
      \cup {{"groups", "group", c} : c \in {"create", "update", "copy", "delete", "link", "unlink",
                                            "upgrade", "cancelUpgrade", "agentData"}}

Grp == INSTANCE GroupsStore WITH
    Groups <- {1, 2}, NewGroup <- 3, Slices <- GroupSlices, MaxOps <- 3

PolicySlices ==
    {{"policies", "items"}, {"policies", "counters"}, {"policy", "modules", "policies"}}
      \cup {{"policy"} \cup s : s \in {{"agents", "agentItems"}, {"groups", "groupItems"},
                                       {"events", "eventItems"}}}
      \cup {{"policies", "policy", c} : c \in {"create", "update", "copy", "delete", "link", "unlink",
                                               "upgrade", "cancelUpgrade", "agentData"}}

Pol == INSTANCE PoliciesStore WITH
    Policies <- {1, 2}, NewPolicy <- 3, FilterIds <- {1, 2}, GroupIds <- {1},
    Slices <- PolicySlices, MaxOps <- 3

AgentSlices ==
    {{"agents", "filtration", "items"}, {"agents", "filtration", "counters"},
     {"agents", "versions", "counters", "delete", "agent"},
     {"agents", "agent", "createGroup", "moveNew", "move"}}
      \cup {{"agents", "agent", c} : c \in {"cancelUpgrade", "move", "update", "block", "delete"}}
      \cup {{"agents", "agent", "upgrade", "agentData"}}

Agt == INSTANCE AgentListStore WITH
    Agents <- {1, 2}, FilterIds <- {1, 2}, GroupIds <- {1}, Slices <- AgentSlices, MaxOps <- 3

CardSlices ==
    {{"agent", "events", "eventItems"}, {"agent", "events", "createGroup", "moveNew", "move"}}
      \cup {{"agent", "events", c} : c \in {"upgrade", "cancelUpgrade", "move", "update", "block", "delete"}}

Crd == INSTANCE AgentCardStore WITH Agents <- {1, 2}, Slices <- CardSlices, MaxOps <- 4

ModuleListSlices ==
    {{"modules", "tags"}, {"modules", "all"}, {"modules", "create", "all"},
     {"modules", "delete", "versions"}, {"modules", "import"}, {"modules", "deleteVersion"}}

Mls == INSTANCE ModuleListStore WITH
    Modules <- {1, 2}, NewModule <- 3, Slices <- ModuleListSlices, MaxOps <- 4

InstanceSlices ==
    {{"events", "eventItems"}, {"versions", "events"}}
      \cup {{"events", "versions", c} : c \in {"changeVersion", "save"}}
      \cup {{"events", c} : c \in {"enable", "disable", "delete", "update"}}

Ins == INSTANCE ModuleInstancesStore WITH
    Entities <- {1, 2}, ModuleNames <- {1, 2}, Kinds <- {"agent", "policy"},
    Slices <- InstanceSlices, MaxOps <- 3

SharedSlices ==
    {{"info", "login", "logout"}, {"allGroups"}, {"allAgents", "optionsTags"}, {"binaries", "latest"},
     {"tags"}, {"changePassword"}, {"exportBinary"}}

Shr == INSTANCE SharedStore WITH Domains <- {1, 2}, Slices <- SharedSlices, MaxOps <- 5

EditSlices ==
    {{"module", "versions", "updates"} \cup s :
         s \in {{"save"}, {"save", "createDraft", "release"}, {"save", "updateInPolicies"},
                {"deleteVersion"}, {"delete"}}}
      \cup {{"module", "byName"}, {"module", "allModules", "agentVersions"}}

Edt == INSTANCE ModuleEditStore WITH
    Names <- {1, 2}, Versions <- {1, 2}, Slices <- EditSlices, MaxOps <- 4

\* A file of the module's code, one of its data, one of its libraries.
Main == <<"cmodule", "main.lua">>
Data == <<"cmodule", "data", "x">>
Clib == <<"cmodule", "clibs", "linux", "x">>

Fil == INSTANCE ModuleFiles WITH
    Paths <- {Main, Data, Clib}, InitialFiles <- {Main, Data},
    Slices <- {{"load", "save"}, {"fetchFiles", "patch"}, {"fetchFiles", "patch", "load"}}, MaxOps <- 4

Evt == INSTANCE EventActions WITH MaxOps <- ActionOps

\* The second action needs a field that only the first event has.
MCModuleOf       == "log" :> "this" @@ "x" :> "mx" @@ "y" :> "my"
MCNeededFields   == "log" :> {} @@ "x" :> {"f"} @@ "y" :> {"f", "g"}
MCFieldsOf       == <<{"f", "g"}, {"f"}>>
MCDefaultActions == <<<<"log">>, <<>>>>
MCFirstActions   == <<<<"log", "y">>, <<"x">>>>

Lnk == INSTANCE PolicyLinks WITH
    Groups <- LinkGroups, Policies <- LinkPolicies, Modules <- LinkModules, MaxOps <- LinkOps

ASSUME LinksAssumption   == IsFiniteSet(LinkPolicies)
ASSUME ActionsAssumption == Evt!ParametersOK

\* The server has items 1 and 2; 2 and 7 can be typed, 7 is not of the form prefix_n.
Sec == INSTANCE ModuleSections WITH TypedNames <- {2, 7}, OwnNames <- {7}, MaxItems <- 3, MaxEdits <- 3

\* A scalar both modules have, and a list that the first one has.
Par == INSTANCE SecureParams WITH
    Modules <- {1, 2}, Params <- {1, 2}, MaxOps <- 5,
    TypeOf <- (<<1, 1>> :> "scalar" @@ <<2, 1>> :> "scalar" @@ <<1, 2>> :> "array" @@ <<2, 2>> :> "none")

----------------------------------------------------------------------------
NoStore    == store = <<>> /\ ui = <<>> /\ ops = 0
NoSections == module = <<>> /\ form = <<>> /\ draft = <<>> /\ armed = {} /\ withheld = {} /\ edits = 0

Init ==
    \/ /\ NoSections
       /\ \/ part = "groups"     /\ Grp!Init
          \/ part = "policies"   /\ Pol!Init
          \/ part = "agents"     /\ Agt!Init
          \/ part = "agent"      /\ Crd!Init
          \/ part = "modules"    /\ Mls!Init
          \/ part = "instances"  /\ Ins!Init
          \/ part = "shared"     /\ Shr!Init
          \/ part = "edit"       /\ Edt!Init
          \/ part = "files"      /\ Fil!Init
          \/ part = "actions"    /\ Evt!Init
          \/ part = "links"      /\ Lnk!Init
          \/ part = "secure"     /\ Par!Init
    \/ NoStore /\ part = "sections" /\ Sec!Init

Next ==
    \/ part = "groups"     /\ Grp!Next /\ UNCHANGED <<part, sectionVars>>
    \/ part = "policies"   /\ Pol!Next /\ UNCHANGED <<part, sectionVars>>
    \/ part = "agents"     /\ Agt!Next /\ UNCHANGED <<part, sectionVars>>
    \/ part = "agent"      /\ Crd!Next /\ UNCHANGED <<part, sectionVars>>
    \/ part = "modules"    /\ Mls!Next /\ UNCHANGED <<part, sectionVars>>
    \/ part = "instances"  /\ Ins!Next /\ UNCHANGED <<part, sectionVars>>
    \/ part = "shared"     /\ Shr!Next /\ UNCHANGED <<part, sectionVars>>
    \/ part = "edit"       /\ Edt!Next /\ UNCHANGED <<part, sectionVars>>
    \/ part = "files"      /\ Fil!Next /\ UNCHANGED <<part, sectionVars>>
    \/ part = "actions"    /\ Evt!Next /\ UNCHANGED <<part, sectionVars>>
    \/ part = "links"      /\ Lnk!Next /\ UNCHANGED <<part, sectionVars>>
    \/ part = "secure"     /\ Par!Next /\ UNCHANGED <<part, sectionVars>>
    \/ part = "sections"   /\ Sec!Next /\ UNCHANGED <<part, storeVars>>

Spec == Init /\ [][Next]_vars

----------------------------------------------------------------------------
(***************************************************************************)
(* What the modules state of their parts, and the properties made of it.   *)
(***************************************************************************)
TypesOK ==
    /\ part = "groups"    => Grp!TypeOK
    /\ part = "policies"  => Pol!TypeOK
    /\ part = "agents"    => Agt!TypeOK
    /\ part = "agent"     => Crd!TypeOK
    /\ part = "modules"   => Mls!TypeOK
    /\ part = "instances" => Ins!TypeOK
    /\ part = "shared"    => Shr!TypeOK
    /\ part = "edit"      => Edt!TypeOK
    /\ part = "files"     => Fil!TypeOK
    /\ part = "actions"   => Evt!TypeOK
    /\ part = "links"     => Lnk!TypeOK
    /\ part = "secure"    => Par!TypeOK

BusyPending ==
    /\ part = "groups"    => Grp!BusyPending
    /\ part = "policies"  => Pol!BusyPending
    /\ part = "agents"    => Agt!BusyPending
    /\ part = "agent"     => Crd!BusyPending
    /\ part = "modules"   => Mls!BusyPending
    /\ part = "instances" => Ins!BusyPending
    /\ part = "shared"    => Shr!BusyPending
    /\ part = "edit"      => Edt!BusyPending
    /\ part = "files"     => Fil!BusyPending
    /\ part = "secure"    => Par!BusyPending

\* The stores hold what their reducers put into them, and a flag that shows a
\* spinner or disables a button never outlives the request it stands for, also
\* when the request was dropped by switchMap or the store was reset while it
\* was under way.
StoresSound == TypesOK /\ BusyPending

ListSettled ==
    /\ part = "groups"   => Grp!ListSettled
    /\ part = "policies" => Pol!ListSettled
    /\ part = "agents"   => Agt!ListSettled
    /\ part = "modules"  => Mls!ListSettled

SelectionSettled ==
    /\ part = "groups"    => Grp!SelectionSettled
    /\ part = "policies"  => Pol!SelectionSettled
    /\ part = "agents"    => Agt!SelectionSettled
    /\ part = "instances" => Ins!SelectionSettled

CardSettled ==
    /\ part = "groups"    => Grp!CardSettled
    /\ part = "policies"  => Pol!CardSettled
    /\ part = "agent"     => Crd!CardSettled
    /\ part = "instances" => Ins!CardSettled
    /\ part = "secure"    => Par!ShownIsStored

SharedSettled == part = "shared" => Shr!ListsFresh /\ Shr!SessionSettled

\* Once nothing is under way, the screen shows what was asked for last, however
\* searches, filters, refreshes, pages and answers have crossed: a list page the
\* pages of its grid's query in order (the debounced and switched effects), the
\* panel beside it the row that is selected now, the page of a group, a policy,
\* an agent or a module that one and its own grids, a shared list is no older
\* than the last fetch of it, a secure parameter the value the server
\* keeps, and the login page is shown without a session and
\* the pages with one (the guards of libs/core).
ViewSettled == ListSettled /\ SelectionSettled /\ CardSettled /\ SharedSettled

\* Once nothing is under way, the module editor shows the module and version
\* asked for last, with its own changelog and dependencies, and offers to
\* update the policies of that version; a module that it shows as saved is the
\* one the server has (module-edit effects, reducer and sections).
EditorSettled ==
    part = "edit" => /\ Edt!ModuleSettled /\ Edt!UpdatesSettled
                     /\ Edt!ChangelogOwn /\ Edt!DependenciesShown /\ Edt!CleanIsSaved

\* A tab of the file editor that is shown as unchanged holds what the server has,
\* closing the editor loses nothing that was typed, and the tree has the files
\* of the server, each once (edit-file-modal, files-tree.service).
FilesKept ==
    part = "files" => Fil!UnchangedIsSaved /\ Fil!NothingLost /\ Fil!TreeSettled

\* The server accepts what the dialogs save and what the pages offer: modules
\* with the dynamic dependencies of the actions they use, no action twice and
\* none without its fields (checkModuleEvents); links of groups and policies
\* without a module in common (makeGroupPolicyAction).
ServerAccepts ==
    /\ part = "actions" => Evt!DependenciesKept /\ Evt!ActionOnce /\ Evt!FieldsServed
    /\ part = "links"   => Lnk!OffersMatchServer

\* The places where the module editor writes one item agree, and so do those
\* where it writes a key of an event or an action (the reducer's update cases);
\* the forms show the items of the store, and the form of a default
\* configuration has the items of the module.
SectionsAgree ==
    part = "sections" => /\ Sec!SectionsAligned /\ Sec!KeysAligned
                         /\ Sec!FormMirrorsStore /\ Sec!DraftMirrorsStore

\* A field that is renamed, retyped or marked in its form leaves events and
\* actions with the fields they used, under their new names, and with existing
\* ones only; renaming events or actions loses and doubles no translation, and
\* a renamed one takes its defaults and its title along (refactorIds).  Where a
\* change was kept back and several names change at once, the code may pair
\* them wrongly, and what an item takes along is left open.
EditsCarryOver == [][part = "sections" => Sec!FieldsKnownStep /\ Sec!RenameStep]_vars
============================================================================
