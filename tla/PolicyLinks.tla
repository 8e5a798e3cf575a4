---------------------------- MODULE PolicyLinks ----------------------------
(***************************************************************************)
(* Which policies a group can be linked to.  Two policies of a group must  *)
(* not have a module in common.  The page of a group and the page of a     *)
(* policy each work this out from the lists they have fetched (the two     *)
(* link-policy.facade.service.ts of libs/features/groups and               *)
(* libs/features/policies), and the server decides when it is asked to     *)
(* link (makeGroupPolicyAction of                                          *)
(* src/pkg/app/api/server/private/groups.go).                              *)
(***************************************************************************)
EXTENDS Integers, FiniteSets

CONSTANTS Groups, Policies, Modules,
          MaxOps    \* bound: operations of all users

VARIABLES store,    \* the database: joined modules of the policies, links
          ui,       \* the lists the page has fetched
          ops       \* history: operations so far

vars == <<store, ui, ops>>

PoliciesOf(db, g)    == {p \in Policies : <<g, p>> \in db.links}
GroupsOf(db, p)      == {g \in Groups : <<g, p>> \in db.links}
GroupModules(db, g)  == UNION {db.modules[p] : p \in PoliciesOf(db, g)}

(***************************************************************************)
(* The page of group g.                                                    *)
(***************************************************************************)
modulesInLinked(db, g)    == UNION {db.modules[p] : p \in PoliciesOf(db, g)}
conflictsOfPolicy(db, g, p) ==
    {c \in [module : db.modules[p] \cap modulesInLinked(db, g), conflictedPolicy : PoliciesOf(db, g)] :
        c.module \in db.modules[c.conflictedPolicy]}

availablePolicies(db, g)   == {p \in Policies \ PoliciesOf(db, g) : conflictsOfPolicy(db, g, p) = {}}

(***************************************************************************)
(* The page of policy p.  A module of the group that the policy has, too,  *)
(* counts if one of the groups in the lists has it, and one of the         *)
(* policies of the group.                                                  *)
(***************************************************************************)
\* mutant: only groups that are linked to the policy count
conflictsOfLinkedGroup(db, p, g) ==
    {c \in [module : {m \in GroupModules(db, g) \cap db.modules[p] :
                        \E h \in GroupsOf(db, p) \ {g} : m \in GroupModules(db, h)},
            conflictedPolicy : PoliciesOf(db, g)] : c.module \in db.modules[c.conflictedPolicy]}

conflictsOfGroup(db, p, g) ==
    LET linked    == GroupsOf(db, p)
        notLinked == Groups \ linked
        shared    == {m \in GroupModules(db, g) \cap db.modules[p] :
                        \E h \in (linked \ {g}) \cup notLinked : m \in GroupModules(db, h)}
    IN {c \in [module : shared, conflictedPolicy : PoliciesOf(db, g)] :
            c.module \in db.modules[c.conflictedPolicy]}

availableGroups(db, p)     == {g \in Groups \ GroupsOf(db, p) : conflictsOfGroup(db, p, g) = {}}

(***************************************************************************)
(* The server counts the modules of the group's policies and the new one   *)
(* by name.                                                                *)
(***************************************************************************)
Holders(db, g, p, m) == {q \in PoliciesOf(db, g) \cup {p} : m \in db.modules[q]}
Accepts(db, g, p) ==
    /\ \A m \in Modules : Cardinality(Holders(db, g, p, m)) <= 1
    /\ <<g, p>> \notin db.links

Init ==
    /\ store \in {db \in [modules : [Policies -> SUBSET Modules], links : SUBSET (Groups \X Policies)] :
                    \A g \in Groups : \A p, q \in PoliciesOf(db, g) :
                        p # q => db.modules[p] \cap db.modules[q] = {}}
    /\ ui = store
    /\ ops = 0

Operation == ops < MaxOps /\ ops' = ops + 1

\* open of the panel, with the answers to fetchData.
fetchData == Operation /\ ui' = store /\ UNCHANGED store

Activate(g, p) ==
    store' = IF Accepts(store, g, p) THEN [store EXCEPT !.links = @ \cup {<<g, p>>}] ELSE store

linkPolicy(g, p) == Operation /\ p \in availablePolicies(ui, g) /\ Activate(g, p) /\ UNCHANGED ui
linkGroup(g, p)  == Operation /\ g \in availableGroups(ui, p) /\ Activate(g, p) /\ UNCHANGED ui

unlink(g, p) ==
    /\ <<g, p>> \in ui.links
    /\ Operation
    /\ store' = [store EXCEPT !.links = @ \ {<<g, p>>}]
    /\ UNCHANGED ui

Next == \/ fetchData
        \/ \E g \in Groups, p \in Policies : linkPolicy(g, p) \/ linkGroup(g, p) \/ unlink(g, p)

Spec == Init /\ [][Next]_vars

(***************************************************************************)
(* Properties.                                                             *)
(***************************************************************************)
TypeOK ==
    /\ store.modules \in [Policies -> SUBSET Modules] /\ store.links \subseteq Groups \X Policies
    /\ ui.modules \in [Policies -> SUBSET Modules] /\ ui.links \subseteq Groups \X Policies

\* With current lists, both pages offer exactly the links that the server accepts.
OffersMatchServer ==
    ui = store => \A g \in Groups, p \in Policies :
        /\ p \in availablePolicies(ui, g) <=> Accepts(store, g, p)
        /\ g \in availableGroups(ui, p) <=> Accepts(store, g, p)
============================================================================
