---------------------------- MODULE SecureParams ----------------------------
(***************************************************************************)
(* The secure parameters of a policy's modules                             *)
(* (secure-module-config.component.ts of libs/shared).  The values are not *)
(* part of the modules that the page has fetched: a row asks the server    *)
(* for its value when it is to be shown, and again when it is to be        *)
(* edited; the answer opens a dialog on a clone of the row.  Each step is  *)
(* a callback of the browser, or the server that takes a request.          *)
(*   store.server   the values the server keeps, by module and parameter   *)
(*   store.http     requests: "sent", then "done" or "refused" with the    *)
(*                  answer on its way back; row: the rows' generation that *)
(*                  the param object belongs to; own: its type             *)
(*   ui.rows        params, by name; ui.built counts ngOnChanges           *)
(*   ui.current     currentParam; a dialog is open while it is defined     *)
(*   ui.under       dialogs left under a newer one that is or was on top   *)
(*   ui.stale       history: rows that a late answer has overwritten       *)
(*   ui.stuck       history: isSaving was left up by a form that is not    *)
(*                  valid, or by a row or a parameter that is gone         *)
(*   ui.lost        history: loads that failed                             *)
(***************************************************************************)
EXTENDS Integers

CONSTANTS Modules, Params,
          TypeOf,       \* <<module, name>> -> "array", "object", "scalar" or "none"
          MaxOps        \* bound: operations of the user

VARIABLES store, ui, ops

vars == <<store, ui, ops>>

NoParam   == [name |-> 0, own |-> "none", model |-> <<>>]
NamesOf(m) == {p \in Params : TypeOf[<<m, p>>] # "none"}

(***************************************************************************)
(* Models.  The form of a parameter that is no object wraps its value, and *)
(* what is saved is unwrapped.  A value is the stamp of its last edit.     *)
(***************************************************************************)
Wrapped(type, v) ==
    <<[as |-> CASE type = "array" -> "items" [] type = "object" -> "itself" [] OTHER -> "value", v |-> v]>>

Undefined == -1
Blank     == -2

castValueToType(model, type) ==
    IF model[1].as = Wrapped(type, 0)[1].as THEN model[1].v ELSE Undefined

\* getValueType asks the module that is shown now.
getValueType(name) == TypeOf[<<ui.module, name>>]

NewRow   == [shown |-> FALSE, fetching |-> FALSE, model |-> <<>>]
RowsOf(m) == [p \in NamesOf(m) |-> NewRow]

Init ==
    /\ store = [server |-> [k \in Modules \X Params |-> 0], http |-> {}]
    /\ \E view \in BOOLEAN :
         ui = [view |-> view, module |-> CHOOSE m \in Modules : \A n \in Modules : m <= n,
               rows |-> RowsOf(CHOOSE m \in Modules : \A n \in Modules : m <= n), built |-> 0,
               loading |-> {}, current |-> NoParam, under |-> 0, isSaving |-> FALSE,
               stale |-> {}, stuck |-> FALSE, lost |-> {}]
    /\ ops = 0

Operation == ops < MaxOps /\ ops' = ops + 1

Dialog == ui.current # NoParam
Free   == ~Dialog /\ ui.under = 0       \* no dialog covers the page

(***************************************************************************)
(* ngOnChanges: another module is selected, or the page has fetched the    *)
(* modules again.                                                          *)
(***************************************************************************)
Rebuilt(m) == [ui EXCEPT !.module = m, !.rows = RowsOf(m), !.built = @ + 1, !.stale = {}]

Select(m) == Free /\ m # ui.module /\ Operation /\ ui' = Rebuilt(m) /\ UNCHANGED store

Refresh   == Operation /\ ui' = Rebuilt(ui.module) /\ UNCHANGED store

(***************************************************************************)
(* show and edit.  A button that turns (mc-progress) is inert.             *)
(***************************************************************************)
loadValue(kind, name) ==
    store' = [store EXCEPT !.http = @ \cup
        {[kind |-> kind, to |-> <<ui.module, name>>, row |-> ui.built, own |-> getValueType(name),
          state |-> "sent", v |-> Undefined]}]

show(name) ==
    /\ Free /\ ui.view /\ ~ui.rows[name].shown /\ ~ui.rows[name].fetching
    /\ Operation
    /\ ui' = [ui EXCEPT !.rows[name].fetching = TRUE]
    /\ loadValue("show", name)

\* The param object of an answer is a row of the page, or was one.
Rows(r, row) ==
    IF r.row = ui.built THEN [ui.rows EXCEPT ![r.to[2]] = row] ELSE ui.rows

\* An answer that the server gave before a later save took effect.
Stale(r) ==
    IF r.row # ui.built THEN ui.stale
    ELSE IF r.v # store.server[r.to] THEN ui.stale \cup {r.to[2]} ELSE ui.stale \ {r.to[2]}

OnShow(r) ==
    ui' = [ui EXCEPT
        !.rows  = Rows(r, [shown |-> TRUE, fetching |-> FALSE, model |-> Wrapped(getValueType(r.to[2]), r.v)]),
        !.stale = Stale(r)]

\* initParamValue and openEditModal: the row gets the value, too.
Opened(u, rows, name, own, v) ==
    [u EXCEPT !.rows = rows, !.current = [name |-> name, own |-> own, model |-> Wrapped(getValueType(name), v)],
              !.under = IF Dialog THEN @ + 1 ELSE @]

\* Who may not see the value starts from an empty one, as soon as a timer fires.
edit(name) ==
    /\ Free /\ name \notin ui.loading
    /\ Operation
    /\ IF ui.view
       THEN /\ ui' = [ui EXCEPT !.loading = @ \cup {name}]
            /\ loadValue("edit", name)
       ELSE /\ store' = [store EXCEPT !.http = @ \cup
                 {[kind |-> "timer", to |-> <<ui.module, name>>, row |-> ui.built, own |-> getValueType(name),
                   state |-> "done", v |-> Blank]}]
            /\ UNCHANGED ui

OnEdit(r) ==
    LET name == r.to[2]
        rows == IF r.row = ui.built
                THEN [ui.rows EXCEPT ![name].model = Wrapped(getValueType(name), r.v)] ELSE ui.rows
    IN ui' = [Opened(ui, rows, name, r.own, r.v) EXCEPT
                !.loading = @ \ {name}, !.stale = Stale(r)]

\* Neither show nor edit handles an error: the button turns on.
OnLoadFailed(r) == ui' = [ui EXCEPT !.lost = @ \cup {<<r.kind, r.row, r.to[2]>>}]

(***************************************************************************)
(* The dialog.                                                             *)
(***************************************************************************)
Type ==
    /\ Dialog /\ Operation
    /\ ui' = [ui EXCEPT !.current.model[1].v = ops + 1]
    /\ UNCHANGED store

\* close of the dialog on top; afterClose forgets the parameter.
Closed(u) == [u EXCEPT !.current = NoParam]

Cancel == Dialog /\ Operation /\ ui' = Closed(ui) /\ UNCHANGED store

\* A dialog that was left under another one can be dismissed; what is saved in it
\* is the parameter that is gone, which throws.
saveNothing ==
    /\ ~Dialog /\ ui.under > 0 /\ ~ui.isSaving
    /\ Operation
    /\ ui' = [ui EXCEPT !.isSaving = TRUE, !.stuck = TRUE]
    /\ UNCHANGED store

Dismiss == ~Dialog /\ ui.under > 0 /\ ui' = [ui EXCEPT !.under = @ - 1] /\ UNCHANGED <<store, ops>>

save(valid) ==
    /\ Dialog /\ ~ui.isSaving
    /\ Operation
    /\ ui' = [ui EXCEPT !.isSaving = TRUE, !.stuck = ~valid]
    /\ IF valid
       THEN store' = [store EXCEPT !.http = @ \cup
                {[kind |-> "save", to |-> <<ui.module, ui.current.name>>, row |-> ui.built, own |-> ui.current.own,
                  state |-> "sent", v |-> castValueToType(ui.current.model, ui.current.own)]}]
       ELSE UNCHANGED store

\* mutant: the saved value is put into the dialog's own copy
OnSavedToClone(r) ==
    ui' = Closed([ui EXCEPT !.isSaving = FALSE, !.current.model = Wrapped(r.own, r.v)])

OnSaved(r) ==
    LET name == r.to[2]
    IN ui' = IF name \notin DOMAIN ui.rows
             THEN [ui EXCEPT !.stuck = TRUE]
             ELSE Closed([ui EXCEPT !.rows[name].model = Wrapped(getValueType(name), r.v),
                                    !.isSaving = FALSE,
                                    !.stale = IF r.v # store.server[<<ui.module, name>>]
                                              THEN @ \cup {name} ELSE @ \ {name}])

\* mutant: an error leaves the spinner
OnSaveFailedSpins(r) == ui' = [ui EXCEPT !.stale = @ \cup {r.to[2]}]

OnSaveFailed(r) ==
    ui' = [ui EXCEPT !.isSaving = FALSE, !.stale = IF r.state = "done" THEN @ \cup {r.to[2]} ELSE @]

(***************************************************************************)
(* The server has no parameter of another name and keeps no value of       *)
(* another type; the way there or back may fail.                           *)
(***************************************************************************)
Accepts(r) == TypeOf[r.to] # "none" /\ (r.kind = "save" => r.v # Undefined /\ r.own = TypeOf[r.to])

Replace(r, s) == [store EXCEPT !.http = (@ \ {r}) \cup {s}]

Serve(r) ==
    /\ r.state = "sent" /\ Accepts(r)
    /\ store' = IF r.kind = "save"
                THEN [Replace(r, [r EXCEPT !.state = "done"]) EXCEPT !.server[r.to] = r.v]
                ELSE Replace(r, [r EXCEPT !.state = "done", !.v = store.server[r.to]])
    /\ UNCHANGED <<ui, ops>>

Answer(r) ==
    /\ r.state = "done"
    /\ CASE r.kind = "show" -> OnShow(r) [] r.kind = "save" -> OnSaved(r) [] OTHER -> OnEdit(r)
    /\ store' = [store EXCEPT !.http = @ \ {r}]
    /\ UNCHANGED ops

Fail(r) ==
    /\ r.kind # "timer"
    /\ IF r.kind = "save" THEN OnSaveFailed(r) ELSE OnLoadFailed(r)
    /\ store' = [store EXCEPT !.http = @ \ {r}]
    /\ UNCHANGED ops

Next ==
    \/ \E m \in Modules : Select(m)
    \/ Refresh
    \/ \E name \in DOMAIN ui.rows : show(name) \/ edit(name)
    \/ Type \/ Cancel \/ saveNothing \/ Dismiss
    \/ \E valid \in BOOLEAN : save(valid)
    \/ \E r \in store.http : Serve(r) \/ Answer(r) \/ Fail(r)

Spec == Init /\ [][Next]_vars

(***************************************************************************)
(* Properties.                                                             *)
(***************************************************************************)
TypeOK ==
    /\ DOMAIN ui.rows = NamesOf(ui.module)
    /\ ui.loading \subseteq Params /\ ui.stale \subseteq Params
    /\ ui.under \in 0..MaxOps

UnderWay(kind, row, name) == \E r \in store.http : r.kind = kind /\ r.row = row /\ r.to[2] = name

\* A spinner goes with a request, except that a load that fails leaves it.
BusyPending ==
    /\ \A p \in DOMAIN ui.rows :
         ui.rows[p].fetching => UnderWay("show", ui.built, p) \/ <<"show", ui.built, p>> \in ui.lost
    /\ \A p \in ui.loading :
         \/ \E r \in store.http : r.kind = "edit" /\ r.to[2] = p
         \/ \E l \in ui.lost : l[1] = "edit" /\ l[3] = p
    /\ ui.isSaving => ui.stuck \/ \E r \in store.http : r.kind = "save"

\* Once nothing is under way, a value that is shown is the one the server has,
\* in the form of the parameter's type; rows that a late answer has
\* overwritten are left out.
ShownIsStored ==
    store.http = {} => \A p \in DOMAIN ui.rows \ ui.stale :
        ui.rows[p].shown => ui.rows[p].model = Wrapped(getValueType(p), store.server[<<ui.module, p>>])
============================================================================
