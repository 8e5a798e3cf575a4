--------------------------- MODULE ModuleSections ---------------------------
(***************************************************************************)
(* The edited module of the web client's module editor: the reducer cases  *)
(* of libs/store/modules/src/lib/edit/module-edit.reducer.ts that change   *)
(* state.module, and the forms of the editor's sections that dispatch      *)
(* them.  The same item of a section (a parameter, an event, an action, a  *)
(* field) is written in several places of the module: the keys and the     *)
(* "required" list of the JSON schema, the list in module.info, the        *)
(* default configuration and the localisation.  Every reducer case has to  *)
(* keep those places together.                                             *)
(*                                                                         *)
(* A section is a record                                                   *)
(*   keys    Object.keys(schema.properties), in order                      *)
(*   required  the schema's list of required items                         *)
(*   type    item -> its type                                              *)
(*   sub     item -> the keys of an event or an action (allOf[1])          *)
(*   uses    item -> the fields of an event or an action (fields.default)  *)
(*   info    module.info.events / actions / fields                         *)
(*   dflt    item -> its entry of the default configuration                *)
(*   loc     item -> its title;  keyloc  item -> key -> title              *)
(* Names are numbers: n stands for prefix_n ("param_1"), unless it is one  *)
(* of OwnNames.  A title is the name it was generated from, or Translated  *)
(* once a translator has changed it.  Nested parameters ("a.b") are not    *)
(* modelled.                                                               *)
(***************************************************************************)
EXTENDS Integers, Sequences, FiniteSets, SequencesExt, FiniteSetsExt, Functions

CONSTANTS TypedNames,   \* the names a user types into a name control
          OwnNames,     \* those of them that are not of the form prefix_n
          MaxItems,     \* bound: items in a section, keys in an item
          MaxEdits      \* bound: operations of the user

VARIABLES module,    \* state.module of the store: section -> record
          form,      \* section -> rows of the section's FormArray
          draft,     \* section -> model of the default configuration's form
          armed,     \* sections whose change has not reached the store yet
          withheld,  \* history: sections where a change was kept back
          edits      \* history: operations so far

vars == <<module, form, draft, armed, withheld, edits>>

Sections  == {"config", "secure", "events", "actions", "fields"}
Listed    == {"events", "actions", "fields"}     \* also in module.info
Keyed     == {"events", "actions"}               \* items with keys and fields
Defaulted == Sections \ {"fields"}               \* with a default configuration

Translated == 0
NoTitle    == -1

Types(s) == CASE s = "events"  -> {"atomic", "aggregation"}
              [] s = "actions" -> {"base.action"}
              [] OTHER         -> {"string", "object"}

(***************************************************************************)
(* Helpers of libs/shared/src/lib/utils.                                   *)
(***************************************************************************)
Nothing == [x \in {} |-> 0]
Less(a, b) == a < b

\* Names that left and names that came, paired in sorted order and taken for
\* renames when there are as many of one as of the other.
getChangesArrays(a, b) ==
    LET Place(x, names) == Cardinality({y \in names : y < x})
    IN IF Cardinality(a \ b) = Cardinality(b \ a)
       THEN [add |-> {}, remove |-> {},
             rename |-> [x \in a \ b |-> CHOOSE y \in b \ a : Place(y, b \ a) = Place(x, a \ b)]]
       ELSE [add |-> b \ a, remove |-> a \ b, rename |-> Nothing]

\* The changes from the names a to the names b, applied to an object; new has
\* the values of the names that come.
applyChangesToObject(obj, a, b, new) ==
    LET ch   == getChangesArrays(a, b)
        old(k) == CHOOSE x \in DOMAIN ch.rename : ch.rename[x] = k
        kept == (DOMAIN obj \cup ch.add) \ (ch.remove \cup DOMAIN ch.rename)
        had(k) == IF old(k) \in DOMAIN obj THEN obj[old(k)]
                  ELSE IF k \in DOMAIN obj THEN obj[k] ELSE new[k]
    IN [k \in kept \cup Range(ch.rename) |->
            IF k \in Range(ch.rename) THEN had(k)
            ELSE IF k \in ch.add THEN new[k] ELSE obj[k]]

\* prefix_(1 + the largest number in use)
getNameForNewItem(existed, prefixed) ==
    LET used == existed \cap prefixed IN 1 + (IF used = {} THEN 0 ELSE Max(used))

\* mutant: a translated title is overwritten too
refactorAllIds(titles, a, b) ==
    LET renamed == getChangesArrays(a, b).rename
    IN [k \in DOMAIN titles |-> IF k \in DOMAIN renamed THEN renamed[k] ELSE titles[k]]

\* A generated title follows the item's new name, a translated one stays.
refactorIds(titles, a, b) ==
    LET renamed == getChangesArrays(a, b).rename
    IN [k \in DOMAIN titles |->
            IF k \in DOMAIN renamed /\ titles[k] = k THEN renamed[k] ELSE titles[k]]

getLocaleDescriptionByValue(name) == name

\* Rows with one name twice are not sent to the store.
hasOverlappedNames(names) == Cardinality(Range(names)) < Len(names)

Without(f, k)  == [x \in DOMAIN f \ {k} |-> f[x]]
With(f, k, v)  == [x \in DOMAIN f \cup {k} |-> IF x = k THEN v ELSE f[x]]
Drop(seq, k)   == SelectSeq(seq, LAMBDA x : x # k)
Prefixed       == Nat \ OwnNames

(***************************************************************************)
(* Entries of the default configuration: the type of the value, the fields *)
(* and, key by key, whether the user has given a value of his own.  Key 0  *)
(* is the value of a plain parameter; a negative key is one of the         *)
(* properties seq, group_by, max_count, max_time of a complex event.       *)
(***************************************************************************)
Complex == {-4, -3, -2, -1}

getDefaultValueByType(type) == [type |-> type, fields |-> {}, vals |-> [k \in {0} |-> FALSE]]

getDefaultEvent(type, keys, fields) ==
    [type |-> type, fields |-> fields,
     vals |-> [k \in keys \cup (IF type = "atomic" THEN {} ELSE Complex) |-> FALSE]]

getEmptySchema == [keys |-> <<>>, required |-> {}, type |-> Nothing, sub |-> Nothing,
                   uses |-> Nothing, info |-> <<>>, dflt |-> Nothing,
                   loc |-> Nothing, keyloc |-> Nothing]

\* What every add... case writes: the item at the end of the schema, its
\* entry of the default configuration and its generated title.
AddItem(sec, n, type, entry) ==
    [sec EXCEPT !.keys = Append(@, n),
                !.type = With(@, n, type),
                !.sub  = With(@, n, <<>>),
                !.uses = With(@, n, {}),
                !.dflt = With(@, n, entry),
                !.loc  = With(@, n, getLocaleDescriptionByValue(n)),
                !.keyloc = With(@, n, Nothing)]

RemoveItem(sec, n) ==
    [sec EXCEPT !.keys = Drop(@, n),
                !.required = @ \ {n},
                !.type = Without(@, n),
                !.sub  = Without(@, n),
                !.uses = Without(@, n),
                !.dflt = Without(@, n),
                !.loc  = Without(@, n),
                !.keyloc = Without(@, n)]

NewName(sec) == getNameForNewItem(Range(sec.keys), Prefixed)

(***************************************************************************)
(* CONFIG and SECURE CONFIG                                                *)
(***************************************************************************)
addConfigParam(m) ==
    [m EXCEPT !.config = AddItem(@, NewName(@), "string", getDefaultValueByType("string"))]

\* mutant: the default value of a removed parameter stays
removeParamKeepDefault(m, n) ==
    [m EXCEPT !.config = [RemoveItem(@, n) EXCEPT !.dflt = m.config.dflt]]

removeConfigParam(m, n) == [m EXCEPT !.config = RemoveItem(@, n)]

removeAllConfigParams(m) == [m EXCEPT !.config = getEmptySchema]

\* The schema replaces the old one; default values and titles follow the
\* renames, but a value whose name had no property of that type before, which
\* is every renamed one, is reset to the default of its type.
updateParams(sec, schema) ==
    LET a == Range(sec.keys)
        b == Range(schema.keys)
        moved == applyChangesToObject(sec.dflt, a, b,
                                      [k \in b |-> getDefaultValueByType(schema.type[k])])
        same(k) == k \in a /\ sec.type[k] = schema.type[k]
    IN [sec EXCEPT
          !.keys = schema.keys, !.required = schema.required, !.type = schema.type,
          !.sub  = schema.sub, !.uses = schema.uses,
          !.dflt = [k \in DOMAIN moved |->
                      IF k \in b /\ ~same(k) THEN getDefaultValueByType(schema.type[k])
                      ELSE moved[k]],
          !.loc  = applyChangesToObject(refactorIds(sec.loc, a, b), a, b, [k \in b |-> NoTitle]),
          !.keyloc = [k \in b |-> Nothing]]

updateConfigSchema(m, schema) == [m EXCEPT !.config = updateParams(@, schema)]

updateDefaultConfig(m, model) == [m EXCEPT !.config.dflt = model]

addSecureConfigParam(m) ==
    [m EXCEPT !.secure = AddItem(@, NewName(@), "string", getDefaultValueByType("string"))]

removeSecureConfigParam(m, n) == [m EXCEPT !.secure = RemoveItem(@, n)]

removeAllSecureConfigParams(m) == [m EXCEPT !.secure = getEmptySchema]

updateSecureConfigSchema(m, schema) == [m EXCEPT !.secure = updateParams(@, schema)]

updateSecureDefaultConfig(m, model) == [m EXCEPT !.secure.dflt = model]

(***************************************************************************)
(* EVENTS                                                                  *)
(***************************************************************************)
Enlist(sec, n)  == [sec EXCEPT !.info = Append(@, n), !.required = @ \cup {n}]
Delist(sec, n)  == [sec EXCEPT !.info = Drop(@, n)]

addEvent(m) ==
    LET n == NewName(m.events)
    IN [m EXCEPT !.events = Enlist(AddItem(@, n, "atomic", getDefaultEvent("atomic", {}, {})), n)]

removeEvent(m, n) == [m EXCEPT !.events = Delist(RemoveItem(@, n), n)]

removeAllEvents(m) == [m EXCEPT !.events = getEmptySchema]

\* The event's entry takes the keys, the type and, if it is atomic, the fields
\* of the new schema; the user's values follow renamed keys.
EventEntry(entry, type, keys, fields) ==
    LET empty == getDefaultEvent(type, keys, fields)
    IN [type |-> type,
        fields |-> IF type = "atomic" THEN fields ELSE entry.fields,
        vals |-> applyChangesToObject(entry.vals, DOMAIN entry.vals, DOMAIN empty.vals,
                                      [k \in DOMAIN empty.vals |-> FALSE])]

\* mutant: the titles of keys are added and removed but not renamed
KeyTitlesByOldName(titles, keys) == IF Cardinality(keys) = Cardinality(DOMAIN titles)
                                    THEN titles ELSE [k \in keys |-> k]

\* The titles of an item's keys, after the keys of the schema have changed.
KeyTitles(titles, keys) ==
    applyChangesToObject(refactorIds(titles, DOMAIN titles, keys), DOMAIN titles, keys,
                         [k \in keys |-> getLocaleDescriptionByValue(k)])

\* The new schema of events or actions, and the default values dflt with it.
updateItems(sec, schema, dflt) ==
    LET a == Range(sec.keys)
        b == Range(schema.keys)
        titles == applyChangesToObject(sec.keyloc, a, b, [k \in b |-> Nothing])
    IN [sec EXCEPT
          !.keys = schema.keys, !.info = schema.keys, !.required = b, !.type = schema.type,
          !.sub  = schema.sub, !.uses = schema.uses,
          !.dflt = dflt,
          !.loc  = applyChangesToObject(refactorIds(sec.loc, a, b), a, b, [k \in b |-> NoTitle]),
          !.keyloc = [k \in DOMAIN titles |-> KeyTitles(titles[k], Range(schema.sub[k]))]]

updateEventsSchema(m, schema) ==
    LET b       == Range(schema.keys)
        Keys(k) == Range(schema.sub[k])
        moved   == applyChangesToObject(m.events.dflt, DOMAIN m.events.dflt, b,
                      [k \in b |-> getDefaultEvent(schema.type[k], Keys(k), schema.uses[k])])
    IN [m EXCEPT !.events = updateItems(@, schema,
            [k \in DOMAIN moved |-> EventEntry(moved[k], schema.type[k], Keys(k), schema.uses[k])])]

updateEventsDefaultConfig(m, model) == [m EXCEPT !.events.dflt = model]

AddKey(sec, n) ==
    LET k == getNameForNewItem(Range(sec.sub[n]), Prefixed)
    IN [sec EXCEPT !.sub[n] = Append(@, k),
                   !.dflt[n].vals = With(@, k, FALSE),
                   !.keyloc[n] = With(@, k, getLocaleDescriptionByValue(k))]

RemoveKey(sec, n, k) ==
    [sec EXCEPT !.sub[n] = Drop(@, k),
                !.dflt[n].vals = Without(@, k),
                !.keyloc[n] = Without(@, k)]

addEventKey(m, n) == [m EXCEPT !.events = AddKey(@, n)]

removeEventKey(m, n, k) == [m EXCEPT !.events = RemoveKey(@, n, k)]

(***************************************************************************)
(* ACTIONS                                                                 *)
(***************************************************************************)
getDefaultAction(keys, fields) ==
    [type |-> "base.action", fields |-> fields, vals |-> [k \in keys |-> FALSE]]

addAction(m) ==
    LET n == NewName(m.actions)
    IN [m EXCEPT !.actions = Enlist(AddItem(@, n, "base.action", getDefaultAction({}, {})), n)]

removeAction(m, n) == [m EXCEPT !.actions = Delist(RemoveItem(@, n), n)]

removeAllActions(m) == [m EXCEPT !.actions = getEmptySchema]

updateActionsSchema(m, schema) ==
    LET b        == Range(schema.keys)
        Fresh(k) == getDefaultAction(Range(schema.sub[k]), schema.uses[k])
        moved    == applyChangesToObject(m.actions.dflt, Range(m.actions.keys), b, [k \in b |-> Fresh(k)])
        Entry(k) == [Fresh(k) EXCEPT !.vals = applyChangesToObject(moved[k].vals, DOMAIN moved[k].vals, DOMAIN @, @)]
    IN [m EXCEPT !.actions = updateItems(@, schema, [k \in DOMAIN moved |-> Entry(k)])]

updateActionsDefaultConfig(m, model) == [m EXCEPT !.actions.dflt = model]

addActionKey(m, n) == [m EXCEPT !.actions = AddKey(@, n)]

removeActionKey(m, n, k) == [m EXCEPT !.actions = RemoveKey(@, n, k)]

(***************************************************************************)
(* FIELDS                                                                  *)
(***************************************************************************)
addField(m) ==
    LET n == NewName(m.fields)
    IN [m EXCEPT !.fields = [AddItem(@, n, "string", 0) EXCEPT
                                !.info = Append(@, n), !.dflt = Nothing]]

\* The field leaves its own section and nothing else: an event or an action
\* that uses it, and the "required" list, keep the name.
removeField(m, n) ==
    [m EXCEPT !.fields = [Delist(RemoveItem(@, n), n) EXCEPT !.required = m.fields.required]]

removeAllFields(m) == [m EXCEPT !.fields = getEmptySchema]

\* mutant: fields that are gone are not filtered out
FieldsRenamed(uses, renamed, names) ==
    {IF f \in DOMAIN renamed THEN renamed[f] ELSE f : f \in uses}

\* The fields of an item after fields were renamed and removed.
FieldsNow(uses, renamed, names) ==
    {IF f \in DOMAIN renamed THEN renamed[f] ELSE f : f \in uses} \cap names

\* An item has a list of fields unless it is a complex event.
HasFields(sec, n) == sec.type[n] # "aggregation"

UseFields(sec, renamed, names) ==
    LET uses == [n \in DOMAIN sec.uses |->
                    IF HasFields(sec, n) THEN FieldsNow(sec.uses[n], renamed, names)
                    ELSE sec.uses[n]]
    IN [sec EXCEPT !.uses = uses,
                   !.dflt = [n \in DOMAIN @ |-> IF HasFields(sec, n)
                                                THEN [@[n] EXCEPT !.fields = uses[n]]
                                                ELSE @[n]]]

updateFieldsSchema(m, schema) ==
    LET a == Range(m.fields.keys)
        b == Range(schema.keys)
        renamed == getChangesArrays(a, b).rename
    IN [m EXCEPT
          !.fields = [@ EXCEPT !.keys = schema.keys, !.info = schema.keys,
                               !.required = schema.required, !.type = schema.type,
                               !.sub = schema.sub, !.uses = schema.uses,
                               !.loc = applyChangesToObject(refactorIds(@, a, b), a, b,
                                                            [k \in b |-> NoTitle]),
                               !.keyloc = [k \in b |-> Nothing]],
          !.events  = UseFields(@, renamed, b),
          !.actions = UseFields(@, renamed, b)]

\* LOCALIZATION: the translator changes a title.
updateLocalizationModel(m, s, n) == [m EXCEPT ![s].loc[n] = Translated]

(***************************************************************************)
(* The forms.  A section's component keeps one row for each item, filled   *)
(* from the schema when the schema changes (applyDiff), and sends the      *)
(* whole schema to the store when a row changes.                           *)
(***************************************************************************)
RowOf(sec, n) == [name |-> n, type |-> sec.type[n], required |-> n \in sec.required,
                  fields |-> sec.uses[n], keys |-> sec.sub[n]]

\* getModelFromSchema and its likes: the rows of a schema.  A parameter and a
\* field have no fields and no keys, an event and an action are required.
Rows(sec) == [i \in DOMAIN sec.keys |-> RowOf(sec, sec.keys[i])]

getModelFromSchema(sec)             == Rows(sec)
getSecureConfigModelFromSchema(sec) == Rows(sec)
getEventsModelFromSchema(sec)       == Rows(sec)
getActionsModelFromSchema(sec)      == Rows(sec)

ModelOf(s, sec) == CASE s \in {"config", "fields"} -> getModelFromSchema(sec)
                     [] s = "secure"               -> getSecureConfigModelFromSchema(sec)
                     [] s = "events"               -> getEventsModelFromSchema(sec)
                     [] s = "actions"              -> getActionsModelFromSchema(sec)

RowNames(rows) == [i \in DOMAIN rows |-> rows[i].name]

RowNamed(rows, n) == rows[CHOOSE i \in DOMAIN rows : rows[i].name = n]

\* The schema of the rows, whose names are distinct.
SchemaOf(rows, required, uses) ==
    LET names == RowNames(rows)
    IN [keys |-> names,
        required |-> required,
        type |-> [n \in Range(names) |-> RowNamed(rows, n).type],
        sub  |-> [n \in Range(names) |-> RowNamed(rows, n).keys],
        uses |-> uses]

MarkedRequired(rows) == {n \in Range(RowNames(rows)) : RowNamed(rows, n).required}

getSchemaFromModel(rows) ==
    SchemaOf(rows, MarkedRequired(rows), [n \in Range(RowNames(rows)) |-> {}])

getSecureConfigSchemaFromModel(rows) ==
    SchemaOf(rows, MarkedRequired(rows), [n \in Range(RowNames(rows)) |-> {}])

\* A complex event has no list of fields.
getEventsSchemaFromModel(rows) ==
    SchemaOf(rows, Range(RowNames(rows)),
             [n \in Range(RowNames(rows)) |-> IF RowNamed(rows, n).type = "aggregation" THEN {}
                                             ELSE RowNamed(rows, n).fields])

getActionsSchemaFromModel(rows) ==
    SchemaOf(rows, Range(RowNames(rows)),
             [n \in Range(RowNames(rows)) |-> RowNamed(rows, n).fields])

\* Rows at the old places of the removed names go, the added ones come last;
\* row gives the row of a name.
applyDiff(rows, old, new, row) ==
    LET ch   == getChangesArrays(Range(old), Range(new))
        gone == {i \in DOMAIN old : old[i] \in ch.remove}
        kept == SetToSortSeq(DOMAIN rows \ gone, Less)
        came == SetToSortSeq(ch.add, Less)
    IN [i \in DOMAIN kept |-> rows[kept[i]]] \o [i \in DOMAIN came |-> row[came[i]]]

\* config, secure_config and fields: a row whose item changed its type is
\* built anew.
SyncRows(rows, old, new) ==
    LET next == applyDiff(rows, old.keys, new.keys, [n \in Range(new.keys) |-> RowOf(new, n)])
        retyped(i) == /\ i \in DOMAIN new.keys /\ new.keys[i] \in Range(old.keys)
                      /\ old.type[new.keys[i]] # new.type[new.keys[i]]
    IN [i \in DOMAIN next |-> IF retyped(i) THEN RowOf(new, new.keys[i]) ELSE next[i]]

\* mutant: the fields of the rows are not brought up to date
SyncKeysOnly(rows, old, new) == applyDiff(rows, old.keys, new.keys, [n \in Range(new.keys) |-> RowOf(new, n)])

\* events and actions: when no item came or went, the fields and the keys of
\* the items that kept their names are brought up to date, place by place.
SyncKeyedRows(rows, old, new) ==
    LET ch   == getChangesArrays(Range(old.keys), Range(new.keys))
        next == applyDiff(rows, old.keys, new.keys, [n \in Range(new.keys) |-> RowOf(new, n)])
        held(i) == /\ ch.add = {} /\ ch.remove = {}
                   /\ i \in DOMAIN new.keys /\ new.keys[i] \in Range(old.keys)
    IN [i \in DOMAIN next |->
          IF ~held(i) THEN next[i]
          ELSE [next[i] EXCEPT
                  !.fields = new.uses[new.keys[i]],
                  !.keys = applyDiff(@, old.sub[new.keys[i]], new.sub[new.keys[i]],
                                     [k \in Range(new.sub[new.keys[i]]) |-> k])]]

\* What each section's component does when the store's schema has changed.
SyncConfigForm(rows, old, new)       == SyncRows(rows, old, new)
SyncSecureConfigForm(rows, old, new) == SyncRows(rows, old, new)
SyncEventsForm(rows, old, new)       == SyncKeyedRows(rows, old, new)
SyncActionsForm(rows, old, new)      == SyncKeyedRows(rows, old, new)
SyncFieldsForm(rows, old, new)       == SyncRows(rows, old, new)

Sync(s, rows, old, new) ==
    CASE s = "config"  -> SyncConfigForm(rows, old, new)
      [] s = "secure"  -> SyncSecureConfigForm(rows, old, new)
      [] s = "events"  -> SyncEventsForm(rows, old, new)
      [] s = "actions" -> SyncActionsForm(rows, old, new)
      [] s = "fields"  -> SyncFieldsForm(rows, old, new)

\* mutant: the form of a default configuration keeps its own copy
DispatchNoModel(rows, next, touched) ==
    /\ module' = next
    /\ form' = [s \in Sections |-> Sync(s, rows[s], module[s], next[s])]
    /\ draft' = draft

\* One dispatch: the reducer, then every subscription of the forms.  The form
\* of a default configuration takes the store's copy whenever that is a new
\* object (touched), and loses what the user typed but did not yet send.
DispatchWith(rows, next, touched) ==
    /\ module' = next
    /\ form' = [s \in Sections |-> Sync(s, rows[s], module[s], next[s])]
    /\ draft' = [s \in Defaulted |-> IF s \in touched THEN next[s].dflt ELSE draft[s]]

Dispatch(next, touched) == DispatchWith(form, next, touched)

CountEdit == edits < MaxEdits /\ edits' = edits + 1

Room(s) == Len(module[s].keys) < MaxItems

(***************************************************************************)
(* What the facade offers to each section: the modules its methods make of *)
(* the present one.  Names come from the rows of the form.                 *)
(***************************************************************************)
ConfigOperations ==
    (IF Room("config") THEN {addConfigParam(module)} ELSE {})
    \cup {removeConfigParam(module, form["config"][i].name) : i \in DOMAIN form["config"]}
    \cup (IF form["config"] # <<>> THEN {removeAllConfigParams(module)} ELSE {})

SecureConfigOperations ==
    (IF Room("secure") THEN {addSecureConfigParam(module)} ELSE {})
    \cup {removeSecureConfigParam(module, form["secure"][i].name) : i \in DOMAIN form["secure"]}
    \cup (IF form["secure"] # <<>> THEN {removeAllSecureConfigParams(module)} ELSE {})

\* Key operations of a row whose name is not in the store fail on it.
KnownRows(s) == {i \in DOMAIN form[s] : form[s][i].name \in Range(module[s].keys)}

KeyOperations(s, AddTo(_, _), RemoveFrom(_, _, _)) ==
    {AddTo(module, form[s][i].name) :
        i \in {j \in KnownRows(s) : Len(module[s].sub[form[s][j].name]) < MaxItems}}
    \cup UNION {{RemoveFrom(module, form[s][i].name, k) : k \in Range(form[s][i].keys)} :
                    i \in KnownRows(s)}

EventsOperations ==
    (IF Room("events") THEN {addEvent(module)} ELSE {})
    \cup {removeEvent(module, form["events"][i].name) : i \in DOMAIN form["events"]}
    \cup (IF form["events"] # <<>> THEN {removeAllEvents(module)} ELSE {})
    \cup KeyOperations("events", addEventKey, removeEventKey)

ActionsOperations ==
    (IF Room("actions") THEN {addAction(module)} ELSE {})
    \cup {removeAction(module, form["actions"][i].name) : i \in DOMAIN form["actions"]}
    \cup (IF form["actions"] # <<>> THEN {removeAllActions(module)} ELSE {})
    \cup KeyOperations("actions", addActionKey, removeActionKey)

FieldsOperations ==
    (IF Room("fields") THEN {addField(module)} ELSE {})
    \cup {removeField(module, form["fields"][i].name) : i \in DOMAIN form["fields"]}
    \cup (IF form["fields"] # <<>> THEN {removeAllFields(module)} ELSE {})

(***************************************************************************)
(* The sections of the page.                                               *)
(***************************************************************************)
Operate(operations, s) ==
    /\ CountEdit
    /\ \E next \in operations : Dispatch(next, {s})
    /\ UNCHANGED <<armed, withheld>>

ConfigSection       == Operate(ConfigOperations, "config")
SecureConfigSection == Operate(SecureConfigOperations, "secure")
EventsSection       == Operate(EventsOperations, "events")
ActionsSection      == Operate(ActionsOperations, "actions")
FieldsSection       == Operate(FieldsOperations, "fields")

\* The changes one control of a row can make.
RowChanges(s, row) ==
    {[row EXCEPT !.name = n] : n \in TypedNames}
    \cup {[row EXCEPT !.type = t] : t \in Types(s)}
    \cup (IF s \in Keyed
          THEN {[row EXCEPT !.fields = f] :
                   f \in {row.fields \cup {x} : x \in Range(module["fields"].keys)}}
               \cup UNION {{[row EXCEPT !.keys[i] = k] : k \in TypedNames} :
                              i \in DOMAIN row.keys}
          ELSE {[row EXCEPT !.required = ~@]})

Updated(s, rows) ==
    CASE s = "config"  -> updateConfigSchema(module, getSchemaFromModel(rows))
      [] s = "secure"  -> updateSecureConfigSchema(module, getSecureConfigSchemaFromModel(rows))
      [] s = "events"  -> updateEventsSchema(module, getEventsSchemaFromModel(rows))
      [] s = "actions" -> updateActionsSchema(module, getActionsSchemaFromModel(rows))
      [] s = "fields"  -> updateFieldsSchema(module, getSchemaFromModel(rows))

Overlapped(rows) == \/ hasOverlappedNames(RowNames(rows))
                    \/ \E i \in DOMAIN rows : hasOverlappedNames(rows[i].keys)

\* A control of a form changes: the schema goes to the store, unless a name is
\* there twice, in which case the change stays in the form.
ChangeRow(s) ==
    /\ CountEdit
    /\ \E i \in DOMAIN form[s] : \E row \in RowChanges(s, form[s][i]) \ {form[s][i]} :
         LET rows == [form EXCEPT ![s][i] = row]
         IN IF Overlapped(rows[s])
            THEN /\ form' = rows
                 /\ withheld' = withheld \cup {s}
                 /\ UNCHANGED <<module, draft>>
            ELSE /\ DispatchWith(rows, Updated(s, rows[s]),
                                 IF s = "fields" THEN Keyed ELSE {s})
                 /\ UNCHANGED withheld
    /\ UNCHANGED armed

\* The user types a value into the form of a default configuration; the form
\* reports it a second later (ncform-app, updateWaitMs).
TypeDefault(s) ==
    /\ CountEdit
    /\ \E n \in DOMAIN draft[s] : \E k \in DOMAIN draft[s][n].vals :
         /\ ~draft[s][n].vals[k]
         /\ draft' = [draft EXCEPT ![s][n].vals[k] = TRUE]
    /\ armed' = armed \cup {s}
    /\ UNCHANGED <<module, form, withheld>>

\* The second has passed: the form's model of that moment goes to the store.
SendDefault(s) ==
    /\ s \in armed
    /\ armed' = armed \ {s}
    /\ Dispatch(CASE s = "config"  -> updateDefaultConfig(module, draft[s])
                  [] s = "secure"  -> updateSecureDefaultConfig(module, draft[s])
                  [] s = "events"  -> updateEventsDefaultConfig(module, draft[s])
                  [] s = "actions" -> updateActionsDefaultConfig(module, draft[s]), {s})
    /\ UNCHANGED <<withheld, edits>>

LocalizationSection ==
    /\ CountEdit
    /\ \E s \in Sections : \E n \in DOMAIN module[s].loc :
         /\ module[s].loc[n] # Translated
         /\ Dispatch(updateLocalizationModel(module, s, n), {})
    /\ UNCHANGED <<armed, withheld>>

(***************************************************************************)
(* A module as it comes from the server: two parameters, an event with a   *)
(* key and an action that use one field, and a second event.               *)
(***************************************************************************)
Params == AddItem(AddItem(getEmptySchema, 1, "string", getDefaultValueByType("string")),
                  2, "object", getDefaultValueByType("object"))

LoadedFields == [AddItem(getEmptySchema, 1, "string", 0) EXCEPT !.info = <<1>>, !.dflt = Nothing]

LoadedEvents ==
    LET first == AddKey(Enlist([AddItem(getEmptySchema, 1, "atomic", getDefaultEvent("atomic", {}, {1}))
                                  EXCEPT !.uses[1] = {1}], 1), 1)
    IN Enlist(AddItem(first, 2, "atomic", getDefaultEvent("atomic", {}, {})), 2)

LoadedActions ==
    Enlist([AddItem(getEmptySchema, 1, "base.action", getDefaultAction({}, {1}))
              EXCEPT !.uses[1] = {1}], 1)

Init ==
    /\ module = [config |-> Params, secure |-> Params, events |-> LoadedEvents,
                 actions |-> LoadedActions, fields |-> LoadedFields]
    /\ form = [s \in Sections |-> ModelOf(s, module[s])]
    /\ draft = [s \in Defaulted |-> module[s].dflt]
    /\ armed = {} /\ withheld = {} /\ edits = 0

Next ==
    \/ ConfigSection \/ SecureConfigSection \/ EventsSection \/ ActionsSection
    \/ FieldsSection \/ LocalizationSection
    \/ \E s \in Sections : ChangeRow(s)
    \/ \E s \in Defaulted : TypeDefault(s) \/ SendDefault(s)

Spec == Init /\ [][Next]_vars

----------------------------------------------------------------------------
(***************************************************************************)
(* Properties                                                              *)
(***************************************************************************)
\* The places where one item is written agree, after any sequence of edits
\* and however late a default configuration is sent: the keys of the schema,
\* module.info, the required list of events and actions, the default
\* configuration, the titles.
SectionsAligned ==
    \A s \in Sections :
        LET sec == module[s]
            names == Range(sec.keys)
        IN /\ ~hasOverlappedNames(sec.keys)
           /\ DOMAIN sec.loc = names
           /\ s \in Listed => sec.info = sec.keys
           /\ s \in Keyed => sec.required = names
           /\ s \in Defaulted => DOMAIN sec.dflt = names
           /\ s \in {"config", "secure"} => sec.required \subseteq names
           /\ \A n \in names : sec.loc[n] \in {n, Translated}

\* The same for the keys of an event or an action: schema, default values and
\* titles name the same keys, and the entry has the type of its event.
KeysAligned ==
    \A s \in Keyed : \A n \in Range(module[s].keys) :
        LET keys == Range(module[s].sub[n])
        IN /\ DOMAIN module[s].keyloc[n] = keys
           /\ DOMAIN module[s].dflt[n].vals \ Complex = keys
           /\ module[s].dflt[n].type = module[s].type[n]
           /\ HasFields(module[s], n) => module[s].dflt[n].fields = module[s].uses[n]

\* A form has a row for every item of the store and, if all of its changes
\* reached the store, shows those items in their order, with their fields and
\* keys.  (After a change was kept back a row may end up with another item's
\* keys: two events, the first renamed to the name of the second and the
\* second renamed in turn.)
FormMirrorsStore ==
    \A s \in Sections :
        /\ Len(form[s]) = Len(module[s].keys)
        /\ s \notin withheld => form[s] = ModelOf(s, module[s])

\* The form of a default configuration never holds other items than the
\* module, so that the late report of its model cannot bring one back.
DraftMirrorsStore ==
    \A s \in Defaulted :
        /\ DOMAIN draft[s] = DOMAIN module[s].dflt
        /\ s \notin armed => \A n \in DOMAIN draft[s] : draft[s][n] = module[s].dflt[n]

\* When a field is renamed, retyped or marked in the fields' form, events and
\* actions keep the fields they use, a renamed one under its new name, and are
\* rid of those that are gone, also when a removed field was still in use; but
\* the name of one that was removed counts as in use if it is given again.  If a
\* change of that form was ever kept back several names may change at once, and
\* getChangesArrays may pair them otherwise than the rows do: then only the
\* existence of the fields is stated.
FieldsKnownStep ==
    LET old == module["fields"].keys
        new == module'["fields"].keys
    IN (/\ module'["fields"] # module["fields"] /\ form'["fields"] # form["fields"]
        /\ Len(new) = Len(old))
       => \A s \in Keyed : \A n \in {m \in Range(module'[s].keys) : HasFields(module'[s], m)} :
            LET used == module[s].uses[n] IN
            /\ module'[s].uses[n] \subseteq Range(new)
            /\ "fields" \notin withheld =>
                 module'[s].uses[n] = {new[i] : i \in {j \in DOMAIN old : old[j] \in used}}
                                        \cup ((used \ Range(old)) \cap Range(new))

TranslatedOf(sec) == {n \in DOMAIN sec.loc : sec.loc[n] = Translated}

\* When events or actions are renamed no translated title is lost or doubled;
\* and a renamed one takes its own default values and title along, unless a
\* change of its form was ever kept back, when the code may pair several new
\* names with the old ones wrongly.
RenameStep ==
    \A s \in Keyed :
        (Len(module'[s].keys) = Len(module[s].keys) /\ module'[s].keys # module[s].keys)
        => /\ Cardinality(TranslatedOf(module'[s])) = Cardinality(TranslatedOf(module[s]))
           /\ s \notin withheld =>
                \A i \in {j \in DOMAIN module[s].keys : module'[s].keys[j] # module[s].keys[j]} :
                    LET a == module[s].keys[i]
                        b == module'[s].keys[i]
                    IN /\ module'[s].dflt[b].vals = module[s].dflt[a].vals
                       /\ module[s].loc[a] = Translated <=> module'[s].loc[b] = Translated
============================================================
