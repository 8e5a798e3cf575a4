------------------------------ MODULE StoreKit ------------------------------
(***************************************************************************)
(* What the stores of the web client (src/web/libs/store) share: the lists *)
(* their grids show, and the way their effects turn actions into requests. *)
(*                                                                         *)
(* The browser runs one callback at a time.  A callback is an action of    *)
(* the user, a timer of debounceTime that fires, or an answer that comes   *)
(* in; the actions it dispatches, those that effects dispatch in turn, and *)
(* the reactions of the page are over before the next one starts.  A store *)
(* is therefore a record that a callback replaces in one step:             *)
(*   st     the reducer's state;  st.busy  the is... flags that are true;  *)
(*          st.errors  the ...Error members that are set                   *)
(*   timer  effect -> <<>> or <<payload>>  debounceTime holds one payload  *)
(*   http   effect -> <<>> or <<request>>  switchMap keeps the last one    *)
(*   ended  effects whose observable has completed: they hear no action    *)
(*   log    excused: lists and entities that may differ from what the page *)
(*          asks for, since a request failed or was overtaken              *)
(***************************************************************************)
EXTENDS Integers, Sequences, FiniteSets, SequencesExt, Functions

None == 0        \* undefined, where an identifier is expected

(***************************************************************************)
(* Grids.  A page of rows is one record that says which request it answers.*)
(***************************************************************************)
NoFilters == [field \in {} |-> {}]

\* Filters hold lists; an empty list removes the filter of its field.
getGridFiltration(filters, field, values) ==
    LET others == [f \in DOMAIN filters \ {field} |-> filters[f]]
    IN IF values = {} THEN others ELSE (field :> values) @@ others

getGridFiltrationByTag(filters, tag) ==
    [f \in DOMAIN filters \cup {"tags"} |-> IF f = "tags" THEN {tag} ELSE filters[f]]

EmptyGrid == [search |-> 0, filters |-> NoFilters, sort |-> 0, rows |-> <<>>, page |-> 0]

Query(grid) == [search |-> grid.search, filters |-> grid.filters, sort |-> grid.sort]

\* The first page replaces the rows, a later one is appended; an empty page
\* leaves the number of the last page alone.
PutPage(grid, req, empty) ==
    LET chunk == IF empty THEN <<>> ELSE <<req>>
    IN [grid EXCEPT !.rows = IF req.page = 1 THEN chunk ELSE @ \o chunk,
                    !.page = IF empty THEN @ ELSE req.page]

\* The rows are pages 1, 2, ... of what the grid asks for, of one owner.
Answers(grid, owner) ==
    \A i \in DOMAIN grid.rows :
        grid.rows[i] = [page |-> i, query |-> Query(grid), of |-> owner]

(***************************************************************************)
(* Flags, timers, requests.                                                *)
(***************************************************************************)
Flag(s, f)    == [s EXCEPT !.busy = @ \cup {f}]
Unflag(s, f)  == [s EXCEPT !.busy = @ \ {f}]

\* A behaviour follows the effects of one slice, a bound on how many requests
\* can be under way together; what the others send and get is left out.
Follows(x, e) == e \in DOMAIN x.http

Reduced(x, s) == [x EXCEPT !.st = s]

\* An action whose reducer case gives s and whose effect e sends a request,
\* at once or when its debounceTime has passed.
Request(x, s, e, req) ==
    IF ~Follows(x, e) THEN x
    ELSE [x EXCEPT !.st = s, !.http[e] = IF e \in x.ended THEN @ ELSE <<req>>]
Debounce(x, s, e, load) == IF Follows(x, e) THEN [x EXCEPT !.st = s, !.timer[e] = <<load>>] ELSE x
Sent(x, e, req)         == [x EXCEPT !.timer[e] = <<>>, !.http[e] = <<req>>]
Done(x, e, s)           == [x EXCEPT !.st = s, !.http[e] = <<>>]

Waiting(x, e)  == Follows(x, e) /\ x.timer[e] # <<>>
UnderWay(x, e) == Follows(x, e) /\ x.http[e] # <<>>
Pending(x, e)  == Waiting(x, e) \/ UnderWay(x, e)
Quiet(x)       == \A e \in DOMAIN x.http : ~Pending(x, e)

Excuse(x, e) == [x EXCEPT !.log = @ \cup {e}]
Settle(x, e) == [x EXCEPT !.log = @ \ {e}]

(***************************************************************************)
(* Reducer cases that the stores repeat.  An action comes in three steps:  *)
(* "start" raises its flag; "success" and "failure" take it down.          *)
(***************************************************************************)
ReduceFlag(s, f, step) == IF step = "start" THEN Flag(s, f) ELSE Unflag(s, f)

\* A page of the grid k.
ReducePage(s, k, step, req, empty) ==
    LET t == ReduceFlag(s, k, step)
    IN IF step = "success" THEN [t EXCEPT !.grid[k] = PutPage(@, req, empty)] ELSE t

\* The items of the filters of the grid k, loaded by the effect e.
ReduceItems(s, k, e, step, req) ==
    LET t == ReduceFlag(s, e, step)
    IN IF step = "success" THEN [t EXCEPT !.items[k] = req.of] ELSE t

\* A command of the user: the error of the last try goes when the next starts.
ReduceCommand(s, c, step) ==
    LET t == ReduceFlag(s, c, step)
    IN CASE step = "start"   -> [t EXCEPT !.errors = @ \ {c}]
         [] step = "success" -> t
         [] step = "failure" -> [t EXCEPT !.errors = @ \cup {c}]

(***************************************************************************)
(* Answers.  A request may fail, and what it was to bring is missing; a    *)
(* first page that answers the present query makes up for that.            *)
(***************************************************************************)
Arrived(x, k, req) ==
    IF req.page = 1 /\ req.query = Query(x.st.grid[k]) /\ ~Waiting(x, k) THEN Settle(x, k) ELSE x

Outcome(ok) == IF ok THEN "success" ELSE "failure"

\* The answer to a page of the grid k, whose reducer case gives s.
PageAnswered(x, k, s, ok) ==
    IF ok THEN Arrived(Done(x, k, s), k, x.http[k][1]) ELSE Excuse(Done(x, k, s), k)

\* The end of a grid comes into view.  Nothing keeps that from happening while
\* a first page waits or is on its way, which the next page then overtakes.
NextPage(x, y, k, waits) == IF Pending(x, k) \/ waits THEN Excuse(y, k) ELSE y

NewStore(st, slice) ==
    [st |-> st, timer |-> [e \in slice |-> <<>>], http |-> [e \in slice |-> <<>>],
     ended |-> {}, log |-> {}]
=============================================================================
