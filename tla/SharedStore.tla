---------------------------- MODULE SharedStore ----------------------------
(***************************************************************************)
(* What the pages of the web client have in common: the stores of          *)
(* libs/store/shared and libs/store/tags, the guards of libs/core that     *)
(* stand before the pages, the login page and the navigation bar.          *)
(*                                                                         *)
(* The session is the cookie the server sets; a script cannot read it, so  *)
(* the client goes by the answers to fetchInfo, of type user or guest.     *)
(* A list is the count of operations at the moment the server made it.     *)
(***************************************************************************)
EXTENDS StoreKit

CONSTANTS Domains,       \* domains of tags
          Searches,      \* values of the filters by tag and by name
          Slices,        \* bound: sets of effects a behaviour follows, see StoreKit
          MaxOps         \* bound: operations of the user

VARIABLES store,         \* the store, see StoreKit
          ui,            \* the area on the screen, the guard that a navigation waits
                         \* for, the session's cookie, the login page, the fetches made
          ops            \* history: operations so far

vars == <<store, ui, ops>>

Options  == {"optionsActions", "optionsEvents", "optionsFields", "optionsTags"}
Lists    == {"allAgents", "allGroups", "allPolicies", "allServices", "allModules", "binaries"} \cup Options
Commands == {"changePassword", "exportBinary"}
Effects  == Lists \cup Commands \cup {"info", "logout", "login", "latest", "tags"}

\* Types of PublicInfo; info is None until an answer has come.
Guest == 1
User  == 2

(***************************************************************************)
(* The reducers.                                                           *)
(***************************************************************************)
InitialState ==
    [info |-> None, isInfoLoaded |-> FALSE, list |-> [l \in Lists |-> None], latestAgentBinary |-> None,
     initializedGroups |-> FALSE, selectedTags |-> 0, searchValue |-> 0,
     isLoadingTags |-> [d \in Domains |-> FALSE], tags |-> [d \in Domains |-> None],
     busy |-> {}, errors |-> {}]

StateOK(s) ==
    /\ s.info \in {None, Guest, User} /\ s.isInfoLoaded \in BOOLEAN
    /\ s.list \in [Lists -> 0..MaxOps] /\ s.latestAgentBinary \in 0..MaxOps
    /\ s.initializedGroups \in BOOLEAN /\ s.selectedTags \in Searches /\ s.searchValue \in Searches
    /\ s.busy \subseteq Effects /\ s.errors \subseteq Commands

TagsStateOK(s) == s.isLoadingTags \in [Domains -> BOOLEAN] /\ s.tags \in [Domains -> 0..MaxOps]

\* A list whose flag is silent does not show that it is being loaded.
reduceAll(s, l, step, data, silent) ==
    LET t == IF step = "start" /\ ~silent THEN Flag(s, l) ELSE Unflag(s, l)
    IN IF step # "success" THEN t
       ELSE [t EXCEPT !.list[l] = data, !.initializedGroups = @ \/ l = "allGroups"]

reduceOptions(s, l, step, data) ==
    LET t == ReduceFlag(s, l, step)
    IN IF step = "success" THEN [t EXCEPT !.list[l] = data] ELSE t

\* Both requests for binaries leave the newest one.
reduceBinaries(s, e, step, data) ==
    LET t == ReduceFlag(s, e, step)
    IN IF step # "success" THEN t
       ELSE [t EXCEPT !.latestAgentBinary = data, !.list["binaries"] = IF e = "binaries" THEN data ELSE @]

reduceChangePassword(s, step) == ReduceCommand(s, "changePassword", step)
reduceExportBinary(s, step)   == ReduceCommand(s, "exportBinary", step)

reduceInfo(s, step, info) ==
    LET t == [ReduceFlag(s, "info", step) EXCEPT !.isInfoLoaded = (step = "success")]
    IN IF step = "success" THEN [t EXCEPT !.info = info] ELSE t

reduceLogout(s) == [s EXCEPT !.info = None]

reduceFilter(s, member, v) == [s EXCEPT ![member] = v]

reduceTags(s, d, step, data) ==
    LET t == [s EXCEPT !.isLoadingTags[d] = (step = "start")]
    IN IF step = "success" THEN [t EXCEPT !.tags[d] = data] ELSE t

(***************************************************************************)
(* The effects.                                                            *)
(***************************************************************************)
fetchInfo(x) == Debounce(x, reduceInfo(x.st, "start", None), "info", None)

reduceList(s, l, step, data, silent) ==
    CASE l \in Options     -> reduceOptions(s, l, step, data)
      [] l = "binaries"    -> reduceBinaries(s, l, step, data)
      [] OTHER             -> reduceAll(s, l, step, data, silent)

\* mutant: exhaustMap, a list is not fetched while it is being fetched
fetchAllExhaust(x, l, silent) ==
    IF UnderWay(x, l) THEN x ELSE Debounce(x, reduceList(x.st, l, "start", None, silent), l, None)

fetchAll(x, l, silent) == Debounce(x, reduceList(x.st, l, "start", None, silent), l, None)

fetchLatestAgentBinary(x) == Request(x, reduceBinaries(x.st, "latest", "start", None), "latest", ops)

startCommand(x, c) ==
    Request(x, IF c = "changePassword" THEN reduceChangePassword(x.st, "start")
               ELSE reduceExportBinary(x.st, "start"), c, None)

logout(x) == Request(x, reduceLogout(x.st), "logout", None)

\* mergeMap: every request for tags stays under way.
fetchTags(x, d) ==
    IF ~Follows(x, "tags") THEN x
    ELSE [x EXCEPT !.st = reduceTags(x.st, d, "start", None),
                   !.http["tags"] = Append(@, [of |-> d, data |-> ops])]

(***************************************************************************)
(* The guards.  A navigation fetches the info anew and goes on when it has *)
(* come; fetchInfo resets isInfoLoaded, so that no guard goes by an answer *)
(* that was there before.                                                  *)
(***************************************************************************)
Navigate(x, u, guard) == <<fetchInfo(x), [u EXCEPT !.guard = guard]>>

Arrive(x, u, area) == <<x, [u EXCEPT !.guard = "none", !.area = area]>>

\* mutant: any answer lets the navigation pass
AuthorizedGuardOpen(x, u) ==
    IF x.st.info = None THEN Navigate(x, u, "unauthorized") ELSE Arrive(x, u, "pages")

AuthorizedGuard(x, u) ==
    IF x.st.info # User THEN Navigate(x, u, "unauthorized") ELSE Arrive(x, u, "pages")

UnauthorizedGuard(x, u) ==
    IF x.st.info = User THEN Navigate(x, u, "welcome") ELSE Arrive(x, u, "login")

WelcomeGuard(x, u) ==
    IF x.st.info = User THEN Navigate(x, u, "authorized") ELSE Navigate(x, u, "unauthorized")

\* The login page waits for the info of a user, then goes to the page asked for.
redirect(x, u) ==
    IF u.redirect /\ x.st.info = User THEN Navigate(x, [u EXCEPT !.redirect = FALSE], "authorized")
    ELSE <<x, u>>

\* Who listens to the info: the login page, and the guard of a navigation.
OnInfo(p) ==
    LET x == redirect(p[1], p[2])[1]
        u == redirect(p[1], p[2])[2]
    IN IF u.guard = "none" \/ x.st.info = None \/ ~x.st.isInfoLoaded THEN <<x, u>>
       ELSE CASE u.guard = "authorized"   -> AuthorizedGuard(x, u)
              [] u.guard = "unauthorized" -> UnauthorizedGuard(x, u)
              [] u.guard = "welcome"      -> WelcomeGuard(x, u)

Do(p)   == store' = p[1] /\ ui' = p[2]
Step(p) == ops < MaxOps /\ ops' = ops + 1 /\ Do(p)

(***************************************************************************)
(* Operations of the user.                                                 *)
(***************************************************************************)
\* A page of the client is loaded: nothing is left of what was.
Load ==
    /\ Follows(store, "info")
    /\ \E guard \in {"authorized", "unauthorized", "welcome"} :
         Step(Navigate(NewStore(InitialState, DOMAIN store.http),
                       [ui EXCEPT !.area = "none", !.redirect = FALSE], guard))

\* A link to another page.
OpenPage ==
    /\ ui.area = "pages" /\ Follows(store, "info")
    /\ Step(Navigate(store, ui, "authorized"))

Logout ==
    /\ ui.area = "pages" /\ Follows(store, "logout")
    /\ Step(<<logout(store), ui>>)

Login ==
    /\ ui.area = "login" /\ Follows(store, "login") /\ ~UnderWay(store, "login")
    /\ Step(<<Request(store, store.st, "login", None), ui>>)

\* Every page fetches the lists it needs when it opens, some after a change.
FetchAll ==
    \E l \in {l \in Lists : Follows(store, l)}, silent \in BOOLEAN :
        /\ silent => l \in {"allGroups", "allPolicies"}
        /\ Step(<<fetchAll(store, l, silent), [ui EXCEPT !.asked[l] = ops]>>)

FetchLatest == Follows(store, "latest") /\ Step(<<fetchLatestAgentBinary(store), ui>>)

FetchTags == \E d \in Domains : Follows(store, "tags") /\ Step(<<fetchTags(store, d), ui>>)

SetFilter ==
    /\ Follows(store, "optionsTags")
    /\ \E member \in {"selectedTags", "searchValue"}, v \in Searches :
         Step(<<Reduced(store, reduceFilter(store.st, member, v)), ui>>)

Command ==
    \E c \in {c \in Commands : Follows(store, c) /\ c \notin store.st.busy} :
        Step(<<startCommand(store, c), IF c = "changePassword" THEN [ui EXCEPT !.modal = TRUE] ELSE ui>>)

(***************************************************************************)
(* Timers and answers.                                                     *)
(***************************************************************************)
\* A request for the info carries the cookie there is.
Tick ==
    /\ \/ Waiting(store, "info") /\ Do(<<Sent(store, "info", ui.cookie), ui>>)
       \/ \E l \in Lists : Waiting(store, l) /\ Do(<<Sent(store, l, ops), ui>>)
    /\ UNCHANGED ops

\* The effect has no catchError: after a failure nobody hears of the info.
\* An answer for a user may bring a new cookie, after a logout too.  While the
\* fetch of a guard waits in debounceTime, the answer to an earlier request
\* still comes in and decides: the session it tells of may be over.
AnswerInfo(ok, refresh) ==
    /\ UnderWay(store, "info") /\ (refresh => ok)
    /\ LET user   == store.http["info"][1]
           x      == Done(store, "info", reduceInfo(store.st, "success", IF user THEN User ELSE Guest))
           cookie == ui.cookie \/ (user /\ refresh)
           y      == CASE ui.guard = "none" -> x
                       [] user = cookie     -> Settle(x, "info")
                       [] OTHER             -> Excuse(x, "info")
       IN IF ok THEN Do(OnInfo(<<y, [ui EXCEPT !.cookie = cookie]>>))
          ELSE Do(<<Excuse(Done(store, "info", store.st), "info"), ui>>)
    /\ UNCHANGED ops

\* The login page comes next, whether the server has ended the session or not.
AnswerLogout(ok) ==
    /\ UnderWay(store, "logout")
    /\ Do(Navigate(Done(store, "logout", store.st), [ui EXCEPT !.cookie = @ /\ ~ok], "unauthorized"))
    /\ UNCHANGED ops

AnswerLogin(ok) ==
    /\ UnderWay(store, "login")
    /\ LET x == Done(store, "login", store.st)
       IN IF ok THEN Do(redirect(fetchInfo(x), [ui EXCEPT !.cookie = TRUE, !.redirect = TRUE]))
          ELSE Do(<<x, ui>>)
    /\ UNCHANGED ops

AnswerAll(l, ok) ==
    /\ UnderWay(store, l)
    /\ LET x == Done(store, l, reduceList(store.st, l, Outcome(ok),
                                          store.http[l][1], FALSE))
       IN Do(<<IF ok THEN Settle(x, l) ELSE Excuse(x, l), ui>>)
    /\ UNCHANGED ops

AnswerLatest(ok) ==
    /\ UnderWay(store, "latest")
    /\ Do(<<Done(store, "latest", reduceBinaries(store.st, "latest", Outcome(ok),
                                                 store.http["latest"][1])), ui>>)
    /\ UNCHANGED ops

\* Tags answer in any order.  There is no catchError here either: a failure
\* ends every request of the effect, of all domains.
AnswerTags(ok) ==
    /\ UnderWay(store, "tags")
    /\ IF ok
       THEN \E i \in DOMAIN store.http["tags"] :
              LET req == store.http["tags"][i]
              IN Do(<<[store EXCEPT !.st = reduceTags(@, req.of, "success", req.data),
                                    !.http["tags"] = RemoveAt(@, i)], ui>>)
       ELSE Do(<<Excuse([store EXCEPT !.http["tags"] = <<>>], "tags"), ui>>)
    /\ UNCHANGED ops

\* The navigation bar closes the password dialog when there is no error.
AnswerCommand(c, ok) ==
    /\ UnderWay(store, c)
    /\ LET step == Outcome(ok)
           s    == IF c = "changePassword" THEN reduceChangePassword(store.st, step)
                   ELSE reduceExportBinary(store.st, step)
       IN Do(<<Done(store, c, s),
               IF c = "changePassword" /\ s.errors \cap {c} = {} THEN [ui EXCEPT !.modal = FALSE] ELSE ui>>)
    /\ UNCHANGED ops

Answer ==
    \E ok \in BOOLEAN :
        \/ \E refresh \in BOOLEAN : AnswerInfo(ok, refresh)
        \/ AnswerLogout(ok) \/ AnswerLogin(ok) \/ AnswerLatest(ok) \/ AnswerTags(ok)
        \/ \E l \in Lists : AnswerAll(l, ok)
        \/ \E c \in Commands : AnswerCommand(c, ok)

Init ==
    /\ \E slice \in Slices : store = NewStore(InitialState, slice)
    /\ \E cookie \in BOOLEAN :
         ui = [area |-> "none", guard |-> "none", cookie |-> cookie, redirect |-> FALSE, modal |-> FALSE,
               asked |-> [l \in Lists |-> 0]]
    /\ ops = 0

Next ==
    \/ Load \/ OpenPage \/ Logout \/ Login
    \/ FetchAll \/ FetchLatest \/ FetchTags \/ SetFilter \/ Command
    \/ Tick \/ Answer

Spec == Init /\ [][Next]_vars

----------------------------------------------------------------------------
TypeOK == StateOK(store.st) /\ TagsStateOK(store.st) /\ ops \in 0..MaxOps

\* Once nothing is under way, no request for the info has failed and no guard
\* has gone by the answer to an earlier request, no navigation hangs, the login page is shown without a session and the pages
\* are shown with one, however logins, logouts and late answers cross.
SessionSettled ==
    (Follows(store, "info") /\ ops > 0 /\ Quiet(store) /\ "info" \notin store.log)
        => /\ ui.guard = "none"
           /\ ui.area = IF ui.cookie THEN "pages" ELSE "login"

\* Once nothing is under way, a list is no older than the last fetch of it.
ListsFresh ==
    \A l \in Lists :
        (Follows(store, l) /\ ~Pending(store, l) /\ l \notin store.log) => store.st.list[l] >= ui.asked[l]

\* A flag that shows a spinner or disables a button goes with a request,
\* unless the request failed in an effect that does not report it.
BusyPending ==
    /\ \A f \in store.st.busy : Pending(store, f) \/ f \in store.log
    /\ \A d \in Domains :
         store.st.isLoadingTags[d]
             => "tags" \in store.log \/ \E i \in DOMAIN store.http["tags"] : store.http["tags"][i].of = d
=============================================================================
