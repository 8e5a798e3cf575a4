----------------------------- MODULE UpgraderCache -----------------------------
(***************************************************************************)
(* The server's cache of agent upgraders                                   *)
(* (src/pkg/app/server/mmodule/upgrader/cache).                            *)
(*                                                                         *)
(* A map from upgrader keys to the files fetched from the file storage, a  *)
(* usage tracker of fixed size that names the entry to evict, and one      *)
(* watcher goroutine per insertion that deletes the entry when it expires. *)
(* Get holds cacheMux from beginning to end, file storage access included, *)
(* so one step of the model is one Get, one expiry or one step of Close.   *)
(***************************************************************************)
EXTENDS Integers, FiniteSets

CONSTANTS
  Key,          \* upgrader keys: version, os, arch and revision
  NoKey,        \* marks an empty tracker slot (a nil *lruTrackerItem)
  Size,         \* tracker slots (cacheSize = 6)
  MaxCounter,   \* bound: uses of one tracker slot
  MaxWatchers   \* bound: live watchers of one key

ASSUME CacheAssumption ==
  /\ NoKey \notin Key
  /\ Size \in Nat \ {0}
  /\ MaxCounter \in Nat /\ MaxWatchers \in Nat

VARIABLES
  cache,      \* keys that have an entry in Cache.cache
  store,      \* lruTracker.store: a key and its use counter per slot
  watchers,   \* watchers[k]: goroutines waiting to expire key k
  cancelled,  \* Close cancelled the cache's context
  closed,     \* Close returned
  result      \* outcome of the last Get

vars == <<cache, store, watchers, cancelled, closed, result>>

Slots == 1 .. Size
Empty(i) == store[i].key = NoKey

(* Keys the tracker knows of. *)
Tracked == {store[i].key : i \in Slots}

Init ==
  /\ cache = {}
  /\ store = [i \in Slots |-> [key |-> NoKey, counter |-> 0]]
  /\ watchers = [k \in Key |-> 0]
  /\ cancelled = FALSE /\ closed = FALSE /\ result = "none"
-------------------------------------------------------------------------------
(* lruTracker.findIdxByKey: the first slot that holds k. *)
IsSlotOf(i, k) == /\ store[i].key = k
                  /\ \A j \in 1 .. i - 1 : store[j].key # k

(* lruTracker.Use: count one more use in that slot, if there is one. *)
Used(k) == [i \in Slots |->
              IF IsSlotOf(i, k)
              THEN [key |-> k, counter |-> store[i].counter + 1]
              ELSE store[i]]

(* lruTracker.SetOrReplace chooses the first empty slot.  With none, it     *)
(* chooses the slot whose counter is smallest and below minCounter, which   *)
(* starts at 0, and slot 1 (index 0) when no counter is below 0.            *)
Chosen(i) ==
  IF \E j \in Slots : Empty(j)
  THEN Empty(i) /\ \A j \in 1 .. i - 1 : ~Empty(j)
  ELSE IF \E j \in Slots : store[j].counter < 0
       THEN /\ \A j \in Slots : store[i].counter <= store[j].counter
            /\ \A j \in 1 .. i - 1 : store[i].counter < store[j].counter
       ELSE i = 1

(* Faulty: the entry of the replaced key is not deleted. *)
WithoutEviction(i, k) == cache \cup {k}

(* Cache.put deletes the entry of the key it replaced in the tracker. *)
AfterPut(i, k) == (cache \ {store[i].key}) \cup {k}
-------------------------------------------------------------------------------
(* Get of a cached key counts the use and returns the entry. *)
GetHit(k) ==
  /\ k \in cache
  /\ \A i \in Slots : IsSlotOf(i, k) => store[i].counter < MaxCounter
  /\ store' = Used(k)
  /\ result' = "hit"
  /\ UNCHANGED <<cache, watchers, cancelled, closed>>

(* Faulty: no watcher is started for the new entry. *)
GetMissUnwatched(k) ==
  /\ k \notin cache /\ watchers[k] < MaxWatchers
  /\ \E i \in Slots :
       /\ Chosen(i)
       /\ cache' = AfterPut(i, k)
       /\ store' = [store EXCEPT ![i] = [key |-> k, counter |-> 0]]
  /\ watchers' = [watchers EXCEPT ![k] = IF @ = 0 THEN 0 ELSE @ + 1]
  /\ result' = "fetched"
  /\ UNCHANGED <<cancelled, closed>>

(* Get of another key fetches it, puts it and starts its watcher. *)
GetMiss(k) ==
  /\ k \notin cache /\ watchers[k] < MaxWatchers
  /\ \E i \in Slots :
       /\ Chosen(i)
       /\ cache' = AfterPut(i, k)
       /\ store' = [store EXCEPT ![i] = [key |-> k, counter |-> 0]]
  /\ watchers' = [watchers EXCEPT ![k] = @ + 1]
  /\ result' = "fetched"
  /\ UNCHANGED <<cancelled, closed>>

(* The file storage does not have the upgrader or its thumbprint. *)
GetFail(k) ==
  /\ k \notin cache
  /\ result' = "error"
  /\ UNCHANGED <<cache, store, watchers, cancelled, closed>>

(* Faulty: the wait group is told twice that the watcher is done. *)
ExpireDoneTwice(k) ==
  /\ watchers[k] > 0
  /\ cache' = cache \ {k}
  /\ watchers' = [watchers EXCEPT ![k] = @ - 2]
  /\ UNCHANGED <<store, cancelled, closed, result>>

(* Faulty: a watcher waits once more when the entry was used meanwhile. *)
ExpireIfUnused(k) ==
  LET used == {i \in Slots : IsSlotOf(i, k) /\ store[i].counter > 0} IN
  /\ watchers[k] > 0
  /\ store' = [i \in Slots |-> IF i \in used THEN [store[i] EXCEPT !.counter = 0]
                               ELSE store[i]]
  /\ cache' = IF used = {} THEN cache \ {k} ELSE cache
  /\ watchers' = [watchers EXCEPT ![k] = IF used = {} THEN @ - 1 ELSE @]
  /\ UNCHANGED <<cancelled, closed, result>>

(* watchCacheEntry after cacheEntryExpirationTime: delete the entry of k,   *)
(* whichever insertion it is from; the tracker keeps the key.               *)
Expire(k) ==
  /\ watchers[k] > 0
  /\ cache' = cache \ {k}
  /\ watchers' = [watchers EXCEPT ![k] = @ - 1]
  /\ UNCHANGED <<store, cancelled, closed, result>>

(* watchCacheEntry after Close: return without touching the map. *)
Abandon(k) ==
  /\ watchers[k] > 0 /\ cancelled
  /\ watchers' = [watchers EXCEPT ![k] = @ - 1]
  /\ UNCHANGED <<cache, store, cancelled, closed, result>>

(* Close cancels the context, then waits for the watchers. *)
Close ==
  /\ ~cancelled
  /\ cancelled' = TRUE
  /\ UNCHANGED <<cache, store, watchers, closed, result>>

CloseReturns ==
  /\ cancelled /\ ~closed /\ \A k \in Key : watchers[k] = 0
  /\ closed' = TRUE
  /\ UNCHANGED <<cache, store, watchers, cancelled, result>>

Watcher(k) == Expire(k) \/ Abandon(k)

Next == \/ \E k \in Key : GetHit(k) \/ GetMiss(k) \/ GetFail(k) \/ Watcher(k)
        \/ Close \/ CloseReturns

Spec == Init /\ [][Next]_vars

(* Timers fire and the watcher then gets the mutex. *)
FairSpec == Spec /\ \A k \in Key : WF_vars(Watcher(k))
-------------------------------------------------------------------------------
(* The types of the variables; watchersWG never goes negative. *)
TypeOK ==
  /\ cache \subseteq Key
  /\ store \in [Slots -> [key : Key \cup {NoKey}, counter : Nat]]
  /\ watchers \in [Key -> Nat]
  /\ cancelled \in BOOLEAN /\ closed \in BOOLEAN
  /\ result \in {"none", "hit", "fetched", "error"}

(* Every entry of the map is known to the tracker, although expiry deletes *)
(* entries behind the tracker's back and a key may then hold two slots: an *)
(* entry the tracker has lost could never be evicted.                      *)
CachedTracked == cache \subseteq Tracked

(* The map never holds more upgraders than the tracker has slots, which is *)
(* what bounds the memory the cache takes.                                 *)
CacheBounded == Cardinality(cache) <= Size

(* As long as the cache is open every entry has a watcher of its own or an *)
(* older one, so that no upgrader is served for ever.                      *)
EntryWatched == ~cancelled => \A k \in cache : watchers[k] > 0

(* A cached upgrader is dropped in the end and the next Get fetches afresh,*)
(* however often the key is used, evicted and inserted again.              *)
EntryExpires == \A k \in Key : (k \in cache) ~> (k \notin cache \/ cancelled)
===============================================================================
