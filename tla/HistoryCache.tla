---------------------------- MODULE HistoryCache ----------------------------
(***************************************************************************)
(* internal/core/history as a whole: the cache that NewStorage makes is    *)
(* the LRUCache of lru_cache.go, and a call of the storage that works on   *)
(* it does so by the operation of the cache.  After ClearHistory only calls *)
(* that had loaded it before still do; the new cache is left as a list.    *)
(* Nothing in the program calls Remove.                                    *)
(***************************************************************************)
EXTENDS LRUCache, HistoryStorage

OnFirst(c) == call[c].cache = 1

StorageAdds(c) ==
  /\ AddItem(c)
  /\ IF OnFirst(c) THEN Add(call[c].key, call[c].value) ELSE UNCHANGED vars

StorageGets(c) ==
  /\ GetItem(c)
  /\ IF OnFirst(c) THEN Get(call[c].key) ELSE UNCHANGED vars

\* GetAll reads the cache and changes nothing.
StorageOnly(c) ==
  /\ \/ \E k \in Key : LoadsToGet(c, k) \/ \E v \in Value : LoadsToAdd(c, k, v)
     \/ LoadsToGetAll(c) \/ GetAllItems(c) \/ Returns(c)
     \/ ClearBegin(c) \/ ClearSwaps(c)
  /\ UNCHANGED vars

HistoryInit == StorageInit /\ Init
HistoryNext == \E c \in Caller : StorageAdds(c) \/ StorageGets(c) \/ StorageOnly(c)
historyVars == <<storageVars, vars>>
HistorySpec == HistoryInit /\ [][HistoryNext]_historyVars

-----------------------------------------------------------------------------
\* In whatever order callers add and read, and clear the history meanwhile, what
\* GetAll of list and map returns are the items the storage accounts for in that
\* cache, in the same order: none but the one used least recently was pushed out.
CacheHoldsItems == caches[1] = GetAll
=============================================================================
