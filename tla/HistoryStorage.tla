--------------------------- MODULE HistoryStorage ---------------------------
(***************************************************************************)
(* The Storage of internal/core/history/storage.go around the cache:       *)
(* ClearHistory puts a new cache in place of the old one, under a mutex    *)
(* that AddItem, GetItem and GetAllItems do not take.  These read the      *)
(* pointer first and then wait for the mutex of the cache it pointed to,   *)
(* so that they may work on a cache that was discarded meanwhile, and hand *)
(* out what they find there.                                               *)
(*                                                                         *)
(* Every cache that was ever in use is kept, as the list of its items that *)
(* LRUCache implements.  NewStorage makes every size positive, so that the *)
(* new cache of ClearHistory never fails.  An item without ID is refused   *)
(* before any step.  KeepsItems and WritesBack are variants with a bug a    *)
(* change could bring in.                                                  *)
(***************************************************************************)
EXTENDS RecentLists, FiniteSets

CONSTANTS
  Caller,    \* goroutines that use the storage
  MaxClears  \* bound: the history is cleared at most so often

ASSUME ClearsAssumption == MaxClears \in Nat

VARIABLES
  caches,  \* the items of every cache; s.cache points to the last one
  call,    \* call[c]: the operation of c, the cache it has loaded, what it returns
  gone,    \* history: keys that a call beginning now must not hand out
  since    \* history: since[k]: the other keys used since k was added

storageVars == <<caches, call, gone, since>>

Current == Len(caches)
Idle == [op |-> "idle", key |-> NoValue, value |-> NoValue, cache |-> 0, items |-> <<>>, gone |-> {}]
Clearing == [Idle EXCEPT !.op = "clear"]

Working(op, c) == call[c].op = op
Adding == {call[c].key : c \in {d \in Caller : Working("add", d)}}

StorageTypeOK ==
  /\ caches \in Seq(Seq(CacheItem)) /\ Current >= 1
  /\ \A g \in 1 .. Current : Len(caches[g]) <= Size
  /\ call \in [Caller -> [op : {"idle", "add", "get", "all", "return", "clear"},
                          key : Key \cup {NoValue}, value : Value \cup {NoValue},
                          cache : 0 .. Current, items : Seq(CacheItem), gone : SUBSET Key]]
  /\ \A c, d \in Caller : Working("clear", c) /\ Working("clear", d) => c = d
  /\ gone \subseteq Key
  /\ DOMAIN since \subseteq Key /\ \A k \in DOMAIN since : since[k] \subseteq Key

StorageInit ==
  /\ caches = << <<>> >>
  /\ call = [c \in Caller |-> Idle]
  /\ gone = Key
  /\ since = [k \in {} |-> {}]

-----------------------------------------------------------------------------
\* s.cache is read without s.mu.
Loaded == Current

\* An item that is being added is no longer one that must not be found.
LoadsToAdd(c, k, v) ==
  /\ call[c] = Idle
  /\ gone' = gone \ {k}
  /\ call' = [d \in Caller |->
                IF d = c THEN [Idle EXCEPT !.op = "add", !.key = k, !.value = v, !.cache = Loaded]
                ELSE [call[d] EXCEPT !.gone = @ \ {k}]]
  /\ UNCHANGED <<caches, since>>

LoadsToGet(c, k) ==
  /\ call[c] = Idle
  /\ call' = [call EXCEPT ![c] = [Idle EXCEPT !.op = "get", !.key = k, !.cache = Loaded,
                                              !.gone = gone]]
  /\ UNCHANGED <<caches, gone, since>>

LoadsToGetAll(c) ==
  /\ call[c] = Idle
  /\ call' = [call EXCEPT ![c] = [Idle EXCEPT !.op = "all", !.cache = Loaded, !.gone = gone]]
  /\ UNCHANGED <<caches, gone, since>>

\* The operations on the cache that was loaded: it is changed where it is, where
\* the variant makes a changed copy the new s.cache.
WritesBack(g, s) == Append(caches, s)
InPlace(g, s) == [caches EXCEPT ![g] = s]
UsedSince(k) == [j \in DOMAIN since |-> IF j = k THEN since[j] ELSE since[j] \cup {k}]

AddItem(c) ==
  LET k == call[c].key
      g == call[c].cache
  IN  /\ Working("add", c)
      /\ caches' = InPlace(g, Added(caches[g], k, call[c].value))
      /\ since' = IF g = Current
                  THEN [j \in DOMAIN since \cup {k} |-> IF j = k THEN {} ELSE since[j] \cup {k}]
                  ELSE since
      /\ call' = [call EXCEPT ![c] = Idle]
      /\ UNCHANGED gone

GetItem(c) ==
  LET k == call[c].key
      g == call[c].cache
      found == Has(caches[g], k)
  IN  /\ Working("get", c)
      /\ caches' = InPlace(g, Touched(caches[g], k))
      /\ call' = [call EXCEPT ![c].op = "return",
                              ![c].items = IF found THEN <<Lookup(caches[g], k)>> ELSE <<>>]
      /\ since' = IF found /\ g = Current THEN UsedSince(k) ELSE since
      /\ UNCHANGED gone

GetAllItems(c) ==
  /\ Working("all", c)
  /\ call' = [call EXCEPT ![c].op = "return", ![c].items = caches[call[c].cache]]
  /\ UNCHANGED <<caches, gone, since>>

\* What was found is logged and returned.
Returns(c) ==
  /\ Working("return", c)
  /\ call' = [call EXCEPT ![c] = Idle]
  /\ UNCHANGED <<caches, gone, since>>

\* ClearHistory takes s.mu.
ClearBegin(c) ==
  /\ call[c] = Idle
  /\ Current <= MaxClears
  /\ \A d \in Caller : ~Working("clear", d)
  /\ call' = [call EXCEPT ![c] = Clearing]
  /\ UNCHANGED <<caches, gone, since>>

KeepsItems == caches[Current]
NewCache == <<>>

\* Whoever has read s.cache by now has the discarded cache.
ClearSwaps(c) ==
  /\ Working("clear", c)
  /\ caches' = Append(caches, NewCache)
  /\ call' = [call EXCEPT ![c] = Idle]
  /\ gone' = Key \ Adding
  /\ since' = [k \in {} |-> {}]

StorageNext ==
  \E c \in Caller :
    \/ \E k \in Key : LoadsToGet(c, k) \/ \E v \in Value : LoadsToAdd(c, k, v)
    \/ LoadsToGetAll(c)
    \/ AddItem(c) \/ GetItem(c) \/ GetAllItems(c) \/ Returns(c)
    \/ ClearBegin(c) \/ ClearSwaps(c)

StorageSpec == StorageInit /\ [][StorageNext]_storageVars

-----------------------------------------------------------------------------
(* Properties.                                                             *)

\* What was cleared does not come back: a call that begins after ClearHistory has
\* replaced the cache, though others are still at work on the discarded one, hands
\* out no item whose AddItem had ended by then, unless AddItem is called with it
\* again.  (A call that had begun before may still hand it out.)
ClearedIsGone ==
  \A c \in Caller : \A i \in 1 .. Len(call[c].items) : call[c].items[i].key \notin call[c].gone

\* What was added since ClearHistory last replaced the cache is found until Size
\* others have been used, whatever calls on discarded caches do.
AddedIsFound ==
  \A k \in DOMAIN since : Cardinality(since[k]) < Size => Has(caches[Current], k)
=============================================================================
