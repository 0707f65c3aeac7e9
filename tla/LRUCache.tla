------------------------------ MODULE LRUCache ------------------------------
(***************************************************************************)
(* The cache of internal/core/history/lru_cache.go: a doubly linked list   *)
(* of elements in order of use and a map from keys to those elements, both *)
(* under one mutex, so that every operation is one step.                   *)
(*                                                                         *)
(* The list of the standard library is external; it is kept as the         *)
(* sequence of its elements, front first.  MapKept, TooLong and NotMoved   *)
(* are variants with a bug a change could bring in.                        *)
(***************************************************************************)
EXTENDS RecentLists

CONSTANT Element  \* list elements that can be allocated

VARIABLES
  evictList,  \* the elements of the list, most recently used first
  cacheItem,  \* the CacheItem each element of the list points to
  items,      \* the map from keys to elements
  result      \* history: what the last Get or Remove returned

vars == <<evictList, cacheItem, items, result>>

Missing == [found |-> FALSE, value |-> NoValue]

InList(s, e) == \E i \in 1 .. Len(s) : s[i] = e
Position(s, e) == CHOOSE i \in 1 .. Len(s) : s[i] = e
Listed(s) == {s[i] : i \in 1 .. Len(s)}

\* External: container/list ignores an element that is not in the list.
Dropped(s, i) == SubSeq(s, 1, i - 1) \o SubSeq(s, i + 1, Len(s))
ListRemove(s, e) == IF InList(s, e) THEN Dropped(s, Position(s, e)) ELSE s
MoveToFront(s, e) == IF InList(s, e) THEN <<e>> \o Dropped(s, Position(s, e)) ELSE s
PushFront(s, e) == <<e>> \o s

TypeOK ==
  /\ evictList \in Seq(Element) /\ Len(evictList) <= Size
  /\ cacheItem \in [Listed(evictList) -> CacheItem]
  /\ DOMAIN items \subseteq Key
  /\ items \in [DOMAIN items -> Element]
  /\ result \in [found : BOOLEAN, value : Value \cup {NoValue}]

Init ==
  /\ evictList = <<>>
  /\ cacheItem = [e \in {} |-> e]
  /\ items = [k \in {} |-> k]
  /\ result = Missing

-----------------------------------------------------------------------------
MapKept(k) == items
MapWithout(k) == [j \in DOMAIN items \ {k} |-> items[j]]

\* The CacheItems of the elements that stay in the list s.
OnlyOf(s) == [e \in Listed(s) |-> cacheItem[e]]

NotMoved(e) == UNCHANGED evictList
Moved(e) == evictList' = MoveToFront(evictList, e)

\* The key is known: its element moves to the front and takes the new value.
AddKnown(k, v) ==
  /\ k \in DOMAIN items
  /\ Moved(items[k])
  /\ cacheItem' = [cacheItem EXCEPT ![items[k]] = [key |-> cacheItem[items[k]].key, value |-> v]]
  /\ UNCHANGED <<items, result>>

TooLong(n) == n > Size + 1
Full(n) == n > Size

\* A new element is pushed to the front, and the last one is removed from list
\* and map when the list has become longer than size.
AddNew(k, v) ==
  /\ k \notin DOMAIN items
  /\ \E e \in Element \ Listed(evictList) :
       LET oldest == evictList[Len(evictList)]
           evict == Full(Len(evictList) + 1)
           rest == IF evict THEN SubSeq(evictList, 1, Len(evictList) - 1) ELSE evictList
           kept == IF evict THEN MapWithout(cacheItem[oldest].key) ELSE items
       IN  /\ evictList' = PushFront(rest, e)
           /\ cacheItem' = [d \in Listed(rest) \cup {e} |->
                              IF d = e THEN [key |-> k, value |-> v] ELSE cacheItem[d]]
           /\ items' = [j \in DOMAIN kept \cup {k} |-> IF j = k THEN e ELSE kept[j]]
  /\ UNCHANGED result

Add(k, v) == AddKnown(k, v) \/ AddNew(k, v)

Get(k) ==
  \/ /\ k \in DOMAIN items
     /\ Moved(items[k])
     /\ result' = [found |-> TRUE, value |-> cacheItem[items[k]].value]
     /\ UNCHANGED <<cacheItem, items>>
  \/ /\ k \notin DOMAIN items
     /\ result' = Missing
     /\ UNCHANGED <<evictList, cacheItem, items>>

Remove(k) ==
  \/ /\ k \in DOMAIN items
     /\ evictList' = ListRemove(evictList, items[k])
     /\ cacheItem' = OnlyOf(evictList')
     /\ items' = MapWithout(cacheItem[items[k]].key)
     /\ result' = [found |-> TRUE, value |-> NoValue]
  \/ /\ k \notin DOMAIN items
     /\ result' = Missing
     /\ UNCHANGED <<evictList, cacheItem, items>>

Next ==
  \/ \E k \in Key, v \in Value : Add(k, v)
  \/ \E k \in Key : Get(k) \/ Remove(k)

Spec == Init /\ [][Next]_vars

-----------------------------------------------------------------------------
(* Properties.                                                             *)

\* The map and the list describe the same items: every key leads to the one
\* element that holds it, every element is reached by its key, none is listed twice.
Consistent ==
  /\ \A i, j \in 1 .. Len(evictList) : evictList[i] = evictList[j] => i = j
  /\ \A k \in DOMAIN items : /\ items[k] \in Listed(evictList)
                             /\ cacheItem[items[k]].key = k
  /\ \A e \in Listed(evictList) : /\ cacheItem[e].key \in DOMAIN items
                                  /\ items[cacheItem[e].key] = e

\* What GetAll returns: the items from the most to the least recently used.
GetAll == [i \in 1 .. Len(evictList) |-> cacheItem[evictList[i]]]

\* Seen through GetAll, Get and Remove, the list and the map are a history of the
\* most recently used items: the item pushed out is always the one used least recently.
Recent == INSTANCE RecentItems WITH recent <- GetAll
IsRecentItems == Recent!Spec
=============================================================================
