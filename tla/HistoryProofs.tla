---------------------------- MODULE HistoryProofs ---------------------------
(***************************************************************************)
(* What is proved of internal/core/history, for every size and any number  *)
(* of keys, items, elements and callers: the list and the map of LRUCache  *)
(* agree and implement RecentItems, the calls that HistoryStorage lets     *)
(* work on discarded caches neither bring back what was cleared nor push   *)
(* out what was added since, and the cache behind the storage holds what   *)
(* the storage accounts for (HistoryCache).                                *)
(***************************************************************************)
EXTENDS HistoryCache, SequenceTheorems, FiniteSetTheorems, TLAPS

Distinct(s) == \A i, j \in 1 .. Len(s) : s[i] = s[j] => i = j

-----------------------------------------------------------------------------
(* The list operations: what they do to the set of listed elements.        *)

(* Dropping a position moves the elements behind it one place forward.      *)
LEMMA DroppedSeq ==
  ASSUME NEW S, NEW s \in Seq(S), NEW i \in 1 .. Len(s)
  PROVE  /\ Dropped(s, i) \in Seq(S)
         /\ Len(Dropped(s, i)) = Len(s) - 1
         /\ \A j \in 1 .. Len(s) - 1 :
              Dropped(s, i)[j] = IF j < i THEN s[j] ELSE s[j + 1]
<1> DEFINE a == SubSeq(s, 1, i - 1)
           b == SubSeq(s, i + 1, Len(s))
<1>1. Len(s) \in Nat /\ \A j \in 1 .. Len(s) : s[j] \in S
  BY LenProperties, ElementOfSeq
<1>2. /\ a \in Seq(S) /\ Len(a) = i - 1
      /\ \A j \in 1 .. i - 1 : a[j] = s[j]
  <2>1. \A j \in 1 .. i - 1 : s[j] \in S
    BY <1>1
  <2>2. /\ a \in Seq(S)
        /\ Len(a) = IF 1 <= i - 1 THEN (i - 1) - 1 + 1 ELSE 0
        /\ \A j \in 1 .. (i - 1) - 1 + 1 : a[j] = s[1 + j - 1]
    BY <1>1, <2>1, SubSeqProperties
  <2> QED
    BY <1>1, <2>2
<1>3. /\ b \in Seq(S) /\ Len(b) = Len(s) - i
      /\ \A j \in 1 .. Len(s) - i : b[j] = s[i + j]
  <2>1. \A j \in i + 1 .. Len(s) : s[j] \in S
    BY <1>1
  <2>2. /\ b \in Seq(S)
        /\ Len(b) = IF i + 1 <= Len(s) THEN Len(s) - (i + 1) + 1 ELSE 0
        /\ \A j \in 1 .. Len(s) - (i + 1) + 1 : b[j] = s[(i + 1) + j - 1]
    BY <1>1, <2>1, SubSeqProperties
  <2> QED
    BY <1>1, <2>2
<1>4. Dropped(s, i) = a \o b
  BY DEF Dropped
<1> HIDE DEF a, b
<1>5. /\ a \o b \in Seq(S)
      /\ Len(a \o b) = Len(a) + Len(b)
      /\ \A j \in 1 .. Len(a) + Len(b) :
           (a \o b)[j] = IF j <= Len(a) THEN a[j] ELSE b[j - Len(a)]
  BY <1>2, <1>3, ConcatProperties
<1>6. ASSUME NEW j \in 1 .. Len(s) - 1
      PROVE  (a \o b)[j] = IF j < i THEN s[j] ELSE s[j + 1]
  <2>1. CASE j < i
    BY <1>1, <1>2, <1>3, <1>5, <2>1
  <2>2. CASE ~(j < i)
    <3>1. j - (i - 1) \in 1 .. Len(s) - i /\ i + (j - (i - 1)) = j + 1
      BY <1>1, <2>2
    <3>2. (a \o b)[j] = b[j - (i - 1)]
      BY <1>1, <1>2, <1>3, <1>5, <2>2
    <3>3. b[j - (i - 1)] = s[j + 1]
      BY <1>3, <3>1
    <3> QED
      BY <2>2, <3>2, <3>3
  <2> QED
    BY <2>1, <2>2
<1> QED
  BY <1>1, <1>2, <1>3, <1>4, <1>5, <1>6

(* Dropping a position removes its element, and only it, from a list        *)
(* without duplicates.                                                      *)
LEMMA DroppedListed ==
  ASSUME NEW S, NEW s \in Seq(S), NEW i \in 1 .. Len(s), Distinct(s)
  PROVE  /\ Distinct(Dropped(s, i))
         /\ Listed(Dropped(s, i)) = Listed(s) \ {s[i]}
<1> DEFINE d == Dropped(s, i)
<1>1. /\ Len(d) = Len(s) - 1 /\ Len(s) \in Nat
      /\ \A j \in 1 .. Len(s) - 1 : d[j] = IF j < i THEN s[j] ELSE s[j + 1]
  BY DroppedSeq, LenProperties
<1> HIDE DEF d
<1>2. Distinct(d)
  BY <1>1 DEF Distinct
<1>3. ASSUME NEW j \in 1 .. Len(d) PROVE d[j] \in Listed(s) \ {s[i]}
  BY <1>1 DEF Distinct, Listed
<1>4. ASSUME NEW j \in 1 .. Len(s), j # i PROVE s[j] \in Listed(d)
  <2>1. CASE j < i
    BY <1>1, <2>1 DEF Listed
  <2>2. CASE j > i
    <3>1. j - 1 \in 1 .. Len(d) /\ d[j - 1] = s[j]
      BY <1>1, <2>2
    <3> QED
      BY <3>1 DEF Listed
  <2> QED
    BY <1>1, <1>4, <2>1, <2>2
<1>5. Listed(d) = Listed(s) \ {s[i]}
  BY <1>3, <1>4 DEF Listed
<1> QED
  BY <1>2, <1>5 DEF d

(* Pushing a new element lists it in addition to the others.                *)
LEMMA PushFrontListed ==
  ASSUME NEW S, NEW s \in Seq(S), NEW e \in S, Distinct(s), e \notin Listed(s)
  PROVE  /\ PushFront(s, e) \in Seq(S)
         /\ Len(PushFront(s, e)) = Len(s) + 1
         /\ Distinct(PushFront(s, e))
         /\ Listed(PushFront(s, e)) = Listed(s) \cup {e}
<1> DEFINE p == PushFront(s, e)
<1>1. /\ p \in Seq(S) /\ Len(s) \in Nat
      /\ Len(p) = Len(s) + 1
      /\ p[1] = e
      /\ \A j \in 2 .. Len(s) + 1 : p[j] = s[j - 1]
  <2>1. <<e>> \in Seq(S) /\ Len(<<e>>) = 1 /\ <<e>>[1] = e
    OBVIOUS
  <2>2. /\ <<e>> \o s \in Seq(S)
        /\ Len(<<e>> \o s) = 1 + Len(s)
        /\ \A j \in 1 .. 1 + Len(s) :
             (<<e>> \o s)[j] = IF j <= 1 THEN <<e>>[j] ELSE s[j - 1]
    BY <2>1, ConcatProperties
  <2> QED
    BY <2>1, <2>2, LenProperties DEF PushFront
<1> HIDE DEF p
<1>2. ASSUME NEW j \in 1 .. Len(s) PROVE j + 1 \in 2 .. Len(p) /\ p[j + 1] = s[j]
  BY <1>1
<1>3. ASSUME NEW j \in 2 .. Len(p) PROVE j - 1 \in 1 .. Len(s) /\ p[j] = s[j - 1]
  BY <1>1
<1>4. Distinct(p)
  <2> SUFFICES ASSUME NEW i \in 1 .. Len(p), NEW j \in 1 .. Len(p), p[i] = p[j]
               PROVE  i = j
    BY DEF Distinct
  <2>1. CASE i = 1 /\ j \in 2 .. Len(p)
    BY <1>1, <1>3, <2>1 DEF Listed
  <2>2. CASE j = 1 /\ i \in 2 .. Len(p)
    BY <1>1, <1>3, <2>2 DEF Listed
  <2>3. CASE i \in 2 .. Len(p) /\ j \in 2 .. Len(p)
    <3>1. i - 1 \in 1 .. Len(s) /\ j - 1 \in 1 .. Len(s) /\ s[i - 1] = s[j - 1]
      BY <1>3, <2>3
    <3>2. i - 1 = j - 1
      BY <3>1 DEF Distinct
    <3> QED
      BY <3>1, <3>2
  <2> QED
    BY <1>1, <2>1, <2>2, <2>3
<1>5. Listed(p) = Listed(s) \cup {e}
  <2>1. ASSUME NEW j \in 1 .. Len(p) PROVE p[j] \in Listed(s) \cup {e}
    BY <1>1, <1>3 DEF Listed
  <2>2. ASSUME NEW j \in 1 .. Len(s) PROVE s[j] \in Listed(p)
    <3>1. j + 1 \in 1 .. Len(p) /\ p[j + 1] = s[j]
      BY <1>1, <1>2
    <3> QED
      BY <3>1 DEF Listed
  <2>3. e \in Listed(p)
    BY <1>1 DEF Listed
  <2> QED
    BY <2>1, <2>2, <2>3 DEF Listed
<1> QED
  BY <1>1, <1>4, <1>5 DEF p

(* A listed element has a position.                                         *)
LEMMA PositionOfListed ==
  ASSUME NEW S, NEW s \in Seq(S), NEW e \in Listed(s)
  PROVE  /\ InList(s, e)
         /\ Position(s, e) \in 1 .. Len(s)
         /\ s[Position(s, e)] = e
<1>1. \E i \in 1 .. Len(s) : s[i] = e
  BY DEF Listed
<1> QED
  BY <1>1 DEF InList, Position

(* Removing a listed element removes it, and only it.                       *)
LEMMA ListRemoveListed ==
  ASSUME NEW S, NEW s \in Seq(S), NEW e \in Listed(s), Distinct(s)
  PROVE  /\ ListRemove(s, e) \in Seq(S)
         /\ Len(ListRemove(s, e)) = Len(s) - 1
         /\ Distinct(ListRemove(s, e))
         /\ Listed(ListRemove(s, e)) = Listed(s) \ {e}
<1> DEFINE i == Position(s, e)
<1>1. i \in 1 .. Len(s) /\ s[i] = e /\ InList(s, e)
  BY PositionOfListed
<1> HIDE DEF i
<1>2. /\ Dropped(s, i) \in Seq(S)
      /\ Len(Dropped(s, i)) = Len(s) - 1
      /\ Distinct(Dropped(s, i))
      /\ Listed(Dropped(s, i)) = Listed(s) \ {s[i]}
  BY <1>1, DroppedSeq, DroppedListed
<1>3. ListRemove(s, e) = Dropped(s, i)
  BY <1>1 DEF ListRemove, i
<1> QED
  BY <1>1, <1>2, <1>3

(* Moving a listed element to the front lists the same elements.            *)
LEMMA MoveToFrontListed ==
  ASSUME NEW S, NEW s \in Seq(S), NEW e \in Listed(s), Distinct(s)
  PROVE  /\ MoveToFront(s, e) \in Seq(S)
         /\ Len(MoveToFront(s, e)) = Len(s)
         /\ Distinct(MoveToFront(s, e))
         /\ Listed(MoveToFront(s, e)) = Listed(s)
<1> DEFINE r == ListRemove(s, e)
<1>1. /\ r \in Seq(S) /\ Len(r) = Len(s) - 1 /\ Distinct(r)
      /\ Listed(r) = Listed(s) \ {e}
  BY ListRemoveListed
<1>2. MoveToFront(s, e) = PushFront(r, e)
  BY PositionOfListed DEF MoveToFront, PushFront, ListRemove
<1>3. e \in S
  BY PositionOfListed, ElementOfSeq
<1> HIDE DEF r
<1>4. /\ PushFront(r, e) \in Seq(S)
      /\ Len(PushFront(r, e)) = Len(r) + 1
      /\ Distinct(PushFront(r, e))
      /\ Listed(PushFront(r, e)) = Listed(r) \cup {e}
  BY <1>1, <1>3, PushFrontListed
<1> QED
  BY <1>1, <1>2, <1>4, LenProperties

(* Dropping the last element.                                               *)
LEMMA LastRemoved ==
  ASSUME NEW S, NEW s \in Seq(S), Len(s) > 0, Distinct(s)
  PROVE  LET r == SubSeq(s, 1, Len(s) - 1)
         IN  /\ r \in Seq(S)
             /\ Len(r) = Len(s) - 1
             /\ Distinct(r)
             /\ Listed(r) = Listed(s) \ {s[Len(s)]}
<1> DEFINE n == Len(s)
           r == SubSeq(s, 1, n - 1)
<1>1. n \in Nat /\ n > 0 /\ \A j \in 1 .. n : s[j] \in S
  BY LenProperties, ElementOfSeq
<1>2. r \in Seq(S) /\ Len(r) = n - 1 /\ \A j \in 1 .. n - 1 : r[j] = s[j]
  <2>1. \A j \in 1 .. n - 1 : s[j] \in S
    BY <1>1
  <2>2. /\ r \in Seq(S)
        /\ Len(r) = IF 1 <= n - 1 THEN (n - 1) - 1 + 1 ELSE 0
        /\ \A j \in 1 .. (n - 1) - 1 + 1 : r[j] = s[1 + j - 1]
    BY <1>1, <2>1, SubSeqProperties
  <2> HIDE DEF n, r
  <2> QED
    BY <1>1, <2>2
<1> HIDE DEF r
<1>3. Distinct(r)
  BY <1>1, <1>2 DEF Distinct
<1>4. Listed(r) = Listed(s) \ {s[n]}
  <2>1. ASSUME NEW j \in 1 .. n - 1 PROVE s[j] # s[n]
    BY <1>1 DEF Distinct
  <2> QED
    BY <1>1, <1>2, <2>1 DEF Listed
<1> QED
  BY <1>1, <1>2, <1>3, <1>4 DEF r

-----------------------------------------------------------------------------
(* Types and agreement are one inductive invariant: an element is found     *)
(* through the map only because the map leads into the list, and the map is *)
(* cleaned only because the evicted element names its key.                  *)
IInv == TypeOK /\ Consistent

LEMMA InitIInv == Init => IInv
<1> SUFFICES ASSUME Init PROVE IInv
  OBVIOUS
<1>1. evictList \in Seq(Element) /\ Len(evictList) = 0 /\ Listed(evictList) = {}
  BY EmptySeq DEF Init, Listed
<1>2. DOMAIN items = {} /\ items \in [DOMAIN items -> Element]
  BY DEF Init
<1>3. cacheItem \in [Listed(evictList) -> CacheItem]
  BY <1>1 DEF Init
<1>4. result \in [found : BOOLEAN, value : Value \cup {NoValue}]
  BY DEF Init, Missing
<1> QED
  BY <1>1, <1>2, <1>3, <1>4, SizeAssumption DEF IInv, TypeOK, Consistent

(* An operation that only moves a listed element and may change its value.  *)
LEMMA MoveKeepsIInv ==
  ASSUME IInv, NEW k \in DOMAIN items, NEW v \in Value,
         evictList' = MoveToFront(evictList, items[k]), items' = items,
         \/ cacheItem' = cacheItem
         \/ cacheItem' = [cacheItem EXCEPT ![items[k]] =
                             [key |-> cacheItem[items[k]].key, value |-> v]],
         result' \in [found : BOOLEAN, value : Value \cup {NoValue}]
  PROVE  IInv'
<1> DEFINE e == items[k]
<1>1. e \in Listed(evictList) /\ Distinct(evictList) /\ evictList \in Seq(Element)
  BY DEF IInv, TypeOK, Consistent, Distinct
<1>2. /\ evictList' \in Seq(Element)
      /\ Len(evictList') = Len(evictList)
      /\ Distinct(evictList')
      /\ Listed(evictList') = Listed(evictList)
  BY <1>1, MoveToFrontListed
<1>3. /\ cacheItem' \in [Listed(evictList) -> CacheItem]
      /\ \A d \in Listed(evictList) : cacheItem'[d].key = cacheItem[d].key
  <2>1. cacheItem \in [Listed(evictList) -> CacheItem]
    BY DEF IInv, TypeOK
  <2>2. CASE cacheItem' = cacheItem
    BY <2>1, <2>2
  <2>3. CASE cacheItem' = [cacheItem EXCEPT ![e] = [key |-> cacheItem[e].key, value |-> v]]
    <3>1. cacheItem[e].key \in Key
      BY <1>1, <2>1 DEF CacheItem
    <3>2. [key |-> cacheItem[e].key, value |-> v] \in CacheItem
      BY <3>1 DEF CacheItem
    <3>3. \A d \in Listed(evictList) :
            cacheItem'[d] = IF d = e THEN [key |-> cacheItem[e].key, value |-> v] ELSE cacheItem[d]
      BY <2>1, <2>3
    <3> QED
      BY <2>1, <2>3, <3>2, <3>3
  <2> QED
    BY <2>2, <2>3
<1>4. TypeOK'
  BY <1>2, <1>3 DEF IInv, TypeOK
<1>5. Consistent'
  BY <1>2, <1>3 DEF IInv, Consistent, Distinct
<1> QED
  BY <1>4, <1>5 DEF IInv

(* Adding a new key, with or without evicting the least recently used one.  *)
LEMMA AddNewKeepsIInv ==
  ASSUME IInv, NEW k \in Key, NEW v \in Value, AddNew(k, v)
  PROVE  IInv'
<1>1. /\ Distinct(evictList) /\ evictList \in Seq(Element)
      /\ Len(evictList) \in Nat /\ Len(evictList) <= Size
      /\ cacheItem \in [Listed(evictList) -> CacheItem]
      /\ DOMAIN items \subseteq Key /\ items \in [DOMAIN items -> Element]
      /\ k \notin DOMAIN items /\ result' = result
  BY LenProperties DEF IInv, TypeOK, Consistent, Distinct, AddNew
<1> DEFINE oldest == evictList[Len(evictList)]
           evict == Full(Len(evictList) + 1)
           rest == IF evict THEN SubSeq(evictList, 1, Len(evictList) - 1) ELSE evictList
           kept == IF evict THEN MapWithout(cacheItem[oldest].key) ELSE items
<1>2. PICK e \in Element \ Listed(evictList) :
        /\ evictList' = PushFront(rest, e)
        /\ cacheItem' = [d \in Listed(rest) \cup {e} |->
                           IF d = e THEN [key |-> k, value |-> v] ELSE cacheItem[d]]
        /\ items' = [j \in DOMAIN kept \cup {k} |-> IF j = k THEN e ELSE kept[j]]
  BY DEF AddNew
<1>3. /\ rest \in Seq(Element) /\ Distinct(rest) /\ Len(rest) < Size
      /\ Len(rest) \in Nat
      /\ Listed(rest) \subseteq Listed(evictList)
      /\ DOMAIN kept \subseteq DOMAIN items
      /\ \A j \in DOMAIN kept : kept[j] = items[j] /\ kept[j] \in Listed(rest)
      /\ \A d \in Listed(rest) : cacheItem[d].key \in DOMAIN kept
  <2>1. CASE evict
    <3>1. Len(evictList) > 0 /\ Len(evictList) = Size
      BY <1>1, <2>1, SizeAssumption DEF Full
    <3>2. /\ rest \in Seq(Element) /\ Distinct(rest)
          /\ Len(rest) = Len(evictList) - 1
          /\ Listed(rest) = Listed(evictList) \ {oldest}
      BY <1>1, <2>1, <3>1, LastRemoved
    <3>3. oldest \in Listed(evictList)
      BY <1>1, <3>1 DEF Listed
    <3>4. items[cacheItem[oldest].key] = oldest
      BY <3>3 DEF IInv, Consistent
    <3>5. /\ DOMAIN kept = DOMAIN items \ {cacheItem[oldest].key}
          /\ \A j \in DOMAIN kept : kept[j] = items[j]
      BY <2>1 DEF MapWithout
    <3>6. ASSUME NEW j \in DOMAIN kept PROVE kept[j] \in Listed(rest)
      <4>1. items[j] \in Listed(evictList) /\ cacheItem[items[j]].key = j
        BY <3>5 DEF IInv, Consistent
      <4>2. items[j] # oldest
        BY <3>5, <4>1
      <4> QED
        BY <3>2, <3>5, <4>1, <4>2
    <3>7. ASSUME NEW d \in Listed(rest) PROVE cacheItem[d].key \in DOMAIN kept
      <4>1. /\ d \in Listed(evictList) /\ d # oldest
            /\ cacheItem[d].key \in DOMAIN items
            /\ items[cacheItem[d].key] = d
        BY <3>2 DEF IInv, Consistent
      <4> QED
        BY <3>4, <3>5, <4>1
    <3> HIDE DEF rest, kept
    <3> QED
      BY <1>1, <3>1, <3>2, <3>5, <3>6, <3>7
  <2>2. CASE ~evict
    <3>1. rest = evictList /\ kept = items /\ Len(evictList) < Size
      BY <1>1, <2>2, SizeAssumption DEF Full
    <3> HIDE DEF rest, kept
    <3> QED
      BY <1>1, <3>1 DEF IInv, Consistent
  <2> QED
    BY <2>1, <2>2
<1> HIDE DEF rest, kept
<1>4. e \notin Listed(rest)
  BY <1>2, <1>3
<1>5. /\ evictList' \in Seq(Element)
      /\ Len(evictList') = Len(rest) + 1
      /\ Distinct(evictList')
      /\ Listed(evictList') = Listed(rest) \cup {e}
  BY <1>2, <1>3, <1>4, PushFrontListed
<1>6. /\ cacheItem'[e] = [key |-> k, value |-> v]
      /\ \A d \in Listed(rest) : cacheItem'[d] = cacheItem[d]
  BY <1>2, <1>4
<1>7. /\ DOMAIN items' = DOMAIN kept \cup {k}
      /\ items'[k] = e
      /\ \A j \in DOMAIN kept : items'[j] = kept[j]
  BY <1>1, <1>2, <1>3
<1>8. TypeOK'
  <2>1. [key |-> k, value |-> v] \in CacheItem
    BY DEF CacheItem
  <2>2. \A d \in Listed(rest) : cacheItem[d] \in CacheItem
    BY <1>1, <1>3
  <2>3. cacheItem' \in [Listed(evictList') -> CacheItem]
    BY <1>2, <1>5, <2>1, <2>2
  <2>4. DOMAIN items' \subseteq Key /\ items' \in [DOMAIN items' -> Element]
    BY <1>1, <1>2, <1>3, <1>7
  <2> QED
    BY <1>1, <1>3, <1>5, <2>3, <2>4, SizeAssumption DEF IInv, TypeOK
<1>9. Consistent'
  <2>1. \A j \in DOMAIN items' : items'[j] \in Listed(evictList') /\ cacheItem'[items'[j]].key = j
    <3> SUFFICES ASSUME NEW j \in DOMAIN items'
                 PROVE  items'[j] \in Listed(evictList') /\ cacheItem'[items'[j]].key = j
      OBVIOUS
    <3>1. CASE j = k
      BY <1>5, <1>6, <1>7, <3>1
    <3>2. CASE j \in DOMAIN kept
      <4>1. cacheItem[items[j]].key = j
        BY <1>3, <3>2 DEF IInv, Consistent
      <4>2. items'[j] = items[j] /\ items'[j] \in Listed(rest)
        BY <1>3, <1>7, <3>2
      <4> QED
        BY <1>5, <1>6, <4>1, <4>2
    <3> QED
      BY <1>7, <3>1, <3>2
  <2>2. \A d \in Listed(evictList') : cacheItem'[d].key \in DOMAIN items' /\ items'[cacheItem'[d].key] = d
    <3> SUFFICES ASSUME NEW d \in Listed(evictList')
                 PROVE  cacheItem'[d].key \in DOMAIN items' /\ items'[cacheItem'[d].key] = d
      OBVIOUS
    <3>1. CASE d = e
      BY <1>6, <1>7, <3>1
    <3>2. CASE d \in Listed(rest)
      <4>1. items[cacheItem[d].key] = d /\ cacheItem[d].key \in DOMAIN kept
        BY <1>3, <3>2 DEF IInv, Consistent
      <4> QED
        BY <1>3, <1>6, <1>7, <3>2, <4>1
    <3> QED
      BY <1>5, <3>1, <3>2
  <2> QED
    BY <1>5, <2>1, <2>2 DEF Consistent, Distinct
<1> QED
  BY <1>8, <1>9 DEF IInv

(* Removing a known key.                                                    *)
LEMMA RemoveKeepsIInv ==
  ASSUME IInv, NEW k \in Key, Remove(k)
  PROVE  IInv'
<1>1. CASE k \notin DOMAIN items
  <2>1. UNCHANGED <<evictList, cacheItem, items>> /\ result' = Missing
    BY <1>1 DEF Remove
  <2>2. result' \in [found : BOOLEAN, value : Value \cup {NoValue}]
    BY <2>1 DEF Missing
  <2> QED
    BY <2>1, <2>2 DEF IInv, TypeOK, Consistent
<1>2. CASE k \in DOMAIN items
  <2> DEFINE e == items[k]
  <2>1. /\ evictList' = ListRemove(evictList, e)
        /\ cacheItem' = OnlyOf(evictList')
        /\ items' = MapWithout(cacheItem[e].key)
        /\ result' = [found |-> TRUE, value |-> NoValue]
    BY <1>2 DEF Remove
  <2>2. /\ e \in Listed(evictList) /\ cacheItem[e].key = k
        /\ Distinct(evictList) /\ evictList \in Seq(Element)
        /\ Len(evictList) \in Nat /\ Len(evictList) <= Size
    BY <1>2, LenProperties DEF IInv, TypeOK, Consistent, Distinct
  <2> HIDE DEF e
  <2>3. /\ evictList' \in Seq(Element)
        /\ Len(evictList') = Len(evictList) - 1
        /\ Distinct(evictList')
        /\ Listed(evictList') = Listed(evictList) \ {e}
    BY <2>1, <2>2, ListRemoveListed
  <2>4. /\ cacheItem' = [d \in Listed(evictList') |-> cacheItem[d]]
        /\ \A d \in Listed(evictList') : cacheItem'[d] = cacheItem[d]
    BY <2>1 DEF OnlyOf
  <2>5. /\ DOMAIN items' = DOMAIN items \ {k}
        /\ \A j \in DOMAIN items' : items'[j] = items[j]
        /\ items' = [j \in DOMAIN items \ {k} |-> items[j]]
    BY <2>1, <2>2 DEF MapWithout
  <2>6. TypeOK'
    <3>1. cacheItem' \in [Listed(evictList') -> CacheItem]
      BY <2>3, <2>4 DEF IInv, TypeOK
    <3>2. DOMAIN items' \subseteq Key /\ items' \in [DOMAIN items' -> Element]
      BY <2>5 DEF IInv, TypeOK
    <3>3. result' \in [found : BOOLEAN, value : Value \cup {NoValue}]
      BY <2>1
    <3> QED
      BY <2>2, <2>3, <3>1, <3>2, <3>3, SizeAssumption DEF TypeOK
  <2>7. \A j \in DOMAIN items' : items'[j] \in Listed(evictList') /\ cacheItem'[items'[j]].key = j
    <3> SUFFICES ASSUME NEW j \in DOMAIN items'
                 PROVE  items'[j] \in Listed(evictList') /\ cacheItem'[items'[j]].key = j
      OBVIOUS
    <3>1. items[j] \in Listed(evictList) /\ cacheItem[items[j]].key = j /\ j # k
      BY <2>5 DEF IInv, Consistent
    <3>2. items[j] # e
      BY <2>2, <3>1
    <3> QED
      BY <2>3, <2>4, <2>5, <3>1, <3>2
  <2>8. \A d \in Listed(evictList') : cacheItem'[d].key \in DOMAIN items' /\ items'[cacheItem'[d].key] = d
    <3> SUFFICES ASSUME NEW d \in Listed(evictList')
                 PROVE  cacheItem'[d].key \in DOMAIN items' /\ items'[cacheItem'[d].key] = d
      OBVIOUS
    <3>1. /\ d # e /\ cacheItem'[d] = cacheItem[d]
          /\ cacheItem[d].key \in DOMAIN items /\ items[cacheItem[d].key] = d
      BY <2>3, <2>4 DEF IInv, Consistent
    <3>2. items[k] = e
      BY DEF e
    <3> QED
      BY <2>5, <3>1, <3>2
  <2> QED
    BY <2>3, <2>6, <2>7, <2>8 DEF IInv, Consistent, Distinct
<1> QED
  BY <1>1, <1>2

LEMMA NextIInv == IInv /\ [Next]_vars => IInv'
<1> SUFFICES ASSUME IInv, [Next]_vars PROVE IInv'
  OBVIOUS
<1>1. ASSUME NEW k \in Key, NEW v \in Value, AddKnown(k, v) PROVE IInv'
  <2>1. result' \in [found : BOOLEAN, value : Value \cup {NoValue}]
    BY <1>1 DEF AddKnown, IInv, TypeOK
  <2> QED
    BY <1>1, <2>1, MoveKeepsIInv DEF AddKnown, Moved
<1>2. ASSUME NEW k \in Key, NEW v \in Value, AddNew(k, v) PROVE IInv'
  BY <1>2, AddNewKeepsIInv
<1>3. ASSUME NEW k \in Key, Get(k), k \in DOMAIN items PROVE IInv'
  <2>1. items[k] \in Listed(evictList)
    BY <1>3 DEF IInv, Consistent
  <2>2. cacheItem[items[k]].value \in Value
    BY <2>1 DEF IInv, TypeOK, CacheItem
  <2>3. /\ evictList' = MoveToFront(evictList, items[k])
        /\ cacheItem' = cacheItem /\ items' = items
        /\ result' = [found |-> TRUE, value |-> cacheItem[items[k]].value]
    BY <1>3 DEF Get, Moved
  <2>4. result' \in [found : BOOLEAN, value : Value \cup {NoValue}]
    BY <2>2, <2>3
  <2> QED
    BY <1>3, <2>2, <2>3, <2>4, MoveKeepsIInv
<1>4. ASSUME NEW k \in Key, Get(k), k \notin DOMAIN items PROVE IInv'
  <2>1. UNCHANGED <<evictList, cacheItem, items>> /\ result' = Missing
    BY <1>4 DEF Get
  <2>2. result' \in [found : BOOLEAN, value : Value \cup {NoValue}]
    BY <2>1 DEF Missing
  <2> QED
    BY <2>1, <2>2 DEF IInv, TypeOK, Consistent
<1>5. ASSUME NEW k \in Key, Remove(k) PROVE IInv'
  BY <1>5, RemoveKeepsIInv
<1>6. CASE UNCHANGED vars
  BY <1>6 DEF vars, IInv, TypeOK, Consistent
<1> QED
  BY <1>1, <1>2, <1>3, <1>4, <1>5, <1>6 DEF Next, Add

LEMMA IInvHolds == Spec => []IInv
  BY InitIInv, NextIInv, PTL DEF Spec

(* Types: in particular the list never holds more than size elements.       *)
THEOREM TypeCorrect == Spec => []TypeOK
  BY IInvHolds, PTL DEF IInv

(* The map leads to exactly the listed elements and each element is listed  *)
(* once: no key is lost, none outlives its element.                         *)
THEOREM MapMatchesList == Spec => []Consistent
  BY IInvHolds, PTL DEF IInv

-----------------------------------------------------------------------------
(* What GetAll returns, as a function of the list and of its elements.     *)
Contents(s, f) == [i \in 1 .. Len(s) |-> f[s[i]]]

LEMMA ContentsSeq ==
  ASSUME NEW s \in Seq(Element), NEW f, \A i \in 1 .. Len(s) : f[s[i]] \in CacheItem
  PROVE  /\ Contents(s, f) \in Seq(CacheItem)
         /\ Len(Contents(s, f)) = Len(s)
         /\ \A i \in 1 .. Len(s) : Contents(s, f)[i] = f[s[i]]
<1> DEFINE g == Contents(s, f)
<1>1. Len(s) \in Nat
  BY LenProperties
<1>2. g \in [1 .. Len(s) -> CacheItem]
  BY DEF Contents
<1>3. g \in Seq(CacheItem)
  BY <1>1, <1>2, SeqDef
<1>4. DOMAIN g = 1 .. Len(s) /\ DOMAIN g = 1 .. Len(g) /\ Len(g) \in Nat
  BY <1>2, <1>3, LenProperties
<1>5. Len(g) = Len(s)
  BY <1>1, <1>4
<1>6. \A i \in 1 .. Len(s) : g[i] = f[s[i]]
  BY DEF Contents
<1> QED
  BY <1>3, <1>5, <1>6

(* A new element in front is a new item in front.                          *)
LEMMA ContentsPushed ==
  ASSUME NEW s \in Seq(Element), NEW e \in Element, NEW f,
         f[e] \in CacheItem, \A j \in 1 .. Len(s) : f[s[j]] \in CacheItem
  PROVE  Contents(<<e>> \o s, f) = <<f[e]>> \o Contents(s, f)
<1> DEFINE p == <<e>> \o s
           q == <<f[e]>> \o Contents(s, f)
<1>1. /\ p \in Seq(Element) /\ Len(p) = 1 + Len(s) /\ Len(s) \in Nat
      /\ \A i \in 1 .. 1 + Len(s) : p[i] = IF i <= 1 THEN e ELSE s[i - 1]
  <2>1. <<e>> \in Seq(Element) /\ Len(<<e>>) = 1 /\ <<e>>[1] = e
    OBVIOUS
  <2>2. \A i \in 1 .. 1 + Len(s) : p[i] = IF i <= 1 THEN <<e>>[i] ELSE s[i - 1]
    BY <2>1, ConcatProperties
  <2> QED
    BY <2>1, <2>2, ConcatProperties, LenProperties
<1>2. /\ Contents(s, f) \in Seq(CacheItem) /\ Len(Contents(s, f)) = Len(s)
      /\ \A i \in 1 .. Len(s) : Contents(s, f)[i] = f[s[i]]
  BY ContentsSeq
<1>3. /\ q \in Seq(CacheItem) /\ Len(q) = 1 + Len(s)
      /\ \A i \in 1 .. 1 + Len(s) : q[i] = IF i <= 1 THEN f[e] ELSE f[s[i - 1]]
  <2> HIDE DEF Contents
  <2>1. <<f[e]>> \in Seq(CacheItem) /\ Len(<<f[e]>>) = 1 /\ <<f[e]>>[1] = f[e]
    OBVIOUS
  <2>2. \A i \in 1 .. 1 + Len(s) : q[i] = IF i <= 1 THEN <<f[e]>>[i] ELSE Contents(s, f)[i - 1]
    BY <1>2, <2>1, ConcatProperties
  <2>3. ASSUME NEW i \in 1 .. 1 + Len(s), i > 1
        PROVE  i - 1 \in 1 .. Len(s)
    BY <1>1, <2>3
  <2> QED
    BY <1>2, <2>1, <2>2, <2>3, ConcatProperties
<1> HIDE DEF p, q
<1>4. ASSUME NEW i \in 1 .. Len(p) PROVE f[p[i]] = q[i] /\ f[p[i]] \in CacheItem
  <2>1. CASE i <= 1
    BY <1>1, <1>3, <2>1
  <2>2. CASE i > 1
    <3>1. i - 1 \in 1 .. Len(s) /\ p[i] = s[i - 1] /\ q[i] = f[s[i - 1]]
      BY <1>1, <1>3, <2>2
    <3> QED
      BY <3>1
  <2> QED
    BY <1>1, <2>1, <2>2
<1>5. /\ Contents(p, f) \in Seq(CacheItem) /\ Len(Contents(p, f)) = Len(p)
      /\ \A i \in 1 .. Len(p) : Contents(p, f)[i] = f[p[i]]
  <2>1. \A i \in 1 .. Len(p) : f[p[i]] \in CacheItem
    BY <1>4
  <2>2. p \in Seq(Element)
    BY <1>1
  <2> QED
    BY <2>1, <2>2, ContentsSeq
<1>6. Contents(p, f) = q
  BY <1>1, <1>3, <1>4, <1>5, SeqEqual
<1> QED
  BY <1>6 DEF p, q

(* A position dropped from the list is dropped from the items.             *)
LEMMA ContentsDropped ==
  ASSUME NEW s \in Seq(Element), NEW i \in 1 .. Len(s), NEW f, NEW g,
         \A j \in 1 .. Len(s) : g[s[j]] \in CacheItem,
         \A j \in 1 .. Len(s) : j # i => f[s[j]] = g[s[j]]
  PROVE  Contents(Dropped(s, i), f) = Dropped(Contents(s, g), i)
<1> DEFINE d == Dropped(s, i)
           c == Contents(s, g)
           r == Dropped(c, i)
<1>1. /\ d \in Seq(Element) /\ Len(d) = Len(s) - 1 /\ Len(s) \in Nat
      /\ \A j \in 1 .. Len(s) - 1 : d[j] = IF j < i THEN s[j] ELSE s[j + 1]
  BY DroppedSeq, LenProperties
<1>2. /\ c \in Seq(CacheItem) /\ Len(c) = Len(s)
      /\ \A j \in 1 .. Len(s) : c[j] = g[s[j]]
  BY ContentsSeq
<1> HIDE DEF d, c
<1>3. /\ r \in Seq(CacheItem) /\ Len(r) = Len(s) - 1
      /\ \A j \in 1 .. Len(s) - 1 : r[j] = IF j < i THEN c[j] ELSE c[j + 1]
  BY <1>2, DroppedSeq
<1> HIDE DEF r
<1>4. ASSUME NEW j \in 1 .. Len(d) PROVE f[d[j]] = r[j] /\ f[d[j]] \in CacheItem
  <2>1. CASE j < i
    BY <1>1, <1>2, <1>3, <2>1
  <2>2. CASE ~(j < i)
    <3>1. j + 1 \in 1 .. Len(s) /\ j + 1 # i /\ d[j] = s[j + 1] /\ r[j] = c[j + 1]
      BY <1>1, <1>3, <2>2
    <3> QED
      BY <1>2, <3>1
  <2> QED
    BY <2>1, <2>2
<1>5. /\ Contents(d, f) \in Seq(CacheItem) /\ Len(Contents(d, f)) = Len(d)
      /\ \A j \in 1 .. Len(d) : Contents(d, f)[j] = f[d[j]]
  <2>1. \A j \in 1 .. Len(d) : f[d[j]] \in CacheItem
    BY <1>4
  <2>2. d \in Seq(Element)
    BY <1>1
  <2> QED
    BY <2>1, <2>2, ContentsSeq
<1>6. Contents(d, f) = r
  BY <1>1, <1>3, <1>4, <1>5, SeqEqual
<1> QED
  BY <1>6 DEF d, c, r

-----------------------------------------------------------------------------
(* The list and the map implement RecentItems: every operation of the cache *)
(* does to what GetAll returns what the abstract one does to recent.       *)

LEMMA GetAllContents ==
  ASSUME IInv
  PROVE  /\ GetAll = Contents(evictList, cacheItem)
         /\ GetAll \in Seq(CacheItem)
         /\ Len(GetAll) = Len(evictList)
         /\ \A i \in 1 .. Len(evictList) :
              GetAll[i] = cacheItem[evictList[i]] /\ GetAll[i] \in CacheItem
<1>1. evictList \in Seq(Element) /\ \A i \in 1 .. Len(evictList) : cacheItem[evictList[i]] \in CacheItem
  BY DEF IInv, TypeOK, Listed
<1>2. /\ Contents(evictList, cacheItem) \in Seq(CacheItem)
      /\ Len(Contents(evictList, cacheItem)) = Len(evictList)
      /\ \A i \in 1 .. Len(evictList) : Contents(evictList, cacheItem)[i] = cacheItem[evictList[i]]
  BY <1>1, ContentsSeq
<1>3. GetAll = Contents(evictList, cacheItem)
  BY DEF GetAll, Contents
<1> QED
  BY <1>1, <1>2, <1>3

(* A key of the map is found in the history, at the place of its element.  *)
LEMMA KnownKey ==
  ASSUME IInv, NEW k \in DOMAIN items
  PROVE  LET p == Position(evictList, items[k])
         IN  /\ p \in 1 .. Len(evictList) /\ evictList[p] = items[k]
             /\ Recent!Has(GetAll, k)
             /\ Recent!Lookup(GetAll, k) = cacheItem[items[k]]
             /\ Recent!Without(GetAll, k) = Dropped(GetAll, p)
<1> DEFINE p == Position(evictList, items[k])
<1>1. items[k] \in Listed(evictList) /\ cacheItem[items[k]].key = k /\ evictList \in Seq(Element)
  BY DEF IInv, TypeOK, Consistent
<1>2. p \in 1 .. Len(evictList) /\ evictList[p] = items[k]
  BY <1>1, PositionOfListed
<1>3. /\ Len(GetAll) = Len(evictList)
      /\ \A i \in 1 .. Len(evictList) : GetAll[i] = cacheItem[evictList[i]]
  BY GetAllContents
<1> HIDE DEF p
<1>4. ASSUME NEW i \in 1 .. Len(evictList), GetAll[i].key = k PROVE i = p
  <2>1. evictList[i] \in Listed(evictList) /\ cacheItem[evictList[i]].key = k
    BY <1>3, <1>4 DEF Listed
  <2>2. items[k] = evictList[i]
    BY <2>1 DEF IInv, Consistent
  <2> QED
    BY <1>2, <2>2 DEF IInv, Consistent
<1>5. GetAll[p].key = k
  BY <1>1, <1>2, <1>3
<1>6. Recent!Has(GetAll, k)
  BY <1>2, <1>3, <1>5 DEF Recent!Has
<1>7. Recent!At(GetAll, k) = p
  <2>1. \E i \in 1 .. Len(GetAll) : GetAll[i].key = k
    BY <1>2, <1>3, <1>5
  <2>2. Recent!At(GetAll, k) \in 1 .. Len(GetAll) /\ GetAll[Recent!At(GetAll, k)].key = k
    BY <2>1 DEF Recent!At
  <2> QED
    BY <1>3, <1>4, <2>2
<1>8. Recent!Lookup(GetAll, k) = cacheItem[items[k]]
  BY <1>2, <1>3, <1>7 DEF Recent!Lookup
<1>9. Recent!Without(GetAll, k) = Dropped(GetAll, p)
  BY <1>6, <1>7 DEF Recent!Without, Dropped
<1> QED
  BY <1>2, <1>6, <1>8, <1>9 DEF p

LEMMA UnknownKey ==
  ASSUME IInv, NEW k \in Key, k \notin DOMAIN items
  PROVE  ~Recent!Has(GetAll, k) /\ Recent!Without(GetAll, k) = GetAll
<1>1. /\ Len(GetAll) = Len(evictList)
      /\ \A i \in 1 .. Len(evictList) : GetAll[i] = cacheItem[evictList[i]]
  BY GetAllContents
<1>2. \A i \in 1 .. Len(evictList) : cacheItem[evictList[i]].key \in DOMAIN items
  BY DEF IInv, Consistent, Listed
<1>3. ~Recent!Has(GetAll, k)
  BY <1>1, <1>2 DEF Recent!Has
<1> QED
  BY <1>3 DEF Recent!Without

(* Moving an element to the front makes its item the one used last.        *)
LEMMA MovedIsUsed ==
  ASSUME IInv, NEW k \in DOMAIN items,
         evictList' = MoveToFront(evictList, items[k]),
         cacheItem'[items[k]] \in CacheItem, cacheItem'[items[k]].key = k,
         \A e \in Listed(evictList) : e # items[k] => cacheItem'[e] = cacheItem[e]
  PROVE  /\ GetAll' = Recent!Used(GetAll, cacheItem'[items[k]])
         /\ Len(GetAll') <= Size
<1> DEFINE e == items[k]
           p == Position(evictList, e)
           d == Dropped(evictList, p)
<1>1. /\ p \in 1 .. Len(evictList) /\ evictList[p] = e
      /\ Recent!Without(GetAll, k) = Dropped(GetAll, p)
  BY KnownKey
<1>2. /\ evictList \in Seq(Element) /\ e \in Element /\ Len(evictList) <= Size
      /\ Len(evictList) \in Nat
      /\ e \in Listed(evictList) /\ Distinct(evictList)
  BY LenProperties DEF IInv, TypeOK, Consistent, Distinct
<1>3. evictList' = <<e>> \o d /\ d \in Seq(Element) /\ Len(d) = Len(evictList) - 1
  <2>1. InList(evictList, e)
    BY <1>1 DEF InList
  <2> QED
    BY <1>1, <1>2, <2>1, DroppedSeq DEF MoveToFront
<1>4. /\ \A j \in 1 .. Len(evictList) : cacheItem[evictList[j]] \in CacheItem
      /\ \A j \in 1 .. Len(evictList) : j # p => cacheItem'[evictList[j]] = cacheItem[evictList[j]]
  <2>1. ASSUME NEW j \in 1 .. Len(evictList), j # p PROVE evictList[j] # e
    BY <1>1, <1>2, <2>1 DEF Distinct
  <2>2. \A j \in 1 .. Len(evictList) : evictList[j] \in Listed(evictList)
    BY DEF Listed
  <2> QED
    BY <2>1, <2>2 DEF IInv, TypeOK
<1>5. GetAll = Contents(evictList, cacheItem) /\ GetAll' = Contents(evictList', cacheItem')
  BY DEF GetAll, Contents
<1> HIDE DEF e, p
<1>6. Contents(d, cacheItem') = Dropped(GetAll, p)
  BY <1>1, <1>2, <1>4, <1>5, ContentsDropped
<1>7. \A j \in 1 .. Len(d) : cacheItem'[d[j]] \in CacheItem
  <2>1. \A j \in 1 .. Len(d) : d[j] \in Listed(evictList) \ {e}
    <3>1. Listed(d) = Listed(evictList) \ {e}
      BY <1>1, <1>2, DroppedListed
    <3> QED
      BY <3>1 DEF Listed
  <2> QED
    BY <2>1 DEF IInv, TypeOK, e
<1> HIDE DEF d
<1>8. Contents(<<e>> \o d, cacheItem') = <<cacheItem'[e]>> \o Contents(d, cacheItem')
  <2>1. cacheItem'[e] \in CacheItem
    BY DEF e
  <2> QED
    BY <1>2, <1>3, <1>7, <2>1, ContentsPushed
<1>9. GetAll' = Recent!Used(GetAll, cacheItem'[e])
  BY <1>1, <1>3, <1>5, <1>6, <1>8 DEF Recent!Used, e
<1>10. Len(GetAll') <= Size
  <2>1. /\ evictList' \in Seq(Element)
        /\ Len(evictList') = Len(evictList)
        /\ Listed(evictList') = Listed(evictList)
    BY <1>2, MoveToFrontListed DEF e
  <2>2. \A j \in 1 .. Len(evictList') : cacheItem'[evictList'[j]] \in CacheItem
    <3>1. \A f \in Listed(evictList) : cacheItem'[f] \in CacheItem
      BY DEF IInv, TypeOK
    <3> QED
      BY <2>1, <3>1 DEF Listed
  <2>3. Len(Contents(evictList', cacheItem')) = Len(evictList')
    BY <2>1, <2>2, ContentsSeq
  <2> QED
    BY <1>2, <1>5, <2>1, <2>3
<1> QED
  BY <1>9, <1>10 DEF e

(* A new item comes first; the one beyond Size, the last one, goes.        *)
LEMMA AddNewRefines ==
  ASSUME IInv, NEW k \in Key, NEW v \in Value, AddNew(k, v)
  PROVE  Recent!Add(k, v)
<1> DEFINE it == [key |-> k, value |-> v]
           n == Len(evictList)
           evict == Full(n + 1)
           rest == IF evict THEN SubSeq(evictList, 1, n - 1) ELSE evictList
           all == <<it>> \o GetAll
           m == IF evict THEN n ELSE n + 1
<1>1. /\ evictList \in Seq(Element) /\ n \in Nat /\ n <= Size
      /\ \A i \in 1 .. n : evictList[i] \in Element /\ evictList[i] \in Listed(evictList)
      /\ k \notin DOMAIN items /\ result' = result
  BY LenProperties, ElementOfSeq DEF IInv, TypeOK, AddNew, Listed
<1>2. PICK e \in Element \ Listed(evictList) :
        /\ evictList' = <<e>> \o rest
        /\ cacheItem' = [d \in Listed(rest) \cup {e} |-> IF d = e THEN it ELSE cacheItem[d]]
  BY DEF AddNew, PushFront
<1>3. /\ rest \in Seq(Element) /\ Len(rest) = m - 1 /\ m \in 1 .. n + 1
      /\ \A i \in 1 .. m - 1 : rest[i] = evictList[i] /\ evictList[i] \in Listed(rest)
  <2>1. CASE evict
    <3>1. n > 0
      BY <1>1, <2>1, SizeAssumption DEF Full
    <3>2. /\ SubSeq(evictList, 1, n - 1) \in Seq(Element)
          /\ Len(SubSeq(evictList, 1, n - 1)) = IF 1 <= n - 1 THEN n - 1 - 1 + 1 ELSE 0
          /\ \A i \in 1 .. n - 1 - 1 + 1 : SubSeq(evictList, 1, n - 1)[i] = evictList[1 + i - 1]
      <4>1. \A i \in 1 .. n - 1 : evictList[i] \in Element
        BY <1>1
      <4> HIDE DEF n
      <4> QED
        BY <1>1, <4>1, SubSeqProperties
    <3> HIDE DEF n
    <3>3. /\ rest \in Seq(Element) /\ Len(rest) = n - 1
          /\ \A i \in 1 .. n - 1 : rest[i] = evictList[i]
      BY <1>1, <2>1, <3>1, <3>2
    <3>4. m = n
      BY <2>1
    <3> HIDE DEF rest, m, evict
    <3>5. \A i \in 1 .. m - 1 : evictList[i] \in Listed(rest)
      BY <3>3, <3>4 DEF Listed
    <3> QED
      BY <1>1, <3>1, <3>3, <3>4, <3>5
  <2>2. CASE ~evict
    BY <1>1, <2>2 DEF Listed
  <2> QED
    BY <2>1, <2>2
<1>4. it \in CacheItem
  BY DEF CacheItem
<1>5. /\ GetAll \in Seq(CacheItem) /\ Len(GetAll) = n
      /\ \A i \in 1 .. n : GetAll[i] = cacheItem[evictList[i]] /\ GetAll[i] \in CacheItem
  BY GetAllContents
<1>6. /\ all \in Seq(CacheItem) /\ Len(all) = n + 1
      /\ \A i \in 1 .. n + 1 : all[i] = IF i = 1 THEN it ELSE GetAll[i - 1]
  <2>1. <<it>> \in Seq(CacheItem) /\ Len(<<it>>) = 1 /\ <<it>>[1] = it
    BY <1>4
  <2> HIDE DEF it, n
  <2> QED
    BY <1>1, <1>5, <2>1, ConcatProperties
<1> HIDE DEF rest
<1>7. /\ evictList' \in Seq(Element) /\ Len(evictList') = m
      /\ \A i \in 1 .. m : evictList'[i] = IF i = 1 THEN e ELSE evictList[i - 1]
  <2>1. <<e>> \in Seq(Element) /\ Len(<<e>>) = 1 /\ <<e>>[1] = e
    OBVIOUS
  <2>2. /\ evictList' \in Seq(Element) /\ Len(evictList') = 1 + (m - 1)
        /\ \A i \in 1 .. 1 + (m - 1) : evictList'[i] = IF i <= 1 THEN <<e>>[i] ELSE rest[i - 1]
    BY <1>2, <1>3, <2>1, ConcatProperties
  <2> HIDE DEF n, m
  <2>3. 1 + (m - 1) = m
    BY <1>1, <1>3
  <2>4. ASSUME NEW i \in 1 .. m
        PROVE  evictList'[i] = IF i = 1 THEN e ELSE evictList[i - 1]
    <3>1. CASE i = 1
      BY <2>1, <2>2, <2>3, <3>1
    <3>2. CASE i # 1
      <4>1. i - 1 \in 1 .. m - 1 /\ ~(i <= 1)
        BY <1>1, <1>3, <3>2
      <4> QED
        BY <1>3, <2>2, <2>3, <3>2, <4>1
    <3> QED
      BY <3>1, <3>2
  <2> QED
    BY <2>2, <2>3, <2>4
<1>8. \A i \in 1 .. m : cacheItem'[evictList'[i]] = all[i]
  <2> SUFFICES ASSUME NEW i \in 1 .. m PROVE cacheItem'[evictList'[i]] = all[i]
    OBVIOUS
  <2>1. i \in 1 .. n + 1
    BY <1>1, <1>3
  <2>2. CASE i = 1
    BY <1>2, <1>6, <1>7, <2>1, <2>2
  <2>3. CASE i # 1
    <3>1. i - 1 \in 1 .. m - 1 /\ i - 1 \in 1 .. n
      BY <1>1, <1>3, <2>3
    <3>2. evictList'[i] = evictList[i - 1] /\ evictList[i - 1] \in Listed(rest) /\ evictList[i - 1] # e
      BY <1>1, <1>2, <1>3, <1>7, <2>3, <3>1
    <3>3. cacheItem'[evictList[i - 1]] = cacheItem[evictList[i - 1]]
      BY <1>2, <3>2
    <3> HIDE DEF n, m, all
    <3> QED
      BY <1>5, <1>6, <2>1, <2>3, <3>1, <3>2, <3>3
  <2> QED
    BY <2>2, <2>3
<1>9. /\ GetAll' \in Seq(CacheItem) /\ Len(GetAll') = m
      /\ \A i \in 1 .. m : GetAll'[i] = all[i]
  <2>1. \A i \in 1 .. Len(evictList') : cacheItem'[evictList'[i]] \in CacheItem
    <3>1. \A i \in 1 .. m : all[i] \in CacheItem
      BY <1>1, <1>3, <1>4, <1>5, <1>6
    <3> QED
      BY <1>7, <1>8, <3>1
  <2>2. GetAll' = Contents(evictList', cacheItem')
    BY DEF GetAll, Contents
  <2>3. /\ Contents(evictList', cacheItem') \in Seq(CacheItem)
        /\ Len(Contents(evictList', cacheItem')) = Len(evictList')
        /\ \A i \in 1 .. Len(evictList') : Contents(evictList', cacheItem')[i] = cacheItem'[evictList'[i]]
    BY <1>7, <2>1, ContentsSeq
  <2> HIDE DEF m, all
  <2> QED
    BY <1>7, <1>8, <2>2, <2>3
<1>10. Recent!Kept(all) = GetAll'
  <2>1. CASE evict
    <3>1. n = Size /\ n > 0 /\ m = n
      BY <1>1, <2>1, SizeAssumption DEF Full
    <3>2. Recent!Kept(all) = SubSeq(all, 1, n)
      BY <1>1, <1>6, <3>1 DEF Recent!Kept
    <3>3. \A i \in 1 .. n : all[i] \in CacheItem
      BY <1>1, <1>4, <1>5, <1>6
    <3> HIDE DEF n, m, all
    <3>4. /\ SubSeq(all, 1, n) \in Seq(CacheItem)
          /\ Len(SubSeq(all, 1, n)) = IF 1 <= n THEN n - 1 + 1 ELSE 0
          /\ \A i \in 1 .. n - 1 + 1 : SubSeq(all, 1, n)[i] = all[1 + i - 1]
      BY <1>1, <3>3, SubSeqProperties
    <3>5. Len(SubSeq(all, 1, n)) = m /\ \A i \in 1 .. m : SubSeq(all, 1, n)[i] = GetAll'[i]
      BY <1>1, <1>9, <3>1, <3>4
    <3> QED
      BY <1>9, <3>2, <3>4, <3>5, SeqEqual
  <2>2. CASE ~evict
    <3>1. m = n + 1 /\ n + 1 <= Size
      BY <1>1, <2>2, SizeAssumption DEF Full
    <3>2. Recent!Kept(all) = all
      BY <1>1, <1>6, <3>1, SizeAssumption DEF Recent!Kept
    <3> HIDE DEF n, m, all
    <3> QED
      BY <1>6, <1>9, <3>1, <3>2, SeqEqual
  <2> QED
    BY <2>1, <2>2
<1>11. Recent!Used(GetAll, it) = all
  BY <1>1, UnknownKey DEF Recent!Used, it
<1> QED
  BY <1>1, <1>10, <1>11 DEF Recent!Add, Recent!Added

LEMMA AddRefines ==
  ASSUME IInv, NEW k \in Key, NEW v \in Value, Add(k, v)
  PROVE  Recent!Add(k, v)
<1>1. CASE AddKnown(k, v)
  <2> DEFINE it == [key |-> k, value |-> v]
  <2>1. k \in DOMAIN items /\ items[k] \in Listed(evictList) /\ cacheItem[items[k]].key = k
    BY <1>1 DEF AddKnown, IInv, Consistent
  <2>2. /\ evictList' = MoveToFront(evictList, items[k])
        /\ cacheItem' = [cacheItem EXCEPT ![items[k]] = it]
        /\ result' = result
    BY <1>1, <2>1 DEF AddKnown, Moved
  <2>3. cacheItem \in [Listed(evictList) -> CacheItem] /\ it \in CacheItem
    BY DEF IInv, TypeOK, CacheItem
  <2>7. it.key = k
    OBVIOUS
  <2> HIDE DEF it
  <2>4. cacheItem'[items[k]] = it /\ \A e \in Listed(evictList) : e # items[k] => cacheItem'[e] = cacheItem[e]
    BY <2>1, <2>2, <2>3
  <2>5. GetAll' = Recent!Used(GetAll, it) /\ Len(GetAll') <= Size
    BY <2>1, <2>2, <2>3, <2>4, <2>7, MovedIsUsed
  <2>6. Recent!Kept(GetAll') = GetAll'
    <3>1. evictList' \in Seq(Element) /\ Len(evictList') \in Nat
      BY <2>1, <2>2, MoveToFrontListed, LenProperties DEF IInv, TypeOK, Consistent, Distinct
    <3> QED
      BY <2>5, SizeAssumption DEF Recent!Kept
  <2> QED
    BY <2>2, <2>5, <2>6 DEF Recent!Add, Recent!Added, it
<1>2. CASE AddNew(k, v)
  BY <1>2, AddNewRefines
<1> QED
  BY <1>1, <1>2 DEF Add

LEMMA GetRefines ==
  ASSUME IInv, NEW k \in Key, Get(k)
  PROVE  Recent!Get(k)
<1>1. CASE k \in DOMAIN items
  <2>1. /\ evictList' = MoveToFront(evictList, items[k]) /\ cacheItem' = cacheItem
        /\ result' = [found |-> TRUE, value |-> cacheItem[items[k]].value]
    BY <1>1 DEF Get, Moved
  <2>2. cacheItem[items[k]] \in CacheItem /\ cacheItem[items[k]].key = k
    BY <1>1 DEF IInv, TypeOK, Consistent
  <2>3. GetAll' = Recent!Used(GetAll, cacheItem[items[k]])
    BY <1>1, <2>1, <2>2, MovedIsUsed
  <2>4. Recent!Has(GetAll, k) /\ Recent!Lookup(GetAll, k) = cacheItem[items[k]]
    BY <1>1, KnownKey
  <2> QED
    BY <2>1, <2>3, <2>4 DEF Recent!Get, Recent!Touched
<1>2. CASE k \notin DOMAIN items
  <2>1. UNCHANGED <<evictList, cacheItem>> /\ result' = Missing
    BY <1>2 DEF Get
  <2>2. GetAll' = GetAll
    BY <2>1 DEF GetAll
  <2>3. ~Recent!Has(GetAll, k)
    BY <1>2, UnknownKey
  <2> QED
    BY <2>1, <2>2, <2>3 DEF Recent!Get, Recent!Touched, Recent!Missing, Missing
<1> QED
  BY <1>1, <1>2

LEMMA RemoveRefines ==
  ASSUME IInv, NEW k \in Key, Remove(k)
  PROVE  Recent!Remove(k)
<1>1. CASE k \in DOMAIN items
  <2> DEFINE p == Position(evictList, items[k])
  <2>1. /\ evictList' = ListRemove(evictList, items[k]) /\ cacheItem' = OnlyOf(evictList')
        /\ result' = [found |-> TRUE, value |-> NoValue]
    BY <1>1 DEF Remove
  <2>2. /\ p \in 1 .. Len(evictList) /\ evictList[p] = items[k]
        /\ Recent!Has(GetAll, k) /\ Recent!Without(GetAll, k) = Dropped(GetAll, p)
    BY <1>1, KnownKey
  <2>3. evictList \in Seq(Element) /\ Distinct(evictList)
    BY DEF IInv, TypeOK, Consistent, Distinct
  <2>4. evictList' = Dropped(evictList, p)
    BY <2>1, <2>2 DEF ListRemove, InList
  <2> HIDE DEF p
  <2>5. Listed(evictList') = Listed(evictList) \ {items[k]}
    BY <2>2, <2>3, <2>4, DroppedListed
  <2>6. \A j \in 1 .. Len(evictList) : j # p => cacheItem'[evictList[j]] = cacheItem[evictList[j]]
    <3> SUFFICES ASSUME NEW j \in 1 .. Len(evictList), j # p
                 PROVE  cacheItem'[evictList[j]] = cacheItem[evictList[j]]
      OBVIOUS
    <3>1. evictList[j] # items[k] /\ evictList[j] \in Listed(evictList)
      BY <2>2, <2>3 DEF Distinct, Listed
    <3> QED
      BY <2>1, <2>5, <3>1 DEF OnlyOf
  <2>7. \A j \in 1 .. Len(evictList) : cacheItem[evictList[j]] \in CacheItem
    BY DEF IInv, TypeOK, Listed
  <2>8. Contents(Dropped(evictList, p), cacheItem') = Dropped(Contents(evictList, cacheItem), p)
    BY <2>2, <2>3, <2>6, <2>7, ContentsDropped
  <2>9. GetAll' = Dropped(GetAll, p)
    BY <2>4, <2>8 DEF GetAll, Contents
  <2> QED
    BY <2>1, <2>2, <2>9 DEF Recent!Remove
<1>2. CASE k \notin DOMAIN items
  <2>1. UNCHANGED <<evictList, cacheItem>> /\ result' = Missing
    BY <1>2 DEF Remove
  <2>2. GetAll' = GetAll
    BY <2>1 DEF GetAll
  <2>3. ~Recent!Has(GetAll, k) /\ Recent!Without(GetAll, k) = GetAll
    BY <1>2, UnknownKey
  <2>4. Recent!Has(GetAll, k) = FALSE
    BY <2>3 DEF Recent!Has
  <2> QED
    BY <2>1, <2>2, <2>3, <2>4 DEF Recent!Remove, Missing
<1> QED
  BY <1>1, <1>2

LEMMA InitRefines == Init => Recent!Init
<1> SUFFICES ASSUME Init PROVE Recent!Init
  OBVIOUS
<1>1. IInv /\ Len(evictList) = 0
  BY InitIInv, EmptySeq DEF Init
<1>2. GetAll \in Seq(CacheItem) /\ Len(GetAll) = 0
  BY <1>1, GetAllContents
<1>3. GetAll = <<>>
  BY <1>2, EmptySeq
<1> QED
  BY <1>3 DEF Init, Missing, Recent!Init, Recent!Missing

LEMMA NextRefines == IInv /\ [Next]_vars => [Recent!Next]_(Recent!vars)
<1> SUFFICES ASSUME IInv, [Next]_vars PROVE [Recent!Next]_(Recent!vars)
  OBVIOUS
<1>1. ASSUME NEW k \in Key, NEW v \in Value, Add(k, v) PROVE Recent!Next
  BY <1>1, AddRefines DEF Recent!Next
<1>2. ASSUME NEW k \in Key, Get(k) PROVE Recent!Next
  BY <1>2, GetRefines DEF Recent!Next
<1>3. ASSUME NEW k \in Key, Remove(k) PROVE Recent!Next
  BY <1>3, RemoveRefines DEF Recent!Next
<1>4. CASE UNCHANGED vars
  <2>1. GetAll' = GetAll /\ result' = result
    BY <1>4 DEF vars, GetAll
  <2> QED
    BY <2>1 DEF Recent!vars
<1> QED
  BY <1>1, <1>2, <1>3, <1>4 DEF Next

(* The cache is a bounded list of the items used most recently: the item    *)
(* pushed out by an addition is always the one whose last use is oldest.    *)
THEOREM CacheIsRecentItems == Spec => IsRecentItems
<1>1. Spec => [][Recent!Next]_(Recent!vars)
  BY IInvHolds, NextRefines, PTL DEF Spec
<1> QED
  BY <1>1, InitRefines, PTL DEF Spec, IsRecentItems, Recent!Spec

-----------------------------------------------------------------------------
(* Lists of recent items.                                                  *)

(* A list after its item of the same key, at place p if there is one, has  *)
(* given way to the item used last: it is in front, the others follow in   *)
(* their order.                                                            *)
GaveWay(s, it, u, p) ==
  /\ IF p <= Len(s) THEN s[p].key = it.key /\ Len(u) = Len(s)
     ELSE (\A i \in 1 .. Len(s) : s[i].key # it.key) /\ Len(u) = Len(s) + 1
  /\ \A i \in 2 .. Len(u) : u[i] = IF i <= p THEN s[i - 1] ELSE s[i]

LEMMA UsedList ==
  ASSUME NEW s \in Seq(CacheItem), NEW it \in CacheItem
  PROVE  /\ Used(s, it) \in Seq(CacheItem)
         /\ Used(s, it)[1] = it
         /\ \E p \in 1 .. Len(s) + 1 : GaveWay(s, it, Used(s, it), p)
<1> DEFINE w == Without(s, it.key)
           u == <<it>> \o w
<1>1. Len(s) \in Nat /\ u = Used(s, it)
  BY LenProperties DEF Used
<1>2. ASSUME w \in Seq(CacheItem)
      PROVE  /\ u \in Seq(CacheItem) /\ Len(u) = Len(w) + 1 /\ u[1] = it /\ Len(w) \in Nat
             /\ \A i \in 2 .. Len(u) : i - 1 \in 1 .. Len(w) /\ u[i] = w[i - 1]
  <2>1. <<it>> \in Seq(CacheItem) /\ Len(<<it>>) = 1 /\ <<it>>[1] = it /\ Len(w) \in Nat
    BY <1>2, LenProperties
  <2>2. /\ u \in Seq(CacheItem) /\ Len(u) = 1 + Len(w)
        /\ \A i \in 1 .. 1 + Len(w) : u[i] = IF i <= 1 THEN <<it>>[i] ELSE w[i - 1]
    BY <1>2, <2>1, ConcatProperties
  <2> HIDE DEF u, w
  <2> QED
    BY <2>1, <2>2
<1>3. CASE Has(s, it.key)
  <2> DEFINE p == At(s, it.key)
  <2>1. p \in 1 .. Len(s) /\ s[p].key = it.key /\ w = Dropped(s, p)
    BY <1>3 DEF Has, At, Without, Dropped
  <2> HIDE DEF p, w
  <2>2. /\ w \in Seq(CacheItem) /\ Len(w) = Len(s) - 1
        /\ \A j \in 1 .. Len(s) - 1 : w[j] = IF j < p THEN s[j] ELSE s[j + 1]
    BY <2>1, DroppedSeq
  <2> HIDE DEF u
  <2>3. \A i \in 2 .. Len(u) : u[i] = IF i <= p THEN s[i - 1] ELSE s[i]
    <3> SUFFICES ASSUME NEW i \in 2 .. Len(u) PROVE u[i] = IF i <= p THEN s[i - 1] ELSE s[i]
      OBVIOUS
    <3>1. i - 1 \in 1 .. Len(s) - 1 /\ u[i] = w[i - 1] /\ (i - 1) + 1 = i /\ (i - 1 < p <=> i <= p)
      BY <1>1, <1>2, <2>1, <2>2
    <3> QED
      BY <2>2, <3>1
  <2>4. p <= Len(s) /\ p \in 1 .. Len(s) + 1 /\ Len(u) = Len(s)
    BY <1>1, <1>2, <2>1, <2>2
  <2>5. GaveWay(s, it, u, p)
    BY <2>1, <2>3, <2>4 DEF GaveWay
  <2> QED
    BY <1>1, <1>2, <2>2, <2>4, <2>5
<1>4. CASE ~Has(s, it.key)
  <2> DEFINE p == Len(s) + 1
  <2>1. w = s /\ \A i \in 1 .. Len(s) : s[i].key # it.key
    BY <1>4 DEF Has, Without
  <2> HIDE DEF u, w
  <2>2. p \in 1 .. Len(s) + 1 /\ ~(p <= Len(s)) /\ Len(u) = Len(s) + 1
    BY <1>1, <1>2, <2>1
  <2>3. \A i \in 2 .. Len(u) : i <= p /\ u[i] = s[i - 1]
    BY <1>1, <1>2, <2>1
  <2> HIDE DEF p
  <2>4. GaveWay(s, it, u, p)
    BY <2>1, <2>2, <2>3 DEF GaveWay
  <2> QED
    BY <1>1, <1>2, <2>1, <2>2, <2>4
<1> QED
  BY <1>3, <1>4

(* What is cut off a list that has become too long leaves a list that fits. *)
LEMMA KeptList ==
  ASSUME NEW s \in Seq(CacheItem)
  PROVE  /\ Kept(s) \in Seq(CacheItem)
         /\ Len(Kept(s)) = IF Len(s) > Size THEN Size ELSE Len(s)
         /\ \A i \in 1 .. Len(Kept(s)) : Kept(s)[i] = s[i]
<1>1. Len(s) \in Nat /\ \A i \in 1 .. Len(s) : s[i] \in CacheItem
  BY LenProperties, ElementOfSeq
<1>2. CASE Len(s) > Size
  <2> DEFINE r == SubSeq(s, 1, Size)
  <2>1. \A i \in 1 .. Size : s[i] \in CacheItem
    BY <1>1, <1>2, SizeAssumption
  <2>2. /\ r \in Seq(CacheItem)
        /\ Len(r) = IF 1 <= Size THEN Size - 1 + 1 ELSE 0
        /\ \A j \in 1 .. Size - 1 + 1 : r[j] = s[1 + j - 1]
    BY <1>1, <1>2, <2>1, SizeAssumption, SubSeqProperties
  <2>3. Kept(s) = r
    BY <1>2 DEF Kept
  <2> HIDE DEF r
  <2> QED
    BY <1>2, <2>2, <2>3, SizeAssumption
<1>3. CASE ~(Len(s) > Size)
  BY <1>1, <1>3 DEF Kept
<1> QED
  BY <1>2, <1>3

(* The keys of a list, and what a list of the items used last keeps of     *)
(* another one: in front of each item only keys used since, each once, and *)
(* every item that less than Size others were used since.                  *)
Keys(s) == {s[i].key : i \in 1 .. Len(s)}

UsedLast(s, used) ==
  /\ \A i, j \in 1 .. Len(s) : s[i].key = s[j].key => i = j
  /\ \A i \in 1 .. Len(s), j \in 1 .. Len(s) :
       j < i /\ s[i].key \in DOMAIN used => s[j].key \in used[s[i].key]
  /\ \A k \in DOMAIN used : /\ IsFiniteSet(used[k])
                            /\ Cardinality(used[k]) < Size => Has(s, k)

(* A list whose item was used has no other keys than before and this one.  *)
LEMMA UsedKeys ==
  ASSUME NEW s \in Seq(CacheItem), NEW it \in CacheItem
  PROVE  /\ Kept(Used(s, it)) \in Seq(CacheItem)
         /\ Len(Kept(Used(s, it))) <= Size
         /\ Keys(Kept(Used(s, it))) \subseteq Keys(s) \cup {it.key}
<1> DEFINE u == Used(s, it)
           r == Kept(u)
<1>1. /\ u \in Seq(CacheItem) /\ u[1] = it /\ Len(u) \in Nat /\ Len(s) \in Nat
      /\ \A i \in 2 .. Len(u) : \E j \in 1 .. Len(s) : u[i] = s[j]
  <2>4. PICK p \in 1 .. Len(s) + 1 : GaveWay(s, it, u, p)
    BY UsedList
  <2>2. u \in Seq(CacheItem) /\ u[1] = it /\ Len(u) \in Nat /\ Len(s) \in Nat
    BY UsedList, LenProperties
  <2> HIDE DEF u
  <2>1. /\ IF p <= Len(s) THEN s[p].key = it.key /\ Len(u) = Len(s)
           ELSE (\A i \in 1 .. Len(s) : s[i].key # it.key) /\ Len(u) = Len(s) + 1
        /\ \A i \in 2 .. Len(u) : u[i] = IF i <= p THEN s[i - 1] ELSE s[i]
    BY <2>4 DEF GaveWay
  <2>3. ASSUME NEW i \in 2 .. Len(u) PROVE \E j \in 1 .. Len(s) : u[i] = s[j]
    <3>1. CASE i <= p
      <4>1. i - 1 \in 1 .. Len(s) /\ u[i] = s[i - 1]
        BY <2>1, <2>2, <3>1
      <4> QED
        BY <4>1
    <3>2. CASE ~(i <= p)
      <4>1. i \in 1 .. Len(s) /\ u[i] = s[i]
        BY <2>1, <2>2, <3>2
      <4> QED
        BY <4>1
    <3> QED
      BY <3>1, <3>2
  <2> QED
    BY <2>2, <2>3
<1> HIDE DEF u
<1>2. /\ r \in Seq(CacheItem) /\ Len(r) = (IF Len(u) > Size THEN Size ELSE Len(u))
      /\ \A i \in 1 .. Len(r) : r[i] = u[i]
  BY <1>1, KeptList
<1> HIDE DEF r
<1>3. ASSUME NEW i \in 1 .. Len(r) PROVE r[i].key \in Keys(s) \cup {it.key}
  <2>1. CASE i = 1
    BY <1>1, <1>2, <2>1
  <2>2. CASE i # 1
    <3>1. i \in 2 .. Len(u)
      BY <1>1, <1>2, <2>2, SizeAssumption
    <3> QED
      BY <1>1, <1>2, <3>1 DEF Keys
  <2> QED
    BY <2>1, <2>2
<1> QED
  BY <1>1, <1>2, <1>3, SizeAssumption DEF Keys, r, u

(* Places in a list with different keys count different members of a set.  *)
LEMMA PlacesFit ==
  ASSUME NEW s, NEW n \in Nat, NEW S, IsFiniteSet(S),
         \A i \in 1 .. n : s[i].key \in S,
         \A i, j \in 1 .. n : s[i].key = s[j].key => i = j
  PROVE  n <= Cardinality(S)
<1> DEFINE f == [i \in 1 .. n |-> s[i].key]
<1>1. f \in [1 .. n -> S]
  OBVIOUS
<1>2. IsFiniteSet(1 .. n) /\ Cardinality(1 .. n) = n
  BY FS_Interval
<1>3. ~\E i, j \in 1 .. n : i # j /\ f[i] = f[j]
  OBVIOUS
<1>4. Cardinality(S) \in Nat
  BY FS_CardinalityType
<1> HIDE DEF f
<1>5. ~(Cardinality(S) < n)
  BY <1>1, <1>2, <1>3, FS_PigeonHole
<1> QED
  BY <1>4, <1>5

(* What the use of an item does to what its list keeps: the item comes to  *)
(* the front, and the one that is pushed out had Size others in front.     *)
LEMMA UsedStaysLast ==
  ASSUME NEW s \in Seq(CacheItem), NEW it \in CacheItem, NEW used, NEW now,
         UsedLast(s, used),
         DOMAIN now \subseteq DOMAIN used \cup {it.key},
         \A k \in DOMAIN now : IF k = it.key THEN IsFiniteSet(now[k]) ELSE now[k] = used[k] \cup {it.key}
  PROVE  UsedLast(Kept(Used(s, it)), now)
<1> DEFINE u == Used(s, it)
           r == Kept(u)
<1>1. u \in Seq(CacheItem) /\ u[1] = it /\ Len(u) \in Nat /\ Len(s) \in Nat
  BY UsedList, LenProperties
<1>14. PICK p \in 1 .. Len(s) + 1 : GaveWay(s, it, u, p)
  BY UsedList
<1> HIDE DEF u
<1>2. /\ IF p <= Len(s) THEN s[p].key = it.key /\ Len(u) = Len(s)
         ELSE (\A i \in 1 .. Len(s) : s[i].key # it.key) /\ Len(u) = Len(s) + 1
      /\ \A i \in 2 .. Len(u) : u[i] = IF i <= p THEN s[i - 1] ELSE s[i]
  BY <1>14 DEF GaveWay
\* Where the items from the second on come from.
<1> DEFINE From(i) == IF i <= p THEN i - 1 ELSE i
<1>3. ASSUME NEW i \in 2 .. Len(u)
      PROVE  From(i) \in 1 .. Len(s) /\ From(i) # p /\ u[i] = s[From(i)]
  BY <1>1, <1>2, <1>3
<1>4. \A i, j \in 2 .. Len(u) : (From(i) = From(j) => i = j) /\ (j < i => From(j) < From(i))
  BY <1>1, <1>2
<1> HIDE DEF From
<1>5. ASSUME NEW i \in 2 .. Len(u) PROVE u[i].key # it.key
  <2>1. From(i) \in 1 .. Len(s) /\ From(i) # p /\ u[i] = s[From(i)]
    BY <1>3
  <2>2. CASE p <= Len(s)
    <3>1. p \in 1 .. Len(s) /\ s[p].key = it.key
      BY <1>1, <1>2, <2>2
    <3> QED
      BY <2>1, <3>1 DEF UsedLast
  <2>3. CASE ~(p <= Len(s))
    BY <1>2, <2>1, <2>3
  <2> QED
    BY <2>2, <2>3
<1>6. \A i, j \in 1 .. Len(u) : u[i].key = u[j].key => i = j
  <2> SUFFICES ASSUME NEW i \in 1 .. Len(u), NEW j \in 1 .. Len(u), u[i].key = u[j].key PROVE i = j
    OBVIOUS
  <2>1. CASE i = 1 \/ j = 1
    <3>1. i \in 2 .. Len(u) \/ i = 1
      BY <1>1
    <3>2. j \in 2 .. Len(u) \/ j = 1
      BY <1>1
    <3> QED
      BY <1>1, <1>5, <2>1, <3>1, <3>2
  <2>2. CASE i # 1 /\ j # 1
    <3>1. i \in 2 .. Len(u) /\ j \in 2 .. Len(u)
      BY <1>1, <2>2
    <3>2. From(i) = From(j)
      BY <1>3, <3>1 DEF UsedLast
    <3> QED
      BY <1>4, <3>1, <3>2
  <2> QED
    BY <2>1, <2>2
<1>7. \A i \in 1 .. Len(u), j \in 1 .. Len(u) :
        j < i /\ u[i].key \in DOMAIN now => u[j].key \in now[u[i].key]
  <2> SUFFICES ASSUME NEW i \in 1 .. Len(u), NEW j \in 1 .. Len(u), j < i, u[i].key \in DOMAIN now
               PROVE  u[j].key \in now[u[i].key]
    OBVIOUS
  <2>1. i \in 2 .. Len(u) /\ u[i].key # it.key
    BY <1>1, <1>5
  <2>2. u[i].key \in DOMAIN used /\ now[u[i].key] = used[u[i].key] \cup {it.key}
    BY <2>1
  <2>3. CASE j = 1
    BY <1>1, <2>2, <2>3
  <2>4. CASE j # 1
    <3>1. j \in 2 .. Len(u)
      BY <1>1, <2>4
    <3>2. s[From(j)].key \in used[s[From(i)].key]
      BY <1>3, <1>4, <2>1, <2>2, <3>1 DEF UsedLast
    <3> QED
      BY <1>3, <2>1, <2>2, <3>1, <3>2
  <2> QED
    BY <2>3, <2>4
\* The items that are still looked for are all there, before the list is cut.
<1>8. ASSUME NEW k \in DOMAIN now, k # it.key
      PROVE  /\ IsFiniteSet(now[k]) /\ Cardinality(now[k]) \in Nat
             /\ Cardinality(now[k]) < Size => \E i \in 2 .. Len(u) : u[i].key = k
  <2>1. k \in DOMAIN used /\ now[k] = used[k] \cup {it.key} /\ IsFiniteSet(used[k])
    BY <1>8 DEF UsedLast
  <2>2. IsFiniteSet(now[k]) /\ Cardinality(now[k]) \in Nat /\ Cardinality(used[k]) <= Cardinality(now[k])
    BY <2>1, FS_AddElement, FS_Subset, FS_CardinalityType
  <2>3. ASSUME Cardinality(now[k]) < Size PROVE \E i \in 2 .. Len(u) : u[i].key = k
    <3>1. Cardinality(used[k]) \in Nat
      BY <2>1, FS_CardinalityType
    <3>2. PICK q \in 1 .. Len(s) : s[q].key = k
      BY <2>1, <2>2, <2>3, <3>1, SizeAssumption DEF UsedLast, Has
    <3>3. q # p
      BY <1>2, <1>8, <3>2
    <3>4. CASE q < p
      <4>1. q + 1 \in 2 .. Len(u) /\ u[q + 1] = s[q]
        <5>1. q + 1 \in 2 .. Len(u) /\ q + 1 <= p /\ (q + 1) - 1 = q
          BY <1>1, <1>2, <3>4
        <5> QED
          BY <1>2, <5>1
      <4> QED
        BY <3>2, <4>1
    <3>5. CASE q > p
      <4>1. q \in 2 .. Len(u) /\ u[q] = s[q]
        BY <1>1, <1>2, <3>5
      <4> QED
        BY <3>2, <4>1
    <3> QED
      BY <1>1, <1>2, <3>3, <3>4, <3>5
  <2> QED
    BY <2>2, <2>3
<1>13. /\ Len(r) = IF Len(u) > Size THEN Size ELSE Len(u)
       /\ \A i \in 1 .. Len(r) : r[i] = u[i]
  BY <1>1, KeptList
<1> HIDE DEF r
<1>9. /\ Len(r) = (IF Len(u) > Size THEN Size ELSE Len(u)) /\ Len(r) \in 1 .. Len(u)
      /\ \A i \in 1 .. Len(r) : r[i] = u[i]
  <2>1. Len(u) >= 1
    BY <1>1, <1>2
  <2> QED
    BY <1>1, <1>13, <2>1, SizeAssumption
<1>10. ASSUME NEW k \in DOMAIN now, Cardinality(now[k]) < Size PROVE Has(r, k)
  <2>1. CASE k = it.key
    <3>1. 1 \in 1 .. Len(r) /\ r[1].key = k
      BY <1>1, <1>9, <2>1
    <3> QED
      BY <3>1 DEF Has
  <2>2. CASE k # it.key
    <3>1. PICK i \in 2 .. Len(u) : u[i].key = k
      BY <1>8, <1>10, <2>2
    <3>2. i \in 1 .. Len(r)
      <4> SUFFICES ASSUME i > Len(r) PROVE FALSE
        BY <1>1, <1>9
      <4>1. \A j \in 1 .. i - 1 : u[j].key \in now[k]
        BY <1>1, <1>7, <3>1
      <4>2. \A j, m \in 1 .. i - 1 : u[j].key = u[m].key => j = m
        BY <1>1, <1>6
      <4>3. i - 1 \in Nat /\ IsFiniteSet(now[k]) /\ Cardinality(now[k]) \in Nat
        BY <1>1, <1>8, <2>2
      <4>4. i - 1 <= Cardinality(now[k])
        BY <4>1, <4>2, <4>3, PlacesFit
      <4>5. i - 1 >= Size
        BY <1>1, <1>9, SizeAssumption
      <4> QED
        BY <1>10, <4>3, <4>4, <4>5, SizeAssumption
    <3>3. r[i].key = k
      BY <1>9, <3>1, <3>2
    <3> QED
      BY <3>2, <3>3 DEF Has
  <2> QED
    BY <2>1, <2>2
<1>11. \A k \in DOMAIN now : IsFiniteSet(now[k])
  BY <1>8
<1>12. UsedLast(r, now)
  <2>1. \A i \in 1 .. Len(r) : i \in 1 .. Len(u) /\ r[i] = u[i]
    BY <1>1, <1>9
  <2>2. \A i, j \in 1 .. Len(r) : r[i].key = r[j].key => i = j
    BY <2>1, <1>6
  <2>3. \A i \in 1 .. Len(r), j \in 1 .. Len(r) :
          j < i /\ r[i].key \in DOMAIN now => r[j].key \in now[r[i].key]
    BY <2>1, <1>7
  <2> QED
    BY <2>2, <2>3, <1>10, <1>11 DEF UsedLast
<1> QED
  BY <1>12 DEF r, u

(* A lookup uses the item it finds, and a list that fits loses nothing.    *)
LEMMA TouchedList ==
  ASSUME NEW s \in Seq(CacheItem), Len(s) <= Size, NEW k
  PROVE  IF Has(s, k)
         THEN /\ Lookup(s, k) \in CacheItem
              /\ Lookup(s, k).key = k
              /\ k \in Keys(s)
              /\ Touched(s, k) = Kept(Used(s, Lookup(s, k)))
         ELSE Touched(s, k) = s
<1>1. CASE Has(s, k)
  <2> DEFINE it == Lookup(s, k)
  <2>1. At(s, k) \in 1 .. Len(s) /\ s[At(s, k)].key = k
    BY <1>1 DEF Has, At
  <2>2. it \in CacheItem /\ it.key = k /\ k \in Keys(s)
    BY <2>1, ElementOfSeq DEF Lookup, Keys
  <2> HIDE DEF it
  <2>3. Len(Used(s, it)) = Len(s)
    <3>1. PICK p \in 1 .. Len(s) + 1 : GaveWay(s, it, Used(s, it), p)
      BY <2>2, UsedList
    <3> QED
      BY <2>1, <2>2, <3>1 DEF GaveWay
  <2>4. Kept(Used(s, it)) = Used(s, it)
    BY <2>3, LenProperties, SizeAssumption DEF Kept
  <2> QED
    BY <1>1, <2>2, <2>4 DEF Touched, it
<1>2. CASE ~Has(s, k)
  BY <1>2 DEF Touched
<1> QED
  BY <1>1, <1>2

-----------------------------------------------------------------------------
(* The storage.  That a call hands out nothing that is gone holds because   *)
(* nothing that is gone is in the cache it has loaded, also if that one has *)
(* been discarded since: what is added there late is not gone, and the new  *)
(* cache starts empty.                                                      *)
Loads ==
  \A c \in Caller :
    /\ Working("add", c) => call[c].key \in Key /\ call[c].value \in Value
    /\ Working("get", c) => call[c].key \in Key
    /\ call[c].op \in {"add", "get", "all"} => call[c].cache \in 1 .. Current

NothingGone ==
  /\ Keys(caches[Current]) \cap gone = {}
  /\ \A c \in Caller :
       /\ Keys(call[c].items) \cap call[c].gone = {}
       /\ call[c].op \in {"get", "all"} => Keys(caches[call[c].cache]) \cap call[c].gone = {}
       /\ Working("add", c) => /\ call[c].key \notin gone
                               /\ \A d \in Caller : call[c].key \notin call[d].gone

SInv == StorageTypeOK /\ Loads /\ NothingGone /\ UsedLast(caches[Current], since)

Calls == [op : {"idle", "add", "get", "all", "return", "clear"},
          key : Key \cup {NoValue}, value : Value \cup {NoValue},
          cache : 0 .. Current, items : Seq(CacheItem), gone : SUBSET Key]

LEMMA IdleCall ==
  ASSUME StorageTypeOK
  PROVE  Idle \in Calls /\ Clearing \in Calls /\ Keys(Idle.items) = {} /\ Keys(Clearing.items) = {}
<1>1. Len(caches) \in Nat /\ <<>> \in Seq(CacheItem) /\ Len(<<>>) = 0
  BY LenProperties, EmptySeq DEF StorageTypeOK
<1>2. 0 \in 0 .. Current /\ Keys(<<>>) = {}
  BY <1>1 DEF Current, Keys
<1> QED
  BY <1>1, <1>2 DEF Idle, Clearing, Calls

LEMMA InitSInv == StorageInit => SInv
<1> SUFFICES ASSUME StorageInit PROVE SInv
  OBVIOUS
<1>1. /\ <<>> \in Seq(CacheItem) /\ Len(<<>>) = 0 /\ Keys(<<>>) = {}
      /\ \A i \in 1 .. Len(<<>>) : FALSE
  BY EmptySeq DEF Keys
<1>2. /\ caches = << <<>> >> /\ caches \in Seq(Seq(CacheItem)) /\ Current = 1
      /\ caches[Current] = <<>>
  BY <1>1 DEF StorageInit, Current
<1>3. /\ Idle \in Calls /\ Idle.op = "idle" /\ Idle.items = <<>>
      /\ \A c \in Caller : call[c] = Idle
      /\ call \in [Caller -> Calls]
  BY <1>1, <1>2 DEF StorageInit, Idle, Calls
<1>4. StorageTypeOK
  BY <1>1, <1>2, <1>3, SizeAssumption DEF StorageTypeOK, StorageInit, Working, Calls
<1>5. Loads /\ NothingGone
  BY <1>1, <1>2, <1>3 DEF Loads, NothingGone, Working
<1>6. UsedLast(caches[Current], since)
  BY <1>1, <1>2 DEF UsedLast, StorageInit
<1> QED
  BY <1>4, <1>5, <1>6 DEF SInv

(* A call that goes on or ends without loading a cache, whatever it does to *)
(* the items, as long as it adds no keys that are gone.                     *)
LEMMA CallGoesOn ==
  ASSUME SInv, NEW c \in Caller, NEW e \in Calls, NEW more,
         call' = [call EXCEPT ![c] = e], e.op \in {"idle", "return"},
         e.gone = {} \/ e.gone = call[c].gone,
         Keys(e.items) \cap e.gone = {},
         caches' \in Seq(Seq(CacheItem)), Current' = Current, gone' = gone,
         \A g \in 1 .. Current : Len(caches'[g]) <= Size /\ Keys(caches'[g]) \subseteq Keys(caches[g]) \cup more,
         more \cap gone = {}, \A d \in Caller : more \cap call[d].gone = {},
         DOMAIN since' \subseteq Key, \A k \in DOMAIN since' : since'[k] \subseteq Key,
         UsedLast(caches[Current], since)'
  PROVE  SInv'
<1>1. \A d \in Caller : call'[d] = (IF d = c THEN e ELSE call[d]) /\ call[d] \in Calls /\ call'[d] \in Calls
  BY DEF SInv, StorageTypeOK, Calls
<1>2. call' \in [Caller -> Calls] /\ Current \in 1 .. Current
  <2>1. call \in [Caller -> Calls]
    BY DEF SInv, StorageTypeOK, Calls
  <2>2. call' \in [Caller -> Calls]
    BY <2>1
  <2>3. Current \in Nat /\ Current >= 1
    BY LenProperties DEF SInv, StorageTypeOK, Current
  <2> QED
    BY <2>2, <2>3
<1>3. StorageTypeOK'
  <2>1. /\ caches' \in Seq(Seq(CacheItem)) /\ Current' >= 1
        /\ \A g \in 1 .. Current' : Len(caches'[g]) <= Size
    BY <1>2 DEF SInv, StorageTypeOK
  <2>2. call' \in [Caller -> [op : {"idle", "add", "get", "all", "return", "clear"},
                             key : Key \cup {NoValue}, value : Value \cup {NoValue},
                             cache : 0 .. Current', items : Seq(CacheItem), gone : SUBSET Key]]
    BY <1>2 DEF Calls
  <2>3. ASSUME NEW a \in Caller, NEW b \in Caller, call'[a].op = "clear", call'[b].op = "clear"
        PROVE  a = b
    <3>1. call'[a] = call[a] /\ call'[b] = call[b]
      BY <1>1, <2>3
    <3> QED
      BY <2>3, <3>1 DEF SInv, StorageTypeOK, Working
  <2>4. /\ gone' \subseteq Key
        /\ DOMAIN since' \subseteq Key /\ \A k \in DOMAIN since' : since'[k] \subseteq Key
    BY DEF SInv, StorageTypeOK
  <2> QED
    BY <2>1, <2>2, <2>3, <2>4 DEF StorageTypeOK, Working
<1>4. Loads'
  <2>1. ASSUME NEW d \in Caller
        PROVE  /\ call'[d].op = "add" => call'[d].key \in Key /\ call'[d].value \in Value
               /\ call'[d].op = "get" => call'[d].key \in Key
               /\ call'[d].op \in {"add", "get", "all"} => call'[d].cache \in 1 .. Current'
    BY <1>1 DEF SInv, Loads, Working
  <2> QED
    BY <2>1 DEF Loads, Working
<1>5. NothingGone'
  <2>1. Keys(caches[Current])' \cap gone' = {}
    BY <1>2 DEF SInv, NothingGone
  <2>2. ASSUME NEW d \in Caller
        PROVE  /\ Keys(call'[d].items) \cap call'[d].gone = {}
               /\ call'[d].op \in {"get", "all"} => Keys(caches'[call'[d].cache]) \cap call'[d].gone = {}
               /\ call'[d].op = "add" => /\ call'[d].key \notin gone'
                                         /\ \A b \in Caller : call'[d].key \notin call'[b].gone
    <3>1. CASE d = c
      BY <1>1, <3>1
    <3>2. CASE d # c
      <4>1. call'[d] = call[d]
        BY <1>1, <3>2
      <4>2. call[d].op \in {"get", "all"} => Keys(caches'[call[d].cache]) \cap call[d].gone = {}
        BY DEF SInv, NothingGone, Loads
      <4>3. call[d].op = "add" => /\ call[d].key \notin gone
                                  /\ \A b \in Caller : call[d].key \notin call'[b].gone
        BY <1>1 DEF SInv, NothingGone, Working
      <4> QED
        BY <4>1, <4>2, <4>3 DEF SInv, NothingGone
    <3> QED
      BY <3>1, <3>2
  <2> QED
    BY <2>1, <2>2 DEF NothingGone, Working
<1> QED
  BY <1>3, <1>4, <1>5 DEF SInv

(* Putting a list in the place of another one.                             *)
LEMMA CacheReplaced ==
  ASSUME StorageTypeOK, NEW g \in 1 .. Current, NEW new \in Seq(CacheItem),
         caches' = [caches EXCEPT ![g] = new]
  PROVE  /\ caches' \in Seq(Seq(CacheItem)) /\ Current' = Current
         /\ \A h \in 1 .. Current : caches'[h] = IF h = g THEN new ELSE caches[h]
  BY ExceptSeq DEF StorageTypeOK, Current

LEMMA AddItemKeeps == ASSUME SInv, NEW c \in Caller, AddItem(c) PROVE SInv'
<1> DEFINE k == call[c].key
           g == call[c].cache
           s == caches[g]
           it == [key |-> k, value |-> call[c].value]
           new == Kept(Used(s, it))
<1>1. /\ k \in Key /\ it \in CacheItem /\ it.key = k /\ g \in 1 .. Current
      /\ k \notin gone /\ \A d \in Caller : k \notin call[d].gone
      /\ s \in Seq(CacheItem)
      /\ caches' = [caches EXCEPT ![g] = new] /\ gone' = gone
      /\ call' = [call EXCEPT ![c] = Idle]
  BY ElementOfSeq DEF SInv, StorageTypeOK, Loads, NothingGone, Working, AddItem, InPlace, Added, CacheItem, Current
<1>2. new \in Seq(CacheItem) /\ Len(new) <= Size /\ Keys(new) \subseteq Keys(s) \cup {k}
  BY <1>1, UsedKeys
<1>3. since' = IF g = Current
               THEN [j \in DOMAIN since \cup {k} |-> IF j = k THEN {} ELSE since[j] \cup {k}]
               ELSE since
  BY DEF AddItem
<1> HIDE DEF new, it, s
<1>4. /\ caches' \in Seq(Seq(CacheItem)) /\ Current' = Current
      /\ \A h \in 1 .. Current : caches'[h] = IF h = g THEN new ELSE caches[h]
  BY <1>1, <1>2, CacheReplaced DEF SInv
<1>5. Current \in 1 .. Current
  BY LenProperties DEF SInv, StorageTypeOK, Current
<1>6. DOMAIN since' \subseteq Key /\ \A j \in DOMAIN since' : since'[j] \subseteq Key
  BY <1>1, <1>3 DEF SInv, StorageTypeOK
<1>7. UsedLast(caches[Current], since)'
  <2>1. CASE g = Current
    <3>1. /\ DOMAIN since' \subseteq DOMAIN since \cup {it.key}
          /\ \A j \in DOMAIN since' : IF j = it.key THEN IsFiniteSet(since'[j])
                                      ELSE since'[j] = since[j] \cup {it.key}
      <4>1. it.key = k
        BY <1>1
      <4> QED
        BY <1>3, <2>1, <4>1, FS_EmptySet
    <3>2. UsedLast(s, since)
      BY <2>1 DEF SInv, s
    <3>3. UsedLast(new, since')
      BY <1>1, <3>1, <3>2, UsedStaysLast DEF new
    <3>4. caches'[Current'] = new
      BY <1>4, <1>5, <2>1
    <3> QED
      BY <3>3, <3>4
  <2>2. CASE g # Current
    <3>1. caches'[Current'] = caches[Current] /\ since' = since
      BY <1>3, <1>4, <1>5, <2>2
    <3> QED
      BY <3>1 DEF SInv
  <2> QED
    BY <2>1, <2>2
<1>8. Idle \in Calls /\ Idle.op = "idle" /\ Idle.gone = {} /\ Keys(Idle.items) = {}
  BY IdleCall DEF SInv, Idle
<1>9. \A h \in 1 .. Current : Len(caches'[h]) <= Size /\ Keys(caches'[h]) \subseteq Keys(caches[h]) \cup {k}
  BY <1>2, <1>4 DEF SInv, StorageTypeOK, s
<1>10. {k} \cap gone = {} /\ \A d \in Caller : {k} \cap call[d].gone = {}
  BY <1>1
<1> HIDE DEF k, g
<1> QED
  BY <1>1, <1>4, <1>6, <1>7, <1>8, <1>9, <1>10, CallGoesOn

LEMMA GetItemKeeps == ASSUME SInv, NEW c \in Caller, GetItem(c) PROVE SInv'
<1> DEFINE k == call[c].key
           g == call[c].cache
           s == caches[g]
           found == Has(s, k)
           new == Touched(s, k)
           its == IF found THEN <<Lookup(s, k)>> ELSE <<>>
           e == [call[c] EXCEPT !.op = "return", !.items = its]
<1>1. /\ k \in Key /\ g \in 1 .. Current
      /\ s \in Seq(CacheItem) /\ Len(s) <= Size /\ Keys(s) \cap call[c].gone = {}
      /\ caches' = [caches EXCEPT ![g] = new] /\ gone' = gone
      /\ call[c] \in Calls
  BY ElementOfSeq DEF SInv, StorageTypeOK, Loads, NothingGone, Working, GetItem, InPlace, Current, Calls
<1>2. call' = [call EXCEPT ![c] = e]
  BY DEF GetItem, SInv, StorageTypeOK
<1>3. since' = IF found /\ g = Current THEN UsedSince(k) ELSE since
  BY DEF GetItem
<1> HIDE DEF s, new, e
<1>4. /\ new \in Seq(CacheItem) /\ Len(new) <= Size /\ Keys(new) \subseteq Keys(s)
      /\ its \in Seq(CacheItem) /\ Keys(its) \subseteq Keys(s)
      /\ found => /\ Lookup(s, k) \in CacheItem /\ Lookup(s, k).key = k
                  /\ new = Kept(Used(s, Lookup(s, k)))
  <2>1. CASE found
    <3>1. /\ Lookup(s, k) \in CacheItem /\ Lookup(s, k).key = k /\ k \in Keys(s)
          /\ new = Kept(Used(s, Lookup(s, k)))
      BY <1>1, <2>1, TouchedList DEF new
    <3>2. new \in Seq(CacheItem) /\ Len(new) <= Size /\ Keys(new) \subseteq Keys(s)
      BY <1>1, <3>1, UsedKeys
    <3>3. its = <<Lookup(s, k)>> /\ Len(its) = 1 /\ its[1] = Lookup(s, k)
      BY <2>1
    <3>4. its \in Seq(CacheItem) /\ Keys(its) = {k}
      BY <3>1, <3>3 DEF Keys
    <3> QED
      BY <3>1, <3>2, <3>4
  <2>2. CASE ~found
    <3>1. new = s
      BY <1>1, <2>2, TouchedList DEF new
    <3>2. its = <<>> /\ its \in Seq(CacheItem) /\ Keys(its) = {}
      BY <2>2, EmptySeq DEF Keys
    <3> QED
      BY <1>1, <2>2, <3>1, <3>2
  <2> QED
    BY <2>1, <2>2
<1>5. /\ caches' \in Seq(Seq(CacheItem)) /\ Current' = Current
      /\ \A h \in 1 .. Current : caches'[h] = IF h = g THEN new ELSE caches[h]
  BY <1>1, <1>4, CacheReplaced DEF SInv
<1>6. Current \in 1 .. Current
  BY LenProperties DEF SInv, StorageTypeOK, Current
<1>7. DOMAIN since' \subseteq Key /\ \A j \in DOMAIN since' : since'[j] \subseteq Key
  BY <1>1, <1>3 DEF SInv, StorageTypeOK, UsedSince
<1>8. UsedLast(caches[Current], since)'
  <2>1. CASE found /\ g = Current
    <3> DEFINE it == Lookup(s, k)
    <3>1. it \in CacheItem /\ it.key = k /\ new = Kept(Used(s, it)) /\ s \in Seq(CacheItem)
      BY <1>1, <1>4, <2>1
    <3> HIDE DEF it
    <3>2. UsedLast(s, since)
      BY <2>1 DEF SInv, s
    <3>3. /\ DOMAIN since' \subseteq DOMAIN since \cup {it.key}
          /\ \A j \in DOMAIN since' : IF j = it.key THEN IsFiniteSet(since'[j])
                                      ELSE since'[j] = since[j] \cup {it.key}
      <4>1. DOMAIN since' = DOMAIN since
        BY <1>3, <2>1 DEF UsedSince
      <4>2. \A j \in DOMAIN since : since'[j] = IF j = k THEN since[j] ELSE since[j] \cup {k}
        BY <1>3, <2>1 DEF UsedSince
      <4>3. \A j \in DOMAIN since : IsFiniteSet(since[j])
        BY DEF SInv, UsedLast
      <4> QED
        BY <3>1, <4>1, <4>2, <4>3
    <3>4. UsedLast(new, since')
      BY <3>1, <3>2, <3>3, UsedStaysLast
    <3>5. caches'[Current'] = new
      BY <1>5, <1>6, <2>1
    <3> QED
      BY <3>4, <3>5
  <2>2. CASE ~found
    <3>1. new = s /\ since' = since
      BY <1>1, <1>3, <2>2, TouchedList DEF new
    <3>2. caches'[Current'] = caches[Current]
      BY <1>5, <1>6, <3>1 DEF s
    <3> QED
      BY <3>1, <3>2 DEF SInv
  <2>3. CASE g # Current
    <3>1. caches'[Current'] = caches[Current] /\ since' = since
      BY <1>3, <1>5, <1>6, <2>3
    <3> QED
      BY <3>1 DEF SInv
  <2> QED
    BY <2>1, <2>2, <2>3
<1>9. /\ e \in Calls /\ e.op = "return" /\ e.gone = call[c].gone /\ e.items = its
      /\ Keys(e.items) \cap e.gone = {}
  <2> HIDE DEF its
  <2>1. e \in Calls /\ e.op = "return" /\ e.gone = call[c].gone /\ e.items = its
    BY <1>1, <1>4 DEF e, Calls
  <2> QED
    BY <1>1, <1>4, <2>1
<1>10. \A h \in 1 .. Current : Len(caches'[h]) <= Size /\ Keys(caches'[h]) \subseteq Keys(caches[h]) \cup {}
  BY <1>4, <1>5 DEF SInv, StorageTypeOK, s
<1> HIDE DEF k, g, its, found
<1> QED
  BY <1>1, <1>2, <1>5, <1>7, <1>8, <1>9, <1>10, CallGoesOn

LEMMA GetAllItemsKeeps == ASSUME SInv, NEW c \in Caller, GetAllItems(c) \/ Returns(c) PROVE SInv'
<1> DEFINE its == caches[call[c].cache]
           e == [call[c] EXCEPT !.op = "return", !.items = its]
<1>1. UNCHANGED <<caches, gone, since>> /\ Current' = Current /\ call[c] \in Calls
  BY DEF GetAllItems, Returns, Current, SInv, StorageTypeOK, Calls
<1>2. /\ caches' \in Seq(Seq(CacheItem)) /\ gone' = gone
      /\ \A g \in 1 .. Current : Len(caches'[g]) <= Size /\ Keys(caches'[g]) \subseteq Keys(caches[g]) \cup {}
      /\ DOMAIN since' \subseteq Key /\ \A k \in DOMAIN since' : since'[k] \subseteq Key
      /\ UsedLast(caches[Current], since)'
  BY <1>1 DEF SInv, StorageTypeOK
<1>3. CASE GetAllItems(c)
  <2>1. call' = [call EXCEPT ![c] = e]
    BY <1>3 DEF GetAllItems, SInv, StorageTypeOK
  <2>2. its \in Seq(CacheItem) /\ Keys(its) \cap call[c].gone = {}
    BY <1>3, ElementOfSeq DEF GetAllItems, SInv, StorageTypeOK, Loads, NothingGone, Working, Current
  <2> HIDE DEF its
  <2>3. e \in Calls /\ e.op = "return" /\ e.gone = call[c].gone /\ e.items = its
    BY <1>1, <2>2 DEF Calls
  <2> HIDE DEF e
  <2> QED
    BY <1>1, <1>2, <2>1, <2>2, <2>3, CallGoesOn
<1>4. CASE Returns(c)
  <2>1. call' = [call EXCEPT ![c] = Idle]
    BY <1>4 DEF Returns
  <2>2. Idle \in Calls /\ Idle.op = "idle" /\ Idle.gone = {} /\ Keys(Idle.items) = {}
    BY IdleCall DEF SInv, Idle
  <2> QED
    BY <1>1, <1>2, <2>1, <2>2, CallGoesOn
<1> QED
  BY <1>3, <1>4

(* A call that has just loaded a cache, or begins to clear.                *)
LEMMA CallBegins ==
  ASSUME SInv, NEW c \in Caller, NEW e \in Calls,
         call[c] = Idle, e.items = <<>>, UNCHANGED <<caches, since>>,
         \/ e.op = "add" /\ e.key \in Key /\ e.value \in Value /\ e.gone = {}
         \/ e.op = "get" /\ e.key \in Key /\ e.gone = gone
         \/ e.op = "all" /\ e.gone = gone
         \/ e.op = "clear" /\ e.gone = {} /\ \A d \in Caller : ~Working("clear", d),
         e.op # "clear" => e.cache = Current,
         gone' = IF e.op = "add" THEN gone \ {e.key} ELSE gone,
         \A d \in Caller :
           /\ d = c => call'[d] = e
           /\ d # c => /\ call'[d] \in Calls
                       /\ call'[d].op = call[d].op /\ call'[d].key = call[d].key
                       /\ call'[d].value = call[d].value /\ call'[d].cache = call[d].cache
                       /\ call'[d].items = call[d].items
                       /\ call'[d].gone = IF e.op = "add" THEN call[d].gone \ {e.key} ELSE call[d].gone,
         call' \in [Caller -> Calls]
  PROVE  SInv'
<1>1. Current \in 1 .. Current /\ Current' = Current /\ Keys(e.items) = {}
  BY LenProperties, EmptySeq DEF SInv, StorageTypeOK, Current, Keys
<1>2. StorageTypeOK'
  <2>1. ASSUME NEW a \in Caller, NEW b \in Caller, Working("clear", a)', Working("clear", b)'
        PROVE  a = b
    <3>1. call'[a].op = "clear" /\ call'[b].op = "clear"
      BY <2>1 DEF Working
    <3>2. CASE a = c \/ b = c
      <4>1. e.op = "clear"
        BY <3>1, <3>2
      <4>2. \A d \in Caller : call[d].op # "clear"
        BY <4>1 DEF Working
      <4> QED
        BY <3>1, <4>2
    <3>3. CASE a # c /\ b # c
      <4>1. Working("clear", a) /\ Working("clear", b)
        BY <3>1, <3>3 DEF Working
      <4> QED
        BY <4>1 DEF SInv, StorageTypeOK
    <3> QED
      BY <3>2, <3>3
  <2>2. gone' \subseteq Key
    BY DEF SInv, StorageTypeOK
  <2> QED
    BY <1>1, <2>1, <2>2 DEF SInv, StorageTypeOK, Calls
<1>3. Loads'
  BY <1>1 DEF SInv, Loads, Working
<1>4. NothingGone'
  <2>1. Keys(caches[Current])' \cap gone' = {}
    BY <1>1 DEF SInv, NothingGone
  <2>2. ASSUME NEW d \in Caller
        PROVE  /\ Keys(call'[d].items) \cap call'[d].gone = {}
               /\ call'[d].op \in {"get", "all"} => Keys(caches'[call'[d].cache]) \cap call'[d].gone = {}
    BY <1>1 DEF SInv, NothingGone
  <2>3. ASSUME NEW d \in Caller, call'[d].op = "add"
        PROVE  call'[d].key \notin gone' /\ \A b \in Caller : call'[d].key \notin call'[b].gone
    <3>1. CASE d = c
      <4>1. e.op = "add" /\ call'[d].key = e.key /\ e.gone = {} /\ gone' = gone \ {e.key}
        BY <2>3, <3>1
      <4>2. \A b \in Caller : call'[b].gone = IF b = c THEN {} ELSE call[b].gone \ {e.key}
        BY <4>1
      <4> QED
        BY <4>1, <4>2
    <3>2. CASE d # c
      <4>1. Working("add", d) /\ call'[d].key = call[d].key
        BY <2>3, <3>2 DEF Working
      <4>2. call[d].key \notin gone /\ \A b \in Caller : call[d].key \notin call[b].gone
        BY <4>1 DEF SInv, NothingGone
      <4>3. call[d].key \notin e.gone /\ gone' \subseteq gone
        BY <4>2
      <4>4. \A b \in Caller : b # c => call'[b].gone \subseteq call[b].gone
        OBVIOUS
      <4> QED
        BY <4>1, <4>2, <4>3, <4>4
    <3> QED
      BY <3>1, <3>2
  <2> QED
    BY <2>1, <2>2, <2>3 DEF NothingGone, Working
<1>5. UsedLast(caches[Current], since)'
  BY <1>1 DEF SInv
<1> QED
  BY <1>2, <1>3, <1>4, <1>5 DEF SInv

LEMMA BeginsKeeps ==
  ASSUME SInv, NEW c \in Caller,
         \/ \E k \in Key : LoadsToGet(c, k) \/ \E v \in Value : LoadsToAdd(c, k, v)
         \/ LoadsToGetAll(c) \/ ClearBegin(c)
  PROVE  SInv'
<1>1. /\ call \in [Caller -> Calls] /\ \A d \in Caller : call[d] \in Calls
      /\ Current \in 0 .. Current /\ gone \subseteq Key
      /\ Idle \in Calls /\ Idle.items = <<>> /\ Idle.gone = {}
  BY IdleCall, LenProperties DEF SInv, StorageTypeOK, Current, Calls, Idle
<1>2. ASSUME NEW k \in Key, LoadsToGet(c, k) PROVE SInv'
  <2> DEFINE e == [Idle EXCEPT !.op = "get", !.key = k, !.cache = Current, !.gone = gone]
  <2>1. call' = [call EXCEPT ![c] = e] /\ call[c] = Idle /\ UNCHANGED <<caches, gone, since>>
    BY <1>2 DEF LoadsToGet, Loaded
  <2>2. e \in Calls /\ e.op = "get" /\ e.key = k /\ e.gone = gone /\ e.items = <<>> /\ e.cache = Current
    BY <1>1 DEF Calls
  <2> HIDE DEF e
  <2>3. call' \in [Caller -> Calls] /\ \A d \in Caller : call'[d] = IF d = c THEN e ELSE call[d]
    BY <1>1, <2>1, <2>2
  <2> QED
    BY <1>1, <2>1, <2>2, <2>3, CallBegins
<1>3. ASSUME LoadsToGetAll(c) PROVE SInv'
  <2> DEFINE e == [Idle EXCEPT !.op = "all", !.cache = Current, !.gone = gone]
  <2>1. call' = [call EXCEPT ![c] = e] /\ call[c] = Idle /\ UNCHANGED <<caches, gone, since>>
    BY <1>3 DEF LoadsToGetAll, Loaded
  <2>2. e \in Calls /\ e.op = "all" /\ e.gone = gone /\ e.items = <<>> /\ e.cache = Current
    BY <1>1 DEF Calls
  <2> HIDE DEF e
  <2>3. call' \in [Caller -> Calls] /\ \A d \in Caller : call'[d] = IF d = c THEN e ELSE call[d]
    BY <1>1, <2>1, <2>2
  <2> QED
    BY <1>1, <2>1, <2>2, <2>3, CallBegins
<1>4. ASSUME ClearBegin(c) PROVE SInv'
  <2>1. call' = [call EXCEPT ![c] = Clearing] /\ call[c] = Idle /\ UNCHANGED <<caches, gone, since>>
        /\ \A d \in Caller : ~Working("clear", d)
    BY <1>4 DEF ClearBegin
  <2>2. Clearing \in Calls /\ Clearing.op = "clear" /\ Clearing.gone = {} /\ Clearing.items = <<>>
    BY IdleCall DEF Clearing, Idle, SInv
  <2>3. call' \in [Caller -> Calls] /\ \A d \in Caller : call'[d] = IF d = c THEN Clearing ELSE call[d]
    BY <1>1, <2>1, <2>2
  <2> QED
    BY <1>1, <2>1, <2>2, <2>3, CallBegins
<1>5. ASSUME NEW k \in Key, NEW v \in Value, LoadsToAdd(c, k, v) PROVE SInv'
  <2> DEFINE e == [Idle EXCEPT !.op = "add", !.key = k, !.value = v, !.cache = Current]
             Other(d) == [call[d] EXCEPT !.gone = @ \ {k}]
  <2>1. /\ call[c] = Idle /\ UNCHANGED <<caches, since>> /\ gone' = gone \ {k}
        /\ call' = [d \in Caller |-> IF d = c THEN e ELSE Other(d)]
    BY <1>5 DEF LoadsToAdd, Loaded
  <2>2. e \in Calls /\ e.op = "add" /\ e.key = k /\ e.value = v /\ e.gone = {} /\ e.items = <<>> /\ e.cache = Current
    BY <1>1 DEF Calls
  <2>3. \A d \in Caller : /\ Other(d) \in Calls
                          /\ Other(d).op = call[d].op /\ Other(d).key = call[d].key
                          /\ Other(d).value = call[d].value /\ Other(d).cache = call[d].cache
                          /\ Other(d).items = call[d].items /\ Other(d).gone = call[d].gone \ {k}
    BY <1>1 DEF Calls
  <2> HIDE DEF e, Other
  <2>4. call' \in [Caller -> Calls] /\ \A d \in Caller : call'[d] = IF d = c THEN e ELSE Other(d)
    BY <2>1, <2>2, <2>3
  <2>5. \A d \in Caller :
           /\ d = c => call'[d] = e
           /\ d # c => /\ call'[d] \in Calls
                       /\ call'[d].op = call[d].op /\ call'[d].key = call[d].key
                       /\ call'[d].value = call[d].value /\ call'[d].cache = call[d].cache
                       /\ call'[d].items = call[d].items
                       /\ call'[d].gone = IF e.op = "add" THEN call[d].gone \ {e.key} ELSE call[d].gone
    BY <2>2, <2>3, <2>4
  <2>6. /\ e.op # "clear" => e.cache = Current
        /\ gone' = IF e.op = "add" THEN gone \ {e.key} ELSE gone
    BY <2>1, <2>2
  <2> QED
    BY <2>1, <2>2, <2>4, <2>5, <2>6, CallBegins
<1> QED
  BY <1>2, <1>3, <1>4, <1>5

LEMMA ClearSwapsKeeps == ASSUME SInv, NEW c \in Caller, ClearSwaps(c) PROVE SInv'
<1>1. /\ <<>> \in Seq(CacheItem) /\ Len(<<>>) = 0 /\ Keys(<<>>) = {} /\ \A i \in 1 .. Len(<<>>) : FALSE
  BY EmptySeq DEF Keys
<1>2. /\ caches' = Append(caches, <<>>) /\ gone' = Key \ Adding /\ call' = [call EXCEPT ![c] = Idle]
      /\ DOMAIN since' = {}
  BY DEF ClearSwaps, NewCache
<1>3. /\ Current \in Nat /\ Current >= 1 /\ caches' \in Seq(Seq(CacheItem)) /\ Current' = Current + 1
      /\ caches'[Current'] = <<>> /\ \A g \in 1 .. Current : caches'[g] = caches[g]
  BY <1>1, <1>2, LenProperties, AppendProperties DEF SInv, StorageTypeOK, Current
<1>4. Idle \in Calls /\ Idle.op = "idle" /\ Idle.gone = {} /\ Keys(Idle.items) = {}
  BY IdleCall DEF SInv, Idle
<1>5. /\ \A d \in Caller : call'[d] = (IF d = c THEN Idle ELSE call[d]) /\ call[d] \in Calls
      /\ call' \in [Caller -> Calls]
  BY <1>2, <1>4 DEF SInv, StorageTypeOK, Calls
<1>6. Calls \subseteq Calls'
  BY <1>3 DEF Calls
<1>7. StorageTypeOK'
  <2>1. call' \in [Caller -> Calls']
    BY <1>5, <1>6
  <2>2. \A a, b \in Caller : Working("clear", a)' /\ Working("clear", b)' => a = b
    BY <1>4, <1>5 DEF SInv, StorageTypeOK, Working
  <2>3. ASSUME NEW g \in 1 .. Current' PROVE Len(caches'[g]) <= Size
    <3>1. g \in 1 .. Current \/ g = Current'
      BY <1>3
    <3>2. \A h \in 1 .. Current : Len(caches'[h]) <= Size
      BY <1>3 DEF SInv, StorageTypeOK
    <3> QED
      BY <1>1, <1>3, <3>1, <3>2, SizeAssumption
  <2>4. Current' >= 1 /\ gone' \subseteq Key
    BY <1>2, <1>3
  <2> QED
    BY <1>2, <1>3, <2>1, <2>2, <2>3, <2>4 DEF StorageTypeOK, Calls
<1>8. Loads'
  <2> SUFFICES ASSUME NEW d \in Caller
               PROVE  /\ call'[d].op = "add" => call'[d].key \in Key /\ call'[d].value \in Value
                      /\ call'[d].op = "get" => call'[d].key \in Key
                      /\ call'[d].op \in {"add", "get", "all"} => call'[d].cache \in 1 .. Current'
    BY DEF Loads, Working
  <2>1. call'[d] = Idle \/ call'[d] = call[d]
    BY <1>5
  <2>2. 1 .. Current \subseteq 1 .. Current'
    BY <1>3
  <2> QED
    BY <1>4, <2>1, <2>2 DEF SInv, Loads, Working
<1>9. NothingGone'
  <2>1. Keys(caches[Current])' \cap gone' = {}
    BY <1>1, <1>3
  <2>2. ASSUME NEW d \in Caller
        PROVE  /\ Keys(call'[d].items) \cap call'[d].gone = {}
               /\ call'[d].op \in {"get", "all"} => Keys(caches'[call'[d].cache]) \cap call'[d].gone = {}
    BY <1>3, <1>4, <1>5 DEF SInv, NothingGone, Loads
  <2>3. ASSUME NEW d \in Caller, call'[d].op = "add"
        PROVE  call'[d].key \notin gone' /\ \A b \in Caller : call'[d].key \notin call'[b].gone
    <3>1. d # c /\ call'[d] = call[d] /\ Working("add", d)
      BY <1>4, <1>5, <2>3 DEF Working
    <3>2. call[d].key \in Adding
      BY <3>1 DEF Adding
    <3> QED
      BY <1>2, <1>4, <1>5, <3>1, <3>2 DEF SInv, NothingGone
  <2> QED
    BY <2>1, <2>2, <2>3 DEF NothingGone, Working
<1>10. UsedLast(caches[Current], since)'
  BY <1>1, <1>2, <1>3 DEF UsedLast
<1> QED
  BY <1>7, <1>8, <1>9, <1>10 DEF SInv

LEMMA NextKeepsSInv == SInv /\ [StorageNext]_storageVars => SInv'
<1> SUFFICES ASSUME SInv, [StorageNext]_storageVars PROVE SInv'
  OBVIOUS
<1>1. CASE StorageNext
  BY <1>1, AddItemKeeps, GetItemKeeps, GetAllItemsKeeps, BeginsKeeps, ClearSwapsKeeps DEF StorageNext
<1>2. CASE UNCHANGED storageVars
  BY <1>2 DEF storageVars, SInv, StorageTypeOK, Loads, NothingGone, Working, Current, UsedLast, Has, Keys
<1> QED
  BY <1>1, <1>2

LEMMA SInvHolds == StorageSpec => []SInv
  BY InitSInv, NextKeepsSInv, PTL DEF StorageSpec

(* Types, the bound on every cache, and at most one goroutine clearing.     *)
THEOREM StorageTypeCorrect == StorageSpec => []StorageTypeOK
<1>1. SInv => StorageTypeOK
  BY DEF SInv
<1> QED
  BY <1>1, SInvHolds, PTL

(* No call that begins after ClearHistory has replaced the cache hands out  *)
(* an item whose AddItem had ended by then, though AddItem, GetItem and     *)
(* GetAllItems do not take the mutex of ClearHistory and some of them are   *)
(* still at work on discarded caches.                                       *)
THEOREM ClearLeavesNothing == StorageSpec => []ClearedIsGone
<1>1. SInv => ClearedIsGone
  BY DEF SInv, NothingGone, ClearedIsGone, Keys
<1> QED
  BY <1>1, SInvHolds, PTL

(* An item added since the cache was replaced is in it until Size others    *)
(* were used: no call on a discarded cache, and no lookup, pushes it out.   *)
THEOREM AddedStays == StorageSpec => []AddedIsFound
<1>1. SInv => AddedIsFound
  BY DEF SInv, UsedLast, AddedIsFound
<1> QED
  BY <1>1, SInvHolds, PTL

-----------------------------------------------------------------------------
(* The cache behind the storage.                                           *)

(* A step of the whole is one of the storage, and one of the cache or none. *)
LEMMA HistorySteps ==
  ASSUME SInv, [HistoryNext]_historyVars
  PROVE  [StorageNext]_storageVars /\ [Next]_vars
<1>1. ASSUME NEW c \in Caller, StorageAdds(c) PROVE StorageNext /\ [Next]_vars
  <2>1. call[c].key \in Key /\ call[c].value \in Value
    BY <1>1 DEF StorageAdds, AddItem, SInv, Loads
  <2>2. StorageNext
    BY <1>1 DEF StorageAdds, StorageNext
  <2> QED
    BY <1>1, <2>1, <2>2 DEF StorageAdds, Next
<1>2. ASSUME NEW c \in Caller, StorageGets(c) PROVE StorageNext /\ [Next]_vars
  <2>1. call[c].key \in Key
    BY <1>2 DEF StorageGets, GetItem, SInv, Loads
  <2>2. StorageNext
    BY <1>2 DEF StorageGets, StorageNext
  <2> QED
    BY <1>2, <2>1, <2>2 DEF StorageGets, Next
<1>3. ASSUME NEW c \in Caller, StorageOnly(c) PROVE StorageNext /\ UNCHANGED vars
  BY <1>3 DEF StorageOnly, StorageNext
<1>4. CASE UNCHANGED historyVars
  BY <1>4 DEF historyVars
<1> QED
  BY <1>1, <1>2, <1>3, <1>4 DEF HistoryNext

(* What a call of the storage does to the first cache.                      *)
LEMMA FirstCache ==
  ASSUME SInv, NEW c \in Caller, AddItem(c) \/ GetItem(c)
  PROVE  /\ ~OnFirst(c) => caches'[1] = caches[1]
         /\ OnFirst(c) /\ AddItem(c) => caches'[1] = Added(caches[1], call[c].key, call[c].value)
         /\ OnFirst(c) /\ GetItem(c) => caches'[1] = Touched(caches[1], call[c].key)
<1>1. 1 \in DOMAIN caches
  BY DEF SInv, StorageTypeOK, Current
<1> QED
  BY <1>1 DEF AddItem, GetItem, InPlace, OnFirst

LEMMA CacheHoldsStep ==
  ASSUME SInv, IInv, CacheHoldsItems, [HistoryNext]_historyVars
  PROVE  CacheHoldsItems'
<1>1. ASSUME NEW c \in Caller, StorageAdds(c) PROVE CacheHoldsItems'
  <2>1. AddItem(c) /\ call[c].key \in Key /\ call[c].value \in Value
    BY <1>1 DEF StorageAdds, AddItem, SInv, Loads
  <2>2. CASE OnFirst(c)
    <3>1. Recent!Add(call[c].key, call[c].value)
      BY <1>1, <2>1, <2>2, AddRefines DEF StorageAdds
    <3>2. GetAll' = Added(GetAll, call[c].key, call[c].value)
      BY <3>1 DEF Recent!Add, Recent!Added, Recent!Kept, Recent!Used, Recent!Without, Recent!Has,
                  Recent!At, Added, Kept, Used, Without, Has, At
    <3> QED
      BY <2>1, <2>2, <3>2, FirstCache DEF CacheHoldsItems
  <2>3. CASE ~OnFirst(c)
    <3>1. GetAll' = GetAll
      BY <1>1, <2>3 DEF StorageAdds, vars, GetAll
    <3> QED
      BY <2>1, <2>3, <3>1, FirstCache DEF CacheHoldsItems
  <2> QED
    BY <2>2, <2>3
<1>2. ASSUME NEW c \in Caller, StorageGets(c) PROVE CacheHoldsItems'
  <2>1. GetItem(c) /\ call[c].key \in Key
    BY <1>2 DEF StorageGets, GetItem, SInv, Loads
  <2>2. CASE OnFirst(c)
    <3>1. Recent!Get(call[c].key)
      BY <1>2, <2>1, <2>2, GetRefines DEF StorageGets
    <3>2. GetAll' = Touched(GetAll, call[c].key)
      BY <3>1 DEF Recent!Get, Recent!Touched, Recent!Used, Recent!Without, Recent!Has, Recent!At,
                  Recent!Lookup, Touched, Used, Without, Has, At, Lookup
    <3> QED
      BY <2>1, <2>2, <3>2, FirstCache DEF CacheHoldsItems
  <2>3. CASE ~OnFirst(c)
    <3>1. GetAll' = GetAll
      BY <1>2, <2>3 DEF StorageGets, vars, GetAll
    <3> QED
      BY <2>1, <2>3, <3>1, FirstCache DEF CacheHoldsItems
  <2> QED
    BY <2>2, <2>3
<1>3. ASSUME NEW c \in Caller, StorageOnly(c) PROVE CacheHoldsItems'
  <2>1. GetAll' = GetAll
    BY <1>3 DEF StorageOnly, vars, GetAll
  <2>2. caches \in Seq(Seq(CacheItem)) /\ Len(caches) >= 1
    BY DEF SInv, StorageTypeOK, Current
  <2>3. Append(caches, NewCache)[1] = caches[1]
    BY <2>2 DEF NewCache
  <2>4. caches'[1] = caches[1]
    BY <1>3, <2>3 DEF StorageOnly, LoadsToGet, LoadsToAdd, LoadsToGetAll, GetAllItems, Returns,
                      ClearBegin, ClearSwaps
  <2> QED
    BY <2>1, <2>4 DEF CacheHoldsItems
<1>4. CASE UNCHANGED historyVars
  BY <1>4 DEF historyVars, storageVars, vars, CacheHoldsItems, GetAll
<1> QED
  BY <1>1, <1>2, <1>3, <1>4 DEF HistoryNext

(* List and map of the cache hold the items the storage accounts for, in   *)
(* the order of their use, however many callers work on the cache and       *)
(* whether or not it has been discarded meanwhile.                          *)
THEOREM StorageUsesTheCache == HistorySpec => []CacheHoldsItems
<1>1. HistoryInit => SInv /\ IInv /\ CacheHoldsItems
  <2> SUFFICES ASSUME HistoryInit PROVE SInv /\ IInv /\ CacheHoldsItems
    OBVIOUS
  <2>1. SInv /\ IInv
    BY InitSInv, InitIInv DEF HistoryInit
  <2>2. Recent!Init
    BY InitRefines DEF HistoryInit
  <2> QED
    BY <2>1, <2>2 DEF HistoryInit, StorageInit, CacheHoldsItems, Recent!Init
<1>2. /\ SInv /\ IInv /\ CacheHoldsItems
      /\ [HistoryNext]_historyVars
      => SInv' /\ IInv' /\ CacheHoldsItems'
  BY HistorySteps, NextKeepsSInv, NextIInv, CacheHoldsStep
<1> QED
  BY <1>1, <1>2, PTL DEF HistorySpec
=============================================================================
