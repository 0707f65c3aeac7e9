---------------------------- MODULE RecentLists -----------------------------
(***************************************************************************)
(* Lists of items with distinct keys, the one used last first: the data of *)
(* a history of the most recently used items, and what its operations make *)
(* of such a list.  TooMany is a variant with an off-by-one.                *)
(***************************************************************************)
EXTENDS Naturals, Sequences

CONSTANTS
  Key,      \* item identifiers
  Value,    \* items
  NoValue,  \* the zero Item a miss returns
  Size      \* how many items are kept; NewLRUCache refuses a size that is not positive

ASSUME SizeAssumption == Size \in Nat \ {0}

CacheItem == [key : Key, value : Value]

Has(s, k) == \E i \in 1 .. Len(s) : s[i].key = k
At(s, k) == CHOOSE i \in 1 .. Len(s) : s[i].key = k
Lookup(s, k) == s[At(s, k)]

Without(s, k) ==
  IF Has(s, k) THEN SubSeq(s, 1, At(s, k) - 1) \o SubSeq(s, At(s, k) + 1, Len(s)) ELSE s
Used(s, it) == <<it>> \o Without(s, it.key)
TooMany(s) == IF Len(s) > Size + 1 THEN SubSeq(s, 1, Size + 1) ELSE s
Kept(s) == IF Len(s) > Size THEN SubSeq(s, 1, Size) ELSE s

\* The list after an item was added, and after one was looked up.
Added(s, k, v) == Kept(Used(s, [key |-> k, value |-> v]))
Touched(s, k) == IF Has(s, k) THEN Used(s, Lookup(s, k)) ELSE s
=============================================================================
