---------------------------- MODULE RecentItems -----------------------------
(***************************************************************************)
(* What a history of the most recently used items promises: at most Size   *)
(* items with distinct keys, most recently added or read first; a new item *)
(* beyond Size pushes the last one out.  This is the abstract              *)
(* specification of lru_cache.go in internal/core/history.                 *)
(***************************************************************************)
EXTENDS RecentLists

VARIABLES
  recent,  \* the items, most recently used first
  result   \* what the last Get or Remove returned

vars == <<recent, result>>

Missing == [found |-> FALSE, value |-> NoValue]

Init == recent = <<>> /\ result = Missing

Add(k, v) ==
  /\ recent' = Added(recent, k, v)
  /\ UNCHANGED result

Get(k) ==
  /\ recent' = Touched(recent, k)
  /\ result' = IF Has(recent, k) THEN [found |-> TRUE, value |-> Lookup(recent, k).value]
               ELSE Missing

Remove(k) ==
  /\ recent' = Without(recent, k)
  /\ result' = [found |-> Has(recent, k), value |-> NoValue]

Next ==
  \/ \E k \in Key, v \in Value : Add(k, v)
  \/ \E k \in Key : Get(k) \/ Remove(k)

Spec == Init /\ [][Next]_vars
=============================================================================
