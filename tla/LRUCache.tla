------------------------------- MODULE LRUCache -------------------------------
(***************************************************************************)
(* golang/interfaces/lrucache/lru.go: a map from keys to elements of a     *)
(* linked list, each of which carries an entry.                            *)
(***************************************************************************)
EXTENDS Naturals, Sequences, SequencesExt

CONSTANTS Keys, Values,
          Capacities   \* arguments of New

LRUCacheAssumption == Capacities \subseteq Nat

VARIABLES capacity,
          items,   \* key -> element
          list,    \* the elements, from front to back
          entry,   \* element -> [key, value], for the elements of list
          result   \* what the last call returned

vars == <<capacity, items, list, entry, result>>

Nothing == [x \in {} |-> 0]

Init == capacity \in Capacities /\ items = Nothing /\ list = <<>> /\ entry = Nothing /\ result = <<>>

Without(f, S) == [x \in DOMAIN f \ S |-> f[x]]
With(f, x, y) == [z \in DOMAIN f \cup {x} |-> IF z = x THEN y ELSE f[z]]
MoveToBack(le) == list' = Append(RemoveFirst(list, le), le)

Get(k) ==
  IF k \notin DOMAIN items THEN result' = <<>> /\ UNCHANGED <<capacity, items, list, entry>>
  ELSE /\ MoveToBack(items[k]) /\ result' = <<<<k, entry[items[k]].value>>>> /\ UNCHANGED <<capacity, items, entry>>

\* A known key: its entry is overwritten and its element moved.
\* Mutant: the element stays where it is.
MutantUpdate(k, x) ==
  /\ k \in DOMAIN items /\ entry' = [entry EXCEPT ![items[k]].value = x]
  /\ result' = <<>> /\ UNCHANGED <<capacity, items, list>>
Update(k, x) ==
  /\ k \in DOMAIN items /\ entry' = [entry EXCEPT ![items[k]].value = x] /\ MoveToBack(items[k])
  /\ result' = <<>> /\ UNCHANGED <<capacity, items>>

\* A new key: at the limit the front makes room, in the map and in the list.
Insert(k, x) ==
  LET full  == Len(list) >= capacity
      kept  == IF full THEN Tail(list) ELSE list
      known == IF full THEN Without(items, {entry[Head(list)].key}) ELSE items
      old   == IF full THEN Without(entry, {Head(list)}) ELSE entry
      le    == CHOOSE e \in 1..capacity : e \notin ToSet(kept)
  IN  /\ k \notin DOMAIN items /\ list' = Append(kept, le) /\ items' = With(known, k, le)
      /\ entry' = With(old, le, [key |-> k, value |-> x]) /\ result' = <<>> /\ UNCHANGED capacity

Set(k, x) ==
  IF capacity = 0 THEN result' = <<>> /\ UNCHANGED <<capacity, items, list, entry>>
  ELSE Update(k, x) \/ Insert(k, x)

\* The callback is called for the elements from the front until it says no.
RangeOver == \E n \in 0..Len(list) :
  /\ result' = [j \in 1..n |-> <<entry[list[j]].key, entry[list[j]].value>>]
  /\ UNCHANGED <<capacity, items, list, entry>>

Clear == items' = Nothing /\ list' = <<>> /\ entry' = Nothing /\ result' = <<>> /\ UNCHANGED capacity

Next == RangeOver \/ Clear \/ \E k \in Keys : Get(k) \/ \E x \in Values : Set(k, x)

Spec == Init /\ [][Next]_vars

-----------------------------------------------------------------------------
(***************************************************************************)
(* It implements the cache without elements: map and list never disagree,  *)
(* the capacity is kept, and the key that goes is the one used longest ago.*)
(***************************************************************************)
Abstract == INSTANCE CacheSpec WITH
  value <- [k \in DOMAIN items |-> entry[items[k]].value],
  recent <- [j \in DOMAIN list |-> entry[list[j]].key]
Implements == Abstract!Init /\ [][Abstract!Next]_<<capacity, items, list, entry, result>>
=============================================================================
