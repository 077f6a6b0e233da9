------------------------------ MODULE CacheSpec ------------------------------
(***************************************************************************)
(* What the interface Cache of golang/interfaces/lrucache promises: a map  *)
(* of at most capacity keys that forgets the key not used for the longest  *)
(* time, and shows its keys in the order of their last use.                *)
(***************************************************************************)
EXTENDS Naturals, Sequences, SequencesExt

CONSTANTS Keys, Values

VARIABLES capacity,
          value,   \* the map
          recent,  \* its keys, by their last use
          result   \* what the last call returned

vars == <<capacity, value, recent, result>>

Init == capacity \in Nat /\ value = [k \in {} |-> 0] /\ recent = <<>> /\ result = <<>>

Used(s, k) == Append(RemoveFirst(s, k), k)

Get(k) ==
  /\ recent' = (IF k \in DOMAIN value THEN Used(recent, k) ELSE recent)
  /\ result' = (IF k \in DOMAIN value THEN <<<<k, value[k]>>>> ELSE <<>>) /\ UNCHANGED <<capacity, value>>

\* With no room at all nothing is kept; else the oldest key makes room for a new one.
Set(k, x) ==
  LET old  == Used(recent, k)
      kept == IF Len(old) > capacity THEN Tail(old) ELSE old
  IN  /\ UNCHANGED capacity /\ recent' = kept /\ result' = <<>>
      /\ value' = [y \in ToSet(kept) |-> IF y = k THEN x ELSE value[y]]

\* Range shows the first keys, until its callback has enough.
RangeOver == \E n \in 0..Len(recent) :
  result' = [j \in 1..n |-> <<recent[j], value[recent[j]]>>] /\ UNCHANGED <<capacity, value, recent>>

Clear == value' = [k \in {} |-> 0] /\ recent' = <<>> /\ result' = <<>> /\ UNCHANGED capacity

Next == RangeOver \/ Clear \/ \E k \in Keys : Get(k) \/ \E x \in Values : Set(k, x)

Spec == Init /\ [][Next]_vars
=============================================================================
