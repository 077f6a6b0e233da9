----------------------------- MODULE SectionLock -----------------------------
(***************************************************************************)
(* What the locks of golang/ promise: a process is in at most one section  *)
(* at a time, and two processes are inside together only in sections that  *)
(* are Compatible.  KeyLock (a section is a set of keys, compatible when   *)
(* disjoint) and RWMutex (sections "read" and "write", only reads are      *)
(* compatible) implement this module.                                      *)
(***************************************************************************)
CONSTANTS Procs,       \* the goroutines that use the lock
          Sections,    \* what a goroutine may ask for
          Compatible   \* the pairs of sections that may be held together

VARIABLE inside        \* inside[p]: the section p is in, as a set of at most one

Init == inside = [p \in Procs |-> {}]

\* p enters s: everyone else is outside or in a compatible section.
Enter(p, s) ==
  /\ inside[p] = {}
  /\ \A q \in Procs \ {p} : \A t \in inside[q] : <<s, t>> \in Compatible
  /\ inside' = [inside EXCEPT ![p] = {s}]

Leave(p) ==
  /\ inside[p] # {}
  /\ inside' = [inside EXCEPT ![p] = {}]

Next == \E p \in Procs : Leave(p) \/ \E s \in Sections : Enter(p, s)

Spec == Init /\ [][Next]_inside
=============================================================================
