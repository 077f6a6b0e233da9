------------------------------ MODULE WaitGroup ------------------------------
(***************************************************************************)
(* golang/goroutines/waitgroup/waitgroup.go: a counter guarded by the      *)
(* token of lock, and a channel done that holds a token exactly while the  *)
(* counter is zero.  Wait borrows that token and puts it back.             *)
(*                                                                         *)
(* Callers keep the rules of the comment on Add: the counter never goes    *)
(* negative (Add would panic, with lock's token taken); an Add of a        *)
(* positive delta that starts when it is zero is over before a Wait        *)
(* starts, and starts when no Wait is in progress; one that starts when it *)
(* is positive is free.  Every channel operation is a step.                *)
(***************************************************************************)
EXTENDS Integers, FiniteSets

CONSTANTS Procs,
          Deltas,   \* arguments of Add
          MaxCnt    \* bound: the counter a caller may bring about

WaitGroupAssumption == IsFiniteSet(Procs) /\ Deltas \subseteq Int /\ MaxCnt \in Nat

VARIABLES pc, delta,        \* each process: where it is, the argument of its Add
          lock, done, cnt   \* tokens in each channel, the counter

vars == <<pc, delta, lock, done, cnt>>

Init ==
  /\ pc = [p \in Procs |-> "idle"] /\ delta = [p \in Procs |-> 0]
  /\ lock = 1 /\ done = 1 /\ cnt = 0

Goto(p, from, to) == pc[p] = from /\ pc' = [pc EXCEPT ![p] = to]
At(S) == {p \in Procs : pc[p] \in S}

\* The Adds called and not yet counted, and how far they will move the counter up and
\* down: a unit for each.
Pending  == At({"add"})
Units(f) == UNION {{q} \X (1..f[q]) : q \in Pending}
Up       == Cardinality(Units(delta))
Down     == Cardinality(Units([q \in Procs |-> -delta[q]]))

CallAdd(p, d) ==
  /\ Goto(p, "idle", "add") /\ delta' = [delta EXCEPT ![p] = d]
  /\ cnt - Down + d >= 0 /\ cnt + Up + d <= MaxCnt
  /\ cnt = 0 /\ d > 0 => At({"wait", "passed"}) = {}
  /\ UNCHANGED <<lock, done, cnt>>

\* Somebody is left to call Done.
CallWait(p) ==
  /\ Goto(p, "idle", "wait") /\ At({"wait", "passed"}) \cup {p} # Procs
  /\ cnt = 0 => \A q \in Pending : delta[q] <= 0
  /\ At({"take"}) = {}
  /\ UNCHANGED <<delta, lock, done, cnt>>

\* Where Add goes on with the counter changed from old to new.
MutantNextOp(old, new) == IF new = 0 THEN "give" ELSE "unlock"
NextOp(old, new) == CASE old = 0 /\ new > 0 -> "take" [] new = 0 -> "give" [] OTHER -> "unlock"

\* Mutant: lock's token is not taken.
MutantAddCounts(p) ==
  /\ cnt' = cnt + delta[p] /\ Goto(p, "add", NextOp(cnt, cnt'))
  /\ delta' = [delta EXCEPT ![p] = 0] /\ UNCHANGED <<lock, done>>

AddCounts(p) ==
  /\ lock = 1 /\ lock' = 0 /\ cnt' = cnt + delta[p]
  /\ Goto(p, "add", NextOp(cnt, cnt'))
  /\ delta' = [delta EXCEPT ![p] = 0] /\ UNCHANGED done

AddTakesDone(p) ==
  /\ done = 1 /\ done' = 0 /\ Goto(p, "take", "unlock")
  /\ UNCHANGED <<delta, lock, cnt>>

AddGivesDone(p) ==
  /\ done = 0 /\ done' = 1 /\ Goto(p, "give", "unlock")
  /\ UNCHANGED <<delta, lock, cnt>>

AddReturns(p) ==
  /\ lock = 0 /\ lock' = 1 /\ Goto(p, "unlock", "idle")
  /\ UNCHANGED <<delta, done, cnt>>

WaitTakesDone(p) ==
  /\ done = 1 /\ done' = 0 /\ Goto(p, "wait", "passed")
  /\ UNCHANGED <<delta, lock, cnt>>

\* Mutant: the token is not put back for the next Wait.
MutantWaitReturns(p) == Goto(p, "passed", "idle") /\ UNCHANGED <<delta, lock, done, cnt>>

WaitReturns(p) ==
  /\ done = 0 /\ done' = 1 /\ Goto(p, "passed", "idle")
  /\ UNCHANGED <<delta, lock, cnt>>

Run(p) == \/ AddCounts(p) \/ AddTakesDone(p) \/ AddGivesDone(p) \/ AddReturns(p)
          \/ WaitTakesDone(p) \/ WaitReturns(p)

Next == \E p \in Procs : CallWait(p) \/ (\E d \in Deltas : CallAdd(p, d)) \/ Run(p)

Spec == Init /\ [][Next]_vars

\* Fairness: channels serve their blocked goroutines in turn.
Fairness == \A p \in Procs :
  /\ SF_vars(AddCounts(p) \/ AddTakesDone(p) \/ WaitTakesDone(p))
  /\ WF_vars(AddGivesDone(p) \/ AddReturns(p) \/ WaitReturns(p))

-----------------------------------------------------------------------------
TypeOK ==
  /\ pc \in [Procs -> {"idle", "add", "take", "give", "unlock", "wait", "passed"}]
  /\ delta \in [Procs -> Deltas \cup {0}]
  /\ lock \in 0..1 /\ done \in 0..1 /\ cnt \in 0..MaxCnt
  /\ lock = 0 <=> At({"take", "give", "unlock"}) # {}

(***************************************************************************)
(* There is one token for done, in the channel or borrowed by one Wait,    *)
(* exactly while the counter is zero; an Add about to take or give it is   *)
(* between the two.  Otherwise a send on done would block for ever.        *)
(***************************************************************************)
DoneTellsZero ==
  LET tokens == done + Cardinality(At({"passed"})) IN
  /\ tokens \in 0..1
  /\ tokens = 1 <=> (cnt = 0 /\ At({"give"}) = {}) \/ At({"take"}) # {}

\* Nobody stays in Wait while the counter stays zero.
NoWaitAtZero == \A p \in Procs : ~<>[](pc[p] \in {"wait", "passed"} /\ cnt = 0)

\* README of waitgroup: Add adds delta to the number; so it returns.  This
\* does not hold when delta may be zero: see README.
AddReturnsAlways == \A p \in Procs : pc[p] = "add" ~> pc[p] = "idle"

(***************************************************************************)
(* Comment on Add: if the counter becomes zero, all goroutines blocked on  *)
(* Wait are released.  It does not hold: see README.                       *)
(***************************************************************************)
ZeroReleasesAll == \A p \in Procs : pc[p] = "wait" /\ cnt = 0 ~> pc[p] = "idle"
=============================================================================
