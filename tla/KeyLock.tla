------------------------------- MODULE KeyLock -------------------------------
(***************************************************************************)
(* golang/shmem/keylock/keylock.go: a lock over sets of keys.  A mutex     *)
(* guards the set of locked keys; a call that finds one of its keys locked *)
(* sleeps on notify, a channel of capacity one that all the sleepers share,*)
(* and scans again when it takes the token that an unlock left there.      *)
(*                                                                         *)
(* What runs between mu.Lock and mu.Unlock touches only what mu guards and *)
(* is one step.  The keys of a call are a set: order and repetitions of    *)
(* the slice change nothing.                                               *)
(***************************************************************************)
EXTENDS Naturals

CONSTANTS Procs,     \* the goroutines
          Keys,      \* the strings that can be locked
          MaxCalls   \* bound: calls made in all

ASSUME KeyLockAssumption == MaxCalls \in Nat

VARIABLES pc,        \* where each goroutine is
          want,      \* the keys of its current or last call
          cancelled, \* whether the cancel channel of that call is closed
          calls,     \* calls made
          locked,    \* l.locked
          notify     \* the tokens in l.notify, a channel of capacity one

vars == <<pc, want, cancelled, calls, locked, notify>>

Init ==
  /\ pc = [p \in Procs |-> "idle"]
  /\ want = [p \in Procs |-> {}]
  /\ cancelled = [p \in Procs |-> FALSE]
  /\ calls = 0
  /\ locked = {}
  /\ notify = 0

(***************************************************************************)
(* A goroutine calls LockKeys, with a cancel channel already closed or not.*)
(***************************************************************************)
Call(p) ==
  /\ pc[p] = "idle" /\ calls < MaxCalls
  /\ calls' = calls + 1
  /\ \E ks \in SUBSET Keys : want' = [want EXCEPT ![p] = ks]
  /\ \E c \in BOOLEAN : cancelled' = [cancelled EXCEPT ![p] = c]
  /\ pc' = [pc EXCEPT ![p] = "scan"]
  /\ UNCHANGED <<locked, notify>>

\* Mutants of the scan: a busy key is overlooked; the keys that precede a
\* busy one stay locked.
MutantTakeAnyway(p) ==
  /\ pc[p] = "scan"
  /\ locked' = locked \cup want[p]
  /\ pc' = [pc EXCEPT ![p] = "held"]
  /\ UNCHANGED <<want, cancelled, calls, notify>>

MutantKeysBusy(p) ==
  /\ pc[p] = "scan" /\ want[p] \cap locked # {}
  /\ \E ks \in SUBSET want[p] : locked' = locked \cup ks
  /\ pc' = [pc EXCEPT ![p] = "wait"]
  /\ UNCHANGED <<want, cancelled, calls, notify>>

(***************************************************************************)
(* The scan under the mutex: all keys are taken or none.  A call whose     *)
(* cancel channel is closed still takes free keys.                         *)
(***************************************************************************)
TakeKeys(p) ==
  /\ pc[p] = "scan" /\ want[p] \cap locked = {}
  /\ locked' = locked \cup want[p]
  /\ pc' = [pc EXCEPT ![p] = "held"]
  /\ UNCHANGED <<want, cancelled, calls, notify>>

KeysBusy(p) ==
  /\ pc[p] = "scan" /\ want[p] \cap locked # {}
  /\ pc' = [pc EXCEPT ![p] = "wait"]
  /\ UNCHANGED <<want, cancelled, calls, locked, notify>>

(***************************************************************************)
(* The select: when both channels are ready either branch may be chosen.   *)
(***************************************************************************)
GiveUp(p) ==
  /\ pc[p] = "wait" /\ cancelled[p]
  /\ pc' = [pc EXCEPT ![p] = "idle"]
  /\ UNCHANGED <<want, cancelled, calls, locked, notify>>

Notified(p) ==
  /\ pc[p] = "wait" /\ notify = 1
  /\ notify' = 0
  /\ pc' = [pc EXCEPT ![p] = "scan"]
  /\ UNCHANGED <<want, cancelled, calls, locked>>

\* The caller closes the cancel channel while the call is running.
CloseCancel(p) ==
  /\ pc[p] \in {"scan", "wait"} /\ ~cancelled[p]
  /\ cancelled' = [cancelled EXCEPT ![p] = TRUE]
  /\ UNCHANGED <<pc, want, calls, locked, notify>>

\* Mutant of unlock: the token is not offered.
MutantSilentUnlock(p) ==
  /\ pc[p] = "held"
  /\ locked' = locked \ want[p]
  /\ pc' = [pc EXCEPT ![p] = "idle"]
  /\ UNCHANGED <<want, cancelled, calls, notify>>

(***************************************************************************)
(* unlock(): the keys are deleted and a token is offered; an unlock that   *)
(* finds one there already leaves no second one.                           *)
(***************************************************************************)
Unlock(p) ==
  /\ pc[p] = "held"
  /\ locked' = locked \ want[p]
  /\ notify' = 1
  /\ pc' = [pc EXCEPT ![p] = "idle"]
  /\ UNCHANGED <<want, cancelled, calls>>

\* The steps LockKeys takes by itself.
Run(p) == TakeKeys(p) \/ KeysBusy(p) \/ GiveUp(p) \/ Notified(p)

Next == \E p \in Procs : Call(p) \/ Run(p) \/ CloseCancel(p) \/ Unlock(p)

Spec == Init /\ [][Next]_vars

(***************************************************************************)
(* Fairness: the scheduler runs a goroutine that can run.  FairSpec adds   *)
(* that whoever holds keys unlocks them, which only the caller decides.    *)
(***************************************************************************)
SchedSpec == Spec /\ \A p \in Procs : WF_vars(Run(p))
FairSpec  == SchedSpec /\ \A p \in Procs : WF_vars(Unlock(p))

-----------------------------------------------------------------------------
TypeOK ==
  /\ pc \in [Procs -> {"idle", "scan", "wait", "held"}]
  /\ want \in [Procs -> SUBSET Keys]
  /\ cancelled \in [Procs -> BOOLEAN]
  /\ calls \in 0..MaxCalls
  /\ locked \in SUBSET Keys
  /\ notify \in 0..1

Holders == {p \in Procs : pc[p] = "held"}

(***************************************************************************)
(* l.locked is exactly the keys of the calls that returned an unlock not   *)
(* yet called: no unlock frees a key of another holder, none leaks a key.  *)
(***************************************************************************)
LockedIsHeld == locked = UNION {want[p] : p \in Holders}

(***************************************************************************)
(* README of keylock: the goroutines inside the critical section hold      *)
(* pairwise disjoint sets of keys.                                         *)
(***************************************************************************)
Exclusion == \A p, q \in Holders : p # q => want[p] \cap want[q] = {}

(***************************************************************************)
(* No wake-up is lost for good: while a call sleeps there is the token,    *)
(* or a goroutine about to scan, or a holder whose unlock leaves a token.  *)
(* One slot shared by every sleeper is therefore enough not to deadlock.   *)
(***************************************************************************)
NoLostWakeup ==
  (\E p \in Procs : pc[p] = "wait")
    => notify = 1 \/ \E q \in Procs : pc[q] \in {"scan", "held"}

(***************************************************************************)
(* KeyLock is a section lock: entering is the successful scan.             *)
(***************************************************************************)
Lock == INSTANCE SectionLock WITH
          Sections <- SUBSET Keys,
          Compatible <- {ks \in (SUBSET Keys) \X (SUBSET Keys) : ks[1] \cap ks[2] = {}},
          inside <- [p \in Procs |-> IF pc[p] = "held" THEN {want[p]} ELSE {}]

Implements == Lock!Spec

(***************************************************************************)
(* If holders unlock and no goroutine calls for ever, every sleeping call  *)
(* gets its keys or gives up, although a token may wake the wrong sleeper. *)
(***************************************************************************)
EverySleeperReturns == \A p \in Procs : pc[p] = "wait" ~> pc[p] \in {"held", "idle"}

(***************************************************************************)
(* README of keylock: LockKeys blocks until it can take all its keys or is *)
(* cancelled.  So no call sleeps for ever on keys that stay free, however  *)
(* long the holders of other keys keep them.  It does not hold: see README.*)
(***************************************************************************)
NoSleepOnFreeKeys ==
  \A p \in Procs : ~<>[](pc[p] = "wait" /\ want[p] \cap locked = {})
=============================================================================
