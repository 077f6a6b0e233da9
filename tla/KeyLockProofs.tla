---------------------------- MODULE KeyLockProofs ----------------------------
(* Proofs about KeyLock, for any goroutines, keys and number of calls. *)
EXTENDS KeyLock, TLAPS

\* LockedIsHeld, Exclusion and NoLostWakeup are not inductive one by one:
\* a successful scan keeps Exclusion because locked is what the holders hold.
IInv == TypeOK /\ LockedIsHeld /\ Exclusion /\ NoLostWakeup

LEMMA InitIInv == Init => IInv
BY KeyLockAssumption DEF Init, IInv, TypeOK, LockedIsHeld, Exclusion, NoLostWakeup, Holders

LEMMA NextTypeOK == TypeOK /\ [Next]_vars => TypeOK'
<1> SUFFICES ASSUME TypeOK, [Next]_vars PROVE TypeOK'
  OBVIOUS
<1> USE KeyLockAssumption DEF TypeOK
<1>1. ASSUME NEW p \in Procs, Call(p) PROVE TypeOK'
  BY <1>1 DEF Call
<1>2. ASSUME NEW p \in Procs, Run(p) PROVE TypeOK'
  BY <1>2 DEF Run, TakeKeys, KeysBusy, GiveUp, Notified
<1>3. ASSUME NEW p \in Procs, CloseCancel(p) PROVE TypeOK'
  BY <1>3 DEF CloseCancel
<1>4. ASSUME NEW p \in Procs, Unlock(p) PROVE TypeOK'
  BY <1>4 DEF Unlock
<1>5. CASE UNCHANGED vars
  BY <1>5 DEF vars
<1>6. QED
  BY <1>1, <1>2, <1>3, <1>4, <1>5 DEF Next

LEMMA NextIInv == IInv /\ [Next]_vars => IInv'
<1> SUFFICES ASSUME IInv, [Next]_vars PROVE IInv'
  OBVIOUS
<1> USE DEF IInv
<1>0. TypeOK'
  BY NextTypeOK
<1>1. ASSUME NEW p \in Procs, TakeKeys(p)
      PROVE  (LockedIsHeld /\ Exclusion /\ NoLostWakeup)'
  <2>1. Holders' = Holders \cup {p} /\ want' = want
    BY <1>1 DEF TakeKeys, TypeOK, Holders
  <2>2. LockedIsHeld'
    BY <1>1, <2>1 DEF TakeKeys, LockedIsHeld
  <2>3. \A q \in Holders : want[q] \cap want[p] = {}
    BY <1>1 DEF TakeKeys, LockedIsHeld
  <2>4. Exclusion'
    BY <2>1, <2>3 DEF Exclusion
  <2>5. NoLostWakeup'
    BY <1>1 DEF TakeKeys, TypeOK, NoLostWakeup
  <2>6. QED BY <2>2, <2>4, <2>5
<1>2. ASSUME NEW p \in Procs, Unlock(p)
      PROVE  (LockedIsHeld /\ Exclusion /\ NoLostWakeup)'
  <2>1. Holders' = Holders \ {p} /\ want' = want /\ p \in Holders
    BY <1>2 DEF Unlock, TypeOK, Holders
  <2>2. LockedIsHeld'
    BY <1>2, <2>1 DEF Unlock, LockedIsHeld, Exclusion
  <2>3. Exclusion'
    BY <2>1 DEF Exclusion
  <2>4. NoLostWakeup'
    BY <1>2 DEF Unlock, NoLostWakeup
  <2>5. QED BY <2>2, <2>3, <2>4
<1>3. ASSUME NEW p \in Procs, KeysBusy(p)
      PROVE  (LockedIsHeld /\ Exclusion /\ NoLostWakeup)'
  <2>1. Holders' = Holders /\ want' = want /\ locked' = locked
    BY <1>3 DEF KeysBusy, TypeOK, Holders
  <2>2. LockedIsHeld' /\ Exclusion'
    BY <2>1 DEF LockedIsHeld, Exclusion
  <2>3. Holders # {}
    BY <1>3 DEF KeysBusy, LockedIsHeld
  <2>4. NoLostWakeup'
    BY <2>1, <2>3 DEF NoLostWakeup, Holders
  <2>5. QED BY <2>2, <2>4
<1>4. ASSUME NEW p \in Procs, Call(p) \/ GiveUp(p) \/ Notified(p) \/ CloseCancel(p)
      PROVE  (LockedIsHeld /\ Exclusion /\ NoLostWakeup)'
  <2>1. Holders' = Holders /\ p \notin Holders /\ locked' = locked
    BY <1>4 DEF Call, GiveUp, Notified, CloseCancel, TypeOK, Holders
  <2>2. \A q \in Holders : want'[q] = want[q]
    BY <1>4, <2>1 DEF Call, GiveUp, Notified, CloseCancel, TypeOK, Holders
  <2>3. LockedIsHeld' /\ Exclusion'
    BY <2>1, <2>2 DEF LockedIsHeld, Exclusion
  <2>4. NoLostWakeup'
    BY <1>4 DEF Call, GiveUp, Notified, CloseCancel, TypeOK, NoLostWakeup
  <2>5. QED BY <2>3, <2>4
<1>5. CASE UNCHANGED vars
  BY <1>5 DEF vars, TypeOK, LockedIsHeld, Exclusion, NoLostWakeup, Holders
<1>6. QED
  BY <1>0, <1>1, <1>2, <1>3, <1>4, <1>5 DEF Next, Run

(***************************************************************************)
(* In every reachable state l.locked is what the holders hold, holders'    *)
(* keys are disjoint, and a sleeping call has a wake-up on its way.        *)
(***************************************************************************)
THEOREM KeyLockCorrect ==
  Spec => [](TypeOK /\ LockedIsHeld /\ Exclusion /\ NoLostWakeup)
BY InitIInv, NextIInv, PTL DEF Spec, IInv

\* What the refinement mapping of KeyLock says each goroutine is inside.
inside == [p \in Procs |-> IF pc[p] = "held" THEN {want[p]} ELSE {}]

LEMMA InitRefines == Init => Lock!Init
BY DEF Init, Lock!Init

LEMMA StepRefines == IInv /\ IInv' /\ [Next]_vars => [Lock!Next]_inside
<1> SUFFICES ASSUME IInv, IInv', [Next]_vars PROVE [Lock!Next]_inside
  OBVIOUS
<1> USE DEF IInv, TypeOK, inside
<1>1. ASSUME NEW p \in Procs, TakeKeys(p) PROVE Lock!Enter(p, want[p])
  <2>1. \A q \in Procs \ {p} : pc[q] = "held" => want[p] \cap want[q] = {}
    BY <1>1 DEF TakeKeys, LockedIsHeld, Holders
  <2>2. inside[p] = {} /\ inside' = [inside EXCEPT ![p] = {want[p]}]
    BY <1>1 DEF TakeKeys
  <2>3. QED BY <2>1, <2>2 DEF Lock!Enter
<1>2. ASSUME NEW p \in Procs, Unlock(p) PROVE Lock!Leave(p)
  BY <1>2 DEF Unlock, Lock!Leave
<1>3. ASSUME NEW p \in Procs,
             Call(p) \/ KeysBusy(p) \/ GiveUp(p) \/ Notified(p) \/ CloseCancel(p)
      PROVE  inside' = inside
  BY <1>3 DEF Call, KeysBusy, GiveUp, Notified, CloseCancel
<1>4. CASE UNCHANGED vars
  BY <1>4 DEF vars
<1>5. ASSUME NEW p \in Procs, TakeKeys(p) PROVE Lock!Next
  <2>1. want[p] \in SUBSET Keys
    OBVIOUS
  <2>2. Lock!Enter(p, want[p])
    BY <1>1, <1>5
  <2>3. \E s \in SUBSET Keys : Lock!Enter(p, s)
    BY <2>1, <2>2 DEF Lock!Enter
  <2>4. QED BY <2>3 DEF Lock!Next
<1>6. ASSUME NEW p \in Procs, Unlock(p) PROVE Lock!Next
  BY <1>2, <1>6 DEF Lock!Next
<1>7. QED
  BY <1>3, <1>4, <1>5, <1>6 DEF Next, Run

(***************************************************************************)
(* KeyLock implements the section lock: whatever the interleaving, a call  *)
(* returns with its keys only when no call outside holds one of them.      *)
(***************************************************************************)
THEOREM KeyLockImplementsSectionLock == Spec => Implements
<1>1. Spec => []IInv
  BY KeyLockCorrect, PTL DEF IInv
<1>2. QED
  BY <1>1, InitRefines, StepRefines, PTL DEF Spec, Implements, Lock!Spec, inside
=============================================================================
