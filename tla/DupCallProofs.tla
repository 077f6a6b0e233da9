---------------------------- MODULE DupCallProofs ----------------------------
(* Proofs about DupCall, for any finite set of goroutines and any number of callbacks. *)
EXTENDS DupCall, FiniteSetTheorems, TLAPS

\* The types the proof needs.
Types ==
  /\ running \in BOOLEAN /\ gen \in 0..MaxGens /\ cntWaiters \in Int
  /\ closed \subseteq 0..gen /\ cancelled \subseteq 0..gen
  /\ pc \in [Procs -> {"idle", "joined", "select", "leave", "fetch"}]
  /\ joined \in [Procs -> 0..MaxGens] /\ chan \in [Procs -> 0..MaxGens]

(***************************************************************************)
(* No Do is ahead of the current generation, nor selects on the channel of *)
(* an older one than it joined; who is about to fetch has found a channel  *)
(* closed, which that of a running callback is not.                        *)
(***************************************************************************)
Behind ==
  /\ running => gen \notin closed /\ gen >= 1
  /\ \A p \in Procs : /\ joined[p] <= gen /\ chan[p] <= gen
                      /\ pc[p] = "idle" => joined[p] = 0
                      /\ pc[p] \in {"select", "leave", "fetch"} => joined[p] <= chan[p]
                      /\ pc[p] = "fetch" => chan[p] \in closed

\* The Dos of the callback that runs now, or ran last.
Own == {p \in Procs : joined[p] = gen}

(***************************************************************************)
(* Dos of older callbacks may withdraw from the count of the present one,  *)
(* but none of its own leaves uncounted: until the count has reached zero  *)
(* it is positive and not above their number.                              *)
(***************************************************************************)
CountedBelow ==
  running /\ gen \notin cancelled => 1 <= cntWaiters /\ cntWaiters <= Cardinality(Own)

IInv == Types /\ OneCallback /\ Behind /\ CountedBelow

\* Own is finite, so that a Do which joins or leaves moves its size by one.
LEMMA OwnFinite == IsFiniteSet(Own) /\ Cardinality(Own) \in Nat
<1>1. Own \in SUBSET Procs
  BY DEF Own
<1>2. IsFiniteSet(Own)
  BY <1>1, FS_Subset, DupCallAssumption
<1>3. QED BY <1>2, FS_CardinalityType

LEMMA InitIInv == Init => IInv
<1> SUFFICES ASSUME Init PROVE IInv
  OBVIOUS
<1> USE DupCallAssumption DEF Init
<1>1. Types
  <2>1. running \in BOOLEAN
    OBVIOUS
  <2>2. QED BY <2>1 DEF Types
<1>2. ~running
  OBVIOUS
<1>3. OneCallback /\ CountedBelow
  BY <1>2 DEF OneCallback, CountedBelow
<1>4. Behind
  BY <1>2 DEF Behind
<1>5. QED BY <1>1, <1>3, <1>4 DEF IInv

\* Everything but the count: which generations a step may touch.
LEMMA NextBehind == Types /\ OneCallback /\ Behind /\ [Next]_vars => (Types /\ OneCallback /\ Behind)'
<1> SUFFICES ASSUME Types, OneCallback, Behind, [Next]_vars
             PROVE  (Types /\ OneCallback /\ Behind)'
  OBVIOUS
<1> USE DupCallAssumption DEF Types, OneCallback, Behind
<1>1. ASSUME NEW p \in Procs, Join(p) PROVE (Types /\ OneCallback /\ Behind)'
  BY <1>1 DEF Join, Enters, Goto
<1>2. ASSUME NEW p \in Procs, Start(p) PROVE (Types /\ OneCallback /\ Behind)'
  <2>1. Types'
    BY <1>2 DEF Start, Enters, Goto
  <2>2. OneCallback'
    BY <1>2 DEF Start
  <2>3. Behind'
    BY <1>2 DEF Start, Enters, Goto
  <2>4. QED BY <2>1, <2>2, <2>3
<1>3. ASSUME NEW p \in Procs, ReadDone(p) PROVE (Types /\ OneCallback /\ Behind)'
  BY <1>3 DEF ReadDone, Goto, callVars
<1>4. ASSUME NEW p \in Procs, Select(p) PROVE (Types /\ OneCallback /\ Behind)'
  BY <1>4 DEF Select, Goto, callVars
<1>5. ASSUME NEW p \in Procs, Leave(p) PROVE (Types /\ OneCallback /\ Behind)'
  BY <1>5 DEF Leave, Returns, Goto
<1>6. ASSUME NEW p \in Procs, Fetch(p) PROVE (Types /\ OneCallback /\ Behind)'
  BY <1>6 DEF Fetch, Returns, Goto, callVars
<1>7. ASSUME NEW p \in Procs, CancelCtx(p) PROVE (Types /\ OneCallback /\ Behind)'
  BY <1>7 DEF CancelCtx, callVars
<1>8. ASSUME NEW g \in Gens, CbReturns(g) PROVE (Types /\ OneCallback /\ Behind)'
  BY <1>8 DEF CbReturns, doVars
<1>9. ASSUME NEW g \in Gens, Finish(g) PROVE (Types /\ OneCallback /\ Behind)'
  <2>1. ~running'
    BY <1>9 DEF Finish
  <2>2. OneCallback'
    BY <1>9 DEF Finish
  <2>3. Types'
    <3>1. running' \in BOOLEAN
      BY <1>9 DEF Finish
    <3>2. closed' \subseteq 0..gen'
      BY <1>9 DEF Finish
    <3>3. QED BY <1>9, <3>1, <3>2 DEF Finish, doVars
  <2>4. Behind'
    BY <1>9, <2>1 DEF Finish, doVars
  <2>5. QED BY <2>2, <2>3, <2>4
<1>10. CASE UNCHANGED vars
  BY <1>10 DEF vars, callVars, doVars
<1>11. QED
  BY <1>1, <1>2, <1>3, <1>4, <1>5, <1>6, <1>7, <1>8, <1>9, <1>10 DEF Next, InDo

LEMMA NextCounted == IInv /\ [Next]_vars => CountedBelow'
<1> SUFFICES ASSUME IInv, [Next]_vars PROVE CountedBelow'
  OBVIOUS
<1> USE DupCallAssumption DEF IInv, Types, Behind
<1>0. IsFiniteSet(Own) /\ Cardinality(Own) \in Nat
  BY OwnFinite
<1>1. ASSUME NEW p \in Procs, Join(p) PROVE CountedBelow'
  <2>1. p \notin Own /\ Own' = Own \cup {p}
    BY <1>1 DEF Join, Enters, Goto, Own
  <2>2. Cardinality(Own') = Cardinality(Own) + 1
    BY <1>0, <2>1, FS_AddElement
  <2>3. QED BY <1>0, <1>1, <2>2 DEF Join, CountedBelow
<1>2. ASSUME NEW p \in Procs, Start(p) PROVE CountedBelow'
  <2>1. Own' = {p}
    BY <1>2 DEF Start, Enters, Own
  <2>2. Cardinality(Own') = 1
    BY <2>1, FS_Singleton
  <2>3. QED BY <1>2, <2>2 DEF Start, CountedBelow
<1>3. ASSUME NEW p \in Procs, Leave(p) PROVE CountedBelow'
  <2> SUFFICES ASSUME running, gen \notin cancelled'
               PROVE  1 <= cntWaiters' /\ cntWaiters' <= Cardinality(Own')
    BY <1>3 DEF Leave, CountedBelow
  <2>1. gen \notin cancelled /\ cntWaiters' = cntWaiters - 1 /\ cntWaiters' # 0
    BY <1>3 DEF Leave
  <2>2. 1 <= cntWaiters /\ cntWaiters <= Cardinality(Own)
    BY <2>1 DEF CountedBelow
  <2>3. Own' = Own \ {p}
    BY <1>3 DEF Leave, Returns, Own
  <2>4. Cardinality(Own') = IF p \in Own THEN Cardinality(Own) - 1 ELSE Cardinality(Own)
    BY <1>0, <2>3, FS_RemoveElement
  <2>5. QED BY <1>0, <2>1, <2>2, <2>4
<1>4. ASSUME NEW p \in Procs, Fetch(p) PROVE CountedBelow'
  <2>1. running => Own' = Own
    BY <1>4 DEF Fetch, Returns, Goto, callVars, Own
  <2>2. QED BY <1>4, <2>1 DEF Fetch, callVars, CountedBelow
<1>5. ASSUME NEW p \in Procs, ReadDone(p) \/ Select(p) \/ CancelCtx(p) PROVE CountedBelow'
  <2>1. running' = running /\ gen' = gen /\ cntWaiters' = cntWaiters /\ cancelled' = cancelled
    BY <1>5 DEF ReadDone, Select, CancelCtx, callVars
  <2>2. Own' = Own
    BY <1>5, <2>1 DEF ReadDone, Select, CancelCtx, Own
  <2>3. QED BY <2>1, <2>2 DEF CountedBelow
<1>6. ASSUME NEW g \in Gens, CbReturns(g) \/ Finish(g) PROVE CountedBelow'
  <2>1. gen' = gen /\ cntWaiters' = cntWaiters /\ cancelled' = cancelled /\ (running' => running)
    BY <1>6 DEF CbReturns, Finish
  <2>2. Own' = Own
    BY <1>6, <2>1 DEF CbReturns, Finish, doVars, Own
  <2>3. QED BY <2>1, <2>2 DEF CountedBelow
<1>7. CASE UNCHANGED vars
  BY <1>7 DEF vars, callVars, doVars, Own, CountedBelow
<1>8. QED
  BY <1>1, <1>2, <1>3, <1>4, <1>5, <1>6, <1>7 DEF Next, InDo

LEMMA NextIInv == IInv /\ [Next]_vars => IInv'
BY NextBehind, NextCounted DEF IInv

\* A running callback that was not cancelled is waited for by a Do that joined it.
LEMMA CountedIsWaited == IInv => AbandonedIsCancelled
<1> SUFFICES ASSUME IInv, running, \A p \in Procs : joined[p] # gen PROVE gen \in cancelled
  BY DEF AbandonedIsCancelled
<1>1. Own = {}
  BY DEF Own
<1>2. Cardinality(Own) = 0
  BY <1>1, FS_EmptySet
<1>3. QED BY <1>2 DEF IInv, Types, CountedBelow

(***************************************************************************)
(* In every reachable state at most one callback executes, the current     *)
(* one, and if all the Dos that joined it have gone it is cancelled.       *)
(***************************************************************************)
THEOREM DupCallCorrect == Spec => []OneCallbackForSomebody
<1>1. IInv => OneCallbackForSomebody
  BY CountedIsWaited DEF IInv, OneCallbackForSomebody
<1>2. QED BY <1>1, InitIInv, NextIInv, PTL DEF Spec
(***************************************************************************)
(* o.res is never older than a generation whose channel is closed: Finish  *)
(* stores the one and closes the other in the same section, and            *)
(* generations finish in turn.                                             *)
(***************************************************************************)
ClosedIsOver == res \in 0..gen /\ \A g \in closed : g <= res

LEMMA NextClosedIsOver == Types /\ ClosedIsOver /\ [Next]_vars => ClosedIsOver'
<1> SUFFICES ASSUME Types, ClosedIsOver, [Next]_vars PROVE ClosedIsOver'
  OBVIOUS
<1> USE DupCallAssumption DEF Types, ClosedIsOver
<1>0. ASSUME NEW p \in Procs, Join(p) PROVE ClosedIsOver'
  BY <1>0 DEF Join
<1>1. ASSUME NEW p \in Procs, Start(p) PROVE ClosedIsOver'
  BY <1>1 DEF Start
<1>2. ASSUME NEW p \in Procs, InDo(p) \/ CancelCtx(p) PROVE ClosedIsOver'
  BY <1>2 DEF InDo, ReadDone, Select, Leave, Fetch, CancelCtx, callVars
<1>3. ASSUME NEW g \in Gens, CbReturns(g) PROVE ClosedIsOver'
  BY <1>3 DEF CbReturns
<1>4. ASSUME NEW g \in Gens, Finish(g) PROVE ClosedIsOver'
  BY <1>4 DEF Finish
<1>5. CASE UNCHANGED vars
  BY <1>5 DEF vars, callVars
<1>6. QED BY <1>0, <1>1, <1>2, <1>3, <1>4, <1>5 DEF Next

(***************************************************************************)
(* A Do that returns o.res selected on the channel of its own generation   *)
(* or of a later one (Behind), found it closed, and so finds a result that *)
(* is not older than the callback it started or joined.                    *)
(***************************************************************************)
THEOREM DupCallNoOlderResult == Spec => NoOlderResult
<1>1. Init => ClosedIsOver
  BY DupCallAssumption DEF Init, ClosedIsOver
<1>2. IInv /\ ClosedIsOver /\ [Next]_vars => (IInv /\ ClosedIsOver)'
  BY NextIInv, NextClosedIsOver DEF IInv
<1>3. ASSUME IInv, ClosedIsOver, NEW p \in Procs, Fetch(p) PROVE res >= joined[p]
  <2>1. chan[p] \in closed /\ joined[p] <= chan[p]
    BY <1>3 DEF Fetch, Returns, Goto, IInv, Behind
  <2>2. chan[p] <= res /\ joined[p] \in Int /\ chan[p] \in Int /\ res \in Int
    BY <1>3, <2>1 DEF ClosedIsOver, IInv, Types
  <2>3. QED BY <2>1, <2>2
<1>4. IInv /\ ClosedIsOver => [\A p \in Procs : Fetch(p) => res >= joined[p]]_vars
  BY <1>3
<1>5. QED BY <1>1, <1>2, <1>4, InitIInv, PTL DEF Spec, NoOlderResult
=============================================================================
