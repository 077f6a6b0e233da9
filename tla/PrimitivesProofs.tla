--------------------------- MODULE PrimitivesProofs --------------------------
(* Proofs about Batcher, Once, Cond and RateLimit, for any goroutines and numbers. *)
EXTENDS MCPrimitives, FiniteSetsExt, SequenceTheorems, FiniteSetTheorems, WellFoundedInduction, TLAPS

-----------------------------------------------------------------------------
\* Numbers and sequences.

\* A set of naturals that is not empty has a least element.  A proof by induction takes
\* the least number for which what it claims would fail.
LEMMA LeastOf == ASSUME NEW S \in SUBSET Nat, S # {} PROVE Min(S) \in S /\ \A n \in S : Min(S) <= n
<1>1. PICK z \in S : TRUE
  OBVIOUS
<1> DEFINE T == {0..n : n \in {k \in S : k <= z}}
<1>2. IsWellFoundedOn(StrictSubsetOrdering(0..z), SUBSET (0..z))
  <2>1. IsFiniteSet(0..z)
    BY FS_Interval
  <2>2. FiniteSubsetsOf(0..z) = SUBSET (0..z)
    BY <2>1, FS_FiniteSubsetsOfFinite
  <2>3. IsWellFoundedOn(StrictSubsetOrdering(0..z), FiniteSubsetsOf(0..z))
    BY FS_StrictSubsetOrderingWellFounded
  <2>4. QED BY <2>2, <2>3
<1>3. T # {} /\ T \subseteq SUBSET (0..z)
  BY <1>1
<1>4. PICK A \in T : \A B \in T : ~(<<B, A>> \in StrictSubsetOrdering(0..z))
  <2> HIDE DEF T
  <2>1. QED BY <1>2, <1>3, WFMin
<1>5. PICK m \in S : m <= z /\ A = 0..m
  BY <1>4
<1>6. \A n \in S : m <= n
  <2>1. SUFFICES ASSUME NEW n \in S, n < m PROVE FALSE
    BY <1>5
  <2>2. (0..n) \in T /\ n <= z
    BY <1>5, <2>1
  <2>3. (0..n) \in SUBSET (0..z) /\ A \in SUBSET (0..z) /\ 0..n \subseteq A /\ 0..n # A
    BY <1>3, <1>5, <2>1, <2>2
  <2>4. <<0..n, A>> \in StrictSubsetOrdering(0..z)
    BY <2>3 DEF StrictSubsetOrdering
  <2>5. QED BY <1>4, <2>2, <2>4
<1>7. QED BY <1>5, <1>6 DEF Min

\* A function on 1..n is a sequence of length n.
LEMMA FunctionIsSeq == ASSUME NEW S, NEW n \in Nat, NEW f \in [1..n -> S]
                       PROVE  f \in Seq(S) /\ Len(f) = n
<1>1. f \in Seq(S)
  BY SeqDef
<1>2. Len(f) \in Nat /\ 1..Len(f) = 1..n
  BY <1>1, LenProperties
<1>3. QED BY <1>1, <1>2

-----------------------------------------------------------------------------
\* Batcher.

\* The types the proof needs; nothing is numbered higher than the last value stored.
BatchTypes ==
  /\ active \in BOOLEAN /\ leader \in Procs /\ since \in 0..Delta
  /\ stored \in Nat /\ value \in 0..stored
  /\ pc \in [Procs -> {"idle", "called", "joined", "missed", "again", "fetch"} \cup Leading]
  /\ late \in [Procs -> 0..Delta] /\ waitFor \in [Procs -> Procs]
  /\ loaded \in [Procs -> 0..stored] /\ seen \in [Procs -> 0..stored]

Open    == {"lead", "slow", "publish"}
HasRead == {"slow", "publish"}

\* A batch is open from Lead to Publish, and the one that leads it is b's leader.
OneLeader == \A p \in Procs : pc[p] \in Open => active /\ leader = p

(***************************************************************************)
(* What a leader has read is as new as the batcher's value and as all who  *)
(* take part, or may still: a call whose start is in the batch was made    *)
(* before the sleep was over, and the value was read after.                *)
(***************************************************************************)
FreshRead ==
  \A p \in Procs :
    /\ pc[p] \in HasRead => since = Delta /\ loaded[p] >= value
    /\ pc[p] \in HasRead \cup {"closing"} => loaded[p] >= seen[p]
    /\ \A q \in Procs : pc[p] \in HasRead /\ pc[q] = "called" /\ InBatch(q) => loaded[p] >= seen[q]

(***************************************************************************)
(* One that joined waits for a leader that has not closed done, and b.value*)
(* is fresh for it from Publish on, also when a later batch replaces it.   *)
(***************************************************************************)
FreshForJoined ==
  \A q \in Procs :
    /\ pc[q] = "joined" => /\ pc[waitFor[q]] \in Leading
                           /\ pc[waitFor[q]] \in HasRead => loaded[waitFor[q]] >= seen[q]
                           /\ pc[waitFor[q]] = "closing" => value >= seen[q]
    /\ pc[q] = "fetch" => value >= seen[q]

BatchInv == BatchTypes /\ OneLeader /\ (active => pc[leader] \in Open) /\ FreshRead /\ FreshForJoined

LEMMA InitBatchInv == BatcherAssumption /\ Init => BatchInv
<1> SUFFICES ASSUME BatcherAssumption, Init PROVE BatchInv
  OBVIOUS
<1> USE DEF BatcherAssumption, Init
<1>1. active \in BOOLEAN /\ ~active
  OBVIOUS
<1>2. BatchTypes
  BY <1>1 DEF BatchTypes
<1>3. OneLeader /\ FreshRead /\ FreshForJoined
  BY DEF OneLeader, FreshRead, FreshForJoined, Open, HasRead
<1>4. QED BY <1>1, <1>2, <1>3 DEF BatchInv

LEMMA NextBatchInv == BatcherAssumption /\ BatchInv /\ [Next]_vars => BatchInv'
<1> SUFFICES ASSUME BatcherAssumption, BatchInv, [Next]_vars PROVE BatchInv'
  OBVIOUS
<1> USE DEF BatcherAssumption, BatchInv, BatchTypes, OneLeader, FreshRead, FreshForJoined,
            Open, HasRead, Leading, InBatch, batch, load, vars
<1>1. CASE Tick
  BY <1>1 DEF Tick
<1>2. CASE Store
  BY <1>2 DEF Store
<1>3. ASSUME NEW p \in Procs, Call(p) PROVE BatchInv'
  BY <1>3 DEF Call, Goto
<1>4. ASSUME NEW p \in Procs, Retry(p) PROVE BatchInv'
  BY <1>4 DEF Retry, Goto
<1>5. ASSUME NEW p \in Procs, Join(p) PROVE BatchInv'
  BY <1>5 DEF Join, Goto
<1>6. ASSUME NEW p \in Procs, Lead(p) PROVE BatchInv'
  BY <1>6 DEF Lead, Goto
<1>7. ASSUME NEW p \in Procs, SlowLoad(p) PROVE BatchInv'
  BY <1>7 DEF SlowLoad, Goto
<1>8. ASSUME NEW p \in Procs, SlowLoadReturns(p) PROVE BatchInv'
  BY <1>8 DEF SlowLoadReturns, Goto
<1>9. ASSUME NEW p \in Procs, Publish(p) PROVE BatchInv'
  <2>1. active' \in BOOLEAN /\ ~active'
    BY <1>9 DEF Publish
  <2>2. p = leader /\ \A q \in Procs \ {p} : pc[q] \notin Open
    BY <1>9 DEF Publish, Goto
  <2>3. value' = loaded[p] /\ value' >= value /\ since' = 0 /\ pc' = [pc EXCEPT ![p] = "closing"]
        /\ UNCHANGED <<leader, stored, late, waitFor, loaded, seen>>
    BY <1>9 DEF Publish, Goto
  <2>4. BatchTypes'
    BY <2>1, <2>3
  <2>5. OneLeader' /\ FreshRead'
    BY <1>9, <2>2, <2>3 DEF Publish, Goto
  <2>6. FreshForJoined'
    BY <1>9, <2>2, <2>3 DEF Publish, Goto
  <2>7. QED BY <2>1, <2>4, <2>5, <2>6
<1>10. ASSUME NEW p \in Procs, CloseDone(p) PROVE BatchInv'
  BY <1>10 DEF CloseDone, Forget
<1>11. ASSUME NEW p \in Procs, Fetch(p) PROVE BatchInv'
  BY <1>11 DEF Fetch, Goto, Forget
<1>12. CASE UNCHANGED vars
  BY <1>12
<1>13. QED
  BY <1>1, <1>2, <1>3, <1>4, <1>5, <1>6, <1>7, <1>8, <1>9, <1>10, <1>11, <1>12 DEF Next, InLoad

LEMMA FreshIsRight == BatchInv => BatchRight
BY DEF BatchInv, BatchTypes, OneLeader, FreshRead, FreshForJoined, Open, HasRead, BatchRight, NoStaleRead, NoPanic

(***************************************************************************)
(* No Load returns a value older than the last one stored before it was    *)
(* called, and slow.Value is never read by two at once.                    *)
(***************************************************************************)
THEOREM BatcherCorrect == ASSUME BatcherAssumption PROVE Spec => []BatchRight
<1>1. Init => BatchInv
  BY InitBatchInv
<1>2. BatchInv /\ [Next]_vars => BatchInv'
  BY NextBatchInv
<1>3. QED BY <1>1, <1>2, FreshIsRight, PTL DEF Spec

-----------------------------------------------------------------------------
\* Once, with an f that may call Do or not.

(***************************************************************************)
(* The token is put once and never taken out; from then on either exactly  *)
(* one goroutine is in f or about to close done, or done is closed.        *)
(***************************************************************************)
TokenTells ==
  \/ runner = 0 /\ ~done /\ Once!InF = {}
  \/ runner = 1 /\ done /\ Once!InF = {}
  \/ runner = 1 /\ ~done /\ \E p \in Procs : Once!InF = {p}

OnceInv == Once!TypeOK /\ TokenTells /\ Once!NoDoReturnsBeforeF

LEMMA InitOnceInv == Once!Init => OnceInv
<1> SUFFICES ASSUME Once!Init PROVE OnceInv
  OBVIOUS
<1> USE DEF Once!Init
<1>1. Once!TypeOK
  <2>1. done \in BOOLEAN
    OBVIOUS
  <2>2. QED BY <2>1 DEF Once!TypeOK
<1>2. TokenTells
  BY DEF TokenTells, Once!InF, Once!At
<1>3. Once!NoDoReturnsBeforeF
  BY DEF Once!NoDoReturnsBeforeF, Once!At
<1>4. QED BY <1>1, <1>2, <1>3 DEF OnceInv

LEMMA NextOnceTypeOK == Once!TypeOK /\ [Once!Next]_Once!vars => Once!TypeOK'
<1> SUFFICES ASSUME Once!TypeOK, [Once!Next]_Once!vars PROVE Once!TypeOK'
  OBVIOUS
<1> USE DEF Once!TypeOK
<1>1. ASSUME NEW p \in Procs, Once!CloseDone(p) PROVE Once!TypeOK'
  <2>1. done' \in BOOLEAN
    BY <1>1 DEF Once!CloseDone
  <2>2. QED BY <1>1, <2>1 DEF Once!CloseDone, Once!Goto
<1>2. ASSUME NEW p \in Procs, Once!Win(p) PROVE Once!TypeOK'
  <2>1. done' \in BOOLEAN
    BY <1>2 DEF Once!Win
  <2>2. runner' = 1 /\ Once!Goto(p, "do", "f")
    BY <1>2 DEF Once!Win
  <2>3. QED BY <2>1, <2>2 DEF Once!Goto
<1>3. ASSUME NEW p \in Procs,
             Once!Call(p) \/ Once!Lose(p) \/ Once!FReturns(p) \/ Once!FPanics(p) \/ Once!Recover(p) \/ Once!Recurse(p) \/ Once!Released(p)
      PROVE  Once!TypeOK'
  BY <1>3 DEF Once!Call, Once!Lose, Once!FReturns, Once!FPanics, Once!Recover, Once!Recurse, Once!Released, Once!Goto
<1>4. CASE UNCHANGED Once!vars
  BY <1>4 DEF Once!vars
<1>5. QED BY <1>1, <1>2, <1>3, <1>4 DEF Once!Next

LEMMA NextOnceInv == OnceInv /\ [Once!Next]_Once!vars => OnceInv'
<1> SUFFICES ASSUME OnceInv, [Once!Next]_Once!vars PROVE OnceInv'
  OBVIOUS
<1>0. Once!TypeOK'
  BY NextOnceTypeOK DEF OnceInv
<1> USE DEF OnceInv, Once!TypeOK
<1>1. ASSUME NEW p \in Procs, Once!Win(p) PROVE (TokenTells /\ Once!NoDoReturnsBeforeF)'
  <2>1. runner # 1
    BY <1>1 DEF Once!Win
  <2>2. Once!InF = {} /\ ~done
    BY <2>1 DEF TokenTells
  <2>3. Once!InF' = {p}
    BY <1>1, <2>2 DEF Once!Win, Once!Goto, Once!InF, Once!At
  <2>4. Once!NoDoReturnsBeforeF'
    BY <1>1 DEF Once!Win, Once!Goto, Once!NoDoReturnsBeforeF, Once!At
  <2>5. QED BY <1>1, <2>2, <2>3, <2>4 DEF Once!Win, TokenTells
<1>2. ASSUME NEW p \in Procs, Once!CloseDone(p) PROVE (TokenTells /\ Once!NoDoReturnsBeforeF)'
  <2>1. p \in Once!InF
    BY <1>2 DEF Once!CloseDone, Once!Goto, Once!InF, Once!At
  <2>2. runner = 1 /\ Once!InF = {p}
    BY <2>1 DEF TokenTells
  <2>3. Once!InF' = {}
    BY <1>2, <2>2 DEF Once!CloseDone, Once!Goto, Once!InF, Once!At
  <2>4. QED BY <1>2, <2>2, <2>3 DEF Once!CloseDone, TokenTells, Once!NoDoReturnsBeforeF
<1>3. ASSUME NEW p \in Procs, Once!Recover(p) \/ Once!Released(p) PROVE (TokenTells /\ Once!NoDoReturnsBeforeF)'
  <2>1. done
    BY <1>3 DEF Once!Recover, Once!Released, Once!Goto, Once!NoDoReturnsBeforeF, Once!At
  <2>2. Once!InF' = Once!InF
    BY <1>3 DEF Once!Recover, Once!Released, Once!Goto, Once!InF, Once!At
  <2>3. QED BY <1>3, <2>1, <2>2 DEF Once!Recover, Once!Released, TokenTells, Once!NoDoReturnsBeforeF
<1>4. ASSUME NEW p \in Procs, Once!Call(p) \/ Once!Lose(p) \/ Once!FReturns(p) \/ Once!FPanics(p) \/ Once!Recurse(p)
      PROVE  (TokenTells /\ Once!NoDoReturnsBeforeF)'
  <2>1. runner' = runner /\ done' = done
    BY <1>4 DEF Once!Call, Once!Lose, Once!FReturns, Once!FPanics, Once!Recurse
  <2>2. Once!InF' = Once!InF
    BY <1>4 DEF Once!Call, Once!Lose, Once!FReturns, Once!FPanics, Once!Recurse, Once!Goto, Once!InF, Once!At
  <2>3. Once!At({"back", "panicking"})' \subseteq Once!At({"back", "panicking"})
    BY <1>4 DEF Once!Call, Once!Lose, Once!FReturns, Once!FPanics, Once!Recurse, Once!Goto, Once!At
  <2>4. QED BY <2>1, <2>2, <2>3 DEF TokenTells, Once!NoDoReturnsBeforeF
<1>5. CASE UNCHANGED Once!vars
  BY <1>5 DEF Once!vars, TokenTells, Once!NoDoReturnsBeforeF, Once!InF, Once!At
<1>6. QED
  BY <1>0, <1>1, <1>2, <1>3, <1>4, <1>5 DEF Once!Next

\* Cardinality, as Once has it through its own EXTENDS.
LEMMA OnceCardinality == ASSUME NEW S PROVE Once!Cardinality(S) = Cardinality(S)
BY DEF Once!Cardinality, Cardinality, Once!IsFiniteSet, IsFiniteSet

LEMMA TokenCounts == TokenTells => Once!OneCall
<1> SUFFICES ASSUME TokenTells PROVE Once!OneCall
  OBVIOUS
<1>1. CASE Once!InF = {}
  BY <1>1, FS_EmptySet, OnceCardinality DEF TokenTells, Once!OneCall
<1>2. ASSUME NEW p \in Procs, Once!InF = {p} PROVE Once!OneCall
  BY <1>2, FS_Singleton, OnceCardinality DEF TokenTells, Once!OneCall
<1>3. QED BY <1>1, <1>2 DEF TokenTells

(***************************************************************************)
(* f is called at most once, also if it panics, and no Do returns, or      *)
(* panics, before f is over.                                               *)
(***************************************************************************)
THEOREM OnceCorrect == Once!Spec => []OnceRight
<1>1. OnceInv => OnceRight
  BY TokenCounts DEF OnceInv, OnceRight, Once!OnceRight
<1>2. QED BY <1>1, InitOnceInv, NextOnceInv, PTL DEF Once!Spec

-----------------------------------------------------------------------------
\* Cond.

CondTypes ==
  /\ condPc \in [Procs -> {"idle", "holding", "enqueued", "blocked", "relock"}]
  /\ L \in SUBSET Procs /\ waits \in Seq(Procs) /\ closed \in SUBSET Procs
  /\ toClose \in [Procs -> SUBSET Procs]

\* c.L is held by at most one, who is in "holding" or about to release it in Wait.
OneHolds ==
  /\ \A p \in Procs : p \in L <=> condPc[p] \in {"holding", "enqueued"}
  /\ \A p, q \in Procs : p \in L /\ q \in L => p = q

(***************************************************************************)
(* A channel is in one place: in the queue once, with the Signal that took *)
(* it, or closed; it is there while its Wait has not been woken.           *)
(***************************************************************************)
InOnePlace ==
  /\ \A i, j \in 1..Len(waits) : waits[i] = waits[j] => i = j
  /\ \A i \in 1..Len(waits) : /\ condPc[waits[i]] \in {"enqueued", "blocked"}
                              /\ waits[i] \notin closed
                              /\ \A p \in Procs : waits[i] \notin toClose[p]
  /\ \A r \in closed : condPc[r] \in {"enqueued", "blocked"}
  /\ \A p \in Procs : \A r \in toClose[p] :
       /\ condPc[r] \in {"enqueued", "blocked"} /\ r \notin closed
       /\ \A q \in Procs \ {p} : r \notin toClose[q]

CondInv == CondTypes /\ OneHolds /\ InOnePlace

LEMMA InitCondInv == Cond!Init => CondInv
BY DEF Cond!Init, CondInv, CondTypes, OneHolds, InOnePlace

LEMMA NextCondInv == CondInv /\ [Cond!Next]_Cond!vars => CondInv'
<1> SUFFICES ASSUME CondInv, [Cond!Next]_Cond!vars PROVE CondInv'
  OBVIOUS
<1> USE DEF CondInv, CondTypes, OneHolds, InOnePlace
<1>1. ASSUME NEW p \in Procs, Cond!LockL(p) PROVE CondInv'
  BY <1>1 DEF Cond!LockL, Cond!Goto
<1>2. ASSUME NEW p \in Procs, Cond!UnlockL(p) PROVE CondInv'
  BY <1>2 DEF Cond!UnlockL, Cond!Goto
<1>3. ASSUME NEW p \in Procs, Cond!Enqueue(p) PROVE CondInv'
  BY <1>3 DEF Cond!Enqueue, Cond!Goto
<1>4. ASSUME NEW p \in Procs, Cond!ReleaseL(p) PROVE CondInv'
  BY <1>4 DEF Cond!ReleaseL, Cond!Goto
<1>5. ASSUME NEW p \in Procs, Cond!Wake(p) PROVE CondInv'
  BY <1>5 DEF Cond!Wake, Cond!Goto
<1>6. ASSUME NEW p \in Procs, Cond!RelockL(p) PROVE CondInv'
  BY <1>6 DEF Cond!RelockL, Cond!Goto
<1>7. ASSUME NEW p \in Procs, Cond!PopFirst(p) PROVE CondInv'
  BY <1>7 DEF Cond!PopFirst
<1>8. ASSUME NEW p \in Procs, Cond!CloseFirst(p) PROVE CondInv'
  BY <1>8 DEF Cond!CloseFirst
<1>9. ASSUME NEW p \in Procs, Cond!Broadcast(p) PROVE CondInv'
  BY <1>9 DEF Cond!Broadcast, Cond!Range
<1>10. CASE UNCHANGED Cond!vars
  BY <1>10 DEF Cond!vars
<1>11. QED
  BY <1>1, <1>2, <1>3, <1>4, <1>5, <1>6, <1>7, <1>8, <1>9, <1>10 DEF Cond!Next

LEMMA CondStepRefines == CondInv /\ [Cond!Next]_Cond!vars => [Cond!Abstract!Next]_(Cond!Abstract!vars)
<1> SUFFICES ASSUME CondInv, [Cond!Next]_Cond!vars PROVE Cond!Abstract!Next \/ UNCHANGED Cond!Abstract!vars
  OBVIOUS
<1> USE DEF CondInv, CondTypes, OneHolds, InOnePlace
<1> DEFINE free  == L \ {p \in Procs : condPc[p] = "enqueued"}
           woken == Cond!InWait \ Cond!Range(waits)
<1>0. Cond!Range(waits) = {waits[i] : i \in 1..Len(waits)} /\ Cond!Range(waits) \subseteq Cond!InWait
  BY DEF Cond!Range, Cond!InWait
<1>1. ASSUME NEW p \in Procs, Cond!LockL(p) PROVE Cond!Abstract!Acquire(p)
  BY <1>0, <1>1 DEF Cond!LockL, Cond!Goto, Cond!InWait, Cond!Range, Cond!Abstract!Range, Cond!Abstract!Acquire
<1>2. ASSUME NEW p \in Procs, Cond!UnlockL(p) PROVE Cond!Abstract!Release(p)
  BY <1>0, <1>2 DEF Cond!UnlockL, Cond!Goto, Cond!InWait, Cond!Abstract!Release
<1>3. ASSUME NEW p \in Procs, Cond!Enqueue(p) PROVE Cond!Abstract!Wait(p)
  <2>1. Cond!Range(waits') = Cond!Range(waits) \cup {p}
    BY <1>3 DEF Cond!Enqueue, Cond!Range
  <2>2. free = {p} /\ free' = {} /\ woken' = woken
    BY <1>3, <2>1 DEF Cond!Enqueue, Cond!Goto, Cond!InWait
  <2>3. QED BY <1>3, <2>2 DEF Cond!Enqueue, Cond!Abstract!Wait
<1>4. ASSUME NEW p \in Procs, Cond!RelockL(p) PROVE Cond!Abstract!Resume(p)
  BY <1>0, <1>4 DEF Cond!RelockL, Cond!Goto, Cond!InWait, Cond!Abstract!Resume
<1>5. ASSUME NEW p \in Procs, Cond!PopFirst(p) PROVE Cond!Abstract!Signal
  <2>1. Cond!Range(waits) = Cond!Range(waits') \cup {Head(waits)} /\ Head(waits) \notin Cond!Range(waits')
    <3> DEFINE rest == Tail(waits)
    <3>1. /\ waits' = rest /\ Len(waits) >= 1 /\ Head(waits) = waits[1]
          /\ rest \in Seq(Procs) /\ Len(rest) = Len(waits) - 1
          /\ \A i \in 1..Len(rest) : rest[i] = waits[i + 1]
      BY <1>5 DEF Cond!PopFirst
    <3> HIDE DEF rest
    <3>2. Cond!Range(rest) = {rest[i] : i \in 1..Len(rest)}
      <4>1. DOMAIN rest = 1..Len(rest)
        BY <3>1
      <4>2. QED BY <4>1 DEF Cond!Range
    <3>3. \A i \in 1..Len(waits) : i = 1 \/ \E k \in 1..Len(rest) : waits[i] = rest[k]
      <4>1. SUFFICES ASSUME NEW i \in 1..Len(waits), i # 1
                     PROVE  i - 1 \in 1..Len(rest) /\ waits[i] = rest[i - 1]
        OBVIOUS
      <4>2. QED BY <3>1, <4>1
    <3>4. \A k \in 1..Len(rest) : k + 1 \in 1..Len(waits) /\ rest[k] # waits[1]
      BY <3>1
    <3>5. Cond!Range(rest) \subseteq Cond!Range(waits) /\ Head(waits) \notin Cond!Range(rest)
      BY <1>0, <3>1, <3>2, <3>4
    <3>6. Cond!Range(waits) \subseteq Cond!Range(rest) \cup {Head(waits)} /\ Head(waits) \in Cond!Range(waits)
      <4>1. Cond!Range(waits) = {waits[i] : i \in 1..Len(waits)}
        BY <1>0
      <4>2. 1 \in 1..Len(waits)
        BY <3>1
      <4>3. \A i \in 1..Len(waits) : waits[i] = Head(waits) \/ waits[i] \in Cond!Range(rest)
        BY <3>1, <3>2, <3>3
      <4>4. QED BY <3>1, <4>1, <4>2, <4>3
    <3>7. QED BY <3>1, <3>5, <3>6
  <2>2. woken' = woken \cup {Head(waits)} /\ free' = free
    BY <1>0, <1>5, <2>1 DEF Cond!PopFirst, Cond!InWait
  <2>3. QED BY <1>5, <2>2 DEF Cond!PopFirst, Cond!Abstract!Signal
<1>6. ASSUME NEW p \in Procs, Cond!Broadcast(p) PROVE Cond!Abstract!Broadcast
  <2>1. Cond!Range(waits') = {}
    BY <1>6 DEF Cond!Broadcast, Cond!Range
  <2>2. woken' = woken \cup Cond!Range(waits) /\ free' = free
    BY <1>0, <1>6, <2>1 DEF Cond!Broadcast, Cond!InWait
  <2>3. QED BY <1>6, <2>2 DEF Cond!Broadcast, Cond!Range, Cond!Abstract!Range, Cond!Abstract!Broadcast
<1>7. ASSUME NEW p \in Procs, Cond!ReleaseL(p) \/ Cond!Wake(p) \/ Cond!CloseFirst(p) PROVE UNCHANGED Cond!Abstract!vars
  <2>1. waits' = waits /\ Cond!InWait' = Cond!InWait
    BY <1>7 DEF Cond!ReleaseL, Cond!Wake, Cond!CloseFirst, Cond!Goto, Cond!InWait
  <2>2. free' = free
    BY <1>7 DEF Cond!ReleaseL, Cond!Wake, Cond!CloseFirst, Cond!Goto
  <2>3. QED BY <2>1, <2>2 DEF Cond!Abstract!vars
<1>8. CASE UNCHANGED Cond!vars
  BY <1>8 DEF Cond!vars, Cond!InWait, Cond!Abstract!vars
<1>9. QED
  BY <1>1, <1>2, <1>3, <1>4, <1>5, <1>6, <1>7, <1>8 DEF Cond!Next, Cond!Abstract!Next

(***************************************************************************)
(* Cond implements the condition variable whose Wait releases c.L and      *)
(* suspends in one step and whose signals wake the oldest waiter.          *)
(***************************************************************************)
THEOREM CondImplementsCondSpec == Cond!Spec => CondImplements
<1>1. Cond!Init => Cond!Abstract!Init
  BY DEF Cond!Init, Cond!Abstract!Init, Cond!InWait, Cond!Range
<1>2. QED BY <1>1, InitCondInv, NextCondInv, CondStepRefines, PTL DEF Cond!Spec, CondImplements, Cond!CondImplements, Cond!Abstract!Spec

-----------------------------------------------------------------------------
\* RateLimit.

(***************************************************************************)
(* callOClock is the end of the history; the grants before it are over.    *)
(* Grants are recorded oldest first.                                       *)
(***************************************************************************)
EndsWith(dropped) ==
  /\ Len(grants) = dropped + Len(callOClock)
  /\ \A i \in 1..Len(callOClock) : callOClock[i] = grants[dropped + i]
  /\ \A i \in 1..dropped : grants[i] = Interval

OldestFirst == \A i, j \in 1..Len(grants) : i <= j => grants[i] >= grants[j]

RateInv ==
  /\ Rate!TypeOK /\ OldestFirst /\ Rate!NoOversleep
  /\ Len(callOClock) <= MaxCount /\ \E dropped \in Nat : EndsWith(dropped)

LEMMA InitRateInv == Rate!RateLimitAssumption /\ Rate!Init => RateInv
<1> SUFFICES ASSUME Rate!RateLimitAssumption, Rate!Init PROVE RateInv
  OBVIOUS
<1> USE DEF Rate!RateLimitAssumption, Rate!Init
<1>1. Rate!TypeOK
  <2>1. stopped \in BOOLEAN
    OBVIOUS
  <2>2. QED BY <2>1 DEF Rate!TypeOK, Rate!Out
<1>2. EndsWith(0) /\ OldestFirst /\ Rate!NoOversleep
  BY DEF EndsWith, OldestFirst, Rate!NoOversleep
<1>3. QED BY <1>1, <1>2 DEF RateInv

(***************************************************************************)
(* What the loop keeps: the end of callOClock that begins with the first   *)
(* grant that is not over; what it drops is over, as the oldest come first.*)
(***************************************************************************)
LEMMA FreshIs ==
  ASSUME Rate!RateLimitAssumption, RateInv
  PROVE  /\ Rate!Fresh \in Seq(0..Interval) /\ Len(Rate!Fresh) <= MaxCount
         /\ Len(Rate!Fresh) > 0 => Rate!Fresh[1] < Interval
         /\ \E d \in Nat : /\ Len(grants) = d + Len(Rate!Fresh)
                           /\ \A i \in 1..Len(Rate!Fresh) : Rate!Fresh[i] = grants[d + i]
                           /\ \A i \in 1..d : grants[i] = Interval
<1>1. callOClock \in Seq(0..Interval) /\ grants \in Seq(0..Interval) /\ Interval \in Nat /\ MaxCount \in Nat
  BY DEF RateInv, Rate!TypeOK, Rate!RateLimitAssumption
<1>2. PICK m \in 1..Len(callOClock) + 1 :
        /\ Rate!Fresh = SubSeq(callOClock, m, Len(callOClock))
        /\ m <= Len(callOClock) => ~Rate!Expired(callOClock[m])
        /\ \A k \in 1..Len(callOClock) : k < m => Rate!Expired(callOClock[k])
  <2> DEFINE S == {k \in 1..Len(callOClock) + 1 : k <= Len(callOClock) => ~Rate!Expired(callOClock[k])}
  <2>1. Len(callOClock) + 1 \in S /\ S \subseteq Nat
    BY <1>1
  <2>2. Rate!Fresh = SubSeq(callOClock, Rate!Min(S), Len(callOClock))
    BY DEF Rate!Fresh
  <2>3. \A k \in 1..Len(callOClock) + 1 : k \in S <=> (k <= Len(callOClock) => ~Rate!Expired(callOClock[k]))
    OBVIOUS
  <2>4. S \subseteq 1..Len(callOClock) + 1
    OBVIOUS
  <2> HIDE DEF S
  <2>5. Rate!Min(S) \in S /\ \A n \in S : Rate!Min(S) <= n
    BY <2>1, LeastOf DEF Rate!Min, Min
  <2>6. \A k \in 1..Len(callOClock) : k < Rate!Min(S) => Rate!Expired(callOClock[k])
    <3>1. SUFFICES ASSUME NEW k \in 1..Len(callOClock), k < Rate!Min(S), ~Rate!Expired(callOClock[k]) PROVE FALSE
      OBVIOUS
    <3>2. k \in 1..Len(callOClock) + 1 /\ k \in Nat
      BY <1>1
    <3>3. k \in S
      BY <2>3, <3>1, <3>2
    <3>4. Rate!Min(S) <= k /\ Rate!Min(S) \in Nat
      BY <2>1, <2>5, <3>3
    <3>5. QED BY <3>1, <3>2, <3>4
  <2>7. QED BY <2>2, <2>3, <2>4, <2>5, <2>6
<1>3. \A k \in 1..Len(callOClock) : k < m => callOClock[k] = Interval
  BY <1>1, <1>2 DEF Rate!Expired
<1>4. m <= Len(callOClock) => callOClock[m] < Interval
  BY <1>1, <1>2 DEF Rate!Expired
<1>6. /\ Rate!Fresh \in Seq(0..Interval) /\ Len(Rate!Fresh) = Len(callOClock) - m + 1
      /\ \A i \in 1..Len(Rate!Fresh) : Rate!Fresh[i] = callOClock[m + i - 1]
  BY <1>1, <1>2, SMTT(60)
<1>7. PICK dropped \in Nat : EndsWith(dropped)
  BY DEF RateInv
<1> DEFINE d == dropped + m - 1
<1>8. d \in Nat /\ Len(grants) = d + Len(Rate!Fresh)
  BY <1>1, <1>2, <1>6, <1>7 DEF EndsWith
<1>9. \A i \in 1..Len(Rate!Fresh) : Rate!Fresh[i] = grants[d + i]
  <2>1. SUFFICES ASSUME NEW i \in 1..Len(Rate!Fresh) PROVE Rate!Fresh[i] = grants[d + i]
    OBVIOUS
  <2>2. m + i - 1 \in 1..Len(callOClock) /\ Rate!Fresh[i] = callOClock[m + i - 1]
    BY <1>1, <1>6, <2>1
  <2>3. callOClock[m + i - 1] = grants[dropped + (m + i - 1)]
    BY <1>7, <2>2 DEF EndsWith
  <2>4. dropped + (m + i - 1) = d + i
    BY <1>1, <1>6, <2>1
  <2>5. QED BY <2>2, <2>3, <2>4
<1>10. \A i \in 1..d : grants[i] = Interval
  <2>1. SUFFICES ASSUME NEW i \in 1..d, i > dropped PROVE grants[i] = Interval
    BY <1>7 DEF EndsWith
  <2>2. i - dropped \in 1..Len(callOClock) /\ i - dropped < m
    BY <1>1, <1>4, <2>1
  <2>3. callOClock[i - dropped] = grants[dropped + (i - dropped)]
    BY <1>7, <2>2 DEF EndsWith
  <2>4. QED BY <1>3, <2>1, <2>2, <2>3
<1>11. Len(Rate!Fresh) <= MaxCount /\ (Len(Rate!Fresh) > 0 => Rate!Fresh[1] < Interval)
  <2>1. Len(callOClock) <= MaxCount
    BY DEF RateInv
  <2>2. Len(Rate!Fresh) > 0 => m \in 1..Len(callOClock) /\ Rate!Fresh[1] = callOClock[m]
    BY <1>1, <1>6
  <2>3. QED BY <1>1, <1>2, <1>4, <1>6, <2>1, <2>2
<1>12. QED BY <1>6, <1>8, <1>9, <1>10, <1>11

LEMMA NextRateInv == Rate!RateLimitAssumption /\ RateInv /\ [Rate!Next]_Rate!vars => RateInv'
<1> SUFFICES ASSUME Rate!RateLimitAssumption, RateInv, [Rate!Next]_Rate!vars PROVE RateInv'
  OBVIOUS
<1> USE DEF Rate!RateLimitAssumption
<1>1. ASSUME NEW p \in Procs,
             Rate!Call(p) \/ Rate!Cancel(p) \/ Rate!Refuse(p) \/ Rate!TimerFires(p) \/ Rate!CtxDone(p) \/ Rate!StopClosed(p)
      PROVE  RateInv'
  <2>1. UNCHANGED <<callOClock, stopped, grants>>
    BY <1>1 DEF Rate!Call, Rate!Cancel, Rate!Refuse, Rate!TimerFires, Rate!CtxDone, Rate!StopClosed
  <2>2. Rate!TypeOK'
    <3>1. ratePc' \in [Procs -> Rate!Out \cup {"enter", "waiting"}] /\ calls' \in 0..MaxCalls
      BY <1>1 DEF Rate!Call, Rate!Cancel, Rate!Refuse, Rate!TimerFires, Rate!CtxDone, Rate!StopClosed, Rate!Goto, Rate!Out, RateInv, Rate!TypeOK
    <3>2. cancelled' \subseteq Procs /\ timer' \in [Procs -> 0..Interval]
      BY <1>1 DEF Rate!Call, Rate!Cancel, Rate!Refuse, Rate!TimerFires, Rate!CtxDone, Rate!StopClosed, RateInv, Rate!TypeOK
    <3>3. QED BY <2>1, <3>1, <3>2 DEF RateInv, Rate!TypeOK
  <2>3. \A q \in Procs : ratePc'[q] = "waiting" => ratePc[q] = "waiting" /\ timer'[q] = timer[q]
    BY <1>1 DEF Rate!Call, Rate!Cancel, Rate!Refuse, Rate!TimerFires, Rate!CtxDone, Rate!StopClosed, Rate!Goto, Rate!Out, RateInv, Rate!TypeOK
  <2>4. Rate!NoOversleep'
    BY <2>1, <2>3 DEF RateInv, Rate!NoOversleep, Rate!Young
  <2>5. QED BY <2>1, <2>2, <2>4 DEF RateInv, EndsWith, OldestFirst
<1>3. ASSUME NEW p \in Procs, Rate!Grant(p) PROVE RateInv'
  <2>1. PICK d \in Nat : /\ Len(grants) = d + Len(Rate!Fresh)
                         /\ \A i \in 1..Len(Rate!Fresh) : Rate!Fresh[i] = grants[d + i]
                         /\ \A i \in 1..d : grants[i] = Interval
    BY FreshIs
  <2>2. /\ grants \in Seq(0..Interval) /\ Rate!Fresh \in Seq(0..Interval) /\ Len(Rate!Fresh) < MaxCount
        /\ grants' = Append(grants, 0) /\ callOClock' = Append(Rate!Fresh, 0)
        /\ UNCHANGED <<calls, cancelled, timer, stopped>> /\ Rate!Goto(p, "enter", "ok")
    BY <1>3, FreshIs DEF Rate!Grant, RateInv, Rate!TypeOK
  <2> HIDE DEF Rate!Fresh
  <2>3. EndsWith(d)'
    <3>1. Len(callOClock') = Len(Rate!Fresh) + 1 /\ Len(grants') = Len(grants) + 1
      BY <2>2
    <3>2. \A i \in 1..d : grants'[i] = Interval
      BY <2>1, <2>2
    <3>3. ASSUME NEW i \in 1..Len(callOClock') PROVE callOClock'[i] = grants'[d + i]
      <4>1. CASE i \in 1..Len(Rate!Fresh)
        <5>1. d + i \in 1..Len(grants)
          BY <2>1, <2>2, <4>1
        <5>2. callOClock'[i] = Rate!Fresh[i]
          BY <2>2, <4>1
        <5>3. grants'[d + i] = grants[d + i]
          BY <2>2, <5>1
        <5>4. QED BY <2>1, <4>1, <5>2, <5>3
      <4>2. CASE i = Len(Rate!Fresh) + 1
        <5>1. d + i = Len(grants) + 1 /\ grants'[Len(grants) + 1] = 0 /\ callOClock'[i] = 0
          BY <2>1, <2>2, <4>2
        <5>2. QED BY <5>1
      <4>3. Len(Rate!Fresh) \in Nat
        BY <2>2
      <4>4. QED BY <3>1, <4>1, <4>2, <4>3
    <3>4. Len(grants') = d + Len(callOClock')
      BY <2>1, <2>2, <3>1
    <3>5. QED BY <3>2, <3>3, <3>4 DEF EndsWith
  <2>4. OldestFirst'
    BY <2>2, SMTT(30) DEF RateInv, OldestFirst
  <2>5. Rate!NoOversleep'
    <3>1. Rate!Young \subseteq Rate!Young' /\ \A i \in Rate!Young' : (i \in Rate!Young /\ grants'[i] = grants[i]) \/ grants'[i] = 0
      BY <2>2, SMTT(30) DEF Rate!Young
    <3>2. \A q \in Procs : /\ ratePc'[q] = "waiting" => ratePc[q] = "waiting"
                            /\ timer'[q] = timer[q] /\ timer[q] \in 0..Interval
      BY <2>2 DEF Rate!Goto, RateInv, Rate!TypeOK
    <3>3. QED BY <3>1, <3>2 DEF RateInv, Rate!NoOversleep
  <2>6. Rate!TypeOK' /\ Len(callOClock)' <= MaxCount
    BY <2>2 DEF RateInv, Rate!TypeOK, Rate!Goto, Rate!Out
  <2>7. QED BY <2>3, <2>4, <2>5, <2>6 DEF RateInv
<1>4. ASSUME NEW p \in Procs, Rate!Full(p) PROVE RateInv'
  <2>1. PICK d \in Nat : /\ Len(grants) = d + Len(Rate!Fresh)
                         /\ \A i \in 1..Len(Rate!Fresh) : Rate!Fresh[i] = grants[d + i]
                         /\ \A i \in 1..d : grants[i] = Interval
    BY FreshIs
  <2>2. /\ grants \in Seq(0..Interval) /\ Rate!Fresh \in Seq(0..Interval) /\ Len(Rate!Fresh) = MaxCount
        /\ Rate!Fresh[1] < Interval /\ Rate!Fresh[1] \in 0..Interval
        /\ callOClock' = Rate!Fresh /\ timer' = [timer EXCEPT ![p] = Interval - Rate!Fresh[1]]
        /\ UNCHANGED <<calls, cancelled, stopped, grants>> /\ Rate!Goto(p, "enter", "waiting")
    BY <1>4, FreshIs, SMTT(30) DEF Rate!Full, RateInv, Rate!TypeOK
  <2> HIDE DEF Rate!Fresh
  <2>3. EndsWith(d)'
    BY <2>1, <2>2 DEF EndsWith
  <2>4. d + 1 \in Rate!Young /\ \A i \in Rate!Young : grants[i] <= Rate!Fresh[1]
    BY <2>1, <2>2 DEF Rate!Young, RateInv, OldestFirst
  <2>5. Rate!Young' = Rate!Young
    BY <2>2 DEF Rate!Young
  <2>6. Rate!NoOversleep'
    BY <2>2, <2>4, <2>5, SMTT(30) DEF Rate!Goto, RateInv, Rate!TypeOK, Rate!NoOversleep, Rate!Young
  <2>7. Rate!TypeOK' /\ Len(callOClock)' <= MaxCount /\ OldestFirst'
    BY <2>2 DEF RateInv, Rate!TypeOK, Rate!Goto, Rate!Out, OldestFirst
  <2>8. QED BY <2>3, <2>6, <2>7 DEF RateInv
<1>5. CASE Rate!Stop
  <2>1. stopped' \in BOOLEAN
    BY <1>5 DEF Rate!Stop
  <2>2. QED BY <1>5, <2>1 DEF Rate!Stop, RateInv, Rate!TypeOK, EndsWith, OldestFirst, Rate!NoOversleep, Rate!Young
<1>6. CASE Rate!Tick
  <2>1. /\ grants \in Seq(0..Interval) /\ callOClock \in Seq(0..Interval)
        /\ UNCHANGED <<ratePc, calls, cancelled, stopped>>
        /\ timer' = [p \in Procs |-> IF timer[p] > 0 THEN timer[p] - 1 ELSE 0]
    BY <1>6 DEF Rate!Tick, RateInv, Rate!TypeOK
  <2>2. /\ grants' \in Seq(0..Interval) /\ Len(grants') = Len(grants)
        /\ \A i \in 1..Len(grants) : grants'[i] = Rate!Older(grants[i])
    <3>1. grants' = [i \in 1..Len(grants) |-> Rate!Older(grants[i])]
      BY <1>6, <2>1 DEF Rate!Tick
    <3>2. grants' \in [1..Len(grants) -> 0..Interval]
      BY <2>1, <3>1 DEF Rate!Older
    <3>3. Len(grants) \in Nat
      BY <2>1
    <3>4. grants' \in Seq(0..Interval) /\ Len(grants') = Len(grants)
      BY <3>2, <3>3, FunctionIsSeq
    <3>5. QED BY <3>1, <3>4
  <2>3. /\ callOClock' \in Seq(0..Interval) /\ Len(callOClock') = Len(callOClock)
        /\ \A i \in 1..Len(callOClock) : callOClock'[i] = Rate!Older(callOClock[i])
    <3>1. callOClock' = [i \in 1..Len(callOClock) |-> Rate!Older(callOClock[i])]
      BY <1>6, <2>1 DEF Rate!Tick
    <3>2. callOClock' \in [1..Len(callOClock) -> 0..Interval]
      BY <2>1, <3>1 DEF Rate!Older
    <3>3. Len(callOClock) \in Nat
      BY <2>1
    <3>4. callOClock' \in Seq(0..Interval) /\ Len(callOClock') = Len(callOClock)
      BY <3>2, <3>3, FunctionIsSeq
    <3>5. QED BY <3>1, <3>4
  <2>4. PICK d \in Nat : EndsWith(d)
    BY DEF RateInv
  <2>5. EndsWith(d)'
    <3>1. \A i \in 1..Len(callOClock) : d + i \in 1..Len(grants)
      BY <2>1, <2>4 DEF EndsWith
    <3>2. \A i \in 1..Len(callOClock) : callOClock'[i] = grants'[d + i]
      BY <2>2, <2>3, <2>4, <3>1 DEF EndsWith
    <3>3. \A i \in 1..d : i \in 1..Len(grants) /\ grants'[i] = Interval
      BY <2>1, <2>2, <2>4 DEF EndsWith, Rate!Older
    <3>4. QED BY <2>2, <2>3, <2>4, <3>2, <3>3 DEF EndsWith
  <2>6. /\ DOMAIN grants = 1..Len(grants) /\ DOMAIN grants' = 1..Len(grants)
        /\ \A i \in 1..Len(grants) : grants[i] \in 0..Interval
    BY <2>1, <2>2
  <2>10. OldestFirst'
    BY <2>2, <2>6, SMTT(30) DEF RateInv, OldestFirst, Rate!Older
  <2>11. /\ \A i \in Rate!Young' : i \in Rate!Young /\ grants'[i] = grants[i] + 1
         /\ \A i \in Rate!Young : i \in Rate!Young' \/ grants[i] = Interval - 1
    BY <2>2, <2>6, SMTT(30) DEF Rate!Young, Rate!Older
  <2>7. Rate!NoOversleep'
    <3>1. SUFFICES ASSUME NEW p \in Procs, ratePc[p] = "waiting"
                   PROVE  /\ \A i \in Rate!Young' : timer'[p] <= Interval - grants'[i]
                          /\ Rate!Young' = {} => timer'[p] = 0
      BY <2>1 DEF Rate!NoOversleep
    <3>2. timer[p] \in Nat /\ timer'[p] = IF timer[p] > 0 THEN timer[p] - 1 ELSE 0
      BY <2>1 DEF RateInv, Rate!TypeOK
    <3>3. \A i \in Rate!Young : timer[p] <= Interval - grants[i] /\ grants[i] \in Nat
      BY <2>1, <3>1 DEF RateInv, Rate!NoOversleep, Rate!Young
    <3>4. Rate!Young = {} => timer[p] = 0
      BY <3>1 DEF RateInv, Rate!NoOversleep
    <3>5. \A i \in Rate!Young' : timer'[p] <= Interval - grants'[i]
      BY <2>11, <3>2, <3>3 DEF Rate!Young
    <3>6. Rate!Young' = {} => timer'[p] = 0
      BY <2>11, <3>2, <3>3, <3>4
    <3>7. QED BY <3>5, <3>6
  <2>8. Rate!TypeOK' /\ Len(callOClock)' <= MaxCount
    BY <2>1, <2>2, <2>3 DEF RateInv, Rate!TypeOK
  <2>9. QED BY <2>5, <2>7, <2>8, <2>10 DEF RateInv
<1>7. CASE UNCHANGED Rate!vars
  BY <1>7 DEF Rate!vars, RateInv, Rate!TypeOK, EndsWith, OldestFirst, Rate!NoOversleep, Rate!Young
<1>8. QED BY <1>1, <1>3, <1>4, <1>5, <1>6, <1>7 DEF Rate!Next, Rate!Locked, Rate!Select

\* Cardinality, as RateLimit has it through its own EXTENDS.
LEMMA RateCardinality == ASSUME NEW S PROVE Rate!Cardinality(S) = Cardinality(S)
BY DEF Rate!Cardinality, Cardinality, Rate!IsFiniteSet, IsFiniteSet

\* The grants that are not over are at the end of the history, where callOClock has them.
LEMMA GrantsAreCounted == Rate!RateLimitAssumption /\ RateInv => Rate!AtMostMaxCount
<1> SUFFICES ASSUME Rate!RateLimitAssumption, RateInv PROVE Rate!AtMostMaxCount
  OBVIOUS
<1>1. PICK d \in Nat : EndsWith(d)
  BY DEF RateInv
<1> DEFINE window == (d + 1)..Len(grants)
<1>2. /\ grants \in Seq(0..Interval) /\ callOClock \in Seq(0..Interval) /\ Len(callOClock) <= MaxCount
      /\ MaxCount \in Nat /\ Interval \in Nat
  BY DEF RateInv, Rate!TypeOK, Rate!RateLimitAssumption
<1>3. Rate!Young \subseteq window
  BY <1>1, <1>2 DEF Rate!Young, EndsWith
<1>4. IsFiniteSet(window) /\ Cardinality(window) = Len(callOClock)
  <2>1. d + 1 \in Int /\ Len(grants) \in Int /\ Len(grants) = d + Len(callOClock) /\ Len(callOClock) \in Nat
    BY <1>1, <1>2 DEF EndsWith
  <2>2. IsFiniteSet(window) /\ Cardinality(window) = IF d + 1 > Len(grants) THEN 0 ELSE Len(grants) - (d + 1) + 1
    BY <2>1, FS_Interval
  <2>3. QED BY <2>1, <2>2
<1>5. Cardinality(Rate!Young) <= Cardinality(window) /\ Cardinality(Rate!Young) \in Nat
  BY <1>3, <1>4, FS_Subset, FS_CardinalityType
<1>6. QED BY <1>2, <1>4, <1>5, RateCardinality DEF Rate!AtMostMaxCount

(***************************************************************************)
(* In any interval at most maxCount Acquires succeed, and one that has to  *)
(* wait sleeps no longer than until the oldest grant in force is over.     *)
(***************************************************************************)
THEOREM RateLimitCorrect == ASSUME Rate!RateLimitAssumption PROVE Rate!Spec => []RateRight
<1>1. Rate!Init => RateInv
  BY InitRateInv
<1>2. RateInv /\ [Rate!Next]_Rate!vars => RateInv'
  BY NextRateInv
<1>3. RateInv => RateRight
  BY GrantsAreCounted DEF RateInv, RateRight
<1>4. QED BY <1>1, <1>2, <1>3, PTL DEF Rate!Spec
=============================================================================
