---------------------------- MODULE ChannelsProofs ---------------------------
(* Proofs about RWMutex, WaitGroup and TestServer, for any finite sets of goroutines. *)
EXTENDS MCChannels, FiniteSetTheorems, TLAPS

-----------------------------------------------------------------------------
\* RWMutex.

(***************************************************************************)
(* Between a reader's receive of semR and the rest of its call the count   *)
(* tells it what to do next: a process at "first" is the only one counted, *)
(* one at "last" left the count at zero.  SemWHeld is not inductive        *)
(* without this.                                                           *)
(***************************************************************************)
Midway ==
  /\ At({"first"}) # {} => Counted = At({"first"})
  /\ At({"last"}) # {} => Counted = {}
  /\ Counted = {} => Readers = At({"last"})

RWInv == TypeOK /\ SemRHeld /\ CountIsReaders /\ SemWHeld /\ Midway

USE RWMutexAssumption

LEMMA InitRWInv == Init => RWInv
<1> SUFFICES ASSUME Init PROVE RWInv
  OBVIOUS
<1>1. InSemR = {} /\ Counted = {} /\ Readers = {} /\ Writers = {} /\ At({"last"}) = {}
      /\ At({"first"}) = {}
  BY DEF Init, InSemR, Counted, Readers, Writers, At
<1>2. CountIsReaders
  BY <1>1, FS_EmptySet DEF Init, CountIsReaders
<1>3. QED
  BY <1>1, <1>2 DEF Init, RWInv, TypeOK, SemRHeld, SemWHeld, Midway

\* Counted is finite: adding or removing a process moves its size by one.
LEMMA CountedFinite == IsFiniteSet(Counted) /\ IsFiniteSet(Counted')
<1>1. Counted \in SUBSET Procs /\ Counted' \in SUBSET Procs
  BY DEF Counted, At
<1>2. QED BY <1>1, FS_Subset

LEMMA NextRWInv == RWInv /\ [Next]_vars => RWInv'
<1> SUFFICES ASSUME RWInv, [Next]_vars PROVE RWInv'
  OBVIOUS
<1> USE DEF RWInv
<1>1. ASSUME NEW p \in Procs, CountReader(p) PROVE RWInv'
  <2>1. /\ InSemR' = InSemR \cup {p} /\ InSemR = {}
        /\ Counted' = Counted \cup {p} /\ p \notin Counted
        /\ Writers' = Writers
        /\ At({"first"}) = {} /\ At({"last"}) = {} /\ At({"last"})' = {}
    BY <1>1 DEF CountReader, Goto, TypeOK, SemRHeld, InSemR, Counted, Writers, At
  <2>2. Cardinality(Counted') = Cardinality(Counted) + 1
    BY <2>1, CountedFinite, FS_AddElement
  <2>3. TypeOK' /\ SemRHeld' /\ CountIsReaders'
    BY <1>1, <2>1, <2>2 DEF CountReader, Goto, TypeOK, SemRHeld, CountIsReaders
  <2>4. cntReaders = 0 <=> Counted = {}
    BY CountedFinite, FS_EmptySet DEF CountIsReaders
  <2>5. CASE cntReaders' = 1
    <3>1. Readers' = Readers /\ At({"first"})' = {p}
      BY <1>1, <2>1, <2>5 DEF CountReader, Goto, TypeOK, Readers, At
    <3>2. Counted = {}
      BY <1>1, <2>4, <2>5 DEF CountReader, TypeOK
    <3>3. QED
      BY <1>1, <2>1, <2>3, <3>1, <3>2 DEF CountReader, SemWHeld, Midway
  <2>6. CASE cntReaders' # 1
    <3>1. Readers' = Readers \cup {p} /\ At({"first"})' = {} /\ Counted # {}
      BY <1>1, <2>1, <2>4, <2>6 DEF CountReader, Goto, TypeOK, Readers, At
    <3>2. Readers # {}
      BY <2>1, <3>1 DEF InSemR, Counted, Readers, At
    <3>3. QED
      BY <1>1, <2>1, <2>3, <3>1, <3>2 DEF CountReader, SemWHeld, Midway
  <2>7. QED BY <2>5, <2>6
<1>2. ASSUME NEW p \in Procs, FirstTakesW(p) PROVE RWInv'
  <2>1. /\ InSemR' = InSemR /\ Counted' = Counted /\ Writers' = Writers
        /\ Readers' = Readers \cup {p} /\ At({"first"})' \subseteq At({"first"})
        /\ At({"last"})' = At({"last"}) /\ p \in At({"first"}) \cap InSemR
        /\ p \notin At({"first"})'
    BY <1>2 DEF FirstTakesW, Goto, TypeOK, InSemR, Counted, Readers, Writers, At
  <2>2. At({"first"})' = {}
    BY <2>1 DEF SemRHeld, InSemR, At
  <2>3. TypeOK' /\ SemRHeld' /\ CountIsReaders'
    BY <1>2, <2>1 DEF FirstTakesW, Goto, TypeOK, SemRHeld, CountIsReaders
  <2>4. QED
    BY <1>2, <2>1, <2>2, <2>3 DEF FirstTakesW, SemWHeld, Midway
<1>3. ASSUME NEW p \in Procs, UncountReader(p) PROVE RWInv'
  <2>1. /\ InSemR' = InSemR \cup {p} /\ InSemR = {}
        /\ Counted' = Counted \ {p} /\ p \in Counted
        /\ p \in Readers /\ Writers' = Writers
        /\ At({"first"}) = {} /\ At({"last"}) = {} /\ At({"first"})' = {}
    BY <1>3 DEF UncountReader, Goto, TypeOK, SemRHeld, InSemR, Counted, Readers, Writers, At
  <2>2. Cardinality(Counted') = Cardinality(Counted) - 1
    BY <2>1, CountedFinite, FS_RemoveElement
  <2>3. TypeOK' /\ SemRHeld' /\ CountIsReaders'
    BY <1>3, <2>1, <2>2 DEF UncountReader, Goto, TypeOK, SemRHeld, CountIsReaders
  <2>4. cntReaders' = 0 <=> Counted' = {}
    BY <2>3, CountedFinite, FS_EmptySet DEF CountIsReaders
  <2>5. CASE cntReaders' = 0
    <3>1. Readers' = Readers /\ At({"last"})' = {p}
      BY <1>3, <2>1, <2>5 DEF UncountReader, Goto, TypeOK, Readers, At
    <3>2. Readers' \subseteq {p}
      BY <2>1, <2>4, <2>5, <3>1 DEF InSemR, Counted, Readers, At
    <3>3. QED
      BY <1>3, <2>1, <2>3, <2>4, <2>5, <3>1, <3>2 DEF UncountReader, SemWHeld, Midway
  <2>6. CASE cntReaders' # 0
    <3>1. Readers' = Readers \ {p} /\ At({"last"})' = {}
      BY <1>3, <2>1, <2>6 DEF UncountReader, Goto, TypeOK, Readers, At
    <3>2. Readers' # {} /\ Counted' # {}
      BY <2>1, <2>4, <2>6, <3>1 DEF InSemR, Counted, Readers, At
    <3>3. QED
      BY <1>3, <2>1, <2>3, <3>1, <3>2 DEF UncountReader, SemWHeld, Midway
  <2>7. QED BY <2>5, <2>6
<1>4. ASSUME NEW p \in Procs, LastGivesW(p) PROVE RWInv'
  <2>1. /\ InSemR' = InSemR /\ Counted' = Counted /\ Writers' = Writers
        /\ Readers' = Readers \ {p} /\ p \in At({"last"}) \cap InSemR
        /\ At({"first"})' = At({"first"}) /\ At({"last"})' = At({"last"}) \ {p}
    BY <1>4 DEF LastGivesW, Goto, TypeOK, InSemR, Counted, Readers, Writers, At
  <2>2. At({"last"}) = {p} /\ At({"first"}) = {}
    BY <2>1 DEF SemRHeld, InSemR, At
  <2>3. TypeOK' /\ SemRHeld' /\ CountIsReaders'
    BY <1>4, <2>1 DEF LastGivesW, Goto, TypeOK, SemRHeld, CountIsReaders
  <2>4. Readers' = {} /\ Writers = {}
    BY <2>1, <2>2 DEF Midway, SemWHeld
  <2>5. QED
    BY <1>4, <2>1, <2>2, <2>3, <2>4 DEF LastGivesW, SemWHeld, Midway
<1>5. ASSUME NEW p \in Procs, GiveSemR(p) PROVE RWInv'
  <2>1. /\ InSemR' = InSemR \ {p} /\ p \in InSemR /\ Counted' = Counted
        /\ Writers' = Writers /\ Readers' = Readers
        /\ At({"first"})' = At({"first"}) /\ At({"last"})' = At({"last"})
    BY <1>5 DEF GiveSemR, Goto, TypeOK, InSemR, Counted, Readers, Writers, At
  <2>2. InSemR' = {}
    BY <2>1 DEF SemRHeld
  <2>3. QED
    BY <1>5, <2>1, <2>2
       DEF GiveSemR, Goto, TypeOK, SemRHeld, CountIsReaders, SemWHeld, Midway
<1>6. ASSUME NEW p \in Procs, Lock(p) PROVE RWInv'
  <2>1. /\ InSemR' = InSemR /\ Counted' = Counted
        /\ Writers' = Writers \cup {p} /\ Readers' = Readers
        /\ At({"first"})' = At({"first"}) /\ At({"last"})' = At({"last"})
    BY <1>6 DEF Lock, Goto, TypeOK, InSemR, Counted, Readers, Writers, At
  <2>2. QED
    BY <1>6, <2>1
       DEF Lock, Goto, TypeOK, SemRHeld, CountIsReaders, SemWHeld, Midway
<1>7. ASSUME NEW p \in Procs, Unlock(p) PROVE RWInv'
  <2>1. /\ InSemR' = InSemR /\ Counted' = Counted
        /\ Writers' = Writers \ {p} /\ p \in Writers /\ Readers' = Readers
        /\ At({"first"})' = At({"first"}) /\ At({"last"})' = At({"last"})
    BY <1>7 DEF Unlock, Goto, TypeOK, InSemR, Counted, Readers, Writers, At
  <2>2. QED
    BY <1>7, <2>1
       DEF Unlock, Goto, TypeOK, SemRHeld, CountIsReaders, SemWHeld, Midway
<1>8. ASSUME NEW p \in Procs, Call(p) PROVE RWInv'
  <2>1. /\ InSemR' = InSemR /\ Counted' = Counted
        /\ Writers' = Writers /\ Readers' = Readers
        /\ At({"first"})' = At({"first"}) /\ At({"last"})' = At({"last"})
    BY <1>8 DEF Call, Goto, TypeOK, InSemR, Counted, Readers, Writers, At
  <2>2. QED
    BY <1>8, <2>1
       DEF Call, Goto, TypeOK, SemRHeld, CountIsReaders, SemWHeld, Midway
<1>9. CASE UNCHANGED vars
  BY <1>9 DEF vars, TypeOK, SemRHeld, CountIsReaders, SemWHeld, Midway,
              InSemR, Counted, Readers, Writers, At
<1>10. QED
  BY <1>1, <1>2, <1>3, <1>4, <1>5, <1>6, <1>7, <1>8, <1>9 DEF Next, Receive, Send

(***************************************************************************)
(* The two tokens and the count mean what they should in every reachable   *)
(* state; in particular a writer is alone and no token is ever lost.       *)
(***************************************************************************)
THEOREM RWMutexCorrect ==
  Spec => [](TypeOK /\ TokensTellTheTruth)
BY InitRWInv, NextRWInv, PTL DEF Spec, RWInv, TokensTellTheTruth

\* The section each process is in under the refinement mapping of RWMutex.
inside == [p \in Procs |-> IF pc[p] = "reading" THEN {"read"}
                           ELSE IF pc[p] = "writing" THEN {"write"} ELSE {}]

LEMMA RWInitRefines == Init => Sections!Init
BY DEF Init, Sections!Init

LEMMA RWStepRefines == RWInv /\ RWInv' /\ [Next]_vars => [Sections!Next]_inside
<1> SUFFICES ASSUME RWInv, RWInv', [Next]_vars PROVE [Sections!Next]_inside
  OBVIOUS
<1> USE DEF RWInv, TypeOK, inside, Goto
<1>1. ASSUME NEW p \in Procs, GiveSemR(p), pc[p] = "entered" PROVE Sections!Next
  <2>1. p \in Readers
    BY <1>1 DEF Readers, At
  <2>2. \A q \in Procs : pc[q] # "writing"
    BY <2>1 DEF SemWHeld, Writers, At
  <2>3. \E s \in {"read", "write"} : Sections!Enter(p, s)
    BY <1>1, <2>2 DEF GiveSemR, Sections!Enter
  <2>4. QED BY <2>3 DEF Sections!Next
<1>2. ASSUME NEW p \in Procs, Lock(p) PROVE Sections!Next
  <2>1. Readers = {} /\ Writers = {}
    BY <1>2 DEF Lock, SemWHeld
  <2>2. \A q \in Procs : pc[q] \notin {"reading", "writing"}
    BY <2>1 DEF Readers, Writers, At
  <2>3. \E s \in {"read", "write"} : Sections!Enter(p, s)
    BY <1>2, <2>2 DEF Lock, Sections!Enter
  <2>4. QED BY <2>3 DEF Sections!Next
<1>3. ASSUME NEW p \in Procs, Unlock(p) \/ (Call(p) /\ pc[p] = "reading")
      PROVE  Sections!Next
  <2>1. Sections!Leave(p)
    BY <1>3 DEF Unlock, Call, Sections!Leave
  <2>2. QED BY <2>1 DEF Sections!Next
<1>4. ASSUME NEW p \in Procs,
             \/ CountReader(p) \/ FirstTakesW(p) \/ UncountReader(p) \/ LastGivesW(p)
             \/ GiveSemR(p) /\ pc[p] # "entered"
             \/ Call(p) /\ pc[p] # "reading"
      PROVE  inside' = inside
  <2>1. PICK to \in {"idle", "rlock", "first", "entered", "runlock", "last", "left", "lock"} :
          /\ pc[p] \notin {"reading", "writing"}
          /\ pc' = [pc EXCEPT ![p] = to]
    BY <1>4 DEF CountReader, FirstTakesW, UncountReader, LastGivesW, GiveSemR, Call
  <2>2. QED BY <2>1
<1>5. CASE UNCHANGED vars
  BY <1>5 DEF vars
<1>6. QED
  BY <1>1, <1>2, <1>3, <1>4, <1>5 DEF Next, Receive, Send

(***************************************************************************)
(* RWMutex implements the section lock whose only compatible sections are  *)
(* two reads: a writer returns from Lock only when nobody is inside, a     *)
(* reader from RLock only when no writer is.                               *)
(***************************************************************************)
THEOREM RWMutexImplementsSectionLock == Spec => Implements
<1>1. Spec => []RWInv
  BY InitRWInv, NextRWInv, PTL DEF Spec
<1>2. QED
  BY <1>1, RWInitRefines, RWStepRefines, PTL DEF Spec, Implements, Sections!Spec, inside

-----------------------------------------------------------------------------
\* WaitGroup, for callers who never Add zero.

(***************************************************************************)
(* A mark for each unit of f in S, as Units has them for the Adds pending. *)
(***************************************************************************)
Marks(f, S) == UNION {{q} \X (1..f[q]) : q \in S}

LEMMA MarksFinite == ASSUME NEW S, IsFiniteSet(S), NEW f, \A q \in S : f[q] \in Int
                     PROVE  IsFiniteSet(Marks(f, S)) /\ Cardinality(Marks(f, S)) \in Nat
<1> DEFINE row == [q \in S |-> {q} \X (1..f[q])]
           rows == {{q} \X (1..f[q]) : q \in S}
<1>1. IsFiniteSet(rows)
  <2>1. row \in Surjection(S, rows)
    BY DEF Surjection
  <2>2. QED BY <2>1, FS_Surjection
<1>2. ASSUME NEW T \in rows PROVE IsFiniteSet(T)
  <2>1. PICK q \in S : T = {q} \X (1..f[q])
    OBVIOUS
  <2>2. IsFiniteSet({q}) /\ IsFiniteSet(1..f[q])
    <3>1. f[q] \in Int
      OBVIOUS
    <3>2. IsFiniteSet(1..f[q])
      BY <3>1, FS_Interval
    <3>3. QED BY <3>2, FS_Singleton
  <2>3. QED BY <2>1, <2>2, FS_Product
<1>3. IsFiniteSet(UNION rows)
  BY <1>1, <1>2, FS_UNION
<1>4. QED BY <1>3, FS_CardinalityType DEF Marks

\* One more process adds what it has, when that is positive.
LEMMA MarksAdd ==
  ASSUME NEW S, IsFiniteSet(S), NEW p, p \notin S, NEW f, \A q \in S \cup {p} : f[q] \in Int
  PROVE  Cardinality(Marks(f, S \cup {p})) = Cardinality(Marks(f, S)) + (IF f[p] > 0 THEN f[p] ELSE 0)
<1> DEFINE mine == {p} \X (1..f[p])
<1>1. Marks(f, S \cup {p}) = Marks(f, S) \cup mine
  BY DEF Marks
<1>2. Marks(f, S) \cap mine = {}
  BY DEF Marks
<1>3. IsFiniteSet({p}) /\ Cardinality({p}) = 1
  BY FS_Singleton
<1>4. IsFiniteSet(1..f[p]) /\ Cardinality(1..f[p]) = IF f[p] > 0 THEN f[p] ELSE 0
  BY FS_Interval
<1>5. IsFiniteSet(mine) /\ Cardinality(mine) = 1 * Cardinality(1..f[p])
  BY <1>3, <1>4, FS_Product
<1>6. IsFiniteSet(Marks(f, S)) /\ Cardinality(Marks(f, S)) \in Nat
  BY MarksFinite
<1>7. Cardinality(Marks(f, S) \cup mine) = Cardinality(Marks(f, S)) + Cardinality(mine) - Cardinality({})
  BY <1>2, <1>5, <1>6, FS_Union
<1>8. Cardinality(mine) = IF f[p] > 0 THEN f[p] ELSE 0
  BY <1>4, <1>5
<1>9. Cardinality({}) = 0
  BY FS_EmptySet
<1>10. f[p] \in Int
  OBVIOUS
<1> HIDE DEF mine
<1>11. Cardinality(Marks(f, S) \cup mine) = Cardinality(Marks(f, S)) + (IF f[p] > 0 THEN f[p] ELSE 0)
  BY <1>6, <1>7, <1>8, <1>9, <1>10
<1>12. QED BY <1>1, <1>11

\* Equal functions make equal marks.
LEMMA MarksEqual == ASSUME NEW S, NEW f, NEW g, \A q \in S : f[q] = g[q] PROVE Marks(f, S) = Marks(g, S)
BY DEF Marks

-----------------------------------------------------------------------------
InLock == Group!At({"take", "give", "unlock"})
minus  == [q \in Procs |-> -delta[q]]

(***************************************************************************)
(* lock's token is out while one Add is between its first and its last     *)
(* step; one about to take done's token made the counter positive, one     *)
(* about to give it made it zero.  The counter covers every Done pending.  *)
(***************************************************************************)
GroupTypes ==
  /\ groupPc \in [Procs -> {"idle", "add", "take", "give", "unlock", "wait", "passed"}]
  /\ delta \in [Procs -> Deltas \cup {0}]
  /\ lock \in 0..1 /\ zero \in 0..1 /\ cnt \in Nat

LockHeld ==
  /\ \A p, q \in InLock : p = q
  /\ lock = 0 <=> InLock # {}
  /\ Group!At({"take"}) # {} => cnt > 0
  /\ Group!At({"give"}) # {} => cnt = 0

\* DoneTellsZero, in the words of this module.
OneToken ==
  LET tokens == zero + Cardinality(Group!At({"passed"})) IN
  /\ tokens \in 0..1
  /\ tokens = 1 <=> (cnt = 0 /\ Group!At({"give"}) = {}) \/ Group!At({"take"}) # {}

\* An Add that is called has an argument.
PendingAddsSomething == \A p \in Group!Pending : delta[p] \in Deltas

GroupInv == GroupTypes /\ LockHeld /\ PendingAddsSomething /\ cnt >= Group!Down /\ OneToken

\* The arguments of Add are integers.
LEMMA DeltasAreInts == \A d \in Deltas : d \in Int
BY ChannelsAssumption DEF Group!WaitGroupAssumption

\* Cardinality, as WaitGroup has it through its own EXTENDS.
LEMMA GroupCardinality == ASSUME NEW S PROVE Group!Cardinality(S) = Cardinality(S)
BY DEF Group!Cardinality, Cardinality, Group!IsFiniteSet, IsFiniteSet

LEMMA DownIs == Group!Down = Cardinality(Marks(minus, Group!Pending))
BY GroupCardinality DEF Group!Down, Group!Units, Marks, minus

LEMMA PendingFinite == IsFiniteSet(Group!Pending) /\ IsFiniteSet(Group!At({"passed"}))
<1>1. Group!Pending \in SUBSET Procs /\ Group!At({"passed"}) \in SUBSET Procs
  BY DEF Group!Pending, Group!At
<1>2. QED BY <1>1, FS_Subset

LEMMA DeltaIsInt == GroupTypes => \A q \in Procs : delta[q] \in Int /\ minus[q] = -delta[q] /\ minus[q] \in Int
<1> SUFFICES ASSUME GroupTypes, NEW q \in Procs
             PROVE  delta[q] \in Int /\ minus[q] = -delta[q] /\ minus[q] \in Int
  OBVIOUS
<1>1. delta[q] \in Deltas \cup {0}
  BY DEF GroupTypes
<1>2. delta[q] \in Int
  <2>1. ASSUME NEW d \in Deltas \cup {0} PROVE d \in Int
    BY DeltasAreInts
  <2>2. QED BY <1>1, <2>1
<1>3. minus[q] = -delta[q]
  BY DEF minus
<1>4. QED BY <1>2, <1>3

LEMMA InitGroupInv == Group!Init => GroupInv
<1> SUFFICES ASSUME Group!Init PROVE GroupInv
  OBVIOUS
<1> USE DEF Group!Init
<1>1. \A S : S \subseteq {"add", "take", "give", "unlock", "wait", "passed"} => Group!At(S) = {}
  BY DEF Group!At
<1>2. GroupTypes /\ LockHeld
  BY <1>1 DEF GroupTypes, LockHeld, InLock
<1>3. Group!Down = 0
  <2>1. Marks(minus, Group!Pending) = {}
    BY <1>1 DEF Marks, Group!Pending
  <2>2. QED BY <2>1, DownIs, FS_EmptySet
<1>4. OneToken
  BY <1>1, FS_EmptySet DEF OneToken
<1>5. PendingAddsSomething
  BY <1>1 DEF PendingAddsSomething, Group!Pending
<1>6. QED BY <1>2, <1>3, <1>4, <1>5 DEF GroupInv, GroupTypes

\* A step that leaves the pending Adds and their arguments alone leaves Down alone.
LEMMA DownStays == Group!Pending' = Group!Pending /\ delta' = delta => Group!Down' = Group!Down
BY DEF Group!Down, Group!Units

\* Down counts the argument of the Add that is counted now, when that is negative.
LEMMA DownFalls ==
  ASSUME GroupTypes, NEW p \in Group!Pending, Group!Pending' = Group!Pending \ {p}, delta' = [delta EXCEPT ![p] = 0]
  PROVE  Group!Down' \in Nat /\ Group!Down = Group!Down' + (IF delta[p] < 0 THEN -delta[p] ELSE 0)
<1> DEFINE rest == Group!Pending \ {p}
<1>1. IsFiniteSet(rest) /\ rest \cup {p} = Group!Pending /\ p \notin rest /\ Group!Pending \subseteq Procs
  BY PendingFinite, FS_RemoveElement DEF Group!Pending, Group!At
<1>2. \A q \in rest \cup {p} : minus[q] \in Int
  BY <1>1, DeltaIsInt
<1>3. Group!Down = Cardinality(Marks(minus, rest)) + (IF minus[p] > 0 THEN minus[p] ELSE 0)
  BY <1>1, <1>2, MarksAdd, DownIs
<1>4. Cardinality(Marks(minus, rest)) \in Nat
  BY <1>1, <1>2, MarksFinite
<1>5. Marks(minus', rest) = Marks(minus, rest)
  <2>1. \A q \in rest : minus'[q] = minus[q]
    BY <1>1 DEF minus, GroupTypes
  <2>2. QED BY <2>1, MarksEqual
<1>6. Group!Down' = Cardinality(Marks(minus, rest))
  <2>1. Group!Down' = Cardinality(Marks(minus', Group!Pending'))
    BY GroupCardinality DEF Group!Down, Group!Units, Marks, minus
  <2>2. QED BY <1>5, <2>1
<1>7. minus[p] = -delta[p] /\ delta[p] \in Int
  BY <1>1, DeltaIsInt
<1>8. QED BY <1>3, <1>4, <1>6, <1>7

\* An Add that is called adds to Down what it will take off the counter.
LEMMA DownRises ==
  ASSUME GroupTypes, NEW p \in Procs \ Group!Pending, NEW d \in Deltas,
         Group!Pending' = Group!Pending \cup {p}, delta' = [delta EXCEPT ![p] = d]
  PROVE  Group!Down \in Nat /\ Group!Down' = Group!Down + (IF d < 0 THEN -d ELSE 0)
<1>1. IsFiniteSet(Group!Pending) /\ Group!Pending \subseteq Procs
  BY PendingFinite DEF Group!Pending, Group!At
<1>2. \A q \in Group!Pending : minus[q] \in Int
  BY <1>1, DeltaIsInt
<1>3. \A q \in Group!Pending \cup {p} : minus'[q] = IF q = p THEN -d ELSE minus[q]
  BY <1>1 DEF minus, GroupTypes
<1>4. \A q \in Group!Pending \cup {p} : minus'[q] \in Int
  BY <1>2, <1>3, DeltasAreInts
<1>5. Group!Down' = Cardinality(Marks(minus', Group!Pending \cup {p}))
  BY GroupCardinality DEF Group!Down, Group!Units, Marks, minus
<1>6. Group!Down' = Cardinality(Marks(minus', Group!Pending)) + (IF minus'[p] > 0 THEN minus'[p] ELSE 0)
  BY <1>1, <1>4, <1>5, MarksAdd
<1>7. Marks(minus', Group!Pending) = Marks(minus, Group!Pending)
  BY <1>3, MarksEqual
<1>8. Group!Down = Cardinality(Marks(minus, Group!Pending)) /\ Group!Down \in Nat
  BY <1>1, <1>2, MarksFinite, DownIs
<1>9. minus'[p] = -d
  BY <1>3
<1>10. d \in Int
  BY DeltasAreInts
<1>11. QED BY <1>6, <1>7, <1>8, <1>9, <1>10

LEMMA NextPending == GroupTypes /\ PendingAddsSomething /\ [Group!Next]_Group!vars => PendingAddsSomething'
<1> SUFFICES ASSUME GroupTypes, PendingAddsSomething, [Group!Next]_Group!vars, NEW q \in Group!Pending' PROVE delta'[q] \in Deltas
  BY DEF PendingAddsSomething
<1> USE DEF PendingAddsSomething, GroupTypes, Group!Pending, Group!At
<1>1. ASSUME NEW p \in Procs, NEW d \in Deltas, Group!CallAdd(p, d) PROVE delta'[q] \in Deltas
  BY <1>1 DEF Group!CallAdd, Group!Goto
<1>2. ASSUME NEW p \in Procs, Group!AddCounts(p) PROVE delta'[q] \in Deltas
  <2>1. groupPc' = [groupPc EXCEPT ![p] = Group!NextOp(cnt, cnt')] /\ Group!NextOp(cnt, cnt') # "add"
    BY <1>2 DEF Group!AddCounts, Group!Goto, Group!NextOp
  <2>2. QED BY <1>2, <2>1 DEF Group!AddCounts
<1>3. ASSUME NEW p \in Procs,
             \/ Group!CallWait(p) \/ Group!AddTakesDone(p) \/ Group!AddGivesDone(p) \/ Group!AddReturns(p)
             \/ Group!WaitTakesDone(p) \/ Group!WaitReturns(p)
      PROVE  delta'[q] \in Deltas
  BY <1>3 DEF Group!CallWait, Group!AddTakesDone, Group!AddGivesDone, Group!AddReturns, Group!WaitTakesDone, Group!WaitReturns, Group!Goto
<1>4. CASE UNCHANGED Group!vars
  BY <1>4 DEF Group!vars
<1>5. QED BY <1>1, <1>2, <1>3, <1>4 DEF Group!Next, Group!Run

LEMMA NextGroupInv == 0 \notin Deltas /\ GroupInv /\ [Group!Next]_Group!vars => GroupInv'
<1> SUFFICES ASSUME 0 \notin Deltas, GroupInv, [Group!Next]_Group!vars PROVE GroupInv'
  OBVIOUS
<1> USE DEF GroupInv
<1>00. PendingAddsSomething'
  BY NextPending
<1>0. Group!Down \in Nat
  <2>1. \A q \in Group!Pending : minus[q] \in Int
    BY DeltaIsInt DEF Group!Pending, Group!At
  <2>2. QED BY <1>00, <2>1, PendingFinite, MarksFinite, DownIs
<1>1. ASSUME NEW p \in Procs, NEW d \in Deltas, Group!CallAdd(p, d) PROVE GroupInv'
  <2>1. /\ Group!Pending' = Group!Pending \cup {p} /\ p \notin Group!Pending
        /\ Group!At({"take"})' = Group!At({"take"}) /\ Group!At({"give"})' = Group!At({"give"}) /\ InLock' = InLock
        /\ Group!At({"passed"})' = Group!At({"passed"})
    BY <1>1 DEF Group!CallAdd, Group!Goto, GroupTypes, Group!Pending, InLock, Group!At
  <2>2. GroupTypes' /\ LockHeld' /\ OneToken'
    BY <1>1, <2>1 DEF Group!CallAdd, Group!Goto, GroupTypes, LockHeld, OneToken
  <2>3. Group!Down' = Group!Down + (IF d < 0 THEN -d ELSE 0)
    BY <1>1, <2>1, DownRises DEF Group!CallAdd
  <2>4. PICK n \in Nat : n = Group!Down
    BY <1>0
  <2>5. cnt - n + d >= 0 /\ cnt >= n /\ cnt' = cnt /\ cnt \in Nat /\ d \in Int
    BY <1>1, <2>4, DeltasAreInts DEF Group!CallAdd, GroupTypes
  <2>6. Group!Down' = n + (IF d < 0 THEN -d ELSE 0)
    BY <2>3, <2>4
  <2>7. QED BY <1>00, <2>2, <2>5, <2>6
<1>2. ASSUME NEW p \in Procs, Group!CallWait(p) PROVE GroupInv'
  <2>1. /\ Group!Pending' = Group!Pending /\ Group!At({"take"})' = Group!At({"take"}) /\ Group!At({"give"})' = Group!At({"give"})
        /\ InLock' = InLock /\ Group!At({"passed"})' = Group!At({"passed"}) /\ UNCHANGED <<delta, lock, zero, cnt>>
    BY <1>2 DEF Group!CallWait, Group!Goto, GroupTypes, Group!Pending, InLock, Group!At
  <2>2. GroupTypes'
    BY <1>2, <2>1 DEF Group!CallWait, Group!Goto, GroupTypes
  <2>3. QED BY <1>00, <2>1, <2>2, DownStays DEF LockHeld, OneToken
<1>3. ASSUME NEW p \in Procs, Group!AddCounts(p) PROVE GroupInv'
  <2>1. /\ lock = 1 /\ lock' = 0 /\ cnt' = cnt + delta[p] /\ zero' = zero
        /\ delta' = [delta EXCEPT ![p] = 0] /\ groupPc[p] = "add" /\ p \in Group!Pending
        /\ groupPc' = [groupPc EXCEPT ![p] = Group!NextOp(cnt, cnt')]
    BY <1>3 DEF Group!AddCounts, Group!Goto, Group!Pending, Group!At
  <2>2. InLock = {} /\ Group!At({"take"}) = {} /\ Group!At({"give"}) = {}
    BY <2>1 DEF LockHeld, InLock, Group!At
  <2>3. Group!NextOp(cnt, cnt') \in {"take", "give", "unlock"}
    BY DEF Group!NextOp
  <2>4. /\ Group!Pending' = Group!Pending \ {p} /\ InLock' = {p} /\ Group!At({"passed"})' = Group!At({"passed"})
        /\ Group!At({"take"})' = (IF Group!NextOp(cnt, cnt') = "take" THEN {p} ELSE {})
        /\ Group!At({"give"})' = (IF Group!NextOp(cnt, cnt') = "give" THEN {p} ELSE {})
    BY <2>1, <2>2, <2>3 DEF GroupTypes, Group!Pending, InLock, Group!At
  <2>5. Group!Down' \in Nat /\ Group!Down = Group!Down' + (IF delta[p] < 0 THEN -delta[p] ELSE 0)
    BY <2>1, <2>4, DownFalls
  <2>6. cnt' \in Nat /\ cnt' >= Group!Down' /\ cnt \in Nat /\ delta[p] \in Int
    <3>1. delta[p] \in Int /\ cnt \in Nat /\ cnt >= Group!Down
      BY DeltaIsInt DEF GroupTypes
    <3>2. PICK m \in Nat : m = Group!Down'
      BY <2>5
    <3>3. PICK n \in Nat : n = Group!Down
      BY <1>0
    <3>4. n = m + (IF delta[p] < 0 THEN -delta[p] ELSE 0) /\ cnt >= n
      BY <2>5, <3>1, <3>2, <3>3
    <3>5. cnt + delta[p] >= m /\ cnt + delta[p] \in Nat
      BY <3>1, <3>4
    <3>6. QED BY <2>1, <3>1, <3>2, <3>5
  <2>7. GroupTypes'
    BY <2>1, <2>3, <2>6 DEF GroupTypes
  <2>8. LockHeld'
    BY <2>1, <2>4, <2>6 DEF LockHeld, Group!NextOp
  <2>9. OneToken'
    <3> DEFINE tokens == zero + Cardinality(Group!At({"passed"}))
    <3>1. tokens' = tokens /\ tokens \in 0..1 /\ (tokens = 1 <=> cnt = 0)
      BY <2>1, <2>2, <2>4 DEF OneToken
    <3>2. (cnt' = 0 /\ Group!At({"give"})' = {}) \/ Group!At({"take"})' # {} <=> cnt = 0
      <4>1. delta[p] # 0
        BY <2>1 DEF PendingAddsSomething
      <4>2. cnt = 0 => cnt' > 0
        BY <2>1, <2>6, <4>1
      <4>3. QED BY <2>4, <2>6, <4>2 DEF Group!NextOp
    <3>3. QED BY <3>1, <3>2 DEF OneToken
  <2>10. QED BY <1>00, <2>6, <2>7, <2>8, <2>9
<1>4. ASSUME NEW p \in Procs, Group!AddTakesDone(p) PROVE GroupInv'
  <2>1. /\ p \in InLock /\ Group!At({"take"}) = {p} /\ InLock' = InLock /\ Group!At({"take"})' = {}
        /\ Group!At({"give"}) = {} /\ Group!At({"give"})' = {} /\ Group!Pending' = Group!Pending
        /\ Group!At({"passed"})' = Group!At({"passed"}) /\ zero = 1 /\ zero' = 0 /\ UNCHANGED <<delta, lock, cnt>>
    BY <1>4 DEF Group!AddTakesDone, Group!Goto, GroupTypes, LockHeld, Group!Pending, InLock, Group!At
  <2>2. GroupTypes'
    BY <1>4, <2>1 DEF Group!AddTakesDone, Group!Goto, GroupTypes
  <2>3. LockHeld' /\ cnt > 0
    BY <2>1 DEF LockHeld
  <2>4. Cardinality(Group!At({"passed"})) \in Nat
    BY PendingFinite, FS_CardinalityType
  <2>5. OneToken'
    BY <2>1, <2>3, <2>4 DEF OneToken, GroupTypes
  <2>6. QED BY <1>00, <2>1, <2>2, <2>3, <2>5, DownStays
<1>5. ASSUME NEW p \in Procs, Group!AddGivesDone(p) PROVE GroupInv'
  <2>1. /\ p \in InLock /\ Group!At({"give"}) = {p} /\ InLock' = InLock /\ Group!At({"give"})' = {}
        /\ Group!At({"take"}) = {} /\ Group!At({"take"})' = {} /\ Group!Pending' = Group!Pending
        /\ Group!At({"passed"})' = Group!At({"passed"}) /\ zero = 0 /\ zero' = 1 /\ UNCHANGED <<delta, lock, cnt>>
    BY <1>5 DEF Group!AddGivesDone, Group!Goto, GroupTypes, LockHeld, Group!Pending, InLock, Group!At
  <2>2. GroupTypes'
    BY <1>5, <2>1 DEF Group!AddGivesDone, Group!Goto, GroupTypes
  <2>3. LockHeld' /\ cnt = 0
    BY <2>1 DEF LockHeld
  <2>4. Cardinality(Group!At({"passed"})) \in Nat
    BY PendingFinite, FS_CardinalityType
  <2>5. OneToken'
    BY <2>1, <2>3, <2>4 DEF OneToken, GroupTypes
  <2>6. QED BY <1>00, <2>1, <2>2, <2>3, <2>5, DownStays
<1>6. ASSUME NEW p \in Procs, Group!AddReturns(p) PROVE GroupInv'
  <2>1. /\ InLock = {p} /\ InLock' = {} /\ Group!At({"take"}) = {} /\ Group!At({"take"})' = {}
        /\ Group!At({"give"}) = {} /\ Group!At({"give"})' = {} /\ Group!Pending' = Group!Pending
        /\ Group!At({"passed"})' = Group!At({"passed"}) /\ lock' = 1 /\ UNCHANGED <<delta, zero, cnt>>
    BY <1>6 DEF Group!AddReturns, Group!Goto, GroupTypes, LockHeld, Group!Pending, InLock, Group!At
  <2>2. GroupTypes'
    BY <1>6, <2>1 DEF Group!AddReturns, Group!Goto, GroupTypes
  <2>3. LockHeld' /\ OneToken'
    BY <2>1 DEF LockHeld, OneToken
  <2>4. QED BY <1>00, <2>1, <2>2, <2>3, DownStays
<1>7. ASSUME NEW p \in Procs, Group!WaitTakesDone(p) PROVE GroupInv'
  <2>1. /\ Group!At({"take"})' = Group!At({"take"}) /\ Group!At({"give"})' = Group!At({"give"}) /\ InLock' = InLock
        /\ Group!Pending' = Group!Pending /\ Group!At({"passed"})' = Group!At({"passed"}) \cup {p} /\ p \notin Group!At({"passed"})
        /\ zero = 1 /\ zero' = 0 /\ UNCHANGED <<delta, lock, cnt>>
    BY <1>7 DEF Group!WaitTakesDone, Group!Goto, GroupTypes, Group!Pending, InLock, Group!At
  <2>2. Cardinality(Group!At({"passed"})') = Cardinality(Group!At({"passed"})) + 1 /\ Cardinality(Group!At({"passed"})) \in Nat
    BY <2>1, PendingFinite, FS_AddElement, FS_CardinalityType
  <2>3. GroupTypes'
    BY <1>7, <2>1 DEF Group!WaitTakesDone, Group!Goto, GroupTypes
  <2>4. LockHeld' /\ OneToken'
    BY <2>1, <2>2 DEF LockHeld, OneToken
  <2>5. QED BY <1>00, <2>1, <2>3, <2>4, DownStays
<1>8. ASSUME NEW p \in Procs, Group!WaitReturns(p) PROVE GroupInv'
  <2>1. /\ Group!At({"take"})' = Group!At({"take"}) /\ Group!At({"give"})' = Group!At({"give"}) /\ InLock' = InLock
        /\ Group!Pending' = Group!Pending /\ Group!At({"passed"})' = Group!At({"passed"}) \ {p} /\ p \in Group!At({"passed"})
        /\ zero = 0 /\ zero' = 1 /\ UNCHANGED <<delta, lock, cnt>>
    BY <1>8 DEF Group!WaitReturns, Group!Goto, GroupTypes, Group!Pending, InLock, Group!At
  <2>2. Cardinality(Group!At({"passed"})') = Cardinality(Group!At({"passed"})) - 1 /\ Cardinality(Group!At({"passed"})) \in Nat
    BY <2>1, PendingFinite, FS_RemoveElement, FS_CardinalityType
  <2>3. GroupTypes'
    BY <1>8, <2>1 DEF Group!WaitReturns, Group!Goto, GroupTypes
  <2>4. LockHeld' /\ OneToken'
    BY <2>1, <2>2 DEF LockHeld, OneToken
  <2>5. QED BY <1>00, <2>1, <2>3, <2>4, DownStays
<1>9. CASE UNCHANGED Group!vars
  <2>1. UNCHANGED <<groupPc, delta, lock, zero, cnt>>
    BY <1>9 DEF Group!vars
  <2>2. GroupTypes' /\ Group!Pending' = Group!Pending
    BY <2>1 DEF GroupTypes, Group!Pending, Group!At
  <2>3. LockHeld' /\ OneToken'
    BY <2>1 DEF LockHeld, OneToken, InLock, Group!At
  <2>4. QED BY <1>00, <2>1, <2>2, <2>3, DownStays
<1>10. QED BY <1>1, <1>2, <1>3, <1>4, <1>5, <1>6, <1>7, <1>8, <1>9 DEF Group!Next, Group!Run

(***************************************************************************)
(* There is one token for done, in the channel or borrowed by one Wait,    *)
(* exactly while the counter is zero, for callers who never Add zero.      *)
(***************************************************************************)
THEOREM WaitGroupCorrect == 0 \notin Deltas /\ Group!Spec => []DoneTellsZero
<1>1. SUFFICES ASSUME 0 \notin Deltas PROVE Group!Spec => []DoneTellsZero
  OBVIOUS
<1>2. GroupInv /\ [Group!Next]_Group!vars => GroupInv'
  BY <1>1, NextGroupInv
<1>3. GroupInv => DoneTellsZero
  BY GroupCardinality DEF GroupInv, OneToken, DoneTellsZero, Group!DoneTellsZero
<1>4. QED BY <1>2, <1>3, InitGroupInv, PTL DEF Group!Spec

-----------------------------------------------------------------------------
\* TestServer.

ServerTypes ==
  /\ testPc \in [Tests -> {"idle", "build", "store", "port", "start", "waiting", "ready",
                       "over", "failed", "dead"}]
  /\ path \in [Tests -> Paths] /\ ci \in BOOLEAN
  /\ bin \in [Tests -> Tests \cup Paths \cup {"none"}] /\ port \in [Tests -> Ports \cup {"none"}]
  /\ srv \in [Tests -> {"off", "booting", "up"}] /\ listener \in [Ports -> Tests \cup {Free}]

(***************************************************************************)
(* What the cache names is on disk and was built from the path it is named *)
(* for.  Without the precompiled cache every binary was built by the test  *)
(* it is named by; with it nothing is ever built.                          *)
(***************************************************************************)
DiskHasBinaries ==
  /\ \A x \in DOMAIN cache : cache[x] \in DOMAIN disk /\ disk[cache[x]] = x
  /\ ~ci => \A b \in DOMAIN disk : b \in Tests /\ disk[b] = path[b]
  /\ ci => DOMAIN disk \subseteq Paths /\ \A p \in Tests : testPc[p] \notin {"build", "store"}
  /\ \A p \in Tests : testPc[p] = "store" => p \in DOMAIN disk

\* The binary a test has got is still there, whatever the others store.
GotBinary == \A p \in Tests : testPc[p] \in {"port", "start", "waiting", "ready"} =>
               bin[p] \in DOMAIN disk /\ disk[bin[p]] = path[p]

(***************************************************************************)
(* A server is up, or on its way, only while its test waits, is ready or   *)
(* was killed with the others; who listens at a port was given that port.  *)
(***************************************************************************)
ServersHavePorts ==
  /\ \A p \in Tests : /\ testPc[p] \in {"idle", "build", "store", "port"} => port[p] = "none"
                      /\ testPc[p] \in {"start", "waiting", "ready"} => port[p] \in Ports
  /\ \A p \in Tests : srv[p] # "off" => testPc[p] \in {"waiting", "ready", "dead"} /\ port[p] \in Ports
  /\ \A q \in Ports : listener[q] # Free => port[listener[q]] = q /\ srv[listener[q]] = "up"

\* The second half of TestsRunTheirBinary.
ReadyTalks == \A p \in Tests : testPc[p] = "ready" => \/ listener[port[p]] = p
                                                  \/ \E q \in Tests \ {p} : port[q] = port[p]

ServerInv == ServerTypes /\ DiskHasBinaries /\ GotBinary /\ ServersHavePorts /\ ReadyTalks

LEMMA InitServerInv == Servers!TestServerAssumption /\ Servers!Init => ServerInv
<1> SUFFICES ASSUME Servers!TestServerAssumption, Servers!Init PROVE ServerInv
  OBVIOUS
<1>1. ci \in BOOLEAN
  BY DEF Servers!Init
<1>2. ServerTypes
  BY <1>1 DEF Servers!Init, Servers!All, ServerTypes
<1>3. cache = disk /\ (~ci => DOMAIN disk = {}) /\ \A x \in DOMAIN disk : x \in Paths /\ disk[x] = x
  BY DEF Servers!Init, Servers!Precompiled
<1>4. testPc = [p \in Tests |-> "idle"] /\ srv = [p \in Tests |-> "off"] /\ listener = [q \in Ports |-> Free]
      /\ port = [p \in Tests |-> "none"]
  BY DEF Servers!Init, Servers!All
<1>5. DiskHasBinaries
  BY <1>3, <1>4 DEF DiskHasBinaries
<1>6. GotBinary /\ ServersHavePorts /\ ReadyTalks
  BY <1>4 DEF GotBinary, ServersHavePorts, ReadyTalks
<1>7. QED BY <1>2, <1>5, <1>6 DEF ServerInv

LEMMA NextServerInv == Servers!TestServerAssumption /\ ServerInv /\ [Servers!Next]_Servers!vars => ServerInv'
<1> SUFFICES ASSUME Servers!TestServerAssumption, ServerInv, [Servers!Next]_Servers!vars PROVE ServerInv'
  OBVIOUS
<1> USE DEF Servers!TestServerAssumption, ServerInv, ServerTypes, Servers!binaries, Servers!servers
<1>1. ASSUME NEW p \in Tests, Servers!Hit(p) PROVE ServerInv'
  <2>1. ServerTypes'
    BY <1>1 DEF Servers!Hit, Servers!Goto, DiskHasBinaries
  <2>2. DiskHasBinaries'
    BY <1>1 DEF Servers!Hit, Servers!Goto, DiskHasBinaries
  <2>3. GotBinary'
    BY <1>1 DEF Servers!Hit, Servers!Goto, DiskHasBinaries, GotBinary
  <2>4. ServersHavePorts'
    BY <1>1 DEF Servers!Hit, Servers!Goto, ServersHavePorts
  <2>5. ReadyTalks'
    BY <1>1 DEF Servers!Hit, Servers!Goto, ServersHavePorts, ReadyTalks
  <2>6. QED BY <2>1, <2>2, <2>3, <2>4, <2>5
<1>2. ASSUME NEW p \in Tests, Servers!Miss(p) PROVE ServerInv'
  <2>1. ServerTypes'
    BY <1>2 DEF Servers!Miss, Servers!Goto
  <2>2. DiskHasBinaries'
    BY <1>2 DEF Servers!Miss, Servers!Goto, DiskHasBinaries
  <2>3. GotBinary'
    BY <1>2 DEF Servers!Miss, Servers!Goto, DiskHasBinaries, GotBinary
  <2>4. ServersHavePorts'
    BY <1>2 DEF Servers!Miss, Servers!Goto, ServersHavePorts
  <2>5. ReadyTalks'
    BY <1>2 DEF Servers!Miss, Servers!Goto, ServersHavePorts, ReadyTalks
  <2>6. QED BY <2>1, <2>2, <2>3, <2>4, <2>5
<1>3. ASSUME NEW p \in Tests, Servers!Build(p) PROVE ServerInv'
  <2>1. ServerTypes'
    BY <1>3 DEF Servers!Build, Servers!Goto, Servers!RandomBinaryName, Servers!Put
  <2>2. DiskHasBinaries'
    BY <1>3 DEF Servers!Build, Servers!Goto, Servers!RandomBinaryName, Servers!Put, DiskHasBinaries
  <2>3. GotBinary'
    BY <1>3 DEF Servers!Build, Servers!Goto, Servers!RandomBinaryName, Servers!Put, DiskHasBinaries, GotBinary
  <2>4. ServersHavePorts'
    BY <1>3 DEF Servers!Build, Servers!Goto, Servers!RandomBinaryName, Servers!Put, ServersHavePorts
  <2>5. ReadyTalks'
    BY <1>3 DEF Servers!Build, Servers!Goto, Servers!RandomBinaryName, Servers!Put, ServersHavePorts, ReadyTalks
  <2>6. QED BY <2>1, <2>2, <2>3, <2>4, <2>5
<1>4. ASSUME NEW p \in Tests, Servers!BuildFails(p) PROVE ServerInv'
  <2>1. ServerTypes'
    BY <1>4 DEF Servers!BuildFails, Servers!All
  <2>2. DiskHasBinaries'
    BY <1>4 DEF Servers!BuildFails, Servers!All, DiskHasBinaries
  <2>3. GotBinary'
    BY <1>4 DEF Servers!BuildFails, Servers!All, DiskHasBinaries, GotBinary
  <2>4. ServersHavePorts'
    BY <1>4 DEF Servers!BuildFails, Servers!All, ServersHavePorts
  <2>5. ReadyTalks'
    BY <1>4 DEF Servers!BuildFails, Servers!All, ServersHavePorts, ReadyTalks
  <2>6. QED BY <2>1, <2>2, <2>3, <2>4, <2>5
<1>5. ASSUME NEW p \in Tests, Servers!StoreBinary(p) PROVE ServerInv'
  <2>1. ServerTypes'
    BY <1>5 DEF Servers!StoreBinary, Servers!Goto, Servers!RandomBinaryName, Servers!Put
  <2>2. DiskHasBinaries'
    BY <1>5 DEF Servers!StoreBinary, Servers!Goto, Servers!RandomBinaryName, Servers!Put, DiskHasBinaries
  <2>3. GotBinary'
    BY <1>5 DEF Servers!StoreBinary, Servers!Goto, Servers!RandomBinaryName, Servers!Put, DiskHasBinaries, GotBinary
  <2>4. ServersHavePorts'
    BY <1>5 DEF Servers!StoreBinary, Servers!Goto, Servers!RandomBinaryName, Servers!Put, ServersHavePorts
  <2>5. ReadyTalks'
    BY <1>5 DEF Servers!StoreBinary, Servers!Goto, Servers!RandomBinaryName, Servers!Put, ServersHavePorts, ReadyTalks
  <2>6. QED BY <2>1, <2>2, <2>3, <2>4, <2>5
<1>6. ASSUME NEW p \in Tests, Servers!GetFreePort(p) PROVE ServerInv'
  <2>1. ServerTypes'
    BY <1>6 DEF Servers!GetFreePort, Servers!Goto
  <2>2. DiskHasBinaries'
    BY <1>6 DEF Servers!GetFreePort, Servers!Goto, DiskHasBinaries
  <2>3. GotBinary'
    BY <1>6 DEF Servers!GetFreePort, Servers!Goto, DiskHasBinaries, GotBinary
  <2>4. ServersHavePorts'
    BY <1>6 DEF Servers!GetFreePort, Servers!Goto, ServersHavePorts
  <2>5. ReadyTalks'
    <3>1. SUFFICES ASSUME NEW r \in Tests, testPc'[r] = "ready"
                   PROVE  listener'[port'[r]] = r \/ \E q \in Tests \ {r} : port'[q] = port'[r]
      BY DEF ReadyTalks
    <3>2. r # p /\ testPc[r] = "ready" /\ testPc[p] = "port" /\ UNCHANGED listener
      BY <1>6, <3>1 DEF Servers!GetFreePort, Servers!Goto
    <3>3. \A q \in Tests \ {p} : port'[q] = port[q]
      BY <1>6 DEF Servers!GetFreePort
    <3>4. port[p] = "none" /\ port[r] \in Ports
      BY <3>2 DEF ServersHavePorts
    <3>5. listener[port[r]] = r \/ \E q \in Tests \ {r} : port[q] = port[r]
      BY <3>2 DEF ReadyTalks
    <3>6. QED BY <3>2, <3>3, <3>4, <3>5
  <2>6. QED BY <2>1, <2>2, <2>3, <2>4, <2>5
<1>7. ASSUME NEW p \in Tests, Servers!StartServer(p) PROVE ServerInv'
  <2>1. ServerTypes'
    BY <1>7 DEF Servers!StartServer, Servers!Goto
  <2>2. DiskHasBinaries'
    BY <1>7 DEF Servers!StartServer, Servers!Goto, DiskHasBinaries
  <2>3. GotBinary'
    BY <1>7 DEF Servers!StartServer, Servers!Goto, DiskHasBinaries, GotBinary
  <2>4. ServersHavePorts'
    <3>1. /\ UNCHANGED <<port, listener>> /\ testPc[p] = "start" /\ testPc' = [testPc EXCEPT ![p] = "waiting"]
          /\ srv' = [srv EXCEPT ![p] = "booting"] /\ port[p] \in Ports /\ srv[p] = "off"
      BY <1>7 DEF Servers!StartServer, Servers!Goto, ServersHavePorts
    <3>2. \A q \in Ports : listener[q] # Free => listener[q] # p /\ port[listener[q]] = q /\ srv[listener[q]] = "up"
      BY <3>1 DEF ServersHavePorts
    <3>3. \A q \in Ports : listener[q] # Free => listener[q] \in Tests /\ srv'[listener[q]] = "up"
      BY <3>1, <3>2
    <3>4. QED BY <3>1, <3>2, <3>3 DEF ServersHavePorts
  <2>5. ReadyTalks'
    BY <1>7 DEF Servers!StartServer, Servers!Goto, ServersHavePorts, ReadyTalks
  <2>6. QED BY <2>1, <2>2, <2>3, <2>4, <2>5
<1>8. ASSUME NEW p \in Tests, Servers!Boot(p) PROVE ServerInv'
  <2>1. ServerTypes'
    BY <1>8 DEF Servers!Boot, ServersHavePorts
  <2>2. DiskHasBinaries'
    BY <1>8 DEF Servers!Boot, DiskHasBinaries
  <2>3. GotBinary'
    BY <1>8 DEF Servers!Boot, DiskHasBinaries, GotBinary
  <2>4. ServersHavePorts'
    BY <1>8 DEF Servers!Boot, ServersHavePorts
  <2>5. ReadyTalks'
    <3>1. SUFFICES ASSUME NEW r \in Tests, testPc'[r] = "ready"
                   PROVE  listener'[port'[r]] = r \/ \E q \in Tests \ {r} : port'[q] = port'[r]
      BY DEF ReadyTalks
    <3>2. /\ UNCHANGED <<testPc, port>> /\ port[p] \in Ports /\ port[r] \in Ports
          /\ \A q \in Ports : listener[q] # Free => listener'[q] = listener[q]
      BY <1>8, <3>1 DEF Servers!Boot, ServersHavePorts
    <3>3. listener[port[r]] = r \/ \E q \in Tests \ {r} : port[q] = port[r]
      BY <3>1, <3>2 DEF ReadyTalks
    <3>4. QED BY <3>2, <3>3
  <2>6. QED BY <2>1, <2>2, <2>3, <2>4, <2>5
<1>9. ASSUME NEW p \in Tests, Servers!Poll(p) PROVE ServerInv'
  <2>1. ServerTypes'
    BY <1>9 DEF Servers!Poll
  <2>2. DiskHasBinaries'
    BY <1>9 DEF Servers!Poll, DiskHasBinaries
  <2>3. GotBinary'
    BY <1>9 DEF Servers!Poll, DiskHasBinaries, GotBinary
  <2>4. ServersHavePorts'
    BY <1>9 DEF Servers!Poll, ServersHavePorts
  <2>5. ReadyTalks'
    <3>1. SUFFICES ASSUME NEW r \in Tests, testPc'[r] = "ready"
                   PROVE  listener'[port'[r]] = r \/ \E q \in Tests \ {r} : port'[q] = port'[r]
      BY DEF ReadyTalks
    <3>2. UNCHANGED <<port, listener>>
      BY <1>9 DEF Servers!Poll
    <3>3. CASE r = p
      <4>1. port[p] \in Ports /\ listener[port[p]] # Free
        BY <1>9, <3>1, <3>3 DEF Servers!Poll, ServersHavePorts
      <4>2. listener[port[p]] \in Tests /\ port[listener[port[p]]] = port[p]
        BY <4>1 DEF ServersHavePorts
      <4>3. QED BY <3>2, <3>3, <4>2
    <3>4. CASE r # p
      BY <1>9, <3>1, <3>2, <3>4 DEF Servers!Poll, ReadyTalks
    <3>5. QED BY <3>3, <3>4
  <2>6. QED BY <2>1, <2>2, <2>3, <2>4, <2>5
<1>10. ASSUME NEW p \in Tests, Servers!Expire(p) \/ Servers!Stop(p) PROVE ServerInv'
  <2>1. ServerTypes'
    BY <1>10 DEF Servers!Expire, Servers!Stop, Servers!Kill, Servers!Goto
  <2>2. DiskHasBinaries'
    BY <1>10 DEF Servers!Expire, Servers!Stop, Servers!Kill, Servers!Goto, DiskHasBinaries
  <2>3. GotBinary'
    BY <1>10 DEF Servers!Expire, Servers!Stop, Servers!Kill, Servers!Goto, DiskHasBinaries, GotBinary
  <2>4. ServersHavePorts'
    BY <1>10 DEF Servers!Expire, Servers!Stop, Servers!Kill, Servers!Goto, ServersHavePorts
  <2>5. ReadyTalks'
    <3>1. SUFFICES ASSUME NEW r \in Tests, testPc'[r] = "ready"
                   PROVE  listener'[port'[r]] = r \/ \E q \in Tests \ {r} : port'[q] = port'[r]
      BY DEF ReadyTalks
    <3>2. /\ UNCHANGED port /\ r # p /\ testPc[r] = "ready"
          /\ \A q \in Ports : listener[q] # p => listener'[q] = listener[q]
      BY <1>10, <3>1 DEF Servers!Expire, Servers!Stop, Servers!Kill, Servers!Goto
    <3>3. port[r] \in Ports
      BY <3>2 DEF ServersHavePorts
    <3>4. listener[port[r]] = r \/ \E q \in Tests \ {r} : port[q] = port[r]
      BY <3>2 DEF ReadyTalks
    <3>5. QED BY <3>2, <3>3, <3>4
  <2>6. QED BY <2>1, <2>2, <2>3, <2>4, <2>5
<1>11. CASE Servers!Close
  BY <1>11 DEF Servers!Close, Servers!All, DiskHasBinaries, GotBinary, ServersHavePorts, ReadyTalks
<1>12. CASE UNCHANGED Servers!vars
  BY <1>12 DEF Servers!vars, DiskHasBinaries, GotBinary, ServersHavePorts, ReadyTalks
<1>13. QED
  BY <1>1, <1>2, <1>3, <1>4, <1>5, <1>6, <1>7, <1>8, <1>9, <1>10, <1>11, <1>12 DEF Servers!Next

(***************************************************************************)
(* Every test runs a complete binary of its own import path, and talks to  *)
(* its own server unless another test was given the same port.             *)
(***************************************************************************)
THEOREM TestServerCorrect == ASSUME Servers!TestServerAssumption PROVE Servers!Spec => []TestsRunTheirBinary
<1>1. Servers!Init => ServerInv
  BY InitServerInv
<1>2. ServerInv /\ [Servers!Next]_Servers!vars => ServerInv'
  BY NextServerInv
<1>3. ServerInv => TestsRunTheirBinary
  BY DEF ServerInv, GotBinary, ReadyTalks, TestsRunTheirBinary, Servers!TestsRunTheirBinary, Servers!Running
<1>4. QED BY <1>1, <1>2, <1>3, PTL DEF Servers!Spec
=============================================================================
