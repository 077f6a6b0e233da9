------------------------------- MODULE RWMutex -------------------------------
(***************************************************************************)
(* golang/goroutines/rwmutex/rwmutex.go: a readers-writer lock out of two  *)
(* channels of capacity one that hold a token each.  semR guards the count *)
(* of readers; semW is the right to write, which a writer takes for itself *)
(* and the first reader takes for all the readers.                         *)
(*                                                                         *)
(* A process is one holder at a time: the goroutine that unlocks need not  *)
(* be the one that locked.  Every channel operation is a step of its own;  *)
(* the statements between semR's receive and the next channel operation    *)
(* run with semR's token taken and belong to that receive.                 *)
(***************************************************************************)
EXTENDS Integers, FiniteSets

CONSTANT Procs

ASSUME RWMutexAssumption == IsFiniteSet(Procs)

VARIABLES pc,         \* where each process is
          semW, semR, \* tokens in each channel
          cntReaders

vars == <<pc, semW, semR, cntReaders>>

Init ==
  /\ pc = [p \in Procs |-> "idle"]
  /\ semW = 1 /\ semR = 1 /\ cntReaders = 0

Goto(p, from, to) == pc[p] = from /\ pc' = [pc EXCEPT ![p] = to]

Call(p) ==
  /\ \/ Goto(p, "idle", "rlock")
     \/ Goto(p, "idle", "lock")
     \/ Goto(p, "reading", "runlock")
  /\ UNCHANGED <<semW, semR, cntReaders>>

\* Mutant of RLock: the wrong reader is taken for the first.
MutantMissedFirst(p) ==
  /\ semR = 1 /\ semR' = 0 /\ cntReaders' = cntReaders + 1
  /\ Goto(p, "rlock", IF cntReaders = 1 THEN "first" ELSE "entered")
  /\ UNCHANGED semW

\* RLock: take semR, count the reader.
CountReader(p) ==
  /\ semR = 1 /\ semR' = 0 /\ cntReaders' = cntReaders + 1
  /\ Goto(p, "rlock", IF cntReaders' = 1 THEN "first" ELSE "entered")
  /\ UNCHANGED semW

\* The first reader takes semW, and keeps semR until it has it.
FirstTakesW(p) ==
  /\ semW = 1 /\ semW' = 0
  /\ Goto(p, "first", "entered")
  /\ UNCHANGED <<semR, cntReaders>>

\* Mutants of RUnlock: the reader is not discounted; the last one keeps semW.
MutantStillCounted(p) ==
  /\ semR = 1 /\ semR' = 0 /\ cntReaders' = cntReaders
  /\ Goto(p, "runlock", IF cntReaders' = 1 THEN "last" ELSE "left")
  /\ UNCHANGED semW

MutantKeepsW(p) ==
  /\ semR = 1 /\ semR' = 0 /\ cntReaders' = cntReaders - 1
  /\ Goto(p, "runlock", "left")
  /\ UNCHANGED semW

\* RUnlock: take semR, discount the reader; the last one gives semW back.
UncountReader(p) ==
  /\ semR = 1 /\ semR' = 0 /\ cntReaders' = cntReaders - 1
  /\ Goto(p, "runlock", IF cntReaders' = 0 THEN "last" ELSE "left")
  /\ UNCHANGED semW

LastGivesW(p) ==
  /\ semW = 0 /\ semW' = 1
  /\ Goto(p, "last", "left")
  /\ UNCHANGED <<semR, cntReaders>>

\* The last statement of RLock and of RUnlock.
GiveSemR(p) ==
  /\ semR = 0 /\ semR' = 1
  /\ Goto(p, "entered", "reading") \/ Goto(p, "left", "idle")
  /\ UNCHANGED <<semW, cntReaders>>

Lock(p) ==
  /\ semW = 1 /\ semW' = 0
  /\ Goto(p, "lock", "writing")
  /\ UNCHANGED <<semR, cntReaders>>

Unlock(p) ==
  /\ semW = 0 /\ semW' = 1
  /\ Goto(p, "writing", "idle")
  /\ UNCHANGED <<semR, cntReaders>>

Receive(p) == CountReader(p) \/ FirstTakesW(p) \/ UncountReader(p) \/ Lock(p)
Send(p)    == LastGivesW(p) \/ GiveSemR(p)

Next == \E p \in Procs : Call(p) \/ Receive(p) \/ Send(p) \/ Unlock(p)

Spec == Init /\ [][Next]_vars

(***************************************************************************)
(* Fairness.  A channel serves its blocked receivers in the order they     *)
(* came, so a receive that is possible again and again happens: SF.  And   *)
(* whoever is inside leaves.                                               *)
(***************************************************************************)
Fairness == \A p \in Procs :
  /\ SF_vars(Receive(p))
  /\ WF_vars(Send(p)) /\ WF_vars(Call(p) /\ pc[p] = "reading") /\ WF_vars(Unlock(p))

-----------------------------------------------------------------------------
At(S) == {p \in Procs : pc[p] \in S}

InSemR  == At({"first", "entered", "last", "left"})      \* hold semR's token
Counted == At({"first", "entered", "reading", "runlock"}) \* counted by cntReaders
Readers == At({"entered", "reading", "runlock", "last"}) \* covered by semW's token
Writers == At({"writing"})

TypeOK ==
  /\ pc \in [Procs -> {"idle", "rlock", "first", "entered", "reading",
                       "runlock", "last", "left", "lock", "writing"}]
  /\ semW \in 0..1 /\ semR \in 0..1 /\ cntReaders \in Int

(***************************************************************************)
(* The token of semR is out exactly while one process is between a receive *)
(* and a send of semR.                                                     *)
(***************************************************************************)
SemRHeld ==
  /\ \A p, q \in InSemR : p = q
  /\ semR = 0 <=> InSemR # {}

\* cntReaders counts the calls between RLock's and RUnlock's receive of semR.
CountIsReaders == cntReaders = Cardinality(Counted)

(***************************************************************************)
(* The token of semW is out exactly while a writer writes or some reader   *)
(* is inside; never both, and never two writers.                           *)
(***************************************************************************)
SemWHeld ==
  /\ \A p, q \in Writers : p = q
  /\ Readers = {} \/ Writers = {}
  /\ semW = 0 <=> Readers \cup Writers # {}

(***************************************************************************)
(* The three together: what the two tokens and the count say is true, so   *)
(* no token is lost, doubled or held by one who thinks another has it.     *)
(***************************************************************************)
TokensTellTheTruth == SemRHeld /\ CountIsReaders /\ SemWHeld

\* RWMutex is a section lock in which only reads are compatible.
Sections == INSTANCE SectionLock WITH
              Sections <- {"read", "write"},
              Compatible <- {<<"read", "read">>},
              inside <- [p \in Procs |-> IF pc[p] = "reading" THEN {"read"}
                                         ELSE IF pc[p] = "writing" THEN {"write"} ELSE {}]

Implements == Sections!Spec

\* Every RLock returns when those inside leave: readers never starve.
EveryReaderEnters == \A p \in Procs : pc[p] = "rlock" ~> pc[p] = "reading"

\* A blocked Lock returns if again and again there is no reader.
WriterEntersWhenReadersDrain ==
  []<>(Readers = {})
    => \A p \in Procs : pc[p] = "lock" ~> pc[p] = "writing"

\* Both: who waits enters when it is due.
WaitersEnter == EveryReaderEnters /\ WriterEntersWhenReadersDrain

(***************************************************************************)
(* The comment on RWMutex: a blocked Lock call excludes new readers, so    *)
(* that the lock eventually becomes available.  It does not: see README.   *)
(***************************************************************************)
WriterNotStarved == \A p \in Procs : pc[p] = "lock" ~> pc[p] = "writing"
=============================================================================
