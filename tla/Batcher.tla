------------------------------- MODULE Batcher -------------------------------
(***************************************************************************)
(* golang/shmem/batcher/batcher.go over slow/value.go: concurrent Loads of *)
(* a slow value share one read.  The first Load becomes the leader: it     *)
(* opens a batch, sleeps for delta, reads the value and hands it out.  A   *)
(* Load whose own start is less than delta after the batch's takes part;   *)
(* one that came later waits for the batch to end and tries again.         *)
(*                                                                         *)
(* Time enters only as call.Sub(b.startTime), so the clock counts from the *)
(* start of the batch and stops at Delta: late[p] is that difference, zero *)
(* or less written as zero, and nobody looks at it while no batch is open. *)
(* A batch's done channel is named for its leader, which opens the next    *)
(* one only after closing this one.  Stored values are numbered; sections  *)
(* under b.mu are one step.                                                *)
(***************************************************************************)
EXTENDS Naturals, FiniteSets

CONSTANTS Procs,     \* goroutines that call Load
          Delta,     \* ticks in delta
          MaxStores  \* bound: calls of Store

\* What the constants are.
BatcherAssumption == Delta \in Nat \ {0} /\ MaxStores \in Nat

VARIABLES active, leader, value,  \* Batcher: b.active, whose b.done is, b.value
          since,                  \* ticks since b.startTime
          stored,                 \* slow.Value: the number of the value stored last
          pc, late,               \* of each Load: where it is, its start minus b.startTime
          waitFor,                \* the leader whose done channel it waits on
          loaded,                 \* what the leader read
          seen                    \* history: stored when Load was called

batch == <<active, leader, value, since>>
load  == <<pc, late, waitFor, loaded, seen>>
vars  == <<batch, stored, load>>

Init ==
  /\ active = FALSE /\ value = 0 /\ since = 0 /\ stored = 0
  /\ leader \in Procs
  /\ pc = [p \in Procs |-> "idle"] /\ late = [p \in Procs |-> 0]
  /\ waitFor = [p \in Procs |-> p]
  /\ loaded = [p \in Procs |-> 0] /\ seen = [p \in Procs |-> 0]

Goto(p, from, to) == pc[p] = from /\ pc' = [pc EXCEPT ![p] = to]

Tick == active /\ since < Delta /\ since' = since + 1 /\ UNCHANGED <<active, leader, value, stored, load>>

Store == stored < MaxStores /\ stored' = stored + 1 /\ UNCHANGED <<batch, load>>

\* Load reads the clock before it takes the mutex; a call made again after a
\* batch it missed does the same.
Call(p) ==
  /\ Goto(p, "idle", "called")
  /\ late' = [late EXCEPT ![p] = since]
  /\ seen' = [seen EXCEPT ![p] = stored]
  /\ UNCHANGED <<batch, stored, waitFor, loaded>>

Retry(p) ==
  /\ Goto(p, "again", "called")
  /\ late' = [late EXCEPT ![p] = since]
  /\ UNCHANGED <<batch, stored, waitFor, loaded, seen>>

\* Mutant: a Load that starts delta after the batch takes part.
MutantInBatch(p) == TRUE
InBatch(p) == late[p] < Delta

Join(p) ==
  /\ active /\ Goto(p, "called", IF InBatch(p) THEN "joined" ELSE "missed")
  /\ waitFor' = [waitFor EXCEPT ![p] = leader] /\ late' = [late EXCEPT ![p] = 0]
  /\ UNCHANGED <<batch, stored, loaded, seen>>

\* Opening a batch: whoever called before has a start before b.startTime.
Lead(p) ==
  /\ ~active /\ Goto(p, "called", "lead")
  /\ active' = TRUE /\ leader' = p /\ since' = 0
  /\ late' = [q \in Procs |-> 0]
  /\ UNCHANGED <<value, stored, waitFor, loaded, seen>>

\* v.Load after the sleep; it panics if another one is running.
MutantSlowLoad(p) ==
  /\ since = Delta /\ Goto(p, "lead", "slow")
  /\ loaded' = [loaded EXCEPT ![p] = stored] /\ active' = FALSE
  /\ UNCHANGED <<leader, value, since, stored, late, waitFor, seen>>

SlowLoad(p) ==
  /\ since = Delta /\ Goto(p, "lead", "slow")
  /\ loaded' = [loaded EXCEPT ![p] = stored]
  /\ UNCHANGED <<batch, stored, late, waitFor, seen>>

SlowLoadReturns(p) ==
  /\ Goto(p, "slow", "publish")
  /\ UNCHANGED <<batch, stored, late, waitFor, loaded, seen>>

Publish(p) ==
  /\ Goto(p, "publish", "closing")
  /\ value' = loaded[p] /\ active' = FALSE /\ since' = 0
  /\ UNCHANGED <<leader, stored, late, waitFor, loaded, seen>>

\* What is left of a Load that returned.
Forget(p) == loaded' = [loaded EXCEPT ![p] = 0] /\ seen' = [seen EXCEPT ![p] = 0]

\* Mutant: those who missed the batch are not woken.
MutantCloseDone(p) ==
  /\ pc[p] = "closing"
  /\ pc' = [q \in Procs |->
       IF q = p THEN "idle"
       ELSE IF waitFor[q] = p /\ pc[q] = "joined" THEN "fetch" ELSE pc[q]]
  /\ waitFor' = [q \in Procs |-> IF waitFor[q] = p THEN q ELSE waitFor[q]]
  /\ Forget(p) /\ UNCHANGED <<batch, stored, late>>

\* close(done) wakes all who wait on it; the leader returns what it loaded.
CloseDone(p) ==
  /\ pc[p] = "closing"
  /\ pc' = [q \in Procs |->
       IF q = p THEN "idle"
       ELSE IF waitFor[q] = p /\ pc[q] = "joined" THEN "fetch"
       ELSE IF waitFor[q] = p /\ pc[q] = "missed" THEN "again" ELSE pc[q]]
  /\ waitFor' = [q \in Procs |-> IF waitFor[q] = p THEN q ELSE waitFor[q]]
  /\ Forget(p) /\ UNCHANGED <<batch, stored, late>>

\* One that took part returns b.value, read without the mutex.
Fetch(p) == Goto(p, "fetch", "idle") /\ Forget(p) /\ UNCHANGED <<batch, stored, late, waitFor>>

InLoad(p) == \/ Retry(p) \/ Join(p) \/ Lead(p) \/ SlowLoad(p) \/ SlowLoadReturns(p)
             \/ Publish(p) \/ CloseDone(p) \/ Fetch(p)

Next == Tick \/ Store \/ \E p \in Procs : Call(p) \/ InLoad(p)

Spec == Init /\ [][Next]_vars

\* Fairness: time passes and the scheduler runs goroutines that can run.
Fairness == WF_vars(Tick) /\ \A p \in Procs : WF_vars(InLoad(p))

-----------------------------------------------------------------------------
Leading == {"lead", "slow", "publish", "closing"}

TypeOK ==
  /\ active \in BOOLEAN /\ leader \in Procs /\ since \in 0..Delta
  /\ value \in 0..stored /\ stored \in 0..MaxStores
  /\ pc \in [Procs -> {"idle", "called", "joined", "missed", "again", "fetch"} \cup Leading]
  /\ late \in [Procs -> 0..Delta] /\ waitFor \in [Procs -> Procs]
  /\ loaded \in [Procs -> 0..stored] /\ seen \in [Procs -> 0..stored]
  /\ active <=> pc[leader] \in {"lead", "slow", "publish"}

(***************************************************************************)
(* README of batcher: no stale read.  What Load is about to return, the    *)
(* leader's reading or b.value at the moment of the unlocked read, is not  *)
(* older than what was stored when Load was called.                        *)
(***************************************************************************)
NoStaleRead ==
  \A p \in Procs : /\ pc[p] = "fetch" => value >= seen[p]
                   /\ pc[p] \in {"slow", "publish", "closing"} => loaded[p] >= seen[p]

\* slow.Value panics "another load is running": no two reads overlap.
NoPanic == \A p, q \in Procs : pc[p] = "slow" /\ pc[q] = "slow" => p = q

\* The two together.
BatchRight == NoStaleRead /\ NoPanic

\* One that takes part in a batch or leads it returns; one that missed it is
\* woken when it ends, and tries again.
BatchEnds ==
  \A p \in Procs : pc[p] \in {"joined", "missed"} \cup Leading ~> pc[p] \in {"idle", "again"}
=============================================================================
