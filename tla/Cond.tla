-------------------------------- MODULE Cond ---------------------------------
(***************************************************************************)
(* golang/goroutines/cond/cond.go: a condition variable.  Each Wait makes  *)
(* a channel, named here for its process, appends it to c.waits, releases  *)
(* c.L, blocks on the channel and takes c.L again.  Signal removes the     *)
(* first channel and closes it when it has given innerLock back;           *)
(* Broadcast closes all of them while it holds it.                         *)
(*                                                                         *)
(* What runs between innerLock's receive and send is one step.  c.L is a   *)
(* mutex of the caller, who calls Wait only while holding it.              *)
(***************************************************************************)
EXTENDS Naturals, Sequences, SequencesExt, FiniteSets

CONSTANT Procs

VARIABLES pc,      \* where each process is
          L,       \* who holds c.L, a set of at most one process
          waits,   \* c.waits
          closed,  \* channels that are closed and whose Wait goes on
          toClose  \* toClose[p]: the channel p's Signal still has to close

vars == <<pc, L, waits, closed, toClose>>

Init ==
  /\ pc = [p \in Procs |-> "idle"] /\ L = {} /\ waits = <<>>
  /\ closed = {} /\ toClose = [p \in Procs |-> {}]

Goto(p, from, to) == pc[p] = from /\ pc' = [pc EXCEPT ![p] = to]

\* The caller's c.L.Lock and c.L.Unlock.
LockL(p)   == L = {} /\ L' = {p} /\ Goto(p, "idle", "holding") /\ UNCHANGED <<waits, closed, toClose>>
UnlockL(p) == L' = {} /\ Goto(p, "holding", "idle") /\ UNCHANGED <<waits, closed, toClose>>

\* Wait.
Enqueue(p) ==
  /\ Goto(p, "holding", "enqueued") /\ waits' = Append(waits, p)
  /\ UNCHANGED <<L, closed, toClose>>

ReleaseL(p) ==
  /\ Goto(p, "enqueued", "blocked") /\ L' = {}
  /\ UNCHANGED <<waits, closed, toClose>>

Wake(p) ==
  /\ p \in closed /\ closed' = closed \ {p}
  /\ Goto(p, "blocked", "relock")
  /\ UNCHANGED <<L, waits, toClose>>

RelockL(p) == L = {} /\ L' = {p} /\ Goto(p, "relock", "holding") /\ UNCHANGED <<waits, closed, toClose>>

\* Signal, with or without c.L.
CanSignal(p) == pc[p] \in {"idle", "holding"} /\ toClose[p] = {}

\* Mutant: the last of the queue.
MutantPop(p) ==
  /\ CanSignal(p) /\ waits # <<>>
  /\ waits' = Front(waits) /\ toClose' = [toClose EXCEPT ![p] = {Last(waits)}]
  /\ UNCHANGED <<pc, L, closed>>

PopFirst(p) ==
  /\ CanSignal(p) /\ waits # <<>>
  /\ waits' = Tail(waits) /\ toClose' = [toClose EXCEPT ![p] = {Head(waits)}]
  /\ UNCHANGED <<pc, L, closed>>

CloseFirst(p) ==
  /\ toClose[p] # {} /\ closed' = closed \cup toClose[p]
  /\ toClose' = [toClose EXCEPT ![p] = {}]
  /\ UNCHANGED <<pc, L, waits>>

\* Mutant: the queue is emptied and one waiter is woken.
MutantBroadcast(p) ==
  /\ CanSignal(p)
  /\ closed' = closed \cup (IF waits = <<>> THEN {} ELSE {Head(waits)}) /\ waits' = <<>>
  /\ UNCHANGED <<pc, L, toClose>>

Broadcast(p) ==
  /\ CanSignal(p)
  /\ closed' = closed \cup Range(waits) /\ waits' = <<>>
  /\ UNCHANGED <<pc, L, toClose>>

\* A process inside Signal does nothing else.
Next ==
  \E p \in Procs :
    \/ toClose[p] = {} /\ (LockL(p) \/ UnlockL(p) \/ Enqueue(p))
    \/ ReleaseL(p) \/ Wake(p) \/ RelockL(p)
    \/ PopFirst(p) \/ CloseFirst(p) \/ Broadcast(p)

Spec == Init /\ [][Next]_vars

\* Fairness: the caller releases c.L, c.L is a fair mutex, goroutines run.
Fairness ==
  \A p \in Procs :
    /\ WF_vars(ReleaseL(p) \/ Wake(p) \/ CloseFirst(p))
    /\ SF_vars(RelockL(p) \/ (toClose[p] = {} /\ UnlockL(p)))

-----------------------------------------------------------------------------
InWait == {p \in Procs : pc[p] \in {"enqueued", "blocked", "relock"}}

TypeOK ==
  /\ pc \in [Procs -> {"idle", "holding", "enqueued", "blocked", "relock"}]
  /\ L = {p \in Procs : pc[p] \in {"holding", "enqueued"}} /\ Cardinality(L) <= 1
  /\ waits \in Seq(Procs) /\ closed \subseteq Procs
  /\ toClose \in [Procs -> SUBSET Procs]

(***************************************************************************)
(* Wait releases c.L and suspends as if in one step, although it enqueues  *)
(* first and a Signal may come before it has released c.L; waiters are     *)
(* woken in the order they came and never by themselves.                   *)
(***************************************************************************)
Abstract == INSTANCE CondSpec WITH
              L <- L \ {p \in Procs : pc[p] = "enqueued"},
              queue <- waits,
              woken <- InWait \ Range(waits)

CondImplements == Abstract!Spec

\* A waiter taken off the queue returns from Wait, holding c.L.
WokenReturns ==
  \A p \in Procs : p \in InWait /\ p \notin Range(waits) ~> pc[p] = "holding"
=============================================================================
