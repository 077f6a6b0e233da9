---------------------------- MODULE MCPrimitives -----------------------------
(***************************************************************************)
(* Batcher, Once, Cond and RateLimit for TLC.  They share no state, so     *)
(* each behaviour exercises one of them: an initial state gives goroutines *)
(* to that one, and those of the others are absent for good.               *)
(***************************************************************************)
EXTENDS Batcher, Sequences

CONSTANTS Recursive,                    \* of Once
          MaxCount, Interval, MaxCalls  \* of RateLimit

VARIABLES oncePc, runner, done,
          condPc, L, waits, closed, toClose,
          ratePc, calls, cancelled, timer, callOClock, stopped, grants

Once  == INSTANCE Once WITH pc <- oncePc
Cond  == INSTANCE Cond WITH pc <- condPc
Rate  == INSTANCE RateLimit WITH pc <- ratePc

ASSUME BatcherAssumption /\ Once!OnceAssumption /\ Rate!RateLimitAssumption

onceVars  == <<oncePc, runner, done>>
condVars  == <<condPc, L, waits, closed, toClose>>
rateVars  == <<ratePc, calls, cancelled, timer, callOClock, stopped, grants>>
allVars   == <<vars, onceVars, condVars, rateVars>>

\* A component without goroutines, none of whose steps is possible.
Absent   == [p \in Procs |-> "absent"]
Zero     == [p \in Procs |-> 0]
NoOnce   == oncePc = Absent /\ runner = 0 /\ done = FALSE
NoCond   == condPc = Absent /\ L = {} /\ waits = <<>> /\ closed = {} /\ toClose = [p \in Procs |-> {}]
NoRate   == /\ ratePc = Absent /\ calls = 0 /\ cancelled = Procs /\ timer = Zero
            /\ callOClock = <<>> /\ stopped = TRUE /\ grants = <<>>
NoBatch  == /\ pc = Absent /\ active = FALSE /\ value = 0 /\ since = 0 /\ stored = MaxStores
            /\ leader = (CHOOSE p \in Procs : TRUE) /\ late = Zero
            /\ waitFor = [p \in Procs |-> p] /\ loaded = Zero /\ seen = Zero

InitAll == \/ Init /\ NoOnce /\ NoCond /\ NoRate
           \/ NoBatch /\ Once!Init /\ NoCond /\ NoRate
           \/ NoBatch /\ NoOnce /\ Cond!Init /\ NoRate
           \/ NoBatch /\ NoOnce /\ NoCond /\ Rate!Init

NextAll == \/ Next /\ UNCHANGED <<onceVars, condVars, rateVars>>
           \/ Once!Next /\ UNCHANGED <<vars, condVars, rateVars>>
           \/ Cond!Next /\ UNCHANGED <<vars, onceVars, rateVars>>
           \/ Rate!Next /\ UNCHANGED <<vars, onceVars, condVars>>

FairSpec == InitAll /\ [][NextAll]_allVars /\ Fairness /\ Once!Fairness /\ Cond!Fairness

-----------------------------------------------------------------------------
\* Batcher: BatchRight and BatchEnds are its own.

\* Once: f is called once, also if it panics, and no Do returns before f is over; none at
\* all if f calls Do.
OnceRight == Once!OnceRight
\* Once: every Do returns, also when f panicked, unless f calls Do.
EveryDoReturns == Once!EveryDoReturns

\* Cond: it implements the condition variable whose Wait is one step.
CondImplements == Cond!CondImplements
\* Cond: a waiter that was signalled returns from Wait with the lock.
WokenReturns == Cond!WokenReturns

\* RateLimit: at most maxCount grants in any interval, and no waiter sleeps past the end
\* of the oldest grant.
RateRight == Rate!AtMostMaxCount /\ Rate!NoOversleep
=============================================================================
