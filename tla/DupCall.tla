------------------------------- MODULE DupCall -------------------------------
(***************************************************************************)
(* golang/shmem/dupcall/dupcall.go: concurrent calls of Do share one run   *)
(* of an expensive callback.  A Do that finds a callback running joins it, *)
(* otherwise it starts the next one; both then select on their own context *)
(* and on o.done, and a Do whose context ends withdraws from the count of  *)
(* waiters and cancels the callback when the count reaches zero.           *)
(*                                                                         *)
(* Each run of a callback is a generation: o.done and o.cancelFunc are     *)
(* those of generation gen, and a result is the generation it came from.   *)
(* Sections under o.mu are one step; the read of o.done that opens each    *)
(* select and the wait for the mutex after it are outside, hence steps.    *)
(***************************************************************************)
EXTENDS Integers, FiniteSets

CONSTANTS Procs,   \* goroutines that call Do
          MaxGens  \* bound: callbacks started

ASSUME DupCallAssumption == IsFiniteSet(Procs) /\ MaxGens \in Nat

VARIABLES running, gen, cntWaiters, res, \* fields of Call; res is the generation of o.res
          closed,     \* generations whose done channel is closed
          cancelled,  \* generations whose context is cancelled
          execs,      \* generations whose callback is executing
          pc, ctx,    \* of each Do: where it is, whether its context is done
          joined,     \* the generation it started or joined, 0 outside Do
          chan        \* the generation whose done channel it selects on

callVars == <<running, gen, cntWaiters, res, closed, cancelled, execs>>
doVars   == <<pc, ctx, joined, chan>>
vars     == <<callVars, doVars>>

Gens == 1..MaxGens

Init ==
  /\ running = FALSE /\ gen = 0 /\ cntWaiters = 0 /\ res = 0
  /\ closed = {} /\ cancelled = {} /\ execs = {}
  /\ pc = [p \in Procs |-> "idle"] /\ ctx = [p \in Procs |-> FALSE]
  /\ joined = [p \in Procs |-> 0] /\ chan = [p \in Procs |-> 0]

Goto(p, from, to) == pc[p] = from /\ pc' = [pc EXCEPT ![p] = to]

\* Do is called with a context, done or not, and ends up in generation g.
Enters(p, g) ==
  /\ Goto(p, "idle", "joined")
  /\ \E c \in BOOLEAN : ctx' = [ctx EXCEPT ![p] = c]
  /\ joined' = [joined EXCEPT ![p] = g]
  /\ UNCHANGED chan

Returns(p, from) ==
  /\ Goto(p, from, "idle")
  /\ joined' = [joined EXCEPT ![p] = 0] /\ chan' = [chan EXCEPT ![p] = 0]
  /\ UNCHANGED ctx

Join(p) ==
  /\ running
  /\ cntWaiters' = cntWaiters + 1
  /\ Enters(p, gen)
  /\ UNCHANGED <<running, gen, res, closed, cancelled, execs>>

\* Mutant: a callback is started whether or not one is running.
MutantAlwaysStart(p) ==
  /\ gen < MaxGens
  /\ running' = TRUE /\ gen' = gen + 1 /\ cntWaiters' = 1
  /\ execs' = execs \cup {gen'}
  /\ Enters(p, gen')
  /\ UNCHANGED <<res, closed, cancelled>>

Start(p) ==
  /\ ~running /\ gen < MaxGens
  /\ running' = TRUE /\ gen' = gen + 1 /\ cntWaiters' = 1
  /\ execs' = execs \cup {gen'}
  /\ Enters(p, gen')
  /\ UNCHANGED <<res, closed, cancelled>>

\* The select evaluates o.done without the mutex.
ReadDone(p) ==
  /\ Goto(p, "joined", "select")
  /\ chan' = [chan EXCEPT ![p] = gen]
  /\ UNCHANGED <<callVars, ctx, joined>>

\* Mutant: Do waits for the callback whatever its context.
MutantSelect(p) ==
  /\ chan[p] \in closed /\ Goto(p, "select", "fetch")
  /\ UNCHANGED <<callVars, ctx, joined, chan>>

Select(p) ==
  /\ \/ ctx[p] /\ Goto(p, "select", "leave")
     \/ chan[p] \in closed /\ Goto(p, "select", "fetch")
  /\ UNCHANGED <<callVars, ctx, joined, chan>>

\* Mutant: the count is left alone.
MutantLeave(p) ==
  /\ Returns(p, "leave")
  /\ UNCHANGED callVars

\* Do was cancelled: withdraw, and the last one cancels the callback.
Leave(p) ==
  /\ cntWaiters' = cntWaiters - 1
  /\ cancelled' = IF cntWaiters' = 0 THEN cancelled \cup {gen} ELSE cancelled
  /\ Returns(p, "leave")
  /\ UNCHANGED <<running, gen, res, closed, execs>>

\* Do returns what o.res and o.err hold now.
Fetch(p) == Returns(p, "fetch") /\ UNCHANGED callVars

CbReturns(g) ==
  /\ g \in execs
  /\ execs' = execs \ {g}
  /\ UNCHANGED <<running, gen, cntWaiters, res, closed, cancelled, doVars>>

\* Mutants: done is closed before the result is stored; done stays open.
MutantCloseFirst(g) ==
  /\ running /\ gen = g /\ (g \notin execs \/ g \notin closed)
  /\ closed' = closed \cup {g}
  /\ IF g \in execs THEN UNCHANGED <<running, res>> ELSE running' = FALSE /\ res' = g
  /\ UNCHANGED <<gen, cntWaiters, cancelled, execs, doVars>>

MutantStaysOpen(g) ==
  /\ g \notin execs /\ running /\ gen = g
  /\ res' = g /\ running' = FALSE
  /\ UNCHANGED <<gen, cntWaiters, closed, cancelled, execs, doVars>>

\* After its callback the goroutine publishes the result.
Finish(g) ==
  /\ g \notin execs /\ running /\ gen = g
  /\ res' = g
  /\ closed' = closed \cup {gen}
  /\ running' = FALSE
  /\ UNCHANGED <<gen, cntWaiters, cancelled, execs, doVars>>

\* The caller cancels the context of a Do in progress.
CancelCtx(p) ==
  /\ pc[p] \in {"joined", "select"} /\ ~ctx[p]
  /\ ctx' = [ctx EXCEPT ![p] = TRUE]
  /\ UNCHANGED <<callVars, pc, joined, chan>>

InDo(p) == ReadDone(p) \/ Select(p) \/ Leave(p) \/ Fetch(p)

Next ==
  \/ \E p \in Procs : Join(p) \/ Start(p) \/ InDo(p) \/ CancelCtx(p)
  \/ \E g \in Gens : CbReturns(g) \/ Finish(g)

Spec == Init /\ [][Next]_vars

(***************************************************************************)
(* Fairness: the scheduler runs a goroutine that can run.  Whether         *)
(* callbacks return is theirs to say.                                      *)
(***************************************************************************)
SchedSpec == /\ Spec /\ \A p \in Procs : WF_vars(InDo(p))
             /\ \A g \in Gens : WF_vars(Finish(g))
CallbacksReturn == \A g \in Gens : WF_vars(CbReturns(g))

-----------------------------------------------------------------------------
TypeOK ==
  /\ running \in BOOLEAN /\ gen \in 0..MaxGens
  /\ cntWaiters \in Int /\ cntWaiters <= Cardinality(Procs)
  /\ res \in 0..MaxGens
  /\ closed \subseteq Gens /\ cancelled \subseteq Gens /\ execs \subseteq Gens
  /\ pc \in [Procs -> {"idle", "joined", "select", "leave", "fetch"}]
  /\ ctx \in [Procs -> BOOLEAN]
  /\ joined \in [Procs -> 0..MaxGens] /\ chan \in [Procs -> 0..MaxGens]

\* README of dupcall: one callback runs at a time, the current one.
OneCallback == execs # {} => running /\ execs = {gen}

(***************************************************************************)
(* A callback all of whose callers withdrew is cancelled: leftovers of     *)
(* older generations cannot make the count miss zero.                      *)
(***************************************************************************)
AbandonedIsCancelled ==
  running /\ (\A p \in Procs : joined[p] # gen) => gen \in cancelled

\* The two together: neither two callbacks, nor one that runs for nobody.
OneCallbackForSomebody == OneCallback /\ AbandonedIsCancelled

\* No Do returns a result older than the callback it started or joined.
NoOlderResult == [][\A p \in Procs : Fetch(p) => res >= joined[p]]_vars

\* README: a cancelled Do returns at once, here without the callback's help.
CancelledDoReturns ==
  \A p \in Procs : pc[p] # "idle" /\ ctx[p] ~> pc[p] = "idle"

\* If callbacks return, every Do does, whichever channel it read.
EveryDoReturns == CallbacksReturn => \A p \in Procs : pc[p] # "idle" ~> pc[p] = "idle"

(***************************************************************************)
(* README: Do returns the result of the callback that was running when it  *)
(* was called.  It does not hold: see README.                              *)
(***************************************************************************)
OwnResult == [][\A p \in Procs : Fetch(p) => res = joined[p]]_vars

(***************************************************************************)
(* README: a running callback is cancelled only if all the calls waiting   *)
(* for it were cancelled.                                                  *)
(***************************************************************************)
CancelledOnlyByItsCallers ==
  [][\A g \in cancelled' \ cancelled : g \in execs =>
       \A p \in Procs : joined[p] = g => ctx[p]]_vars
=============================================================================
