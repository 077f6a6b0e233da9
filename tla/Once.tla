-------------------------------- MODULE Once ---------------------------------
(***************************************************************************)
(* golang/goroutines/once/once.go.  The first Do to put its token into the *)
(* one-place channel runner calls f, and closes done when f is over,       *)
(* whether f returned or panicked; every other Do waits for done.  f may   *)
(* itself call Do, when Recursive says so.                                 *)
(***************************************************************************)
EXTENDS Naturals, FiniteSets

CONSTANTS Procs, Recursive

\* What the constants are.
OnceAssumption == Recursive \in BOOLEAN

VARIABLES pc,      \* where each process is
          runner,  \* tokens in the channel runner
          done     \* has the channel done been closed

vars == <<pc, runner, done>>

Init == pc = [p \in Procs |-> "idle"] /\ runner = 0 /\ done = FALSE

Goto(p, from, to) == pc[p] = from /\ pc' = [pc EXCEPT ![p] = to]
At(S) == {p \in Procs : pc[p] \in S}

Call(p) == (Goto(p, "idle", "do") \/ Goto(p, "back", "do")) /\ UNCHANGED <<runner, done>>

\* The two cases of select.  Mutant: the token is not kept.
MutantWin(p) == runner = 0 /\ Goto(p, "do", "f") /\ UNCHANGED <<runner, done>>
\* Mutant: the channel has room for every token.
MutantRoomForAll(p) == runner' = runner + 1 /\ Goto(p, "do", "f") /\ UNCHANGED done
Win(p)  == runner = 0 /\ runner' = 1 /\ Goto(p, "do", "f") /\ UNCHANGED done

MutantLose(p) == runner = 1 /\ Goto(p, "do", "back") /\ UNCHANGED <<runner, done>>
Lose(p) == runner = 1 /\ Goto(p, "do", "waiting") /\ UNCHANGED <<runner, done>>

\* f returns; f panics, and the deferred close runs all the same.
FReturns(p) == Goto(p, "f", "close") /\ UNCHANGED <<runner, done>>

MutantFPanics(p) == Goto(p, "f", "panicking") /\ UNCHANGED <<runner, done>>
FPanics(p)  == Goto(p, "f", "closePanicking") /\ UNCHANGED <<runner, done>>

CloseDone(p) ==
  /\ done' = TRUE /\ UNCHANGED runner
  /\ Goto(p, "close", "back") \/ Goto(p, "closePanicking", "panicking")

\* The caller of Do recovers from the panic.
Recover(p) == Goto(p, "panicking", "back") /\ UNCHANGED <<runner, done>>

\* f calls Do: the token is there, so it waits for its own end.
Recurse(p) == Recursive /\ runner = 1 /\ Goto(p, "f", "nested") /\ UNCHANGED <<runner, done>>

Released(p) ==
  /\ done /\ UNCHANGED <<runner, done>>
  /\ Goto(p, "waiting", "back") \/ Goto(p, "nested", "f")

Next == \E p \in Procs :
  \/ Call(p) \/ Win(p) \/ Lose(p) \/ FReturns(p) \/ FPanics(p)
  \/ CloseDone(p) \/ Recover(p) \/ Recurse(p) \/ Released(p)

Spec == Init /\ [][Next]_vars

\* Fairness: goroutines run; f comes to an end.
Run(p)   == Win(p) \/ Lose(p) \/ FReturns(p) \/ CloseDone(p) \/ Released(p) \/ Recover(p)
Fairness == \A p \in Procs : WF_vars(Run(p))

-----------------------------------------------------------------------------
InF == At({"f", "nested", "close", "closePanicking"})

TypeOK ==
  /\ pc \in [Procs -> {"idle", "do", "f", "nested", "close", "closePanicking",
                       "panicking", "waiting", "back"}]
  /\ runner \in 0..1 /\ done \in BOOLEAN

(***************************************************************************)
(* Comment on Do: only the first call invokes f, even if f panicked.  f is *)
(* being executed, or has been and done is closed, or has not begun.       *)
(***************************************************************************)
OneCall == Cardinality(InF) + (IF done THEN 1 ELSE 0) = runner

\* Comment on Do: no call to Do returns until the one call to f returns; so if
\* f calls Do, neither that call nor any other ever returns.
NoDoReturnsBeforeF == At({"back", "panicking"}) # {} => done

\* The two together.
OnceRight == OneCall /\ NoDoReturnsBeforeF

\* Every Do returns, also those of the goroutines that did not run f and those
\* that come when f has panicked, unless f calls Do.
EveryDoReturns ==
  \A p \in Procs : pc[p] = "do" ~> pc[p] = "back" \/ At({"nested"}) # {}
=============================================================================
