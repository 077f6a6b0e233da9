------------------------------ MODULE RateLimit ------------------------------
(***************************************************************************)
(* golang/goroutines/ratelimit/ratelimit.go: at most MaxCount Acquires are *)
(* granted in any Interval.  The times of the grants are kept oldest       *)
(* first; an Acquire that finds no room sleeps until the oldest grant is   *)
(* Interval old, its context is cancelled or the limiter is stopped, and   *)
(* then starts again.                                                      *)
(*                                                                         *)
(* Time is a clock of whole ticks, and a time is kept as its age.  What    *)
(* runs with the token of mu is one step: a clock that moves on meanwhile  *)
(* makes a timer later, and a timer here may be served late.               *)
(***************************************************************************)
EXTENDS Naturals, Sequences, SequencesExt, FiniteSets, FiniteSetsExt

CONSTANTS Procs,
          MaxCount, Interval,
          MaxCalls   \* bound: the Acquires of all

\* What the constants are.
RateLimitAssumption == MaxCount \in Nat \ {0} /\ Interval \in Nat /\ MaxCalls \in Nat

VARIABLES pc,           \* where each process is in Acquire, or how it left
          calls,        \* Acquires begun
          cancelled,    \* processes whose context is done
          timer,        \* ticks until the time.After of a waiting process
          callOClock,   \* the ages of the recorded grants, none counted past Interval
          stopped,      \* stopped, with stopCh closed
          grants        \* history: the ages of all the grants, none counted past Interval

vars == <<pc, calls, cancelled, timer, callOClock, stopped, grants>>

Init ==
  /\ pc = [p \in Procs |-> "idle"] /\ calls = 0 /\ cancelled = {}
  /\ timer = [p \in Procs |-> 0] /\ callOClock = <<>> /\ stopped = FALSE /\ grants = <<>>

Goto(p, from, to) == pc[p] = from /\ pc' = [pc EXCEPT ![p] = to]
Out == {"idle", "ok", "ErrStopped", "ctx.Err"}

Call(p) ==
  /\ pc[p] \in Out /\ calls < MaxCalls
  /\ pc' = [pc EXCEPT ![p] = "enter"] /\ calls' = calls + 1
  /\ cancelled' = cancelled \ {p}   \* a new context
  /\ UNCHANGED <<timer, callOClock, stopped, grants>>

Cancel(p) ==
  /\ cancelled' = cancelled \cup {p} /\ pc[p] \notin Out
  /\ UNCHANGED <<pc, calls, timer, callOClock, stopped, grants>>

\* The loop that drops expired grants from the front.  Mutant: off by one.
MutantExpired(age) == age + 1 >= Interval
Expired(age) == age >= Interval

Fresh ==
  LET first == Min({k \in 1..Len(callOClock) + 1 : k <= Len(callOClock) => ~Expired(callOClock[k])})
  IN  SubSeq(callOClock, first, Len(callOClock))

\* The three ways through the section of Acquire that mu guards.
Refuse(p) ==
  /\ stopped /\ Goto(p, "enter", "ErrStopped")
  /\ UNCHANGED <<calls, cancelled, timer, callOClock, stopped, grants>>

Grant(p) ==
  /\ ~stopped /\ Len(Fresh) < MaxCount /\ Goto(p, "enter", "ok")
  /\ callOClock' = Append(Fresh, 0) /\ grants' = Append(grants, 0)
  /\ UNCHANGED <<calls, cancelled, timer, stopped>>

\* Mutant: the timer is set by the newest grant.
MutantFull(p) ==
  /\ ~stopped /\ Len(Fresh) >= MaxCount /\ Goto(p, "enter", "waiting")
  /\ callOClock' = Fresh
  /\ timer' = [timer EXCEPT ![p] = Interval - Last(Fresh)]
  /\ UNCHANGED <<calls, cancelled, stopped, grants>>

Full(p) ==
  /\ ~stopped /\ Len(Fresh) >= MaxCount /\ Goto(p, "enter", "waiting")
  /\ callOClock' = Fresh
  /\ timer' = [timer EXCEPT ![p] = Interval - Head(Fresh)]   \* deadline
  /\ UNCHANGED <<calls, cancelled, stopped, grants>>

\* The three cases of select; a timer may be served late.
TimerFires(p) ==
  /\ timer[p] = 0 /\ Goto(p, "waiting", "enter")
  /\ UNCHANGED <<calls, cancelled, timer, callOClock, stopped, grants>>

CtxDone(p) ==
  /\ p \in cancelled /\ Goto(p, "waiting", "ctx.Err") /\ timer' = [timer EXCEPT ![p] = 0]
  /\ UNCHANGED <<calls, cancelled, callOClock, stopped, grants>>

StopClosed(p) ==
  /\ stopped /\ Goto(p, "waiting", "ErrStopped") /\ timer' = [timer EXCEPT ![p] = 0]
  /\ UNCHANGED <<calls, cancelled, callOClock, stopped, grants>>

\* Stop; a second one changes nothing.
Stop ==
  /\ ~stopped /\ stopped' = TRUE
  /\ UNCHANGED <<pc, calls, cancelled, timer, callOClock, grants>>

\* One tick of the clock.
Older(age) == IF age < Interval THEN age + 1 ELSE age
Tick ==
  /\ callOClock' = [i \in DOMAIN callOClock |-> Older(callOClock[i])]
  /\ grants' = [i \in DOMAIN grants |-> Older(grants[i])]
  /\ timer' = [p \in Procs |-> IF timer[p] > 0 THEN timer[p] - 1 ELSE 0]
  /\ UNCHANGED <<pc, calls, cancelled, stopped>>

Locked(p)  == Refuse(p) \/ Grant(p) \/ Full(p)
Select(p)  == TimerFires(p) \/ CtxDone(p) \/ StopClosed(p)
Next == \/ \E p \in Procs : Call(p) \/ Cancel(p) \/ Locked(p) \/ Select(p)
        \/ Stop \/ Tick

Spec == Init /\ [][Next]_vars

-----------------------------------------------------------------------------
TypeOK ==
  /\ pc \in [Procs -> Out \cup {"enter", "waiting"}]
  /\ calls \in 0..MaxCalls /\ cancelled \subseteq Procs
  /\ timer \in [Procs -> 0..Interval] /\ stopped \in BOOLEAN
  /\ callOClock \in Seq(0..Interval) /\ grants \in Seq(0..Interval)

\* The grants of the Interval that ends now.
Young == {i \in DOMAIN grants : grants[i] < Interval}

\* README of ratelimit: in any interval at most maxCount Acquires succeed.
AtMostMaxCount == Cardinality(Young) <= MaxCount

(***************************************************************************)
(* A waiter's timer runs out no later than the oldest grant in force, and  *)
(* has run out when none is: it does not oversleep, whatever others were   *)
(* granted meanwhile ("100 others must block for a second", README).       *)
(***************************************************************************)
NoOversleep ==
  \A p \in Procs : pc[p] = "waiting" =>
    /\ \A i \in Young : timer[p] <= Interval - grants[i]
    /\ Young = {} => timer[p] = 0
=============================================================================
