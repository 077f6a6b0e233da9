------------------------------ MODULE CondSpec -------------------------------
(***************************************************************************)
(* What golang/goroutines/cond promises: Wait releases L and joins the     *)
(* queue in one step, Signal wakes the first of the queue, Broadcast all   *)
(* of it, and only a process that was woken takes L again and returns.     *)
(***************************************************************************)
EXTENDS Sequences, SequencesExt

CONSTANT Procs

VARIABLES L,      \* who holds the lock, a set of at most one process
          queue,  \* the processes in Wait that were not woken
          woken   \* those that were and have not got L yet

vars == <<L, queue, woken>>

Init == L = {} /\ queue = <<>> /\ woken = {}

Acquire(p) == L = {} /\ p \notin Range(queue) \cup woken /\ L' = {p} /\ UNCHANGED <<queue, woken>>
Release(p) == L = {p} /\ L' = {} /\ UNCHANGED <<queue, woken>>
Wait(p)    == L = {p} /\ L' = {} /\ queue' = Append(queue, p) /\ UNCHANGED woken
Resume(p)  == L = {} /\ p \in woken /\ L' = {p} /\ woken' = woken \ {p} /\ UNCHANGED queue
Signal     == queue # <<>> /\ queue' = Tail(queue) /\ woken' = woken \cup {Head(queue)} /\ UNCHANGED L
Broadcast  == queue' = <<>> /\ woken' = woken \cup Range(queue) /\ UNCHANGED L

Next == Signal \/ Broadcast \/ \E p \in Procs : Acquire(p) \/ Release(p) \/ Wait(p) \/ Resume(p)

Spec == Init /\ [][Next]_vars
=============================================================================
