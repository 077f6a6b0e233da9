-------------------------------- MODULE Fetch --------------------------------
(***************************************************************************)
(* golang/helloworld/fetchall/main.go and urlfetch/main.go, over the same  *)
(* URLs.  fetchall starts a goroutine for each, which sends one message    *)
(* into a channel without room; main receives as many as there are URLs.   *)
(* urlfetch fetches them one after the other and gives up at the first     *)
(* failure.                                                                *)
(***************************************************************************)
EXTENDS Integers, Sequences, SequencesExt

CONSTANTS MaxURLs   \* bound: arguments of each program

VARIABLES n,        \* number of URLs
          pc,       \* of each goroutine of fetchall
          printed,  \* what fetchall's main has printed: <<index of the URL, outcome>>
          next,     \* the URL urlfetch is at
          exit      \* its exit code, -1 while it runs

vars == <<n, pc, printed, next, exit>>

Outcomes == {"fetched", "no connection", "broken body"}

Init ==
  /\ n \in 0..MaxURLs /\ pc = [i \in 1..n |-> "get"] /\ printed = <<>>
  /\ next = 1 /\ exit = IF n = 0 THEN 0 ELSE -1

\* fetch: http.Get, ReadAll; every way through it ends in one send.
Get(i) ==
  /\ pc[i] = "get" /\ UNCHANGED <<n, printed, next, exit>>
  /\ \E to \in {"read", "no connection"} : pc' = [pc EXCEPT ![i] = to]

Read(i) ==
  /\ pc[i] = "read" /\ UNCHANGED <<n, printed, next, exit>>
  /\ \E to \in {"fetched", "broken body"} : pc' = [pc EXCEPT ![i] = to]

\* The channel has no room: sender and receiver meet, while main still receives.
\* Mutant: a failure is not sent.
MutantMeet(i) ==
  /\ pc[i] = "fetched" /\ Len(printed) < n /\ printed' = Append(printed, <<i, pc[i]>>)
  /\ pc' = [pc EXCEPT ![i] = "gone"] /\ UNCHANGED <<n, next, exit>>
Meet(i) ==
  /\ pc[i] \in Outcomes /\ Len(printed) < n /\ printed' = Append(printed, <<i, pc[i]>>)
  /\ pc' = [pc EXCEPT ![i] = "gone"] /\ UNCHANGED <<n, next, exit>>

\* One turn of urlfetch's loop: it exits with 1, or prints the body.
FetchNext ==
  /\ exit = -1 /\ UNCHANGED <<n, pc, printed>>
  /\ \/ exit' = 1 /\ UNCHANGED next
     \/ next' = next + 1 /\ exit' = IF next = n THEN 0 ELSE exit

Next == FetchNext \/ \E i \in DOMAIN pc : Get(i) \/ Read(i) \/ Meet(i)

Spec == Init /\ [][Next]_vars

\* Fairness: goroutines run, and every request comes to an end.
Fairness == \A i \in 1..MaxURLs :
  WF_vars(i \in DOMAIN pc /\ (Get(i) \/ Read(i) \/ Meet(i)))

-----------------------------------------------------------------------------
TypeOK ==
  /\ n \in 0..MaxURLs /\ pc \in [1..n -> Outcomes \cup {"get", "read", "gone"}]
  /\ printed \in Seq((1..n) \X Outcomes) /\ next \in 1..n + 1 /\ exit \in {-1, 0, 1}

(***************************************************************************)
(* README.md: fetchall does not stop at a bad URL.  main ends, and with a  *)
(* line for every URL, so that no goroutine stays blocked on its send.     *)
(***************************************************************************)
EveryURLReported ==
  <>[](Len(printed) = n /\ ToSet([k \in DOMAIN printed |-> printed[k][1]]) = 1..n)
=============================================================================
