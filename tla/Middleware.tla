------------------------------ MODULE Middleware ------------------------------
(***************************************************************************)
(* golang/http/middleware: requestlog around httpgauge around auth around  *)
(* a handler, as chi's Use stacks them.  Requests are served concurrently; *)
(* they share the counter of requestlog, its log, and the gauge's metrics, *)
(* which the gauge's mutex guards.  A handler may panic; the panic unwinds *)
(* through the deferred functions of the gauge and then of the log.        *)
(***************************************************************************)
EXTENDS Naturals, Sequences, FiniteSets, FiniteSetsExt

CONSTANTS Procs,      \* requests
          Patterns,   \* routes the router knows
          NoPattern,  \* the pattern of a request that was not routed
          Codes       \* codes a handler may write

MiddlewareAssumption == /\ IsFiniteSet(Procs) /\ NoPattern \notin Patterns
                        /\ 200 \in Codes /\ {0, 401, 500} \cap Codes = {}

VARIABLES pc, token,     \* each request: where it is, what CheckToken says of its token
          id, status,    \* the locals of requestlog: reqID and writer.status
          pattern, sent, \* the route found, the code the client sees (0: none yet)
          cnt, log,      \* of requestlog: the counter and the lines
          metrics, shown \* of the gauge: the counters, a snapshot of them

vars == <<pc, token, id, status, pattern, sent, cnt, log, metrics, shown>>

All(x) == [p \in Procs |-> x]
Routes == Patterns \cup {NoPattern}

Init ==
  /\ pc = All("new") /\ token = All("none") /\ id = All(0) /\ status = All(200)
  /\ pattern = All(NoPattern) /\ sent = All(0) /\ cnt = 0 /\ log = <<>>
  /\ metrics = [r \in Routes |-> 0] /\ shown = metrics

Goto(p, from, to) == pc[p] = from /\ pc' = [pc EXCEPT ![p] = to]
Line(p, msg)      == [id |-> id[p], msg |-> msg, status |-> status[p]]

\* requestlog takes an id: the counter is incremented and read in one step.
\* Mutant: it is read again after it was incremented.
MutantTakeId(p, t) ==
  \/ Goto(p, "new", "counted") /\ cnt' = cnt + 1 /\ token' = [token EXCEPT ![p] = t]
     /\ UNCHANGED <<id, status, pattern, sent, log, metrics, shown>>
  \/ Goto(p, "counted", "begin") /\ id' = [id EXCEPT ![p] = cnt]
     /\ UNCHANGED <<token, cnt, status, pattern, sent, log, metrics, shown>>
TakeId(p, t) ==
  /\ Goto(p, "new", "begin") /\ cnt' = cnt + 1 /\ id' = [id EXCEPT ![p] = cnt + 1]
  /\ token' = [token EXCEPT ![p] = t] /\ UNCHANGED <<status, pattern, sent, log, metrics, shown>>

Started(p) ==
  /\ Goto(p, "begin", "auth") /\ log' = Append(log, Line(p, "started"))
  /\ UNCHANGED <<token, id, status, pattern, sent, cnt, metrics, shown>>

\* WriteHeader of the wrapper, on its way to the client.
WriteHeader(p, c) == status' = [status EXCEPT ![p] = c] /\ sent' = [sent EXCEPT ![p] = c]

\* CheckAuth: a request without a bearer token or with an invalid one, and one
\* whose token could not be checked, do not reach the router.
Reject(p) ==
  /\ token[p] # "valid" /\ Goto(p, "auth", "gauge")
  /\ WriteHeader(p, IF token[p] = "failing" THEN 500 ELSE 401)
  /\ UNCHANGED <<token, id, pattern, cnt, log, metrics, shown>>

Route(p, r) ==
  /\ token[p] = "valid" /\ Goto(p, "auth", "handler") /\ pattern' = [pattern EXCEPT ![p] = r]
  /\ UNCHANGED <<token, id, status, sent, cnt, log, metrics, shown>>

\* The handler writes one header at most, and returns or panics.
HandlerWrites(p, c) ==
  /\ pc[p] = "handler" /\ sent[p] = 0 /\ WriteHeader(p, c)
  /\ UNCHANGED <<pc, token, id, pattern, cnt, log, metrics, shown>>

HandlerReturns(p) ==
  /\ Goto(p, "handler", "gauge") \/ Goto(p, "handler", "gauge panicking")
  /\ UNCHANGED <<token, id, status, pattern, sent, cnt, log, metrics, shown>>

\* The gauge's deferred function, under its mutex; it runs in a panic too.
Count(p) ==
  /\ Goto(p, "gauge", "log") \/ Goto(p, "gauge panicking", "log panicking")
  /\ metrics' = [metrics EXCEPT ![pattern[p]] = @ + 1]
  /\ UNCHANGED <<token, id, status, pattern, sent, cnt, log, shown>>

\* requestlog's deferred function.  It panics again; the server then drops the
\* connection.  A handler that wrote nothing has answered 200.
Finished(p) ==
  /\ Goto(p, "log", "answered") /\ log' = Append(log, Line(p, "finished"))
  /\ sent' = [sent EXCEPT ![p] = IF @ = 0 THEN 200 ELSE @]
  /\ UNCHANGED <<token, id, status, pattern, cnt, metrics, shown>>

Panicked(p) ==
  /\ Goto(p, "log panicking", "dropped") /\ log' = Append(log, Line(p, "panicked"))
  /\ UNCHANGED <<token, id, status, pattern, sent, cnt, metrics, shown>>

\* ServeHTTP of the gauge prints a copy of the counters taken under the mutex.
Snapshot == /\ shown' = metrics /\ shown # metrics
            /\ UNCHANGED <<pc, token, id, status, pattern, sent, cnt, log, metrics>>

Next ==
  \/ Snapshot
  \/ \E p \in Procs :
       \/ \E t \in {"none", "invalid", "failing", "valid"} : TakeId(p, t)
       \/ Started(p) \/ Reject(p) \/ \E r \in Patterns : Route(p, r)
       \/ \E c \in Codes : HandlerWrites(p, c)
       \/ HandlerReturns(p) \/ Count(p) \/ Finished(p) \/ Panicked(p)

Spec == Init /\ [][Next]_vars

-----------------------------------------------------------------------------
At(S) == {p \in Procs : pc[p] \in S}
Over  == At({"answered", "dropped"})

TypeOK ==
  /\ token \in [Procs -> {"none", "invalid", "failing", "valid"}]
  /\ pattern \in [Procs -> Routes] /\ cnt <= Cardinality(Procs)
  /\ metrics \in [Routes -> Nat] /\ shown \in [Routes -> Nat]

\* Where in the log the lines with p's id are.
Lines(p) == {k \in DOMAIN log : id[p] # 0 /\ log[k].id = id[p]}

(***************************************************************************)
(* README.md of requestlog: every request writes two lines, which an id of *)
(* its own joins; the second says whether it panicked, and the code the    *)
(* client got, whatever the requests beside it do.                         *)
(***************************************************************************)
TwoLines == \A p \in Over : \E a, b \in DOMAIN log :
  /\ Lines(p) = {a, b} /\ a < b /\ log[a].msg = "started"
  /\ log[b].msg = IF pc[p] = "answered" THEN "finished" ELSE "panicked"
  /\ pc[p] = "answered" => log[b].status = sent[p]

(***************************************************************************)
(* The gauge counts every request it let through once, under the route it  *)
(* took, panic or not; a snapshot never shows more than there were.        *)
(***************************************************************************)
CountedOnce == \A r \in Routes :
  /\ metrics[r] = Cardinality({p \in Over \cup At({"log", "log panicking"}) : pattern[p] = r})
  /\ shown[r] <= metrics[r]

\* README.md of auth: no handler runs for a request whose token is not known to
\* be valid; and only a failing check, not a bad token, answers 500.
NobodyUnknown == \A p \in Procs :
  /\ pattern[p] # NoPattern => token[p] = "valid"
  /\ sent[p] = 500 => token[p] = "failing"

EveryRequestAccounted == TwoLines /\ CountedOnce /\ NobodyUnknown
=============================================================================
