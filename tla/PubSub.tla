-------------------------------- MODULE PubSub --------------------------------
(***************************************************************************)
(* golang/shmem/pubsub/my_pubsub.go: a publish-subscribe bus.  p.mu guards *)
(* the table of subscriptions; each subscription has a queue with its own  *)
(* mutex and a goroutine, deliverLoop, that calls the handler on one       *)
(* message after the other and sleeps on a condition variable.             *)
(*                                                                         *)
(* Publish copies the subscriptions of the subject under p.mu and appends  *)
(* to their queues after releasing it, so Unsubscribe and Close can come   *)
(* in between.  A section under one mutex is one step; Close keeps p.mu    *)
(* over its visits to the queues, hence pmu.  Calls on a closed bus return *)
(* an error and change nothing.                                            *)
(*                                                                         *)
(* A message is named for its publisher and its number.  Handlers take     *)
(* any time and do not call the bus.                                       *)
(***************************************************************************)
EXTENDS Naturals, Sequences, SequencesExt

CONSTANTS Clients,   \* goroutines that call the bus
          Closer,    \* the one of them that calls Close, once
          Subjects,
          SubIds,    \* subscriptions that can be made
          Publishers,  \* bound: the clients that publish
          MaxMsgs      \* bound: how many messages each of them publishes

ASSUME PubSubAssumption == Closer \in Clients /\ MaxMsgs \in Nat

VARIABLES subs, finita, pmu,     \* MyPubSub: subscriptions by subject, closed, whether Close holds p.mu
          msgs, isUnsub, loop,   \* MySubscription, and where its deliverLoop is
          pc, todo, sent,        \* clients: where, queues still to visit, messages published
          ctx, closed,           \* whether Close's context is done, what Close returned
          handled,               \* history: the messages each handler was called with
          early,                 \* history: <<s, m>>, m was appended to s before Close
          unsubbed, late         \* history: s after Unsubscribe; <<s, m>>, m was published after that

busVars  == <<subs, finita, pmu>>
subVars  == <<msgs, isUnsub, loop, handled>>
callVars == <<pc, todo, sent>>
endVars  == <<ctx, closed>>
history  == <<early, unsubbed, late>>
vars     == <<busVars, subVars, callVars, endVars, history>>

Init ==
  /\ subs = [j \in Subjects |-> {}] /\ finita = FALSE /\ pmu = FALSE
  /\ msgs = [s \in SubIds |-> <<>>] /\ isUnsub = [s \in SubIds |-> FALSE]
  /\ loop = [s \in SubIds |-> "none"] /\ handled = [s \in SubIds |-> <<>>]
  /\ pc = [c \in Clients |-> "idle"] /\ todo = [c \in Clients |-> {}]
  /\ sent = [c \in Clients |-> 0] /\ ctx = FALSE /\ closed = "no"
  /\ early = {} /\ unsubbed = {} /\ late = {}

Goto(c, from, to) == pc[c] = from /\ pc' = [pc EXCEPT ![c] = to]
LoopTo(s, from, to) == loop[s] = from /\ loop' = [loop EXCEPT ![s] = to]
Visit(c, s) == s \in todo[c] /\ todo' = [todo EXCEPT ![c] = @ \ {s}]

\* cond.Signal: only the loop waits on the condition.
MutantSignal(s) == UNCHANGED loop
Signal(s) == loop' = [loop EXCEPT ![s] = IF @ = "asleep" THEN "check" ELSE @]

Subscribe(c, j, s) ==
  /\ pc[c] = "idle" /\ ~pmu /\ ~finita
  /\ subs' = [subs EXCEPT ![j] = @ \cup {s}]
  /\ LoopTo(s, "none", "check")
  /\ UNCHANGED <<finita, pmu, msgs, isUnsub, handled, callVars, endVars, history>>

\* Publish: the copy of the subscriptions, then one append per queue in the
\* order the map gave.
Publish(c, j) ==
  /\ c \in Publishers /\ ~pmu /\ ~finita /\ sent[c] < MaxMsgs
  /\ Goto(c, "idle", "publish")
  /\ sent' = [sent EXCEPT ![c] = @ + 1]
  /\ todo' = [todo EXCEPT ![c] = subs[j]]
  /\ late' = late \cup {<<s, <<c, sent'[c]>>>> : s \in unsubbed}
  /\ UNCHANGED <<busVars, subVars, endVars, early, unsubbed>>

MutantEnqueue(q, m) == Cons(m, q)
Enqueue(q, m) == Append(q, m)

AppendMsg(c, s) ==
  /\ pc[c] = "publish" /\ Visit(c, s)
  /\ msgs' = [msgs EXCEPT ![s] = Enqueue(@, <<c, sent[c]>>)]
  /\ Signal(s)
  /\ early' = IF finita THEN early ELSE early \cup {<<s, <<c, sent[c]>>>>}
  /\ UNCHANGED <<busVars, isUnsub, handled, pc, sent, endVars, unsubbed, late>>

\* Mutant: the handler runs with the mutex of the queue held.
MutantAppendTo(c, s) == loop[s] # "handler" /\ AppendMsg(c, s)
AppendTo(c, s) == AppendMsg(c, s)

PublishReturns(c) ==
  /\ todo[c] = {} /\ Goto(c, "publish", "idle")
  /\ UNCHANGED <<busVars, subVars, todo, sent, endVars, history>>

\* Unsubscribe: out of the table; then the queue is marked and emptied.
MutantLeaveTable(c, s) ==
  /\ ~pmu /\ loop[s] # "none" /\ s \notin unsubbed
  /\ Goto(c, "idle", "unsubscribe") /\ todo' = [todo EXCEPT ![c] = {s}]
  /\ UNCHANGED <<busVars, subVars, sent, endVars, history>>

LeaveTable(c, s) ==
  /\ ~pmu /\ loop[s] # "none" /\ s \notin unsubbed
  /\ Goto(c, "idle", "unsubscribe") /\ todo' = [todo EXCEPT ![c] = {s}]
  /\ subs' = [j \in Subjects |-> subs[j] \ {s}]
  /\ UNCHANGED <<finita, pmu, subVars, sent, endVars, history>>

DropQueue(c, s) ==
  /\ Visit(c, s) /\ Goto(c, "unsubscribe", "idle")
  /\ isUnsub' = [isUnsub EXCEPT ![s] = TRUE]
  /\ msgs' = [msgs EXCEPT ![s] = <<>>]
  /\ Signal(s)
  /\ unsubbed' = unsubbed \cup {s}
  /\ UNCHANGED <<busVars, handled, sent, endVars, early, late>>

\* Close: under p.mu every subscription is marked; then wait for the loops to
\* exit (p.wg) or for the context.
CloseStart ==
  /\ ~pmu /\ closed = "no" /\ Goto(Closer, "idle", "close")
  /\ pmu' = TRUE /\ finita' = TRUE
  /\ todo' = [todo EXCEPT ![Closer] = UNION {subs[j] : j \in Subjects}]
  /\ UNCHANGED <<subs, subVars, sent, endVars, history>>

CloseMarks(s) ==
  /\ pc[Closer] = "close" /\ Visit(Closer, s)
  /\ isUnsub' = [isUnsub EXCEPT ![s] = TRUE]
  /\ Signal(s)
  /\ UNCHANGED <<busVars, msgs, handled, pc, sent, endVars, history>>

CloseUnlocks ==
  /\ todo[Closer] = {} /\ Goto(Closer, "close", "waiting")
  /\ pmu' = FALSE
  /\ UNCHANGED <<subs, finita, subVars, todo, sent, endVars, history>>

CloseReturns ==
  /\ Goto(Closer, "waiting", "idle")
  /\ \/ closed' = "nil" /\ \A s \in SubIds : loop[s] \in {"none", "exited"}
     \/ closed' = "ctx" /\ ctx
  /\ UNCHANGED <<busVars, subVars, todo, sent, ctx, history>>

CtxDone ==
  /\ ~ctx /\ ctx' = TRUE
  /\ UNCHANGED <<busVars, subVars, callVars, closed, history>>

\* deliverLoop: sleep while there is nothing to do, exit when unsubscribed
\* with an empty queue, otherwise take a message and run the handler.
Sleep(s) ==
  /\ msgs[s] = <<>> /\ ~isUnsub[s] /\ LoopTo(s, "check", "asleep")
  /\ UNCHANGED <<busVars, msgs, isUnsub, handled, callVars, endVars, history>>

MutantExit(s) ==
  /\ isUnsub[s] /\ LoopTo(s, "check", "exited")
  /\ UNCHANGED <<busVars, msgs, isUnsub, handled, callVars, endVars, history>>

Exit(s) ==
  /\ msgs[s] = <<>> /\ isUnsub[s] /\ LoopTo(s, "check", "exited")
  /\ UNCHANGED <<busVars, msgs, isUnsub, handled, callVars, endVars, history>>

Handle(s) ==
  /\ msgs[s] # <<>> /\ LoopTo(s, "check", "handler")
  /\ msgs' = [msgs EXCEPT ![s] = Tail(@)]
  /\ handled' = [handled EXCEPT ![s] = Append(@, Head(msgs[s]))]
  /\ UNCHANGED <<busVars, isUnsub, callVars, endVars, history>>

HandlerReturns(s) ==
  /\ LoopTo(s, "handler", "check")
  /\ UNCHANGED <<busVars, msgs, isUnsub, handled, callVars, endVars, history>>

InCall(c) == PublishReturns(c) \/ \E s \in SubIds : AppendTo(c, s) \/ DropQueue(c, s)
InClose   == CloseUnlocks \/ CloseReturns \/ \E s \in SubIds : CloseMarks(s)
InLoop(s) == Sleep(s) \/ Exit(s) \/ Handle(s)

Next ==
  \/ \E c \in Clients, j \in Subjects : Publish(c, j) \/ \E s \in SubIds : Subscribe(c, j, s)
  \/ \E c \in Clients : InCall(c) \/ \E s \in SubIds : LeaveTable(c, s)
  \/ CloseStart \/ InClose \/ CtxDone
  \/ \E s \in SubIds : InLoop(s) \/ HandlerReturns(s)

Spec == Init /\ [][Next]_vars

(***************************************************************************)
(* Fairness: the scheduler runs goroutines that can run.  Handlers may run *)
(* for ever; HandlersReturn says that they do not.                         *)
(***************************************************************************)
SchedSpec == /\ Spec /\ WF_vars(InClose)
             /\ \A c \in Clients : WF_vars(InCall(c))
             /\ \A s \in SubIds : WF_vars(InLoop(s))
HandlersReturn == \A s \in SubIds : WF_vars(HandlerReturns(s))

-----------------------------------------------------------------------------
(***************************************************************************)
(* README of pubsub: messages keep their order.  A subscriber gets those   *)
(* of one publisher in the order they were published, each once.           *)
(***************************************************************************)
PublisherOrder ==
  \A s \in SubIds : LET q == handled[s] \o msgs[s] IN
    \A i, k \in 1..Len(q) : i < k /\ q[i][1] = q[k][1] => q[i][2] < q[k][2]

(***************************************************************************)
(* A message published after Unsubscribe returned never reaches the        *)
(* subscription, not even its queue; one being published meanwhile may.    *)
(***************************************************************************)
UnsubscribedGetsNothingNew ==
  \A e \in late : e[2] \notin Range(handled[e[1]] \o msgs[e[1]])

(***************************************************************************)
(* Test TestPubSub_closeWaitsMessageDelivery: when Close returns nil, the  *)
(* handlers have run on every message appended before it was called.       *)
(***************************************************************************)
CloseWaitsForDelivery ==
  closed = "nil" =>
    \A e \in early : e[1] \in unsubbed \/ e[2] \in Range(handled[e[1]])

\* The three together: what a subscription gets, and when.
DeliveredRight == PublisherOrder /\ UnsubscribedGetsNothingNew /\ CloseWaitsForDelivery

(***************************************************************************)
(* README: a slow subscriber does not hold up the others, and Close        *)
(* respects its context.  Although a handler never returns, Publish and a  *)
(* Close whose context is done return and the other queues are served.     *)
(***************************************************************************)
SlowHandlerHoldsUpNobody ==
  /\ \A c \in Clients : pc[c] = "publish" ~> pc[c] = "idle"
  /\ pc[Closer] \in {"close", "waiting"} /\ ctx ~> pc[Closer] = "idle"
  /\ \A s \in SubIds : msgs[s] # <<>> /\ loop[s] # "exited"
                         ~> msgs[s] = <<>> \/ loop[s] = "handler"

\* README: goroutines do not leak; after Close every deliverLoop exits
\* if handlers return.
NoGoroutineLeaks ==
  HandlersReturn => (finita ~> \A s \in SubIds : loop[s] \in {"none", "exited"})
=============================================================================
