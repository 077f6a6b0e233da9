----------------------------- MODULE PubSubProofs -----------------------------
(* Proofs about PubSub, for any clients, subjects, subscriptions and messages. *)
EXTENDS PubSub, TLAPS

Msg == Clients \X Nat

Types ==
  /\ subs \in [Subjects -> SUBSET SubIds] /\ finita \in BOOLEAN
  /\ msgs \in [SubIds -> Seq(Msg)] /\ handled \in [SubIds -> Seq(Msg)]
  /\ isUnsub \in [SubIds -> BOOLEAN]
  /\ loop \in [SubIds -> {"none", "check", "asleep", "handler", "exited"}]
  /\ pc \in [Clients -> {"idle", "publish", "unsubscribe", "close", "waiting"}]
  /\ todo \in [Clients -> SUBSET SubIds] /\ sent \in [Clients -> Nat]
  /\ early \in SUBSET (SubIds \X Msg) /\ late \in SUBSET (SubIds \X Msg)
  /\ unsubbed \in SUBSET SubIds

\* What each subscription got: what its handler was called with, then its queue.
Got == [s \in SubIds |-> handled[s] \o msgs[s]]

\* Message m is in the sequence q.
In(m, q) == \E i \in 1..Len(q) : q[i] = m

Ordered(q) == \A i, k \in 1..Len(q) : i < k /\ q[i][1] = q[k][1] => q[i][2] < q[k][2]

(***************************************************************************)
(* A subscription in the table or to be visited has been made; Unsubscribe *)
(* takes it off the table before it marks it.                              *)
(***************************************************************************)
Table ==
  /\ \A j \in Subjects : \A s \in subs[j] : loop[s] # "none" /\ s \notin unsubbed
  /\ \A c \in Clients : \A s \in todo[c] :
       /\ loop[s] # "none"
       /\ pc[c] = "unsubscribe" => \A j \in Subjects : s \notin subs[j]
  /\ \A s \in unsubbed : loop[s] # "none"

\* Only marked loops exit; marks come from Unsubscribe or Close.
Marks ==
  /\ \A s \in SubIds : isUnsub[s] \/ loop[s] = "exited" => finita \/ s \in unsubbed
  /\ pc[Closer] \in {"close", "waiting"} => finita
  /\ closed = "nil" => finita /\ \A s \in SubIds : loop[s] \in {"none", "exited"}

(***************************************************************************)
(* Messages carry numbers up to their publisher's last; one on its way to  *)
(* a queue is newer than all of its publisher's there.                     *)
(***************************************************************************)
Numbered ==
  \A s \in SubIds :
    /\ Ordered(Got[s])
    /\ \A c \in Clients, n \in Nat : In(<<c, n>>, Got[s]) =>
         /\ n <= sent[c]
         /\ pc[c] = "publish" /\ s \in todo[c] => n < sent[c]

\* What was published after Unsubscribe is not on its way to the subscription.
LateIsLost ==
  \A s \in SubIds, c \in Clients, n \in Nat : <<s, <<c, n>>>> \in late =>
    /\ n <= sent[c] /\ ~In(<<c, n>>, Got[s])
    /\ pc[c] = "publish" /\ s \in todo[c] => n < sent[c]

\* What was appended before Close is in the queue or handled, and handled when the loop exits.
EarlyIsKept ==
  \A s \in SubIds, m \in Msg : <<s, m>> \in early /\ s \notin unsubbed =>
    /\ loop[s] # "none" /\ In(m, Got[s])
    /\ loop[s] = "exited" => In(m, handled[s])

IInv == Types /\ Table /\ Marks /\ Numbered /\ LateIsLost /\ EarlyIsKept

LEMMA InitIInv == Init => IInv
<1> SUFFICES ASSUME Init PROVE IInv
  OBVIOUS
<1> USE PubSubAssumption DEF Init
<1>1. Types
  <2>1. finita \in BOOLEAN
    OBVIOUS
  <2>2. <<>> \in Seq(Msg)
    OBVIOUS
  <2>3. QED BY <2>1, <2>2 DEF Types
<1>2. Table /\ Marks
  BY DEF Table, Marks
<1>3. Got = [s \in SubIds |-> <<>>]
  BY DEF Got
<1>4. Numbered /\ LateIsLost /\ EarlyIsKept
  BY <1>3 DEF Numbered, Ordered, LateIsLost, EarlyIsKept, In
<1>5. QED BY <1>1, <1>2, <1>4 DEF IInv

\* The message moves from the queue to the handler, and what s got stays the same.
LEMMA HandleKeeps ==
  ASSUME NEW h \in Seq(Msg), NEW q \in Seq(Msg), q # <<>>
  PROVE  Append(h, Head(q)) \o Tail(q) = h \o q
OBVIOUS

LEMMA AppendIsLast ==
  ASSUME NEW h \in Seq(Msg), NEW q \in Seq(Msg), NEW x \in Msg
  PROVE  h \o Append(q, x) = Append(h \o q, x)
OBVIOUS

LEMMA OrderedAppend ==
  ASSUME NEW q \in Seq(Msg), Ordered(q), NEW c \in Clients, NEW k \in Nat,
         \A n \in Nat : In(<<c, n>>, q) => n < k
  PROVE  Ordered(Append(q, <<c, k>>))
<1>1. \A i \in 1..Len(q) : q[i] \in Clients \X Nat /\ (q[i][1] = c => q[i][2] < k)
  <2> SUFFICES ASSUME NEW i \in 1..Len(q), q[i][1] = c PROVE q[i][2] < k
    BY DEF Msg
  <2>1. q[i] = <<c, q[i][2]>> /\ q[i][2] \in Nat
    BY DEF Msg
  <2>2. QED BY <2>1 DEF In
<1>2. /\ Len(Append(q, <<c, k>>)) = Len(q) + 1
      /\ \A i \in 1..Len(q) : Append(q, <<c, k>>)[i] = q[i]
      /\ Append(q, <<c, k>>)[Len(q) + 1] = <<c, k>>
  OBVIOUS
<1>3. SUFFICES ASSUME NEW i \in 1..(Len(q) + 1), NEW j \in 1..(Len(q) + 1), i < j,
                      Append(q, <<c, k>>)[i][1] = Append(q, <<c, k>>)[j][1]
               PROVE  Append(q, <<c, k>>)[i][2] < Append(q, <<c, k>>)[j][2]
  BY <1>2 DEF Ordered
<1>4. i \in 1..Len(q)
  BY <1>3
<1>5. CASE j = Len(q) + 1
  BY <1>1, <1>2, <1>3, <1>4, <1>5
<1>6. CASE j \in 1..Len(q)
  BY <1>2, <1>3, <1>4, <1>6 DEF Ordered
<1>7. QED BY <1>5, <1>6

LEMMA InAppend ==
  ASSUME NEW q \in Seq(Msg), NEW x \in Msg, NEW m
  PROVE  In(m, Append(q, x)) <=> In(m, q) \/ m = x
<1>1. /\ Len(q) \in Nat /\ Len(Append(q, x)) = Len(q) + 1
      /\ \A i \in 1..Len(q) : Append(q, x)[i] = q[i]
      /\ Append(q, x)[Len(q) + 1] = x
  OBVIOUS
<1>2. \A i \in 1..(Len(q) + 1) : i \in 1..Len(q) \/ i = Len(q) + 1
  BY <1>1
<1>3. Len(q) + 1 \in 1..(Len(q) + 1) /\ 1..Len(q) \subseteq 1..(Len(q) + 1)
  BY <1>1
<1>4. QED BY <1>1, <1>2, <1>3 DEF In

\* What the handler has seen is ordered if all s got is, and part of it.
LEMMA Prefix ==
  ASSUME NEW h \in Seq(Msg), NEW q \in Seq(Msg)
  PROVE  /\ Ordered(h \o q) => Ordered(h)
         /\ \A m : In(m, h) => In(m, h \o q)
<1>1. /\ Len(h) \in Nat /\ Len(h \o q) \in Nat /\ Len(h) <= Len(h \o q)
      /\ \A i \in 1..Len(h) : (h \o q)[i] = h[i]
  OBVIOUS
<1>2. 1..Len(h) \subseteq 1..Len(h \o q)
  BY <1>1
<1>3. QED BY <1>1, <1>2 DEF Ordered, In

\* Got is the only thing the rest of the proof says about handled and msgs together.
LEMMA GotType == Types => Got \in [SubIds -> Seq(Msg)]
BY DEF Types, Got

LEMMA GotAt == \A s \in SubIds : /\ Got[s] = handled[s] \o msgs[s]
                                /\ Got'[s] = handled'[s] \o msgs'[s]
BY DEF Got

LEMMA NextTypes == Types /\ [Next]_vars => Types'
<1> SUFFICES ASSUME Types, [Next]_vars PROVE Types'
  OBVIOUS
<1> USE PubSubAssumption DEF Types, busVars, subVars, callVars, endVars, history, Msg
<1>1. ASSUME NEW c \in Clients, NEW j \in Subjects, Publish(c, j) PROVE Types'
  BY <1>1 DEF Publish, Goto
<1>2. ASSUME NEW c \in Clients, NEW j \in Subjects, NEW s \in SubIds, Subscribe(c, j, s) PROVE Types'
  BY <1>2 DEF Subscribe, LoopTo
<1>3. ASSUME NEW c \in Clients, PublishReturns(c) PROVE Types'
  BY <1>3 DEF PublishReturns, Goto
<1>4. ASSUME NEW c \in Clients, NEW s \in SubIds, AppendTo(c, s) PROVE Types'
  BY <1>4 DEF AppendTo, AppendMsg, Visit, Signal, Enqueue
<1>5. ASSUME NEW c \in Clients, NEW s \in SubIds, DropQueue(c, s) PROVE Types'
  BY <1>5 DEF DropQueue, Visit, Goto, Signal
<1>6. ASSUME NEW c \in Clients, NEW s \in SubIds, LeaveTable(c, s) PROVE Types'
  BY <1>6 DEF LeaveTable, Goto
<1>7. CASE CloseStart
  BY <1>7 DEF CloseStart, Goto
<1>8. ASSUME NEW s \in SubIds, CloseMarks(s) PROVE Types'
  BY <1>8 DEF CloseMarks, Visit, Signal
<1>9. CASE CloseUnlocks \/ CloseReturns \/ CtxDone
  BY <1>9 DEF CloseUnlocks, CloseReturns, CtxDone, Goto
<1>10. ASSUME NEW s \in SubIds, Sleep(s) \/ Exit(s) \/ HandlerReturns(s) PROVE Types'
  BY <1>10 DEF Sleep, Exit, HandlerReturns, LoopTo
<1>11. ASSUME NEW s \in SubIds, Handle(s) PROVE Types'
  <2>1. /\ msgs[s] \in Seq(Msg) /\ msgs[s] # <<>> /\ handled[s] \in Seq(Msg)
        /\ msgs' = [msgs EXCEPT ![s] = Tail(@)]
        /\ handled' = [handled EXCEPT ![s] = Append(@, Head(msgs[s]))]
        /\ loop' = [loop EXCEPT ![s] = "handler"]
    BY <1>11 DEF Handle, LoopTo
  <2>2. Tail(msgs[s]) \in Seq(Msg) /\ Append(handled[s], Head(msgs[s])) \in Seq(Msg)
    BY <2>1
  <2>3. QED BY <1>11, <2>1, <2>2, SMTT(30) DEF Handle
<1>12. CASE UNCHANGED vars
  BY <1>12 DEF vars
<1>13. QED
  BY <1>1, <1>2, <1>3, <1>4, <1>5, <1>6, <1>7, <1>8, <1>9, <1>10, <1>11, <1>12
     DEF Next, InCall, InClose, InLoop

\* Steps that publish and deliver nothing keep the order and what is late.
LEMMA NothingSent ==
  ASSUME Numbered, LateIsLost, Got' = Got, sent' = sent, late' = late,
         \A c \in Clients, s \in SubIds :
           pc'[c] = "publish" /\ s \in todo'[c] => pc[c] = "publish" /\ s \in todo[c]
  PROVE  (Numbered /\ LateIsLost)'
<1>1. Numbered'
  BY DEF Numbered
<1>2. LateIsLost'
  BY DEF LateIsLost
<1>3. QED BY <1>1, <1>2

\* Nor do they lose what was appended before Close, unless a loop exits.
LEMMA NothingLost ==
  ASSUME EarlyIsKept, Got' = Got, early' = early, unsubbed \subseteq unsubbed',
         \A s \in SubIds : /\ loop'[s] = "none" => loop[s] = "none"
                           /\ loop'[s] = "exited" => loop[s] = "exited" /\ handled'[s] = handled[s]
  PROVE  EarlyIsKept'
<1> SUFFICES ASSUME NEW s \in SubIds, NEW m \in Msg, <<s, m>> \in early', s \notin unsubbed'
             PROVE  /\ loop'[s] # "none" /\ In(m, Got'[s])
                    /\ loop'[s] = "exited" => In(m, handled'[s])
  BY DEF EarlyIsKept
<1>1. /\ loop[s] # "none" /\ In(m, Got[s])
      /\ loop[s] = "exited" => In(m, handled[s])
  BY DEF EarlyIsKept
<1>2. Got'[s] = Got[s] /\ loop'[s] # "none"
  BY <1>1
<1>3. ASSUME loop'[s] = "exited" PROVE In(m, handled'[s])
  <2>1. loop[s] = "exited" /\ handled'[s] = handled[s]
    BY <1>3
  <2>2. QED BY <1>1, <2>1
<1>4. QED BY <1>1, <1>2, <1>3

LEMMA NextIInv == IInv /\ [Next]_vars => IInv'
<1> SUFFICES ASSUME IInv, [Next]_vars PROVE IInv'
  OBVIOUS
<1>0. Types /\ Types'
  BY NextTypes DEF IInv
<1> USE PubSubAssumption DEF busVars, subVars, callVars, endVars, history
<1>1. ASSUME NEW c \in Clients, NEW j \in Subjects, Publish(c, j) PROVE IInv'
  <2>1. Got' = Got
    BY <1>1 DEF Publish, Got
  <2>2. /\ sent' = [sent EXCEPT ![c] = sent[c] + 1] /\ todo' = [todo EXCEPT ![c] = subs[j]]
        /\ pc[c] = "idle" /\ pc' = [pc EXCEPT ![c] = "publish"]
        /\ late' = late \cup {<<s, <<c, sent[c] + 1>>>> : s \in unsubbed}
    BY <1>0, <1>1 DEF Publish, Goto, Types
  <2>3. (Table /\ Marks)'
    BY <1>0, <1>1, <2>2 DEF IInv, Publish, Table, Marks, Types
  <2>4. Numbered'
    BY <1>0, <2>1, <2>2 DEF IInv, Numbered, Types
  <2>5. LateIsLost'
    BY <1>0, <2>1, <2>2 DEF IInv, LateIsLost, Numbered, Table, Types
  <2>6. EarlyIsKept'
    BY <1>1, <2>1, NothingLost DEF IInv, Publish
  <2>7. QED BY <1>0, <2>3, <2>4, <2>5, <2>6 DEF IInv
<1>2. ASSUME NEW c \in Clients, NEW s \in SubIds, AppendTo(c, s) PROVE IInv'
  <2>1. /\ pc[c] = "publish" /\ s \in todo[c] /\ todo' = [todo EXCEPT ![c] = @ \ {s}]
        /\ msgs' = [msgs EXCEPT ![s] = Append(@, <<c, sent[c]>>)]
        /\ loop' = [loop EXCEPT ![s] = IF @ = "asleep" THEN "check" ELSE @]
        /\ pc' = pc /\ sent' = sent /\ late' = late /\ handled' = handled
        /\ unsubbed' = unsubbed /\ subs' = subs /\ isUnsub' = isUnsub /\ closed' = closed
    BY <1>2 DEF AppendTo, AppendMsg, Visit, Signal, Enqueue
  <2>2. (Table /\ Marks)'
    BY <1>0, <1>2, <2>1 DEF IInv, AppendTo, AppendMsg, Table, Marks, Types
  <2> DEFINE x == <<c, sent[c]>>
  <2>3. x \in Msg
    BY <1>0 DEF Types, Msg
  <2>4. Got'[s] = Append(Got[s], x)
    <3>1. handled[s] \in Seq(Msg) /\ msgs[s] \in Seq(Msg) /\ handled'[s] = handled[s] /\ msgs'[s] = Append(msgs[s], x)
      BY <1>0, <2>1 DEF Types
    <3>2. QED BY <2>3, <3>1, AppendIsLast, GotAt
  <2>5. Got[s] \in Seq(Msg) /\ \A m : In(m, Append(Got[s], x)) <=> In(m, Got[s]) \/ m = x
    BY <1>0, <2>3, GotType, InAppend
  <2>6. \A n \in Nat : In(<<c, n>>, Got[s]) => n < sent[c]
    BY <2>1 DEF IInv, Numbered
  <2>7. Ordered(Append(Got[s], x))
    BY <1>0, <2>5, <2>6, OrderedAppend DEF IInv, Numbered, Types
  <2>8. \A r \in SubIds \ {s} : Got'[r] = Got[r]
    BY <1>0, <2>1, GotAt, ZenonT(60) DEF Types
  <2>9. \A d \in Clients : todo'[d] = IF d = c THEN todo[d] \ {s} ELSE todo[d]
    BY <1>0, <2>1, ZenonT(60) DEF Types
  <2>10. Numbered'
    <3> SUFFICES ASSUME NEW r \in SubIds
                 PROVE  /\ Ordered(Got'[r])
                        /\ \A d \in Clients, n \in Nat : In(<<d, n>>, Got'[r]) =>
                             /\ n <= sent[d]
                             /\ pc[d] = "publish" /\ r \in todo'[d] => n < sent[d]
      BY <2>1 DEF Numbered
    <3>1. CASE r = s
      <4>1. Ordered(Got'[r])
        BY <2>4, <2>7, <3>1
      <4>2. ASSUME NEW d \in Clients, NEW n \in Nat, In(<<d, n>>, Got'[r])
            PROVE  /\ n <= sent[d]
                   /\ pc[d] = "publish" /\ r \in todo'[d] => n < sent[d]
        <5>1. CASE In(<<d, n>>, Got[s])
          BY <3>1, <5>1, <2>9 DEF IInv, Numbered
        <5>2. CASE d = c /\ n = sent[c]
          BY <1>0, <3>1, <5>2, <2>9 DEF Types
        <5>3. QED BY <2>4, <2>5, <3>1, <4>2, <5>1, <5>2
      <4>3. QED BY <4>1, <4>2
    <3>2. CASE r # s
      BY <2>8, <2>9, <3>2 DEF IInv, Numbered
    <3>3. QED BY <3>1, <3>2
  <2>11. LateIsLost'
    <3> SUFFICES ASSUME NEW r \in SubIds, NEW d \in Clients, NEW n \in Nat, <<r, <<d, n>>>> \in late
                 PROVE  /\ n <= sent[d] /\ ~In(<<d, n>>, Got'[r])
                        /\ pc[d] = "publish" /\ r \in todo'[d] => n < sent[d]
      BY <2>1 DEF LateIsLost
    <3>2. /\ n <= sent[d] /\ ~In(<<d, n>>, Got[r])
          /\ pc[d] = "publish" /\ r \in todo[d] => n < sent[d]
      BY DEF IInv, LateIsLost
    <3>3. CASE r = s
      <4>1. <<d, n>> # x
        BY <1>0, <2>1, <3>2, <3>3 DEF Types
      <4>2. QED BY <2>4, <2>5, <2>9, <3>2, <3>3, <4>1
    <3>4. CASE r # s
      BY <2>8, <2>9, <3>2, <3>4
    <3>5. QED BY <3>3, <3>4
  <2>12. EarlyIsKept'
    <3> SUFFICES ASSUME NEW r \in SubIds, NEW m \in Msg, <<r, m>> \in early', r \notin unsubbed
                 PROVE  /\ loop'[r] # "none" /\ In(m, Got'[r])
                        /\ loop'[r] = "exited" => In(m, handled[r])
      BY <2>1 DEF EarlyIsKept
    <3>1. /\ loop'[r] = "none" => loop[r] = "none"
          /\ loop'[r] = "exited" => loop[r] = "exited"
      BY <1>0, <2>1 DEF Types
    <3>2. CASE <<r, m>> \in early
      <4>1. In(m, Got'[r])
        BY <2>4, <2>5, <2>8, <3>2 DEF IInv, EarlyIsKept
      <4>2. QED BY <3>1, <3>2, <4>1 DEF IInv, EarlyIsKept
    <3>3. CASE <<r, m>> \notin early
      <4>1. ~finita /\ r = s /\ m = x
        BY <1>2, <3>3 DEF AppendTo, AppendMsg
      <4>2. loop[s] # "none" /\ loop[s] # "exited"
        BY <2>1, <4>1 DEF IInv, Table, Marks
      <4>3. QED BY <2>4, <2>5, <3>1, <4>1, <4>2
    <3>4. QED BY <3>2, <3>3
  <2>13. QED BY <1>0, <2>2, <2>10, <2>11, <2>12 DEF IInv
<1>3. ASSUME NEW c \in Clients, NEW s \in SubIds, DropQueue(c, s) PROVE IInv'
  <2>1. /\ pc[c] = "unsubscribe" /\ pc' = [pc EXCEPT ![c] = "idle"]
        /\ s \in todo[c] /\ todo' = [todo EXCEPT ![c] = @ \ {s}]
        /\ msgs' = [msgs EXCEPT ![s] = <<>>] /\ isUnsub' = [isUnsub EXCEPT ![s] = TRUE]
        /\ loop' = [loop EXCEPT ![s] = IF @ = "asleep" THEN "check" ELSE @]
        /\ unsubbed' = unsubbed \cup {s}
        /\ sent' = sent /\ late' = late /\ early' = early /\ handled' = handled
    BY <1>3 DEF DropQueue, Visit, Goto, Signal
  <2>2. (Table /\ Marks)'
    BY <1>0, <1>3, <2>1 DEF IInv, DropQueue, Table, Marks, Types
  <2>3. Got'[s] = handled[s]
    <3>1. handled'[s] = handled[s] /\ msgs'[s] = <<>> /\ handled[s] \in Seq(Msg)
      BY <1>0, <2>1 DEF Types
    <3>2. handled[s] \o <<>> = handled[s]
      BY <3>1
    <3>3. QED BY <3>1, <3>2, GotAt
  <2>4. \A r \in SubIds : Got'[r] = IF r = s THEN handled[s] ELSE Got[r]
    <3>1. \A r \in SubIds \ {s} : msgs'[r] = msgs[r] /\ handled'[r] = handled[r]
      BY <1>0, <2>1 DEF Types
    <3>2. \A r \in SubIds \ {s} : Got'[r] = Got[r]
      BY <3>1, GotAt
    <3>3. QED BY <2>3, <3>2
  <2>5. /\ Ordered(Got[s]) => Ordered(handled[s])
        /\ \A m : In(m, handled[s]) => In(m, Got[s])
    BY <1>0, Prefix DEF Got, Types
  <2>6. /\ \A b \in Clients : pc'[b] = "publish" => pc[b] = "publish" /\ todo'[b] \subseteq todo[b]
        /\ \A r \in SubIds : \A m : In(m, Got'[r]) => In(m, Got[r])
        /\ \A r \in SubIds : Ordered(Got[r]) => Ordered(Got'[r])
    BY <2>1, <2>4, <2>5 DEF IInv, Types
  <2>7. Numbered'
    BY <2>1, <2>6 DEF IInv, Numbered
  <2>8. LateIsLost'
    BY <2>1, <2>6 DEF IInv, LateIsLost
  <2>9. EarlyIsKept'
    BY <1>0, <2>1, <2>4 DEF IInv, EarlyIsKept, Types
  <2>10. QED BY <1>0, <2>2, <2>7, <2>8, <2>9 DEF IInv
<1>4. ASSUME NEW s \in SubIds, Handle(s) PROVE IInv'
  <2>1. /\ loop[s] = "check" /\ loop' = [loop EXCEPT ![s] = "handler"] /\ msgs[s] # <<>>
        /\ msgs' = [msgs EXCEPT ![s] = Tail(@)]
        /\ handled' = [handled EXCEPT ![s] = Append(@, Head(msgs[s]))]
    BY <1>4 DEF Handle, LoopTo
  <2>2. Got' = Got
    <3>1. /\ handled[s] \in Seq(Msg) /\ msgs[s] \in Seq(Msg)
          /\ handled'[s] = Append(handled[s], Head(msgs[s])) /\ msgs'[s] = Tail(msgs[s])
      BY <1>0, <2>1 DEF Types
    <3>2. Got'[s] = Got[s]
      BY <2>1, <3>1, HandleKeeps, GotAt
    <3>3. \A r \in SubIds \ {s} : Got'[r] = Got[r]
      BY <1>0, <2>1, GotAt DEF Types
    <3>4. QED BY <1>0, <3>2, <3>3, GotType DEF Got
  <2>3. (Table /\ Marks)'
    BY <1>0, <1>4, <2>1 DEF IInv, Handle, Table, Marks, Types
  <2>4. (Numbered /\ LateIsLost)'
    BY <1>4, <2>2, NothingSent DEF IInv, Handle
  <2>5. EarlyIsKept'
    BY <1>0, <1>4, <2>1, <2>2, NothingLost DEF IInv, Handle, Types
  <2>6. QED BY <1>0, <2>3, <2>4, <2>5 DEF IInv
<1>5. ASSUME NEW s \in SubIds, Exit(s) PROVE IInv'
  <2>1. Got' = Got
    BY <1>5 DEF Exit, Got
  <2>2. Got[s] = handled[s]
    BY <1>0, <1>5 DEF Exit, Got, Types
  <2>3. (Table /\ Marks)'
    BY <1>0, <1>5 DEF IInv, Exit, LoopTo, Table, Marks, Types
  <2>4. (Numbered /\ LateIsLost)'
    BY <1>5, <2>1, NothingSent DEF IInv, Exit
  <2>5. EarlyIsKept'
    BY <1>0, <1>5, <2>1, <2>2 DEF IInv, Exit, LoopTo, EarlyIsKept, Types
  <2>6. QED BY <1>0, <2>3, <2>4, <2>5 DEF IInv
<1>6. ASSUME NEW c \in Clients, NEW s \in SubIds,
             (\E j \in Subjects : Subscribe(c, j, s)) \/ LeaveTable(c, s) \/ CloseMarks(s)
               \/ Sleep(s) \/ HandlerReturns(s)
      PROVE  IInv'
  <2>1. Got' = Got
    BY <1>6 DEF Subscribe, LeaveTable, CloseMarks, Sleep, HandlerReturns, Got
  <2>2. Table'
    <3>1. CASE \E j \in Subjects : Subscribe(c, j, s)
      BY <1>0, <3>1 DEF IInv, Subscribe, LoopTo, Table, Types
    <3>2. CASE LeaveTable(c, s)
      BY <1>0, <3>2 DEF IInv, LeaveTable, Goto, Table, Types
    <3>3. CASE CloseMarks(s)
      BY <1>0, <3>3 DEF IInv, CloseMarks, Visit, Signal, Table, Types
    <3>4. CASE Sleep(s) \/ HandlerReturns(s)
      BY <1>0, <3>4 DEF IInv, Sleep, HandlerReturns, LoopTo, Table, Types
    <3>5. QED BY <1>6, <3>1, <3>2, <3>3, <3>4
  <2>3. Marks'
    BY <1>0, <1>6 DEF IInv, Subscribe, LeaveTable, CloseMarks, Sleep, HandlerReturns,
                      LoopTo, Goto, Visit, Signal, Marks, Types
  <2>4. (Numbered /\ LateIsLost)'
    <3>1. /\ sent' = sent /\ late' = late
          /\ \A d \in Clients, r \in SubIds :
               pc'[d] = "publish" /\ r \in todo'[d] => pc[d] = "publish" /\ r \in todo[d]
      BY <1>0, <1>6 DEF Subscribe, LeaveTable, CloseMarks, Sleep, HandlerReturns, Goto, Visit, Types
    <3>2. QED BY <2>1, <3>1, NothingSent DEF IInv
  <2>5. EarlyIsKept'
    <3>1. /\ early' = early /\ unsubbed' = unsubbed /\ handled' = handled
          /\ \A r \in SubIds : /\ loop'[r] = "none" => loop[r] = "none"
                               /\ loop'[r] = "exited" => loop[r] = "exited"
      BY <1>0, <1>6 DEF Subscribe, LeaveTable, CloseMarks, Sleep, HandlerReturns, LoopTo, Signal, Types
    <3>2. QED BY <2>1, <3>1, NothingLost DEF IInv
  <2>6. QED BY <1>0, <2>2, <2>3, <2>4, <2>5 DEF IInv
<1>7. CASE \/ CloseStart \/ CloseUnlocks \/ CloseReturns \/ CtxDone \/ UNCHANGED vars
           \/ \E c \in Clients : PublishReturns(c)
  <2>1. Got' = Got
    BY <1>7 DEF CloseStart, CloseUnlocks, CloseReturns, CtxDone, PublishReturns, vars, Got
  <2>2. Table'
    <3>1. CASE CloseStart
      BY <1>0, <3>1 DEF IInv, CloseStart, Goto, Table, Types
    <3>2. CASE CloseUnlocks \/ CloseReturns \/ CtxDone \/ UNCHANGED vars \/ \E c \in Clients : PublishReturns(c)
      BY <1>0, <3>2 DEF IInv, CloseUnlocks, CloseReturns, CtxDone, PublishReturns, vars, Goto, Table, Types
    <3>3. QED BY <1>7, <3>1, <3>2
  <2>3. Marks'
    BY <1>0, <1>7 DEF IInv, CloseStart, CloseUnlocks, CloseReturns, CtxDone, PublishReturns, vars,
                      Goto, Marks, Types
  <2>4. (Numbered /\ LateIsLost)'
    <3>1. /\ sent' = sent /\ late' = late
          /\ \A d \in Clients, r \in SubIds :
               pc'[d] = "publish" /\ r \in todo'[d] => pc[d] = "publish" /\ r \in todo[d]
      BY <1>0, <1>7 DEF CloseStart, CloseUnlocks, CloseReturns, CtxDone, PublishReturns, vars, Goto, Types
    <3>2. QED BY <2>1, <3>1, NothingSent DEF IInv
  <2>5. EarlyIsKept'
    BY <1>7, <2>1, NothingLost
       DEF IInv, CloseStart, CloseUnlocks, CloseReturns, CtxDone, PublishReturns, vars
  <2>6. QED BY <1>0, <2>2, <2>3, <2>4, <2>5 DEF IInv
<1>8. QED
  BY <1>1, <1>2, <1>3, <1>4, <1>5, <1>6, <1>7 DEF Next, InCall, InClose, InLoop

LEMMA IInvDelivers == IInv => DeliveredRight
<1> SUFFICES ASSUME IInv PROVE DeliveredRight
  OBVIOUS
<1>1. PublisherOrder
  BY DEF IInv, Numbered, Ordered, Got, PublisherOrder
<1>2. \A s \in SubIds : /\ Range(Got[s]) = {Got[s][i] : i \in 1..Len(Got[s])}
                        /\ Range(handled[s]) = {handled[s][i] : i \in 1..Len(handled[s])}
  BY DEF IInv, Types, Got, Range
<1>3. UnsubscribedGetsNothingNew
  <2> SUFFICES ASSUME NEW e \in late PROVE e[2] \notin Range(Got[e[1]])
    BY GotAt DEF UnsubscribedGetsNothingNew, IInv, Types
  <2>1. PICK s \in SubIds, c \in Clients, n \in Nat : e = <<s, <<c, n>>>>
    BY DEF IInv, Types, Msg
  <2>2. ~In(<<c, n>>, Got[s])
    BY <2>1 DEF IInv, LateIsLost
  <2>3. QED BY <1>2, <2>1, <2>2 DEF In
<1>4. CloseWaitsForDelivery
  <2> SUFFICES ASSUME closed = "nil", NEW e \in early, e[1] \notin unsubbed
               PROVE  e[2] \in Range(handled[e[1]])
    BY DEF CloseWaitsForDelivery
  <2>1. PICK s \in SubIds, m \in Msg : e = <<s, m>>
    BY DEF IInv, Types
  <2>2. s \notin unsubbed /\ <<s, m>> \in early
    BY <2>1
  <2>3. loop[s] # "none" /\ (loop[s] = "exited" => In(m, handled[s]))
    BY <2>2 DEF IInv, EarlyIsKept
  <2>4. loop[s] = "exited"
    BY <2>3 DEF IInv, Marks
  <2>5. QED BY <1>2, <2>1, <2>3, <2>4 DEF In
<1>5. QED BY <1>1, <1>3, <1>4 DEF DeliveredRight

(***************************************************************************)
(* Whoever publishes, unsubscribes and closes at once: a subscription gets *)
(* one publisher's messages in order and each once, none that was published*)
(* after Unsubscribe returned, and all that came before a Close that       *)
(* returned nil.                                                           *)
(***************************************************************************)
THEOREM PubSubCorrect == Spec => []DeliveredRight
BY InitIInv, NextIInv, IInvDelivers, PTL DEF Spec
=============================================================================
