----------------------------- MODULE TCPProtocol -----------------------------
(***************************************************************************)
(* networks/TCP/protocol.py: two MyTCPProtocol sockets over UDP.  At each  *)
(* end run the thread of recv_loop, the thread of unresolved_send_handler, *)
(* one thread that sends and one that receives.  A section under a lock is *)
(* one step.  The bytes of a stream are numbered from 0, so a packet's     *)
(* sequence number and length tell its data.                               *)
(*                                                                         *)
(* The network delays and reorders at will; Lose and Duplicate share a     *)
(* budget.  A timeout may expire at any moment: nothing bounds the delays  *)
(* of packets and threads.                                                 *)
(***************************************************************************)
EXTENDS Naturals, Sequences, FiniteSets, Bags, FiniteSetsExt, SequencesExt

Bag == INSTANCE BagsExt

CONSTANTS Ends,        \* the two sockets
          Messages,    \* Messages[e]: the lengths e sends, one send() each
          ReadSize,    \* ReadSize[e]: the n of e's calls of recv(n)
          MaxPayload,  \* MAX_PAYLOAD_SIZE
          MaxRetries,  \* MAX_RETRIES
          MaxFaults,   \* bound: packets lost or duplicated
          Closers      \* the ends that may call close

ASSUME TCPAssumption ==
  /\ \E x, y \in Ends : x # y /\ Ends = {x, y}
  /\ Messages \in [Ends -> Seq(Nat)] /\ ReadSize \in [Ends -> Nat]
  /\ MaxPayload \in Nat \ {0} /\ MaxRetries \in Nat

VARIABLES net,       \* net[e]: a bag of the packets on their way to e
          faults,    \* packets lost or duplicated
          sock,      \* sock[e]: the fields of the MyTCPProtocol object
          sender,    \* sender[e]: the thread in send
          receiver,  \* receiver[e]: the thread in recv_loop
          reader,    \* reader[e]: the thread in recv
          got        \* history: got[e]: the bytes recv has returned

vars == <<net, faults, sock, sender, receiver, reader, got>>

Peer(e)       == CHOOSE f \in Ends : f # e
Bytes(s, len) == [i \in 1..len |-> s + i - 1]
With(f, k, v) == [x \in DOMAIN f \cup {k} |-> IF x = k THEN v ELSE f[x]]
Without(f, k) == [x \in DOMAIN f \ {k} |-> f[x]]
Total(e) == MapThenSumSet(LAMBDA i : Messages[e][i], DOMAIN Messages[e])

Data(s, len, ack) == [seq |-> s, ack |-> ack, len |-> len, data |-> TRUE]
Ack(ack)          == [seq |-> 0, ack |-> ack, len |-> 0, data |-> FALSE]

Init ==
  /\ net = [e \in Ends |-> EmptyBag] /\ faults = 0
  /\ sock = [e \in Ends |->
       [send_base |-> 0, next_seq_num |-> 0, expected_seq_num |-> 0,
        send_buffer |-> <<>>, recv_buffer |-> <<>>, recv_data |-> <<>>,
        ack_events |-> <<>>, recv_event |-> FALSE, running |-> TRUE, sending_big |-> FALSE]]
  /\ sender = [e \in Ends |-> [at |-> "idle", done |-> 0, ack |-> 0, sent |-> 0, key |-> 0]]
  /\ receiver = [e \in Ends |-> [at |-> "loop", pkt |-> Ack(0)]]
  /\ reader = [e \in Ends |-> [at |-> "idle", data |-> <<>>]]
  /\ got = [e \in Ends |-> <<>>]

\* sendto, and the loss and duplication of the network.
Transmit(e, pkt) == net' = [net EXCEPT ![Peer(e)] = Bag!BagAdd(@, pkt)]

Fault(e, pkt) ==
  /\ faults < MaxFaults /\ faults' = faults + 1 /\ pkt \in BagToSet(net[e])
  /\ \/ net' = [net EXCEPT ![e] = Bag!BagRemove(@, pkt)]
     \/ net' = [net EXCEPT ![e] = Bag!BagAdd(@, pkt)]
  /\ UNCHANGED <<sock, sender, receiver, reader, got>>

-----------------------------------------------------------------------------
\* send: the length decides between send_full_packet and send_big_packet.
Msg(e) == Messages[e][sender[e].done + 1]
Sent(e) == [sender EXCEPT ![e] = [at |-> "idle", done |-> @.done + 1, ack |-> 0, sent |-> 0, key |-> 0]]

SendCalled(e) ==
  /\ sender[e].at = "idle" /\ sender[e].done < Len(Messages[e]) /\ sock[e].running
  /\ \/ /\ Msg(e) <= MaxPayload
        /\ sender' = [sender EXCEPT ![e].at = "small", ![e].ack = sock[e].expected_seq_num]
        /\ UNCHANGED sock
     \/ /\ Msg(e) > MaxPayload
        /\ sender' = [sender EXCEPT ![e].at = "chunk"]
        /\ sock' = [sock EXCEPT ![e].sending_big = TRUE]
  /\ UNCHANGED <<net, faults, receiver, reader, got>>

\* A packet is kept in send_buffer under the acknowledgement that will confirm it.
Kept(s, pkt, retries) ==
  [s EXCEPT !.send_buffer = With(@, pkt.seq + pkt.len, [pkt |-> pkt, retries |-> retries])]

SendFullPacket(e) ==
  LET pkt == Data(sock[e].next_seq_num, Msg(e), sender[e].ack) IN
  /\ sender[e].at = "small" /\ sender' = Sent(e)
  /\ sock' = [sock EXCEPT ![e] = [Kept(sock[e], pkt, 0) EXCEPT !.next_seq_num = @ + pkt.len]]
  /\ Transmit(e, pkt)
  /\ UNCHANGED <<faults, receiver, reader, got>>

SendChunk(e) ==
  LET len == Min({MaxPayload, Msg(e) - sender[e].sent})
      pkt == Data(sock[e].next_seq_num, len, sock[e].expected_seq_num)
      key == pkt.seq + len IN
  /\ sender[e].at = "chunk" /\ len > 0
  /\ sender' = [sender EXCEPT ![e].at = "waiting", ![e].sent = @ + len, ![e].key = key]
  /\ sock' = [sock EXCEPT ![e] = [Kept(sock[e], pkt, 0) EXCEPT
                !.next_seq_num = key, !.ack_events = With(@, key, FALSE)]]
  /\ Transmit(e, pkt)
  /\ UNCHANGED <<faults, receiver, reader, got>>

\* The bookkeeping of an acknowledged or abandoned chunk.
Forget(s, key) ==
  [s EXCEPT !.send_buffer = Without(@, key), !.ack_events = Without(@, key)]

\* What the two outcomes of ack_event.wait lead to; KeyError ends send.
ChunkAcked(e) ==
  LET key == sender[e].key IN
  /\ sender[e].at = "waiting" /\ sock[e].ack_events[key]
  /\ IF key \in DOMAIN sock[e].send_buffer
     THEN /\ sock' = [sock EXCEPT ![e] = Forget(@, key)]
          /\ sender' = [sender EXCEPT ![e].at = "chunk"]
     ELSE sender' = [sender EXCEPT ![e].at = "KeyError"] /\ UNCHANGED sock
  /\ UNCHANGED <<net, faults, receiver, reader, got>>

ChunkTimesOut(e) ==
  LET key == sender[e].key
      entry == sock[e].send_buffer[key] IN
  /\ sender[e].at = "waiting"
  /\ \/ /\ key \notin DOMAIN sock[e].send_buffer
        /\ sender' = [sender EXCEPT ![e].at = "KeyError"] /\ UNCHANGED <<net, sock>>
     \/ /\ key \in DOMAIN sock[e].send_buffer /\ entry.retries >= MaxRetries
        /\ sock' = [sock EXCEPT ![e] = Forget(@, key)]
        /\ sender' = [sender EXCEPT ![e].at = "chunk"] /\ UNCHANGED net
     \/ /\ key \in DOMAIN sock[e].send_buffer /\ entry.retries < MaxRetries
        /\ sock' = [sock EXCEPT ![e] = [Kept(sock[e], entry.pkt, entry.retries + 1)
                      EXCEPT !.ack_events[key] = FALSE]]
        /\ sender' = [sender EXCEPT ![e].at = "chunk"] /\ Transmit(e, entry.pkt)
  /\ UNCHANGED <<faults, receiver, reader, got>>

BigDone(e) ==
  /\ sender[e].at = "chunk" /\ sender[e].sent = Msg(e) /\ sender' = Sent(e)
  /\ sock' = [sock EXCEPT ![e].sending_big = FALSE]
  /\ UNCHANGED <<net, faults, receiver, reader, got>>

-----------------------------------------------------------------------------
\* unresolved_send_handler, for one entry of send_buffer that is due.
ResendUpTo(e, key, retries) ==
  LET entry == sock[e].send_buffer[key] IN
  /\ sock[e].running
  /\ \/ /\ entry.retries >= retries
        /\ sock' = [sock EXCEPT ![e].send_buffer = Without(@, key)] /\ UNCHANGED net
     \/ /\ entry.retries < retries
        /\ sock' = [sock EXCEPT ![e] = Kept(@, entry.pkt, entry.retries + 1)]
        /\ Transmit(e, entry.pkt)
  /\ UNCHANGED <<faults, sender, receiver, reader, got>>

\* Mutants: no retry at all; one too many.
MutantNoRetry(e, key) == ResendUpTo(e, key, 0)
MutantOneMore(e, key) == ResendUpTo(e, key, MaxRetries + 1)

Resend(e, key) == ResendUpTo(e, key, MaxRetries)

-----------------------------------------------------------------------------
\* recv_loop: recvfrom and the section of the acknowledgement, where KeyError
\* kills the thread; the section of the data; the acknowledgement sent back.
HandleAck(e, pkt) ==
  LET newer  == pkt.ack > sock[e].send_base
      delete == newer /\ ~sock[e].sending_big IN
  /\ receiver[e].at = "loop" /\ sock[e].running /\ pkt \in BagToSet(net[e])
  /\ net' = [net EXCEPT ![e] = Bag!BagRemove(@, pkt)]
  /\ IF delete /\ pkt.ack \notin DOMAIN sock[e].send_buffer
     THEN /\ sock' = [sock EXCEPT ![e].send_base = pkt.ack]
          /\ receiver' = [receiver EXCEPT ![e].at = "KeyError"]
     ELSE /\ sock' = [sock EXCEPT
               ![e].send_base = IF newer THEN pkt.ack ELSE @,
               ![e].send_buffer = IF delete THEN Without(@, pkt.ack) ELSE @,
               ![e].ack_events = [k \in DOMAIN @ |-> @[k] \/ pkt.ack >= k]]
          /\ receiver' = IF pkt.data THEN [receiver EXCEPT ![e] = [at |-> "data", pkt |-> pkt]]
                         ELSE receiver
  /\ UNCHANGED <<faults, sender, reader, got>>

\* The packets of recv_buffer that follow; the loop counts len(data) for each,
\* which is the length of the packet that has just come.
Followers(buffer, s, len) ==
  LET n == Max({k \in 0..Cardinality(DOMAIN buffer) :
                  \A i \in 1..k : s + i * len \in DOMAIN buffer})
  IN  [i \in 1..n |-> [seq |-> s + i * len, len |-> buffer[s + i * len]]]

\* Mutant: what comes ahead of its turn is taken at once.
MutantHandleData(e) ==
  LET s == sock[e]
      pkt == receiver[e].pkt IN
  /\ receiver[e].at = "data"
  /\ sock' = [sock EXCEPT ![e] = [s EXCEPT
       !.recv_data = IF pkt.seq >= s.expected_seq_num THEN Append(@, [seq |-> pkt.seq, len |-> pkt.len]) ELSE @,
       !.expected_seq_num = IF pkt.seq >= @ THEN pkt.seq + pkt.len ELSE @,
       !.recv_event = TRUE]]
  /\ receiver' = [receiver EXCEPT ![e].at = "ack"]
  /\ UNCHANGED <<net, faults, sender, reader, got>>

HandleData(e) ==
  LET s     == sock[e]
      pkt   == receiver[e].pkt
      more  == Followers(s.recv_buffer, pkt.seq, pkt.len)
      taken == {more[i].seq : i \in DOMAIN more} IN
  /\ receiver[e].at = "data"
  /\ \/ /\ pkt.seq = s.expected_seq_num
        /\ sock' = [sock EXCEPT ![e] = [s EXCEPT
             !.recv_data = @ \o <<[seq |-> pkt.seq, len |-> pkt.len]>> \o more,
             !.recv_buffer = [k \in DOMAIN @ \ taken |-> @[k]],
             !.expected_seq_num = @ + pkt.len * (1 + Len(more)),
             !.recv_event = TRUE]]
     \/ /\ pkt.seq > s.expected_seq_num
        /\ sock' = [sock EXCEPT ![e].recv_buffer = With(@, pkt.seq, pkt.len)]
     \/ pkt.seq < s.expected_seq_num /\ UNCHANGED sock
  /\ receiver' = [receiver EXCEPT ![e].at = "ack"]
  /\ UNCHANGED <<net, faults, sender, reader, got>>

SendAck(e) ==
  /\ receiver[e].at = "ack" /\ Transmit(e, Ack(sock[e].expected_seq_num))
  /\ receiver' = [receiver EXCEPT ![e] = [at |-> "loop", pkt |-> Ack(0)]]
  /\ UNCHANGED <<faults, sock, sender, reader, got>>

-----------------------------------------------------------------------------
\* recv(n): pop whole pieces until there are n bytes; what is left of the last
\* piece is dropped.
RecvCalled(e) ==
  /\ reader[e].at = "idle" /\ sock[e].running
  /\ Len(got[e]) < Total(Peer(e))   \* bound: all that the other end will send
  /\ reader' = [reader EXCEPT ![e].at = "reading"]
  /\ UNCHANGED <<net, faults, sock, sender, receiver, got>>

Pop(e) ==
  LET piece == Head(sock[e].recv_data) IN
  /\ reader[e].at = "reading" /\ Len(reader[e].data) < ReadSize[e] /\ sock[e].recv_data # <<>>
  /\ reader' = [reader EXCEPT ![e].data = @ \o Bytes(piece.seq, piece.len)]
  /\ sock' = [sock EXCEPT ![e].recv_data = Tail(@)]
  /\ UNCHANGED <<net, faults, sender, receiver, got>>

\* Mutant: it waits without looking.
MutantFindsNothing(e) ==
  /\ reader[e].at = "reading" /\ reader' = [reader EXCEPT ![e].at = "waiting"]
  /\ UNCHANGED <<net, faults, sock, sender, receiver, got>>

FindsNothing(e) ==
  /\ reader[e].at = "reading" /\ Len(reader[e].data) < ReadSize[e] /\ sock[e].recv_data = <<>>
  /\ reader' = [reader EXCEPT ![e].at = "waiting"]
  /\ UNCHANGED <<net, faults, sock, sender, receiver, got>>

Woken(e) ==
  /\ reader[e].at = "waiting" /\ sock[e].recv_event
  /\ reader' = [reader EXCEPT ![e].at = "woken"]
  /\ UNCHANGED <<net, faults, sock, sender, receiver, got>>

ClearEvent(e) ==
  /\ reader[e].at = "woken" /\ sock' = [sock EXCEPT ![e].recv_event = FALSE]
  /\ reader' = [reader EXCEPT ![e].at = "reading"]
  /\ UNCHANGED <<net, faults, sender, receiver, got>>

RecvReturns(e) ==
  /\ reader[e].at = "reading" /\ Len(reader[e].data) >= ReadSize[e]
  /\ got' = [got EXCEPT ![e] = @ \o SubSeq(reader[e].data, 1, ReadSize[e])]
  /\ reader' = [reader EXCEPT ![e] = [at |-> "idle", data |-> <<>>]]
  /\ UNCHANGED <<net, faults, sock, sender, receiver>>

\* close, after send and recv have returned; both threads end their loops.
Close(e) ==
  /\ e \in Closers /\ sock[e].running /\ sender[e].at = "idle" /\ reader[e].at = "idle"
  /\ sock' = [sock EXCEPT ![e].running = FALSE]
  /\ UNCHANGED <<net, faults, sender, receiver, reader, got>>

-----------------------------------------------------------------------------
SendStep(e) == SendFullPacket(e) \/ SendChunk(e) \/ ChunkAcked(e) \/ ChunkTimesOut(e) \/ BigDone(e)
ReceiverStep(e) == \/ \E pkt \in BagToSet(net[e]) : HandleAck(e, pkt)
                   \/ HandleData(e) \/ SendAck(e)
RecvStep(e) == RecvCalled(e) \/ Pop(e) \/ FindsNothing(e) \/ Woken(e) \/ ClearEvent(e) \/ RecvReturns(e)
HandlerStep(e) == \E key \in DOMAIN sock[e].send_buffer : Resend(e, key)

Next == \E e \in Ends :
  \/ SendCalled(e) \/ SendStep(e) \/ HandlerStep(e) \/ ReceiverStep(e) \/ RecvStep(e)
  \/ Close(e) \/ \E pkt \in BagToSet(net[e]) : Fault(e, pkt)

Spec == Init /\ [][Next]_vars

\* Fairness: the threads run, and a packet that is not lost arrives.
FairSpec == Spec /\ \A e \in Ends :
  WF_vars(SendStep(e)) /\ WF_vars(HandlerStep(e)) /\ WF_vars(ReceiverStep(e)) /\ WF_vars(RecvStep(e))

-----------------------------------------------------------------------------
TypeOK ==
  \A e \in Ends :
    /\ net[e] \in [BagToSet(net[e]) -> Nat \ {0}]
    /\ sender[e].at \in {"idle", "small", "chunk", "waiting", "KeyError"}
    /\ receiver[e].at \in {"loop", "data", "ack", "KeyError"}
    /\ reader[e].at \in {"idle", "reading", "waiting", "woken"}
    /\ \A key \in DOMAIN sock[e].send_buffer :
         /\ sock[e].send_buffer[key].retries \in 0..MaxRetries
         /\ key = sock[e].send_buffer[key].pkt.seq + sock[e].send_buffer[key].pkt.len
         /\ key <= sock[e].next_seq_num

\* All that has come in order to e: returned, held by recv and queued.
Pieces(e)   == [i \in DOMAIN sock[e].recv_data |->
                  Bytes(sock[e].recv_data[i].seq, sock[e].recv_data[i].len)]
Received(e) == got[e] \o reader[e].data \o FlattenSeq(Pieces(e))

(***************************************************************************)
(* HOWTO of networks/TCP: what a client sent, the server gets in the same  *)
(* form and order, in spite of loss, duplication and reordering.           *)
(***************************************************************************)
ReceivedInOrder == \A e \in Ends : Received(e) = Bytes(0, sock[e].expected_seq_num)

Stream == INSTANCE ByteStream WITH
            written  <- [e \in Ends |-> sock[e].next_seq_num],
            received <- [e \in Ends |-> Received(e)]

Implements == Stream!Spec

\* An acknowledgement, on its way or recorded, is for bytes that did arrive.
AckedIsReceived ==
  \A e \in Ends :
    /\ sock[e].send_base <= Len(Received(Peer(e)))
    /\ \A pkt \in BagToSet(net[e]) : pkt.ack <= Len(Received(Peer(e)))

(***************************************************************************)
(* A packet is given up only when all its retries are used or the other    *)
(* end has acknowledged it, whichever thread removes its entry.            *)
(***************************************************************************)
NothingGivenUpEarly ==
  [][\A e \in Ends : \A key \in DOMAIN sock[e].send_buffer \ DOMAIN sock'[e].send_buffer :
       sock'[e].send_base >= key \/ sock[e].send_buffer[key].retries = MaxRetries]_vars

\* A recv that waits while there is data is about to be woken: the event is
\* set and cleared without the lock that guards recv_data.
ReaderIsWoken ==
  \A e \in Ends : reader[e].at = "waiting" /\ sock[e].recv_data # <<>> => sock[e].recv_event

\* HOWTO of networks/TCP: a client that sent a message can be sure the server
\* gets it, in the end.
SentIsReceived ==
  \A e \in Ends : \A n \in 1..Total(e) :
    sock[e].next_seq_num >= n ~> Len(got[Peer(e)]) >= n
=============================================================================
