------------------------------ MODULE TCPProofs ------------------------------
EXTENDS TCPProtocol, FiniteSetsExt, SequenceTheorems, FiniteSetTheorems, TLAPS

-----------------------------------------------------------------------------
\* Numbers and sequences.

\* A set of naturals that is not empty has a least element.  A proof by induction takes
\* the least number for which what it claims would fail.
LEMMA LeastOf == ASSUME NEW S \in SUBSET Nat, S # {} PROVE Min(S) \in S /\ \A n \in S : Min(S) <= n
<1>1. PICK z \in S : TRUE
  OBVIOUS
<1> DEFINE T == {0..n : n \in {k \in S : k <= z}}
<1>2. IsWellFoundedOn(StrictSubsetOrdering(0..z), SUBSET (0..z))
  <2>1. IsFiniteSet(0..z)
    BY FS_Interval
  <2>2. FiniteSubsetsOf(0..z) = SUBSET (0..z)
    BY <2>1, FS_FiniteSubsetsOfFinite
  <2>3. IsWellFoundedOn(StrictSubsetOrdering(0..z), FiniteSubsetsOf(0..z))
    BY FS_StrictSubsetOrderingWellFounded
  <2>4. QED BY <2>2, <2>3
<1>3. T # {} /\ T \subseteq SUBSET (0..z)
  BY <1>1
<1>4. PICK A \in T : \A B \in T : ~(<<B, A>> \in StrictSubsetOrdering(0..z))
  <2> HIDE DEF T
  <2>1. QED BY <1>2, <1>3, WFMin
<1>5. PICK m \in S : m <= z /\ A = 0..m
  BY <1>4
<1>6. \A n \in S : m <= n
  <2>1. SUFFICES ASSUME NEW n \in S, n < m PROVE FALSE
    BY <1>5
  <2>2. (0..n) \in T /\ n <= z
    BY <1>5, <2>1
  <2>3. (0..n) \in SUBSET (0..z) /\ A \in SUBSET (0..z) /\ 0..n \subseteq A /\ 0..n # A
    BY <1>3, <1>5, <2>1, <2>2
  <2>4. <<0..n, A>> \in StrictSubsetOrdering(0..z)
    BY <2>3 DEF StrictSubsetOrdering
  <2>5. QED BY <1>4, <2>2, <2>4
<1>7. QED BY <1>5, <1>6 DEF Min

\* A set of naturals with an upper bound, not empty, has a greatest element.
LEMMA GreatestOf == ASSUME NEW b \in Nat, NEW S \in SUBSET (0..b), S # {}
                    PROVE  Max(S) \in S /\ \A n \in S : Max(S) >= n
<1> DEFINE T == {b - n : n \in S}
<1>1. T \in SUBSET Nat /\ T # {}
  <2>1. PICK z \in S : TRUE
    OBVIOUS
  <2>2. b - z \in T
    BY <2>1
  <2>3. \A n \in S : b - n \in Nat
    OBVIOUS
  <2>4. QED BY <2>2, <2>3
<1>2. PICK m \in T : \A k \in T : m <= k
  <2> HIDE DEF T
  <2>1. QED BY <1>1, LeastOf
<1>3. PICK g \in S : m = b - g
  BY <1>2
<1>4. \A n \in S : g >= n
  <2> TAKE n \in S
  <2>1. b - n \in T /\ g \in 0..b /\ n \in 0..b
    OBVIOUS
  <2>2. b - g <= b - n
    BY <1>2, <1>3, <2>1
  <2>3. QED BY <2>1, <2>2
<1>5. QED BY <1>4 DEF Max

\* A function on 1..n is a sequence of length n.
LEMMA FunctionIsSeq == ASSUME NEW S, NEW n \in Nat, NEW f \in [1..n -> S]
                       PROVE  f \in Seq(S) /\ Len(f) = n
<1>1. f \in Seq(S)
  BY SeqDef
<1>2. Len(f) \in Nat /\ 1..Len(f) = 1..n
  BY <1>1, LenProperties
<1>3. QED BY <1>1, <1>2

-----------------------------------------------------------------------------
\* The maps of a socket: from numbers of bytes, finitely many, to values in S.
FiniteSubsets == {K \in SUBSET Nat : IsFiniteSet(K)}
Maps(S) == UNION {[K -> S] : K \in FiniteSubsets}

LEMMA MapIs == ASSUME NEW S, NEW f \in Maps(S)
               PROVE  /\ DOMAIN f \subseteq Nat /\ IsFiniteSet(DOMAIN f)
                      /\ f = [k \in DOMAIN f |-> f[k]] /\ \A k \in DOMAIN f : f[k] \in S
BY DEF Maps, FiniteSubsets

LEMMA IsMap == ASSUME NEW S, NEW K \in FiniteSubsets, NEW f \in [K -> S] PROVE f \in Maps(S)
BY DEF Maps

LEMMA MapEmpty == ASSUME NEW S PROVE <<>> \in Maps(S) /\ DOMAIN <<>> = {}
<1>1. DOMAIN <<>> = {} /\ <<>> \in [{} -> S]
  OBVIOUS
<1>2. {} \in FiniteSubsets
  BY FS_EmptySet DEF FiniteSubsets
<1>3. QED BY <1>1, <1>2, IsMap

LEMMA MapWith == ASSUME NEW S, NEW f \in Maps(S), NEW k \in Nat, NEW v \in S PROVE With(f, k, v) \in Maps(S)
<1>1. DOMAIN f \cup {k} \in FiniteSubsets
  <2>1. PICK K \in FiniteSubsets : K = DOMAIN f
    BY MapIs DEF FiniteSubsets
  <2>2. IsFiniteSet(K \cup {k})
    BY FS_AddElement DEF FiniteSubsets
  <2>3. QED BY <2>1, <2>2 DEF FiniteSubsets
<1>2. With(f, k, v) \in [DOMAIN f \cup {k} -> S]
  BY MapIs DEF With
<1>3. QED BY <1>1, <1>2, IsMap

LEMMA MapWithout == ASSUME NEW S, NEW f \in Maps(S), NEW k PROVE Without(f, k) \in Maps(S)
<1>1. DOMAIN f \ {k} \in FiniteSubsets
  <2>1. PICK K \in FiniteSubsets : K = DOMAIN f
    BY MapIs DEF FiniteSubsets
  <2>2. IsFiniteSet(K \ {k})
    BY FS_Subset DEF FiniteSubsets
  <2>3. QED BY <2>1, <2>2 DEF FiniteSubsets
<1>2. Without(f, k) \in [DOMAIN f \ {k} -> S]
  BY MapIs DEF Without
<1>3. QED BY <1>1, <1>2, IsMap

LEMMA BagAdded == ASSUME NEW B, NEW p PROVE BagToSet(Bag!BagAdd(B, p)) = BagToSet(B) \cup {p}
BY DEF BagToSet, Bag!BagAdd

LEMMA BagRemoved == ASSUME NEW B, NEW p PROVE BagToSet(Bag!BagRemove(B, p)) \subseteq BagToSet(B)
BY DEF BagToSet, Bag!BagRemove

LEMMA Peers == ASSUME NEW e \in Ends
               PROVE  Peer(e) \in Ends /\ Peer(e) # e /\ Peer(Peer(e)) = e /\ Ends = {e, Peer(e)}
<1>1. PICK x \in Ends, y \in Ends : x # y /\ Ends = {x, y}
  BY TCPAssumption
<1>2. \A z \in Ends : Peer(z) \in Ends /\ Peer(z) # z
  BY <1>1 DEF Peer
<1>3. QED BY <1>1, <1>2

LEMMA BytesAre == ASSUME NEW s \in Nat, NEW len \in Nat
                  PROVE  Bytes(s, len) \in Seq(Nat) /\ Len(Bytes(s, len)) = len
<1>1. [i \in 1..len |-> s + i - 1] \in [1..len -> Nat]
  OBVIOUS
<1>2. PICK f \in [1..len -> Nat] : f = Bytes(s, len)
  BY <1>1 DEF Bytes
<1>3. QED BY <1>2, FunctionIsSeq

LEMMA MinOfTwo == ASSUME NEW m \in Nat, NEW n \in Nat
                  PROVE  /\ Min({m, n}) \in Nat /\ Min({m, n}) <= m /\ Min({m, n}) <= n
                         /\ Min({m, n}) \in {m, n}
<1>1. Min({m, n}) \in {m, n} /\ \A k \in {m, n} : Min({m, n}) <= k
  BY LeastOf
<1>2. QED BY <1>1

Packets == [seq : Nat, ack : Nat, len : Nat, data : BOOLEAN]
Entries == [pkt : Packets, retries : 0..MaxRetries]
Socks   == [send_base : Nat, next_seq_num : Nat, expected_seq_num : Nat,
            send_buffer : Maps(Entries), recv_buffer : Maps(Nat),
            recv_data : Seq([seq : Nat, len : Nat]), ack_events : Maps(BOOLEAN),
            recv_event : BOOLEAN, running : BOOLEAN, sending_big : BOOLEAN]

Senders   == [at : {"idle", "small", "chunk", "waiting", "KeyError"},
              done : Nat, ack : Nat, sent : Nat, key : Nat]
Receivers == [at : {"loop", "data", "ack", "KeyError"}, pkt : Packets]
Readers   == [at : {"idle", "reading", "waiting", "woken"}, data : Seq(Nat)]

Types ==
  /\ sock \in [Ends -> Socks] /\ sender \in [Ends -> Senders]
  /\ receiver \in [Ends -> Receivers] /\ reader \in [Ends -> Readers]
  /\ DOMAIN net = Ends /\ \A e \in Ends : BagToSet(net[e]) \subseteq Packets
  /\ got \in [Ends -> Seq(Nat)]

Busy == \A e \in Ends :
  /\ sender[e].at \in {"small", "chunk", "waiting"} =>
    sender[e].done < Len(Messages[e]) /\ sender[e].sent <= Msg(e)
  /\ sender[e].at = "idle" => sender[e].sent = 0

LEMMA TInit == Init => Types
<1> SUFFICES ASSUME Init PROVE Types
  OBVIOUS
<1>1. \A S : <<>> \in Maps(S)
  BY MapEmpty
<1>2. sock \in [Ends -> Socks]
  BY <1>1 DEF Init, Socks
<1>3. DOMAIN net = Ends /\ \A e \in Ends : BagToSet(net[e]) \subseteq Packets
  BY DEF Init, BagToSet, EmptyBag, SetToBag
<1>4. sender \in [Ends -> Senders]
  BY DEF Init, Senders
<1>5. receiver \in [Ends -> Receivers]
  BY DEF Init, Ack, Packets, Receivers
<1>6. reader \in [Ends -> Readers] /\ got \in [Ends -> Seq(Nat)]
  BY DEF Init, Readers
<1>7. QED BY <1>2, <1>3, <1>4, <1>5, <1>6 DEF Types

LEMMA Sends == ASSUME NEW e \in Ends, NEW pkt \in Packets, Types, Transmit(e, pkt)
               PROVE  /\ DOMAIN net' = Ends
                      /\ \A f \in Ends : BagToSet(net'[f]) = BagToSet(net[f]) \cup (IF f = Peer(e) THEN {pkt} ELSE {})
BY Peers, BagAdded DEF Transmit, Types

LEMMA NetIs == ASSUME NEW e \in Ends, NEW pkt \in Packets, Types, Transmit(e, pkt)
               PROVE  DOMAIN net' = Ends /\ \A f \in Ends : BagToSet(net'[f]) \subseteq Packets
BY Sends DEF Types

LEMMA MsgIs == ASSUME NEW e \in Ends, Types, sender[e].done < Len(Messages[e]) PROVE Msg(e) \in Nat
<1>1. Messages[e] \in Seq(Nat)
  BY TCPAssumption
<1>2. sender[e].done \in Nat
  BY DEF Types, Senders
<1>3. Len(Messages[e]) \in Nat
  BY <1>1, LenProperties
<1>4. QED BY <1>1, <1>2, <1>3, ElementOfSeq DEF Msg

LEMMA KeptIs == ASSUME NEW s \in Socks, NEW pkt \in Packets, NEW r \in 0..MaxRetries
                PROVE  Kept(s, pkt, r) \in Socks
<1> DEFINE k == pkt.seq + pkt.len
           v == [pkt |-> pkt, retries |-> r]
<1>1. k \in Nat /\ v \in Entries /\ s.send_buffer \in Maps(Entries)
  BY DEF Packets, Entries, Socks
<1>2. Kept(s, pkt, r) = [s EXCEPT !.send_buffer = With(s.send_buffer, k, v)]
  BY DEF Kept
<1> HIDE DEF k, v
<1>3. With(s.send_buffer, k, v) \in Maps(Entries)
  BY <1>1, MapWith
<1>4. QED BY <1>2, <1>3 DEF Socks

LEMMA ForgetIs == ASSUME NEW s \in Socks, NEW k PROVE Forget(s, k) \in Socks
<1>1. s.send_buffer \in Maps(Entries) /\ s.ack_events \in Maps(BOOLEAN)
  BY DEF Socks
<1>2. Without(s.send_buffer, k) \in Maps(Entries) /\ Without(s.ack_events, k) \in Maps(BOOLEAN)
  BY <1>1, MapWithout
<1>3. QED BY <1>2 DEF Socks, Forget

LEMMA SafeEntry == ASSUME NEW e \in Ends, Types, NEW k \in DOMAIN sock[e].send_buffer
                   PROVE  sock[e] \in Socks /\ k \in Nat /\ sock[e].send_buffer[k] \in Entries
<1>1. sock[e] \in Socks
  BY DEF Types
<1>2. sock[e].send_buffer \in Maps(Entries)
  BY <1>1 DEF Socks
<1>3. QED BY <1>1, <1>2, MapIs


\* One socket changes, and stays a socket.
LEMMA SockChanged == ASSUME Types, NEW e \in Ends, NEW s \in Socks, sock' = [sock EXCEPT ![e] = s]
                     PROVE  sock' \in [Ends -> Socks]
BY DEF Types

LEMMA SendCalledTypes == ASSUME NEW e \in Ends, Types, SendCalled(e) PROVE Types'
<1>1. sock' = [sock EXCEPT ![e] = sock'[e]]
  BY DEF SendCalled, Types
<1>2. sock'[e] \in {sock[e], [sock[e] EXCEPT !.sending_big = TRUE]}
  BY DEF SendCalled, Types
<1>3. sock'[e] \in Socks
  BY <1>2 DEF Types, Socks
<1>4. sender' = [sender EXCEPT ![e] = sender'[e]]
  BY DEF SendCalled, Types
<1>5. sender'[e] \in {[sender[e] EXCEPT !.at = "small", !.ack = sock[e].expected_seq_num], [sender[e] EXCEPT !.at = "chunk"]}
  BY DEF SendCalled, Types
<1>6. sender[e] \in Senders /\ sock[e].expected_seq_num \in Nat
  BY DEF Types, Socks
<1>7. sender'[e] \in Senders
  BY <1>5, <1>6 DEF Senders
<1>8. QED BY <1>1, <1>3, <1>4, <1>7 DEF SendCalled, Types

LEMMA SendFullPacketTypes == ASSUME NEW e \in Ends, Types, Busy, SendFullPacket(e) PROVE Types'
<1>1. Msg(e) \in Nat /\ sock[e] \in Socks
  BY MsgIs DEF SendFullPacket, Busy, Types
<1>2. PICK pkt \in Packets : pkt = Data(sock[e].next_seq_num, Msg(e), sender[e].ack)
  BY <1>1 DEF Data, Packets, Types, Socks, Senders
<1>3. PICK s \in Socks : s = Kept(sock[e], pkt, 0)
  BY <1>1, KeptIs, TCPAssumption
<1>4. sock' = [sock EXCEPT ![e] = [s EXCEPT !.next_seq_num = @ + pkt.len]] /\ Transmit(e, pkt)
  BY <1>2, <1>3 DEF SendFullPacket
<1>5. s.next_seq_num + pkt.len \in Nat
  BY DEF Socks, Packets
<1>6. [s EXCEPT !.next_seq_num = @ + pkt.len] \in Socks
  BY <1>5 DEF Socks
<1>7. sock' \in [Ends -> Socks]
  BY <1>4, <1>6 DEF Types
<1>8. sender' \in [Ends -> Senders]
  BY DEF SendFullPacket, Sent, Types, Senders
<1>9. DOMAIN net' = Ends /\ \A f \in Ends : BagToSet(net'[f]) \subseteq Packets
  BY <1>4, NetIs
<1>10. QED BY <1>7, <1>8, <1>9 DEF SendFullPacket, Types

LEMMA ChunkIs == ASSUME NEW e \in Ends, Types, Busy, SendChunk(e)
                 PROVE  \E len \in Nat : \E pkt \in Packets :
                          /\ len = Min({MaxPayload, Msg(e) - sender[e].sent}) /\ len > 0
                          /\ len <= Msg(e) - sender[e].sent /\ Msg(e) \in Nat
                          /\ pkt = Data(sock[e].next_seq_num, len, sock[e].expected_seq_num)
                          /\ sender' = [sender EXCEPT ![e].at = "waiting", ![e].sent = @ + len, ![e].key = pkt.seq + len]
                          /\ sock' = [sock EXCEPT ![e] = [Kept(sock[e], pkt, 0) EXCEPT
                                        !.next_seq_num = pkt.seq + len, !.ack_events = With(@, pkt.seq + len, FALSE)]]
                          /\ Transmit(e, pkt)
<1>1. Msg(e) \in Nat /\ sender[e].sent \in Nat /\ sender[e].sent <= Msg(e) /\ sender[e].at = "chunk"
  BY MsgIs DEF SendChunk, Busy, Types, Senders
<1>2. PICK left \in Nat : left = Msg(e) - sender[e].sent
  BY <1>1
<1>3. PICK len \in Nat : len = Min({MaxPayload, left}) /\ len <= left
  BY MinOfTwo, TCPAssumption
<1>4. PICK pkt \in Packets : pkt = Data(sock[e].next_seq_num, len, sock[e].expected_seq_num)
  BY DEF Data, Packets, Types, Socks
<1>5. pkt.seq = sock[e].next_seq_num
  BY <1>4 DEF Data
<1>6. /\ len > 0 /\ Transmit(e, pkt)
      /\ sender' = [sender EXCEPT ![e].at = "waiting", ![e].sent = @ + len, ![e].key = pkt.seq + len]
  BY <1>2, <1>3, <1>4, <1>5 DEF SendChunk
<1>7. sock' = [sock EXCEPT ![e] = [Kept(sock[e], pkt, 0) EXCEPT
                 !.next_seq_num = pkt.seq + len, !.ack_events = With(@, pkt.seq + len, FALSE)]]
  BY <1>2, <1>3, <1>4, <1>5 DEF SendChunk
<1>8. QED BY <1>1, <1>2, <1>3, <1>4, <1>6, <1>7

LEMMA SendChunkTypes == ASSUME NEW e \in Ends, Types, Busy, SendChunk(e) PROVE Types'
<1>1. PICK len \in Nat, pkt \in Packets :
                          /\ sender' = [sender EXCEPT ![e].at = "waiting", ![e].sent = @ + len, ![e].key = pkt.seq + len]
                          /\ sock' = [sock EXCEPT ![e] = [Kept(sock[e], pkt, 0) EXCEPT
                                        !.next_seq_num = pkt.seq + len, !.ack_events = With(@, pkt.seq + len, FALSE)]]
                          /\ Transmit(e, pkt)
  BY ChunkIs
<1>2. PICK s \in Socks : s = Kept(sock[e], pkt, 0)
  BY KeptIs, TCPAssumption DEF Types
<1>3. PICK key \in Nat : key = pkt.seq + len
  BY DEF Packets
<1>4. s.ack_events \in Maps(BOOLEAN)
  BY DEF Socks
<1>5. With(s.ack_events, key, FALSE) \in Maps(BOOLEAN)
  BY <1>4, MapWith
<1>6. [s EXCEPT !.next_seq_num = key, !.ack_events = With(@, key, FALSE)] \in Socks
  BY <1>5 DEF Socks
<1>7. sock' \in [Ends -> Socks]
  BY <1>1, <1>2, <1>3, <1>6 DEF Types
<1>8. sender[e] \in Senders /\ sender[e].sent + len \in Nat
  BY DEF Types, Senders
<1>9. sender' \in [Ends -> Senders]
  <2>1. [sender[e] EXCEPT !.at = "waiting", !.sent = @ + len, !.key = key] \in Senders
    BY <1>8 DEF Senders
  <2>2. sender'[e] = [sender[e] EXCEPT !.at = "waiting", !.sent = @ + len, !.key = key]
    BY <1>1, <1>3 DEF Types
  <2>3. QED BY <1>1, <2>1, <2>2 DEF Types
<1>10. DOMAIN net' = Ends /\ \A f \in Ends : BagToSet(net'[f]) \subseteq Packets
  BY <1>1, NetIs
<1>11. QED BY <1>7, <1>9, <1>10 DEF SendChunk, Types

LEMMA ChunkAckedTypes == ASSUME NEW e \in Ends, Types, ChunkAcked(e) PROVE Types'
<1>1. Forget(sock[e], sender[e].key) \in Socks
  BY ForgetIs DEF Types
<1>2. sock' \in [Ends -> Socks]
  BY <1>1 DEF ChunkAcked, Types
<1>3. sender' = [sender EXCEPT ![e] = sender'[e]]
      /\ sender'[e] \in {[sender[e] EXCEPT !.at = "chunk"], [sender[e] EXCEPT !.at = "KeyError"]}
  BY DEF ChunkAcked, Types
<1>4. sender'[e] \in Senders
  BY <1>3 DEF Types, Senders
<1>5. QED BY <1>2, <1>3, <1>4 DEF ChunkAcked, Types

\* A resent packet counts one more retry.
LEMMA ResentTypes == ASSUME NEW e \in Ends, Types, NEW key \in DOMAIN sock[e].send_buffer,
                            sock[e].send_buffer[key].retries < MaxRetries
                     PROVE  /\ sock[e].send_buffer[key].pkt \in Packets
                            /\ Kept(sock[e], sock[e].send_buffer[key].pkt, sock[e].send_buffer[key].retries + 1) \in Socks
<1>1. PICK entry \in Entries : entry = sock[e].send_buffer[key]
  BY SafeEntry
<1>2. entry.pkt \in Packets /\ entry.retries + 1 \in 0..MaxRetries
  BY <1>1, TCPAssumption DEF Entries
<1>3. QED BY <1>1, <1>2, KeptIs DEF Types

LEMMA ChunkTimesOutTypes == ASSUME NEW e \in Ends, Types, sender[e].key \in DOMAIN sock[e].ack_events, ChunkTimesOut(e) PROVE Types'
<1> DEFINE key == sender[e].key
           entry == sock[e].send_buffer[key]
<1>1. sender' = [sender EXCEPT ![e] = sender'[e]]
      /\ sender'[e] \in {[sender[e] EXCEPT !.at = "chunk"], [sender[e] EXCEPT !.at = "KeyError"]}
  BY DEF ChunkTimesOut, Types
<1>2. sender'[e] \in Senders
  BY <1>1 DEF Types, Senders
<1>3. CASE UNCHANGED <<net, sock>>
  BY <1>1, <1>2, <1>3 DEF ChunkTimesOut, Types
<1>4. CASE sock' = [sock EXCEPT ![e] = Forget(@, key)] /\ UNCHANGED net
  <2>1. Forget(sock[e], key) \in Socks
    BY ForgetIs DEF Types
  <2>2. QED BY <1>1, <1>2, <1>4, <2>1 DEF ChunkTimesOut, Types
<1>5. CASE /\ key \in DOMAIN sock[e].send_buffer /\ entry.retries < MaxRetries
           /\ sock' = [sock EXCEPT ![e] = [Kept(sock[e], entry.pkt, entry.retries + 1) EXCEPT !.ack_events[key] = FALSE]]
           /\ Transmit(e, entry.pkt)
  <2>1. PICK pkt \in Packets, s \in Socks : pkt = entry.pkt /\ s = Kept(sock[e], entry.pkt, entry.retries + 1)
    BY <1>5, ResentTypes
  <2>2. s.ack_events \in Maps(BOOLEAN)
    BY DEF Socks
  <2>3. [s.ack_events EXCEPT ![key] = FALSE] \in Maps(BOOLEAN)
    <3> DEFINE f == s.ack_events
    <3>1. DOMAIN f \in FiniteSubsets /\ f = [k \in DOMAIN f |-> f[k]] /\ \A k \in DOMAIN f : f[k] \in BOOLEAN
      BY <2>2, MapIs DEF FiniteSubsets
    <3>2. [f EXCEPT ![key] = FALSE] \in [DOMAIN f -> BOOLEAN]
      BY <3>1
    <3>3. QED BY <3>1, <3>2, IsMap
  <2>4. sock' = [sock EXCEPT ![e] = [s EXCEPT !.ack_events = [s.ack_events EXCEPT ![key] = FALSE]]]
    BY <1>5, <2>1
  <2>5. [s EXCEPT !.ack_events = [s.ack_events EXCEPT ![key] = FALSE]] \in Socks
    BY <2>3 DEF Socks
  <2>6. sock' \in [Ends -> Socks]
    BY <2>4, <2>5 DEF Types
  <2>7. DOMAIN net' = Ends /\ \A f \in Ends : BagToSet(net'[f]) \subseteq Packets
    BY <1>5, <2>1, NetIs
  <2>8. QED BY <1>1, <1>2, <2>6, <2>7 DEF ChunkTimesOut, Types
<1>6. QED BY <1>3, <1>4, <1>5 DEF ChunkTimesOut

LEMMA BigDoneTypes == ASSUME NEW e \in Ends, Types, BigDone(e) PROVE Types'
<1>1. sender' \in [Ends -> Senders]
  BY DEF BigDone, Sent, Types, Senders
<1>2. [sock[e] EXCEPT !.sending_big = FALSE] \in Socks
  <2>1. sock[e] \in Socks
    BY DEF Types
  <2>2. QED BY <2>1 DEF Socks
<1>3. QED BY <1>1, <1>2 DEF BigDone, Types

LEMMA ResendTypes == ASSUME NEW e \in Ends, Types, NEW key \in DOMAIN sock[e].send_buffer, Resend(e, key) PROVE Types'
<1> DEFINE entry == sock[e].send_buffer[key]
<1>1. CASE sock' = [sock EXCEPT ![e].send_buffer = Without(@, key)] /\ UNCHANGED net
  <2>1. sock[e] \in Socks /\ sock[e].send_buffer \in Maps(Entries)
    BY DEF Types, Socks
  <2>2. Without(sock[e].send_buffer, key) \in Maps(Entries)
    BY <2>1, MapWithout
  <2>3. [sock[e] EXCEPT !.send_buffer = Without(@, key)] \in Socks
    BY <2>1, <2>2 DEF Socks
  <2>4. QED BY <1>1, <2>3 DEF Resend, ResendUpTo, Types
<1>2. CASE /\ entry.retries < MaxRetries /\ Transmit(e, entry.pkt)
           /\ sock' = [sock EXCEPT ![e] = Kept(@, entry.pkt, entry.retries + 1)]
  <2>1. PICK pkt \in Packets, s \in Socks : pkt = entry.pkt /\ s = Kept(sock[e], entry.pkt, entry.retries + 1)
    BY <1>2, ResentTypes
  <2>2. DOMAIN net' = Ends /\ \A f \in Ends : BagToSet(net'[f]) \subseteq Packets
    BY <1>2, <2>1, NetIs
  <2>3. sock' \in [Ends -> Socks]
    BY <1>2, <2>1 DEF Types
  <2>4. QED BY <2>2, <2>3 DEF Resend, ResendUpTo, Types
<1>3. QED BY <1>1, <1>2 DEF Resend, ResendUpTo

LEMMA HandleAckTypes == ASSUME NEW e \in Ends, Types, NEW pkt \in BagToSet(net[e]), HandleAck(e, pkt) PROVE Types'
<1>1. sock[e] \in Socks /\ pkt \in Packets
  BY DEF Types
<1>2. pkt.ack \in Nat /\ sock[e].send_buffer \in Maps(Entries) /\ sock[e].ack_events \in Maps(BOOLEAN)
  BY <1>1 DEF Socks, Packets
<1>3. Without(sock[e].send_buffer, pkt.ack) \in Maps(Entries)
  BY <1>2, MapWithout
<1>4. [k \in DOMAIN sock[e].ack_events |-> sock[e].ack_events[k] \/ pkt.ack >= k] \in Maps(BOOLEAN)
  <2>1. DOMAIN sock[e].ack_events \in FiniteSubsets
    BY <1>2, MapIs DEF FiniteSubsets
  <2>2. QED BY <2>1, IsMap
<1>5. [sock[e] EXCEPT !.send_base = pkt.ack] \in Socks
  BY <1>1, <1>2 DEF Socks
<1>6. \A n \in Nat, b \in Maps(Entries) : [sock[e] EXCEPT !.send_base = n, !.send_buffer = b,
         !.ack_events = [k \in DOMAIN @ |-> @[k] \/ pkt.ack >= k]] \in Socks
  BY <1>1, <1>4 DEF Socks
<1>7. sock' = [sock EXCEPT ![e] = sock'[e]]
  BY DEF HandleAck, Types
<1>8. sock'[e] \in Socks
  <2>1. CASE pkt.ack > sock[e].send_base /\ ~sock[e].sending_big /\ pkt.ack \notin DOMAIN sock[e].send_buffer
    <3>1. sock'[e] = [sock[e] EXCEPT !.send_base = pkt.ack]
      BY <2>1 DEF HandleAck, Types
    <3>2. QED BY <1>5, <3>1
  <2>2. CASE ~(pkt.ack > sock[e].send_base /\ ~sock[e].sending_big /\ pkt.ack \notin DOMAIN sock[e].send_buffer)
    <3>1. PICK n \in Nat, b \in Maps(Entries) :
            /\ n = IF pkt.ack > sock[e].send_base THEN pkt.ack ELSE sock[e].send_base
            /\ b = IF pkt.ack > sock[e].send_base /\ ~sock[e].sending_big
                   THEN Without(sock[e].send_buffer, pkt.ack) ELSE sock[e].send_buffer
      BY <1>1, <1>2, <1>3 DEF Socks
    <3>2. sock'[e] = [sock[e] EXCEPT !.send_base = n, !.send_buffer = b,
                                     !.ack_events = [k \in DOMAIN @ |-> @[k] \/ pkt.ack >= k]]
      BY <2>2, <3>1 DEF HandleAck, Types
    <3> HIDE DEF Socks
    <3>3. [sock[e] EXCEPT !.send_base = n, !.send_buffer = b,
                          !.ack_events = [k \in DOMAIN @ |-> @[k] \/ pkt.ack >= k]] \in Socks
      BY <1>6
    <3>4. QED BY <3>2, <3>3
  <2>3. QED BY <2>1, <2>2
<1>9. receiver' \in [Ends -> Receivers]
  <2>1. receiver' = [receiver EXCEPT ![e] = receiver'[e]]
        /\ receiver'[e] \in {receiver[e], [receiver[e] EXCEPT !.at = "KeyError"], [at |-> "data", pkt |-> pkt]}
    BY DEF HandleAck, Types
  <2>2. receiver[e] \in Receivers
    BY DEF Types
  <2>3. receiver'[e] \in Receivers
    BY <1>1, <2>1, <2>2 DEF Receivers
  <2>4. QED BY <2>1, <2>3 DEF Types
<1>10. DOMAIN net' = Ends /\ \A f \in Ends : BagToSet(net'[f]) \subseteq Packets
  <2>1. net' = [net EXCEPT ![e] = Bag!BagRemove(net[e], pkt)]
    BY DEF HandleAck
  <2>2. BagToSet(Bag!BagRemove(net[e], pkt)) \subseteq BagToSet(net[e])
    BY BagRemoved
  <2>3. QED BY <2>1, <2>2 DEF Types
<1>11. QED BY <1>7, <1>8, <1>9, <1>10 DEF HandleAck, Types

\* The packets that follow: their number, and where they were kept.
LEMMA FollowersAre ==
  ASSUME NEW buffer \in Maps(Nat), NEW s \in Nat, NEW len \in Nat
  PROVE  /\ Followers(buffer, s, len) \in Seq([seq : Nat, len : Nat])
         /\ \A i \in 1..Len(Followers(buffer, s, len)) :
              /\ s + i * len \in DOMAIN buffer
              /\ Followers(buffer, s, len)[i] = [seq |-> s + i * len, len |-> buffer[s + i * len]]
<1> DEFINE K == {k \in 0..Cardinality(DOMAIN buffer) : \A i \in 1..k : s + i * len \in DOMAIN buffer}
           n == Max(K)
           f == [i \in 1..n |-> [seq |-> s + i * len, len |-> buffer[s + i * len]]]
<1>1. n \in K
  <2>1. PICK D \in FiniteSubsets : D = DOMAIN buffer
    BY MapIs DEF FiniteSubsets
  <2>11. Cardinality(D) \in Nat
    BY FS_CardinalityType DEF FiniteSubsets
  <2>2. 0 \in K /\ K \in SUBSET (0..Cardinality(D))
    BY <2>1, <2>11
  <2> HIDE DEF K
  <2>3. QED BY <2>11, <2>2, GreatestOf
<1>2. n \in Nat /\ \A i \in 1..n : s + i * len \in DOMAIN buffer
  BY <1>1
<1>3. f \in [1..n -> [seq : Nat, len : Nat]]
  <2> HIDE DEF n
  <2>1. \A k \in DOMAIN buffer : k \in Nat /\ buffer[k] \in Nat
    BY MapIs
  <2>2. QED BY <1>2, <2>1
<1>4. f \in Seq([seq : Nat, len : Nat]) /\ Len(f) = n
  <2> HIDE DEF n, f
  <2>1. QED BY <1>2, <1>3, FunctionIsSeq
<1>5. Followers(buffer, s, len) = f
  BY DEF Followers
<1> HIDE DEF n
<1>6. QED BY <1>2, <1>4, <1>5

LEMMA HandleDataTypes == ASSUME NEW e \in Ends, Types, HandleData(e) PROVE Types'
<1> DEFINE piece == [seq |-> receiver[e].pkt.seq, len |-> receiver[e].pkt.len]
           more == Followers(sock[e].recv_buffer, receiver[e].pkt.seq, receiver[e].pkt.len)
           taken == {more[i].seq : i \in DOMAIN more}
<1>1. sock[e] \in Socks /\ receiver[e] \in Receivers
  BY DEF Types
<1>2. receiver[e].pkt.seq \in Nat /\ receiver[e].pkt.len \in Nat /\ sock[e].recv_buffer \in Maps(Nat)
      /\ sock[e].recv_data \in Seq([seq : Nat, len : Nat]) /\ sock[e].expected_seq_num \in Nat
  BY <1>1 DEF Socks, Receivers, Packets
<1>3. receiver' \in [Ends -> Receivers]
  BY DEF HandleData, Types, Receivers
<1>4. CASE sock' = [sock EXCEPT ![e] = [sock[e] EXCEPT
             !.recv_data = @ \o <<piece>> \o more,
             !.recv_buffer = [k \in DOMAIN @ \ taken |-> @[k]],
             !.expected_seq_num = @ + receiver[e].pkt.len * (1 + Len(more)),
             !.recv_event = TRUE]]
  <2>1. more \in Seq([seq : Nat, len : Nat])
    BY <1>2, FollowersAre
  <2>2. PICK q \in Seq([seq : Nat, len : Nat]) : q = sock[e].recv_data \o <<piece>> \o more
    <3>1. <<piece>> \in Seq([seq : Nat, len : Nat])
      BY <1>2
    <3>2. sock[e].recv_data \o <<piece>> \in Seq([seq : Nat, len : Nat])
      BY <1>2, <3>1, ConcatProperties
    <3>3. sock[e].recv_data \o <<piece>> \o more \in Seq([seq : Nat, len : Nat])
      BY <2>1, <3>2, ConcatProperties
    <3>4. QED BY <3>3
  <2>3. PICK n \in Nat : n = sock[e].expected_seq_num + receiver[e].pkt.len * (1 + Len(more))
    <3>1. Len(more) \in Nat
      BY <2>1, LenProperties
    <3> HIDE DEF more
    <3>2. PICK k \in Nat, m \in Nat, x \in Nat :
            k = Len(more) /\ m = receiver[e].pkt.len /\ x = sock[e].expected_seq_num
      BY <1>2, <3>1
    <3>3. x + m * (1 + k) \in Nat
      OBVIOUS
    <3>4. QED BY <3>2, <3>3
  <2>4. PICK b \in Maps(Nat) : b = [k \in DOMAIN sock[e].recv_buffer \ taken |-> sock[e].recv_buffer[k]]
    <3> HIDE DEF taken
    <3>1. PICK D \in FiniteSubsets : D = DOMAIN sock[e].recv_buffer
      BY <1>2, MapIs DEF FiniteSubsets
    <3>2. D \ taken \in FiniteSubsets
      BY FS_Subset DEF FiniteSubsets
    <3>3. \A k \in D : sock[e].recv_buffer[k] \in Nat
      BY <1>2, <3>1, MapIs
    <3>4. [k \in D \ taken |-> sock[e].recv_buffer[k]] \in [D \ taken -> Nat]
      BY <3>3
    <3>5. [k \in D \ taken |-> sock[e].recv_buffer[k]] \in Maps(Nat)
      BY <3>2, <3>4, IsMap
    <3>6. QED BY <3>1, <3>5
  <2>5. [sock[e] EXCEPT !.recv_data = q, !.recv_buffer = b, !.expected_seq_num = n, !.recv_event = TRUE] \in Socks
    BY <1>1 DEF Socks
  <2> HIDE DEF more, taken, piece
  <2>6. sock' = [sock EXCEPT ![e] = [sock[e] EXCEPT !.recv_data = q, !.recv_buffer = b,
                                       !.expected_seq_num = n, !.recv_event = TRUE]]
    BY <1>4, <2>2, <2>3, <2>4
  <2>7. QED BY <1>3, <2>5, <2>6 DEF HandleData, Types
<1>5. CASE sock' = [sock EXCEPT ![e].recv_buffer = With(@, receiver[e].pkt.seq, receiver[e].pkt.len)]
  <2>1. With(sock[e].recv_buffer, receiver[e].pkt.seq, receiver[e].pkt.len) \in Maps(Nat)
    BY <1>2, MapWith
  <2>2. [sock[e] EXCEPT !.recv_buffer = With(@, receiver[e].pkt.seq, receiver[e].pkt.len)] \in Socks
    BY <1>1, <2>1 DEF Socks
  <2>3. QED BY <1>3, <1>5, <2>2 DEF HandleData, Types
<1>6. CASE UNCHANGED sock
  BY <1>3, <1>6 DEF HandleData, Types
<1>7. QED BY <1>4, <1>5, <1>6 DEF HandleData

LEMMA SendAckTypes == ASSUME NEW e \in Ends, Types, SendAck(e) PROVE Types'
<1>1. PICK pkt \in Packets : pkt = Ack(sock[e].expected_seq_num)
  BY DEF Types, Socks, Ack, Packets
<1>2. DOMAIN net' = Ends /\ \A f \in Ends : BagToSet(net'[f]) \subseteq Packets
  BY <1>1, NetIs DEF SendAck
<1>3. Ack(0) \in Packets
  BY DEF Ack, Packets
<1>4. receiver' \in [Ends -> Receivers]
  BY <1>3 DEF SendAck, Types, Receivers
<1>5. QED BY <1>2, <1>4 DEF SendAck, Types

LEMMA RecvStepTypes == ASSUME NEW e \in Ends, Types, RecvStep(e) PROVE Types'
<1>1. reader[e] \in Readers /\ sock[e] \in Socks
  BY DEF Types
<1>2. reader[e].data \in Seq(Nat) /\ sock[e].recv_data \in Seq([seq : Nat, len : Nat])
  BY <1>1 DEF Readers, Socks
<1>3. \A at \in {"idle", "reading", "waiting", "woken"} : [reader[e] EXCEPT !.at = at] \in Readers
  BY <1>1 DEF Readers
<1>4. CASE RecvCalled(e) \/ FindsNothing(e) \/ Woken(e)
  BY <1>3, <1>4 DEF RecvCalled, FindsNothing, Woken, Types
<1>5. CASE ClearEvent(e)
  <2>1. [sock[e] EXCEPT !.recv_event = FALSE] \in Socks
    BY <1>1 DEF Socks
  <2>2. QED BY <1>3, <1>5, <2>1 DEF ClearEvent, Types
<1>6. CASE Pop(e)
  <2>1. Head(sock[e].recv_data) \in [seq : Nat, len : Nat] /\ Tail(sock[e].recv_data) \in Seq([seq : Nat, len : Nat])
    BY <1>2, <1>6, HeadTailProperties DEF Pop
  <2>2. [sock[e] EXCEPT !.recv_data = Tail(@)] \in Socks
    BY <1>1, <2>1 DEF Socks
  <2>3. PICK piece \in [seq : Nat, len : Nat] : piece = Head(sock[e].recv_data)
    BY <2>1
  <2>4. Bytes(piece.seq, piece.len) \in Seq(Nat)
    BY BytesAre
  <2>5. reader[e].data \o Bytes(piece.seq, piece.len) \in Seq(Nat)
    BY <1>2, <2>4, ConcatProperties
  <2>6. [reader[e] EXCEPT !.data = @ \o Bytes(piece.seq, piece.len)] \in Readers
    BY <1>1, <2>5 DEF Readers
  <2>7. reader' = [reader EXCEPT ![e].data = @ \o Bytes(piece.seq, piece.len)]
        /\ sock' = [sock EXCEPT ![e].recv_data = Tail(@)]
    BY <1>6, <2>3 DEF Pop
  <2>8. reader' \in [Ends -> Readers]
    BY <2>6, <2>7 DEF Types
  <2>9. sock' \in [Ends -> Socks]
    BY <2>2, <2>7 DEF Types
  <2>10. QED BY <1>6, <2>8, <2>9 DEF Pop, Types
<1>7. CASE RecvReturns(e)
  <2>1. SubSeq(reader[e].data, 1, ReadSize[e]) \in Seq(Nat)
    <3>1. PICK data \in Seq(Nat), n \in Nat : data = reader[e].data /\ n = ReadSize[e] /\ n <= Len(data)
      BY <1>2, <1>7, TCPAssumption DEF RecvReturns
    <3>2. \A i \in 1..n : data[i] \in Nat
      BY <3>1, ElementOfSeq, LenProperties
    <3>3. QED BY <3>1, <3>2, SubSeqProperties
  <2>2. PICK data \in Seq(Nat) : data = SubSeq(reader[e].data, 1, ReadSize[e])
    BY <2>1
  <2>3. got[e] \o data \in Seq(Nat)
    BY ConcatProperties DEF Types
  <2>4. got' \in [Ends -> Seq(Nat)]
    BY <1>7, <2>2, <2>3 DEF RecvReturns, Types
  <2>5. reader' \in [Ends -> Readers]
    BY <1>7 DEF RecvReturns, Types, Readers
  <2>6. QED BY <1>7, <2>4, <2>5 DEF RecvReturns, Types
<1>8. QED BY <1>4, <1>5, <1>6, <1>7 DEF RecvStep

LEMMA CloseTypes == ASSUME NEW e \in Ends, Types, Close(e) PROVE Types'
<1>1. sock[e] \in Socks
  BY DEF Types
<1>2. [sock[e] EXCEPT !.running = FALSE] \in Socks
  BY <1>1 DEF Socks
<1>3. QED BY <1>2 DEF Close, Types

LEMMA FaultTypes == ASSUME NEW e \in Ends, Types, NEW pkt \in BagToSet(net[e]), Fault(e, pkt) PROVE Types'
<1>1. BagToSet(Bag!BagRemove(net[e], pkt)) \subseteq BagToSet(net[e])
      /\ BagToSet(Bag!BagAdd(net[e], pkt)) \subseteq BagToSet(net[e])
  BY BagRemoved, BagAdded
<1>2. DOMAIN net' = Ends /\ \A f \in Ends : BagToSet(net'[f]) \subseteq Packets
  BY <1>1 DEF Fault, Types
<1>3. QED BY <1>2 DEF Fault, Types

Waits == \A e \in Ends : sender[e].at = "waiting" => sender[e].key \in DOMAIN sock[e].ack_events

Base == Types /\ Busy /\ Waits

LEMMA NextTypes == Base /\ [Next]_vars => Types'
<1> SUFFICES ASSUME Base, [Next]_vars PROVE Types'
  OBVIOUS
<1> USE DEF Base
<1>1. ASSUME NEW e \in Ends, SendCalled(e) PROVE Types'
  BY <1>1, SendCalledTypes
<1>2. ASSUME NEW e \in Ends, SendStep(e) PROVE Types'
  <2>1. ChunkTimesOut(e) => Types'
    BY ChunkTimesOutTypes DEF Waits, ChunkTimesOut
  <2>2. QED BY <1>2, <2>1, SendFullPacketTypes, SendChunkTypes, ChunkAckedTypes, BigDoneTypes DEF SendStep
<1>3. ASSUME NEW e \in Ends, HandlerStep(e) PROVE Types'
  BY <1>3, ResendTypes DEF HandlerStep
<1>4. ASSUME NEW e \in Ends, ReceiverStep(e) PROVE Types'
  BY <1>4, HandleAckTypes, HandleDataTypes, SendAckTypes DEF ReceiverStep
<1>5. ASSUME NEW e \in Ends, RecvStep(e) PROVE Types'
  BY <1>5, RecvStepTypes
<1>6. ASSUME NEW e \in Ends, Close(e) PROVE Types'
  BY <1>6, CloseTypes
<1>7. ASSUME NEW e \in Ends, NEW pkt \in BagToSet(net[e]), Fault(e, pkt) PROVE Types'
  BY <1>7, FaultTypes
<1>8. CASE UNCHANGED vars
  BY <1>8 DEF vars, Types
<1>9. QED BY <1>1, <1>2, <1>3, <1>4, <1>5, <1>6, <1>7, <1>8 DEF Next

\* What the threads that send, and those that receive, leave alone in a socket.
SameRecv(s, t) == /\ t.recv_data = s.recv_data /\ t.recv_event = s.recv_event
                  /\ t.recv_buffer = s.recv_buffer /\ t.expected_seq_num = s.expected_seq_num
SameSend(s, t) == /\ t.send_base = s.send_base /\ t.next_seq_num = s.next_seq_num
                  /\ t.send_buffer = s.send_buffer /\ t.ack_events = s.ack_events

\* What each action makes of its socket.
LEMMA TimeoutIs ==
  ASSUME Types, NEW e \in Ends, ChunkTimesOut(e)
  PROVE  LET key == sender[e].key
             entry == sock[e].send_buffer[key] IN
         /\ \A f \in Ends : f # e => sock'[f] = sock[f]
         /\ \/ sock'[e] = sock[e] /\ UNCHANGED net
            \/ /\ key \in DOMAIN sock[e].send_buffer /\ entry.retries >= MaxRetries
               /\ sock'[e] = Forget(sock[e], key) /\ UNCHANGED net
            \/ /\ key \in DOMAIN sock[e].send_buffer /\ entry.retries < MaxRetries
               /\ sock'[e] = [Kept(sock[e], entry.pkt, entry.retries + 1) EXCEPT
                                !.ack_events = [sock[e].ack_events EXCEPT ![key] = FALSE]]
               /\ Transmit(e, entry.pkt)
<1> DEFINE key == sender[e].key
           entry == sock[e].send_buffer[key]
<1>1. CASE UNCHANGED <<net, sock>>
  BY <1>1
<1>2. CASE /\ key \in DOMAIN sock[e].send_buffer /\ entry.retries >= MaxRetries
           /\ sock' = [sock EXCEPT ![e] = Forget(@, key)] /\ UNCHANGED net
  BY <1>2 DEF Types
<1>3. CASE /\ key \in DOMAIN sock[e].send_buffer /\ entry.retries < MaxRetries
           /\ sock' = [sock EXCEPT ![e] = [Kept(sock[e], entry.pkt, entry.retries + 1) EXCEPT !.ack_events[key] = FALSE]]
           /\ Transmit(e, entry.pkt)
  <2>1. PICK s : s = Kept(sock[e], entry.pkt, entry.retries + 1)
    OBVIOUS
  <2>2. s.ack_events = sock[e].ack_events
    BY <2>1 DEF Kept, Types, Socks
  <2>3. sock' = [sock EXCEPT ![e] = [s EXCEPT !.ack_events = [s.ack_events EXCEPT ![key] = FALSE]]]
    BY <1>3, <2>1
  <2>4. QED BY <1>3, <2>1, <2>2, <2>3 DEF Types
<1>4. QED BY <1>1, <1>2, <1>3 DEF ChunkTimesOut

LEMMA ResendIs ==
  ASSUME Types, NEW e \in Ends, NEW key \in DOMAIN sock[e].send_buffer, Resend(e, key)
  PROVE  LET entry == sock[e].send_buffer[key] IN
         /\ \A f \in Ends : f # e => sock'[f] = sock[f]
         /\ \/ /\ entry.retries >= MaxRetries /\ UNCHANGED net
               /\ sock'[e] = [sock[e] EXCEPT !.send_buffer = Without(sock[e].send_buffer, key)]
            \/ /\ entry.retries < MaxRetries /\ Transmit(e, entry.pkt)
               /\ sock'[e] = Kept(sock[e], entry.pkt, entry.retries + 1)
BY DEF Resend, ResendUpTo, Types

LEMMA HandleAckIs ==
  ASSUME Types, NEW e \in Ends, NEW pkt \in BagToSet(net[e]), HandleAck(e, pkt)
  PROVE  LET newer == pkt.ack > sock[e].send_base
             delete == newer /\ ~sock[e].sending_big IN
         /\ \A f \in Ends : f # e => sock'[f] = sock[f]
         /\ \/ /\ newer /\ pkt.ack \notin DOMAIN sock[e].send_buffer
               /\ sock'[e] = [sock[e] EXCEPT !.send_base = pkt.ack]
            \/ sock'[e] = [sock[e] EXCEPT
                 !.send_base = IF newer THEN pkt.ack ELSE sock[e].send_base,
                 !.send_buffer = IF delete THEN Without(sock[e].send_buffer, pkt.ack) ELSE sock[e].send_buffer,
                 !.ack_events = [k \in DOMAIN sock[e].ack_events |-> sock[e].ack_events[k] \/ pkt.ack >= k]]
<1> DEFINE newer == pkt.ack > sock[e].send_base
           delete == newer /\ ~sock[e].sending_big
<1>1. \A f \in Ends : f # e => sock'[f] = sock[f]
  BY DEF HandleAck, Types
<1>2. CASE delete /\ pkt.ack \notin DOMAIN sock[e].send_buffer
  BY <1>1, <1>2 DEF HandleAck, Types
<1>3. CASE ~(delete /\ pkt.ack \notin DOMAIN sock[e].send_buffer)
  BY <1>1, <1>3 DEF HandleAck, Types
<1>4. QED BY <1>2, <1>3

LEMMA HandleDataIs ==
  ASSUME Types, NEW e \in Ends, HandleData(e)
  PROVE  LET s == sock[e]
             pkt == receiver[e].pkt
             more == Followers(s.recv_buffer, pkt.seq, pkt.len)
             taken == {more[i].seq : i \in DOMAIN more} IN
         \/ /\ pkt.seq = s.expected_seq_num
            /\ sock'[e] = [s EXCEPT !.recv_data = s.recv_data \o <<[seq |-> pkt.seq, len |-> pkt.len]>> \o more,
                                    !.recv_buffer = [k \in DOMAIN s.recv_buffer \ taken |-> s.recv_buffer[k]],
                                    !.expected_seq_num = s.expected_seq_num + pkt.len * (1 + Len(more)),
                                    !.recv_event = TRUE]
         \/ /\ pkt.seq > s.expected_seq_num
            /\ sock'[e] = [s EXCEPT !.recv_buffer = With(s.recv_buffer, pkt.seq, pkt.len)]
         \/ pkt.seq < s.expected_seq_num /\ sock'[e] = s
<1> DEFINE s == sock[e]
           pkt == receiver[e].pkt
           more == Followers(s.recv_buffer, pkt.seq, pkt.len)
           taken == {more[i].seq : i \in DOMAIN more}
<1>1. ASSUME sock' = [sock EXCEPT ![e] = [s EXCEPT
             !.recv_data = @ \o <<[seq |-> pkt.seq, len |-> pkt.len]>> \o more,
             !.recv_buffer = [k \in DOMAIN @ \ taken |-> @[k]],
             !.expected_seq_num = @ + pkt.len * (1 + Len(more)),
             !.recv_event = TRUE]]
      PROVE  sock'[e] = [s EXCEPT !.recv_data = s.recv_data \o <<[seq |-> pkt.seq, len |-> pkt.len]>> \o more,
                                    !.recv_buffer = [k \in DOMAIN s.recv_buffer \ taken |-> s.recv_buffer[k]],
                                    !.expected_seq_num = s.expected_seq_num + pkt.len * (1 + Len(more)),
                                    !.recv_event = TRUE]
  <2>1. e \in DOMAIN sock
    BY DEF Types
  <2> HIDE DEF more, taken, pkt
  <2>2. QED BY <1>1, <2>1
<1>2. ASSUME sock' = [sock EXCEPT ![e].recv_buffer = With(@, pkt.seq, pkt.len)]
      PROVE  sock'[e] = [s EXCEPT !.recv_buffer = With(s.recv_buffer, pkt.seq, pkt.len)]
  BY <1>2 DEF Types
<1>3. QED BY <1>1, <1>2 DEF HandleData

LEMMA SendersStep ==
  ASSUME Base, NEW e \in Ends,
         \/ SendCalled(e) \/ SendStep(e) \/ HandlerStep(e) \/ Close(e)
         \/ \E pkt \in BagToSet(net[e]) : HandleAck(e, pkt)
  PROVE  SameRecv(sock[e], sock'[e]) /\ \A f \in Ends : f # e => sock'[f] = sock[f]
<1> USE DEF Base
<1>0. PICK s \in Socks : s = sock[e]
  BY DEF Types
<1>1. CASE SendCalled(e) \/ BigDone(e) \/ Close(e)
  <2>1. /\ \A f \in Ends : f # e => sock'[f] = sock[f]
        /\ \/ sock'[e] = [s EXCEPT !.running = FALSE]
           \/ sock'[e] = [s EXCEPT !.sending_big = TRUE]
           \/ sock'[e] = [s EXCEPT !.sending_big = FALSE]
           \/ sock'[e] = s
    BY <1>0, <1>1 DEF SendCalled, BigDone, Close, Types
  <2>2. SameRecv(s, sock'[e])
    BY <2>1 DEF SameRecv, Socks
  <2>3. QED BY <1>0, <2>1, <2>2
<1>2. CASE SendFullPacket(e)
  <2>1. PICK p : p = Data(sock[e].next_seq_num, Msg(e), sender[e].ack)
    OBVIOUS
  <2>2. /\ \A f \in Ends : f # e => sock'[f] = sock[f]
        /\ sock'[e] = [Kept(s, p, 0) EXCEPT !.next_seq_num = Kept(s, p, 0).next_seq_num + p.len]
    BY <1>0, <1>2, <2>1 DEF SendFullPacket, Types
  <2>3. SameRecv(s, sock'[e])
    BY <2>2 DEF SameRecv, Socks, Kept
  <2>4. QED BY <1>0, <2>2, <2>3
<1>3. CASE SendChunk(e)
  <2>1. PICK len \in Nat, pkt \in Packets :
          sock' = [sock EXCEPT ![e] = [Kept(sock[e], pkt, 0) EXCEPT
                        !.next_seq_num = pkt.seq + len, !.ack_events = With(@, pkt.seq + len, FALSE)]]
    BY <1>3, ChunkIs
  <2>2. PICK m, n : m = With(Kept(s, pkt, 0).ack_events, pkt.seq + len, FALSE) /\ n = pkt.seq + len
    OBVIOUS
  <2>3. /\ \A f \in Ends : f # e => sock'[f] = sock[f]
        /\ sock'[e] = [Kept(s, pkt, 0) EXCEPT !.next_seq_num = n, !.ack_events = m]
    BY <1>0, <2>1, <2>2 DEF Types
  <2>4. SameRecv(s, sock'[e])
    BY <2>3 DEF SameRecv, Socks, Kept
  <2>5. QED BY <1>0, <2>3, <2>4
<1>4. CASE ChunkAcked(e)
  <2>1. PICK k : k = sender[e].key
    OBVIOUS
  <2>2. /\ \A f \in Ends : f # e => sock'[f] = sock[f]
        /\ sock'[e] = Forget(s, k) \/ sock'[e] = s
    BY <1>0, <1>4, <2>1 DEF ChunkAcked, Types
  <2>3. SameRecv(s, sock'[e])
    BY <2>2 DEF SameRecv, Socks, Forget
  <2>4. QED BY <1>0, <2>2, <2>3
<1>5. CASE ChunkTimesOut(e)
  <2>1. PICK k, p, r, m : /\ k = sender[e].key /\ p = sock[e].send_buffer[k].pkt
                          /\ r = sock[e].send_buffer[k].retries + 1
                          /\ m = [sock[e].ack_events EXCEPT ![k] = FALSE]
    OBVIOUS
  <2>2. /\ \A f \in Ends : f # e => sock'[f] = sock[f]
        /\ \/ sock'[e] = [Kept(s, p, r) EXCEPT !.ack_events = m]
           \/ sock'[e] = Forget(s, k)
           \/ sock'[e] = s
    BY <1>0, <1>5, <2>1, TimeoutIs
  <2>3. SameRecv(s, sock'[e])
    BY <2>2 DEF SameRecv, Socks, Kept, Forget
  <2>4. QED BY <1>0, <2>2, <2>3
<1>6. CASE HandlerStep(e)
  <2>1. PICK k \in DOMAIN sock[e].send_buffer : Resend(e, k)
    BY <1>6 DEF HandlerStep
  <2>2. PICK p, r, m : /\ p = sock[e].send_buffer[k].pkt /\ r = sock[e].send_buffer[k].retries + 1
                       /\ m = Without(sock[e].send_buffer, k)
    OBVIOUS
  <2>3. /\ \A f \in Ends : f # e => sock'[f] = sock[f]
        /\ \/ sock'[e] = [s EXCEPT !.send_buffer = m]
           \/ sock'[e] = Kept(s, p, r)
    BY <1>0, <2>1, <2>2, ResendIs
  <2>4. SameRecv(s, sock'[e])
    BY <2>3 DEF SameRecv, Socks, Kept
  <2>5. QED BY <1>0, <2>3, <2>4
<1>7. CASE \E pkt \in BagToSet(net[e]) : HandleAck(e, pkt)
  <2>1. PICK pkt \in BagToSet(net[e]) : HandleAck(e, pkt)
    BY <1>7
  <2> DEFINE newer == pkt.ack > sock[e].send_base
             delete == newer /\ ~sock[e].sending_big
  <2>2. PICK n, b, m : /\ n = IF newer THEN pkt.ack ELSE sock[e].send_base
                       /\ b = IF delete THEN Without(sock[e].send_buffer, pkt.ack) ELSE sock[e].send_buffer
                       /\ m = [k \in DOMAIN sock[e].ack_events |-> sock[e].ack_events[k] \/ pkt.ack >= k]
    OBVIOUS
  <2>3. /\ \A f \in Ends : f # e => sock'[f] = sock[f]
        /\ \/ sock'[e] = [s EXCEPT !.send_base = pkt.ack]
           \/ sock'[e] = [s EXCEPT !.send_base = n, !.send_buffer = b, !.ack_events = m]
    BY <1>0, <2>1, <2>2, HandleAckIs
  <2>4. SameRecv(s, sock'[e])
    BY <2>3 DEF SameRecv, Socks
  <2>5. QED BY <1>0, <2>3, <2>4
<1>8. QED BY <1>1, <1>2, <1>3, <1>4, <1>5, <1>6, <1>7 DEF SendStep

LEMMA ReceiversStep ==
  ASSUME Types, NEW e \in Ends,
         \/ HandleData(e) \/ SendAck(e) \/ RecvStep(e) \/ Close(e)
         \/ \E pkt \in BagToSet(net[e]) : Fault(e, pkt)
  PROVE  /\ sender' = sender
         /\ SameSend(sock[e], sock'[e]) /\ \A f \in Ends : f # e => sock'[f] = sock[f]
<1>0. PICK s \in Socks : s = sock[e]
  BY DEF Types
<1>1. CASE HandleData(e)
  <2>1. sender' = sender /\ \A f \in Ends : f # e => sock'[f] = sock[f]
    BY <1>1 DEF HandleData, Types
  <2> DEFINE pkt == receiver[e].pkt
             more == Followers(sock[e].recv_buffer, pkt.seq, pkt.len)
             taken == {more[i].seq : i \in DOMAIN more}
  <2>2. PICK q, b, w, n : /\ q = sock[e].recv_data \o <<[seq |-> pkt.seq, len |-> pkt.len]>> \o more
                          /\ b = [k \in DOMAIN sock[e].recv_buffer \ taken |-> sock[e].recv_buffer[k]]
                          /\ w = With(sock[e].recv_buffer, pkt.seq, pkt.len)
                          /\ n = sock[e].expected_seq_num + pkt.len * (1 + Len(more))
    OBVIOUS
  <2>3. \/ sock'[e] = [sock[e] EXCEPT !.recv_data = q, !.recv_buffer = b, !.expected_seq_num = n, !.recv_event = TRUE]
        \/ sock'[e] = [sock[e] EXCEPT !.recv_buffer = w]
        \/ sock'[e] = sock[e]
    BY <1>1, <2>2, HandleDataIs
  <2>4. SameSend(s, sock'[e])
    BY <1>0, <2>3 DEF SameSend, Socks
  <2>5. QED BY <1>0, <2>1, <2>4
<1>2. CASE SendAck(e) \/ \E pkt \in BagToSet(net[e]) : Fault(e, pkt)
  BY <1>2 DEF SendAck, Fault, SameSend
<1>3. CASE RecvStep(e) \/ Close(e)
  <2>1. PICK q : q = Tail(sock[e].recv_data)
    OBVIOUS
  <2>2. /\ sender' = sender /\ \A f \in Ends : f # e => sock'[f] = sock[f]
        /\ \/ sock'[e] = [s EXCEPT !.recv_data = q]
           \/ sock'[e] = [s EXCEPT !.recv_event = FALSE]
           \/ sock'[e] = [s EXCEPT !.running = FALSE]
           \/ sock'[e] = s
    BY <1>0, <1>3, <2>1 DEF RecvStep, RecvCalled, Pop, FindsNothing, Woken, ClearEvent, RecvReturns, Close, Types
  <2>3. SameSend(s, sock'[e])
    BY <2>2 DEF SameSend, Socks
  <2>4. QED BY <1>0, <2>2, <2>3
<1>4. QED BY <1>1, <1>2, <1>3

LEMMA NextBase == Base /\ [Next]_vars => Base'
<1> SUFFICES ASSUME Base, [Next]_vars PROVE Busy' /\ Waits'
  BY NextTypes DEF Base
<1> USE DEF Base
<1>1. ASSUME NEW e \in Ends, SendCalled(e) PROVE Busy' /\ Waits'
  <2>1. \A f \in Ends : f # e => sender'[f] = sender[f] /\ sock'[f] = sock[f]
    BY <1>1 DEF SendCalled, Types
  <2>2. /\ sender'[e].at \in {"small", "chunk"} /\ sender'[e].done = sender[e].done
        /\ sender'[e].sent = sender[e].sent /\ sender[e].sent = 0 /\ sender[e].done < Len(Messages[e])
    BY <1>1 DEF SendCalled, Types, Senders, Busy
  <2>3. Msg(e) \in Nat
    BY <2>2, MsgIs
  <2>4. Msg(e)' = Msg(e) /\ \A f \in Ends : f # e => Msg(f)' = Msg(f)
    BY <2>1, <2>2 DEF Msg
  <2>5. QED BY <2>1, <2>2, <2>3, <2>4 DEF Busy, Waits
<1>2. ASSUME NEW e \in Ends, SendFullPacket(e) \/ BigDone(e) PROVE Busy' /\ Waits'
  <2>1. /\ \A f \in Ends : f # e => sender'[f] = sender[f] /\ Msg(f)' = Msg(f)
        /\ sender'[e].at = "idle" /\ sender'[e].sent = 0
    BY <1>2 DEF SendFullPacket, BigDone, Sent, Types, Msg
  <2>2. \A f \in Ends : f # e => sock'[f] = sock[f]
    BY <1>2 DEF SendFullPacket, BigDone, Types
  <2>3. QED BY <2>1, <2>2 DEF Busy, Waits
<1>3. ASSUME NEW e \in Ends, SendChunk(e) PROVE Busy' /\ Waits'
  <2>1. PICK len \in Nat, pkt \in Packets :
          /\ len <= Msg(e) - sender[e].sent /\ Msg(e) \in Nat
          /\ sender' = [sender EXCEPT ![e].at = "waiting", ![e].sent = @ + len, ![e].key = pkt.seq + len]
          /\ sock' = [sock EXCEPT ![e] = [Kept(sock[e], pkt, 0) EXCEPT
                        !.next_seq_num = pkt.seq + len, !.ack_events = With(@, pkt.seq + len, FALSE)]]
    BY <1>3, ChunkIs
  <2>2. /\ \A f \in Ends : f # e => sender'[f] = sender[f] /\ Msg(f)' = Msg(f) /\ sock'[f] = sock[f]
        /\ sender'[e].at = "waiting" /\ sender'[e].key = pkt.seq + len /\ Msg(e)' = Msg(e)
        /\ sender'[e].done = sender[e].done /\ sender'[e].sent = sender[e].sent + len
    BY <2>1 DEF Types, Senders, Msg
  <2>3. pkt.seq + len \in DOMAIN sock'[e].ack_events
    BY <2>1 DEF Types, Socks, Kept, With
  <2>4. sender[e].sent \in Nat /\ sender[e].done < Len(Messages[e])
    BY <1>3 DEF Types, Senders, Busy, SendChunk
  <2>5. sender'[e].sent <= Msg(e)'
    BY <2>1, <2>2, <2>4
  <2>6. QED BY <2>2, <2>3, <2>4, <2>5 DEF Busy, Waits
<1>4. ASSUME NEW e \in Ends, ChunkAcked(e) \/ ChunkTimesOut(e) PROVE Busy' /\ Waits'
  <2>0. /\ \A f \in Ends : f # e => sender'[f] = sender[f]
        /\ sender[e].at = "waiting"
        /\ sender'[e] \in {[sender[e] EXCEPT !.at = "chunk"], [sender[e] EXCEPT !.at = "KeyError"]}
    BY <1>4 DEF ChunkAcked, ChunkTimesOut, Types
  <2>1. /\ sender'[e].at \in {"chunk", "KeyError"}
        /\ sender'[e].done = sender[e].done /\ sender'[e].sent = sender[e].sent
    BY <2>0 DEF Types, Senders
  <2>2. \A f \in Ends : f # e => sock'[f] = sock[f]
    BY <1>4 DEF ChunkAcked, ChunkTimesOut, Types
  <2>3. \A f \in Ends : Msg(f)' = Msg(f)
    BY <2>0, <2>1 DEF Msg
  <2>4. QED BY <2>0, <2>1, <2>2, <2>3 DEF Busy, Waits
<1>5. ASSUME NEW e \in Ends,
             \/ HandleData(e) \/ SendAck(e) \/ RecvStep(e) \/ Close(e)
             \/ \E pkt \in BagToSet(net[e]) : Fault(e, pkt)
      PROVE  Busy' /\ Waits'
  BY <1>5, ReceiversStep DEF Busy, Waits, Msg, SameSend
<1>6. ASSUME NEW e \in Ends, HandlerStep(e) \/ \E pkt \in BagToSet(net[e]) : HandleAck(e, pkt)
      PROVE  Busy' /\ Waits'
  <2>1. sender' = sender /\ \A f \in Ends : f # e => sock'[f] = sock[f]
    BY <1>6 DEF HandlerStep, Resend, ResendUpTo, HandleAck, Types
  <2>2. DOMAIN sock'[e].ack_events = DOMAIN sock[e].ack_events
    <3>1. CASE HandlerStep(e)
      <4>1. PICK k \in DOMAIN sock[e].send_buffer : Resend(e, k)
        BY <3>1 DEF HandlerStep
      <4>2. PICK p, r, m : /\ p = sock[e].send_buffer[k].pkt /\ r = sock[e].send_buffer[k].retries + 1
                           /\ m = Without(sock[e].send_buffer, k)
        OBVIOUS
      <4>3. sock'[e] = [sock[e] EXCEPT !.send_buffer = m] \/ sock'[e] = Kept(sock[e], p, r)
        BY <4>1, <4>2, ResendIs
      <4>4. sock[e] \in Socks
        BY DEF Types
      <4>5. QED BY <4>3, <4>4 DEF Socks, Kept
    <3>2. ASSUME NEW pkt \in BagToSet(net[e]), HandleAck(e, pkt)
          PROVE  DOMAIN sock'[e].ack_events = DOMAIN sock[e].ack_events
      <4>1. PICK n, b, m :
           /\ n = IF pkt.ack > sock[e].send_base THEN pkt.ack ELSE sock[e].send_base
           /\ b = IF pkt.ack > sock[e].send_base /\ ~sock[e].sending_big
                  THEN Without(sock[e].send_buffer, pkt.ack) ELSE sock[e].send_buffer
           /\ m = [k \in DOMAIN sock[e].ack_events |-> sock[e].ack_events[k] \/ pkt.ack >= k]
        OBVIOUS
      <4>2. \/ sock'[e] = [sock[e] EXCEPT !.send_base = pkt.ack] /\ pkt.ack > sock[e].send_base
            \/ sock'[e] = [sock[e] EXCEPT !.send_base = n, !.send_buffer = b, !.ack_events = m]
        BY <3>2, <4>1, HandleAckIs
      <4>3. sock[e] \in Socks /\ DOMAIN m = DOMAIN sock[e].ack_events
        BY <4>1 DEF Types
      <4>4. sock'[e].ack_events = sock[e].ack_events \/ sock'[e].ack_events = m
        BY <4>2, <4>3 DEF Socks
      <4>5. QED BY <4>3, <4>4
    <3>3. QED BY <1>6, <3>1, <3>2
  <2>3. QED BY <2>1, <2>2 DEF Busy, Waits, Msg
<1>7. CASE UNCHANGED vars
  BY <1>7 DEF vars, Busy, Waits, Msg
<1>8. QED BY <1>1, <1>2, <1>3, <1>4, <1>5, <1>6, <1>7 DEF Next, SendStep, ReceiverStep

LEMMA InitBase == Init => Base
BY TInit DEF Base, Init, Busy, Waits

-----------------------------------------------------------------------------
\* The event is set with the data, in the same section; a reader that goes to
\* wait has found no data.
LEMMA NextReader == Base /\ ReaderIsWoken /\ [Next]_vars => ReaderIsWoken'
<1> SUFFICES ASSUME Base, ReaderIsWoken, [Next]_vars PROVE ReaderIsWoken'
  OBVIOUS
<1> USE DEF Base
<1>1. ASSUME NEW e \in Ends, HandleData(e) PROVE ReaderIsWoken'
  <2>1. reader' = reader /\ \A f \in Ends : f # e => sock'[f] = sock[f]
    BY <1>1 DEF HandleData, Types
  <2>2. \/ sock'[e].recv_event = TRUE
        \/ sock'[e].recv_event = sock[e].recv_event /\ sock'[e].recv_data = sock[e].recv_data
    BY <1>1, HandleDataIs DEF Types, Socks
  <2>3. QED BY <2>1, <2>2 DEF ReaderIsWoken
<1>2. ASSUME NEW e \in Ends, RecvStep(e) PROVE ReaderIsWoken'
  <2>1. \A f \in Ends : f # e => sock'[f] = sock[f] /\ reader'[f] = reader[f]
    BY <1>2 DEF RecvStep, RecvCalled, Pop, FindsNothing, Woken, ClearEvent, RecvReturns, Types
  <2>2. reader'[e].at = "waiting" => sock'[e].recv_data = <<>>
    <3>1. CASE FindsNothing(e)
      BY <3>1 DEF FindsNothing, Types
    <3>2. CASE Pop(e)
      BY <3>2 DEF Pop, Types, Readers
    <3>3. CASE RecvCalled(e) \/ Woken(e) \/ ClearEvent(e) \/ RecvReturns(e)
      BY <3>3 DEF RecvCalled, Woken, ClearEvent, RecvReturns, Types, Readers
    <3>4. QED BY <1>2, <3>1, <3>2, <3>3 DEF RecvStep
  <2>3. QED BY <2>1, <2>2 DEF ReaderIsWoken
<1>3. ASSUME NEW e \in Ends,
             \/ SendCalled(e) \/ SendStep(e) \/ HandlerStep(e) \/ Close(e)
             \/ \E pkt \in BagToSet(net[e]) : HandleAck(e, pkt)
      PROVE  ReaderIsWoken'
  <2>1. reader' = reader
    BY <1>3 DEF SendCalled, SendStep, SendFullPacket, SendChunk, ChunkAcked, ChunkTimesOut, BigDone,
                HandlerStep, Resend, ResendUpTo, Close, HandleAck
  <2>2. SameRecv(sock[e], sock'[e]) /\ \A f \in Ends : f # e => sock'[f] = sock[f]
    BY <1>3, SendersStep
  <2>3. QED BY <2>1, <2>2 DEF ReaderIsWoken, SameRecv
<1>4. ASSUME NEW e \in Ends, SendAck(e) \/ \E pkt \in BagToSet(net[e]) : Fault(e, pkt) PROVE  ReaderIsWoken'
  BY <1>4 DEF SendAck, Fault, ReaderIsWoken
<1>5. CASE UNCHANGED vars
  BY <1>5 DEF vars, ReaderIsWoken
<1>6. QED BY <1>1, <1>2, <1>3, <1>4, <1>5 DEF Next, ReceiverStep

(***************************************************************************)
(* recv never sleeps on data: a thread that waits for recv_event while     *)
(* there is something to read finds the event set.                         *)
(***************************************************************************)
THEOREM TCPReaderIsWoken == Spec => []ReaderIsWoken
<1>1. Init => ReaderIsWoken
  BY DEF Init, ReaderIsWoken
<1>2. QED BY <1>1, InitBase, NextBase, NextReader, PTL DEF Spec

-----------------------------------------------------------------------------
\* An event that is set was set by an acknowledgement that send_base remembers.
EventMeansAcked == \A e \in Ends : \A k \in DOMAIN sock[e].ack_events :
  sock[e].ack_events[k] => sock[e].send_base >= k

LEMMA NextEvents == Base /\ EventMeansAcked /\ [Next]_vars => EventMeansAcked'
<1> SUFFICES ASSUME Base, EventMeansAcked, [Next]_vars PROVE EventMeansAcked'
  OBVIOUS
<1> USE DEF Base
<1>0. \A e \in Ends : sock[e] \in Socks
  BY DEF Types
<1>1. ASSUME NEW e \in Ends,
             \/ HandleData(e) \/ SendAck(e) \/ RecvStep(e) \/ Close(e)
             \/ \E pkt \in BagToSet(net[e]) : Fault(e, pkt)
      PROVE  EventMeansAcked'
  BY <1>1, ReceiversStep DEF SameSend, EventMeansAcked
<1>2. ASSUME NEW e \in Ends, SendCalled(e) \/ BigDone(e) PROVE EventMeansAcked'
  <2>1. /\ \A f \in Ends : f # e => sock'[f] = sock[f]
        /\ \/ sock'[e] = [sock[e] EXCEPT !.sending_big = TRUE]
           \/ sock'[e] = [sock[e] EXCEPT !.sending_big = FALSE]
           \/ sock'[e] = sock[e]
    BY <1>2 DEF SendCalled, BigDone, Types
  <2>2. sock'[e].ack_events = sock[e].ack_events /\ sock'[e].send_base = sock[e].send_base
    BY <1>0, <2>1 DEF Socks
  <2>3. QED BY <2>1, <2>2 DEF EventMeansAcked
<1>3. ASSUME NEW e \in Ends, SendFullPacket(e) PROVE EventMeansAcked'
  <2>1. PICK p : p = Data(sock[e].next_seq_num, Msg(e), sender[e].ack)
    OBVIOUS
  <2>2. /\ \A f \in Ends : f # e => sock'[f] = sock[f]
        /\ sock'[e] = [Kept(sock[e], p, 0) EXCEPT !.next_seq_num = Kept(sock[e], p, 0).next_seq_num + p.len]
    BY <1>3, <2>1 DEF SendFullPacket, Types
  <2>3. sock'[e].ack_events = sock[e].ack_events /\ sock'[e].send_base = sock[e].send_base
    BY <1>0, <2>2 DEF Socks, Kept
  <2>4. QED BY <2>2, <2>3 DEF EventMeansAcked
<1>4. ASSUME NEW e \in Ends, SendChunk(e) PROVE EventMeansAcked'
  <2>1. PICK len \in Nat, p \in Packets :
          sock' = [sock EXCEPT ![e] = [Kept(sock[e], p, 0) EXCEPT
                        !.next_seq_num = p.seq + len, !.ack_events = With(@, p.seq + len, FALSE)]]
    BY <1>4, ChunkIs
  <2>2. PICK n, m : n = p.seq + len /\ m = With(Kept(sock[e], p, 0).ack_events, n, FALSE)
    OBVIOUS
  <2>3. /\ \A f \in Ends : f # e => sock'[f] = sock[f]
        /\ sock'[e] = [Kept(sock[e], p, 0) EXCEPT !.next_seq_num = n, !.ack_events = m]
    BY <2>1, <2>2 DEF Types
  <2>4. sock'[e].ack_events = m /\ sock'[e].send_base = sock[e].send_base
        /\ Kept(sock[e], p, 0).ack_events = sock[e].ack_events
    BY <1>0, <2>3 DEF Socks, Kept
  <2>5. \A k \in DOMAIN m : m[k] => k \in DOMAIN sock[e].ack_events /\ sock[e].ack_events[k]
    BY <2>2, <2>4 DEF With
  <2>6. QED BY <2>3, <2>4, <2>5 DEF EventMeansAcked
<1>5. ASSUME NEW e \in Ends, ChunkAcked(e) \/ ChunkTimesOut(e) PROVE EventMeansAcked'
  <2>1. PICK k, p, r, m : /\ k = sender[e].key /\ p = sock[e].send_buffer[k].pkt
                          /\ r = sock[e].send_buffer[k].retries + 1
                          /\ m = [sock[e].ack_events EXCEPT ![k] = FALSE]
    OBVIOUS
  <2>2. /\ \A f \in Ends : f # e => sock'[f] = sock[f]
        /\ \/ sock'[e] = [Kept(sock[e], p, r) EXCEPT !.ack_events = m]
           \/ sock'[e] = Forget(sock[e], k)
           \/ sock'[e] = sock[e]
    BY <1>5, <2>1, TimeoutIs DEF ChunkAcked, Types
  <2>3. /\ sock'[e].send_base = sock[e].send_base
        /\ sock'[e].ack_events \in {m, Without(sock[e].ack_events, k), sock[e].ack_events}
    BY <1>0, <2>2 DEF Socks, Kept, Forget
  <2>4. \A x \in DOMAIN sock'[e].ack_events :
          sock'[e].ack_events[x] => x \in DOMAIN sock[e].ack_events /\ sock[e].ack_events[x]
    <3>1. CASE sock'[e].ack_events = m
      BY <2>1, <3>1
    <3>2. CASE sock'[e].ack_events = Without(sock[e].ack_events, k)
      BY <3>2 DEF Without
    <3>3. QED BY <2>3, <3>1, <3>2
  <2>5. QED BY <2>2, <2>3, <2>4 DEF EventMeansAcked
<1>6. ASSUME NEW e \in Ends, HandlerStep(e) PROVE EventMeansAcked'
  <2>1. PICK k \in DOMAIN sock[e].send_buffer : Resend(e, k)
    BY <1>6 DEF HandlerStep
  <2>2. PICK p, r, m : /\ p = sock[e].send_buffer[k].pkt /\ r = sock[e].send_buffer[k].retries + 1
                       /\ m = Without(sock[e].send_buffer, k)
    OBVIOUS
  <2>3. /\ \A f \in Ends : f # e => sock'[f] = sock[f]
        /\ sock'[e] = [sock[e] EXCEPT !.send_buffer = m] \/ sock'[e] = Kept(sock[e], p, r)
    BY <2>1, <2>2, ResendIs
  <2>4. sock'[e].ack_events = sock[e].ack_events /\ sock'[e].send_base = sock[e].send_base
    BY <1>0, <2>3 DEF Socks, Kept
  <2>5. QED BY <2>3, <2>4 DEF EventMeansAcked
<1>7. ASSUME NEW e \in Ends, NEW pkt \in BagToSet(net[e]), HandleAck(e, pkt) PROVE EventMeansAcked'
  <2>0. pkt.ack \in Nat /\ sock[e].send_base \in Nat /\ sock[e].ack_events \in Maps(BOOLEAN)
    BY DEF Types, Packets, Socks
  <2>1. \A k \in DOMAIN sock[e].ack_events : k \in Nat
    BY <2>0, MapIs
  <2> DEFINE m == [k \in DOMAIN sock[e].ack_events |-> sock[e].ack_events[k] \/ pkt.ack >= k]
  <2>2. \A f \in Ends : f # e => sock'[f] = sock[f]
    BY <1>7, HandleAckIs
  <2>3. \/ sock'[e].send_base = pkt.ack /\ pkt.ack > sock[e].send_base /\ sock'[e].ack_events = sock[e].ack_events
        \/ /\ sock'[e].send_base = IF pkt.ack > sock[e].send_base THEN pkt.ack ELSE sock[e].send_base
           /\ sock'[e].ack_events = m
    <3>1. PICK n, b, mm :
           /\ n = IF pkt.ack > sock[e].send_base THEN pkt.ack ELSE sock[e].send_base
           /\ b = IF pkt.ack > sock[e].send_base /\ ~sock[e].sending_big
                  THEN Without(sock[e].send_buffer, pkt.ack) ELSE sock[e].send_buffer
           /\ mm = [k \in DOMAIN sock[e].ack_events |-> sock[e].ack_events[k] \/ pkt.ack >= k]
      OBVIOUS
    <3>2. \/ sock'[e] = [sock[e] EXCEPT !.send_base = pkt.ack] /\ pkt.ack > sock[e].send_base
          \/ sock'[e] = [sock[e] EXCEPT !.send_base = n, !.send_buffer = b, !.ack_events = mm]
      BY <1>7, <3>1, HandleAckIs
    <3>3. \/ sock'[e].send_base = pkt.ack /\ sock'[e].ack_events = sock[e].ack_events /\ pkt.ack > sock[e].send_base
          \/ sock'[e].send_base = n /\ sock'[e].ack_events = mm
      BY <1>0, <3>2 DEF Socks
    <3>4. QED BY <3>1, <3>3
  <2>4. sock'[e].send_base \in Nat /\ sock'[e].send_base >= pkt.ack /\ sock'[e].send_base >= sock[e].send_base
    BY <2>0, <2>3
  <2>5. ASSUME NEW k \in DOMAIN sock'[e].ack_events, sock'[e].ack_events[k] PROVE sock'[e].send_base >= k
    <3>1. k \in DOMAIN sock[e].ack_events /\ k \in Nat
      BY <2>1, <2>3, <2>5
    <3>2. sock[e].ack_events[k] \/ pkt.ack >= k
      BY <2>3, <2>5, <3>1
    <3>3. CASE pkt.ack >= k
      BY <2>0, <2>4, <3>1, <3>3
    <3>4. CASE sock[e].ack_events[k]
      <4>1. sock[e].send_base >= k
        BY <3>1, <3>4 DEF EventMeansAcked
      <4>2. QED BY <2>0, <2>4, <3>1, <4>1
    <3>5. QED BY <3>2, <3>3, <3>4
  <2>6. QED BY <2>2, <2>5 DEF EventMeansAcked
<1>8. CASE UNCHANGED vars
  BY <1>8 DEF vars, EventMeansAcked
<1>9. QED BY <1>1, <1>2, <1>3, <1>4, <1>5, <1>6, <1>7, <1>8 DEF Next, SendStep, ReceiverStep

(***************************************************************************)
(* Whoever removes the entry of a packet has used all its retries, or has  *)
(* the acknowledgement that covers it: the sender, on its event; the       *)
(* receiving thread, on the acknowledgement it is handling; the resender,  *)
(* on the count, which never passes MaxRetries.                            *)
(***************************************************************************)
LEMMA NoEarlyRemoval ==
  ASSUME Base, EventMeansAcked, [Next]_vars, NEW e \in Ends,
         NEW key \in DOMAIN sock[e].send_buffer, key \notin DOMAIN sock'[e].send_buffer
  PROVE  sock'[e].send_base >= key \/ sock[e].send_buffer[key].retries = MaxRetries
<1> USE DEF Base
<1>0. sock[e] \in Socks /\ key \in Nat /\ sock[e].send_buffer[key] \in Entries
  BY SafeEntry
<1>1. sock[e].send_buffer[key].retries \in 0..MaxRetries
  BY <1>0 DEF Entries
<1>2. sock'[e].send_buffer # sock[e].send_buffer /\ sock'[e] # sock[e]
  OBVIOUS
<1>3. ASSUME NEW f \in Ends,
             \/ HandleData(f) \/ SendAck(f) \/ RecvStep(f) \/ Close(f)
             \/ \E pkt \in BagToSet(net[f]) : Fault(f, pkt)
      PROVE  FALSE
  BY <1>2, <1>3, ReceiversStep DEF SameSend
<1>4. ASSUME NEW f \in Ends, SendCalled(f) \/ BigDone(f) PROVE FALSE
  <2>1. f = e
    BY <1>2, <1>4 DEF SendCalled, BigDone, Types
  <2>2. \/ sock'[e] = [sock[e] EXCEPT !.sending_big = TRUE]
        \/ sock'[e] = [sock[e] EXCEPT !.sending_big = FALSE]
    BY <1>2, <1>4, <2>1 DEF SendCalled, BigDone, Types
  <2>3. sock'[e].send_buffer = sock[e].send_buffer
    BY <1>0, <2>2 DEF Socks
  <2>4. QED BY <1>2, <2>3
<1>5. ASSUME NEW f \in Ends, SendFullPacket(f) PROVE FALSE
  <2>1. f = e
    BY <1>2, <1>5 DEF SendFullPacket, Types
  <2>2. PICK p, n : p = Data(sock[e].next_seq_num, Msg(e), sender[e].ack) /\ n = Kept(sock[e], p, 0).next_seq_num + p.len
    OBVIOUS
  <2>3. sock'[e] = [Kept(sock[e], p, 0) EXCEPT !.next_seq_num = n]
    BY <1>5, <2>1, <2>2 DEF SendFullPacket, Types
  <2>4. DOMAIN sock[e].send_buffer \subseteq DOMAIN sock'[e].send_buffer
    BY <1>0, <2>3 DEF Socks, Kept, With
  <2>5. QED BY <2>4
<1>6. ASSUME NEW f \in Ends, SendChunk(f) PROVE FALSE
  <2>1. PICK len \in Nat, p \in Packets :
          sock' = [sock EXCEPT ![f] = [Kept(sock[f], p, 0) EXCEPT
                        !.next_seq_num = p.seq + len, !.ack_events = With(@, p.seq + len, FALSE)]]
    BY <1>6, ChunkIs
  <2>2. PICK n, m : n = p.seq + len /\ m = With(Kept(sock[f], p, 0).ack_events, n, FALSE)
    OBVIOUS
  <2>3. f = e /\ sock'[e] = [Kept(sock[e], p, 0) EXCEPT !.next_seq_num = n, !.ack_events = m]
    BY <1>2, <2>1, <2>2 DEF Types
  <2>4. DOMAIN sock[e].send_buffer \subseteq DOMAIN sock'[e].send_buffer
    BY <1>0, <2>3 DEF Socks, Kept, With
  <2>5. QED BY <2>4
<1>7. ASSUME NEW f \in Ends, ChunkAcked(f) PROVE sock'[e].send_base >= key
  <2>1. f = e /\ sock'[e] = Forget(sock[e], sender[e].key) /\ sock[e].ack_events[sender[e].key] /\ sender[e].at = "waiting"
    BY <1>2, <1>7 DEF ChunkAcked, Types
  <2>2. PICK k : k = sender[e].key
    OBVIOUS
  <2>3. k \in DOMAIN sock[e].ack_events /\ sock[e].ack_events[k]
    BY <2>1, <2>2 DEF Waits
  <2>4. sock'[e].send_base = sock[e].send_base /\ sock'[e].send_buffer = Without(sock[e].send_buffer, k)
    BY <1>0, <2>1, <2>2 DEF Socks, Forget
  <2>5. key = k
    BY <2>4 DEF Without
  <2>6. QED BY <2>3, <2>4, <2>5 DEF EventMeansAcked
<1>8. ASSUME NEW f \in Ends, ChunkTimesOut(f) PROVE sock[e].send_buffer[key].retries = MaxRetries
  <2>1. f = e
    BY <1>2, <1>8, TimeoutIs
  <2>2. PICK k, p, r, m : /\ k = sender[e].key /\ p = sock[e].send_buffer[k].pkt
                          /\ r = sock[e].send_buffer[k].retries + 1
                          /\ m = [sock[e].ack_events EXCEPT ![k] = FALSE]
    OBVIOUS
  <2>3. \/ sock'[e] = [Kept(sock[e], p, r) EXCEPT !.ack_events = m]
        \/ sock'[e] = Forget(sock[e], k) /\ sock[e].send_buffer[k].retries >= MaxRetries
    BY <1>2, <1>8, <2>1, <2>2, TimeoutIs
  <2>4. sock'[e] # [Kept(sock[e], p, r) EXCEPT !.ack_events = m]
    <3>1. SUFFICES ASSUME sock'[e] = [Kept(sock[e], p, r) EXCEPT !.ack_events = m] PROVE FALSE
      OBVIOUS
    <3>2. DOMAIN sock[e].send_buffer \subseteq DOMAIN sock'[e].send_buffer
      BY <1>0, <3>1 DEF Socks, Kept, With
    <3>3. QED BY <3>2
  <2>5. sock'[e].send_buffer = Without(sock[e].send_buffer, k)
    BY <1>0, <2>3, <2>4 DEF Socks, Forget
  <2>6. key = k
    BY <2>5 DEF Without
  <2>7. QED BY <1>1, <2>3, <2>4, <2>6, TCPAssumption
<1>9. ASSUME NEW f \in Ends, HandlerStep(f) PROVE sock[e].send_buffer[key].retries = MaxRetries
  <2>1. PICK k \in DOMAIN sock[f].send_buffer : Resend(f, k)
    BY <1>9 DEF HandlerStep
  <2>2. f = e
    BY <1>2, <2>1, ResendIs
  <2>3. PICK p, r, m : /\ p = sock[e].send_buffer[k].pkt /\ r = sock[e].send_buffer[k].retries + 1
                       /\ m = Without(sock[e].send_buffer, k)
    OBVIOUS
  <2>4. \/ sock'[e] = [sock[e] EXCEPT !.send_buffer = m] /\ sock[e].send_buffer[k].retries >= MaxRetries
        \/ sock'[e] = Kept(sock[e], p, r)
    BY <2>1, <2>2, <2>3, ResendIs
  <2>5. sock'[e] # Kept(sock[e], p, r)
    BY <1>0 DEF Socks, Kept, With
  <2>6. sock'[e].send_buffer = m
    BY <1>0, <2>4, <2>5 DEF Socks
  <2>7. key = k
    BY <2>3, <2>6 DEF Without
  <2>8. QED BY <1>1, <2>4, <2>5, <2>7, TCPAssumption
<1>10. ASSUME NEW f \in Ends, NEW pkt \in BagToSet(net[f]), HandleAck(f, pkt) PROVE sock'[e].send_base >= key
  <2>1. f = e
    BY <1>2, <1>10, HandleAckIs
  <2>2. pkt.ack \in Nat
    BY DEF Types, Packets
  <2>3. PICK n, b, m :
           /\ n = IF pkt.ack > sock[e].send_base THEN pkt.ack ELSE sock[e].send_base
           /\ b = IF pkt.ack > sock[e].send_base /\ ~sock[e].sending_big
                  THEN Without(sock[e].send_buffer, pkt.ack) ELSE sock[e].send_buffer
           /\ m = [k \in DOMAIN sock[e].ack_events |-> sock[e].ack_events[k] \/ pkt.ack >= k]
    OBVIOUS
  <2>4. \/ sock'[e] = [sock[e] EXCEPT !.send_base = pkt.ack]
        \/ sock'[e] = [sock[e] EXCEPT !.send_base = n, !.send_buffer = b, !.ack_events = m]
    BY <1>10, <2>1, <2>3, HandleAckIs
  <2>5. sock'[e].send_base = n /\ sock'[e].send_buffer = b
    BY <1>0, <1>2, <2>4 DEF Socks
  <2>6. b = Without(sock[e].send_buffer, pkt.ack) /\ n = pkt.ack
    BY <1>2, <2>3, <2>5
  <2>7. key = pkt.ack
    BY <2>5, <2>6 DEF Without
  <2>8. QED BY <2>2, <2>5, <2>6, <2>7
<1>11. ~UNCHANGED vars
  BY <1>2 DEF vars
<1>12. QED BY <1>3, <1>4, <1>5, <1>6, <1>7, <1>8, <1>9, <1>10, <1>11 DEF Next, SendStep, ReceiverStep

(***************************************************************************)
(* A packet is given up only when all its retries are used or the other    *)
(* end has acknowledged it, whichever thread removes its entry.            *)
(***************************************************************************)
THEOREM TCPNothingGivenUpEarly == Spec => NothingGivenUpEarly
<1>1. Init => EventMeansAcked
  BY DEF Init, EventMeansAcked
<1>2. Base /\ EventMeansAcked /\ [Next]_vars =>
        [\A e \in Ends : \A key \in DOMAIN sock[e].send_buffer \ DOMAIN sock'[e].send_buffer :
           sock'[e].send_base >= key \/ sock[e].send_buffer[key].retries = MaxRetries]_vars
  BY NoEarlyRemoval
<1>3. QED BY <1>1, <1>2, InitBase, NextBase, NextEvents, PTL DEF Spec, NothingGivenUpEarly

-----------------------------------------------------------------------------
(***************************************************************************)
(* Where packets come from.  e sends the packets it keeps, and             *)
(* acknowledgements; a packet that is kept from this step on is the next   *)
(* part of its stream.                                                     *)
(***************************************************************************)
OldPacket(e, p) == \E k \in DOMAIN sock[e].send_buffer : p = sock[e].send_buffer[k].pkt
NewPacket(e, p) ==
  /\ p \in Packets /\ p.data /\ p.seq = sock[e].next_seq_num /\ sock'[e].next_seq_num = p.seq + p.len
  /\ p.ack \in {sender[e].ack, sock[e].expected_seq_num}
  /\ sender[e].done < Len(Messages[e])
  /\ \/ sender[e].at = "small" /\ p.len = Msg(e)
     \/ sender[e].at = "chunk" /\ p.len = Min({MaxPayload, Msg(e) - sender[e].sent}) /\ p.len > 0

Packeting(e) ==
  /\ sock'[e].next_seq_num # sock[e].next_seq_num => \E p \in Packets : NewPacket(e, p)
  /\ \A k \in DOMAIN sock'[e].send_buffer :
       OldPacket(e, sock'[e].send_buffer[k].pkt) \/ NewPacket(e, sock'[e].send_buffer[k].pkt)
  /\ \A p \in BagToSet(net'[Peer(e)]) :
       \/ p \in BagToSet(net[Peer(e)]) \/ p = Ack(sock[e].expected_seq_num)
       \/ OldPacket(e, p) \/ NewPacket(e, p)

LEMMA Quiet ==
  ASSUME Types, NEW e \in Ends, SameSend(sock[e], sock'[e]),
         BagToSet(net'[Peer(e)]) \subseteq BagToSet(net[Peer(e)])
  PROVE  Packeting(e)
BY DEF Packeting, SameSend, OldPacket

LEMMA OtherQuiet ==
  ASSUME Types, NEW e \in Ends, NEW f \in Ends, e # f, sock'[e] = sock[e],
         \/ UNCHANGED net
         \/ \E p \in Packets : Transmit(f, p)
         \/ \E p \in BagToSet(net[f]) : net' = [net EXCEPT ![f] = Bag!BagRemove(@, p)] \/ net' = [net EXCEPT ![f] = Bag!BagAdd(@, p)]
  PROVE  Packeting(e)
<1>1. f = Peer(e) /\ Peer(f) = e /\ Peer(e) # e
  BY Peers
<1>2. ASSUME NEW p \in Packets, Transmit(f, p) PROVE net'[Peer(e)] = net[Peer(e)]
  BY <1>1, <1>2 DEF Transmit, Types
<1>3. ASSUME NEW p \in BagToSet(net[f]),
             net' = [net EXCEPT ![f] = Bag!BagRemove(@, p)] \/ net' = [net EXCEPT ![f] = Bag!BagAdd(@, p)]
      PROVE  BagToSet(net'[Peer(e)]) \subseteq BagToSet(net[Peer(e)])
  <2>1. BagToSet(Bag!BagRemove(net[f], p)) \subseteq BagToSet(net[f])
    BY BagRemoved
  <2>2. BagToSet(Bag!BagAdd(net[f], p)) \subseteq BagToSet(net[f])
    BY BagAdded
  <2>3. QED BY <1>1, <1>3, <2>1, <2>2 DEF Types
<1>4. BagToSet(net'[Peer(e)]) \subseteq BagToSet(net[Peer(e)])
  BY <1>2, <1>3
<1>5. QED BY <1>4, Quiet DEF SameSend

LEMMA SendFullPacketIs ==
  ASSUME Base, NEW e \in Ends, SendFullPacket(e)
  PROVE  \E p \in Packets : /\ NewPacket(e, p) /\ Transmit(e, p)
                            /\ sock'[e].send_buffer = With(sock[e].send_buffer, p.seq + p.len, [pkt |-> p, retries |-> 0])
                            /\ \A f \in Ends : f # e => sock'[f] = sock[f]
<1> USE DEF Base
<1>1. Msg(e) \in Nat /\ sock[e] \in Socks /\ sender[e].at = "small" /\ sender[e].done < Len(Messages[e])
  BY MsgIs DEF SendFullPacket, Busy, Types
<1>2. PICK p \in Packets : p = Data(sock[e].next_seq_num, Msg(e), sender[e].ack)
  BY <1>1 DEF Data, Packets, Types, Socks, Senders
<1>3. p.seq = sock[e].next_seq_num /\ p.len = Msg(e) /\ p.ack = sender[e].ack /\ p.data
  BY <1>2 DEF Data
<1>4. sock' = [sock EXCEPT ![e] = [Kept(sock[e], p, 0) EXCEPT !.next_seq_num = @ + p.len]] /\ Transmit(e, p)
  BY <1>2 DEF SendFullPacket
<1>5. PICK n : n = Kept(sock[e], p, 0).next_seq_num + p.len
  OBVIOUS
<1>6. sock'[e] = [Kept(sock[e], p, 0) EXCEPT !.next_seq_num = n] /\ \A f \in Ends : f # e => sock'[f] = sock[f]
  BY <1>4, <1>5 DEF Types
<1>7. Kept(sock[e], p, 0).next_seq_num = sock[e].next_seq_num
  BY <1>1 DEF Kept, Socks
<1>8. sock'[e].next_seq_num = n /\ sock'[e].send_buffer = With(sock[e].send_buffer, p.seq + p.len, [pkt |-> p, retries |-> 0])
  BY <1>1, <1>6 DEF Kept, Socks
<1>9. NewPacket(e, p)
  BY <1>1, <1>3, <1>5, <1>7, <1>8 DEF NewPacket
<1>10. QED BY <1>4, <1>6, <1>8, <1>9

LEMMA SendChunkIs ==
  ASSUME Base, NEW e \in Ends, SendChunk(e)
  PROVE  \E p \in Packets : /\ NewPacket(e, p) /\ Transmit(e, p)
                            /\ sock'[e].send_buffer = With(sock[e].send_buffer, p.seq + p.len, [pkt |-> p, retries |-> 0])
                            /\ \A f \in Ends : f # e => sock'[f] = sock[f]
<1> USE DEF Base
<1>1. PICK len \in Nat, p \in Packets :
          /\ len = Min({MaxPayload, Msg(e) - sender[e].sent}) /\ len > 0
          /\ p = Data(sock[e].next_seq_num, len, sock[e].expected_seq_num)
          /\ sock' = [sock EXCEPT ![e] = [Kept(sock[e], p, 0) EXCEPT
                        !.next_seq_num = p.seq + len, !.ack_events = With(@, p.seq + len, FALSE)]]
          /\ Transmit(e, p)
  BY ChunkIs
<1>2. sock[e] \in Socks /\ sender[e].at = "chunk" /\ sender[e].done < Len(Messages[e])
  BY DEF SendChunk, Busy, Types
<1>3. p.seq = sock[e].next_seq_num /\ p.len = len /\ p.ack = sock[e].expected_seq_num /\ p.data
  BY <1>1 DEF Data
<1>4. PICK n, m : n = p.seq + len /\ m = With(Kept(sock[e], p, 0).ack_events, n, FALSE)
  OBVIOUS
<1>5. sock'[e] = [Kept(sock[e], p, 0) EXCEPT !.next_seq_num = n, !.ack_events = m]
      /\ \A f \in Ends : f # e => sock'[f] = sock[f]
  BY <1>1, <1>4 DEF Types
<1>6. sock'[e].next_seq_num = n /\ sock'[e].send_buffer = With(sock[e].send_buffer, p.seq + p.len, [pkt |-> p, retries |-> 0])
  BY <1>2, <1>5 DEF Kept, Socks
<1>7. NewPacket(e, p)
  BY <1>1, <1>2, <1>3, <1>4, <1>6 DEF NewPacket
<1>8. QED BY <1>1, <1>5, <1>6, <1>7

LEMMA NewQuiet ==
  ASSUME Base, NEW e \in Ends, NEW p \in Packets, NewPacket(e, p), Transmit(e, p),
         sock'[e].send_buffer = With(sock[e].send_buffer, p.seq + p.len, [pkt |-> p, retries |-> 0])
  PROVE  Packeting(e)
<1>1. \A x \in BagToSet(net'[Peer(e)]) : x \in BagToSet(net[Peer(e)]) \/ x = p
  BY Sends, Peers DEF Base
<1>2. \A k \in DOMAIN sock'[e].send_buffer :
        OldPacket(e, sock'[e].send_buffer[k].pkt) \/ sock'[e].send_buffer[k].pkt = p
  BY DEF With, OldPacket
<1>3. QED BY <1>1, <1>2 DEF Packeting

LEMMA ResentQuiet ==
  ASSUME Base, NEW e \in Ends, NEW k \in DOMAIN sock[e].send_buffer, NEW p, NEW r,
         p = sock[e].send_buffer[k].pkt, sock'[e].next_seq_num = sock[e].next_seq_num,
         \/ /\ sock'[e].send_buffer = With(sock[e].send_buffer, p.seq + p.len, [pkt |-> p, retries |-> r])
            /\ Transmit(e, p)
         \/ /\ sock'[e].send_buffer = Without(sock[e].send_buffer, k)
            /\ UNCHANGED net
  PROVE  Packeting(e)
<1>1. OldPacket(e, p) /\ p \in Packets
  <2>1. sock[e].send_buffer[k] \in Entries
    BY SafeEntry DEF Base
  <2>2. QED BY <2>1 DEF OldPacket, Entries
<1>2. \A x \in BagToSet(net'[Peer(e)]) : x \in BagToSet(net[Peer(e)]) \/ x = p
  BY <1>1, Sends, Peers DEF Base
<1>3. \A x \in DOMAIN sock'[e].send_buffer : OldPacket(e, sock'[e].send_buffer[x].pkt)
  BY <1>1 DEF With, Without, OldPacket
<1>4. QED BY <1>1, <1>2, <1>3 DEF Packeting

LEMMA NextPackets == ASSUME Base, [Next]_vars, NEW e \in Ends PROVE Packeting(e)
<1> USE DEF Base
<1>0. sock[e] \in Socks
  BY DEF Types
<1>1. ASSUME NEW f \in Ends, HandleData(f) \/ RecvStep(f) \/ Close(f) \/ SendCalled(f) \/ BigDone(f) PROVE Packeting(e)
  <2>1. UNCHANGED net
    BY <1>1 DEF HandleData, RecvStep, RecvCalled, Pop, FindsNothing, Woken, ClearEvent, RecvReturns, Close,
                SendCalled, BigDone
  <2>2. SameSend(sock[e], sock'[e])
    <3>1. CASE HandleData(f) \/ RecvStep(f) \/ Close(f)
      <4>1. SameSend(sock[f], sock'[f]) /\ \A g \in Ends : g # f => sock'[g] = sock[g]
        BY <3>1, ReceiversStep
      <4>2. QED BY <4>1 DEF SameSend
    <3>2. CASE SendCalled(f) \/ BigDone(f)
      <4>1. \/ sock'[e] = [sock[e] EXCEPT !.sending_big = TRUE]
            \/ sock'[e] = [sock[e] EXCEPT !.sending_big = FALSE]
            \/ sock'[e] = sock[e]
        BY <3>2 DEF SendCalled, BigDone, Types
      <4>2. QED BY <1>0, <4>1 DEF SameSend, Socks
    <3>3. QED BY <1>1, <3>1, <3>2
  <2>3. QED BY <2>1, <2>2, Quiet
<1>2. ASSUME NEW f \in Ends, SendAck(f) \/ \E pkt \in BagToSet(net[f]) : Fault(f, pkt) PROVE Packeting(e)
  <2>1. UNCHANGED sock
    BY <1>2 DEF SendAck, Fault
  <2>2. CASE SendAck(f)
    <3>1. Ack(sock[f].expected_seq_num) \in Packets /\ Transmit(f, Ack(sock[f].expected_seq_num))
      BY <2>2 DEF SendAck, Types, Socks, Ack, Packets
    <3>2. CASE f # e
      BY <2>1, <3>1, <3>2, OtherQuiet
    <3>3. CASE f = e
      <4>1. PICK p \in Packets : p = Ack(sock[e].expected_seq_num)
        BY <3>1, <3>3
      <4>2. \A x \in BagToSet(net'[Peer(e)]) : x \in BagToSet(net[Peer(e)]) \/ x = p
        BY <3>1, <3>3, <4>1, Sends, Peers
      <4>3. QED BY <2>1, <4>1, <4>2 DEF Packeting, OldPacket
    <3>4. QED BY <3>2, <3>3
  <2>3. ASSUME NEW pkt \in BagToSet(net[f]), Fault(f, pkt) PROVE Packeting(e)
    <3>1. net' = [net EXCEPT ![f] = Bag!BagRemove(@, pkt)] \/ net' = [net EXCEPT ![f] = Bag!BagAdd(@, pkt)]
      BY <2>3 DEF Fault
    <3>2. CASE f # e
      BY <2>1, <3>1, <3>2, OtherQuiet
    <3>3. CASE f = e
      <4>1. net'[Peer(e)] = net[Peer(e)]
        BY <3>1, <3>3, Peers DEF Types
      <4>2. QED BY <2>1, <4>1, Quiet DEF SameSend
    <3>4. QED BY <3>2, <3>3
  <2>4. QED BY <1>2, <2>2, <2>3
<1>3. ASSUME NEW f \in Ends, SendFullPacket(f) \/ SendChunk(f) PROVE Packeting(e)
  <2>1. PICK p \in Packets :
          /\ NewPacket(f, p) /\ Transmit(f, p)
          /\ sock'[f].send_buffer = With(sock[f].send_buffer, p.seq + p.len, [pkt |-> p, retries |-> 0])
          /\ \A g \in Ends : g # f => sock'[g] = sock[g]
    BY <1>3, SendFullPacketIs, SendChunkIs
  <2>2. CASE f # e
    BY <2>1, <2>2, OtherQuiet
  <2>3. CASE f = e
    BY <2>1, <2>3, NewQuiet
  <2>4. QED BY <2>2, <2>3
<1>4. ASSUME NEW f \in Ends, ChunkAcked(f) PROVE Packeting(e)
  <2>1. UNCHANGED net /\ \A g \in Ends : g # f => sock'[g] = sock[g]
    BY <1>4 DEF ChunkAcked, Types
  <2>2. CASE f # e
    BY <2>1, <2>2, OtherQuiet
  <2>3. CASE f = e
    <3>1. PICK k : k = sender[e].key
      OBVIOUS
    <3>2. sock'[e] = sock[e] \/ sock'[e] = Forget(sock[e], k)
      BY <1>4, <2>3, <3>1 DEF ChunkAcked, Types
    <3>3. sock'[e].next_seq_num = sock[e].next_seq_num
          /\ (sock'[e].send_buffer = sock[e].send_buffer \/ sock'[e].send_buffer = Without(sock[e].send_buffer, k))
      BY <1>0, <3>2 DEF Socks, Forget
    <3>4. \A x \in DOMAIN sock'[e].send_buffer : OldPacket(e, sock'[e].send_buffer[x].pkt)
      BY <3>3 DEF Without, OldPacket
    <3>5. QED BY <2>1, <3>3, <3>4 DEF Packeting
  <2>4. QED BY <2>2, <2>3
<1>5. ASSUME NEW f \in Ends, ChunkTimesOut(f) PROVE Packeting(e)
  <2>1. PICK k, p, r, m : /\ k = sender[f].key /\ p = sock[f].send_buffer[k].pkt
                          /\ r = sock[f].send_buffer[k].retries + 1
                          /\ m = [sock[f].ack_events EXCEPT ![k] = FALSE]
    OBVIOUS
  <2>2. \/ sock'[f] = sock[f] /\ UNCHANGED net
        \/ k \in DOMAIN sock[f].send_buffer /\ sock'[f] = Forget(sock[f], k) /\ UNCHANGED net
        \/ k \in DOMAIN sock[f].send_buffer /\ sock'[f] = [Kept(sock[f], p, r) EXCEPT !.ack_events = m] /\ Transmit(f, p)
    BY <1>5, <2>1, TimeoutIs
  <2>3. \A g \in Ends : g # f => sock'[g] = sock[g]
    BY <1>5, TimeoutIs
  <2>4. k \in DOMAIN sock[f].send_buffer => p \in Packets
    BY <2>1, SafeEntry DEF Entries
  <2>5. CASE f # e
    BY <2>2, <2>3, <2>4, <2>5, OtherQuiet
  <2>6. CASE f = e
    <3>1. CASE sock'[e] = sock[e] /\ UNCHANGED net
      BY <3>1, Quiet DEF SameSend
    <3>2. CASE k \in DOMAIN sock[e].send_buffer /\ sock'[e] = Forget(sock[e], k) /\ UNCHANGED net
      <4>1. sock'[e].next_seq_num = sock[e].next_seq_num /\ sock'[e].send_buffer = Without(sock[e].send_buffer, k)
        BY <1>0, <3>2 DEF Socks, Forget
      <4>2. QED BY <2>1, <2>6, <3>2, <4>1, ResentQuiet
    <3>3. CASE k \in DOMAIN sock[e].send_buffer /\ sock'[e] = [Kept(sock[e], p, r) EXCEPT !.ack_events = m] /\ Transmit(e, p)
      <4>1. /\ sock'[e].next_seq_num = sock[e].next_seq_num
            /\ sock'[e].send_buffer = With(sock[e].send_buffer, p.seq + p.len, [pkt |-> p, retries |-> r])
        BY <1>0, <3>3 DEF Socks, Kept
      <4>2. QED BY <2>1, <2>6, <3>3, <4>1, ResentQuiet
    <3>4. QED BY <2>2, <2>6, <3>1, <3>2, <3>3
  <2>7. QED BY <2>5, <2>6
<1>6. ASSUME NEW f \in Ends, HandlerStep(f) PROVE Packeting(e)
  <2>1. PICK k \in DOMAIN sock[f].send_buffer : Resend(f, k)
    BY <1>6 DEF HandlerStep
  <2>2. PICK p, r, m : /\ p = sock[f].send_buffer[k].pkt /\ r = sock[f].send_buffer[k].retries + 1
                       /\ m = Without(sock[f].send_buffer, k)
    OBVIOUS
  <2>3. /\ \A g \in Ends : g # f => sock'[g] = sock[g]
        /\ \/ sock'[f] = [sock[f] EXCEPT !.send_buffer = m] /\ UNCHANGED net
           \/ sock'[f] = Kept(sock[f], p, r) /\ Transmit(f, p)
    BY <2>1, <2>2, ResendIs
  <2>4. p \in Packets
    BY <2>2, SafeEntry DEF Entries
  <2>5. CASE f # e
    BY <2>3, <2>4, <2>5, OtherQuiet
  <2>6. CASE f = e
    <3>1. CASE sock'[e] = [sock[e] EXCEPT !.send_buffer = m] /\ UNCHANGED net
      <4>1. sock'[e].next_seq_num = sock[e].next_seq_num /\ sock'[e].send_buffer = m
        BY <1>0, <3>1 DEF Socks
      <4>2. QED BY <2>2, <2>6, <3>1, <4>1, ResentQuiet
    <3>2. CASE sock'[e] = Kept(sock[e], p, r) /\ Transmit(e, p)
      <4>1. /\ sock'[e].next_seq_num = sock[e].next_seq_num
            /\ sock'[e].send_buffer = With(sock[e].send_buffer, p.seq + p.len, [pkt |-> p, retries |-> r])
        BY <1>0, <3>2 DEF Socks, Kept
      <4>2. QED BY <2>2, <2>6, <3>2, <4>1, ResentQuiet
    <3>3. QED BY <2>3, <2>6, <3>1, <3>2
  <2>7. QED BY <2>5, <2>6
<1>7. ASSUME NEW f \in Ends, NEW pkt \in BagToSet(net[f]), HandleAck(f, pkt) PROVE Packeting(e)
  <2>1. net' = [net EXCEPT ![f] = Bag!BagRemove(@, pkt)] /\ \A g \in Ends : g # f => sock'[g] = sock[g]
    BY <1>7, HandleAckIs DEF HandleAck
  <2>2. CASE f # e
    BY <2>1, <2>2, OtherQuiet
  <2>3. CASE f = e
    <3>1. PICK n, b, m :
           /\ n = IF pkt.ack > sock[e].send_base THEN pkt.ack ELSE sock[e].send_base
           /\ b = IF pkt.ack > sock[e].send_base /\ ~sock[e].sending_big
                  THEN Without(sock[e].send_buffer, pkt.ack) ELSE sock[e].send_buffer
           /\ m = [k \in DOMAIN sock[e].ack_events |-> sock[e].ack_events[k] \/ pkt.ack >= k]
      OBVIOUS
    <3>2. \/ sock'[e] = [sock[e] EXCEPT !.send_base = pkt.ack]
          \/ sock'[e] = [sock[e] EXCEPT !.send_base = n, !.send_buffer = b, !.ack_events = m]
      BY <1>7, <2>3, <3>1, HandleAckIs
    <3>3. sock'[e].next_seq_num = sock[e].next_seq_num
          /\ (sock'[e].send_buffer = sock[e].send_buffer \/ sock'[e].send_buffer = Without(sock[e].send_buffer, pkt.ack))
      BY <1>0, <3>1, <3>2 DEF Socks
    <3>4. \A x \in DOMAIN sock'[e].send_buffer : OldPacket(e, sock'[e].send_buffer[x].pkt)
      BY <3>3 DEF Without, OldPacket
    <3>5. net'[Peer(e)] = net[Peer(e)]
      BY <2>1, <2>3, Peers DEF Types
    <3>6. QED BY <3>3, <3>4, <3>5 DEF Packeting
  <2>4. QED BY <2>2, <2>3
<1>8. CASE UNCHANGED vars
  BY <1>8, Quiet DEF vars, SameSend
<1>9. QED BY <1>1, <1>2, <1>3, <1>4, <1>5, <1>6, <1>7, <1>8 DEF Next, SendStep, ReceiverStep

-----------------------------------------------------------------------------
\* The number of the next byte expected in order: only HandleData moves it.
LEMMA ExpectedGrows ==
  ASSUME Base, [Next]_vars, NEW e \in Ends
  PROVE  /\ sock'[e].expected_seq_num \in Nat /\ sock[e].expected_seq_num \in Nat
         /\ sock'[e].expected_seq_num >= sock[e].expected_seq_num
         /\ HandleData(e) \/ sock'[e].expected_seq_num = sock[e].expected_seq_num
<1> USE DEF Base
<1>0. sock[e] \in Socks /\ sock'[e] \in Socks /\ receiver[e] \in Receivers
  BY NextTypes DEF Types
<1>1. sock[e].expected_seq_num \in Nat /\ sock'[e].expected_seq_num \in Nat
  BY <1>0 DEF Socks
<1>2. ASSUME NEW f \in Ends,
             \/ SendCalled(f) \/ SendStep(f) \/ HandlerStep(f) \/ Close(f)
             \/ \E pkt \in BagToSet(net[f]) : HandleAck(f, pkt)
      PROVE  sock'[e].expected_seq_num = sock[e].expected_seq_num
  BY <1>2, SendersStep DEF SameRecv
<1>3. ASSUME NEW f \in Ends, RecvStep(f) PROVE sock'[e].expected_seq_num = sock[e].expected_seq_num
  <2>1. CASE f # e
    BY <1>3, <2>1, ReceiversStep
  <2>2. CASE f = e
    <3>1. PICK q : q = Tail(sock[e].recv_data)
      OBVIOUS
    <3>2. \/ sock'[e] = [sock[e] EXCEPT !.recv_data = q]
          \/ sock'[e] = [sock[e] EXCEPT !.recv_event = FALSE]
          \/ sock'[e] = sock[e]
      BY <1>3, <2>2, <3>1 DEF RecvStep, RecvCalled, Pop, FindsNothing, Woken, ClearEvent, RecvReturns, Types
    <3>3. QED BY <1>0, <3>2 DEF Socks
  <2>3. QED BY <2>1, <2>2
<1>4. ASSUME NEW f \in Ends, SendAck(f) \/ \E pkt \in BagToSet(net[f]) : Fault(f, pkt)
      PROVE  sock'[e].expected_seq_num = sock[e].expected_seq_num
  BY <1>4 DEF SendAck, Fault
<1>5. ASSUME NEW f \in Ends, HandleData(f), f # e PROVE sock'[e].expected_seq_num = sock[e].expected_seq_num
  BY <1>5, ReceiversStep
<1>6. ASSUME HandleData(e) PROVE sock'[e].expected_seq_num >= sock[e].expected_seq_num
  <2> DEFINE pkt == receiver[e].pkt
             more == Followers(sock[e].recv_buffer, pkt.seq, pkt.len)
             taken == {more[i].seq : i \in DOMAIN more}
  <2>2. pkt.seq \in Nat /\ pkt.len \in Nat /\ sock[e].recv_buffer \in Maps(Nat)
    BY <1>0 DEF Socks, Receivers, Packets
  <2>3. more \in Seq([seq : Nat, len : Nat])
    BY <2>2, FollowersAre
  <2>4. PICK q, b, w, n : /\ q = sock[e].recv_data \o <<[seq |-> pkt.seq, len |-> pkt.len]>> \o more
                          /\ b = [k \in DOMAIN sock[e].recv_buffer \ taken |-> sock[e].recv_buffer[k]]
                          /\ w = With(sock[e].recv_buffer, pkt.seq, pkt.len)
                          /\ n = sock[e].expected_seq_num + pkt.len * (1 + Len(more))
    OBVIOUS
  <2>5. \/ sock'[e] = [sock[e] EXCEPT !.recv_data = q, !.recv_buffer = b, !.expected_seq_num = n, !.recv_event = TRUE]
        \/ sock'[e] = [sock[e] EXCEPT !.recv_buffer = w]
        \/ sock'[e] = sock[e]
    BY <1>6, <2>4, HandleDataIs
  <2> HIDE DEF more, taken, pkt
  <2>6. sock'[e].expected_seq_num \in {n, sock[e].expected_seq_num}
    BY <1>0, <2>5 DEF Socks
  <2>7. n >= sock[e].expected_seq_num
    <3>1. PICK k \in Nat, l \in Nat, x \in Nat : k = Len(more) /\ l = pkt.len /\ x = sock[e].expected_seq_num
      BY <1>1, <2>2, <2>3, LenProperties
    <3>2. l * (1 + k) \in Nat
      OBVIOUS
    <3>3. n = x + l * (1 + k)
      BY <2>4, <3>1
    <3>4. QED BY <3>1, <3>2, <3>3
  <2>8. QED BY <1>1, <2>6, <2>7
<1>7. CASE UNCHANGED vars
  BY <1>1, <1>7 DEF vars
<1>8. QED BY <1>1, <1>2, <1>3, <1>4, <1>5, <1>6, <1>7 DEF Next, ReceiverStep

-----------------------------------------------------------------------------
\* No acknowledgement of e, prepared, kept, on its way or recorded by the other
\* end, is for more than e has received in order.
Acks == \A e \in Ends :
  /\ sender[e].ack <= sock[e].expected_seq_num
  /\ \A k \in DOMAIN sock[e].send_buffer : sock[e].send_buffer[k].pkt.ack <= sock[e].expected_seq_num
  /\ \A p \in BagToSet(net[Peer(e)]) : p.ack <= sock[e].expected_seq_num
  /\ sock[Peer(e)].send_base <= sock[e].expected_seq_num

LEMMA SenderAckIs ==
  ASSUME Base, [Next]_vars, NEW e \in Ends
  PROVE  sender'[e].ack \in {sender[e].ack, sock[e].expected_seq_num, 0}
<1> USE DEF Base
<1>0. sender[e] \in Senders
  BY DEF Types
<1>1. ASSUME NEW f \in Ends, SendCalled(f) PROVE sender'[e].ack \in {sender[e].ack, sock[e].expected_seq_num}
  <2>1. sender'[e] \in {sender[e], [sender[e] EXCEPT !.at = "small", !.ack = sock[e].expected_seq_num],
                        [sender[e] EXCEPT !.at = "chunk"]}
    BY <1>1 DEF SendCalled, Types
  <2>2. QED BY <1>0, <2>1 DEF Senders
<1>2. ASSUME NEW f \in Ends, SendFullPacket(f) \/ BigDone(f) PROVE sender'[e].ack \in {sender[e].ack, 0}
  <2>1. sender' = Sent(f)
    BY <1>2 DEF SendFullPacket, BigDone
  <2>2. f # e => sender'[e] = sender[e]
    BY <2>1 DEF Sent, Types
  <2>3. f = e => sender'[e].ack = 0
    BY <2>1 DEF Sent, Types
  <2>4. QED BY <2>2, <2>3
<1>3. ASSUME NEW f \in Ends, SendChunk(f) PROVE sender'[e].ack = sender[e].ack
  <2>1. PICK len, key : \/ sender' = [sender EXCEPT ![f].at = "waiting", ![f].sent = @ + len, ![f].key = key]
                        \/ FALSE
    BY <1>3 DEF SendChunk
  <2>2. sender'[e] = sender[e] \/ sender'[e] = [sender[e] EXCEPT !.at = "waiting", !.sent = sender[e].sent + len, !.key = key]
    BY <2>1 DEF Types
  <2>3. QED BY <1>0, <2>2 DEF Senders
<1>4. ASSUME NEW f \in Ends, ChunkAcked(f) \/ ChunkTimesOut(f) PROVE sender'[e].ack = sender[e].ack
  <2>1. sender'[e] \in {sender[e], [sender[e] EXCEPT !.at = "chunk"], [sender[e] EXCEPT !.at = "KeyError"]}
    BY <1>4 DEF ChunkAcked, ChunkTimesOut, Types
  <2>2. QED BY <1>0, <2>1 DEF Senders
<1>5. ASSUME NEW f \in Ends, \/ HandlerStep(f) \/ ReceiverStep(f) \/ RecvStep(f) \/ Close(f)
                             \/ \E pkt \in BagToSet(net[f]) : Fault(f, pkt)
      PROVE  sender' = sender
  BY <1>5 DEF HandlerStep, Resend, ResendUpTo, ReceiverStep, HandleAck, HandleData, SendAck, RecvStep,
              RecvCalled, Pop, FindsNothing, Woken, ClearEvent, RecvReturns, Close, Fault
<1>6. CASE UNCHANGED vars
  BY <1>6 DEF vars
<1>7. QED BY <1>1, <1>2, <1>3, <1>4, <1>5, <1>6 DEF Next, SendStep

LEMMA SendBaseIs ==
  ASSUME Base, [Next]_vars, NEW e \in Ends
  PROVE  sock'[e].send_base = sock[e].send_base \/ \E p \in BagToSet(net[e]) : sock'[e].send_base = p.ack
<1> USE DEF Base
<1>0. sock[e] \in Socks
  BY DEF Types
<1>1. ASSUME NEW f \in Ends, \/ HandleData(f) \/ SendAck(f) \/ RecvStep(f) \/ Close(f)
                             \/ \E pkt \in BagToSet(net[f]) : Fault(f, pkt)
      PROVE  sock'[e].send_base = sock[e].send_base
  BY <1>1, ReceiversStep DEF SameSend
<1>2. ASSUME NEW f \in Ends, SendCalled(f) \/ BigDone(f) PROVE sock'[e].send_base = sock[e].send_base
  <2>1. sock'[e] \in {sock[e], [sock[e] EXCEPT !.sending_big = TRUE], [sock[e] EXCEPT !.sending_big = FALSE]}
    BY <1>2 DEF SendCalled, BigDone, Types
  <2>2. QED BY <1>0, <2>1 DEF Socks
<1>3. ASSUME NEW f \in Ends, SendFullPacket(f) PROVE sock'[e].send_base = sock[e].send_base
  <2>1. PICK p : sock' = [sock EXCEPT ![f] = [Kept(sock[f], p, 0) EXCEPT !.next_seq_num = @ + p.len]]
    BY <1>3 DEF SendFullPacket
  <2>2. PICK n : n = Kept(sock[f], p, 0).next_seq_num + p.len
    OBVIOUS
  <2>3. sock'[e] = sock[e] \/ sock'[e] = [Kept(sock[e], p, 0) EXCEPT !.next_seq_num = n]
    BY <2>1, <2>2 DEF Types
  <2>4. QED BY <1>0, <2>3 DEF Socks, Kept
<1>4. ASSUME NEW f \in Ends, SendChunk(f) PROVE sock'[e].send_base = sock[e].send_base
  <2>1. PICK len \in Nat, p \in Packets :
          sock' = [sock EXCEPT ![f] = [Kept(sock[f], p, 0) EXCEPT
                        !.next_seq_num = p.seq + len, !.ack_events = With(@, p.seq + len, FALSE)]]
    BY <1>4, ChunkIs
  <2>2. PICK n, m : n = p.seq + len /\ m = With(Kept(sock[f], p, 0).ack_events, n, FALSE)
    OBVIOUS
  <2>3. sock'[e] = sock[e] \/ sock'[e] = [Kept(sock[e], p, 0) EXCEPT !.next_seq_num = n, !.ack_events = m]
    BY <2>1, <2>2 DEF Types
  <2>4. QED BY <1>0, <2>3 DEF Socks, Kept
<1>5. ASSUME NEW f \in Ends, ChunkAcked(f) \/ ChunkTimesOut(f) PROVE sock'[e].send_base = sock[e].send_base
  <2>1. PICK k, p, r, m : /\ k = sender[f].key /\ p = sock[f].send_buffer[k].pkt
                          /\ r = sock[f].send_buffer[k].retries + 1
                          /\ m = [sock[f].ack_events EXCEPT ![k] = FALSE]
    OBVIOUS
  <2>2. \/ sock'[e] = [Kept(sock[e], p, r) EXCEPT !.ack_events = m]
        \/ sock'[e] = Forget(sock[e], k)
        \/ sock'[e] = sock[e]
    <3>1. CASE ChunkAcked(f)
      BY <2>1, <3>1 DEF ChunkAcked, Types
    <3>2. CASE ChunkTimesOut(f) /\ f = e
      BY <2>1, <3>2, TimeoutIs
    <3>3. CASE ChunkTimesOut(f) /\ f # e
      BY <3>3, TimeoutIs
    <3>4. QED BY <1>5, <3>1, <3>2, <3>3
  <2>3. QED BY <1>0, <2>2 DEF Socks, Kept, Forget
<1>6. ASSUME NEW f \in Ends, HandlerStep(f) PROVE sock'[e].send_base = sock[e].send_base
  <2>1. PICK k \in DOMAIN sock[f].send_buffer : Resend(f, k)
    BY <1>6 DEF HandlerStep
  <2>2. PICK p, r, m : /\ p = sock[f].send_buffer[k].pkt /\ r = sock[f].send_buffer[k].retries + 1
                       /\ m = Without(sock[f].send_buffer, k)
    OBVIOUS
  <2>3. sock'[e] = sock[e] \/ sock'[e] = [sock[e] EXCEPT !.send_buffer = m] \/ sock'[e] = Kept(sock[e], p, r)
    BY <2>1, <2>2, ResendIs
  <2>4. QED BY <1>0, <2>3 DEF Socks, Kept
<1>7. ASSUME NEW f \in Ends, NEW pkt \in BagToSet(net[f]), HandleAck(f, pkt)
      PROVE  sock'[e].send_base = sock[e].send_base \/ \E p \in BagToSet(net[e]) : sock'[e].send_base = p.ack
  <2>1. CASE f # e
    BY <1>7, <2>1, HandleAckIs
  <2>2. CASE f = e
    <3>1. PICK n, b, m :
           /\ n = IF pkt.ack > sock[e].send_base THEN pkt.ack ELSE sock[e].send_base
           /\ b = IF pkt.ack > sock[e].send_base /\ ~sock[e].sending_big
                  THEN Without(sock[e].send_buffer, pkt.ack) ELSE sock[e].send_buffer
           /\ m = [k \in DOMAIN sock[e].ack_events |-> sock[e].ack_events[k] \/ pkt.ack >= k]
      OBVIOUS
    <3>2. \/ sock'[e] = [sock[e] EXCEPT !.send_base = pkt.ack]
          \/ sock'[e] = [sock[e] EXCEPT !.send_base = n, !.send_buffer = b, !.ack_events = m]
      BY <1>7, <2>2, <3>1, HandleAckIs
    <3>3. sock'[e].send_base \in {pkt.ack, sock[e].send_base}
      BY <1>0, <3>1, <3>2 DEF Socks
    <3>4. QED BY <2>2, <3>3
  <2>3. QED BY <2>1, <2>2
<1>8. CASE UNCHANGED vars
  BY <1>8 DEF vars
<1>9. QED BY <1>1, <1>2, <1>3, <1>4, <1>5, <1>6, <1>7, <1>8 DEF Next, SendStep, ReceiverStep

LEMMA NextAcks == Base /\ Acks /\ [Next]_vars => Acks'
<1> SUFFICES ASSUME Base, Acks, [Next]_vars, NEW e \in Ends
             PROVE  /\ sender'[e].ack <= sock'[e].expected_seq_num
                    /\ \A k \in DOMAIN sock'[e].send_buffer : sock'[e].send_buffer[k].pkt.ack <= sock'[e].expected_seq_num
                    /\ \A p \in BagToSet(net'[Peer(e)]) : p.ack <= sock'[e].expected_seq_num
                    /\ sock'[Peer(e)].send_base <= sock'[e].expected_seq_num
  BY DEF Acks
<1> USE DEF Base
<1>1. PICK x \in Nat, y \in Nat : x = sock[e].expected_seq_num /\ y = sock'[e].expected_seq_num /\ x <= y
  BY ExpectedGrows
<1>2. PICK f \in Ends : f = Peer(e)
  BY Peers
<1>3. /\ sender[e].ack \in Nat /\ sender[e].ack <= x
      /\ \A p \in BagToSet(net[f]) : p \in Packets /\ p.ack \in Nat /\ p.ack <= x
      /\ sock[f].send_base \in Nat /\ sock[f].send_base <= x
  BY <1>1, <1>2 DEF Acks, Types, Senders, Packets, Socks
<1>4. \A p : OldPacket(e, p) => p.ack \in Nat /\ p.ack <= x
  <2>1. SUFFICES ASSUME NEW k \in DOMAIN sock[e].send_buffer
                 PROVE  sock[e].send_buffer[k].pkt.ack \in Nat /\ sock[e].send_buffer[k].pkt.ack <= x
    BY DEF OldPacket
  <2>2. sock[e].send_buffer[k] \in Entries
    BY SafeEntry
  <2>3. QED BY <1>1, <2>2 DEF Entries, Packets, Acks
<1>5. \A p : NewPacket(e, p) => p.ack \in Nat /\ p.ack <= x
  BY <1>1, <1>3 DEF NewPacket
<1>6. sender'[e].ack <= y
  BY <1>1, <1>3, SenderAckIs
<1>7. Packeting(e)
  BY NextPackets
<1>8. \A k \in DOMAIN sock'[e].send_buffer : sock'[e].send_buffer[k].pkt.ack <= y
  BY <1>1, <1>4, <1>5, <1>7 DEF Packeting
<1>9. \A p \in BagToSet(net'[f]) : p.ack <= y
  <2>1. Ack(x).ack = x
    BY DEF Ack
  <2>2. QED BY <1>1, <1>2, <1>3, <1>4, <1>5, <1>7, <2>1 DEF Packeting
<1>10. sock'[f].send_base <= y
  BY <1>1, <1>3, SendBaseIs
<1>11. QED BY <1>1, <1>2, <1>6, <1>8, <1>9, <1>10

LEMMA InitAcks == Init => Acks
<1> SUFFICES ASSUME Init, NEW e \in Ends
             PROVE  /\ sender[e].ack <= sock[e].expected_seq_num
                    /\ \A k \in DOMAIN sock[e].send_buffer : FALSE
                    /\ BagToSet(net[Peer(e)]) = {}
                    /\ sock[Peer(e)].send_base <= sock[e].expected_seq_num
  BY DEF Acks
<1>1. sock[e].send_buffer = <<>> /\ sock[e].expected_seq_num = 0 /\ sender[e].ack = 0 /\ sock[Peer(e)].send_base = 0
  BY Peers DEF Init
<1>2. BagToSet(net[Peer(e)]) = {}
  BY Peers DEF Init, BagToSet, EmptyBag, SetToBag
<1>3. QED BY <1>1, <1>2, MapEmpty

-----------------------------------------------------------------------------
(***************************************************************************)
(* Where the stream is kept in order: all data packets of one end have one *)
(* length, which recv asks for a multiple of.  Messages are of that        *)
(* length, or are sent in whole chunks.  recv_loop counts the length of    *)
(* the packet in hand for the packets that follow it, and recv drops what  *)
(* is left of a piece: with other lengths the order is lost.               *)
(***************************************************************************)
Multiple(x, n) == \E k \in 0..x : x = k * n

Suits(L) == \A e \in Ends :
  /\ \A i \in DOMAIN Messages[e] :
       \/ Messages[e][i] = L[e]
       \/ L[e] = MaxPayload /\ Messages[e][i] > 0 /\ Multiple(Messages[e][i], MaxPayload)
  /\ Multiple(ReadSize[Peer(e)], L[e])
OneLength == \E L \in [Ends -> 1..MaxPayload] : Suits(L)

\* A data packet is a part of what its sender has sent.
InStream(l, n, p) == p.len = l /\ p.seq + l <= n

PacketsFit(L) == \A e \in Ends :
  /\ \A k \in DOMAIN sock[e].send_buffer : InStream(L[e], sock[e].next_seq_num, sock[e].send_buffer[k].pkt)
  /\ \A p \in BagToSet(net[Peer(e)]) : p.data => InStream(L[e], sock[e].next_seq_num, p)
  /\ receiver[Peer(e)].pkt.data => InStream(L[e], sock[e].next_seq_num, receiver[Peer(e)].pkt)
  /\ receiver[Peer(e)].at = "data" => receiver[Peer(e)].pkt.data

\* Which messages are sent whole, and how far the others have come.
ChunksFit == \A e \in Ends :
  /\ sender[e].at = "small" => Msg(e) <= MaxPayload
  /\ sender[e].at \in {"chunk", "waiting"} => Msg(e) > MaxPayload /\ Multiple(sender[e].sent, MaxPayload)

\* recv holds whole pieces, no more than it was asked for.
ReadsFit(L) == \A e \in Ends :
  LET r == Peer(e) IN
  /\ Multiple(Len(reader[r].data), L[e]) /\ Len(reader[r].data) <= ReadSize[r]
  /\ reader[r].at = "idle" => reader[r].data = <<>>

\* The pieces of q, each of length l, make up the stream from byte t on.
Chain(q, t, l) == \A i \in DOMAIN q : q[i] = [seq |-> t + (i - 1) * l, len |-> l]

\* The stream at its receiver: returned and held, then queued, then expected.
Taken(e) == Len(got[e]) + Len(reader[e].data)
InOrder(L) == \A e \in Ends :
  LET r == Peer(e) IN
  /\ \A k \in DOMAIN sock[r].recv_buffer : sock[r].recv_buffer[k] = L[e] /\ k + L[e] <= sock[e].next_seq_num
  /\ got[r] \o reader[r].data = Bytes(0, Taken(r))
  /\ Chain(sock[r].recv_data, Taken(r), L[e])
  /\ sock[r].expected_seq_num = Taken(r) + Len(sock[r].recv_data) * L[e]
  /\ sock[r].expected_seq_num <= sock[e].next_seq_num

LEMMA MultipleZero == ASSUME NEW n \in Nat PROVE Multiple(0, n)
BY DEF Multiple

LEMMA MultipleMore == ASSUME NEW x \in Nat, NEW n \in Nat \ {0}, Multiple(x, n) PROVE Multiple(x + n, n)
<1>1. PICK k \in 0..x : x = k * n
  BY DEF Multiple
<1>2. k + 1 \in 0..(x + n) /\ x + n = (k + 1) * n
  BY <1>1
<1>3. QED BY <1>2 DEF Multiple

LEMMA MultipleGap == ASSUME NEW x \in Nat, NEW y \in Nat, NEW n \in Nat \ {0}, Multiple(x, n), Multiple(y, n), x < y
                     PROVE  x + n <= y
<1>1. PICK j \in 0..x, k \in 0..y : x = j * n /\ y = k * n
  BY DEF Multiple
<1>2. CASE k <= j
  <2>1. PICK d \in Nat : j = k + d
    BY <1>2
  <2>2. j * n = k * n + d * n /\ d * n >= 0
    BY <2>1
  <2>3. QED BY <1>1, <2>2
<1>3. CASE k >= j + 1
  <2>1. PICK d \in Nat : k = j + 1 + d
    BY <1>3
  <2>2. k * n = j * n + n + d * n /\ d * n >= 0
    BY <2>1
  <2>3. QED BY <1>1, <2>2
<1>4. QED BY <1>2, <1>3

LEMMA BytesConcat == ASSUME NEW s \in Nat, NEW m \in Nat, NEW n \in Nat
                     PROVE  Bytes(s, m) \o Bytes(s + m, n) = Bytes(s, m + n)
<1>1. PICK t \in Nat, k \in Nat : t = s + m /\ k = m + n
  OBVIOUS
<1>2. PICK u \in Seq(Nat) : u = Bytes(s, m) /\ Len(u) = m
  BY BytesAre
<1>3. PICK v \in Seq(Nat) : v = Bytes(t, n) /\ Len(v) = n
  BY BytesAre
<1>4. PICK w \in Seq(Nat) : w = Bytes(s, k) /\ Len(w) = k
  BY BytesAre
<1>5. /\ \A i \in 1..m : u[i] = s + i - 1
      /\ \A i \in 1..n : v[i] = t + i - 1
      /\ \A i \in 1..k : w[i] = s + i - 1
  BY <1>2, <1>3, <1>4 DEF Bytes
<1>6. u \o v \in Seq(Nat) /\ Len(u \o v) = k /\ \A i \in 1..k : (u \o v)[i] = IF i <= m THEN u[i] ELSE v[i - m]
  <2>1. /\ u \o v \in Seq(Nat) /\ Len(u \o v) = Len(u) + Len(v)
        /\ \A i \in 1 .. Len(u) + Len(v) : (u \o v)[i] = IF i <= Len(u) THEN u[i] ELSE v[i - Len(u)]
    BY ConcatProperties
  <2>2. Len(u) = m /\ Len(v) = n /\ m + n = k
    BY <1>1, <1>2, <1>3
  <2>3. QED BY <2>1, <2>2
<1>7. \A i \in 1..k : (u \o v)[i] = w[i]
  <2> TAKE i \in 1..k
  <2>1. CASE i <= m
    BY <1>5, <1>6, <2>1
  <2>2. CASE i > m
    <3>1. PICK j \in 1..n : j = i - m
      BY <1>1, <2>2
    <3>2. v[j] = t + j - 1
      BY <1>5
    <3>3. (u \o v)[i] = v[j]
      BY <1>6, <2>2, <3>1
    <3>4. w[i] = s + i - 1
      BY <1>5
    <3>5. PICK x \in Nat : x = t + j - 1 /\ x = s + i - 1
      BY <1>1, <3>1
    <3>6. v[j] = x /\ w[i] = x
      BY <3>2, <3>4, <3>5
    <3>7. QED BY <3>3, <3>6
  <2>3. i <= m \/ i > m
    OBVIOUS
  <2>4. QED BY <2>1, <2>2, <2>3
<1>8. u \o v = w
  BY <1>4, <1>6, <1>7, SeqEqual
<1>9. QED BY <1>1, <1>2, <1>3, <1>4, <1>8

\* Pieces of the same length, one after the other, are one run of bytes.
LEMMA FlattenIs ==
  ASSUME NEW lo \in Nat, NEW l \in Nat, NEW s \in Seq(Seq(Nat)),
         \A i \in 1..Len(s) : s[i] = Bytes(lo + (i - 1) * l, l)
  PROVE  FlattenSeq(s) = Bytes(lo, Len(s) * l)
<1>1. PICK n \in Nat : n = Len(s)
  BY LenProperties
<1>2. CASE n = 0
  <2>1. s = <<>>
    BY <1>1, <1>2, EmptySeq
  <2>2. Bytes(lo, 0) = <<>>
    BY DEF Bytes
  <2>3. Len(s) * l = 0
    BY <1>1, <1>2
  <2>4. FlattenSeq(s) = s
    BY <1>1, <1>2 DEF FlattenSeq
  <2>5. QED BY <2>1, <2>2, <2>3, <2>4
<1>3. CASE n > 0
  <2> DEFINE F(f) == [i \in 1..n |-> IF i = 1 THEN s[i] ELSE f[i - 1] \o s[i]]
  <2>1. PICK g : g = [i \in 1..n |-> Bytes(lo, i * l)]
    OBVIOUS
  <2>2. PICK h : h = CHOOSE f : f = F(f)
    OBVIOUS
  <2>3. \A i \in 1..n : g[i] = IF i = 1 THEN s[i] ELSE g[i - 1] \o s[i]
    <3> TAKE i \in 1..n
    <3>1. PICK m \in Nat : m = (i - 1) * l /\ i * l = m + l
      <4>1. PICK k \in Nat : i = k + 1
        OBVIOUS
      <4>2. k * l \in Nat /\ (k + 1) * l = k * l + l
        OBVIOUS
      <4>3. QED BY <4>1, <4>2
    <3>2. s[i] = Bytes(lo + m, l) /\ g[i] = Bytes(lo, m + l)
      BY <1>1, <2>1, <3>1
    <3>3. CASE i = 1
      BY <3>1, <3>2, <3>3
    <3>4. CASE i # 1
      <4>1. i - 1 \in 1..n
        BY <3>4
      <4>2. g[i - 1] = Bytes(lo, m)
        BY <2>1, <3>1, <4>1
      <4>3. Bytes(lo, m) \o Bytes(lo + m, l) = Bytes(lo, m + l)
        BY BytesConcat
      <4>4. QED BY <3>2, <3>4, <4>2, <4>3
    <3>5. QED BY <3>3, <3>4
  <2>4. g = F(g)
    BY <2>1, <2>3
  <2>5. h = F(h)
    <3> HIDE DEF F
    <3>1. QED BY <2>2, <2>4
  <2>6. \A i \in 1..n : h[i] = IF i = 1 THEN s[i] ELSE h[i - 1] \o s[i]
    BY <2>5
  <2>7. \A i \in 1..n : h[i] = g[i]
    <3>1. PICK Bad : Bad = {i \in 1..n : h[i] # g[i]}
      OBVIOUS
    <3>11. Bad \in SUBSET Nat
      BY <3>1
    <3>2. SUFFICES ASSUME Bad # {} PROVE FALSE
      BY <3>1
    <3>3. PICK i \in Bad : \A j \in Bad : i <= j
      BY <3>11, <3>2, LeastOf
    <3>4. i \in 1..n /\ h[i] # g[i]
      BY <3>1
    <3>5. i # 1 => i - 1 \in 1..n /\ i - 1 \notin Bad
      BY <3>3, <3>4
    <3>6. i # 1 => h[i - 1] = g[i - 1]
      BY <3>1, <3>5
    <3>7. QED BY <2>3, <2>6, <3>4, <3>6
  <2>8. FlattenSeq(s) = h[n]
    BY <1>1, <1>3, <2>2 DEF FlattenSeq
  <2>9. QED BY <1>1, <1>3, <2>1, <2>7, <2>8
<1>4. QED BY <1>2, <1>3

-----------------------------------------------------------------------------
\* The messages of e, when every part of its stream has the length l.
LEMMA Lengths ==
  ASSUME Base, NEW L \in [Ends -> 1..MaxPayload], Suits(L), NEW e \in Ends, sender[e].done < Len(Messages[e])
  PROVE  /\ Msg(e) \in Nat
         /\ Msg(e) <= MaxPayload => Msg(e) = L[e]
         /\ Msg(e) > MaxPayload => L[e] = MaxPayload /\ Multiple(Msg(e), MaxPayload)
<1>1. Msg(e) \in Nat
  BY MsgIs DEF Base
<1>2. sender[e].done + 1 \in DOMAIN Messages[e]
  <2>1. Messages[e] \in Seq(Nat) /\ sender[e].done \in Nat
    BY TCPAssumption DEF Base, Types, Senders
  <2>2. Len(Messages[e]) \in Nat /\ DOMAIN Messages[e] = 1..Len(Messages[e])
    BY <2>1, LenProperties
  <2>3. QED BY <2>1, <2>2
<1>3. PICK m \in Nat, l \in 1..MaxPayload : m = Msg(e) /\ l = L[e] /\ l \in Nat \ {0} /\ MaxPayload \in Nat \ {0}
  BY <1>1, TCPAssumption
<1>4. m = l \/ (l = MaxPayload /\ m > 0 /\ Multiple(m, MaxPayload))
  <2>1. PICK i \in DOMAIN Messages[e] : i = sender[e].done + 1
    BY <1>2
  <2>2. Messages[e][i] = m
    BY <1>3, <2>1 DEF Msg
  <2>3. \/ Messages[e][i] = L[e]
        \/ L[e] = MaxPayload /\ Messages[e][i] > 0 /\ Multiple(Messages[e][i], MaxPayload)
    BY DEF Suits
  <2>4. QED BY <1>3, <2>2, <2>3
<1>5. ASSUME l = MaxPayload, m > 0, Multiple(m, MaxPayload) PROVE MaxPayload <= m
  <2>1. Multiple(0, MaxPayload)
    BY <1>3, MultipleZero
  <2>2. 0 + MaxPayload <= m
    BY <1>3, <1>5, <2>1, MultipleGap
  <2>3. QED BY <1>3, <2>2
<1>6. m <= MaxPayload => m = l
  BY <1>3, <1>4, <1>5
<1>7. m > MaxPayload => l = MaxPayload /\ Multiple(m, MaxPayload)
  BY <1>3, <1>4
<1>8. QED BY <1>3, <1>6, <1>7

\* What is left of a message that is sent in chunks is at least one chunk.
LEMMA ChunkLength ==
  ASSUME Base, ChunksFit, NEW L \in [Ends -> 1..MaxPayload], Suits(L), NEW e \in Ends,
         sender[e].at = "chunk", Min({MaxPayload, Msg(e) - sender[e].sent}) > 0
  PROVE  Min({MaxPayload, Msg(e) - sender[e].sent}) = MaxPayload /\ L[e] = MaxPayload
<1>1. sender[e].done < Len(Messages[e]) /\ sender[e].sent <= Msg(e) /\ Msg(e) > MaxPayload /\ Multiple(sender[e].sent, MaxPayload)
  BY DEF Base, Busy, ChunksFit
<1>2. L[e] = MaxPayload /\ Multiple(Msg(e), MaxPayload) /\ Msg(e) \in Nat
  BY <1>1, Lengths
<1>3. PICK m \in Nat, s \in Nat : m = Msg(e) /\ s = sender[e].sent
  BY <1>2 DEF Base, Types, Senders
<1>4. PICK left \in Nat, M \in Nat : left = m - s /\ M = MaxPayload
  BY <1>1, <1>3, TCPAssumption
<1>5. PICK len \in Nat : len = Min({M, left}) /\ len \in {M, left} /\ len <= left /\ len <= M
  BY MinOfTwo
<1>6. len = Min({MaxPayload, Msg(e) - sender[e].sent}) /\ len > 0
  BY <1>3, <1>4, <1>5
<1>7. s < m
  BY <1>4, <1>5, <1>6
<1>8. s + MaxPayload <= m
  BY <1>1, <1>2, <1>3, <1>7, MultipleGap, TCPAssumption
<1>9. len = M
  BY <1>4, <1>5, <1>8
<1>10. QED BY <1>2, <1>4, <1>6, <1>9

LEMMA NewLength ==
  ASSUME Base, ChunksFit, NEW L \in [Ends -> 1..MaxPayload], Suits(L), NEW e \in Ends, NEW p, NewPacket(e, p)
  PROVE  p.len = L[e]
<1>1. CASE sender[e].at = "small" /\ p.len = Msg(e)
  <2>1. Msg(e) <= MaxPayload
    BY <1>1 DEF ChunksFit
  <2>2. Msg(e) = L[e]
    BY <2>1, Lengths DEF NewPacket
  <2>3. QED BY <1>1, <2>2
<1>2. CASE sender[e].at = "chunk" /\ p.len = Min({MaxPayload, Msg(e) - sender[e].sent}) /\ p.len > 0
  BY <1>2, ChunkLength
<1>3. QED BY <1>1, <1>2 DEF NewPacket

LEMMA NextChunks ==
  ASSUME Base, ChunksFit, [Next]_vars, NEW L \in [Ends -> 1..MaxPayload], Suits(L)
  PROVE  ChunksFit'
<1> USE DEF Base
<1>0. MaxPayload \in Nat \ {0}
  BY TCPAssumption
<1>1. ASSUME NEW e \in Ends, SendCalled(e) PROVE ChunksFit'
  <2>1. /\ \A f \in Ends : f # e => sender'[f] = sender[f]
        /\ sender[e].at = "idle"
        /\ \/ Msg(e) <= MaxPayload /\ sender'[e] = [sender[e] EXCEPT !.at = "small", !.ack = sock[e].expected_seq_num]
           \/ Msg(e) > MaxPayload /\ sender'[e] = [sender[e] EXCEPT !.at = "chunk"]
    BY <1>1 DEF SendCalled, Types
  <2>2. /\ sender'[e].done = sender[e].done /\ sender'[e].sent = 0
        /\ \/ Msg(e) <= MaxPayload /\ sender'[e].at = "small"
           \/ Msg(e) > MaxPayload /\ sender'[e].at = "chunk"
    BY <2>1 DEF Types, Senders, Busy
  <2>3. \A f \in Ends : Msg(f)' = Msg(f)
    BY <2>1, <2>2 DEF Msg
  <2>4. Multiple(0, MaxPayload)
    BY <1>0, MultipleZero
  <2>5. QED BY <2>1, <2>2, <2>3, <2>4 DEF ChunksFit
<1>2. ASSUME NEW e \in Ends, SendFullPacket(e) \/ BigDone(e) PROVE ChunksFit'
  <2>1. sender' = Sent(e)
    BY <1>2 DEF SendFullPacket, BigDone
  <2>2. (\A f \in Ends : f # e => sender'[f] = sender[f]) /\ sender'[e].at = "idle"
    BY <2>1 DEF Sent, Types
  <2>3. \A f \in Ends : f # e => Msg(f)' = Msg(f)
    BY <2>2 DEF Msg
  <2>4. QED BY <2>2, <2>3 DEF ChunksFit
<1>3. ASSUME NEW e \in Ends, SendChunk(e) PROVE ChunksFit'
  <2>0. PICK len \in Nat, pkt \in Packets :
          /\ len = Min({MaxPayload, Msg(e) - sender[e].sent}) /\ len > 0
          /\ pkt = Data(sock[e].next_seq_num, len, sock[e].expected_seq_num)
          /\ sender' = [sender EXCEPT ![e].at = "waiting", ![e].sent = @ + len, ![e].key = pkt.seq + len]
          /\ sock' = [sock EXCEPT ![e] = [Kept(sock[e], pkt, 0) EXCEPT
                        !.next_seq_num = pkt.seq + len, !.ack_events = With(@, pkt.seq + len, FALSE)]]
    BY <1>3, ChunkIs
  <2>1. PICK key : /\ len = Min({MaxPayload, Msg(e) - sender[e].sent}) /\ len > 0
                   /\ sender' = [sender EXCEPT ![e].at = "waiting", ![e].sent = @ + len, ![e].key = key]
    BY <2>0
  <2>2. sender[e].at = "chunk"
    BY <1>3 DEF SendChunk
  <2>3. len = MaxPayload
    BY <2>1, <2>2, ChunkLength
  <2>4. /\ \A f \in Ends : f # e => sender'[f] = sender[f]
        /\ sender'[e] = [sender[e] EXCEPT !.at = "waiting", !.sent = sender[e].sent + len, !.key = key]
    BY <2>1 DEF Types
  <2>5. sender'[e].at = "waiting" /\ sender'[e].done = sender[e].done /\ sender'[e].sent = sender[e].sent + MaxPayload
    BY <2>3, <2>4 DEF Types, Senders
  <2>6. \A f \in Ends : Msg(f)' = Msg(f)
    BY <2>4, <2>5 DEF Msg
  <2>7. Multiple(sender[e].sent + MaxPayload, MaxPayload)
    <3>1. PICK s \in Nat : s = sender[e].sent
      BY DEF Types, Senders
    <3>2. Multiple(s, MaxPayload)
      BY <2>2, <3>1 DEF ChunksFit
    <3>3. QED BY <1>0, <3>1, <3>2, MultipleMore
  <2>8. QED BY <2>2, <2>4, <2>5, <2>6, <2>7 DEF ChunksFit
<1>4. ASSUME NEW e \in Ends, ChunkAcked(e) \/ ChunkTimesOut(e) PROVE ChunksFit'
  <2>1. /\ \A f \in Ends : f # e => sender'[f] = sender[f]
        /\ sender[e].at = "waiting"
        /\ sender'[e] \in {[sender[e] EXCEPT !.at = "chunk"], [sender[e] EXCEPT !.at = "KeyError"]}
    BY <1>4 DEF ChunkAcked, ChunkTimesOut, Types
  <2>2. sender'[e].at \in {"chunk", "KeyError"} /\ sender'[e].done = sender[e].done /\ sender'[e].sent = sender[e].sent
    BY <2>1 DEF Types, Senders
  <2>3. \A f \in Ends : Msg(f)' = Msg(f)
    BY <2>1, <2>2 DEF Msg
  <2>4. QED BY <2>1, <2>2, <2>3 DEF ChunksFit
<1>5. ASSUME NEW e \in Ends, \/ HandlerStep(e) \/ ReceiverStep(e) \/ RecvStep(e) \/ Close(e)
                             \/ \E pkt \in BagToSet(net[e]) : Fault(e, pkt)
      PROVE  ChunksFit'
  <2>1. sender' = sender
    BY <1>5 DEF HandlerStep, Resend, ResendUpTo, ReceiverStep, HandleAck, HandleData, SendAck, RecvStep,
                RecvCalled, Pop, FindsNothing, Woken, ClearEvent, RecvReturns, Close, Fault
  <2>2. QED BY <2>1 DEF ChunksFit, Msg
<1>6. CASE UNCHANGED vars
  BY <1>6 DEF vars, ChunksFit, Msg
<1>7. QED BY <1>1, <1>2, <1>3, <1>4, <1>5, <1>6 DEF Next, SendStep

\* What recv_loop holds comes from the network.
LEMMA ReceiverIs ==
  ASSUME Base, [Next]_vars, NEW e \in Ends
  PROVE  \/ receiver'[e].pkt = receiver[e].pkt /\ (receiver'[e].at = "data" => receiver[e].at = "data")
         \/ receiver'[e].pkt \in BagToSet(net[e]) /\ receiver'[e].pkt.data
         \/ receiver'[e].pkt = Ack(0) /\ receiver'[e].at = "loop"
<1> USE DEF Base
<1>0. receiver[e] \in Receivers
  BY DEF Types
<1> DEFINE Same == receiver'[e].pkt = receiver[e].pkt /\ (receiver'[e].at = "data" => receiver[e].at = "data")
           Arrived == receiver'[e].pkt \in BagToSet(net[e]) /\ receiver'[e].pkt.data
           Reset == receiver'[e].pkt = Ack(0) /\ receiver'[e].at = "loop"
<1>1. ASSUME NEW f \in Ends, NEW pkt \in BagToSet(net[f]), HandleAck(f, pkt) PROVE Same \/ Arrived
  <2>1. \/ receiver'[e] = receiver[e]
        \/ receiver'[e] = [receiver[e] EXCEPT !.at = "KeyError"]
        \/ f = e /\ pkt.data /\ receiver'[e] = [at |-> "data", pkt |-> pkt]
    BY <1>1 DEF HandleAck, Types
  <2>2. QED BY <1>0, <2>1 DEF Receivers
<1>2. ASSUME NEW f \in Ends, HandleData(f) PROVE Same
  <2>1. receiver'[e] = receiver[e] \/ receiver'[e] = [receiver[e] EXCEPT !.at = "ack"]
    BY <1>2 DEF HandleData, Types
  <2>2. QED BY <1>0, <2>1 DEF Receivers
<1>3. ASSUME NEW f \in Ends, SendAck(f) PROVE Same \/ Reset
  BY <1>3 DEF SendAck, Types
<1>4. ASSUME NEW f \in Ends, \/ SendCalled(f) \/ SendStep(f) \/ HandlerStep(f) \/ RecvStep(f) \/ Close(f)
                             \/ \E pkt \in BagToSet(net[f]) : Fault(f, pkt)
      PROVE  Same
  BY <1>4 DEF SendCalled, SendStep, SendFullPacket, SendChunk, ChunkAcked, ChunkTimesOut, BigDone, HandlerStep,
              Resend, ResendUpTo, RecvStep, RecvCalled, Pop, FindsNothing, Woken, ClearEvent, RecvReturns, Close, Fault
<1>5. CASE UNCHANGED vars
  BY <1>5 DEF vars
<1>6. Same \/ Arrived \/ Reset
  <2>1. CASE \E f \in Ends : ReceiverStep(f)
    BY <1>1, <1>2, <1>3, <2>1 DEF ReceiverStep
  <2>2. CASE ~\E f \in Ends : ReceiverStep(f)
    BY <1>4, <1>5, <2>2 DEF Next
  <2>3. QED BY <2>1, <2>2
<1>7. QED BY <1>6 DEF Same, Arrived, Reset

\* The stream of e only grows, by the parts it sends.
LEMMA NextGrows ==
  ASSUME Base, [Next]_vars, NEW e \in Ends
  PROVE  /\ sock[e].next_seq_num \in Nat /\ sock'[e].next_seq_num \in Nat
         /\ sock'[e].next_seq_num >= sock[e].next_seq_num
<1>1. sock[e] \in Socks /\ sock'[e] \in Socks
  BY NextTypes DEF Types, Base
<1>2. sock[e].next_seq_num \in Nat /\ sock'[e].next_seq_num \in Nat
  BY <1>1 DEF Socks
<1>3. ASSUME NEW p \in Packets, NewPacket(e, p) PROVE sock'[e].next_seq_num >= sock[e].next_seq_num
  BY <1>2, <1>3 DEF NewPacket, Packets
<1>4. QED BY <1>2, <1>3, NextPackets DEF Packeting

LEMMA NextFit ==
  ASSUME Base, ChunksFit, [Next]_vars, NEW L \in [Ends -> 1..MaxPayload], Suits(L), PacketsFit(L)
  PROVE  PacketsFit(L)'
<1> SUFFICES ASSUME NEW e \in Ends
             PROVE  /\ \A k \in DOMAIN sock'[e].send_buffer : InStream(L[e], sock'[e].next_seq_num, sock'[e].send_buffer[k].pkt)
                    /\ \A p \in BagToSet(net'[Peer(e)]) : p.data => InStream(L[e], sock'[e].next_seq_num, p)
                    /\ receiver'[Peer(e)].pkt.data => InStream(L[e], sock'[e].next_seq_num, receiver'[Peer(e)].pkt)
                    /\ receiver'[Peer(e)].at = "data" => receiver'[Peer(e)].pkt.data
  BY DEF PacketsFit
<1>1. PICK m \in Nat, n \in Nat, l \in Nat, f \in Ends :
        m = sock[e].next_seq_num /\ n = sock'[e].next_seq_num /\ m <= n /\ l = L[e] /\ f = Peer(e)
  <2>1. Peer(e) \in Ends
    BY Peers
  <2>2. L[e] \in Nat
    BY TCPAssumption
  <2>3. PICK m \in Nat, n \in Nat : m = sock[e].next_seq_num /\ n = sock'[e].next_seq_num /\ n >= m
    BY NextGrows
  <2>4. m <= n
    BY <2>3
  <2>5. QED BY <2>1, <2>2, <2>3, <2>4
<1>2. \A p \in Packets : InStream(l, m, p) => InStream(l, n, p)
  BY <1>1 DEF InStream, Packets
<1>3. \A p : OldPacket(e, p) => InStream(l, n, p)
  <2>1. SUFFICES ASSUME NEW k \in DOMAIN sock[e].send_buffer PROVE InStream(l, n, sock[e].send_buffer[k].pkt)
    BY DEF OldPacket
  <2>2. PICK p \in Packets : p = sock[e].send_buffer[k].pkt
    BY SafeEntry DEF Base, Entries
  <2>3. InStream(l, m, p)
    BY <1>1, <2>2 DEF PacketsFit
  <2>4. QED BY <1>2, <2>2, <2>3
<1>4. \A p : NewPacket(e, p) => InStream(l, n, p)
  <2>1. SUFFICES ASSUME NEW p, NewPacket(e, p) PROVE InStream(l, n, p)
    OBVIOUS
  <2>2. p.len = l
    BY <1>1, <2>1, NewLength
  <2>3. n = p.seq + p.len /\ p \in Packets
    BY <1>1, <2>1 DEF NewPacket
  <2>4. QED BY <1>1, <2>2, <2>3 DEF InStream, Packets
<1>5. Packeting(e)
  BY NextPackets
<1>6. \A k \in DOMAIN sock'[e].send_buffer : InStream(l, n, sock'[e].send_buffer[k].pkt)
  BY <1>3, <1>4, <1>5 DEF Packeting
<1>7. \A p \in BagToSet(net[f]) : p.data => InStream(l, n, p)
  <2> TAKE p \in BagToSet(net[f])
  <2>1. p \in Packets /\ (p.data => InStream(l, m, p))
    BY <1>1 DEF PacketsFit, Base, Types
  <2>2. QED BY <1>2, <2>1
<1>8. \A p \in BagToSet(net'[f]) : p.data => InStream(l, n, p)
  <2>1. ~Ack(sock[e].expected_seq_num).data
    BY DEF Ack
  <2>2. QED BY <1>1, <1>3, <1>4, <1>5, <1>7, <2>1 DEF Packeting
<1>9. /\ receiver'[f].pkt.data => InStream(l, n, receiver'[f].pkt)
      /\ receiver'[f].at = "data" => receiver'[f].pkt.data
  <2>1. PICK p \in Packets : p = receiver[f].pkt
    BY DEF Base, Types, Receivers
  <2>2. (p.data => InStream(l, m, p)) /\ (receiver[f].at = "data" => p.data)
    BY <1>1, <2>1 DEF PacketsFit
  <2>3. p.data => InStream(l, n, p)
    BY <1>2, <2>2
  <2>4. ~Ack(0).data
    BY DEF Ack
  <2>5. QED BY <1>7, <2>1, <2>2, <2>3, <2>4, ReceiverIs
<1>10. QED BY <1>1, <1>6, <1>8, <1>9

-----------------------------------------------------------------------------
\* All that e has received, wherever it is now, stays where it is.
Unread(e) ==
  /\ sock'[e].recv_data = sock[e].recv_data /\ sock'[e].recv_buffer = sock[e].recv_buffer
  /\ sock'[e].expected_seq_num = sock[e].expected_seq_num
  /\ reader'[e].data = reader[e].data /\ (reader'[e].at = "idle" => reader[e].at = "idle")
  /\ got'[e] = got[e]

LEMMA RecvIs ==
  ASSUME Base, [Next]_vars, NEW e \in Ends
  PROVE  HandleData(e) \/ Pop(e) \/ RecvReturns(e) \/ Unread(e)
<1> USE DEF Base
<1>0. sock[e] \in Socks /\ reader[e] \in Readers
  BY DEF Types
<1>1. ASSUME NEW f \in Ends,
             \/ SendCalled(f) \/ SendStep(f) \/ HandlerStep(f) \/ Close(f)
             \/ \E pkt \in BagToSet(net[f]) : HandleAck(f, pkt)
      PROVE  Unread(e)
  <2>1. reader' = reader /\ got' = got
    BY <1>1 DEF SendCalled, SendStep, SendFullPacket, SendChunk, ChunkAcked, ChunkTimesOut, BigDone,
                HandlerStep, Resend, ResendUpTo, Close, HandleAck
  <2>2. SameRecv(sock[f], sock'[f]) /\ \A g \in Ends : g # f => sock'[g] = sock[g]
    BY <1>1, SendersStep
  <2>3. QED BY <2>1, <2>2 DEF Unread, SameRecv
<1>2. ASSUME NEW f \in Ends, RecvStep(f), f # e PROVE Unread(e)
  <2>1. sock'[e] = sock[e] /\ reader'[e] = reader[e] /\ got'[e] = got[e]
    BY <1>2 DEF RecvStep, RecvCalled, Pop, FindsNothing, Woken, ClearEvent, RecvReturns, Types
  <2>2. QED BY <2>1 DEF Unread
<1>3. ASSUME RecvCalled(e) \/ FindsNothing(e) \/ Woken(e) \/ ClearEvent(e) PROVE Unread(e)
  <2>1. /\ sock'[e] = sock[e] \/ sock'[e] = [sock[e] EXCEPT !.recv_event = FALSE]
        /\ reader'[e] \in {[reader[e] EXCEPT !.at = "reading"], [reader[e] EXCEPT !.at = "waiting"],
                           [reader[e] EXCEPT !.at = "woken"]}
        /\ got'[e] = got[e]
    BY <1>3 DEF RecvCalled, FindsNothing, Woken, ClearEvent, Types
  <2>2. reader'[e].data = reader[e].data /\ reader'[e].at # "idle"
    BY <1>0, <2>1 DEF Readers
  <2>3. SameRecv([sock[e] EXCEPT !.recv_event = sock'[e].recv_event], sock'[e])
    BY <1>0, <2>1 DEF SameRecv, Socks
  <2>4. QED BY <1>0, <2>1, <2>2 DEF Unread, Socks
<1>4. ASSUME NEW f \in Ends, SendAck(f) \/ \E pkt \in BagToSet(net[f]) : Fault(f, pkt) PROVE Unread(e)
  BY <1>4 DEF SendAck, Fault, Unread
<1>5. ASSUME NEW f \in Ends, HandleData(f), f # e PROVE Unread(e)
  BY <1>5, ReceiversStep DEF HandleData, Unread
<1>6. CASE UNCHANGED vars
  BY <1>6 DEF vars, Unread
<1>7. ASSUME NEW f \in Ends, ReceiverStep(f) PROVE HandleData(e) \/ Unread(e)
  BY <1>1, <1>4, <1>5, <1>7 DEF ReceiverStep
<1>8. ASSUME NEW f \in Ends, RecvStep(f) PROVE Pop(e) \/ RecvReturns(e) \/ Unread(e)
  BY <1>2, <1>3, <1>8 DEF RecvStep
<1>9. QED BY <1>1, <1>4, <1>6, <1>7, <1>8 DEF Next

\* What the parts of the invariants about one end's stream say, in plain numbers.
LEMMA StreamTypes ==
  ASSUME Base, NEW e \in Ends
  PROVE  /\ got[e] \in Seq(Nat) /\ reader[e].data \in Seq(Nat) /\ Len(got[e]) \in Nat /\ Len(reader[e].data) \in Nat
         /\ Taken(e) \in Nat /\ ReadSize[e] \in Nat
         /\ sock[e].recv_data \in Seq([seq : Nat, len : Nat]) /\ Len(sock[e].recv_data) \in Nat
         /\ DOMAIN sock[e].recv_data = 1..Len(sock[e].recv_data)
<1>1. got[e] \in Seq(Nat) /\ reader[e].data \in Seq(Nat) /\ sock[e].recv_data \in Seq([seq : Nat, len : Nat])
  BY DEF Base, Types, Readers, Socks
<1>2. Len(got[e]) \in Nat /\ Len(reader[e].data) \in Nat /\ Len(sock[e].recv_data) \in Nat
      /\ DOMAIN sock[e].recv_data = 1..Len(sock[e].recv_data)
  BY <1>1, LenProperties
<1>3. Taken(e) \in Nat
  <2>1. PICK m \in Nat, n \in Nat : m = Len(got[e]) /\ n = Len(reader[e].data)
    BY <1>2
  <2>2. m + n \in Nat
    OBVIOUS
  <2>3. Taken(e) = m + n
    BY <2>1 DEF Taken
  <2>4. QED BY <2>2, <2>3
<1>4. ReadSize[e] \in Nat
  BY TCPAssumption
<1>5. QED BY <1>1, <1>2, <1>3, <1>4

LEMMA BytesAssociate == ASSUME NEW s \in Seq(Nat), NEW t \in Seq(Nat), NEW u \in Seq(Nat)
                        PROVE  (s \o t) \o u = s \o (t \o u)
BY ConcatAssociative

\* Pop moves the first piece from recv_data to what recv holds.
LEMMA PopIs ==
  ASSUME Base, NEW e \in Ends, Pop(e), NEW l \in Nat \ {0},
         Chain(sock[e].recv_data, Taken(e), l),
         got[e] \o reader[e].data = Bytes(0, Taken(e))
  PROVE  /\ Len(reader'[e].data) = Len(reader[e].data) + l /\ Taken(e)' = Taken(e) + l
         /\ reader'[e].at = "reading" /\ Len(reader[e].data) < ReadSize[e]
         /\ got'[e] \o reader'[e].data = Bytes(0, Taken(e) + l)
         /\ Len(sock'[e].recv_data) = Len(sock[e].recv_data) - 1
         /\ Chain(sock'[e].recv_data, Taken(e) + l, l)
         /\ sock'[e].recv_buffer = sock[e].recv_buffer /\ sock'[e].expected_seq_num = sock[e].expected_seq_num
<1>1. PICK g \in Seq(Nat), d \in Seq(Nat) : g = got[e] /\ d = reader[e].data /\ Len(g) \in Nat /\ Len(d) \in Nat
  BY StreamTypes
<1>2. PICK q \in Seq([seq : Nat, len : Nat]) : q = sock[e].recv_data /\ q # <<>> /\ Len(q) \in Nat /\ DOMAIN q = 1..Len(q)
  BY StreamTypes DEF Pop
<1>3. PICK t \in Nat : t = Taken(e) /\ t = Len(g) + Len(d)
  BY <1>1, StreamTypes DEF Taken
<1>4. Len(q) > 0
  BY <1>2, EmptySeq
<1>0. \A i \in DOMAIN q : q[i] = [seq |-> t + (i - 1) * l, len |-> l]
  BY <1>2, <1>3 DEF Chain
<1>5. Head(q) = [seq |-> t, len |-> l]
  <2>0. 1 \in DOMAIN q
    <3>1. PICK n \in Nat : n = Len(q) /\ n > 0
      BY <1>2, <1>4
    <3>2. QED BY <1>2, <3>1
  <2>1. q[1] = [seq |-> t + (1 - 1) * l, len |-> l]
    BY <1>0, <2>0
  <2>2. t + (1 - 1) * l = t
    OBVIOUS
  <2>3. QED BY <1>2, <2>1, <2>2
<1>6. PICK b \in Seq(Nat) : b = Bytes(t, l) /\ Len(b) = l
  BY BytesAre
<1>7. /\ reader' = [reader EXCEPT ![e].data = d \o b] /\ sock' = [sock EXCEPT ![e].recv_data = Tail(q)]
      /\ got' = got /\ reader[e].at = "reading" /\ Len(d) < ReadSize[e]
  <2>1. PICK p : p = Head(q) /\ p.seq = t /\ p.len = l
    BY <1>5
  <2>2. /\ reader' = [reader EXCEPT ![e].data = @ \o Bytes(p.seq, p.len)]
        /\ sock' = [sock EXCEPT ![e].recv_data = Tail(@)]
        /\ got' = got /\ reader[e].at = "reading" /\ Len(d) < ReadSize[e]
    BY <1>1, <1>2, <2>1 DEF Pop
  <2>3. QED BY <1>1, <1>2, <1>6, <2>1, <2>2
<1>8. d \o b \in Seq(Nat) /\ Len(d \o b) = Len(d) + l
  BY <1>6, ConcatProperties
<1>9. reader'[e].data = d \o b /\ reader'[e].at = "reading"
  BY <1>7 DEF Base, Types, Readers
<1>10. Taken(e)' = t + l
  <2>1. Taken(e)' = Len(g) + Len(d \o b)
    BY <1>1, <1>7, <1>9 DEF Taken
  <2>2. QED BY <1>3, <1>8, <2>1
<1>11. g \o (d \o b) = Bytes(0, t + l)
  <2>1. (g \o d) \o b = g \o (d \o b)
    BY BytesAssociate
  <2>2. Bytes(0, t) \o Bytes(0 + t, l) = Bytes(0, t + l)
    BY BytesConcat
  <2>3. 0 + t = t
    OBVIOUS
  <2>4. Bytes(0, t) \o Bytes(t, l) = Bytes(0, t + l)
    BY <2>2, <2>3
  <2>5. g \o d = Bytes(0, t)
    BY <1>1, <1>3
  <2>6. QED BY <1>6, <2>1, <2>4, <2>5
<1>12. Len(Tail(q)) = Len(q) - 1 /\ Tail(q) \in Seq([seq : Nat, len : Nat]) /\ \A i \in 1..Len(Tail(q)) : Tail(q)[i] = q[i + 1]
  BY <1>2, HeadTailProperties
<1>13. DOMAIN Tail(q) = 1..Len(Tail(q))
  BY <1>12, LenProperties
<1>14. \A i \in DOMAIN Tail(q) : Tail(q)[i] = [seq |-> t + l + (i - 1) * l, len |-> l]
  <2> TAKE i \in DOMAIN Tail(q)
  <2>0. i \in 1..Len(Tail(q))
    BY <1>13
  <2>1. i \in Nat /\ i + 1 \in 1..Len(q)
    <3>1. PICK n \in Nat, m \in Int : n = Len(q) /\ m = Len(Tail(q)) /\ m = n - 1
      BY <1>2, <1>12
    <3>2. i \in 1..m
      BY <2>0, <3>1
    <3>3. i \in Nat /\ i + 1 \in 1..n
      BY <3>1, <3>2
    <3>4. QED BY <3>1, <3>3
  <2>11. Tail(q)[i] = q[i + 1]
    BY <1>12, <2>0
  <2>2. PICK j \in Nat : j = i + 1 /\ j \in DOMAIN q /\ j - 1 = i
    <3>1. i + 1 \in Nat /\ (i + 1) - 1 = i
      BY <2>1
    <3>2. DOMAIN q = 1..Len(q)
      BY <1>2
    <3>3. QED BY <2>1, <3>1, <3>2
  <2>3. q[j] = [seq |-> t + (j - 1) * l, len |-> l]
    BY <1>0, <2>2
  <2>4. t + i * l = t + l + (i - 1) * l
    BY <2>1
  <2>5. QED BY <2>1, <2>11, <2>2, <2>3, <2>4
<1>15. /\ sock'[e].recv_data = Tail(q) /\ sock'[e].recv_buffer = sock[e].recv_buffer
       /\ sock'[e].expected_seq_num = sock[e].expected_seq_num
  <2>1. PICK r : r = Tail(q)
    OBVIOUS
  <2>2. sock'[e] = [sock[e] EXCEPT !.recv_data = r]
    BY <1>7, <2>1 DEF Base, Types
  <2>3. sock[e] \in Socks
    BY DEF Base, Types
  <2>4. QED BY <2>1, <2>2, <2>3 DEF Socks
<1>16. Chain(Tail(q), t + l, l)
  BY <1>14 DEF Chain
<1>17. QED BY <1>1, <1>2, <1>3, <1>7, <1>8, <1>9, <1>10, <1>11, <1>12, <1>15, <1>16

\* recv returns all it holds when that is exactly what was asked for.
LEMMA ReturnIs ==
  ASSUME Base, NEW e \in Ends, RecvReturns(e), Len(reader[e].data) <= ReadSize[e]
  PROVE  /\ reader'[e].data = <<>> /\ reader'[e].at = "idle" /\ sock'[e] = sock[e]
         /\ got'[e] \o reader'[e].data = got[e] \o reader[e].data /\ Taken(e)' = Taken(e)
<1>1. PICK g \in Seq(Nat), d \in Seq(Nat) : g = got[e] /\ d = reader[e].data /\ Len(g) \in Nat /\ Len(d) \in Nat
  BY StreamTypes
<1>2. PICK n \in Nat : n = ReadSize[e] /\ n = Len(d)
  BY <1>1, StreamTypes DEF RecvReturns
<1>3. SubSeq(d, 1, n) = d
  <2>1. \A i \in 1..n : d[i] \in Nat
    BY <1>2, ElementOfSeq
  <2>2. SubSeq(d, 1, n) \in Seq(Nat) /\ Len(SubSeq(d, 1, n)) = n /\ \A i \in 1..n : SubSeq(d, 1, n)[i] = d[i]
    BY <2>1, SubSeqProperties
  <2>3. QED BY <1>2, <2>2, SeqEqual
<1>4. reader' = [reader EXCEPT ![e] = [at |-> "idle", data |-> <<>>]] /\ got' = [got EXCEPT ![e] = g \o d] /\ sock' = sock
  BY <1>1, <1>2, <1>3 DEF RecvReturns
<1>5. reader'[e] = [at |-> "idle", data |-> <<>>] /\ got'[e] = g \o d
  BY <1>4 DEF Base, Types
<1>6. g \o d \in Seq(Nat) /\ Len(g \o d) = Len(g) + Len(d)
  BY ConcatProperties
<1>7. (g \o d) \o <<>> = g \o d
  BY <1>6, ConcatEmptySeq
<1>8. Taken(e)' = Taken(e)
  <2>1. Len(reader'[e].data) = 0 /\ Len(got'[e]) = Len(g) + Len(d)
    BY <1>5, <1>6
  <2>2. PICK i \in Nat, j \in Nat : i = Len(g) /\ j = Len(d)
    BY <1>1
  <2>3. Taken(e) = i + j
    BY <1>1, <2>2 DEF Taken
  <2>4. Taken(e)' = (i + j) + 0
    BY <2>1, <2>2 DEF Taken
  <2>5. (i + j) + 0 = i + j
    OBVIOUS
  <2>6. QED BY <2>3, <2>4, <2>5
<1>9. reader'[e].data = <<>> /\ reader'[e].at = "idle" /\ sock'[e] = sock[e]
  BY <1>4, <1>5
<1>10. got'[e] \o reader'[e].data = got[e] \o reader[e].data
  <2>1. PICK u : u = g \o d /\ u \o <<>> = u
    BY <1>7
  <2>2. got'[e] = u /\ got[e] \o reader[e].data = u
    BY <1>1, <1>5, <2>1
  <2>3. QED BY <1>9, <2>1, <2>2
<1>11. QED BY <1>8, <1>9, <1>10

LEMMA NextReads ==
  ASSUME Base, [Next]_vars, NEW L \in [Ends -> 1..MaxPayload], Suits(L), ReadsFit(L), InOrder(L)
  PROVE  ReadsFit(L)'
<1> SUFFICES ASSUME NEW e \in Ends
             PROVE  /\ Multiple(Len(reader'[Peer(e)].data), L[e]) /\ Len(reader'[Peer(e)].data) <= ReadSize[Peer(e)]
                    /\ reader'[Peer(e)].at = "idle" => reader'[Peer(e)].data = <<>>
  BY DEF ReadsFit
<1>1. PICK r \in Ends, l \in Nat \ {0} : r = Peer(e) /\ l = L[e]
  BY Peers, TCPAssumption
<1>2. /\ Multiple(Len(reader[r].data), l) /\ Len(reader[r].data) <= ReadSize[r]
      /\ reader[r].at = "idle" => reader[r].data = <<>>
  BY <1>1 DEF ReadsFit
<1>3. /\ got[r] \o reader[r].data = Bytes(0, Taken(r))
      /\ Chain(sock[r].recv_data, Taken(r), l)
  BY <1>1 DEF InOrder
<1>4. CASE HandleData(r)
  BY <1>1, <1>2, <1>4 DEF HandleData
<1>5. CASE Pop(r)
  <2>1. PICK n \in Nat, s \in Nat : n = Len(reader[r].data) /\ s = ReadSize[r]
    BY StreamTypes
  <2>2. Len(reader'[r].data) = n + l /\ reader'[r].at = "reading" /\ n < s
    BY <1>3, <1>5, <2>1, PopIs
  <2>3. Multiple(s, l) /\ Multiple(n, l)
    BY <1>1, <1>2, <2>1 DEF Suits
  <2>4. n + l <= s /\ Multiple(n + l, l)
    BY <2>2, <2>3, MultipleGap, MultipleMore
  <2>5. QED BY <1>1, <2>1, <2>2, <2>4
<1>6. CASE RecvReturns(r)
  <2>1. reader'[r].data = <<>>
    BY <1>2, <1>6, ReturnIs
  <2>2. Len(<<>>) = 0 /\ Multiple(0, l)
    BY <1>1, MultipleZero
  <2>3. QED BY <1>1, <2>1, <2>2, TCPAssumption
<1>7. CASE Unread(r)
  BY <1>1, <1>2, <1>7 DEF Unread
<1>8. QED BY <1>4, <1>5, <1>6, <1>7, RecvIs

-----------------------------------------------------------------------------
LEMMA ChainLink ==
  ASSUME NEW S, NEW q \in Seq(S), NEW r \in Seq(S), NEW t \in Nat, NEW l \in Nat, Chain(q, t, l), Chain(r, t + Len(q) * l, l)
  PROVE  Chain(q \o r, t, l)
<1>1. PICK m \in Nat, n \in Nat : m = Len(q) /\ n = Len(r) /\ DOMAIN q = 1..m /\ DOMAIN r = 1..n
  BY LenProperties
<1>0. q \o r \in Seq(S) /\ Len(q \o r) = Len(q) + Len(r)
      /\ \A i \in 1..(Len(q) + Len(r)) : (q \o r)[i] = IF i <= Len(q) THEN q[i] ELSE r[i - Len(q)]
  BY ConcatProperties
<1>2. PICK s \in Seq(S) :
        s = q \o r /\ Len(s) = m + n /\ \A i \in 1..(m + n) : s[i] = IF i <= m THEN q[i] ELSE r[i - m]
  BY <1>0, <1>1
<1>3. DOMAIN s = 1..(m + n)
  BY <1>2, LenProperties
<1>4. ASSUME NEW i \in 1..(m + n) PROVE s[i] = [seq |-> t + (i - 1) * l, len |-> l]
  <2>1. CASE i <= m
    BY <1>1, <1>2, <2>1 DEF Chain
  <2>2. CASE i > m
    <3>1. PICK j \in 1..n : j = i - m
      BY <2>2
    <3>2. r[j] = [seq |-> t + m * l + (j - 1) * l, len |-> l]
      BY <1>1 DEF Chain
    <3>3. t + m * l + (j - 1) * l = t + (i - 1) * l
      <4>1. PICK k \in Nat : j = k + 1 /\ i - 1 = m + k
        BY <3>1
      <4>2. t + m * l + k * l = t + (m + k) * l
        OBVIOUS
      <4>3. QED BY <4>1, <4>2
    <3>4. s[i] = r[j]
      <4>1. s[i] = IF i <= m THEN q[i] ELSE r[i - m]
        BY <1>2
      <4>2. QED BY <2>2, <3>1, <4>1
    <3>5. QED BY <3>2, <3>3, <3>4
  <2>3. i <= m \/ i > m
    OBVIOUS
  <2>4. QED BY <2>1, <2>2, <2>3
<1>5. QED BY <1>2, <1>3, <1>4 DEF Chain

\* HandleData takes the packet that was expected and those that follow it.
LEMMA DataInOrder ==
  ASSUME Base, NEW e \in Ends, HandleData(e), NEW l \in Nat, NEW n \in Nat, NEW t \in Nat,
         InStream(l, n, receiver[e].pkt),
         \A k \in DOMAIN sock[e].recv_buffer : sock[e].recv_buffer[k] = l /\ k + l <= n,
         Chain(sock[e].recv_data, t, l),
         sock[e].expected_seq_num = t + Len(sock[e].recv_data) * l, sock[e].expected_seq_num <= n
  PROVE  /\ \A k \in DOMAIN sock'[e].recv_buffer : sock'[e].recv_buffer[k] = l /\ k + l <= n
         /\ Chain(sock'[e].recv_data, t, l)
         /\ sock'[e].expected_seq_num = t + Len(sock'[e].recv_data) * l /\ sock'[e].expected_seq_num <= n
<1>0. sock[e] \in Socks
  BY DEF Base, Types
<1>01. PICK S : S = [seq : Nat, len : Nat]
  OBVIOUS
<1>1. PICK p \in Packets : p = receiver[e].pkt /\ p.len = l /\ p.seq \in Nat /\ p.seq + l <= n
  BY DEF Base, Types, Receivers, InStream, Packets
<1>2. PICK q \in Seq(S) : q = sock[e].recv_data
  BY <1>01, StreamTypes
<1>3. PICK buf \in Maps(Nat) : buf = sock[e].recv_buffer
  BY <1>0 DEF Socks
<1>02. PICK z \in Nat : z = p.seq
  BY <1>1
<1>03. /\ Followers(buf, z, l) \in Seq([seq : Nat, len : Nat])
       /\ \A i \in 1..Len(Followers(buf, z, l)) :
            /\ z + i * l \in DOMAIN buf
            /\ Followers(buf, z, l)[i] = [seq |-> z + i * l, len |-> buf[z + i * l]]
  BY FollowersAre
<1>4. PICK more \in Seq(S) :
        /\ more = Followers(buf, z, l)
        /\ \A i \in 1..Len(more) : z + i * l \in DOMAIN buf /\ more[i] = [seq |-> z + i * l, len |-> buf[z + i * l]]
  BY <1>01, <1>03
<1>5. PICK c \in Nat, m \in Nat : c = Len(q) /\ m = Len(more) /\ DOMAIN more = 1..m
  BY LenProperties
<1>6. PICK x \in Nat : x = sock[e].expected_seq_num /\ x = t + c * l /\ x <= n
  BY <1>0, <1>2, <1>5 DEF Socks
<1>7. PICK taken : taken = {more[i].seq : i \in DOMAIN more}
  OBVIOUS
<1>8. PICK u, b, w, y : /\ u = q \o <<[seq |-> p.seq, len |-> l]>> \o more
                        /\ b = [k \in DOMAIN buf \ taken |-> buf[k]]
                        /\ w = With(buf, p.seq, l)
                        /\ y = x + l * (1 + m)
  OBVIOUS
<1>9. \/ p.seq = x /\ sock'[e] = [sock[e] EXCEPT !.recv_data = u, !.recv_buffer = b, !.expected_seq_num = y, !.recv_event = TRUE]
      \/ sock'[e] = [sock[e] EXCEPT !.recv_buffer = w]
      \/ sock'[e] = sock[e]
  <2> DEFINE pkt == receiver[e].pkt
             more0 == Followers(sock[e].recv_buffer, pkt.seq, pkt.len)
             taken0 == {more0[i].seq : i \in DOMAIN more0}
  <2>1. more0 = more /\ taken0 = taken
    BY <1>1, <1>02, <1>3, <1>4, <1>7
  <2>2. PICK uu, bb, ww, yy :
             /\ uu = sock[e].recv_data \o <<[seq |-> pkt.seq, len |-> pkt.len]>> \o more0
             /\ bb = [k \in DOMAIN sock[e].recv_buffer \ taken0 |-> sock[e].recv_buffer[k]]
             /\ ww = With(sock[e].recv_buffer, pkt.seq, pkt.len)
             /\ yy = sock[e].expected_seq_num + pkt.len * (1 + Len(more0))
    OBVIOUS
  <2>3. \/ pkt.seq = sock[e].expected_seq_num
           /\ sock'[e] = [sock[e] EXCEPT !.recv_data = uu, !.recv_buffer = bb, !.expected_seq_num = yy, !.recv_event = TRUE]
        \/ sock'[e] = [sock[e] EXCEPT !.recv_buffer = ww]
        \/ sock'[e] = sock[e]
    BY <2>2, HandleDataIs DEF Base
  <2> HIDE DEF more0, taken0
  <2>4. uu = u /\ bb = b /\ ww = w /\ yy = y
    BY <1>1, <1>2, <1>3, <1>5, <1>6, <1>8, <2>1, <2>2
  <2>5. QED BY <1>1, <1>6, <2>3, <2>4
<1>10. Chain(q, t, l) /\ \A k \in DOMAIN buf : buf[k] = l /\ k + l <= n /\ k \in Nat
  BY <1>2, <1>3, MapIs
<1>11. CASE /\ p.seq = x
            /\ sock'[e] = [sock[e] EXCEPT !.recv_data = u, !.recv_buffer = b, !.expected_seq_num = y, !.recv_event = TRUE]
  <2>1. sock'[e].recv_data = u /\ sock'[e].recv_buffer = b /\ sock'[e].expected_seq_num = y
    BY <1>0, <1>11 DEF Socks
  <2>2. \A k \in DOMAIN b : b[k] = l /\ k + l <= n
    BY <1>8, <1>10
  <2>03. PICK part \in S : part = [seq |-> x, len |-> l]
    BY <1>01
  <2>05. <<part>> \in Seq(S) /\ Len(<<part>>) = 1 /\ <<part>>[1] = part
    OBVIOUS
  <2>06. DOMAIN <<part>> = {1}
    OBVIOUS
  <2>3. PICK v : v = <<part>> /\ v \in Seq(S) /\ Len(v) = 1 /\ DOMAIN v = {1} /\ v[1] = part
    BY <2>05, <2>06
  <2>4. Chain(v, x, l)
    <3>1. x + (1 - 1) * l = x
      OBVIOUS
    <3>2. QED BY <2>03, <2>3, <3>1 DEF Chain
  <2>04. q \o v \in Seq(S) /\ Len(q \o v) = Len(q) + Len(v)
    BY <2>3, ConcatProperties
  <2>5. PICK qv \in Seq(S) : qv = q \o v /\ Len(qv) = c + 1
    BY <1>5, <2>3, <2>04
  <2>6. Chain(qv, t, l)
    BY <1>5, <1>6, <1>10, <2>4, <2>5, ChainLink
  <2>7. t + (c + 1) * l = x + l
    <3>1. (c + 1) * l = c * l + l
      OBVIOUS
    <3>2. PICK z1 \in Nat, z2 \in Nat : z1 = c * l /\ z2 = (c + 1) * l /\ z2 = z1 + l
      <4>1. c * l \in Nat /\ (c + 1) * l \in Nat
        OBVIOUS
      <4>2. QED BY <3>1, <4>1
    <3>3. x = t + z1
      BY <1>6, <3>2
    <3>4. t + z2 = x + l
      BY <3>2, <3>3
    <3>5. QED BY <3>2, <3>4
  <2>8. Chain(more, x + l, l)
    <3>1. SUFFICES ASSUME NEW i \in 1..m PROVE more[i] = [seq |-> x + l + (i - 1) * l, len |-> l]
      BY <1>5 DEF Chain
    <3>2. x + i * l = x + l + (i - 1) * l
      OBVIOUS
    <3>3. more[i] = [seq |-> x + i * l, len |-> l]
      <4>1. z = x
        BY <1>02, <1>11
      <4>2. x + i * l \in DOMAIN buf /\ more[i] = [seq |-> x + i * l, len |-> buf[x + i * l]]
        BY <1>4, <1>5, <4>1
      <4>3. QED BY <1>10, <4>2
    <3>4. QED BY <3>2, <3>3
  <2>9. Chain(qv \o more, t, l) /\ Len(qv \o more) = c + 1 + m
    <3>1. Chain(more, t + Len(qv) * l, l)
      BY <2>5, <2>7, <2>8
    <3>2. Chain(qv \o more, t, l)
      BY <2>6, <3>1, ChainLink
    <3>3. Len(qv \o more) = Len(qv) + Len(more)
      BY ConcatProperties
    <3>4. QED BY <1>5, <2>5, <3>2, <3>3
  <2>10. u = qv \o more
    BY <1>8, <1>11, <2>03, <2>3, <2>5
  <2>11. y = t + (c + 1 + m) * l
    BY <1>6, <1>8
  <2>12. y <= n
    <3>1. CASE m = 0
      <4>1. y = x + l
        BY <1>8, <3>1
      <4>2. QED BY <1>1, <1>11, <4>1
    <3>2. CASE m > 0
      <4>1. PICK k \in Nat : k = x + m * l /\ k \in DOMAIN buf
        <5>1. z = x /\ m \in 1..m
          BY <1>02, <1>11, <3>2
        <5>2. x + m * l \in DOMAIN buf
          BY <1>4, <1>5, <5>1
        <5>3. QED BY <1>10, <5>2
      <4>2. k + l <= n
        BY <1>10, <4>1
      <4>3. y = k + l
        BY <1>8, <4>1
      <4>4. QED BY <4>2, <4>3
    <3>3. QED BY <3>1, <3>2
  <2>13. QED BY <2>1, <2>2, <2>9, <2>10, <2>11, <2>12
<1>12. CASE sock'[e] = [sock[e] EXCEPT !.recv_buffer = w]
  <2>1. sock'[e].recv_data = q /\ sock'[e].recv_buffer = w /\ sock'[e].expected_seq_num = x
    BY <1>0, <1>2, <1>6, <1>12 DEF Socks
  <2>2. \A k \in DOMAIN w : w[k] = l /\ k + l <= n
    BY <1>1, <1>8, <1>10 DEF With
  <2>3. QED BY <1>5, <1>6, <1>10, <2>1, <2>2
<1>13. CASE sock'[e] = sock[e]
  BY <1>13
<1>14. QED BY <1>9, <1>11, <1>12, <1>13

-----------------------------------------------------------------------------
LEMMA NextInOrder ==
  ASSUME Base, [Next]_vars, NEW L \in [Ends -> 1..MaxPayload], PacketsFit(L), ReadsFit(L), InOrder(L)
  PROVE  InOrder(L)'
<1> SUFFICES ASSUME NEW e \in Ends
             PROVE  LET r == Peer(e) IN
                    /\ \A k \in DOMAIN sock'[r].recv_buffer :
                         sock'[r].recv_buffer[k] = L[e] /\ k + L[e] <= sock'[e].next_seq_num
                    /\ got'[r] \o reader'[r].data = Bytes(0, Taken(r)')
                    /\ Chain(sock'[r].recv_data, Taken(r)', L[e])
                    /\ sock'[r].expected_seq_num = Taken(r)' + Len(sock'[r].recv_data) * L[e]
                    /\ sock'[r].expected_seq_num <= sock'[e].next_seq_num
  BY DEF InOrder
<1>1. PICK r \in Ends, l \in Nat \ {0} : r = Peer(e) /\ l = L[e]
  BY Peers, TCPAssumption
<1>2. PICK m \in Nat, n \in Nat : m = sock[e].next_seq_num /\ n = sock'[e].next_seq_num /\ m <= n
  BY NextGrows
<1>3. PICK t \in Nat, c \in Nat : t = Taken(r) /\ c = Len(sock[r].recv_data)
  BY StreamTypes
<1>4. PICK x \in Nat : x = sock[r].expected_seq_num /\ x = t + c * l /\ x <= m
  BY <1>1, <1>2, <1>3 DEF InOrder, Base, Types, Socks
<1>5. /\ got[r] \o reader[r].data = Bytes(0, t) /\ Chain(sock[r].recv_data, t, l)
      /\ Len(reader[r].data) <= ReadSize[r]
  BY <1>1, <1>3 DEF InOrder, ReadsFit
<1>6. \A k \in DOMAIN sock[r].recv_buffer : sock[r].recv_buffer[k] = l /\ k + l <= n
  <2>1. sock[r].recv_buffer \in Maps(Nat)
    BY DEF Base, Types, Socks
  <2>2. \A k \in DOMAIN sock[r].recv_buffer : k \in Nat
    BY <2>1, MapIs
  <2>3. \A k \in DOMAIN sock[r].recv_buffer : sock[r].recv_buffer[k] = l /\ k + l <= m
    BY <1>1, <1>2 DEF InOrder
  <2>4. QED BY <1>2, <2>2, <2>3
<1>7. x <= n
  BY <1>2, <1>4
<1> DEFINE Goal == /\ \A k \in DOMAIN sock'[r].recv_buffer : sock'[r].recv_buffer[k] = l /\ k + l <= n
                   /\ got'[r] \o reader'[r].data = Bytes(0, Taken(r)')
                   /\ Chain(sock'[r].recv_data, Taken(r)', l)
                   /\ sock'[r].expected_seq_num = Taken(r)' + Len(sock'[r].recv_data) * l
                   /\ sock'[r].expected_seq_num <= n
<1>8. CASE HandleData(r)
  <2>1. reader' = reader /\ got' = got /\ Taken(r)' = t
    BY <1>3, <1>8 DEF HandleData, Taken
  <2>2. InStream(l, n, receiver[r].pkt)
    <3>1. receiver[r].pkt \in Packets
      BY DEF Base, Types, Receivers
    <3>2. InStream(l, m, receiver[r].pkt)
      BY <1>1, <1>2, <1>8 DEF PacketsFit, HandleData
    <3>3. QED BY <1>2, <3>1, <3>2 DEF InStream, Packets
  <2>3. sock[r].expected_seq_num = t + Len(sock[r].recv_data) * l /\ sock[r].expected_seq_num <= n
    BY <1>3, <1>4, <1>7
  <2>4. /\ \A k \in DOMAIN sock'[r].recv_buffer : sock'[r].recv_buffer[k] = l /\ k + l <= n
        /\ Chain(sock'[r].recv_data, t, l)
        /\ sock'[r].expected_seq_num = t + Len(sock'[r].recv_data) * l /\ sock'[r].expected_seq_num <= n
    BY <1>5, <1>6, <1>8, <2>2, <2>3, DataInOrder
  <2>5. Goal
    BY <1>5, <2>1, <2>4
  <2>6. QED BY <1>1, <1>2, <2>5
<1>9. CASE Pop(r)
  <2>0. PICK q : q = sock'[r].recv_data
    OBVIOUS
  <2>1. PICK tt \in Nat : tt = t + l
    OBVIOUS
  <2>2. /\ Taken(r)' = tt /\ got'[r] \o reader'[r].data = Bytes(0, tt)
        /\ Len(q) = c - 1 /\ Chain(q, tt, l)
        /\ sock'[r].recv_buffer = sock[r].recv_buffer /\ sock'[r].expected_seq_num = x
    BY <1>3, <1>4, <1>5, <1>9, <2>0, <2>1, PopIs
  <2>3. x = tt + (c - 1) * l
    BY <1>4, <2>1
  <2>4. Goal
    BY <1>6, <1>7, <2>0, <2>1, <2>2, <2>3
  <2>5. QED BY <1>1, <1>2, <2>4
<1>10. CASE RecvReturns(r)
  <2>1. sock'[r] = sock[r] /\ got'[r] \o reader'[r].data = got[r] \o reader[r].data /\ Taken(r)' = t
    BY <1>3, <1>5, <1>10, ReturnIs
  <2>2. Goal
    BY <1>3, <1>4, <1>5, <1>6, <1>7, <2>1
  <2>3. QED BY <1>1, <1>2, <2>2
<1>11. CASE Unread(r)
  <2>1. /\ sock'[r].recv_data = sock[r].recv_data /\ sock'[r].recv_buffer = sock[r].recv_buffer
        /\ sock'[r].expected_seq_num = x /\ got'[r] \o reader'[r].data = got[r] \o reader[r].data /\ Taken(r)' = t
    BY <1>3, <1>4, <1>11 DEF Unread, Taken
  <2>2. Goal
    BY <1>3, <1>4, <1>5, <1>6, <1>7, <2>1
  <2>3. QED BY <1>1, <1>2, <2>2
<1>12. QED BY <1>8, <1>9, <1>10, <1>11, RecvIs

LEMMA ReceivedIs ==
  ASSUME Base, NEW L \in [Ends -> 1..MaxPayload], InOrder(L), NEW e \in Ends
  PROVE  /\ sock[e].expected_seq_num \in Nat /\ sock[Peer(e)].next_seq_num \in Nat
         /\ Received(e) = Bytes(0, sock[e].expected_seq_num)
         /\ sock[e].expected_seq_num <= sock[Peer(e)].next_seq_num
<1>1. PICK f \in Ends, l \in Nat : f = Peer(e) /\ Peer(f) = e /\ l = L[f]
  BY Peers, TCPAssumption
<1>2. PICK t \in Nat, c \in Nat, q \in Seq([seq : Nat, len : Nat]) : t = Taken(e) /\ q = sock[e].recv_data /\ c = Len(q) /\ DOMAIN q = 1..c
  BY StreamTypes
<1>3. PICK x \in Nat, n \in Nat : x = sock[e].expected_seq_num /\ n = sock[f].next_seq_num
  BY DEF Base, Types, Socks
<1>4. got[e] \o reader[e].data = Bytes(0, t) /\ Chain(q, t, l) /\ x = t + c * l /\ x <= n
  BY <1>1, <1>2, <1>3 DEF InOrder
<1>5. Pieces(e) = [i \in 1..c |-> Bytes(q[i].seq, q[i].len)]
  BY <1>2 DEF Pieces
<1>6. \A i \in 1..c : q[i].seq = t + (i - 1) * l /\ q[i].len = l
  <2> TAKE i \in 1..c
  <2>1. q[i] = [seq |-> t + (i - 1) * l, len |-> l]
    BY <1>2, <1>4 DEF Chain
  <2>2. QED BY <2>1
<1>7. \A i \in 1..c : Bytes(q[i].seq, q[i].len) = Bytes(t + (i - 1) * l, l)
  BY <1>6
<1>8. \A i \in 1..c : Bytes(t + (i - 1) * l, l) \in Seq(Nat)
  <2> TAKE i \in 1..c
  <2>1. PICK s \in Nat : s = t + (i - 1) * l
    <3>1. PICK j \in Nat : j = i - 1
      OBVIOUS
    <3>2. PICK k \in Nat : k = j * l
      OBVIOUS
    <3>3. t + k \in Nat
      OBVIOUS
    <3>4. QED BY <3>1, <3>2, <3>3
  <2>2. QED BY <2>1, BytesAre
<1>9. PICK p : p = Pieces(e)
  OBVIOUS
<1>10. p \in [1..c -> Seq(Nat)] /\ \A i \in 1..c : p[i] = Bytes(t + (i - 1) * l, l)
  BY <1>5, <1>7, <1>8, <1>9
<1>11. p \in Seq(Seq(Nat)) /\ Len(p) = c
  BY <1>10, FunctionIsSeq
<1>12. FlattenSeq(p) = Bytes(t, c * l)
  BY <1>10, <1>11, FlattenIs
<1>13. PICK k \in Nat : k = c * l
  OBVIOUS
<1>14. Bytes(0, t) \o Bytes(0 + t, k) = Bytes(0, t + k)
  BY BytesConcat
<1>15. 0 + t = t /\ t + k = x
  BY <1>4, <1>13
<1>16. Received(e) = Bytes(0, x)
  BY <1>4, <1>9, <1>12, <1>13, <1>14, <1>15 DEF Received
<1>17. QED BY <1>1, <1>3, <1>4, <1>16

LEMMA InitFits == ASSUME Init, NEW L \in [Ends -> 1..MaxPayload]
                  PROVE  PacketsFit(L) /\ ChunksFit /\ ReadsFit(L) /\ InOrder(L)
<1>0. \A e \in Ends : Peer(e) \in Ends /\ L[e] \in Nat
  BY Peers, TCPAssumption
<1>1. \A e \in Ends : /\ sock[e].send_buffer = <<>> /\ sock[e].recv_buffer = <<>> /\ sock[e].recv_data = <<>>
                      /\ sock[e].next_seq_num = 0 /\ sock[e].expected_seq_num = 0
                      /\ sender[e].at = "idle" /\ receiver[e].at = "loop" /\ receiver[e].pkt = Ack(0)
                      /\ reader[e].data = <<>> /\ got[e] = <<>> /\ BagToSet(net[e]) = {}
  BY DEF Init, BagToSet, EmptyBag, SetToBag
<1>2. PacketsFit(L)
  <2>1. ~Ack(0).data
    BY DEF Ack
  <2>2. QED BY <1>0, <1>1, <2>1, MapEmpty DEF PacketsFit
<1>3. ChunksFit
  BY <1>1 DEF ChunksFit
<1>4. ReadsFit(L)
  <2>1. \A e \in Ends : Multiple(0, L[e])
    BY <1>0, MultipleZero
  <2>2. Len(<<>>) = 0 /\ \A e \in Ends : ReadSize[e] \in Nat
    BY TCPAssumption
  <2>3. QED BY <1>0, <1>1, <2>1, <2>2 DEF ReadsFit
<1>5. InOrder(L)
  <2>1. <<>> \o <<>> = <<>> /\ Bytes(0, 0) = <<>> /\ Len(<<>>) = 0
    BY DEF Bytes
  <2>2. \A e \in Ends : Taken(e) = 0
    <3> TAKE e \in Ends
    <3>1. Len(got[e]) = 0 /\ Len(reader[e].data) = 0
      BY <1>1, <2>1
    <3>2. QED BY <3>1 DEF Taken
  <2>3. \A e \in Ends : Chain(<<>>, 0, L[e])
    BY DEF Chain
  <2>4. \A e \in Ends : 0 = 0 + 0 * L[e]
    BY <1>0
  <2>5. DOMAIN <<>> = {}
    BY MapEmpty
  <2>6. SUFFICES ASSUME NEW e \in Ends
                 PROVE  LET r == Peer(e) IN
                    /\ \A k \in DOMAIN sock[r].recv_buffer :
                         sock[r].recv_buffer[k] = L[e] /\ k + L[e] <= sock[e].next_seq_num
                    /\ got[r] \o reader[r].data = Bytes(0, Taken(r))
                    /\ Chain(sock[r].recv_data, Taken(r), L[e])
                    /\ sock[r].expected_seq_num = Taken(r) + Len(sock[r].recv_data) * L[e]
                    /\ sock[r].expected_seq_num <= sock[e].next_seq_num
    BY DEF InOrder
  <2>7. PICK r \in Ends, l \in Nat : r = Peer(e) /\ l = L[e]
    BY <1>0
  <2>8. /\ sock[r].recv_buffer = <<>> /\ sock[r].recv_data = <<>> /\ got[r] = <<>> /\ reader[r].data = <<>>
        /\ sock[r].expected_seq_num = 0 /\ sock[e].next_seq_num = 0 /\ Taken(r) = 0
    BY <1>1, <2>2
  <2>9. \A k \in DOMAIN sock[r].recv_buffer : FALSE
    BY <2>5, <2>8
  <2>10. got[r] \o reader[r].data = Bytes(0, Taken(r))
    BY <2>1, <2>8
  <2>11. Chain(sock[r].recv_data, Taken(r), l)
    BY <2>3, <2>7, <2>8
  <2>12. Len(sock[r].recv_data) = 0 /\ 0 * l = 0
    BY <2>1, <2>8
  <2>13. sock[r].expected_seq_num = Taken(r) + Len(sock[r].recv_data) * l
    BY <2>8, <2>12
  <2>14. sock[r].expected_seq_num <= sock[e].next_seq_num
    BY <2>8
  <2>15. QED BY <2>7, <2>9, <2>10, <2>11, <2>13, <2>14
<1>6. QED BY <1>2, <1>3, <1>4, <1>5

-----------------------------------------------------------------------------
\* What the other end may rely on: all that has come in order is the beginning
\* of what was sent.
Delivered == \A e \in Ends :
  /\ sock[e].expected_seq_num \in Nat /\ sock[Peer(e)].next_seq_num \in Nat
  /\ Received(e) = Bytes(0, sock[e].expected_seq_num)
  /\ sock[e].expected_seq_num <= sock[Peer(e)].next_seq_num

\* A step is of one end, and changes no field of the other's socket.
LEMMA OneEnd == ASSUME Base, [Next]_vars
                PROVE  \E e \in Ends : \A f \in Ends : f # e => sock'[f] = sock[f]
<1>1. ASSUME NEW e \in Ends,
             \/ SendCalled(e) \/ SendStep(e) \/ HandlerStep(e) \/ Close(e)
             \/ \E pkt \in BagToSet(net[e]) : HandleAck(e, pkt)
      PROVE  \A f \in Ends : f # e => sock'[f] = sock[f]
  BY <1>1, SendersStep
<1>2. ASSUME NEW e \in Ends,
             \/ HandleData(e) \/ SendAck(e) \/ RecvStep(e)
             \/ \E pkt \in BagToSet(net[e]) : Fault(e, pkt)
      PROVE  \A f \in Ends : f # e => sock'[f] = sock[f]
  BY <1>2, ReceiversStep DEF Base
<1>3. CASE UNCHANGED vars
  BY <1>3, TCPAssumption DEF vars
<1>4. QED BY <1>1, <1>2, <1>3 DEF Next, ReceiverStep

LEMMA NextDelivers ==
  ASSUME Base, Delivered, Delivered', [Next]_vars
  PROVE  [Stream!Next]_(Stream!svars)
<1> DEFINE W == [e \in Ends |-> sock[e].next_seq_num]
           R == [e \in Ends |-> Received(e)]
<1>1. \A e \in Ends : /\ Received(e) = Bytes(0, sock[e].expected_seq_num)
                      /\ Received(e)' = Bytes(0, sock'[e].expected_seq_num)
  BY DEF Delivered
<1>2. PICK e \in Ends : \A f \in Ends : f # e => sock'[f] = sock[f]
  BY OneEnd
<1>3. PICK m \in Nat, n \in Nat, x \in Nat, y \in Nat :
        /\ m = sock[e].next_seq_num /\ n = sock'[e].next_seq_num /\ m <= n
        /\ x = sock[e].expected_seq_num /\ y = sock'[e].expected_seq_num /\ x <= y
  BY NextGrows, ExpectedGrows
<1>4. \A f \in Ends : f # e => W'[f] = W[f] /\ R'[f] = R[f]
  BY <1>1, <1>2
<1>5. W[e] = m /\ W'[e] = n /\ R[e] = Bytes(0, x) /\ R'[e] = Bytes(0, y)
  BY <1>1, <1>3
<1>6. W' = [W EXCEPT ![e] = n] /\ R' = [R EXCEPT ![e] = Bytes(0, y)]
  BY <1>4, <1>5
<1>7. Peer(e) \in Ends /\ Peer(e) # e
  BY Peers
<1>8. y <= W[Peer(e)]
  <2>1. y <= sock'[Peer(e)].next_seq_num
    BY <1>3 DEF Delivered
  <2>2. QED BY <1>2, <1>7, <2>1
<1>9. W[Peer(e)] \in Nat
  BY <1>7 DEF Delivered
<1>10. Len(R[e]) = x
  BY <1>3, <1>5, BytesAre
<1>11. Stream!Stream(y) = Bytes(0, y)
  BY DEF Stream!Stream, Bytes
<1>12. m = n \/ x = y
  <2>1. HandleData(e) => m = n
    BY <1>3, ReceiversStep DEF Base, SameSend
  <2>2. ~HandleData(e) => x = y
    BY <1>3, ExpectedGrows
  <2>3. QED BY <2>1, <2>2
<1> HIDE DEF W, R
<1>13. CASE m = n /\ x = y
  <2>1. W' = W /\ R' = R
    BY <1>5, <1>6, <1>13 DEF W, R
  <2>2. QED BY <2>1 DEF Stream!svars, W, R
<1>14. CASE m = n /\ x < y
  <2>1. W' = W
    BY <1>5, <1>6, <1>14 DEF W
  <2>2. y \in Len(R[e]) + 1 .. W[Peer(e)]
    BY <1>8, <1>9, <1>10, <1>14
  <2>3. R' = [R EXCEPT ![e] = Stream!Stream(y)]
    BY <1>6, <1>11
  <2>4. Stream!Peer(e) = Peer(e)
    BY DEF Stream!Peer, Peer
  <2>5. Stream!Receive(e)
    BY <2>1, <2>2, <2>3, <2>4 DEF Stream!Receive, W, R
  <2>6. QED BY <2>5 DEF Stream!Next
<1>15. CASE m < n /\ x = y
  <2>1. R' = R
    BY <1>5, <1>6, <1>15 DEF R
  <2>2. W'[e] > W[e] /\ W'[e] \in Nat /\ W' = [W EXCEPT ![e] = W'[e]]
    BY <1>5, <1>6, <1>15
  <2>3. Stream!Write(e)
    BY <2>1, <2>2 DEF Stream!Write, W, R
  <2>4. QED BY <2>3 DEF Stream!Next
<1>16. QED BY <1>3, <1>12, <1>13, <1>14, <1>15

LEMMA InitDelivers == Init /\ Delivered => Stream!Init
<1> SUFFICES ASSUME Init, Delivered PROVE Stream!Init
  OBVIOUS
<1>1. \A e \in Ends : sock[e].next_seq_num = 0 /\ sock[e].expected_seq_num = 0
  BY DEF Init
<1>2. \A e \in Ends : Received(e) = <<>>
  BY <1>1 DEF Delivered, Bytes
<1>3. QED BY <1>1, <1>2 DEF Stream!Init

\* Together the invariants are inductive, and a stream is delivered in order.
LEMMA OneLengthDelivers == ASSUME OneLength PROVE Spec => []Delivered
<1>1. PICK L \in [Ends -> 1..MaxPayload] : Suits(L)
  BY DEF OneLength
<1> DEFINE IInv == Base /\ PacketsFit(L) /\ ChunksFit /\ ReadsFit(L) /\ InOrder(L)
<1>2. Init => IInv
  BY InitBase, InitFits
<1>3. IInv /\ [Next]_vars => IInv'
  BY <1>1, NextBase, NextFit, NextChunks, NextReads, NextInOrder
<1>4. IInv => Delivered
  BY ReceivedIs DEF Delivered
<1>5. QED BY <1>2, <1>3, <1>4, PTL DEF Spec

(***************************************************************************)
(* What has come in order is the stream of the other end, byte for byte,   *)
(* whatever was lost, duplicated or overtaken on the way.                  *)
(***************************************************************************)
THEOREM TCPInOrder == OneLength /\ Spec => []ReceivedInOrder
<1> SUFFICES ASSUME OneLength PROVE Spec => []ReceivedInOrder
  OBVIOUS
<1>1. Spec => []Delivered
  BY OneLengthDelivers
<1>2. Delivered => ReceivedInOrder
  BY DEF Delivered, ReceivedInOrder
<1>3. QED BY <1>1, <1>2, PTL

(***************************************************************************)
(* An end that is told its bytes have arrived is told the truth.           *)
(***************************************************************************)
THEOREM TCPAcked == OneLength /\ Spec => []AckedIsReceived
<1> SUFFICES ASSUME OneLength PROVE Spec => []AckedIsReceived
  OBVIOUS
<1>1. Spec => []Delivered
  BY OneLengthDelivers
<1>2. Base /\ Acks /\ Delivered => AckedIsReceived
  <2> SUFFICES ASSUME Base, Acks, Delivered, NEW e \in Ends
               PROVE  /\ sock[e].send_base <= Len(Received(Peer(e)))
                      /\ \A pkt \in BagToSet(net[e]) : pkt.ack <= Len(Received(Peer(e)))
    BY DEF AckedIsReceived
  <2>1. PICK f \in Ends : f = Peer(e) /\ Peer(f) = e
    BY Peers
  <2>2. Len(Received(f)) = sock[f].expected_seq_num
    BY BytesAre DEF Delivered
  <2>3. QED BY <2>1, <2>2 DEF Acks
<1>3. QED BY <1>1, <1>2, InitBase, NextBase, InitAcks, NextAcks, PTL DEF Spec

(***************************************************************************)
(* The two sockets are a byte stream in each direction: a step of the      *)
(* protocol writes at one end, receives at the other, or shows nothing.    *)
(***************************************************************************)
THEOREM TCPImplementsStream == OneLength /\ Spec => Implements
<1> SUFFICES ASSUME OneLength PROVE Spec => Implements
  OBVIOUS
<1>1. Spec => []Delivered
  BY OneLengthDelivers
<1>2. Init /\ Delivered => Stream!Init
  BY InitDelivers
<1>3. Base /\ Delivered /\ Delivered' /\ [Next]_vars => [Stream!Next]_(Stream!svars)
  BY NextDelivers
<1>4. QED BY <1>1, <1>2, <1>3, InitBase, NextBase, PTL DEF Spec, Implements, Stream!Spec
=============================================================================
