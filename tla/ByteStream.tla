----------------------------- MODULE ByteStream ------------------------------
(***************************************************************************)
(* What networks/TCP/HOWTO.md asks of a connection: whatever one end sent  *)
(* reaches the other end in the same form and order.  Each end writes the  *)
(* bytes of its stream, numbered from 0; the other end gets them in turn,  *)
(* any number at a time.                                                   *)
(***************************************************************************)
EXTENDS Naturals, Sequences

CONSTANT Ends

VARIABLES written,   \* written[e]: how many bytes e has sent
          received   \* received[e]: the bytes of the other end's stream that e got

svars == <<written, received>>

Peer(e) == CHOOSE f \in Ends : f # e
Stream(n) == [i \in 1..n |-> i - 1]

Init == written = [e \in Ends |-> 0] /\ received = [e \in Ends |-> <<>>]

Write(e) ==
  /\ written'[e] > written[e] /\ written'[e] \in Nat
  /\ written' = [written EXCEPT ![e] = written'[e]]
  /\ UNCHANGED received

Receive(e) ==
  /\ \E n \in Len(received[e]) + 1 .. written[Peer(e)] :
       received' = [received EXCEPT ![e] = Stream(n)]
  /\ UNCHANGED written

Next == \E e \in Ends : Write(e) \/ Receive(e)

Spec == Init /\ [][Next]_svars
=============================================================================
