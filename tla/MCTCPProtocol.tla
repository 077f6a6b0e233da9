---------------------------- MODULE MCTCPProtocol ----------------------------
(* Instances of TCPProtocol for TLC: what the ends a and b send and read. *)
EXTENDS TCPProtocol, TLC

CONSTANTS a, b

Send(fromA, fromB) == (a :> fromA) @@ (b :> fromB)
Bytewise == Send(1, 1)

TwoOneWay     == Send(<<1, 1>>, <<>>)
OneEach       == Send(<<1>>, <<1>>)
BigOneWay     == Send(<<2>>, <<>>)
LastIsShorter == Send(<<2, 1, 1>>, <<>>)
AllAtOnce     == Send(4, 4)
=============================================================================
