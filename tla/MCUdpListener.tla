---------------------------- MODULE MCUdpListener ----------------------------
EXTENDS UdpListener, TLC

CONSTANTS d1, d2, k1

\* one session, dialed again after its connection broke
Redialed == d1 :> k1 @@ d2 :> k1
=============================================================================
