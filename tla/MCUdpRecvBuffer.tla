--------------------------- MODULE MCUdpRecvBuffer ---------------------------
EXTENDS UdpRecvBuffer

CONSTANTS r1, r2
=============================================================================
