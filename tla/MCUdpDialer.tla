---------------------------- MODULE MCUdpDialer -----------------------------
(* An instance of UdpDialer without a limit of attempts for TLC. *)
EXTENDS UdpDialer

NoLimit == -1
=============================================================================
