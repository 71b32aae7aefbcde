---------------------------- MODULE DatagramQueue ----------------------------
(***************************************************************************)
(* What a UdpSession promises of the datagrams it keeps for the            *)
(* application: they come out in the order they came in, each of them      *)
(* once, and what is kept stays within both limits of the configuration.   *)
(***************************************************************************)
EXTENDS Integers, Sequences, Functions

CONSTANTS
  Sizes,      \* sizes of datagrams
  BufferSize, \* config.UDPRecvBufferSize
  MaxCount    \* config.MaxUdpDatagramBuffered

VARIABLE queue   \* the sizes of the datagrams kept

Put(n) ==
  /\ Len(queue) < MaxCount
  /\ SumFunction(queue) + n < BufferSize
  /\ queue' = Append(queue, n)

Get ==
  /\ queue # <<>>
  /\ queue' = Tail(queue)

Spec == queue = <<>> /\ [][Get \/ \E n \in Sizes : Put(n)]_queue
=============================================================================
