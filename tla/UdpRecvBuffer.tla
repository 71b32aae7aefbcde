---------------------------- MODULE UdpRecvBuffer ----------------------------
(***************************************************************************)
(* The receive buffer of a UdpSession: recvMsg puts the user data it       *)
(* accepts into recvChan and counts bytes in recvSize; callers of ReadFrom *)
(* take a datagram and subtract its size in a step of their own, or give   *)
(* up when the read deadline passes.  Datagrams are their sizes.           *)
(***************************************************************************)
EXTENDS Integers, Sequences, FiniteSets, Functions

CONSTANTS
  Readers,     \* goroutines that call ReadFrom
  Sizes,       \* n - 1: sizes of datagrams without their header byte
  BufferSize,  \* config.UDPRecvBufferSize
  MaxCount,    \* config.MaxUdpDatagramBuffered
  MaxDeadline  \* bound: calls of SetReadDeadline

ASSUME BufferAssumption ==
  /\ BufferSize \in Nat \ {0}
  /\ MaxCount \in Nat
  /\ MaxDeadline \in Nat
  /\ Sizes \subseteq Nat
  /\ IsFiniteSet(Readers)

VARIABLES
  recvChan,  \* the sizes in the channel
  recvSize,  \* us.recvSize
  closed,    \* the session is closed
  ctx,       \* us.readContext, numbered
  timed,     \* the contexts that have a deadline
  done,      \* the contexts whose deadline has passed
  pc,        \* reader -> where it is in ReadFrom, or what the call returned
  rctx,      \* reader -> the context it waits for
  taken      \* reader -> size of the datagram it took, not yet subtracted

ctxVars == <<ctx, timed, done>>
readVars == <<pc, rctx, taken>>
bufferVars == <<recvChan, recvSize, closed, ctxVars, readVars>>

Results == {"none", "data", "ErrClosed", "ErrDeadline", "nil"}

\* The variables hold what their Go counterparts can hold.
BufferTypeOK ==
  /\ recvChan \in Seq(Sizes)
  /\ recvSize \in 0 .. BufferSize - 1
  /\ closed \in BOOLEAN
  /\ ctx \in 0 .. MaxDeadline
  /\ timed \subseteq 0 .. ctx /\ done \subseteq timed
  /\ pc \in [Readers -> Results \cup {"wait", "took", "expired"}]
  /\ rctx \in [Readers -> 0 .. ctx]
  /\ taken \in [Readers -> Sizes \cup {0}]

\* newUdpSession sets no deadline
BufferInit ==
  /\ recvChan = <<>> /\ recvSize = 0
  /\ closed = FALSE
  /\ ctx = 0 /\ timed = {} /\ done = {}
  /\ pc = [r \in Readers |-> "none"]
  /\ rctx = [r \in Readers |-> 0]
  /\ taken = [r \in Readers |-> 0]

\* bug: off by one
FitsInclusive(n) == recvSize + n <= BufferSize

Fits(n) == recvSize + n < BufferSize

\* bug: the channel is made one larger
HasRoomInclusive == Len(recvChan) <= MaxCount

HasRoom == Len(recvChan) < MaxCount

\* recvMsg under the lock; a datagram that does not fit is dropped, and so is one
\* for which the channel has no room.  The deadline also holds for the socket.
Receive(n) ==
  /\ ~closed
  /\ ctx \notin done
  /\ IF Fits(n) /\ HasRoom
     THEN recvChan' = Append(recvChan, n) /\ recvSize' = recvSize + n
     ELSE UNCHANGED <<recvChan, recvSize>>
  /\ UNCHANGED <<closed, ctxVars, readVars>>

-----------------------------------------------------------------------------
(* ReadFrom *)

Read(r) ==
  /\ pc[r] \in Results
  /\ pc' = [pc EXCEPT ![r] = IF closed THEN "ErrClosed" ELSE "wait"]
  /\ rctx' = [rctx EXCEPT ![r] = ctx]
  /\ UNCHANGED <<recvChan, recvSize, closed, ctxVars, taken>>

ReadTake(r) ==
  /\ pc[r] = "wait"
  /\ recvChan # <<>>
  /\ taken' = [taken EXCEPT ![r] = Head(recvChan)]
  /\ recvChan' = Tail(recvChan)
  /\ pc' = [pc EXCEPT ![r] = "took"]
  /\ UNCHANGED <<recvSize, closed, ctxVars, rctx>>

\* bug: the size of what the caller's buffer could hold is subtracted
SubtractCopied(r) == recvSize' = recvSize - (taken[r] \div 2)

Subtract(r) == recvSize' = recvSize - taken[r]

ReadReturn(r) ==
  /\ pc[r] = "took"
  /\ Subtract(r)
  /\ taken' = [taken EXCEPT ![r] = 0]
  /\ pc' = [pc EXCEPT ![r] = "data"]
  /\ UNCHANGED <<recvChan, closed, ctxVars, rctx>>

\* bug: the context the session has now is looked at
ReadExpireNow(r) ==
  /\ pc[r] = "wait"
  /\ ctx \in done
  /\ pc' = [pc EXCEPT ![r] = "expired"]
  /\ UNCHANGED <<recvChan, recvSize, closed, ctxVars, rctx, taken>>

\* the context the select evaluated is done
ReadExpire(r) ==
  /\ pc[r] = "wait"
  /\ rctx[r] \in done
  /\ pc' = [pc EXCEPT ![r] = "expired"]
  /\ UNCHANGED <<recvChan, recvSize, closed, ctxVars, rctx, taken>>

\* the error is that of the context the session has now
ReadErr(r) ==
  /\ pc[r] = "expired"
  /\ pc' = [pc EXCEPT ![r] = IF ctx \in done THEN "ErrDeadline" ELSE "nil"]
  /\ UNCHANGED <<recvChan, recvSize, closed, ctxVars, rctx, taken>>

-----------------------------------------------------------------------------
\* a new context, with a deadline or without; the old one is not cancelled
SetReadDeadline(hasDeadline) ==
  /\ ctx < MaxDeadline
  /\ ctx' = ctx + 1
  /\ timed' = IF hasDeadline THEN timed \cup {ctx + 1} ELSE timed
  /\ UNCHANGED <<recvChan, recvSize, closed, done, readVars>>

\* external: time passes
Expire(c) ==
  /\ c \in timed \ done
  /\ done' = done \cup {c}
  /\ UNCHANGED <<recvChan, recvSize, closed, ctx, timed, readVars>>

\* Close, the peer's CLOSE or TunaSessionClient.Close: the buffer stays
Close ==
  /\ ~closed
  /\ closed' = TRUE
  /\ UNCHANGED <<recvChan, recvSize, ctxVars, readVars>>

ReadStep(r) == ReadTake(r) \/ ReadReturn(r) \/ ReadExpire(r) \/ ReadErr(r)

BufferNext ==
  \/ \E n \in Sizes : Receive(n)
  \/ \E r \in Readers : Read(r) \/ ReadStep(r)
  \/ \E b \in BOOLEAN : SetReadDeadline(b)
  \/ \E c \in 0 .. MaxDeadline : Expire(c)
  \/ Close

BufferSpec == BufferInit /\ [][BufferNext]_bufferVars

\* a caller that can go on does, and deadlines pass
BufferFairSpec ==
  /\ BufferSpec
  /\ \A r \in Readers : WF_bufferVars(ReadStep(r))
  /\ \A c \in 0 .. MaxDeadline : WF_bufferVars(Expire(c))

-----------------------------------------------------------------------------
(* Properties *)

Queue == INSTANCE DatagramQueue WITH queue <- recvChan

\* The buffer keeps what DatagramQueue promises: the limits and the order.
QueueSpec == Queue!Spec

\* recvSize counts the bytes in the channel and those of datagrams that a caller
\* of ReadFrom has taken and not subtracted yet: it never drifts, so a buffer
\* that was emptied takes as much as it did at first.
SizeExact ==
  recvSize = SumFunction(recvChan) + SumFunction(taken)

\* A call of ReadFrom that waits under a deadline returns, whatever deadlines are
\* set while it waits and although Close does not wake it: the select has read
\* the context of its own deadline.
DeadlineEndsReads ==
  \A r \in Readers : (pc[r] = "wait" /\ rctx[r] \in timed) ~> (pc[r] # "wait")
=============================================================================
