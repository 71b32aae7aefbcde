------------------------------- MODULE Framing -------------------------------
(***************************************************************************)
(* One direction of a TCP connection of a session: writeMessage, called by *)
(* dialTcpConn for the address and the metadata and by the goroutines of   *)
(* the ncp session for data, and readMessage, called by the goroutine of   *)
(* listenNet in the same order of phases.  A frame is a little-endian size *)
(* and an encrypted body.  A Write may fail after any part of its buffer.  *)
(* Bytes are abstract: digits of a size, and the places of a body, of      *)
(* which only the whole of one body decrypts.                              *)
(***************************************************************************)
EXTENDS Integers, Sequences

CONSTANTS
  Writers,  \* goroutines of the session that send
  Msgs,     \* data messages
  Dialer,   \* the goroutine in dialTcpConn
  Addr,     \* its first message, the address
  Meta,     \* its second message, the session metadata
  Size,     \* message -> length of its encoded form
  Limit,    \* phase -> the maxMsgSize of readMessage
  Accept,   \* what shouldAcceptAddr says of the address
  Base,     \* values of a byte
  HdrLen,   \* bytes of a size
  None

\* what a byte with i before it counts for
Weight[i \in 0 .. HdrLen] == IF i = 0 THEN 1 ELSE Base * Weight[i - 1]

ASSUME FramingAssumption ==
  /\ {Addr, Meta} \cap Msgs = {} /\ Dialer \notin Writers
  /\ None \notin Writers \cup {Dialer}
  /\ \A p \in {"addr", "meta", "data"} : Limit[p] \in Nat
  /\ Accept \in BOOLEAN /\ Base \in Nat \ {0} /\ HdrLen \in Nat \ {0}
  /\ \A m \in Msgs \cup {Addr, Meta} : Size[m] \in 1 .. Weight[HdrLen] - 1

VARIABLES
  conn,       \* "open", "closed" by the writing side, or "broken"
  stream,     \* bytes on their way
  lock,       \* conn.WriteLock: the writer that holds it
  pc,         \* writer -> program counter
  msg,        \* writer -> the message it writes
  hs,         \* where dialTcpConn is: "addr", "meta", "data" once registered, "err"
  sent,       \* messages that the session has handed to a writer
  phase,      \* the reader's phase: "addr", "meta", "data" or "stop"
  size,       \* the size it has read, -1 if it is to read one
  sess,       \* "open" or "closed": the session that receives
  written,    \* data messages whose write returned nil, in order
  delivered,  \* data messages given to sess.ReceiveWith
  failed      \* history: a Write has failed

writeVars == <<lock, pc, msg, hs, sent, written, failed>>
readVars == <<phase, size, sess, delivered>>
vars == <<conn, stream, writeVars, readVars>>

All == Msgs \cup {Addr, Meta}
Digits == [digit : 0 .. Base - 1]
Places == UNION {[of : {m}, at : 1 .. Size[m]] : m \in All}

\* The variables hold what their Go counterparts can hold; a byte on its way is a
\* digit or a place of a body.
TypeOK ==
  /\ conn \in {"open", "closed", "broken"}
  /\ stream \in Seq(Digits \cup Places)
  /\ lock \in Writers \cup {Dialer, None}
  /\ pc \in [Writers \cup {Dialer} -> {"idle", "hdr", "body", "err"}]
  /\ msg \in [Writers \cup {Dialer} -> All \cup {None}]
  /\ hs \in {"addr", "meta", "data", "err"}
  /\ sent \subseteq Msgs
  /\ phase \in {"addr", "meta", "data", "stop"}
  /\ size \in -1 .. Weight[HdrLen] - 1
  /\ sess \in {"open", "closed"}
  /\ written \in Seq(Msgs) /\ delivered \in Seq(Msgs)
  /\ failed \in BOOLEAN

Init ==
  /\ conn = "open" /\ stream = <<>> /\ lock = None
  /\ pc = [w \in Writers \cup {Dialer} |-> "idle"]
  /\ msg = [w \in Writers \cup {Dialer} |-> None]
  /\ hs = "addr" /\ sent = {} /\ phase = "addr" /\ size = -1 /\ sess = "open"
  /\ written = <<>> /\ delivered = <<>> /\ failed = FALSE

-----------------------------------------------------------------------------
(* Writing *)

\* bug: a byte is not cut to its low bits
DigitWide(n, i) == n \div Weight[i - 1]

Digit(n, i) == (n \div Weight[i - 1]) % Base

\* binary.LittleEndian.PutUint32
Header(m) == [i \in 1 .. HdrLen |-> [digit |-> Digit(Size[m], i)]]

\* encode: nonce and sealed box
Body(m) == [i \in 1 .. Size[m] |-> [of |-> m, at |-> i]]

\* bug: WriteLock is not taken
NoLock == TRUE

LockFree == lock = None

Lock(w, m) ==
  /\ pc[w] = "idle"
  /\ LockFree
  /\ lock' = w
  /\ msg' = [msg EXCEPT ![w] = m]
  /\ pc' = [pc EXCEPT ![w] = "hdr"]
  /\ UNCHANGED <<conn, stream, hs, written, failed, readVars>>

\* dialTcpConn writes the address, then the metadata
Dial ==
  /\ Lock(Dialer, IF hs = "addr" THEN Addr ELSE Meta)
  /\ hs \in {"addr", "meta"}
  /\ UNCHANGED sent

\* the sendWith function of newSession; the session has the connection once it
\* is registered
Send(w, m) ==
  /\ hs = "data"
  /\ m \notin sent
  /\ Lock(w, m)
  /\ sent' = sent \cup {m}

WriteHeader(w) ==
  /\ pc[w] = "hdr"
  /\ conn = "open"
  /\ stream' = stream \o Header(msg[w])
  /\ pc' = [pc EXCEPT ![w] = "body"]
  /\ UNCHANGED <<conn, lock, msg, hs, sent, written, failed, readVars>>

WriteBody(w) ==
  /\ pc[w] = "body"
  /\ conn = "open"
  /\ stream' = stream \o Body(msg[w])
  /\ pc' = [pc EXCEPT ![w] = "idle"]
  /\ lock' = None
  /\ \/ w = Dialer /\ hs' = (IF hs = "addr" THEN "meta" ELSE "data") /\ UNCHANGED written
     \/ w # Dialer /\ written' = Append(written, msg[w]) /\ UNCHANGED hs
  /\ UNCHANGED <<conn, msg, sent, failed, readVars>>

\* Write returns an error after k bytes; the lock is released before the caller
\* closes the connection
WriteErr(w, k) ==
  /\ pc[w] \in {"hdr", "body"}
  /\ LET buf == IF pc[w] = "hdr" THEN Header(msg[w]) ELSE Body(msg[w]) IN
       /\ k < Len(buf)
       /\ conn # "open" => k = 0
       /\ stream' = stream \o SubSeq(buf, 1, k)
  /\ pc' = [pc EXCEPT ![w] = "err"]
  /\ lock' = None
  /\ failed' = TRUE
  /\ UNCHANGED <<conn, msg, hs, sent, written, readVars>>

CloseConn(w) ==
  /\ pc[w] = "err"
  /\ conn' = IF conn = "open" THEN "closed" ELSE conn
  /\ pc' = [pc EXCEPT ![w] = "idle"]
  /\ hs' = IF w = Dialer THEN "err" ELSE hs
  /\ UNCHANGED <<stream, lock, msg, sent, written, failed, readVars>>

\* external: the network drops the connection and what is on its way after k
Break(k) ==
  /\ conn = "open"
  /\ k <= Len(stream)
  /\ conn' = "broken"
  /\ stream' = SubSeq(stream, 1, k)
  /\ UNCHANGED <<writeVars, readVars>>

-----------------------------------------------------------------------------
(* Reading *)

\* binary.LittleEndian.Uint32: what the last k bytes count for, up to all
Uint(bytes) ==
  LET last[k \in 0 .. HdrLen] ==
        IF k = 0 THEN 0 ELSE bytes[HdrLen - k + 1].digit + Base * last[k - 1]
  IN  last[HdrLen]

\* the size that is read; bytes of a body can have any value
Values(bytes) ==
  IF \A i \in DOMAIN bytes : bytes[i] \in Digits
  THEN {Uint(bytes)}
  ELSE 0 .. Weight[HdrLen] - 1

\* the goroutine returns, and its deferred conn.Close runs
Stop ==
  /\ phase' = "stop"
  /\ conn' = "broken"
  /\ stream' = <<>>
  /\ size' = -1
  /\ UNCHANGED delivered

Fits(n) == n <= Limit[phase]

\* bug: a read ends only when a byte is left over
ReadFullStrict(n) == Len(stream) > n

\* io.ReadFull can return n bytes
ReadFull(n) == Len(stream) >= n

ReadHeader ==
  /\ phase # "stop"
  /\ size = -1
  /\ ReadFull(HdrLen)
  /\ \E n \in Values(SubSeq(stream, 1, HdrLen)) :
       \/ /\ Fits(n)
          /\ size' = n
          /\ stream' = SubSeq(stream, HdrLen + 1, Len(stream))
          /\ UNCHANGED <<conn, phase, delivered>>
       \/ ~Fits(n) /\ Stop
  /\ UNCHANGED <<sess, writeVars>>

\* bug: a message that does not decode is skipped
RejectSkips == UNCHANGED <<conn, phase, delivered>>

Reject ==
  /\ phase' = "stop"
  /\ conn' = "broken"
  /\ UNCHANGED delivered

\* what the phase does with the body it has read; decode only opens the whole of
\* a body
Handle(body) ==
  \/ /\ phase = "addr"
     /\ body = Body(Addr) /\ Accept
     /\ phase' = "meta"
     /\ UNCHANGED <<conn, delivered>>
  \/ /\ phase = "meta"
     /\ body = Body(Meta)
     /\ phase' = "data"
     /\ UNCHANGED <<conn, delivered>>
  \/ /\ phase = "data"
     /\ sess = "open"
     /\ \E m \in Msgs : body = Body(m) /\ delivered' = Append(delivered, m)
     /\ UNCHANGED <<conn, phase>>
  \/ /\ \/ phase = "addr" /\ ~(body = Body(Addr) /\ Accept)
        \/ phase = "meta" /\ body # Body(Meta)
        \/ phase = "data" /\ (sess = "closed" \/ \A m \in Msgs : body # Body(m))
     /\ Reject

ReadBody ==
  /\ size >= 0
  /\ ReadFull(size)
  /\ Handle(SubSeq(stream, 1, size))
  /\ stream' = SubSeq(stream, size + 1, Len(stream))
  /\ size' = -1
  /\ UNCHANGED <<sess, writeVars>>

\* io.ReadFull meets the end of the stream
ReadEnd ==
  /\ phase # "stop"
  /\ conn # "open"
  /\ ~ReadFull(IF size = -1 THEN HdrLen ELSE size)
  /\ Stop
  /\ UNCHANGED <<sess, writeVars>>

\* external: the session is closed, and ReceiveWith will return an error
SessClose ==
  /\ sess = "open"
  /\ sess' = "closed"
  /\ UNCHANGED <<conn, stream, writeVars, phase, size, delivered>>

Writing(w) ==
  WriteHeader(w) \/ WriteBody(w) \/ CloseConn(w) \/ (conn # "open" /\ WriteErr(w, 0))

Reading == ReadHeader \/ ReadBody \/ ReadEnd

Next ==
  \/ Dial \/ Reading \/ SessClose
  \/ \E w \in Writers, m \in Msgs : Send(w, m)
  \/ \E w \in Writers \cup {Dialer} :
       \/ WriteHeader(w) \/ WriteBody(w) \/ CloseConn(w)
       \/ \E k \in 0 .. Weight[HdrLen] : WriteErr(w, k)
  \/ \E k \in 0 .. Len(stream) : Break(k)

Spec == Init /\ [][Next]_vars

\* the goroutines that write and the one that reads are scheduled
FairSpec ==
  /\ Spec
  /\ WF_vars(Reading)
  /\ \A w \in Writers \cup {Dialer} : WF_vars(Writing(w))

-----------------------------------------------------------------------------
(* Properties *)

Pipe == INSTANCE MessagePipe WITH Msgs <- Msgs, written <- written, delivered <- delivered

\* The connection is a MessagePipe: whatever part of a frame a failed Write left
\* on the stream, and whoever wrote after it before the connection was closed,
\* the session receives the written messages in order, none skipped or altered.
PipeSpec == Pipe!Spec

\* A message of this size is rejected by readMessage in its phase
Oversize ==
  \/ Size[Addr] > Limit["addr"]
  \/ Size[Meta] > Limit["meta"]
  \/ \E m \in sent : Size[m] > Limit["data"]

Excused == ~Accept \/ Oversize \/ failed \/ conn # "open" \/ sess = "closed"

\* The reader gives up a connection only for a reason: the address or a size is
\* not accepted, a Write has failed, the connection or the session has ended.
\* Concurrent writers never make it misread a stream.
StopsForReason == [][phase # "stop" /\ phase' = "stop" => Excused]_vars

\* Every message written arrives, unless the connection has a reason to end.
WrittenArrives ==
  \A m \in Msgs :
    (\E i \in DOMAIN written : written[i] = m) ~>
      (Excused \/ \E i \in DOMAIN delivered : delivered[i] = m)
=============================================================================
