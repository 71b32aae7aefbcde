------------------------------ MODULE UdpDialer ------------------------------
(***************************************************************************)
(* A dialed UDP session (udp.go, udpsession.go): DialUDPWithConfig, the    *)
(* goroutine that watches the session's TCP connection and dials again,    *)
(* the goroutine recvMsg, Close by the application and by a DialUpSession  *)
(* that fails half way, and TunaSessionClient.Close.  Each DialUpSession   *)
(* that gets that far makes a UDP socket and a TCP connection, numbered    *)
(* together.                                                               *)
(***************************************************************************)
EXTENDS Integers

CONSTANTS
  Retries,  \* config.ReconnectRetries
  MaxDial   \* bound: pairs of a UDP socket and a TCP connection

ASSUME DialAssumption == Retries \in Int /\ MaxDial \in Nat

VARIABLES
  app,      \* program counter of DialUDPWithConfig
  isClosed, \* c.isClosed
  made,     \* pairs made so far
  udp,      \* pair -> its UDP socket
  tcp,      \* pair -> its TCP connection
  cur,      \* the pair in udpConn and tcpConn, 0 if they are nil
  peer,     \* the pair peer is the address of, 0 if it is nil
  dial,     \* program counter of DialUpSession, or the error it returns after
            \* closing the session
  mon,      \* program counter of the goroutine that watches and dials again
  mt,       \* the TCP connection it reads
  tries,    \* its variable j
  recv,     \* program counter of recvMsg
  rn,       \* the UDP socket it reads
  closing,  \* caller of Close -> its program counter
  ended     \* history: how the peer ended the session: its CLOSE was handled, or
            \* it answered a request for addresses with SessionClosed

sockVars == <<made, udp, tcp>>
monVars == <<mon, mt, tries>>
recvVars == <<recv, rn>>
vars == <<app, isClosed, sockVars, cur, peer, dial, monVars, recvVars,
          closing, ended>>

Pairs == 1 .. MaxDial

\* the application, and DialUpSession after an error
Closers == {"app", "dial"}

\* The variables hold what their Go counterparts can hold.
TypeOK ==
  /\ app \in {"idle", "dial", "up", "failed"}
  /\ isClosed \in BOOLEAN
  /\ made \in 0 .. MaxDial
  /\ udp \in [Pairs -> {"none", "open", "closed"}]
  /\ tcp \in [Pairs -> {"none", "open", "lost", "closed"}]
  /\ cur \in 0 .. made /\ peer \in {0, cur}
  /\ dial \in {"off", "check", "connect", "install", "meta", "codec", "ErrClosed",
               "err"}
  /\ mon \in {"off", "check", "read", "decide", "dial", "exit"}
  /\ mt \in 0 .. cur
  /\ tries \in Nat
  /\ recv \in {"off", "get", "read", "peer", "exit", "panic"}
  /\ rn \in 0 .. cur
  /\ closing \in [Closers -> {"idle", "send", "udp", "clear", "done"}]
  /\ ended \in {"no", "CLOSE", "SessionClosed"}

Init ==
  /\ app = "idle"
  /\ isClosed = FALSE
  /\ made = 0
  /\ udp = [n \in Pairs |-> "none"]
  /\ tcp = [n \in Pairs |-> "none"]
  /\ cur = 0 /\ peer = 0
  /\ dial = "off"
  /\ mon = "off" /\ mt = 0 /\ tries = 0
  /\ recv = "off" /\ rn = 0
  /\ closing = [p \in Closers |-> "idle"]
  /\ ended = "no"

CurOpen == cur # 0 /\ udp[cur] = "open"

\* GetEstablishedUDPConn returns no error
Established == ~isClosed /\ CurOpen

-----------------------------------------------------------------------------
(* DialUpSession, called by DialUDPWithConfig or by the watching goroutine *)

DialUDP ==
  /\ app = "idle"
  /\ app' = "dial"
  /\ dial' = "check"
  /\ UNCHANGED <<isClosed, sockVars, cur, peer, monVars, recvVars, closing, ended>>

\* bug: the count of attempts is compared with the wrong bound
StopsEarly == tries >= Retries - 1

\* after the loop: also reached by the break of an attempt that succeeded
Stops == tries >= Retries

\* the head of the loop lets attempt number j begin
Tries(j) == Retries < 0 \/ j < Retries

\* DialUDPWithConfig goes on with the result: "ok", "ErrClosed" or "err"
DialReturns(ok) ==
  /\ app' = IF ok THEN "up" ELSE "failed"
  /\ recv' = IF ok THEN "get" ELSE "off"
  /\ mon' = IF ok THEN "check" ELSE "off"
  /\ mt' = IF ok THEN cur ELSE 0
  /\ dial' = "off"
  /\ UNCHANGED tries

\* the goroutine goes on with it
RedialReturns(result) ==
  LET again == result = "err" /\ Tries(tries + 1)
      watch == result = "ok" /\ ~Stops
  IN /\ mon' = IF again THEN "dial" ELSE IF watch THEN "check" ELSE "exit"
     /\ mt' = IF watch THEN cur ELSE mt
     /\ dial' = IF again THEN "check" ELSE "off"
     /\ tries' = IF result = "err" THEN tries + 1 ELSE tries
     /\ UNCHANGED <<app, recv>>

Return(result) ==
  IF app = "dial" THEN DialReturns(result = "ok") ELSE RedialReturns(result)

DialCheck ==
  /\ dial = "check"
  /\ IF isClosed
     THEN Return("ErrClosed")
     ELSE dial' = "connect" /\ UNCHANGED <<app, monVars, recv>>
  /\ UNCHANGED <<isClosed, sockVars, cur, peer, rn, closing, ended>>

\* getPubAddrsFromRemote, dialUdpConn and dialTcpConn succeed: nothing that is
\* shared changes until the pair is installed
DialConnect ==
  /\ dial = "connect"
  /\ made < MaxDial
  /\ made' = made + 1
  /\ udp' = [udp EXCEPT ![made + 1] = "open"]
  /\ tcp' = [tcp EXCEPT ![made + 1] = "open"]
  /\ dial' = "install"
  /\ UNCHANGED <<app, isClosed, cur, peer, monVars, recvVars, closing, ended>>

\* one of them fails, a UDP socket that was made is closed and never seen;
\* getPubAddrsFromRemote returns ErrClosed if the peer answers SessionClosed
DialConnectErr(err) ==
  /\ dial = "connect"
  /\ Return(err)
  /\ ended' = IF err = "ErrClosed" THEN "SessionClosed" ELSE ended
  /\ UNCHANGED <<isClosed, sockVars, cur, peer, rn, closing>>

\* bug: the UDP connection is not replaced
DialInstallPeer ==
  /\ dial = "install"
  /\ peer' = made
  /\ dial' = "meta"
  /\ UNCHANGED <<app, isClosed, sockVars, cur, monVars, recvVars, closing, ended>>

\* the pair that was in use is neither closed nor kept
DialInstall ==
  /\ dial = "install"
  /\ cur' = made
  /\ peer' = made
  /\ dial' = "meta"
  /\ UNCHANGED <<app, isClosed, sockVars, monVars, recvVars, closing, ended>>

\* us.Close() before the error is returned
CloseAndFail(err) ==
  /\ dial' = err
  /\ closing' = [closing EXCEPT !["dial"] = "send"]

\* sendMetaData writes the datagram ...
DialMeta ==
  /\ dial = "meta"
  /\ IF Established
     THEN dial' = "codec" /\ UNCHANGED closing
     ELSE CloseAndFail("ErrClosed")
  /\ UNCHANGED <<app, isClosed, sockVars, cur, peer, monVars, recvVars, ended>>

\* ... or the write fails
DialMetaErr ==
  /\ dial = "meta"
  /\ Established
  /\ CloseAndFail("err")
  /\ UNCHANGED <<app, isClosed, sockVars, cur, peer, monVars, recvVars, ended>>

\* addCodec
DialCodec ==
  /\ dial = "codec"
  /\ IF Established
     THEN Return("ok") /\ UNCHANGED closing
     ELSE CloseAndFail("ErrClosed") /\ UNCHANGED <<app, monVars, recv>>
  /\ UNCHANGED <<isClosed, sockVars, cur, peer, rn, ended>>

DialClosed ==
  /\ dial \in {"ErrClosed", "err"}
  /\ closing["dial"] = "done"
  /\ closing' = [closing EXCEPT !["dial"] = "idle"]
  /\ Return(dial)
  /\ UNCHANGED <<isClosed, sockVars, cur, peer, rn, ended>>

-----------------------------------------------------------------------------
(* The goroutine that watches the TCP connection: handleTcpMsg *)

MonGoto(p) ==
  /\ mon' = p
  /\ UNCHANGED <<app, isClosed, made, dial, mt, tries, recvVars, closing>>

MonCheck ==
  /\ mon = "check"
  /\ MonGoto(IF Established THEN "read" ELSE "decide")
  /\ UNCHANGED <<udp, tcp, cur, peer, ended>>

\* a message other than CLOSE
MonOther ==
  /\ mon = "read"
  /\ tcp[mt] = "open"
  /\ MonGoto("check")
  /\ UNCHANGED <<udp, tcp, cur, peer, ended>>

\* bug: the UDP connection stays open
MonCloseTcp ==
  /\ mon = "read"
  /\ tcp[mt] \in {"open", "lost"}
  /\ peer' = 0
  /\ tcp' = [tcp EXCEPT ![cur] = "closed"]
  /\ ended' = "CLOSE"
  /\ MonGoto("decide")
  /\ UNCHANGED <<udp, cur>>

\* CLOSE, written before the connection broke if it did: handleConnClosed
MonClose ==
  /\ mon = "read"
  /\ tcp[mt] \in {"open", "lost"}
  /\ peer' = 0
  /\ udp' = [udp EXCEPT ![cur] = "closed"]
  /\ tcp' = [tcp EXCEPT ![cur] = "closed"]
  /\ ended' = "CLOSE"
  /\ MonGoto("decide")
  /\ UNCHANGED cur

MonErr ==
  /\ mon = "read"
  /\ tcp[mt] # "open"
  /\ MonGoto("decide")
  /\ UNCHANGED <<udp, tcp, cur, peer, ended>>

\* bug: a session that was closed is dialed again
GivesUpNever == isClosed \/ Retries = 0

GivesUp == isClosed \/ udp[cur] = "closed" \/ Retries = 0

\* Retries is not 0, so the loop runs at least once
MonDecide ==
  /\ mon = "decide"
  /\ IF GivesUp THEN mon' = "exit" /\ UNCHANGED dial
                ELSE mon' = "dial" /\ dial' = "check"
  /\ tries' = 0
  /\ UNCHANGED <<app, isClosed, sockVars, cur, peer, mt, recvVars, closing, ended>>

-----------------------------------------------------------------------------
(* The goroutine recvMsg *)

RecvGoto(p) ==
  /\ recv' = p
  /\ UNCHANGED <<app, isClosed, sockVars, cur, peer, dial, monVars, closing, ended>>

RecvGet ==
  /\ recv = "get"
  /\ RecvGoto(IF Established THEN "read" ELSE "exit")
  /\ rn' = IF Established THEN cur ELSE rn

\* user data that was encrypted
RecvData ==
  /\ recv = "read"
  /\ udp[rn] = "open"
  /\ RecvGoto("peer")
  /\ UNCHANGED rn

\* an error, or a datagram that the dialer ignores
RecvOther ==
  /\ recv = "read"
  /\ RecvGoto("get")
  /\ UNCHANGED rn

\* the sender is compared with us.peer, which is read without the lock and may
\* be nil by now; data that is accepted goes to UdpRecvBuffer
RecvPeer ==
  /\ recv = "peer"
  /\ RecvGoto(IF peer = 0 THEN "panic" ELSE "get")
  /\ UNCHANGED rn

-----------------------------------------------------------------------------
(* Close in three steps, each with a lock of its own *)

CloseStart ==
  /\ closing["app"] = "idle"
  /\ app = "up"
  /\ closing' = [closing EXCEPT !["app"] = "send"]
  /\ UNCHANGED <<app, isClosed, sockVars, cur, peer, dial, monVars, recvVars, ended>>

CloseGoto(p, q) ==
  /\ closing' = [closing EXCEPT ![p] = q]
  /\ UNCHANGED <<app, isClosed, made, cur, dial, monVars, recvVars, ended>>

\* sendCloseMsg writes CLOSE to the TCP connection
CloseSend(p) ==
  /\ closing[p] = "send"
  /\ CloseGoto(p, "udp")
  /\ UNCHANGED <<udp, tcp, peer>>

CloseUdp(p) ==
  /\ closing[p] = "udp"
  /\ udp' = IF Established THEN [udp EXCEPT ![cur] = "closed"] ELSE udp
  /\ CloseGoto(p, "clear")
  /\ UNCHANGED <<tcp, peer>>

\* bug: the TCP connection is left open
CloseClearPeer(p) ==
  /\ closing[p] = "clear"
  /\ peer' = 0
  /\ CloseGoto(p, "done")
  /\ UNCHANGED <<udp, tcp>>

CloseClear(p) ==
  /\ closing[p] = "clear"
  /\ peer' = 0
  /\ tcp' = [tcp EXCEPT ![cur] = "closed"]
  /\ CloseGoto(p, "done")
  /\ UNCHANGED udp

\* TunaSessionClient.Close does not know the sessions that were dialed
ClientClose ==
  /\ ~isClosed
  /\ isClosed' = TRUE
  /\ UNCHANGED <<app, sockVars, cur, peer, dial, monVars, recvVars, closing, ended>>

\* CloseTcp, a hook for tests
CloseTcp ==
  /\ app = "up"
  /\ tcp[cur] \in {"open", "lost"}
  /\ tcp' = [tcp EXCEPT ![cur] = "closed"]
  /\ UNCHANGED <<app, isClosed, made, udp, cur, peer, dial, monVars, recvVars,
                 closing, ended>>

\* external: the peer or a node between breaks the connection
Lose(n) ==
  /\ tcp[n] = "open"
  /\ tcp' = [tcp EXCEPT ![n] = "lost"]
  /\ UNCHANGED <<app, isClosed, made, udp, cur, peer, dial, monVars, recvVars,
                 closing, ended>>

-----------------------------------------------------------------------------
Dialing ==
  \/ DialCheck \/ DialConnect \/ \E err \in {"ErrClosed", "err"} : DialConnectErr(err)
  \/ DialInstall \/ DialMeta \/ DialMetaErr \/ DialCodec \/ DialClosed

Watching == MonCheck \/ MonErr \/ MonDecide

Receiving == RecvGet \/ RecvPeer \/ (RecvOther /\ udp[rn] = "closed")

Closing(p) == CloseSend(p) \/ CloseUdp(p) \/ CloseClear(p)

\* a panic ends the program; steps of other goroutines after it do not matter
Next ==
  \/ DialUDP \/ Dialing \/ Watching \/ MonOther \/ MonClose
  \/ RecvGet \/ RecvPeer \/ RecvData \/ RecvOther
  \/ CloseStart \/ ClientClose \/ CloseTcp
  \/ \E p \in Closers : Closing(p)
  \/ \E n \in Pairs : Lose(n)

Spec == Init /\ [][Next]_vars

\* goroutines are scheduled, calls that dial return and a read of a socket that
\* is closed or broken fails; nothing is assumed of the network and the peer
FairSpec ==
  /\ Spec
  /\ WF_vars(Dialing)
  /\ WF_vars(Watching)
  /\ WF_vars(Receiving)
  /\ \A p \in Closers : WF_vars(Closing(p))

-----------------------------------------------------------------------------
(* Properties *)

\* the client or the session is closed, or the peer says that it is
Over == isClosed \/ udp[cur] = "closed" \/ ended = "SessionClosed"

\* The goroutine that watches the connection has ended, and with a reason: the
\* session is over, reconnecting is switched off or the attempts are used up.
GaveUp ==
  mon = "exit" /\ (Over \/ Retries = 0 \/ (Retries > 0 /\ tries >= Retries))

\* no reconnect is under way
Settled == mon # "dial"

\* A session that is closed while no reconnect is under way stays closed: the
\* goroutine that watches it does not bring it back.
StaysClosed ==
  [][(app = "up" /\ Settled /\ udp[cur] = "closed") =>
       (Settled /\ udp[cur] = "closed")']_vars

\* While no reconnect is under way and the application has not called Close, an
\* established session has a peer: recvMsg dereferences us.peer after it has asked
\* no more than whether the session is established.
PeerIsSet ==
  app = "up" /\ Settled /\ closing["app"] = "idle" /\ Established => peer = cur

\* With a ReconnectRetries that is not negative, a session whose TCP connection
\* broke gets another one, or the goroutine that watches it has given up for one
\* of the reasons of GaveUp.
LostIsReplaced ==
  (Retries >= 0 /\ app = "up" /\ tcp[cur] = "lost") ~>
    ((cur # 0 /\ tcp[cur] = "open") \/ GaveUp \/ recv = "panic")

\* What config.go says of ReconnectRetries ("negative value: unlimited retries"):
\* the goroutine that watches the connection goes on until the session is over.
RedialsUnlimited == Retries < 0 /\ mon = "exit" => Over

\* When a session is closed while no reconnect is under way, its two goroutines
\* end, if recvMsg had come to read the connection in use.
GoroutinesEnd ==
  (app = "up" /\ Settled /\ udp[cur] = "closed" /\ rn \in {0, cur}) ~>
    ((mon = "exit" /\ recv = "exit") \/ recv = "panic")
=============================================================================
