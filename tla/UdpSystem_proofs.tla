-------------------------- MODULE UdpSystem_proofs --------------------------
(***************************************************************************)
(* The dialed UDP session, for every number of attempts and every bound on *)
(* the pairs it makes: where its goroutines can be with respect to each    *)
(* other, what that says of the peer that recvMsg uses without asking for  *)
(* it, and that a closed session stays closed.  Then the                   *)
(* session together with its listener: the composition is made of steps of *)
(* its two parts, so what is proved of each holds in it, and neither end   *)
(* comes to know of the other what that one did not send.                  *)
(***************************************************************************)
EXTENDS UdpSystem, TLAPS

\* The three program counters agree: one goroutine at a time is in
\* DialUpSession, and which one depends on how far DialUDPWithConfig has come.
Phases ==
  /\ app = "idle" => dial = "off" /\ closing["dial"] = "idle"
  /\ app = "dial" => dial # "off"
  /\ app = "failed" => dial = "off"
  /\ app = "up" => /\ dial = "off" <=> Settled
                   /\ cur # 0
  /\ app # "up" => mon = "off" /\ recv = "off" /\ closing["app"] = "idle"

\* A pair that was made is the one installed until DialUpSession returns, and
\* DialUpSession waits for the Close it has called.
DialSteps ==
  /\ dial = "install" => made # 0
  /\ dial \in {"meta", "codec", "ErrClosed", "err"} => cur # 0
  /\ closing["dial"] # "idle" <=> dial \in {"ErrClosed", "err"}

\* The address is there whenever the session is established, and is only
\* missing inside a DialUpSession that is closing the session.
PeerKept ==
  /\ (app = "up" \/ dial \in {"meta", "codec"}) /\ dial \notin {"ErrClosed", "err"}
     /\ closing["app"] = "idle" /\ Established => peer = cur
  /\ closing["dial"] \in {"clear", "done"} => ~Established

DialerInv == TypeOK /\ Phases /\ DialSteps /\ PeerKept

-----------------------------------------------------------------------------
(* What a step does to the invariant *)

\* Before DialUDPWithConfig is called nothing is dialed and no goroutine runs.
LEMMA InitDialer == Init => DialerInv
<1> SUFFICES ASSUME Init
             PROVE  DialerInv
  OBVIOUS
<1>0. 0 \in 0 .. MaxDial /\ 0 \in 0 .. 0 /\ 0 \in Nat
  BY DialAssumption
<1>1. TypeOK
  BY <1>0, Zenon DEF Init, TypeOK
<1>2. Phases /\ DialSteps /\ PeerKept
  BY DEF Init, Phases, DialSteps, PeerKept, Closers, Settled, Established, CurOpen
<1> QED BY <1>1, <1>2 DEF DialerInv

\* the state that follows DialUpSession
Returned(result) ==
  /\ app' \in {"up", "failed"}
  /\ dial' \in {"off", "check"}
  /\ mon' \in {"off", "check", "dial", "exit"}
  /\ recv' \in {"off", "get", recv}
  /\ mt' \in {0, cur, mt}
  /\ tries' \in Nat
  /\ app' = "up" => cur # 0 /\ (dial' = "off" <=> mon' # "dial")
  /\ app' = "up" => app = "up" \/ result = "ok"
  /\ app' # "up" => app # "up" /\ dial' = "off" /\ mon' = "off" /\ recv' = "off"

\* What DialUpSession returns ends the call of DialUDPWithConfig, or sends the
\* goroutine on: to another attempt, to the connection or to its end.
LEMMA ReturnPhases ==
  ASSUME DialerInv, NEW result \in {"ok", "ErrClosed", "err"}, Return(result),
         dial # "off", result = "ok" => cur # 0
  PROVE  Returned(result)
<1>1. app \in {"dial", "up"}
  BY Zenon DEF DialerInv, Phases, TypeOK
<1>2. CASE app = "dial"
  BY <1>2 DEF Return, DialReturns, Returned, DialerInv, TypeOK
<1>3. CASE app = "up"
  <2>1. RedialReturns(result)
    BY <1>3 DEF Return
  <2>2. tries' \in Nat
    BY <2>1 DEF RedialReturns, DialerInv, TypeOK
  <2>3. cur # 0
    BY <1>3 DEF DialerInv, Phases
  <2> QED BY <1>3, <2>1, <2>2, <2>3 DEF RedialReturns, Returned
<1> QED BY <1>1, <1>2, <1>3

\* DialUpSession keeps the invariant, and so does the step that calls it.
LEMMA DialingKeeps ==
  ASSUME DialerInv, DialUDP \/ Dialing
  PROVE  DialerInv'
<1> USE DEF DialerInv
<1>1. CASE DialUDP
  <2>1. TypeOK'
    BY <1>1, Zenon DEF DialUDP, TypeOK, sockVars, monVars, recvVars
  <2>2. Phases' /\ DialSteps' /\ PeerKept'
    BY <1>1 DEF DialUDP, TypeOK, Phases, DialSteps, PeerKept, Settled, Established,
       CurOpen, sockVars, monVars, recvVars
  <2> QED BY <2>1, <2>2
<1>2. CASE DialCheck
  <2>1. CASE isClosed
    <3>1. Return("ErrClosed")
      BY <1>2, <2>1 DEF DialCheck
    <3>2. Returned("ErrClosed")
      BY <1>2, <3>1, ReturnPhases DEF DialCheck
    <3>3. TypeOK'
      BY <1>2, <3>2 DEF Returned, DialCheck, TypeOK, sockVars
    <3>4. Phases' /\ DialSteps' /\ PeerKept'
      BY <1>2, <2>1, <3>2 DEF Returned, DialCheck, TypeOK, Phases, DialSteps, PeerKept,
         Settled, Established, CurOpen, sockVars
    <3> QED BY <3>3, <3>4
  <2>2. CASE ~isClosed
    <3>1. TypeOK'
      BY <1>2, <2>2, Zenon DEF DialCheck, TypeOK, sockVars, monVars
    <3>2. Phases' /\ DialSteps' /\ PeerKept'
      BY <1>2, <2>2 DEF DialCheck, TypeOK, Phases, DialSteps, PeerKept, Settled,
         Established, CurOpen, sockVars, monVars
    <3> QED BY <3>1, <3>2
  <2> QED BY <2>1, <2>2
<1>3. CASE DialConnect
  <2>1. TypeOK'
    BY <1>3, DialAssumption DEF DialConnect, TypeOK, Pairs, monVars, recvVars
  <2>2. Phases' /\ DialSteps' /\ PeerKept'
    BY <1>3 DEF DialConnect, TypeOK, Phases, DialSteps, PeerKept, Settled,
       Established, CurOpen, Pairs, monVars, recvVars
  <2> QED BY <2>1, <2>2
<1>4. ASSUME NEW err \in {"ErrClosed", "err"}, DialConnectErr(err)
      PROVE  DialerInv'
  <2>1. Return(err)
    BY <1>4 DEF DialConnectErr
  <2>2. Returned(err)
    BY <1>4, <2>1, ReturnPhases DEF DialConnectErr
  <2>3. TypeOK'
    BY <1>4, <2>2 DEF Returned, DialConnectErr, TypeOK, sockVars
  <2>4. Phases' /\ DialSteps' /\ PeerKept'
    BY <1>4, <2>2 DEF Returned, DialConnectErr, TypeOK, Phases, DialSteps, PeerKept, Settled,
       Established, CurOpen, sockVars
  <2> QED BY <2>3, <2>4
<1>5. CASE DialInstall
  <2>1. TypeOK'
    BY <1>5 DEF DialInstall, TypeOK, sockVars, monVars, recvVars
  <2>2. Phases' /\ DialSteps' /\ PeerKept'
    BY <1>5 DEF DialInstall, TypeOK, Phases, DialSteps, PeerKept, Settled,
       sockVars, monVars, recvVars
  <2> QED BY <2>1, <2>2
<1>6. CASE DialMeta \/ DialMetaErr
  <2>1. TypeOK'
    BY <1>6 DEF DialMeta, DialMetaErr, CloseAndFail, TypeOK, Closers, sockVars,
       monVars, recvVars
  <2>2. Phases' /\ DialSteps' /\ PeerKept'
    BY <1>6 DEF DialMeta, DialMetaErr, CloseAndFail, TypeOK, Closers, Phases,
       DialSteps, PeerKept, Settled, Established, CurOpen, sockVars, monVars, recvVars
  <2> QED BY <2>1, <2>2
<1>7. CASE DialCodec
  <2>1. CASE Established
    <3>1. Return("ok") /\ cur # 0
      BY <1>7, <2>1 DEF DialCodec, Established, CurOpen
    <3>2. Returned("ok")
      BY <1>7, <3>1, ReturnPhases DEF DialCodec
    <3>3. TypeOK'
      BY <1>7, <2>1, <3>2 DEF Returned, DialCodec, TypeOK, sockVars
    <3>4. Phases' /\ DialSteps' /\ PeerKept'
      BY <1>7, <2>1, <3>2 DEF Returned, DialCodec, TypeOK, Phases, DialSteps, PeerKept,
         Settled, Established, CurOpen, sockVars
    <3> QED BY <3>3, <3>4
  <2>2. CASE ~Established
    <3>1. TypeOK'
      BY <1>7, <2>2 DEF DialCodec, CloseAndFail, TypeOK, Closers, sockVars, monVars
    <3>2. Phases' /\ DialSteps' /\ PeerKept'
      BY <1>7, <2>2 DEF DialCodec, CloseAndFail, TypeOK, Closers, Phases,
         DialSteps, PeerKept, Settled, Established, CurOpen, sockVars, monVars
    <3> QED BY <3>1, <3>2
  <2> QED BY <2>1, <2>2
<1>8. CASE DialClosed
  <2>1. Return(dial) /\ dial \in {"ErrClosed", "err"}
    BY <1>8 DEF DialClosed
  <2>2. Returned(dial)
    BY <2>1, ReturnPhases
  <2>3. TypeOK'
    BY <1>8, <2>2 DEF Returned, DialClosed, TypeOK, Closers, sockVars
  <2>4. Phases' /\ DialSteps' /\ PeerKept'
    BY <1>8, <2>2 DEF Returned, DialClosed, TypeOK, Phases, DialSteps, PeerKept, Closers,
       Settled, Established, CurOpen, sockVars
  <2> QED BY <2>3, <2>4
<1> QED BY <1>1, <1>2, <1>3, <1>4, <1>5, <1>6, <1>7, <1>8 DEF Dialing

\* The goroutines that watch the connection and receive keep the invariant.
LEMMA RunningKeeps ==
  ASSUME DialerInv,
         \/ Watching \/ MonOther \/ MonClose
         \/ RecvGet \/ RecvPeer \/ RecvData \/ RecvOther
  PROVE  DialerInv'
<1> USE DEF DialerInv
<1>1. CASE MonCheck \/ MonOther \/ MonErr
  <2>1. TypeOK' /\ mon' \in {"read", "check", "decide"}
    BY <1>1 DEF MonCheck, MonOther, MonErr, MonGoto, TypeOK, recvVars
  <2>2. Phases' /\ DialSteps' /\ PeerKept'
    BY <1>1, <2>1 DEF MonCheck, MonOther, MonErr, MonGoto, TypeOK, Phases, DialSteps,
       PeerKept, Settled, Established, CurOpen, recvVars
  <2> QED BY <2>1, <2>2
<1>2. CASE MonClose
  <2>1. TypeOK'
    BY <1>2 DEF MonClose, MonGoto, TypeOK, Pairs, recvVars
  <2>2. Phases' /\ DialSteps'
    BY <1>2 DEF MonClose, MonGoto, TypeOK, Phases, DialSteps, Settled, recvVars
  <2>3. PeerKept'
    BY <1>2, DialAssumption DEF MonClose, MonGoto, TypeOK, PeerKept, Established,
       CurOpen, Pairs
  <2> QED BY <2>1, <2>2, <2>3
<1>3. CASE MonDecide
  <2>1. TypeOK'
    BY <1>3 DEF MonDecide, TypeOK, sockVars, recvVars
  <2>2. Phases' /\ DialSteps' /\ PeerKept'
    BY <1>3 DEF MonDecide, TypeOK, Phases, DialSteps, PeerKept, Settled, Established,
       CurOpen, sockVars, recvVars
  <2> QED BY <2>1, <2>2
<1>4. CASE RecvGet \/ RecvPeer \/ RecvData \/ RecvOther
  <2>1. TypeOK' /\ recv # "off"
    BY <1>4 DEF RecvGet, RecvPeer, RecvData, RecvOther, RecvGoto, TypeOK, sockVars,
       monVars
  <2>2. Phases' /\ DialSteps' /\ PeerKept'
    BY <1>4, <2>1 DEF RecvGet, RecvPeer, RecvData, RecvOther, RecvGoto, TypeOK,
       Phases, DialSteps, PeerKept, Settled, Established, CurOpen, sockVars, monVars
  <2> QED BY <2>1, <2>2
<1> QED BY <1>1, <1>2, <1>3, <1>4 DEF Watching

\* Close, whoever calls it, the client's Close and a broken connection keep it.
LEMMA ClosingKeeps ==
  ASSUME DialerInv,
         \/ CloseStart \/ ClientClose \/ CloseTcp
         \/ \E p \in Closers : Closing(p)
         \/ \E n \in Pairs : Lose(n)
  PROVE  DialerInv'
<1> USE DEF DialerInv
<1>1. CASE CloseStart
  <2>1. TypeOK'
    BY <1>1 DEF CloseStart, TypeOK, Closers, sockVars, monVars, recvVars
  <2>2. Phases' /\ DialSteps' /\ PeerKept'
    BY <1>1 DEF CloseStart, TypeOK, Closers, Phases, DialSteps, PeerKept, Settled,
       Established, CurOpen, sockVars, monVars, recvVars
  <2> QED BY <2>1, <2>2
<1>2. CASE ClientClose
  <2>1. TypeOK'
    BY <1>2 DEF ClientClose, TypeOK, sockVars, monVars, recvVars
  <2>2. Phases' /\ DialSteps' /\ PeerKept'
    BY <1>2 DEF ClientClose, TypeOK, Phases, DialSteps, PeerKept, Settled,
       Established, CurOpen, sockVars, monVars, recvVars
  <2> QED BY <2>1, <2>2
<1>3. CASE CloseTcp \/ \E n \in Pairs : Lose(n)
  <2>1. TypeOK'
    <3>1. tcp' \in [Pairs -> {"none", "open", "lost", "closed"}]
      BY <1>3 DEF CloseTcp, Lose, TypeOK
    <3> QED BY <1>3, <3>1 DEF CloseTcp, Lose, TypeOK, monVars, recvVars
  <2>2. Phases' /\ DialSteps' /\ PeerKept'
    BY <1>3 DEF CloseTcp, Lose, TypeOK, Phases, DialSteps, PeerKept, Settled,
       Established, CurOpen, monVars, recvVars
  <2> QED BY <2>1, <2>2
<1>4. ASSUME NEW p \in Closers, Closing(p)
      PROVE  DialerInv'
  <2>1. TypeOK'
    <3>1. CASE CloseSend(p)
      BY <3>1 DEF CloseSend, CloseGoto, TypeOK, Closers, monVars, recvVars
    <3>2. CASE CloseUdp(p)
      <4>1. udp' \in [Pairs -> {"none", "open", "closed"}]
        BY <3>2 DEF CloseUdp, TypeOK
      <4>2. closing' \in [Closers -> {"idle", "send", "udp", "clear", "done"}]
        BY <3>2 DEF CloseUdp, CloseGoto, TypeOK
      <4> QED BY <3>2, <4>1, <4>2 DEF CloseUdp, CloseGoto, TypeOK, monVars,
              recvVars
    <3>3. CASE CloseClear(p)
      <4>1. tcp' \in [Pairs -> {"none", "open", "lost", "closed"}] /\ peer' = 0
        BY <3>3 DEF CloseClear, TypeOK
      <4>2. closing' \in [Closers -> {"idle", "send", "udp", "clear", "done"}]
        BY <3>3 DEF CloseClear, CloseGoto, TypeOK
      <4> QED BY <3>3, <4>1, <4>2 DEF CloseClear, CloseGoto, TypeOK, monVars,
              recvVars
    <3> QED BY <1>4, <3>1, <3>2, <3>3 DEF Closing
  <2>2. /\ closing' \in [Closers -> {"idle", "send", "udp", "clear", "done"}]
        /\ closing[p] # "idle" /\ closing'[p] # "idle"
        /\ \A q \in Closers \ {p} : closing'[q] = closing[q]
    BY <1>4 DEF Closing, CloseSend, CloseUdp, CloseClear, CloseGoto, TypeOK
  <2>3. UNCHANGED <<app, isClosed, made, cur, dial, mon, mt, tries, recv, rn, ended>>
    BY <1>4 DEF Closing, CloseSend, CloseUdp, CloseClear, CloseGoto, monVars, recvVars
  <2>4. Phases' /\ DialSteps'
    BY <2>2, <2>3 DEF Phases, DialSteps, Settled, Closers
  <2>5. PeerKept'
    <3>1. Established' => Established
      BY <1>4, <2>3 DEF Closing, CloseSend, CloseUdp, CloseClear, TypeOK, Established,
         CurOpen, Pairs
    <3>2. closing'[p] \in {"clear", "done"} => ~Established' \/ closing[p] = "clear"
      BY <1>4, <2>3, DialAssumption DEF Closing, CloseSend, CloseUdp, CloseClear,
         CloseGoto, TypeOK, Established, CurOpen, Pairs
    <3>3. peer' = peer \/ closing[p] = "clear"
      BY <1>4 DEF Closing, CloseSend, CloseUdp, CloseClear
    <3> QED BY <2>2, <2>3, <3>1, <3>2, <3>3 DEF PeerKept, DialSteps, Closers
  <2> QED BY <2>1, <2>4, <2>5
<1> QED BY <1>1, <1>2, <1>3, <1>4, Zenon

\* The invariant speaks of the variables only.
LEMMA StutterKeeps ==
  ASSUME DialerInv, UNCHANGED vars
  PROVE  DialerInv'
BY DEF DialerInv, TypeOK, Phases, DialSteps, PeerKept, Settled, Established, CurOpen,
   vars, sockVars, monVars, recvVars

-----------------------------------------------------------------------------
(* Theorems *)

\* The goroutines of a dialed session keep the invariant: DialUpSession runs in
\* one of them at a time, and the address is missing only while it closes.
THEOREM DialerInvariant == Spec => []DialerInv
<1>1. DialerInv /\ [Next]_vars => DialerInv'
  BY DialingKeeps, RunningKeeps, ClosingKeeps, StutterKeeps, Zenon DEF Next
<1> QED BY InitDialer, <1>1, PTL DEF Spec

\* The variables of a dialed session hold what their Go counterparts can hold;
\* the pair in use, the pair read and the peer are pairs that were made.
THEOREM DialerTypes == Spec => []TypeOK
<1>1. DialerInv => TypeOK
  BY DEF DialerInv
<1> QED BY <1>1, DialerInvariant, PTL

\* Outside a reconnect, and until the application calls Close, an established
\* session has the peer of the connection in use: recvMsg reads
\* us.peer.udpAddr after GetEstablishedUDPConn alone.
THEOREM PeerIsSetHolds == Spec => []PeerIsSet
<1>1. DialerInv => PeerIsSet
  BY DEF DialerInv, Phases, PeerKept, PeerIsSet
<1> QED BY <1>1, DialerInvariant, PTL

\* A session that is closed while no reconnect is under way is not brought back:
\* handleTcpMsg asks for a closed session before it dials again.
THEOREM StaysClosedHolds == Spec => StaysClosed
<1> DEFINE Closed == app = "up" /\ Settled /\ udp[cur] = "closed"
<1>1. DialerInv /\ [Next]_vars => (Closed => (Settled /\ udp[cur] = "closed")')
  <2> SUFFICES ASSUME DialerInv, [Next]_vars, Closed
               PROVE  (Settled /\ udp[cur] = "closed")'
    OBVIOUS
  <2>1. dial = "off" /\ cur # 0
    BY DEF DialerInv, Phases
  <2>2. ~Dialing
    BY <2>1 DEF Dialing, DialCheck, DialConnect, DialConnectErr, DialInstall,
       DialMeta, DialMetaErr, DialCodec, DialClosed
  <2>3. CASE DialUDP \/ MonCheck \/ MonOther \/ MonErr \/ CloseStart
    BY <2>3 DEF DialUDP, MonCheck, MonOther, MonErr, MonGoto, CloseStart, Settled,
       sockVars, monVars
  <2>4. CASE MonClose
    BY <2>1, <2>4 DEF MonClose, MonGoto, Settled, DialerInv, TypeOK, Pairs
  <2>5. CASE MonDecide
    BY <2>5 DEF MonDecide, GivesUp, Settled, sockVars
  <2>6. CASE RecvGet \/ RecvPeer \/ RecvData \/ RecvOther
    BY <2>6 DEF RecvGet, RecvPeer, RecvData, RecvOther, RecvGoto, Settled, sockVars,
       monVars
  <2>7. CASE ClientClose \/ CloseTcp \/ \E n \in Pairs : Lose(n)
    BY <2>7 DEF ClientClose, CloseTcp, Lose, Settled, sockVars, monVars
  <2>8. CASE \E p \in Closers : Closing(p)
    BY <2>8 DEF Closing, CloseSend, CloseUdp, CloseClear, CloseGoto, Established,
       CurOpen, Settled, monVars
  <2>9. CASE UNCHANGED vars
    BY <2>9 DEF vars, Settled, sockVars, monVars
  <2> QED BY <2>2, <2>3, <2>4, <2>5, <2>6, <2>7, <2>8, <2>9 DEF Next, Watching
<1> QED BY <1>1, DialerInvariant, PTL DEF Spec, StaysClosed

-----------------------------------------------------------------------------
(* The dialer and the listener together *)

\* A step of the two ends and the network is a step of the dialer or none.
LEMMA StepOfDialer == [SysNext]_sysVars => [Next]_vars
<1> SUFFICES ASSUME [SysNext]_sysVars PROVE [Next]_vars
  OBVIOUS
<1>1. CASE DialerCall \/ DialerStep \/ SendMeta \/ GetClose \/ GetEnd
  BY <1>1, Zenon DEF DialerCall, DialerStep, SendMeta, GetClose, GetEnd, Next, Dialing, Watching
<1>2. CASE \E p \in Closers : SendClose(p) \/ CloseStep(p)
  BY <1>2, Zenon DEF SendClose, CloseStep, Next, Closing
<1>3. CASE ListenerCall \/ LReceive \/ LSendClose \/ LCloseStep
  BY <1>3, Zenon DEF ListenerCall, LReceive, LSendClose, LCloseStep
<1>4. ASSUME NEW n \in Pairs,
             \/ LRecvMeta(n) \/ LAccept(n) \/ LWatch(n) \/ LGetClose(n) \/ LGetEnd(n)
             \/ EndOfDialer(n) \/ BreakAtListener(n)
      PROVE  UNCHANGED vars
  BY <1>4, Zenon DEF LRecvMeta, LAccept, LWatch, LGetClose, LGetEnd, EndOfDialer, BreakAtListener
<1>5. ASSUME NEW n \in Pairs, EndOfListener(n) \/ BreakAtDialer(n)
      PROVE  Next
  BY <1>5, Zenon DEF EndOfListener, BreakAtDialer, Next
<1>6. CASE UNCHANGED sysVars
  BY <1>6, Zenon DEF sysVars
<1> QED BY <1>1, <1>2, <1>3, <1>4, <1>5, <1>6, Zenon DEF SysNext

\* The listener's steps in the composition are its own as well.
LEMMA StepOfListener == [SysNext]_sysVars => [L!Next]_(L!vars)
<1> SUFFICES ASSUME [SysNext]_sysVars PROVE [L!Next]_(L!vars)
  OBVIOUS
<1>1. UNCHANGED listenerVars => UNCHANGED L!vars
  BY Zenon DEF listenerVars, L!vars, L!tables, L!recvVars
<1>2. CASE DialerCall \/ DialerStep \/ SendMeta \/ GetClose \/ GetEnd
  BY <1>1, <1>2, Zenon DEF DialerCall, DialerStep, SendMeta, GetClose, GetEnd
<1>3. CASE \E p \in Closers : SendClose(p) \/ CloseStep(p)
  BY <1>1, <1>3, Zenon DEF SendClose, CloseStep
<1>4. CASE LReceive
  BY <1>4, Zenon DEF LReceive, L!Next, L!Receiver
<1>5. CASE ListenerCall \/ LSendClose \/ LCloseStep
  BY <1>5, Zenon DEF ListenerCall, LSendClose, LCloseStep, L!Next, L!Closer, L!Closers
<1>6. ASSUME NEW n \in Pairs, LRecvMeta(n)
      PROVE  L!Next
  BY <1>6, Zenon DEF LRecvMeta, L!Next, L!Receiver
<1>7. ASSUME NEW n \in Pairs,
             \/ LAccept(n) \/ LWatch(n) \/ LGetClose(n) \/ LGetEnd(n)
             \/ EndOfDialer(n) \/ BreakAtListener(n)
      PROVE  L!Next
  BY <1>7, Zenon DEF LAccept, LWatch, LGetClose, LGetEnd, EndOfDialer, BreakAtListener, L!Next,
     L!Monitor
<1>8. ASSUME NEW n \in Pairs, EndOfListener(n) \/ BreakAtDialer(n)
      PROVE  UNCHANGED L!vars
  BY <1>1, <1>8, Zenon DEF EndOfListener, BreakAtDialer
<1>9. CASE UNCHANGED sysVars
  BY <1>1, <1>9, Zenon DEF sysVars
<1> QED BY <1>2, <1>3, <1>4, <1>5, <1>6, <1>7, <1>8, <1>9, Zenon DEF SysNext

\* In the composition the dialed session behaves as UdpDialer says: whatever the
\* listener and the network do is among what UdpDialer lets its peer do.
THEOREM SystemDials == SysSpec => Spec
<1>1. SysInit => Init
  BY Zenon DEF SysInit
<1> QED BY <1>1, StepOfDialer, PTL DEF SysSpec, Spec

\* The listener behaves as UdpListener says, from the moment ListenUDP returns.
THEOREM SystemListens == SysSpec => L!InitWith("open", "get") /\ [][L!Next]_(L!vars)
<1>1. SysInit => L!InitWith("open", "get")
  BY Zenon DEF SysInit
<1> QED BY <1>1, StepOfListener, PTL DEF SysSpec

\* So what is proved of a dialed session holds when a listener is at the other end.
THEOREM SystemKeepsDialer == SysSpec => []PeerIsSet /\ StaysClosed
BY SystemDials, PeerIsSetHolds, StaysClosedHolds, PTL

\* what was announced was made, and the listener works on what was announced
Announced ==
  /\ meta \subseteq 1 .. made
  /\ sessKeyToSessAddr \in [{Key} -> meta \cup {None}]
  /\ lRecv \in {"session", "insert"} => rdial \in meta

\* a CLOSE comes from the listener's Close
Told ==
  /\ sess # "nil"
  /\ lClosing \in [L!Closers -> {"idle", "send", "udp", "clear", "mark", "done"}]
  /\ toD # {} \/ ended = "CLOSE" => lClosing["app"] \in {"udp", "clear", "done"}

\* Nothing has been sent and nothing is known.
LEMMA InitSystem == SysInit => Announced /\ Told
<1> SUFFICES ASSUME SysInit PROVE Announced /\ Told
  OBVIOUS
<1>1. Init /\ L!InitWith("open", "get") /\ meta = {} /\ toD = {}
  BY Zenon DEF SysInit
<1>2. Announced
  BY <1>1 DEF L!InitWith, Announced
<1>3. Told
  BY <1>1 DEF L!InitWith, Init, Told, L!Closers
<1> QED BY <1>2, <1>3

\* The dialer announces a pair it has made; no pair is unmade.
LEMMA DialerAnnounces ==
  ASSUME DialerInv, Announced, UNCHANGED listenerVars,
         DialerCall \/ DialerStep \/ SendMeta \/ GetClose \/ GetEnd
           \/ (\E p \in Closers : SendClose(p) \/ CloseStep(p))
  PROVE  Announced'
<1>1. made \in Nat /\ made' \in Nat /\ made' >= made
  <2>1. made \in Nat
    BY DialAssumption DEF DialerInv, TypeOK
  <2>2. made' = made \/ made' = made + 1
    BY Zenon DEF DialerCall, DialerStep, SendMeta, GetClose, GetEnd, SendClose, CloseStep,
       DialUDP, CloseStart, DialCheck, DialConnect, DialConnectErr, DialInstall, DialMetaErr,
       DialCodec, DialClosed, MonCheck, MonDecide, DialMeta, MonClose, MonErr, CloseSend,
       CloseUdp, CloseClear, MonGoto, CloseGoto, sockVars
  <2> QED BY <2>1, <2>2
<1>2. meta' = meta \/ (meta' = meta \cup {cur} /\ cur \in 1 .. made)
  <2>1. CASE SendMeta
    <3>1. Established => cur \in 1 .. made
      BY DialAssumption DEF DialerInv, TypeOK, Established, CurOpen
    <3> QED BY <2>1, <3>1, Zenon DEF SendMeta
  <2>2. CASE ~SendMeta
    BY <2>2, Zenon DEF DialerCall, DialerStep, GetClose, GetEnd, SendClose, CloseStep, netVars
  <2> QED BY <2>1, <2>2
<1>3. meta' \subseteq 1 .. made' /\ meta \subseteq meta'
  <2>1. 1 .. made \subseteq 1 .. made'
    BY <1>1, SMTT(30)
  <2> QED BY <1>2, <2>1, Zenon DEF Announced
<1>4. sessKeyToSessAddr' \in [{Key} -> meta' \cup {None}]
  <2>1. sessKeyToSessAddr' = sessKeyToSessAddr
    BY Zenon DEF listenerVars
  <2> QED BY <1>3, <2>1, Zenon DEF Announced
<1>5. lRecv' \in {"session", "insert"} => rdial' \in meta'
  BY <1>3, Zenon DEF Announced, listenerVars
<1> QED BY <1>3, <1>4, <1>5, Zenon DEF Announced

\* The listener enters only the address of a datagram it has received.
LEMMA ListenerLearns ==
  ASSUME Announced, UNCHANGED <<made, meta>>,
         \/ ListenerCall \/ LReceive \/ LSendClose \/ LCloseStep
         \/ \E n \in Pairs :
              \/ LRecvMeta(n) \/ LAccept(n) \/ LWatch(n) \/ LGetClose(n) \/ LGetEnd(n)
              \/ EndOfDialer(n) \/ BreakAtListener(n)
  PROVE  Announced'
<1> SUFFICES /\ sessKeyToSessAddr' \in [{Key} -> meta \cup {None}]
             /\ lRecv' \in {"session", "insert"} => rdial' \in meta
  BY Zenon DEF Announced
<1> USE DEF Announced
<1>1. CASE UNCHANGED <<sessKeyToSessAddr, lRecv, rdial>>
  BY <1>1, Zenon
<1>2. CASE LReceive
  <2>1. CASE L!RecvGet \/ L!RecvOther \/ L!LookSession \/ L!AddCodec
    BY <2>1, Zenon DEF L!RecvGet, L!RecvOther, L!LookSession, L!AddCodec, L!tables
  <2>2. CASE L!Insert
    <3>1. rdial \in meta /\ lRecv' = "codec"
      BY <2>2, Zenon DEF L!Insert
    <3>2. sessKeyToSessAddr' = [sessKeyToSessAddr EXCEPT ![[n \in Pairs |-> Key][rdial]] = rdial]
      BY <2>2, Zenon DEF L!Insert
    <3> QED BY <3>1, <3>2, Zenon
  <2> QED BY <1>2, <2>1, <2>2, Zenon DEF LReceive
<1>3. ASSUME NEW n \in Pairs, LRecvMeta(n)
      PROVE  /\ sessKeyToSessAddr' = sessKeyToSessAddr
             /\ rdial' \in meta
  BY <1>3, Zenon DEF LRecvMeta, L!RecvMeta, L!tables
<1>4. ASSUME NEW n \in Pairs, LGetClose(n)
      PROVE  /\ sessKeyToSessAddr' \in [{Key} -> meta \cup {None}]
             /\ UNCHANGED <<lRecv, rdial>>
  <2>1. L!HandleConnClosed([m \in Pairs |-> Key][n]) /\ UNCHANGED <<lRecv, rdial>>
    BY <1>4, Zenon DEF LGetClose, L!MonClose, L!recvVars
  <2>2. \/ sessKeyToSessAddr' = sessKeyToSessAddr
        \/ sessKeyToSessAddr' = [sessKeyToSessAddr EXCEPT ![[m \in Pairs |-> Key][n]] = None]
    BY <2>1, Zenon DEF L!HandleConnClosed, L!tables
  <2> QED BY <2>1, <2>2
<1>5. CASE LCloseStep
  <2>1. UNCHANGED <<lRecv, rdial>>
    BY <1>5, Zenon DEF LCloseStep, L!CloseUdp, L!CloseClear, L!recvVars
  <2>2. sessKeyToSessAddr' \in {sessKeyToSessAddr, [k \in {Key} |-> None]}
    BY <1>5, Zenon DEF LCloseStep, L!CloseUdp, L!CloseClear, L!tables
  <2> QED BY <2>1, <2>2
<1>6. CASE ListenerCall \/ LSendClose
  BY <1>1, <1>6, Zenon DEF ListenerCall, LSendClose, L!CloseStart, L!CloseSend, L!tables, L!recvVars
<1>7. ASSUME NEW n \in Pairs,
             LAccept(n) \/ LWatch(n) \/ LGetEnd(n) \/ EndOfDialer(n) \/ BreakAtListener(n)
      PROVE  UNCHANGED <<sessKeyToSessAddr, lRecv, rdial>>
  BY <1>7, Zenon DEF LAccept, LWatch, LGetEnd, EndOfDialer, BreakAtListener, L!TcpAccept,
     L!MonCheck, L!MonDelete, L!MonErr, L!Lose, L!tables, L!recvVars
<1> QED BY <1>1, <1>2, <1>3, <1>4, <1>5, <1>6, <1>7, Zenon

\* Only the listener's Close writes a CLOSE, and only a CLOSE ends a session.
LEMMA CloseTells ==
  ASSUME Told, [SysNext]_sysVars
  PROVE  Told'
<1>1. CASE UNCHANGED <<sess, lClosing>> /\ toD' \subseteq toD /\ (ended' = ended \/ toD # {})
  BY <1>1 DEF Told
<1>2. CASE DialerCall \/ DialerStep \/ SendMeta \/ GetEnd
  BY <1>1, <1>2, ZenonT(40) DEF DialerCall, DialerStep, SendMeta, GetEnd, listenerVars, netVars,
     DialUDP, CloseStart, DialCheck, DialConnect, DialConnectErr, DialInstall, DialMetaErr,
     DialCodec, DialClosed, MonCheck, MonDecide, DialMeta, MonErr
<1>3. CASE GetClose
  BY <1>1, <1>3, Zenon DEF GetClose, listenerVars
<1>4. CASE \E p \in Closers : SendClose(p) \/ CloseStep(p)
  BY <1>1, <1>4, Zenon DEF SendClose, CloseStep, CloseSend, CloseUdp, CloseClear, CloseGoto,
     listenerVars, netVars
<1>5. CASE LReceive
  BY <1>1, <1>5, Zenon DEF LReceive, L!RecvGet, L!RecvOther, L!LookSession, L!Insert, L!AddCodec,
     vars, netVars
<1>6. ASSUME NEW n \in Pairs,
             LRecvMeta(n) \/ LAccept(n) \/ LWatch(n) \/ LGetClose(n) \/ LGetEnd(n) \/ EndOfDialer(n)
      PROVE  UNCHANGED <<sess, lClosing, toD, ended>>
  BY <1>6, Zenon DEF LRecvMeta, LAccept, LWatch, LGetClose, LGetEnd, EndOfDialer, vars, netVars,
     L!RecvMeta, L!TcpAccept, L!MonCheck, L!MonDelete, L!MonClose, L!MonErr, L!Lose
<1>7. ASSUME NEW n \in Pairs, EndOfListener(n) \/ BreakAtDialer(n) \/ BreakAtListener(n)
      PROVE  UNCHANGED <<sess, lClosing, ended>> /\ toD' \subseteq toD
  BY <1>7, Zenon DEF EndOfListener, BreakAtDialer, BreakAtListener, Lose, L!Lose, listenerVars,
     netVars, vars
<1>8. CASE ListenerCall
  <2>1. /\ lClosing["app"] = "idle"
        /\ lClosing' = [lClosing EXCEPT !["app"] = "send"]
        /\ UNCHANGED <<sess, toD, ended>>
    BY <1>8, Zenon DEF ListenerCall, L!CloseStart, vars, netVars, Told
  <2> QED BY <2>1 DEF Told, L!Closers
<1>9. CASE LSendClose
  <2>1. /\ lClosing' = [lClosing EXCEPT !["app"] = "udp"]
        /\ UNCHANGED sess
    BY <1>9, Zenon DEF LSendClose, L!CloseSend
  <2> QED BY <2>1 DEF Told, L!Closers
<1>10. CASE LCloseStep
  <2>1. /\ lClosing' \in {[lClosing EXCEPT !["app"] = "clear"], [lClosing EXCEPT !["app"] = "done"]}
        /\ sess' \in {sess, "closed"}
    BY <1>10, Zenon DEF LCloseStep, L!CloseUdp, L!CloseClear
  <2> QED BY <2>1 DEF Told, L!Closers
<1>11. CASE UNCHANGED sysVars
  BY <1>1, <1>11, Zenon DEF sysVars, listenerVars, netVars, vars
<1> QED BY <1>1, <1>2, <1>3, <1>4, <1>5, <1>6, <1>7, <1>8, <1>9, <1>10, <1>11, Zenon DEF SysNext

\* The two ends agree on what was sent; the end or the break of a connection tells
\* neither of them more.
LEMMA NextAnnounced ==
  ASSUME DialerInv, Announced, [SysNext]_sysVars
  PROVE  Announced'
<1>1. CASE DialerCall \/ DialerStep \/ SendMeta \/ GetClose \/ GetEnd
             \/ (\E p \in Closers : SendClose(p) \/ CloseStep(p))
  <2>1. UNCHANGED listenerVars
    BY <1>1, Zenon DEF DialerCall, DialerStep, SendMeta, GetClose, GetEnd, SendClose, CloseStep
  <2> QED BY <1>1, <2>1, DialerAnnounces, Zenon
<1>2. CASE \/ ListenerCall \/ LReceive \/ LSendClose \/ LCloseStep
           \/ \E n \in Pairs :
                \/ LRecvMeta(n) \/ LAccept(n) \/ LWatch(n) \/ LGetClose(n) \/ LGetEnd(n)
                \/ EndOfDialer(n) \/ BreakAtListener(n)
  <2>1. UNCHANGED <<made, meta>>
    BY <1>2, Zenon DEF ListenerCall, LReceive, LSendClose, LCloseStep, LRecvMeta, LAccept,
       LWatch, LGetClose, LGetEnd, EndOfDialer, BreakAtListener, vars, sockVars, netVars
  <2> QED BY <1>2, <2>1, ListenerLearns, Zenon
<1>3. CASE UNCHANGED <<made, meta, sessKeyToSessAddr, lRecv, rdial>>
  BY <1>3 DEF Announced
<1>4. ASSUME NEW n \in Pairs, EndOfListener(n) \/ BreakAtDialer(n)
      PROVE  UNCHANGED <<made, meta, sessKeyToSessAddr, lRecv, rdial>>
  BY <1>4, Zenon DEF EndOfListener, BreakAtDialer, Lose, listenerVars, netVars
<1>5. CASE UNCHANGED sysVars
  BY <1>3, <1>5, Zenon DEF sysVars, listenerVars, netVars, vars, sockVars
<1> QED BY <1>1, <1>2, <1>3, <1>4, <1>5, Zenon DEF SysNext

\* The invariant of the composition, on top of the dialer's.
THEOREM SystemInvariant == SysSpec => [](DialerInv /\ Announced /\ Told)
<1>1. SysSpec => []DialerInv
  BY SystemDials, DialerInvariant, PTL
<1>2. DialerInv /\ Announced /\ Told /\ [SysNext]_sysVars => Announced' /\ Told'
  BY NextAnnounced, CloseTells, Zenon
<1> QED BY <1>1, <1>2, InitSystem, PTL DEF SysSpec

\* The listener replies to no address but one whose socket the dialer has made and
\* announced, for any number of reconnects and any delay, loss and repetition of
\* the datagrams that handleMetaData learns addresses from.
THEOREM KnowsAnnouncedHolds == SysSpec => []KnowsAnnounced
<1>1. Announced => KnowsAnnounced
  BY Zenon DEF Announced, KnowsAnnounced
<1> QED BY <1>1, SystemInvariant, PTL

\* handleConnClosed closes a dialed session only if the Close of the listener has
\* written CLOSE before, never for a connection that broke or was replaced.
THEOREM EndedByCloseHolds == SysSpec => []EndedByClose
<1>1. Told => EndedByClose
  BY Zenon DEF Told, EndedByClose
<1> QED BY <1>1, SystemInvariant, PTL
==============================================================================
