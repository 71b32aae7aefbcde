------------------------------ MODULE UdpSystem ------------------------------
(***************************************************************************)
(* A dialed UDP session and the listener it was dialed to.  The dialer's   *)
(* pair n is the listener's dial n.  Datagrams are lost, delayed and       *)
(* repeated; a TCP connection delivers its CLOSE before its end unless it  *)
(* breaks.  The dialer's recvMsg takes no part: user data is left out.     *)
(***************************************************************************)
EXTENDS UdpDialer

CONSTANTS Key, None

VARIABLES
  sess, lClosed, sessKeyToSessAddr, udpAddrToSessAddr, tcpConns, lRecv, rdial,
  lMon, link, lClosing,   \* the listener, see UdpListener
  meta,    \* pairs whose metadata datagram was sent
  toL,     \* pairs with a CLOSE on the way to the listener
  toD,     \* pairs with a CLOSE on the way to the dialer
  broken   \* history: pairs whose TCP connection broke

listenerVars == <<sess, lClosed, sessKeyToSessAddr, udpAddrToSessAddr, tcpConns,
                  lRecv, rdial, lMon, link, lClosing>>
netVars == <<meta, toL, toD, broken>>
sysVars == <<vars, listenerVars, netVars>>

L == INSTANCE UdpListener WITH
  Dials <- Pairs, Keys <- {Key}, KeyOf <- [n \in Pairs |-> Key],
  isClosed <- lClosed, recv <- lRecv, mon <- lMon, closing <- lClosing

\* ListenUDP has returned, DialUDP has not been called
SysInit ==
  /\ Init
  /\ L!InitWith("open", "get")
  /\ meta = {} /\ toL = {} /\ toD = {} /\ broken = {}

-----------------------------------------------------------------------------
(* Steps of the dialer *)

\* the application calls DialUDP or Close
DialerCall ==
  /\ DialUDP \/ CloseStart
  /\ UNCHANGED <<listenerVars, netVars>>

\* steps of the goroutine that dials and watches that send and receive nothing; this
\* listener keeps no closed key of a UDP session and never answers SessionClosed
DialerStep ==
  /\ \/ DialCheck \/ DialConnect \/ DialConnectErr("err") \/ DialInstall \/ DialMetaErr
     \/ DialCodec \/ DialClosed \/ MonCheck \/ MonDecide
  /\ UNCHANGED <<listenerVars, netVars>>

SendMeta ==
  /\ DialMeta
  /\ meta' = IF Established THEN meta \cup {cur} ELSE meta
  /\ UNCHANGED <<listenerVars, toL, toD, broken>>

\* bug: Close of the dialer sends nothing
SendNothing(p) ==
  /\ CloseSend(p)
  /\ UNCHANGED <<listenerVars, netVars>>

SendClose(p) ==
  /\ CloseSend(p)
  /\ toL' = toL \cup {n \in {cur} : n # 0 /\ tcp[n] = "open"}
  /\ UNCHANGED <<listenerVars, meta, toD, broken>>

CloseStep(p) ==
  /\ CloseUdp(p) \/ CloseClear(p)
  /\ UNCHANGED <<listenerVars, netVars>>

GetClose ==
  /\ MonClose
  /\ mt \in toD
  /\ toD' = toD \ {mt}
  /\ UNCHANGED <<listenerVars, meta, toL, broken>>

\* the end of the connection is read after what was written before it
GetEnd ==
  /\ MonErr
  /\ mt \in toD => tcp[mt] = "closed"
  /\ UNCHANGED <<listenerVars, netVars>>

-----------------------------------------------------------------------------
(* Steps of the listener *)

\* the application calls Close
ListenerCall ==
  /\ L!CloseStart("app")
  /\ UNCHANGED <<vars, netVars>>

LReceive ==
  /\ L!RecvGet \/ L!RecvOther \/ L!LookSession \/ L!Insert \/ L!AddCodec
  /\ UNCHANGED <<vars, netVars>>

LWatch(n) ==
  /\ L!MonCheck(n) \/ L!MonDelete(n)
  /\ UNCHANGED <<vars, netVars>>

LCloseStep ==
  /\ L!CloseUdp("app") \/ L!CloseClear("app")
  /\ UNCHANGED <<vars, netVars>>

\* a datagram that was sent arrives, perhaps again
LRecvMeta(n) ==
  /\ n \in meta
  /\ L!RecvMeta(n, "session")
  /\ UNCHANGED <<vars, netVars>>

LAccept(n) ==
  /\ tcp[n] # "none"
  /\ L!TcpAccept(n)
  /\ UNCHANGED <<vars, netVars>>

LGetClose(n) ==
  /\ n \in toL
  /\ L!MonClose(n)
  /\ toL' = toL \ {n}
  /\ UNCHANGED <<vars, meta, toD, broken>>

LGetEnd(n) ==
  /\ L!MonErr(n)
  /\ n \in toL => link[n] = "closed"
  /\ UNCHANGED <<vars, netVars>>

LSendClose ==
  /\ L!CloseSend("app")
  /\ toD' = toD \cup {n \in L!CloseTargets : link[n] = "open"}
  /\ UNCHANGED <<vars, meta, toL, broken>>

-----------------------------------------------------------------------------
(* The TCP connections *)

\* one end has closed the connection, the other is told
EndOfListener(n) ==
  /\ link[n] = "closed"
  /\ Lose(n)
  /\ UNCHANGED <<listenerVars, netVars>>

EndOfDialer(n) ==
  /\ tcp[n] = "closed"
  /\ L!Lose(n)
  /\ UNCHANGED <<vars, netVars>>

\* the node between fails: each end is told in its own time, if at all, and what
\* was under way to it is lost
BreakAtDialer(n) ==
  /\ Lose(n)
  /\ toD' = toD \ {n}
  /\ broken' = broken \cup {n}
  /\ UNCHANGED <<listenerVars, meta, toL>>

BreakAtListener(n) ==
  /\ L!Lose(n)
  /\ toL' = toL \ {n}
  /\ broken' = broken \cup {n}
  /\ UNCHANGED <<vars, meta, toD>>

SysNext ==
  \/ DialerCall \/ DialerStep \/ SendMeta \/ GetClose \/ GetEnd
  \/ \E p \in Closers : SendClose(p) \/ CloseStep(p)
  \/ ListenerCall \/ LReceive \/ LSendClose \/ LCloseStep
  \/ \E n \in Pairs :
       \/ LRecvMeta(n) \/ LAccept(n) \/ LWatch(n) \/ LGetClose(n) \/ LGetEnd(n)
       \/ EndOfListener(n) \/ EndOfDialer(n)
       \/ BreakAtDialer(n) \/ BreakAtListener(n)

SysSpec == SysInit /\ [][SysNext]_sysVars

\* goroutines are scheduled, and a connection that does not break delivers what
\* was written and its end; datagrams need not arrive
SysFairSpec ==
  /\ SysSpec
  /\ WF_sysVars(DialerStep \/ SendMeta \/ GetClose \/ GetEnd)
  /\ \A p \in Closers : WF_sysVars(SendClose(p) \/ CloseStep(p))
  /\ WF_sysVars(LSendClose \/ LCloseStep)
  /\ \A n \in Pairs :
       /\ WF_sysVars(LAccept(n))
       /\ WF_sysVars(LWatch(n) \/ LGetClose(n) \/ LGetEnd(n))
       /\ WF_sysVars(EndOfListener(n) \/ EndOfDialer(n))

-----------------------------------------------------------------------------
(* Properties *)

\* When the dialer closes a session that the listener knows and watches over an
\* unbroken connection, the listener forgets the session.
DialerCloseReaches ==
  \A n \in Pairs :
    (/\ closing["app"] = "send" /\ cur = n /\ tcp[n] = "open" /\ sess = "open"
     /\ L!Watched(n) /\ sessKeyToSessAddr[Key] = n)
      ~> (sessKeyToSessAddr[Key] # n \/ n \in broken)

\* When the listener has written CLOSE to a connection that the dialer watches and
\* that does not break, the dialer's session ends with that connection: both its
\* sockets are closed and its goroutine has ended.  A session that was ended by a
\* CLOSE is never dialed again, not even in an attempt that fails.
ListenerCloseReaches ==
  /\ \A n \in Pairs :
       (n \in toD /\ tcp[n] = "open" /\ mt = n /\ mon \in {"check", "read"})
         ~> ((mon = "exit" /\ cur = n /\ udp[n] = "closed" /\ tcp[n] = "closed")
              \/ n \in broken)
  /\ [](ended = "CLOSE" => mon # "dial")

\* The listener replies to no address but one whose socket the dialer has made and
\* announced itself, however late, often and out of order datagrams arrive.
KnowsAnnounced ==
  sessKeyToSessAddr[Key] # None => sessKeyToSessAddr[Key] \in meta \cap (1 .. made)

\* A dialed session takes itself to be closed by its peer only if the listener's
\* Close has got as far as telling it: no end of a connection, reconnect or late
\* message looks like a CLOSE.
EndedByClose == ended = "CLOSE" => lClosing["app"] \in {"udp", "clear", "done"}

\* What the comment of UdpSession says of reconnecting ("without interrupting
\* application usage"): the metadata of the dialer's present socket, when it
\* arrives, is not ignored in favour of an address the dialer has left.
ReconnectIsHeard ==
  [][(lRecv = "session" /\ lRecv' = "get" /\ rdial = cur) =>
       sessKeyToSessAddr[Key] = cur]_sysVars
=============================================================================
