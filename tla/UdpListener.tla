----------------------------- MODULE UdpListener -----------------------------
(***************************************************************************)
(* The listening end of the UDP mode (udp.go, udpsession.go): ListenUDP,   *)
(* the goroutine recvMsg that learns sessions from datagrams, a goroutine  *)
(* per TCP connection that watches a dialer (handleUdpListenerTcp), and    *)
(* Close.  A dialer makes one UDP socket and one TCP connection in each    *)
(* DialUpSession; both are named by the dial that made them.  User data is *)
(* modelled in UdpRecvBuffer.                                              *)
(***************************************************************************)
CONSTANTS
  Dials,    \* dials that got as far as a UDP socket and a TCP connection
  Keys,     \* session keys
  KeyOf,    \* dial -> the key of its session
  None      \* no entry in a map

ASSUME KeyOfAssumption == KeyOf \in [Dials -> Keys]

ASSUME NoneAssumption == None \notin Dials \cup Keys

VARIABLES
  sess,               \* c.listenerUdpSess and its udpConn
  isClosed,           \* c.isClosed
  sessKeyToSessAddr,  \* key -> the dial whose UDP address is known, or None
  udpAddrToSessAddr,  \* UDP address, named by its dial -> key, or None
  tcpConns,           \* key -> TCP connection, named by its dial, or None
  recv,               \* program counter of recvMsg
  rdial,              \* the sender of the metadata recvMsg works on
  mon,                \* dial -> program counter of its connection's goroutine
  link,               \* dial -> its TCP connection, seen from here
  closing             \* caller of Close -> its program counter

tables == <<sessKeyToSessAddr, udpAddrToSessAddr, tcpConns>>
recvVars == <<recv, rdial>>
vars == <<sess, isClosed, tables, recvVars, mon, link, closing>>

\* the application, on its UdpSession, and TunaSessionClient.Close
Closers == {"app", "client"}

\* The variables hold what their Go counterparts can hold.
TypeOK ==
  /\ sess \in {"nil", "starting", "failed", "open", "closed"}
  /\ isClosed \in BOOLEAN
  /\ sessKeyToSessAddr \in [Keys -> Dials \cup {None}]
  /\ udpAddrToSessAddr \in [Dials -> Keys \cup {None}]
  /\ tcpConns \in [Keys -> Dials \cup {None}]
  /\ recv \in {"off", "get", "read", "session", "insert", "codec", "close",
               "gone", "exit"}
  /\ rdial \in Dials \cup {None}
  /\ mon \in [Dials -> {"none", "check", "read", "delete", "done"}]
  /\ link \in [Dials -> {"none", "open", "lost", "closed"}]
  /\ closing \in [Closers -> {"idle", "send", "udp", "clear", "mark", "done"}]

InitWith(session, receiver) ==
  /\ sess = session
  /\ isClosed = FALSE
  /\ sessKeyToSessAddr = [k \in Keys |-> None]
  /\ udpAddrToSessAddr = [d \in Dials |-> None]
  /\ tcpConns = [k \in Keys |-> None]
  /\ recv = receiver
  /\ rdial = None
  /\ mon = [d \in Dials |-> "none"]
  /\ link = [d \in Dials |-> "none"]
  /\ closing = [p \in Closers |-> "idle"]

Init == InitWith("nil", "off")

\* GetEstablishedUDPConn returns no error
Established == ~isClosed /\ sess = "open"

-----------------------------------------------------------------------------
(* ListenUDP: the session is there before its UDP connection is *)

ListenUDP ==
  /\ sess = "nil"
  /\ sess' = "starting"
  /\ UNCHANGED <<isClosed, tables, recvVars, mon, link, closing>>

\* startExits or net.ListenUDP fails; a second call returns the session
ListenUDPErr ==
  /\ sess = "starting"
  /\ sess' = "failed"
  /\ UNCHANGED <<isClosed, tables, recvVars, mon, link, closing>>

ListenUDPOk ==
  /\ sess = "starting"
  /\ sess' = "open"
  /\ recv' = "get"
  /\ UNCHANGED <<isClosed, tables, rdial, mon, link, closing>>

-----------------------------------------------------------------------------
(* The goroutine recvMsg *)

RecvGet ==
  /\ recv = "get"
  /\ recv' = IF Established THEN "read" ELSE "exit"
  /\ UNCHANGED <<sess, isClosed, tables, rdial, mon, link, closing>>

\* a read error (Close has closed the connection), or a datagram that leaves
\* the tables alone: user data, another header, a message that does not parse
RecvOther ==
  /\ recv = "read"
  /\ recv' = "get"
  /\ UNCHANGED <<sess, isClosed, tables, rdial, mon, link, closing>>

\* a SESSION datagram from d's socket: SESSIONID or CLOSE
RecvMeta(d, m) ==
  /\ recv = "read"
  /\ sess = "open"
  /\ recv' = m
  /\ rdial' = d
  /\ UNCHANGED <<sess, isClosed, tables, mon, link, closing>>

\* handleMetaData, SESSIONID: the map is read without the lock
LookSession ==
  /\ recv = "session"
  /\ recv' = IF sessKeyToSessAddr[KeyOf[rdial]] = None THEN "insert" ELSE "get"
  /\ UNCHANGED <<sess, isClosed, tables, rdial, mon, link, closing>>

\* bug: only the map used for replies is written
InsertReplyOnly ==
  /\ recv = "insert"
  /\ sessKeyToSessAddr' = [sessKeyToSessAddr EXCEPT ![KeyOf[rdial]] = rdial]
  /\ recv' = "codec"
  /\ UNCHANGED <<sess, isClosed, udpAddrToSessAddr, tcpConns, rdial,
                 mon, link, closing>>

Insert ==
  /\ recv = "insert"
  /\ sessKeyToSessAddr' = [sessKeyToSessAddr EXCEPT ![KeyOf[rdial]] = rdial]
  /\ udpAddrToSessAddr' = [udpAddrToSessAddr EXCEPT ![rdial] = KeyOf[rdial]]
  /\ recv' = "codec"
  /\ UNCHANGED <<sess, isClosed, tcpConns, rdial, mon, link, closing>>

\* addCodec: from now on user data from the address can be decrypted
AddCodec ==
  /\ recv = "codec"
  /\ recv' = "get"
  /\ UNCHANGED <<sess, isClosed, tables, rdial, mon, link, closing>>

\* handleMetaData, CLOSE: the other map is read without the lock, too
LookClose ==
  /\ recv = "close"
  /\ recv' = IF udpAddrToSessAddr[rdial] # None THEN "gone" ELSE "get"
  /\ UNCHANGED <<sess, isClosed, tables, rdial, mon, link, closing>>

\* bug: the connection leaves its map and stays open
ForgetOpen(k) ==
  LET d == sessKeyToSessAddr[k]
  IN IF d = None THEN UNCHANGED <<tables, link>>
     ELSE /\ sessKeyToSessAddr' = [sessKeyToSessAddr EXCEPT ![k] = None]
          /\ udpAddrToSessAddr' = [udpAddrToSessAddr EXCEPT ![d] = None]
          /\ tcpConns' = [tcpConns EXCEPT ![k] = None]
          /\ UNCHANGED link

\* handleConnClosed does nothing for a key whose address is not known
HandleConnClosed(k) ==
  LET d == sessKeyToSessAddr[k]
      t == tcpConns[k]
  IN IF d = None THEN UNCHANGED <<tables, link>>
     ELSE /\ sessKeyToSessAddr' = [sessKeyToSessAddr EXCEPT ![k] = None]
          /\ udpAddrToSessAddr' = [udpAddrToSessAddr EXCEPT ![d] = None]
          /\ tcpConns' = [tcpConns EXCEPT ![k] = None]
          /\ link' = [e \in Dials |-> IF e = t THEN "closed" ELSE link[e]]

\* the key is the one read by LookClose; its entry may have left the map since
RecvGone ==
  /\ recv = "gone"
  /\ HandleConnClosed(KeyOf[rdial])
  /\ recv' = "get"
  /\ UNCHANGED <<sess, isClosed, rdial, mon, closing>>

-----------------------------------------------------------------------------
(* handleUdpListenerTcp and the goroutine that watches the connection *)

\* the new connection of a dialer that lost its last one may come before the end
\* of that one
TcpAccept(d) ==
  /\ mon[d] = "none"
  /\ IF sess = "nil"
     THEN /\ link' = [link EXCEPT ![d] = "closed"]
          /\ mon' = [mon EXCEPT ![d] = "done"]
          /\ UNCHANGED tcpConns
     ELSE /\ link' = [link EXCEPT ![d] = "open"]
          /\ mon' = [mon EXCEPT ![d] = "check"]
          /\ tcpConns' = [tcpConns EXCEPT ![KeyOf[d]] = d]
  /\ UNCHANGED <<sess, isClosed, sessKeyToSessAddr, udpAddrToSessAddr, recvVars,
                 closing>>

MonGoto(d, p) == mon' = [mon EXCEPT ![d] = p]

MonCheck(d) ==
  /\ mon[d] = "check"
  /\ MonGoto(d, IF Established THEN "read" ELSE "delete")
  /\ UNCHANGED <<sess, isClosed, tables, recvVars, link, closing>>

\* a message other than CLOSE
MonOther(d) ==
  /\ mon[d] = "read"
  /\ link[d] = "open"
  /\ MonGoto(d, "check")
  /\ UNCHANGED <<sess, isClosed, tables, recvVars, link, closing>>

\* CLOSE, written before the connection broke if it did
MonClose(d) ==
  /\ mon[d] = "read"
  /\ link[d] \in {"open", "lost"}
  /\ HandleConnClosed(KeyOf[d])
  /\ MonGoto(d, "delete")
  /\ UNCHANGED <<sess, isClosed, recvVars, closing>>

MonErr(d) ==
  /\ mon[d] = "read"
  /\ link[d] # "open"
  /\ MonGoto(d, "delete")
  /\ UNCHANGED <<sess, isClosed, tables, recvVars, link, closing>>

\* bug: the goroutine returns without removing its connection
MonLeave(d) ==
  /\ mon[d] = "delete"
  /\ MonGoto(d, "done")
  /\ UNCHANGED <<sess, isClosed, tables, recvVars, link, closing>>

\* whatever connection the key has by now
MonDelete(d) ==
  /\ mon[d] = "delete"
  /\ tcpConns' = [tcpConns EXCEPT ![KeyOf[d]] = None]
  /\ MonGoto(d, "done")
  /\ UNCHANGED <<sess, isClosed, sessKeyToSessAddr, udpAddrToSessAddr, recvVars,
                 link, closing>>

-----------------------------------------------------------------------------
(* Close, in three steps: it holds the lock only in the first and the last *)

\* the application has the session once ListenUDP returned it, and
\* TunaSessionClient.Close goes on to isClosed when there is none
CloseStart(p) ==
  /\ closing[p] = "idle"
  /\ p = "app" => sess \notin {"nil", "starting"}
  /\ closing' = [closing EXCEPT ![p] = IF sess = "nil" THEN "mark" ELSE "send"]
  /\ UNCHANGED <<sess, isClosed, tables, recvVars, mon, link>>

\* the connections sendCloseMsg(nil) writes CLOSE to: those of the sessions
\* whose address is known
CloseTargets ==
  {d \in Dials : \E k \in Keys : tcpConns[k] = d /\ sessKeyToSessAddr[k] # None}

\* the writes change nothing at this end
CloseSend(p) ==
  /\ closing[p] = "send"
  /\ closing' = [closing EXCEPT ![p] = "udp"]
  /\ UNCHANGED <<sess, isClosed, tables, recvVars, mon, link>>

CloseUdp(p) ==
  /\ closing[p] = "udp"
  /\ sess' = IF Established THEN "closed" ELSE sess
  /\ closing' = [closing EXCEPT ![p] = "clear"]
  /\ UNCHANGED <<isClosed, tables, recvVars, mon, link>>

\* bug: the addresses are left in the maps
CloseClearConns(p) ==
  /\ closing[p] = "clear"
  /\ tcpConns' = [k \in Keys |-> None]
  /\ link' = [d \in Dials |-> IF \E k \in Keys : tcpConns[k] = d THEN "closed" ELSE link[d]]
  /\ closing' = [closing EXCEPT ![p] = IF p = "client" THEN "mark" ELSE "done"]
  /\ UNCHANGED <<sess, isClosed, sessKeyToSessAddr, udpAddrToSessAddr, recvVars,
                 mon>>

\* new maps, and every connection in the old one is closed
CloseClear(p) ==
  /\ closing[p] = "clear"
  /\ sessKeyToSessAddr' = [k \in Keys |-> None]
  /\ udpAddrToSessAddr' = [d \in Dials |-> None]
  /\ tcpConns' = [k \in Keys |-> None]
  /\ link' = [d \in Dials |-> IF \E k \in Keys : tcpConns[k] = d THEN "closed" ELSE link[d]]
  /\ closing' = [closing EXCEPT ![p] = IF p = "client" THEN "mark" ELSE "done"]
  /\ UNCHANGED <<sess, isClosed, recvVars, mon>>

CloseMark(p) ==
  /\ closing[p] = "mark"
  /\ isClosed' = TRUE
  /\ closing' = [closing EXCEPT ![p] = "done"]
  /\ UNCHANGED <<sess, tables, recvVars, mon, link>>

\* external: the dialer or a node between breaks the connection
Lose(d) ==
  /\ link[d] = "open"
  /\ link' = [link EXCEPT ![d] = "lost"]
  /\ UNCHANGED <<sess, isClosed, tables, recvVars, mon, closing>>

-----------------------------------------------------------------------------
Monitor(d) ==
  \/ MonCheck(d) \/ MonOther(d) \/ MonClose(d) \/ MonErr(d) \/ MonDelete(d)

Receiver ==
  \/ RecvGet \/ RecvOther \/ LookSession \/ Insert \/ AddCodec \/ LookClose
  \/ RecvGone \/ \E d \in Dials, m \in {"session", "close"} : RecvMeta(d, m)

Closer(p) == CloseSend(p) \/ CloseUdp(p) \/ CloseClear(p) \/ CloseMark(p)

Next ==
  \/ ListenUDP \/ ListenUDPErr \/ ListenUDPOk \/ Receiver
  \/ \E d \in Dials : TcpAccept(d) \/ Monitor(d) \/ Lose(d)
  \/ \E p \in Closers : CloseStart(p) \/ Closer(p)

Spec == Init /\ [][Next]_vars

\* a read of a closed socket returns
ReadFails(d) == MonCheck(d) \/ MonErr(d) \/ MonDelete(d)

\* goroutines are scheduled; no dialer and no network has to do anything
FairSpec ==
  /\ Spec
  /\ \A d \in Dials : WF_vars(ReadFails(d))
  /\ \A p \in Closers : WF_vars(Closer(p))

-----------------------------------------------------------------------------
(* Properties *)

\* The two address maps are inverse to each other: data from an address is
\* handed up under a key if and only if a reply under that key goes back to
\* the address.  handleMetaData looks the key up without the lock and writes
\* the maps in a later step, while connections are closed in between.
MapsAgree ==
  \A k \in Keys, d \in Dials :
    sessKeyToSessAddr[k] = d <=> udpAddrToSessAddr[d] = k

\* Once Close is through, the only session the maps can hold is the one whose
\* metadata recvMsg had read before: no session is learned afterwards.
ClosedForgets ==
  (sess = "closed" /\ \A p \in Closers : closing[p] # "clear") =>
    \A k \in Keys : sessKeyToSessAddr[k] \in {None, rdial}

\* the listener watches an unbroken connection of a session it knows
Watched(d) ==
  /\ mon[d] \in {"check", "read"}
  /\ link[d] = "open"
  /\ sessKeyToSessAddr[KeyOf[d]] # None

\* no other dial of d's session has connected
OnlyDial(d) ==
  \A e \in Dials \ {d} : KeyOf[e] = KeyOf[d] => mon[e] = "none"

\* Close sends its message to all dialers, as sendCloseMsg says of its loop: to
\* every session the listener knows and has an unbroken connection with, unless
\* the session was dialed again (the goroutine of an old connection takes the new
\* one out of tcpConns).
CloseTellsAll ==
  \A d \in Dials : Watched(d) /\ OnlyDial(d) => d \in CloseTargets

\* A connection that is in tcpConns when the UDP connection is closed, or is put
\* there later, leaves the map: the goroutine that watches it does not outlive
\* the session.
ClosedConnsLeave ==
  \A d \in Dials :
    (sess = "closed" /\ tcpConns[KeyOf[d]] = d) ~> (tcpConns[KeyOf[d]] # d)
=============================================================================
