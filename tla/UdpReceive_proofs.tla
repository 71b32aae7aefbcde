------------------------- MODULE UdpReceive_proofs --------------------------
(***************************************************************************)
(* The receiving end of the UDP mode: what the listener learns from        *)
(* datagrams, and what a session keeps of them for ReadFrom.  The two      *)
(* share no state and no name.                                             *)
(***************************************************************************)
EXTENDS UdpListener, UdpRecvBuffer, FiniteSetTheorems, SequenceTheorems, TLAPS

-----------------------------------------------------------------------------
(***************************************************************************)
(* The tables of the UDP listener, for any number of dialers and sessions: *)
(* the two address maps stay inverse to each other although handleMetaData *)
(* looks its key up before it takes the lock, a closed session learns no   *)
(* other dialer, and where no dialer redials Close reaches all of them.    *)
(***************************************************************************)

\* what recvMsg has looked up still holds when it takes the lock: recvMsg is the
\* only one to insert
LookedUp ==
  /\ recv \in {"session", "insert", "codec", "close", "gone"} => rdial \in Dials
  /\ recv = "insert" => sessKeyToSessAddr[KeyOf[rdial]] = None

\* an address is stored under the key of its own session
OwnKey == \A k \in Keys, d \in Dials : sessKeyToSessAddr[k] = d => k = KeyOf[d]

MapsInv == TypeOK /\ LookedUp /\ OwnKey /\ MapsAgree

\* ListenUDP starts with empty maps.
LEMMA InitMaps == Init => MapsInv
<1> SUFFICES ASSUME Init
             PROVE  MapsInv
  OBVIOUS
<1>1. TypeOK
  BY Zenon DEF Init, InitWith, TypeOK
<1>2. LookedUp
  BY DEF Init, InitWith, LookedUp
<1>3. OwnKey /\ MapsAgree
  BY NoneAssumption DEF Init, InitWith, OwnKey, MapsAgree
<1> QED BY <1>1, <1>2, <1>3 DEF MapsInv

\* handleConnClosed removes an address from both maps.
LEMMA HandleConnClosedMaps ==
  ASSUME MapsInv, NEW k \in Keys, HandleConnClosed(k)
  PROVE  /\ sessKeyToSessAddr' \in [Keys -> Dials \cup {None}]
         /\ udpAddrToSessAddr' \in [Dials -> Keys \cup {None}]
         /\ tcpConns' \in [Keys -> Dials \cup {None}]
         /\ link' \in [Dials -> {"none", "open", "lost", "closed"}]
         /\ OwnKey' /\ MapsAgree'
         /\ \A j \in Keys : sessKeyToSessAddr'[j] \in {None, sessKeyToSessAddr[j]}
<1>1. CASE sessKeyToSessAddr[k] = None
  BY <1>1 DEF MapsInv, TypeOK, OwnKey, MapsAgree, HandleConnClosed, tables
<1>2. CASE sessKeyToSessAddr[k] # None
  <2>1. PICK d \in Dials : d = sessKeyToSessAddr[k]
    BY <1>2 DEF MapsInv, TypeOK
  <2>2. /\ sessKeyToSessAddr' = [sessKeyToSessAddr EXCEPT ![k] = None]
        /\ udpAddrToSessAddr' = [udpAddrToSessAddr EXCEPT ![d] = None]
        /\ tcpConns' = [tcpConns EXCEPT ![k] = None]
    BY <1>2, <2>1 DEF HandleConnClosed
  <2>3. link' \in [Dials -> {"none", "open", "lost", "closed"}]
    BY Zenon, <1>2 DEF HandleConnClosed, MapsInv, TypeOK
  <2>4. udpAddrToSessAddr[d] = k
    BY <2>1 DEF MapsInv, MapsAgree
  <2>5. OwnKey'
    BY <2>2, NoneAssumption DEF MapsInv, TypeOK, OwnKey
  <2>6. MapsAgree'
    BY <2>1, <2>2, <2>4, NoneAssumption DEF MapsInv, TypeOK, MapsAgree
  <2>7. /\ sessKeyToSessAddr' \in [Keys -> Dials \cup {None}]
        /\ udpAddrToSessAddr' \in [Dials -> Keys \cup {None}]
        /\ tcpConns' \in [Keys -> Dials \cup {None}]
        /\ \A j \in Keys : sessKeyToSessAddr'[j] \in {None, sessKeyToSessAddr[j]}
    BY <2>1, <2>2 DEF MapsInv, TypeOK
  <2> QED BY Zenon, <2>3, <2>5, <2>6, <2>7
<1> QED BY <1>1, <1>2

\* Every step of the listener keeps the maps inverse to each other.
LEMMA NextMaps == MapsInv /\ [Next]_vars => MapsInv'
<1> SUFFICES ASSUME MapsInv, [Next]_vars
             PROVE  MapsInv'
  OBVIOUS
<1>1. CASE \/ ListenUDP \/ ListenUDPErr \/ ListenUDPOk \/ RecvGet \/ RecvOther
           \/ AddCodec \/ LookClose
  BY <1>1 DEF ListenUDP, ListenUDPErr, ListenUDPOk, RecvGet, RecvOther, AddCodec, LookClose,
     MapsInv, TypeOK, LookedUp, OwnKey, MapsAgree, tables, recvVars
<1>2. ASSUME NEW d \in Dials, NEW m \in {"session", "close"}, RecvMeta(d, m)
      PROVE  MapsInv'
  BY <1>2 DEF RecvMeta, MapsInv, TypeOK, LookedUp, OwnKey, MapsAgree, tables
<1>3. CASE LookSession
  BY <1>3 DEF LookSession, MapsInv, TypeOK, LookedUp, OwnKey, MapsAgree, tables
<1>4. CASE Insert
  <2>1. rdial \in Dials /\ KeyOf[rdial] \in Keys
    BY <1>4, KeyOfAssumption DEF Insert, MapsInv, LookedUp
  <2>2. sessKeyToSessAddr[KeyOf[rdial]] = None
    BY <1>4 DEF Insert, MapsInv, LookedUp
  <2>3. udpAddrToSessAddr[rdial] = None
    BY <2>1, <2>2, NoneAssumption DEF MapsInv, TypeOK, OwnKey, MapsAgree
  <2>4. TypeOK' /\ LookedUp'
    BY <1>4, <2>1 DEF Insert, MapsInv, TypeOK, LookedUp
  <2>5. OwnKey'
    BY <1>4, <2>1 DEF Insert, MapsInv, TypeOK, OwnKey
  <2>6. MapsAgree'
    BY <1>4, <2>1, <2>2, <2>3, NoneAssumption DEF Insert, MapsInv, TypeOK, MapsAgree
  <2> QED BY <2>4, <2>5, <2>6 DEF MapsInv
<1>5. CASE RecvGone
  <2>1. rdial \in Dials /\ KeyOf[rdial] \in Keys
    BY <1>5, KeyOfAssumption DEF RecvGone, MapsInv, LookedUp
  <2>2. HandleConnClosed(KeyOf[rdial])
    BY <1>5 DEF RecvGone
  <2> QED BY <1>5, <2>1, <2>2, HandleConnClosedMaps DEF RecvGone, MapsInv, TypeOK, LookedUp
<1>6. ASSUME NEW d \in Dials, TcpAccept(d)
      PROVE  MapsInv'
  BY <1>6, KeyOfAssumption
     DEF TcpAccept, MapsInv, TypeOK, LookedUp, OwnKey, MapsAgree, recvVars
<1>7. ASSUME NEW d \in Dials, MonCheck(d) \/ MonOther(d) \/ MonErr(d) \/ Lose(d)
      PROVE  MapsInv'
  BY <1>7 DEF MonCheck, MonOther, MonErr, Lose, MonGoto, MapsInv, TypeOK, LookedUp, OwnKey,
     MapsAgree, tables, recvVars
<1>8. ASSUME NEW d \in Dials, MonClose(d)
      PROVE  MapsInv'
  <2>1. KeyOf[d] \in Keys
    BY KeyOfAssumption
  <2>2. HandleConnClosed(KeyOf[d])
    BY <1>8 DEF MonClose
  <2>3. /\ sessKeyToSessAddr' \in [Keys -> Dials \cup {None}]
        /\ udpAddrToSessAddr' \in [Dials -> Keys \cup {None}]
        /\ tcpConns' \in [Keys -> Dials \cup {None}]
        /\ link' \in [Dials -> {"none", "open", "lost", "closed"}]
        /\ OwnKey' /\ MapsAgree'
        /\ \A j \in Keys : sessKeyToSessAddr'[j] \in {None, sessKeyToSessAddr[j]}
    BY Zenon, <2>1, <2>2, HandleConnClosedMaps
  <2>4. TypeOK'
    BY ZenonT(40), <1>8, <2>3 DEF MonClose, MonGoto, MapsInv, TypeOK, recvVars
  <2>5. LookedUp'
    BY <1>8, <2>3, KeyOfAssumption DEF MonClose, MapsInv, LookedUp, recvVars
  <2> QED BY <2>3, <2>4, <2>5 DEF MapsInv
<1>9. ASSUME NEW d \in Dials, MonDelete(d)
      PROVE  MapsInv'
  <2>1. TypeOK'
    BY Zenon, <1>9, KeyOfAssumption DEF MonDelete, MonGoto, MapsInv, TypeOK, recvVars
  <2>2. UNCHANGED <<sessKeyToSessAddr, udpAddrToSessAddr, recvVars>>
    BY <1>9 DEF MonDelete
  <2> QED BY <2>1, <2>2 DEF MapsInv, LookedUp, OwnKey, MapsAgree, recvVars
<1>10. ASSUME NEW p \in Closers, CloseStart(p) \/ CloseSend(p) \/ CloseUdp(p) \/ CloseMark(p)
       PROVE  MapsInv'
  <2>1. /\ UNCHANGED <<tables, recvVars, mon, link>>
        /\ sess' \in {sess, "closed"}
        /\ isClosed' \in {isClosed, TRUE}
    BY Zenon, <1>10 DEF CloseStart, CloseSend, CloseUdp, CloseMark
  <2>2. closing' \in [Closers -> {"idle", "send", "udp", "clear", "mark", "done"}]
    BY <1>10 DEF CloseStart, CloseSend, CloseUdp, CloseMark, MapsInv, TypeOK
  <2>3. TypeOK'
    BY Zenon, <2>1, <2>2 DEF MapsInv, TypeOK, tables, recvVars
  <2> QED BY <2>1, <2>3 DEF MapsInv, LookedUp, OwnKey, MapsAgree, tables, recvVars
<1>11. ASSUME NEW p \in Closers, CloseClear(p)
       PROVE  MapsInv'
  <2>1. OwnKey' /\ MapsAgree'
    BY <1>11, NoneAssumption DEF CloseClear, OwnKey, MapsAgree
  <2>2. TypeOK'
    BY <1>11 DEF CloseClear, MapsInv, TypeOK, recvVars
  <2>3. LookedUp'
    BY <1>11, KeyOfAssumption DEF CloseClear, MapsInv, LookedUp, recvVars
  <2> QED BY <2>1, <2>2, <2>3 DEF MapsInv
<1>12. CASE UNCHANGED vars
  BY <1>12 DEF vars, MapsInv, TypeOK, LookedUp, OwnKey, MapsAgree, tables, recvVars
<1> QED BY Zenon, <1>1, <1>2, <1>3, <1>4, <1>5, <1>6, <1>7, <1>8, <1>9, <1>10, <1>11, <1>12
     DEF Next, Receiver, Monitor, Closer

\* The inductive invariant.
THEOREM MapsInvariant == Spec => []MapsInv
BY InitMaps, NextMaps, PTL DEF Spec

\* The variables of the listener keep their types.
THEOREM ListenerTypes == Spec => []TypeOK
<1>1. MapsInv => TypeOK
  BY DEF MapsInv
<1> QED BY <1>1, MapsInvariant, PTL

\* sessKeyToSessAddr and udpAddrToSessAddr are inverse to each other.
THEOREM MapsAgreeHolds == Spec => []MapsAgree
<1>1. MapsInv => MapsAgree
  BY DEF MapsInv
<1> QED BY <1>1, MapsInvariant, PTL

-----------------------------------------------------------------------------
\* A step that adds no address keeps what a closed session has forgotten.
LEMMA FewerForgotten ==
  ASSUME MapsInv, ClosedForgets, UNCHANGED <<sess, rdial, closing>>,
         \A j \in Keys : sessKeyToSessAddr'[j] \in {None, sessKeyToSessAddr[j]}
  PROVE  ClosedForgets'
BY DEF ClosedForgets

\* Once Close is through, the listener knows no session but the one whose metadata
\* recvMsg had read before.
THEOREM ClosedForgetsHolds == Spec => []ClosedForgets
<1>1. Init => ClosedForgets
  BY DEF Init, InitWith, ClosedForgets
<1>2. ASSUME MapsInv, ClosedForgets, [Next]_vars
      PROVE  ClosedForgets'
  <2>1. CASE ListenUDP \/ ListenUDPErr \/ ListenUDPOk
    BY <2>1 DEF ListenUDP, ListenUDPErr, ListenUDPOk, ClosedForgets
  <2>2. ASSUME NEW d \in Dials, NEW m \in {"session", "close"}, RecvMeta(d, m)
        PROVE  ClosedForgets'
    BY <2>2 DEF RecvMeta, ClosedForgets
  <2>3. CASE RecvGet \/ RecvOther \/ LookSession \/ AddCodec \/ LookClose
    BY <1>2, <2>3 DEF RecvGet, RecvOther, LookSession, AddCodec, LookClose, ClosedForgets, tables
  <2>4. CASE Insert
    BY <1>2, <2>4 DEF Insert, ClosedForgets, MapsInv, TypeOK
  <2>5. CASE RecvGone
    <3>1. KeyOf[rdial] \in Keys
      BY <1>2, <2>5, KeyOfAssumption DEF RecvGone, MapsInv, LookedUp
    <3>2. HandleConnClosed(KeyOf[rdial]) /\ UNCHANGED <<sess, rdial, closing>>
      BY <2>5 DEF RecvGone
    <3>3. \A j \in Keys : sessKeyToSessAddr'[j] \in {None, sessKeyToSessAddr[j]}
      BY Zenon, <1>2, <3>1, <3>2, HandleConnClosedMaps
    <3> QED BY Zenon, <1>2, <3>2, <3>3, FewerForgotten
  <2>6. ASSUME NEW d \in Dials, MonClose(d)
        PROVE  ClosedForgets'
    <3>1. KeyOf[d] \in Keys
      BY KeyOfAssumption
    <3>2. HandleConnClosed(KeyOf[d]) /\ UNCHANGED <<sess, rdial, closing>>
      BY <2>6 DEF MonClose, recvVars
    <3>3. \A j \in Keys : sessKeyToSessAddr'[j] \in {None, sessKeyToSessAddr[j]}
      BY Zenon, <1>2, <3>1, <3>2, HandleConnClosedMaps
    <3> QED BY Zenon, <1>2, <3>2, <3>3, FewerForgotten
  <2>7. ASSUME NEW d \in Dials,
               \/ TcpAccept(d) \/ MonCheck(d) \/ MonOther(d) \/ MonErr(d) \/ MonDelete(d)
               \/ Lose(d)
        PROVE  ClosedForgets'
    BY <1>2, <2>7 DEF TcpAccept, MonCheck, MonOther, MonErr, MonDelete, Lose, ClosedForgets,
       tables, recvVars
  <2>8. ASSUME NEW p \in Closers, CloseStart(p) \/ CloseSend(p) \/ CloseMark(p)
        PROVE  ClosedForgets'
    <3>1. UNCHANGED <<sess, sessKeyToSessAddr, rdial>>
      BY <2>8 DEF CloseStart, CloseSend, CloseMark, tables, recvVars
    <3>2. \A q \in Closers : closing[q] = "clear" => closing'[q] = "clear"
      BY <1>2, <2>8 DEF CloseStart, CloseSend, CloseMark, MapsInv, TypeOK
    <3> QED BY <1>2, <3>1, <3>2 DEF ClosedForgets
  <2>9. ASSUME NEW p \in Closers, CloseUdp(p)
        PROVE  ClosedForgets'
    <3>1. closing'[p] = "clear"
      BY <1>2, <2>9 DEF CloseUdp, MapsInv, TypeOK
    <3> QED BY <3>1 DEF ClosedForgets
  <2>10. ASSUME NEW p \in Closers, CloseClear(p)
         PROVE  ClosedForgets'
    BY <2>10 DEF CloseClear, ClosedForgets
  <2>11. CASE UNCHANGED vars
    BY <1>2, <2>11 DEF vars, tables, recvVars, ClosedForgets
  <2> QED BY Zenon, <1>2, <2>1, <2>2, <2>3, <2>4, <2>5, <2>6, <2>7, <2>8, <2>9, <2>10, <2>11
       DEF Next, Receiver, Monitor, Closer
<1> QED BY <1>1, <1>2, MapsInvariant, PTL DEF Spec

-----------------------------------------------------------------------------
\* the only connection of a session, watched and unbroken, is the one its key has
\* in tcpConns
InTable ==
  \A d \in Dials :
    mon[d] \in {"check", "read"} /\ link[d] = "open" /\ OnlyDial(d) =>
      tcpConns[KeyOf[d]] = d

\* handleConnClosed closes the connection it takes out of the table.
LEMMA HandleConnClosedTable ==
  ASSUME MapsInv, InTable, NEW k \in Keys, HandleConnClosed(k),
         NEW d \in Dials, mon[d] \in {"check", "read"}, link'[d] = "open", OnlyDial(d)
  PROVE  tcpConns'[KeyOf[d]] = d
<1>1. CASE sessKeyToSessAddr[k] = None
  BY <1>1 DEF HandleConnClosed, InTable, tables
<1>2. CASE sessKeyToSessAddr[k] # None
  <2>1. /\ tcpConns' = [tcpConns EXCEPT ![k] = None]
        /\ link'[d] = IF d = tcpConns[k] THEN "closed" ELSE link[d]
    BY Zenon, <1>2 DEF HandleConnClosed
  <2>2. link[d] = "open" /\ d # tcpConns[k]
    BY <2>1
  <2> QED BY <2>1, <2>2, KeyOfAssumption DEF InTable, MapsInv, TypeOK
<1> QED BY <1>1, <1>2

\* The goroutine of a connection never starts anew.
LEMMA OnlyBefore ==
  ASSUME [Next]_vars, MapsInv, NEW d \in Dials, OnlyDial(d)'
  PROVE  OnlyDial(d)
<1> SUFFICES ASSUME NEW e \in Dials, mon[e] # "none"
             PROVE  mon'[e] # "none"
  BY DEF OnlyDial
<1>1. mon' = mon \/ \E c \in Dials, p \in {"check", "read", "delete", "done"} :
                     mon' = [mon EXCEPT ![c] = p]
  BY Zenon DEF Next, Receiver, Monitor, Closer, ListenUDP, ListenUDPErr, ListenUDPOk, RecvGet,
     RecvOther, LookSession, Insert, AddCodec, LookClose, RecvGone, RecvMeta, TcpAccept,
     MonCheck, MonOther, MonClose, MonErr, MonDelete, MonGoto, Lose, CloseStart, CloseSend,
     CloseUdp, CloseClear, CloseMark, vars
<1> QED BY <1>1 DEF MapsInv, TypeOK

\* Close writes its message to the connection of every dialer the listener knows
\* and watches, if it is the only connection the session has had.
THEOREM CloseTellsAllHolds == Spec => []CloseTellsAll
<1>1. Init => InTable
  BY DEF Init, InitWith, InTable
<1>2. ASSUME MapsInv, InTable, [Next]_vars
      PROVE  InTable'
  <2>0. \A d \in Dials : OnlyDial(d)' => OnlyDial(d)
    BY <1>2, OnlyBefore
  <2>1. CASE UNCHANGED <<mon, link, tcpConns>>
    BY <1>2, <2>0, <2>1 DEF InTable
  <2>2. CASE RecvGone
    <3>1. KeyOf[rdial] \in Keys
      BY <1>2, <2>2, KeyOfAssumption DEF RecvGone, MapsInv, LookedUp
    <3>2. HandleConnClosed(KeyOf[rdial]) /\ UNCHANGED mon
      BY <2>2 DEF RecvGone
    <3> QED BY Zenon, <1>2, <2>0, <3>1, <3>2, HandleConnClosedTable DEF InTable
  <2>3. ASSUME NEW d \in Dials, MonClose(d)
        PROVE  InTable'
    <3>1. KeyOf[d] \in Keys
      BY KeyOfAssumption
    <3>2. HandleConnClosed(KeyOf[d])
      BY <2>3 DEF MonClose
    <3>3. \A e \in Dials : mon'[e] \in {"check", "read"} => mon[e] \in {"check", "read"}
      BY <1>2, <2>3 DEF MonClose, MonGoto, MapsInv, TypeOK
    <3> QED BY Zenon, <1>2, <2>0, <3>1, <3>2, <3>3, HandleConnClosedTable DEF InTable
  <2>4. ASSUME NEW d \in Dials, TcpAccept(d)
        PROVE  InTable'
    BY <1>2, <2>4, KeyOfAssumption DEF TcpAccept, InTable, OnlyDial, MapsInv, TypeOK
  <2>5. ASSUME NEW d \in Dials, MonCheck(d) \/ MonOther(d) \/ MonErr(d)
        PROVE  InTable'
    <3>1. UNCHANGED <<link, tcpConns>>
      BY <2>5 DEF MonCheck, MonOther, MonErr, tables
    <3>2. \A e \in Dials : mon'[e] \in {"check", "read"} => mon[e] \in {"check", "read"}
      BY <1>2, <2>5 DEF MonCheck, MonOther, MonErr, MonGoto, MapsInv, TypeOK
    <3> QED BY <1>2, <2>0, <3>1, <3>2 DEF InTable
  <2>6. ASSUME NEW d \in Dials, MonDelete(d)
        PROVE  InTable'
    BY <1>2, <2>6, KeyOfAssumption DEF MonDelete, MonGoto, InTable, OnlyDial, MapsInv, TypeOK
  <2>7. ASSUME NEW d \in Dials, Lose(d)
        PROVE  InTable'
    BY <1>2, <2>0, <2>7 DEF Lose, InTable, MapsInv, TypeOK, tables
  <2>8. ASSUME NEW p \in Closers, CloseClear(p)
        PROVE  InTable'
    <3> SUFFICES ASSUME NEW d \in Dials, mon[d] \in {"check", "read"}, link'[d] = "open",
                        OnlyDial(d)
                 PROVE  FALSE
      BY <2>0, <2>8 DEF CloseClear, InTable
    <3>1. (~ \E k \in Keys : tcpConns[k] = d) /\ link[d] = "open"
      BY Zenon, <2>8 DEF CloseClear
    <3> QED BY <1>2, <3>1, KeyOfAssumption DEF InTable
  <2>9. CASE \/ ListenUDP \/ ListenUDPErr \/ ListenUDPOk \/ RecvGet \/ RecvOther
             \/ LookSession \/ Insert \/ AddCodec \/ LookClose \/ UNCHANGED vars
             \/ \E d \in Dials, m \in {"session", "close"} : RecvMeta(d, m)
             \/ \E p \in Closers :
                  CloseStart(p) \/ CloseSend(p) \/ CloseUdp(p) \/ CloseMark(p)
    BY <2>1, <2>9 DEF ListenUDP, ListenUDPErr, ListenUDPOk, RecvGet, RecvOther, LookSession,
       Insert, AddCodec, LookClose, RecvMeta, CloseStart, CloseSend, CloseUdp, CloseMark,
       vars, tables
  <2> QED BY Zenon, <1>2, <2>2, <2>3, <2>4, <2>5, <2>6, <2>7, <2>8, <2>9
       DEF Next, Receiver, Monitor, Closer
<1>3. MapsInv /\ InTable => CloseTellsAll
  BY KeyOfAssumption DEF InTable, CloseTellsAll, CloseTargets, Watched
<1> QED BY <1>1, <1>2, <1>3, MapsInvariant, PTL DEF Spec

-----------------------------------------------------------------------------
(***************************************************************************)
(* The receive buffer of a UdpSession, for any number of readers and any   *)
(* sizes: recvSize never drifts from what it counts, and the buffer keeps  *)
(* the order and both limits that DatagramQueue promises.                  *)
(*                                                                         *)
(* SumFunction adds up the values of a function in an order that CHOOSE    *)
(* picks.  The first part shows that the order does not matter: the sum    *)
(* loses an element's value with the element, whichever it is.  Induction  *)
(* is over the subsets of a finite set, by a least counterexample.         *)
(***************************************************************************)

-----------------------------------------------------------------------------
(* Induction *)

\* A set of natural numbers has a least element.
LEMMA LeastNat ==
  ASSUME NEW T \in SUBSET Nat, T # {}
  PROVE  \E m \in T : \A k \in T : m <= k
<1>1. PICK x \in T : \A y \in T : <<y, x>> \notin OpToRel(<, Nat)
  BY NatLessThanWellFounded, WFMin, Zenon
<1>2. \A y \in T : ~(y < x)
  BY <1>1 DEF OpToRel
<1> QED BY <1>2

\* A set that has 0, and n + 1 with every n, has all natural numbers.
LEMMA NatInductionOnSet ==
  ASSUME NEW T, 0 \in T, \A n \in Nat : n \in T => n + 1 \in T
  PROVE  Nat \subseteq T
<1> SUFFICES ASSUME Nat \ T # {}
             PROVE  FALSE
  OBVIOUS
<1>1. PICK m \in Nat \ T : \A k \in Nat \ T : m <= k
  BY LeastNat, Nat \ T \in SUBSET Nat
<1>2. m - 1 \in Nat /\ m - 1 \in T
  BY <1>1
<1> QED BY <1>2

\* A set of subsets of S that has {}, and each set from which every removal of an
\* element leads into it, has all subsets of S.
LEMMA SubsetInduction ==
  ASSUME NEW S, IsFiniteSet(S), NEW B, {} \in B,
         \A s \in SUBSET S : s # {} /\ (\A x \in s : s \ {x} \in B) => s \in B
  PROVE  SUBSET S \subseteq B
<1> DEFINE Bad == (SUBSET S) \ B
           Cards == {Cardinality(s) : s \in Bad}
<1> SUFFICES ASSUME Bad # {}
             PROVE  FALSE
  OBVIOUS
<1>1. \A s \in SUBSET S : IsFiniteSet(s) /\ Cardinality(s) \in Nat
  BY FS_Subset, FS_CardinalityType
<1>2. PICK n \in Cards : \A k \in Cards : n <= k
  <2>1. Cards \in SUBSET Nat /\ Cards # {}
    BY <1>1
  <2> HIDE DEF Cards
  <2> QED BY <2>1, LeastNat
<1>3. PICK s \in Bad : n = Cardinality(s)
  OBVIOUS
<1>4. \A x \in s : s \ {x} \in B
  <2> SUFFICES ASSUME NEW x \in s, s \ {x} \notin B
               PROVE  FALSE
    OBVIOUS
  <2>1. Cardinality(s \ {x}) = Cardinality(s) - 1
    BY <1>1, FS_RemoveElement
  <2>2. Cardinality(s \ {x}) \in Cards
    OBVIOUS
  <2>3. n <= Cardinality(s \ {x})
    BY <1>2, <2>2
  <2>4. Cardinality(s) \in Nat
    BY <1>1
  <2> HIDE DEF Cards
  <2> QED BY <1>3, <2>1, <2>3, <2>4
<1>5. s \in SUBSET S /\ s \notin B /\ s # {}
  BY <1>3
<1> HIDE DEF Bad
<1> QED BY <1>4, <1>5

\* An interval is finite.
LEMMA IntervalFinite == \A a, b \in Int : IsFiniteSet(a .. b)
BY FS_Interval, Zenon

\* An interval without its last element.
LEMMA IntervalLast ==
  ASSUME NEW a \in Int, NEW b \in Int, a <= b + 1
  PROVE  b + 1 \in a .. b + 1 /\ (a .. b + 1) \ {b + 1} = a .. b
OBVIOUS

\* An interval without its first element.
LEMMA IntervalFirst ==
  ASSUME NEW b \in Int, 1 <= b
  PROVE  1 \in 1 .. b /\ (1 .. b) \ {1} = 2 .. b
OBVIOUS

-----------------------------------------------------------------------------
(* Sums *)

Chosen(s) == CHOOSE x \in s : TRUE

\* g adds up f over every subset of S, in the order of Chosen
IsSum(g, f, S) ==
  g = [s \in SUBSET S |-> IF s = {} THEN 0 ELSE f[Chosen(s)] + g[s \ {Chosen(s)}]]

\* SumFunction of the Functions module is such a function.
LEMMA SumIsSum ==
  ASSUME NEW f, NEW S
  PROVE  SumFunctionOnSet(f, S) = (CHOOSE g : IsSum(g, f, S))[S]
BY DEF SumFunctionOnSet, FoldFunctionOnSet, MapThenFoldSet, IsSum, Chosen

\* The element that is added next is one of the set.
LEMMA ChosenIn == \A s : s # {} => Chosen(s) \in s
BY DEF Chosen

\* Two of them agree where both are defined.
LEMMA SumUnique ==
  ASSUME NEW f, NEW S, NEW T, NEW s, IsFiniteSet(s), s \subseteq S, s \subseteq T,
         NEW g, IsSum(g, f, S), NEW h, IsSum(h, f, T)
  PROVE  g[s] = h[s]
<1> DEFINE B == {u \in SUBSET s : g[u] = h[u]}
<1>1. {} \in B
  <2>1. g[{}] = 0 /\ h[{}] = 0
    BY DEF IsSum
  <2> QED BY <2>1
<1>2. ASSUME NEW u \in SUBSET s, u # {}, \A x \in u : u \ {x} \in B
      PROVE  u \in B
  <2>1. Chosen(u) \in u
    BY <1>2, ChosenIn
  <2>2. g[u] = f[Chosen(u)] + g[u \ {Chosen(u)}]
    BY <1>2 DEF IsSum
  <2>3. h[u] = f[Chosen(u)] + h[u \ {Chosen(u)}]
    BY <1>2 DEF IsSum
  <2> QED BY <1>2, <2>1, <2>2, <2>3
<1>3. SUBSET s \subseteq B
  <2> HIDE DEF B
  <2> QED BY <1>1, <1>2, SubsetInduction
<1> QED BY <1>3

\* For a finite set there is one.
LEMMA SumExists ==
  ASSUME NEW f, NEW S, IsFiniteSet(S)
  PROVE  \E g : IsSum(g, f, S)
<1> DEFINE B == {s \in SUBSET S : \E g : IsSum(g, f, s)}
<1>1. {} \in B
  <2>1. IsSum([s \in SUBSET {} |-> 0], f, {})
    BY DEF IsSum
  <2> QED BY <2>1
<1>2. ASSUME NEW s \in SUBSET S, s # {}, \A x \in s : s \ {x} \in B
      PROVE  s \in B
  <2> DEFINE H == [x \in s |-> CHOOSE g : IsSum(g, f, s \ {x})]
             G == [u \in SUBSET s |->
                     IF u = {} THEN 0 ELSE f[Chosen(u)] + H[Chosen(u)][u \ {Chosen(u)}]]
  <2>1. \A x \in s : IsSum(H[x], f, s \ {x})
    BY <1>2
  <2>2. ASSUME NEW u \in SUBSET s, u # {}
        PROVE  G[u \ {Chosen(u)}] = H[Chosen(u)][u \ {Chosen(u)}]
    <3> DEFINE x == Chosen(u)
               v == u \ {x}
    <3>1. x \in u
      BY <2>2, ChosenIn
    <3>2. v \in SUBSET (s \ {x})
      BY <3>1
    <3>3. CASE v = {}
      <4>1. IsSum(H[x], f, s \ {x})
        BY <2>1, <3>1
      <4> HIDE DEF H
      <4>2. H[x][v] = 0
        BY <3>2, <3>3, <4>1 DEF IsSum
      <4> QED BY <3>3, <4>2
    <3>4. CASE v # {}
      <4> DEFINE y == Chosen(v)
      <4>1. y \in v
        BY <3>4, ChosenIn
      <4>2. H[x][v] = f[y] + H[x][v \ {y}]
        <5>1. IsSum(H[x], f, s \ {x})
          BY <2>1, <3>1
        <5> HIDE DEF H, x
        <5> QED BY <3>2, <3>4, <5>1 DEF IsSum
      <4>3. G[v] = f[y] + H[y][v \ {y}]
        BY <3>4
      <4>4. IsFiniteSet(v \ {y})
        BY FS_Subset
      <4>5. H[x][v \ {y}] = H[y][v \ {y}]
        <5>1. v \ {y} \subseteq s \ {x} /\ v \ {y} \subseteq s \ {y}
          BY <3>1
        <5>2. IsSum(H[x], f, s \ {x}) /\ IsSum(H[y], f, s \ {y})
          BY <2>1, <3>1, <4>1
        <5> HIDE DEF H, x, y, v
        <5> QED BY <4>4, <5>1, <5>2, SumUnique
      <4> QED BY <4>2, <4>3, <4>5
    <3> QED BY <3>3, <3>4
  <2>3. IsSum(G, f, s)
    <3> HIDE DEF H
    <3>1. \A u \in SUBSET s : G[u] = IF u = {} THEN 0
                                     ELSE f[Chosen(u)] + G[u \ {Chosen(u)}]
      BY <2>2
    <3>2. G = [u \in SUBSET s |-> G[u]]
      OBVIOUS
    <3> HIDE DEF G
    <3> QED BY <3>1, <3>2 DEF IsSum
  <2> QED BY <2>3
<1>3. SUBSET S \subseteq B
  <2> HIDE DEF B
  <2> QED BY <1>1, <1>2, SubsetInduction
<1> QED BY <1>3

\* A sum over a finite set, unfolded once.
LEMMA SumStep ==
  ASSUME NEW f, NEW S, IsFiniteSet(S)
  PROVE  SumFunctionOnSet(f, S) =
           IF S = {} THEN 0
           ELSE f[Chosen(S)] + SumFunctionOnSet(f, S \ {Chosen(S)})
<1> DEFINE c == Chosen(S)
           G == CHOOSE g : IsSum(g, f, S)
           H == CHOOSE g : IsSum(g, f, S \ {c})
<1>1. IsFiniteSet(S \ {c})
  BY FS_Subset
<1>2. IsSum(G, f, S)
  BY SumExists
<1>3. IsSum(H, f, S \ {c})
  BY <1>1, SumExists
<1>4. SumFunctionOnSet(f, S) = G[S]
  BY SumIsSum
<1>5. SumFunctionOnSet(f, S \ {c}) = H[S \ {c}]
  BY SumIsSum
<1>6. G[S] = IF S = {} THEN 0 ELSE f[c] + G[S \ {c}]
  <2> HIDE DEF G
  <2> QED BY <1>2 DEF IsSum
<1>7. G[S \ {c}] = H[S \ {c}]
  <2> HIDE DEF G, H, c
  <2>1. S \ {c} \subseteq S /\ S \ {c} \subseteq S \ {c}
    OBVIOUS
  <2> QED BY <1>1, <1>2, <1>3, <2>1, SumUnique
<1> HIDE DEF G, H
<1> QED BY <1>4, <1>5, <1>6, <1>7

\* A sum of natural numbers is one, and does not depend on what the function is
\* elsewhere.
LEMMA SumNat ==
  ASSUME NEW f, NEW S, IsFiniteSet(S), \A x \in S : f[x] \in Nat
  PROVE  SumFunctionOnSet(f, S) \in Nat
<1> DEFINE B == {s \in SUBSET S : SumFunctionOnSet(f, s) \in Nat}
<1>1. {} \in B
  <2>1. SumFunctionOnSet(f, {}) = 0
    BY SumStep, FS_EmptySet
  <2> QED BY <2>1
<1>2. ASSUME NEW s \in SUBSET S, s # {}, \A x \in s : s \ {x} \in B
      PROVE  s \in B
  <2>1. Chosen(s) \in s
    BY <1>2, ChosenIn
  <2>2. SumFunctionOnSet(f, s) = f[Chosen(s)] + SumFunctionOnSet(f, s \ {Chosen(s)})
    BY <1>2, SumStep, FS_Subset
  <2> QED BY <1>2, <2>1, <2>2
<1>3. SUBSET S \subseteq B
  <2> HIDE DEF B
  <2> QED BY <1>1, <1>2, SubsetInduction
<1> QED BY <1>3

\* Functions with the same values on a set have the same sum over it.
LEMMA SumEqual ==
  ASSUME NEW f, NEW h, NEW S, IsFiniteSet(S), \A x \in S : f[x] = h[x]
  PROVE  SumFunctionOnSet(f, S) = SumFunctionOnSet(h, S)
<1> DEFINE B == {s \in SUBSET S : SumFunctionOnSet(f, s) = SumFunctionOnSet(h, s)}
<1>1. {} \in B
  <2>1. SumFunctionOnSet(f, {}) = 0 /\ SumFunctionOnSet(h, {}) = 0
    BY SumStep, FS_EmptySet
  <2> QED BY <2>1
<1>2. ASSUME NEW s \in SUBSET S, s # {}, \A x \in s : s \ {x} \in B
      PROVE  s \in B
  <2>1. Chosen(s) \in s
    BY <1>2, ChosenIn
  <2>2. IsFiniteSet(s)
    BY FS_Subset
  <2>3. SumFunctionOnSet(f, s) = f[Chosen(s)] + SumFunctionOnSet(f, s \ {Chosen(s)})
    BY <1>2, <2>2, SumStep
  <2>4. SumFunctionOnSet(h, s) = h[Chosen(s)] + SumFunctionOnSet(h, s \ {Chosen(s)})
    BY <1>2, <2>2, SumStep
  <2> QED BY <1>2, <2>1, <2>3, <2>4
<1>3. SUBSET S \subseteq B
  <2> HIDE DEF B
  <2> QED BY <1>1, <1>2, SubsetInduction
<1> QED BY <1>3

\* The order does not matter: any element can be taken out first.
LEMMA SumRemove ==
  ASSUME NEW f, NEW S, IsFiniteSet(S), \A x \in S : f[x] \in Nat
  PROVE  \A x \in S :
           SumFunctionOnSet(f, S) = f[x] + SumFunctionOnSet(f, S \ {x})
<1> DEFINE Sum(s) == SumFunctionOnSet(f, s)
           B == {s \in SUBSET S : \A x \in s : Sum(s) = f[x] + Sum(s \ {x})}
<1>1. {} \in B
  OBVIOUS
<1>2. ASSUME NEW s \in SUBSET S, s # {}, \A x \in s : s \ {x} \in B
      PROVE  s \in B
  <2> DEFINE c == Chosen(s)
  <2>1. c \in s
    BY <1>2, ChosenIn
  <2>2. \A u \in SUBSET S : IsFiniteSet(u) /\ Sum(u) \in Nat
    <3> TAKE u \in SUBSET S
    <3>1. IsFiniteSet(u)
      BY FS_Subset
    <3> QED BY <3>1, SumNat
  <2>3. Sum(s) = f[c] + Sum(s \ {c})
    BY <1>2, <2>2, SumStep
  <2>4. ASSUME NEW x \in s, x # c
        PROVE  Sum(s) = f[x] + Sum(s \ {x})
    <3> DEFINE u == (s \ {x}) \ {c}
    <3>1. Sum(s \ {c}) = f[x] + Sum(u)
      <4>1. (s \ {c}) \ {x} = u /\ x \in s \ {c} /\ s \ {c} \in B
        BY <1>2, <2>1, <2>4
      <4> HIDE DEF u, c
      <4> QED BY <4>1
    <3>2. Sum(s \ {x}) = f[c] + Sum(u)
      <4>1. c \in s \ {x} /\ s \ {x} \in B
        BY <1>2, <2>1, <2>4
      <4> HIDE DEF c
      <4> QED BY <4>1
    <3>3. f[c] \in Nat /\ f[x] \in Nat /\ Sum(u) \in Nat
      BY <2>1, <2>2
    <3> HIDE DEF Sum, u, c
    <3> QED BY <2>3, <3>1, <3>2, <3>3
  <2> HIDE DEF Sum, c
  <2> QED BY <2>3, <2>4
<1>3. SUBSET S \subseteq B
  <2> HIDE DEF B
  <2> QED BY <1>1, <1>2, SubsetInduction
<1> QED BY <1>3

\* The sum over an interval that starts at 2, counted from 1.
LEMMA SumShift ==
  ASSUME NEW q \in Seq(Nat), q # <<>>
  PROVE  SumFunctionOnSet(Tail(q), 1 .. Len(q) - 1) = SumFunctionOnSet(q, 2 .. Len(q))
<1> DEFINE t == Tail(q)
           Same(n) == SumFunctionOnSet(t, 1 .. n) = SumFunctionOnSet(q, 2 .. n + 1)
           T == {n \in Nat : n < Len(q) => Same(n)}
<1>1. t \in Seq(Nat) /\ Len(q) \in Nat \ {0} /\ Len(t) = Len(q) - 1
  BY HeadTailProperties, EmptySeq
<1>2. \A i \in 1 .. Len(q) - 1 : t[i] = q[i + 1] /\ t[i] \in Nat
  BY <1>1, HeadTailProperties, ElementOfSeq
<1>3. \A i \in 1 .. Len(q) : q[i] \in Nat
  BY ElementOfSeq
<1>4. 0 \in T
  <2>1. SumFunctionOnSet(t, {}) = 0 /\ SumFunctionOnSet(q, {}) = 0
    BY SumStep, FS_EmptySet
  <2>2. 1 .. 0 = {} /\ 2 .. 0 + 1 = {}
    OBVIOUS
  <2>3. Same(0)
    BY <2>1, <2>2
  <2> QED BY <2>3
<1>5. ASSUME NEW n \in Nat, n \in T
      PROVE  n + 1 \in T
  <2> SUFFICES ASSUME n + 1 < Len(q)
               PROVE  Same(n + 1)
    OBVIOUS
  <2>1. Same(n)
    BY <1>1, <1>5
  <2>2. SumFunctionOnSet(t, 1 .. n + 1) = t[n + 1] + SumFunctionOnSet(t, 1 .. n)
    <3> DEFINE I == 1 .. n + 1
    <3>1. IsFiniteSet(I) /\ I \ {n + 1} = 1 .. n /\ n + 1 \in I
      <4>1. 1 \in Int /\ n \in Int /\ n + 1 \in Int /\ 1 <= n + 1
        OBVIOUS
      <4> QED BY <4>1, IntervalFinite, IntervalLast, Zenon
    <3>2. \A i \in I : t[i] \in Nat
      BY <1>1, <1>2
    <3> HIDE DEF t, I
    <3>3. SumFunctionOnSet(t, I) = t[n + 1] + SumFunctionOnSet(t, I \ {n + 1})
      BY <3>1, <3>2, SumRemove
    <3> QED BY <3>1, <3>3 DEF I
  <2>3. SumFunctionOnSet(q, 2 .. (n + 1) + 1) = q[(n + 1) + 1] + SumFunctionOnSet(q, 2 .. n + 1)
    <3> DEFINE I == 2 .. (n + 1) + 1
    <3>1. IsFiniteSet(I) /\ I \ {(n + 1) + 1} = 2 .. n + 1 /\ (n + 1) + 1 \in I
      <4>1. 2 \in Int /\ n + 1 \in Int /\ (n + 1) + 1 \in Int /\ 2 <= (n + 1) + 1
        OBVIOUS
      <4> QED BY <4>1, IntervalFinite, IntervalLast, Zenon
    <3>2. \A i \in I : q[i] \in Nat
      BY <1>1, <1>3
    <3> HIDE DEF I
    <3>3. SumFunctionOnSet(q, I) = q[(n + 1) + 1] + SumFunctionOnSet(q, I \ {(n + 1) + 1})
      BY <3>1, <3>2, SumRemove
    <3> QED BY <3>1, <3>3 DEF I
  <2>4. t[n + 1] = q[(n + 1) + 1]
    <3>1. n + 1 \in 1 .. Len(q) - 1
      BY <1>1
    <3> HIDE DEF t
    <3> QED BY <1>2, <3>1
  <2> HIDE DEF t
  <2> QED BY <2>1, <2>2, <2>3, <2>4
<1>6. Len(q) - 1 \in T
  <2>1. Nat \subseteq T
    <3> HIDE DEF T
    <3> QED BY <1>4, <1>5, NatInductionOnSet
  <2> HIDE DEF T
  <2> QED BY <1>1, <2>1
<1>7. Same(Len(q) - 1)
  BY <1>1, <1>6
<1> QED BY <1>1, <1>7

\* What a channel holds after a datagram was put in, and after one was taken out.
LEMMA SumAppend ==
  ASSUME NEW q \in Seq(Nat), NEW n \in Nat
  PROVE  SumFunction(Append(q, n)) = SumFunction(q) + n
<1> DEFINE a == Append(q, n)
           l == Len(q)
<1>1. /\ a \in Seq(Nat) /\ l \in Nat /\ DOMAIN q = 1 .. l /\ DOMAIN a = 1 .. l + 1
      /\ a[l + 1] = n /\ \A i \in 1 .. l : a[i] = q[i]
  BY AppendProperties, LenProperties
<1>2. \A i \in 1 .. l + 1 : a[i] \in Nat
  BY <1>1, ElementOfSeq
<1> HIDE DEF a, l
<1>3. /\ IsFiniteSet(1 .. l + 1) /\ IsFiniteSet(1 .. l)
      /\ (1 .. l + 1) \ {l + 1} = 1 .. l /\ l + 1 \in 1 .. l + 1
  <2>1. 1 \in Int /\ l \in Int /\ l + 1 \in Int /\ 1 <= l + 1
    BY <1>1
  <2> QED BY <2>1, IntervalFinite, IntervalLast, Zenon
<1>4. SumFunctionOnSet(a, 1 .. l + 1) = a[l + 1] + SumFunctionOnSet(a, 1 .. l)
  <2> DEFINE I == 1 .. l + 1
  <2>1. IsFiniteSet(I) /\ l + 1 \in I /\ \A i \in I : a[i] \in Nat
    BY <1>2, <1>3
  <2> HIDE DEF I
  <2>2. SumFunctionOnSet(a, I) = a[l + 1] + SumFunctionOnSet(a, I \ {l + 1})
    BY <2>1, SumRemove
  <2> QED BY <1>3, <2>2 DEF I
<1>5. SumFunctionOnSet(a, 1 .. l) = SumFunctionOnSet(q, 1 .. l)
  BY <1>1, <1>3, SumEqual
<1>6. SumFunctionOnSet(a, 1 .. l) \in Nat
  BY <1>1, <1>2, <1>3, SumNat
<1> QED BY <1>1, <1>4, <1>5, <1>6 DEF SumFunction, a

\* The sum of a channel, with the datagram at its head apart.
LEMMA SumTail ==
  ASSUME NEW q \in Seq(Nat), q # <<>>
  PROVE  SumFunction(q) = Head(q) + SumFunction(Tail(q))
<1> DEFINE l == Len(q)
<1>1. /\ l \in Nat \ {0} /\ DOMAIN q = 1 .. l /\ DOMAIN Tail(q) = 1 .. l - 1
      /\ Head(q) = q[1]
  <2>1. Tail(q) \in Seq(Nat) /\ Len(Tail(q)) = l - 1
    BY HeadTailProperties
  <2>2. l \in Nat \ {0} /\ Head(q) = q[1]
    BY EmptySeq
  <2> QED BY <2>1, <2>2, LenProperties
<1>2. IsFiniteSet(1 .. l) /\ (1 .. l) \ {1} = 2 .. l /\ 1 \in 1 .. l
  <2>1. 1 \in Int /\ l \in Int /\ 1 <= l
    BY <1>1
  <2> HIDE DEF l
  <2> QED BY <2>1, IntervalFinite, IntervalFirst, Zenon
<1>3. \A i \in 1 .. l : q[i] \in Nat
  BY ElementOfSeq
<1>4. SumFunctionOnSet(q, 1 .. l) = q[1] + SumFunctionOnSet(q, 2 .. l)
  <2> DEFINE I == 1 .. l
  <2>1. IsFiniteSet(I) /\ 1 \in I /\ \A i \in I : q[i] \in Nat
    BY <1>2, <1>3
  <2> HIDE DEF I
  <2>2. SumFunctionOnSet(q, I) = q[1] + SumFunctionOnSet(q, I \ {1})
    BY <2>1, SumRemove
  <2> QED BY <1>2, <2>2 DEF I
<1> QED BY <1>1, <1>4, SumShift DEF SumFunction

\* The sizes of a channel add up to a natural number, an empty one to none.
LEMMA SumSeqNat ==
  /\ SumFunction(<<>>) = 0
  /\ \A q \in Seq(Nat) : SumFunction(q) \in Nat
<1>1. SumFunction(<<>>) = 0
  <2>1. DOMAIN <<>> = {}
    OBVIOUS
  <2> QED BY <2>1, SumStep, FS_EmptySet DEF SumFunction
<1>2. ASSUME NEW q \in Seq(Nat)
      PROVE  SumFunction(q) \in Nat
  <2>1. DOMAIN q = 1 .. Len(q) /\ \A i \in 1 .. Len(q) : q[i] \in Nat
    BY LenProperties, ElementOfSeq
  <2>2. 1 \in Int /\ Len(q) \in Int
    OBVIOUS
  <2>3. IsFiniteSet(DOMAIN q) /\ \A i \in DOMAIN q : q[i] \in Nat
    BY <2>1, <2>2, IntervalFinite, Zenon
  <2> QED BY <2>3, SumNat, Zenon DEF SumFunction
<1> QED BY <1>1, <1>2

\* The sizes that readers hold add up to a natural number.
LEMMA SumFinite ==
  ASSUME NEW R, IsFiniteSet(R), NEW f \in [R -> Nat]
  PROVE  SumFunction(f) \in Nat
<1>1. DOMAIN f = R /\ \A x \in R : f[x] \in Nat
  OBVIOUS
<1> QED BY <1>1, SumNat, Zenon DEF SumFunction

\* Values that are all 0 add up to 0.
LEMMA SumZero ==
  ASSUME NEW f, NEW S, IsFiniteSet(S), \A x \in S : f[x] = 0
  PROVE  SumFunctionOnSet(f, S) = 0
<1> DEFINE B == {s \in SUBSET S : SumFunctionOnSet(f, s) = 0}
<1>1. {} \in B
  <2>1. SumFunctionOnSet(f, {}) = 0
    BY SumStep, FS_EmptySet
  <2> QED BY <2>1
<1>2. ASSUME NEW s \in SUBSET S, s # {}, \A x \in s : s \ {x} \in B
      PROVE  s \in B
  <2>1. Chosen(s) \in s
    BY <1>2, ChosenIn
  <2>2. SumFunctionOnSet(f, s) = f[Chosen(s)] + SumFunctionOnSet(f, s \ {Chosen(s)})
    BY <1>2, SumStep, FS_Subset
  <2> QED BY <1>2, <2>1, <2>2
<1>3. SUBSET S \subseteq B
  <2> HIDE DEF B
  <2> QED BY <1>1, <1>2, SubsetInduction
<1> QED BY <1>3

\* A value of a function is replaced.
LEMMA SumExcept ==
  ASSUME NEW R, IsFiniteSet(R), NEW f \in [R -> Nat], NEW r \in R, NEW n \in Nat
  PROVE  /\ SumFunction(f) \in Nat
         /\ SumFunction([f EXCEPT ![r] = n]) = SumFunction(f) - f[r] + n
<1> DEFINE h == [f EXCEPT ![r] = n]
<1>1. h \in [R -> Nat] /\ h[r] = n /\ \A x \in R \ {r} : h[x] = f[x]
  OBVIOUS
<1>2. IsFiniteSet(R \ {r})
  BY FS_Subset
<1> HIDE DEF h
<1>3. SumFunctionOnSet(f, R) = f[r] + SumFunctionOnSet(f, R \ {r})
  BY SumRemove
<1>4. SumFunctionOnSet(h, R) = h[r] + SumFunctionOnSet(h, R \ {r})
  BY <1>1, SumRemove
<1>5. SumFunctionOnSet(h, R \ {r}) = SumFunctionOnSet(f, R \ {r})
  BY <1>1, <1>2, SumEqual
<1>6. SumFunctionOnSet(f, R \ {r}) \in Nat /\ SumFunctionOnSet(f, R) \in Nat
  BY <1>2, SumNat
<1>7. DOMAIN f = R /\ DOMAIN h = R
  BY <1>1
<1> QED BY <1>1, <1>3, <1>4, <1>5, <1>6, <1>7 DEF SumFunction, h

-----------------------------------------------------------------------------
(* The buffer *)

\* a caller of ReadFrom has no size to subtract outside the step between taking
\* a datagram and returning it
NothingTaken == \A r \in Readers : pc[r] # "took" => taken[r] = 0

BufferInv == BufferTypeOK /\ SizeExact /\ NothingTaken

\* The sizes of the model are natural numbers.
LEMMA SizesNat == Sizes \cup {0} \subseteq Nat
BY BufferAssumption

\* The bytes in the channel and in the readers' hands are natural numbers.
LEMMA BufferSums ==
  ASSUME BufferTypeOK
  PROVE  /\ recvChan \in Seq(Nat) /\ SumFunction(recvChan) \in Nat
         /\ taken \in [Readers -> Nat] /\ SumFunction(taken) \in Nat
<1>1. recvChan \in Seq(Nat)
  BY BufferAssumption, SeqMonotonic, Zenon DEF BufferTypeOK
<1>2. SumFunction(recvChan) \in Nat
  BY <1>1, SumSeqNat, Zenon
<1>3. taken \in [Readers -> Nat]
  BY SizesNat DEF BufferTypeOK
<1>4. SumFunction(taken) \in Nat
  BY <1>3, SumFinite, BufferAssumption, Zenon
<1> QED BY <1>1, <1>2, <1>3, <1>4

\* The buffer starts empty.
LEMMA InitBuffer == BufferInit => BufferInv
<1> SUFFICES ASSUME BufferInit
             PROVE  BufferInv
  OBVIOUS
<1>1. BufferTypeOK
  <2>1. recvSize \in 0 .. BufferSize - 1 /\ ctx \in 0 .. MaxDeadline /\ recvChan \in Seq(Sizes)
    BY BufferAssumption DEF BufferInit
  <2>2. 0 \in 0 .. ctx
    BY DEF BufferInit
  <2> QED BY <2>1, <2>2 DEF BufferInit, BufferTypeOK, Results
<1>2. SizeExact
  <2>1. SumFunction(taken) = 0
    <3>1. DOMAIN taken = Readers /\ \A r \in Readers : taken[r] = 0
      BY DEF BufferInit
    <3> QED BY <3>1, SumZero, BufferAssumption, Zenon DEF SumFunction
  <2> QED BY <2>1, SumSeqNat DEF BufferInit, SizeExact
<1>3. NothingTaken
  BY DEF BufferInit, NothingTaken
<1> QED BY <1>1, <1>2, <1>3 DEF BufferInv

\* recvMsg counts what it puts into the channel.
LEMMA ReceiveKeeps ==
  ASSUME BufferInv, NEW n \in Sizes, Receive(n)
  PROVE  BufferInv'
<1> USE DEF BufferInv
<1>1. UNCHANGED <<closed, ctx, timed, done, pc, rctx, taken>>
  BY DEF Receive, ctxVars, readVars
<1>2. CASE Fits(n) /\ HasRoom
  <2>1. recvChan' = Append(recvChan, n) /\ recvSize' = recvSize + n
    BY <1>2 DEF Receive
  <2>2. n \in Nat
    BY BufferAssumption
  <2>3. recvChan' \in Seq(Sizes)
    BY <2>1, AppendProperties DEF BufferTypeOK
  <2>4. recvSize' \in 0 .. BufferSize - 1
    BY <1>2, <2>1, <2>2, BufferAssumption DEF BufferTypeOK, Fits
  <2>5. BufferTypeOK'
    BY <1>1, <2>3, <2>4 DEF BufferTypeOK
  <2>6. SumFunction(recvChan') = SumFunction(recvChan) + n
    BY <2>1, <2>2, BufferSums, SumAppend
  <2>7. SizeExact'
    <3>1. recvSize = SumFunction(recvChan) + SumFunction(taken)
      BY DEF SizeExact
    <3>2. SumFunction(recvChan) \in Nat /\ SumFunction(taken) \in Nat
      BY BufferSums, Zenon
    <3>3. SumFunction(taken') = SumFunction(taken)
      BY <1>1
    <3> QED BY <2>1, <2>2, <2>6, <3>1, <3>2, <3>3 DEF SizeExact
  <2>8. NothingTaken'
    BY <1>1 DEF NothingTaken
  <2> QED BY <2>5, <2>7, <2>8
<1>3. CASE ~(Fits(n) /\ HasRoom)
  <2>1. UNCHANGED <<recvChan, recvSize>>
    BY <1>3 DEF Receive
  <2> QED BY <1>1, <2>1, Zenon DEF BufferTypeOK, SizeExact, NothingTaken
<1> QED BY <1>2, <1>3

\* A datagram taken from the channel is counted until its size is subtracted.
LEMMA ReadTakeKeeps ==
  ASSUME BufferInv, NEW r \in Readers, ReadTake(r)
  PROVE  BufferInv'
<1> USE DEF BufferInv
<1>1. UNCHANGED <<recvSize, closed, ctx, timed, done, rctx>>
  BY DEF ReadTake, ctxVars
<1>2. /\ recvChan # <<>> /\ recvChan' = Tail(recvChan)
      /\ taken' = [taken EXCEPT ![r] = Head(recvChan)] /\ taken[r] = 0
      /\ pc' = [pc EXCEPT ![r] = "took"]
  BY DEF ReadTake, NothingTaken
<1>3. Head(recvChan) \in Sizes /\ recvChan' \in Seq(Sizes)
  BY <1>2, HeadTailProperties DEF BufferTypeOK
<1>4. BufferTypeOK'
  <2>1. taken' \in [Readers -> Sizes \cup {0}]
    BY <1>2, <1>3 DEF BufferTypeOK
  <2>2. pc' \in [Readers -> Results \cup {"wait", "took", "expired"}]
    BY <1>2 DEF BufferTypeOK
  <2> QED BY <1>1, <1>3, <2>1, <2>2 DEF BufferTypeOK
<1>5. SizeExact'
  <2>1. Head(recvChan) \in Nat
    BY <1>3, BufferAssumption
  <2>2. SumFunction(recvChan) = Head(recvChan) + SumFunction(recvChan')
    BY <1>2, BufferSums, SumTail, Zenon
  <2>3. /\ SumFunction(taken') = SumFunction(taken) - taken[r] + Head(recvChan)
        /\ SumFunction(taken) \in Nat
    <3>1. PICK n \in Nat : n = Head(recvChan)
      BY <2>1
    <3>2. taken \in [Readers -> Nat] /\ taken' = [taken EXCEPT ![r] = n]
      BY <1>2, <3>1, BufferSums
    <3>3. /\ SumFunction(taken') = SumFunction(taken) - taken[r] + n
          /\ SumFunction(taken) \in Nat
      BY <3>2, SumExcept, BufferAssumption, Zenon
    <3> QED BY <3>1, <3>3
  <2>4. SumFunction(recvChan') \in Nat
    BY <1>4, BufferSums, SumSeqNat, SeqMonotonic, BufferAssumption DEF BufferTypeOK
  <2> QED BY <1>1, <1>2, <2>1, <2>2, <2>3, <2>4 DEF SizeExact
<1>6. NothingTaken'
  BY <1>2 DEF NothingTaken, BufferTypeOK
<1> QED BY <1>4, <1>5, <1>6

\* ReadFrom subtracts what it has taken.
LEMMA ReadReturnKeeps ==
  ASSUME BufferInv, NEW r \in Readers, ReadReturn(r)
  PROVE  BufferInv'
<1> USE DEF BufferInv
<1>1. UNCHANGED <<recvChan, closed, ctx, timed, done, rctx>>
  BY DEF ReadReturn, ctxVars
<1>2. /\ recvSize' = recvSize - taken[r]
      /\ taken' = [taken EXCEPT ![r] = 0]
      /\ pc' = [pc EXCEPT ![r] = "data"]
  BY DEF ReadReturn, Subtract
<1>3. taken' \in [Readers -> Sizes \cup {0}] /\ taken[r] \in Nat
  BY <1>2, SizesNat DEF BufferTypeOK
<1>4. SumFunction(taken') = SumFunction(taken) - taken[r] /\ SumFunction(taken) \in Nat
  <2>1. 0 \in Nat
    OBVIOUS
  <2>2. /\ SumFunction(taken') = SumFunction(taken) - taken[r] + 0
        /\ SumFunction(taken) \in Nat
    BY <1>2, <2>1, BufferSums, SumExcept, BufferAssumption, Zenon
  <2> QED BY <1>3, <2>2
<1>5. SizeExact'
  BY <1>1, <1>2, <1>3, <1>4, BufferSums DEF SizeExact
<1>6. SumFunction(taken') \in Nat
  <2>1. taken' \in [Readers -> Nat]
    BY <1>3, SizesNat
  <2> QED BY <2>1, SumFinite, BufferAssumption, Zenon
<1>7. BufferTypeOK'
  <2>1. recvSize' \in 0 .. BufferSize - 1
    <3>1. recvSize' = SumFunction(recvChan) + SumFunction(taken')
      BY <1>1, <1>5 DEF SizeExact
    <3>2. recvSize \in 0 .. BufferSize - 1 /\ SumFunction(recvChan) \in Nat
      BY BufferSums DEF BufferTypeOK
    <3> QED BY <1>2, <1>3, <1>6, <3>1, <3>2, BufferAssumption
  <2>2. pc' \in [Readers -> Results \cup {"wait", "took", "expired"}]
    BY <1>2 DEF BufferTypeOK, Results
  <2> QED BY <1>1, <1>3, <2>1, <2>2 DEF BufferTypeOK
<1>8. NothingTaken'
  BY <1>2 DEF NothingTaken, BufferTypeOK
<1> QED BY <1>5, <1>7, <1>8

\* The other steps leave the channel and the sizes alone.
LEMMA OtherKeeps ==
  ASSUME BufferInv,
         \/ \E r \in Readers : Read(r) \/ ReadExpire(r) \/ ReadErr(r)
         \/ \E b \in BOOLEAN : SetReadDeadline(b)
         \/ \E c \in 0 .. MaxDeadline : Expire(c)
         \/ Close
         \/ UNCHANGED bufferVars
  PROVE  BufferInv'
<1> USE DEF BufferInv
<1>1. UNCHANGED <<recvChan, recvSize, taken>>
  BY DEF Read, ReadExpire, ReadErr, SetReadDeadline, Expire, Close, bufferVars, ctxVars, readVars
<1>2. SizeExact'
  BY <1>1 DEF SizeExact
<1>3. ASSUME NEW r \in Readers, Read(r) \/ ReadExpire(r) \/ ReadErr(r)
      PROVE  BufferTypeOK' /\ NothingTaken'
  <2>1. UNCHANGED <<closed, ctx, timed, done>> /\ rctx' \in [Readers -> 0 .. ctx]
    BY <1>3 DEF Read, ReadExpire, ReadErr, ctxVars, BufferTypeOK
  <2>2. PICK p \in Results \cup {"wait", "expired"} : pc' = [pc EXCEPT ![r] = p]
    BY <1>3 DEF Read, ReadExpire, ReadErr, Results
  <2>3. pc[r] # "took" /\ p # "took"
    BY <1>3, <2>2 DEF Read, ReadExpire, ReadErr, Results
  <2>4. pc' \in [Readers -> Results \cup {"wait", "took", "expired"}]
    BY <2>2 DEF BufferTypeOK
  <2>5. BufferTypeOK'
    BY <1>1, <2>1, <2>4 DEF BufferTypeOK
  <2>6. NothingTaken'
    BY <1>1, <2>2, <2>3 DEF NothingTaken, BufferTypeOK
  <2> QED BY <2>5, <2>6
<1>4. ASSUME NEW b \in BOOLEAN, SetReadDeadline(b)
      PROVE  BufferTypeOK' /\ NothingTaken'
  <2>1. UNCHANGED <<closed, done, pc, rctx>>
    BY <1>4 DEF SetReadDeadline, readVars
  <2>2. /\ ctx' \in 0 .. MaxDeadline /\ timed' \subseteq 0 .. ctx' /\ done \subseteq timed'
        /\ 0 .. ctx \subseteq 0 .. ctx'
    BY <1>4, BufferAssumption DEF SetReadDeadline, BufferTypeOK
  <2>3. rctx' \in [Readers -> 0 .. ctx']
    BY <2>1, <2>2 DEF BufferTypeOK
  <2> QED BY <1>1, <2>1, <2>2, <2>3 DEF BufferTypeOK, NothingTaken
<1>5. ASSUME NEW c \in 0 .. MaxDeadline, Expire(c)
      PROVE  BufferTypeOK' /\ NothingTaken'
  BY <1>1, <1>5 DEF Expire, BufferTypeOK, NothingTaken, readVars
<1>6. ASSUME Close
      PROVE  BufferTypeOK' /\ NothingTaken'
  BY <1>1, <1>6 DEF Close, BufferTypeOK, NothingTaken, ctxVars, readVars
<1>7. ASSUME UNCHANGED bufferVars
      PROVE  BufferTypeOK' /\ NothingTaken'
  BY <1>1, <1>7 DEF bufferVars, BufferTypeOK, NothingTaken, ctxVars, readVars
<1> QED BY <1>2, <1>3, <1>4, <1>5, <1>6, <1>7, Zenon

-----------------------------------------------------------------------------
(* Theorems *)

\* The buffer keeps its invariant, whatever the order in which recvMsg, the
\* callers of ReadFrom and SetReadDeadline take their steps.
THEOREM BufferInvariant == BufferSpec => []BufferInv
<1>1. BufferInv /\ [BufferNext]_bufferVars => BufferInv'
  BY ReceiveKeeps, ReadTakeKeeps, ReadReturnKeeps, OtherKeeps, Zenon DEF BufferNext, ReadStep
<1> QED BY InitBuffer, <1>1, PTL DEF BufferSpec

\* The variables hold what their Go counterparts can hold; recvSize stays below
\* UDPRecvBufferSize and never becomes negative.
THEOREM BufferTypes == BufferSpec => []BufferTypeOK
<1>1. BufferInv => BufferTypeOK
  BY DEF BufferInv
<1> QED BY <1>1, BufferInvariant, PTL

\* recvSize is the number of bytes in the channel and in the hands of callers of
\* ReadFrom that have not subtracted them yet: it never drifts.
THEOREM SizeExactHolds == BufferSpec => []SizeExact
<1>1. BufferInv => SizeExact
  BY DEF BufferInv
<1> QED BY <1>1, BufferInvariant, PTL

\* The buffer implements DatagramQueue: datagrams leave it in the order they
\* came, and both limits of the configuration hold although recvMsg looks at
\* recvSize, which callers of ReadFrom bring up to date late.
THEOREM BufferRefinesQueue == BufferSpec => QueueSpec
<1> DEFINE QNext == Queue!Get \/ \E n \in Sizes : Queue!Put(n)
<1>1. BufferInit => recvChan = <<>>
  BY DEF BufferInit
<1>2. BufferInv /\ [BufferNext]_bufferVars => [QNext]_recvChan
  <2> SUFFICES ASSUME BufferInv, [BufferNext]_bufferVars
               PROVE  [QNext]_recvChan
    OBVIOUS
  <2>1. ASSUME NEW n \in Sizes, Receive(n)
        PROVE  [QNext]_recvChan
    <3>1. CASE Fits(n) /\ HasRoom
      <4>1. SumFunction(recvChan) + n < BufferSize
        <5>1. recvSize = SumFunction(recvChan) + SumFunction(taken)
          BY DEF BufferInv, SizeExact
        <5>2. SumFunction(recvChan) \in Nat /\ SumFunction(taken) \in Nat
          BY BufferSums, Zenon DEF BufferInv
        <5>3. n \in Nat /\ BufferSize \in Nat /\ recvSize + n < BufferSize
          BY <3>1, BufferAssumption DEF Fits
        <5> QED BY <5>1, <5>2, <5>3
      <4>2. Queue!Put(n)
        <5>1. recvChan' = Append(recvChan, n) /\ Len(recvChan) < MaxCount
          BY <2>1, <3>1 DEF Receive, HasRoom
        <5>2. Queue!SumFunction(recvChan) = SumFunction(recvChan)
          BY DEF SumFunction, SumFunctionOnSet, FoldFunctionOnSet, MapThenFoldSet,
             Queue!SumFunction, Queue!SumFunctionOnSet, Queue!FoldFunctionOnSet,
             Queue!MapThenFoldSet
        <5> QED BY <4>1, <5>1, <5>2, Zenon DEF Queue!Put
      <4> QED BY <4>2
    <3>2. CASE ~(Fits(n) /\ HasRoom)
      BY <2>1, <3>2 DEF Receive
    <3> QED BY <3>1, <3>2
  <2>2. ASSUME NEW r \in Readers, ReadTake(r)
        PROVE  QNext
    BY <2>2 DEF ReadTake, Queue!Get
  <2>3. ASSUME NEW r \in Readers, Read(r) \/ ReadReturn(r) \/ ReadExpire(r) \/ ReadErr(r)
        PROVE  UNCHANGED recvChan
    BY <2>3 DEF Read, ReadReturn, ReadExpire, ReadErr
  <2>4. CASE (\E b \in BOOLEAN : SetReadDeadline(b)) \/ Close \/ UNCHANGED bufferVars
             \/ \E c \in 0 .. MaxDeadline : Expire(c)
    BY <2>4 DEF SetReadDeadline, Close, Expire, bufferVars
  <2> HIDE DEF QNext
  <2> QED BY <2>1, <2>2, <2>3, <2>4, Zenon DEF BufferNext, ReadStep
<1> QED BY <1>1, <1>2, BufferInvariant, PTL DEF BufferSpec, QueueSpec, Queue!Spec
=============================================================================
