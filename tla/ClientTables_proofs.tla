------------------------ MODULE ClientTables_proofs -------------------------
(***************************************************************************)
(* The sessions of a client, for any sets of keys, connections, indexes    *)
(* and addresses and any bounds: which session a key stands for, and that  *)
(* AcceptSession hands out each of them once.                              *)
(***************************************************************************)
EXTENDS ClientTypes_proofs

-----------------------------------------------------------------------------
(***************************************************************************)
(* Which session a key stands for.  A key in the table stands for the last *)
(* session made for it, a handler only ever counted itself for a session   *)
(* that had been made, and a dialed key has no session before its dial is  *)
(* over.  From this: a key is never live and closed at once, a session is  *)
(* never replaced, the answer "closed" lasts, and no open session is lost. *)
(***************************************************************************)

\* the session in the table is the last one made
LastMade == \A k \in Keys : sessions[k] \in {0, gens[k]}

\* a key remembered as closed had a session
ClosedHad == \A k \in closedSessionKey : gens[k] # 0

\* a handler that counted itself has one of the sessions made for its key
HandlerHas == \A c \in Conns : pc[c] \in {"loop", "close"} => csess[c] \in 1..gens[ckey[c]]

Early == {"idle", "look", "fetch", "dial"}

\* the session of a dialed key is made when its connections are there
DialedLate == \A k \in DialKeys : main[k] \in Early => gens[k] = 0

TableInv ==
  LastMade /\ ClosedHad /\ LiveXorClosed /\ HandlerHas /\ DialedLate /\ DroppedIsClosed

-----------------------------------------------------------------------------
\* the steps that make and remove no session, count nobody and close nothing
\* that is about to be closed
LEMMA QuietStep ==
  ASSUME TableInv, UNCHANGED <<sessions, gens>>,
         closedSessionKey' \subseteq closedSessionKey,
         \A k \in Keys : ncp'[k][1] = "open" => ncp[k][1] = "open",
         \A c \in Conns : pc'[c] \in {"loop", "close"} \/ pc[c] = "close" =>
           pc'[c] = pc[c] /\ ckey'[c] = ckey[c] /\ csess'[c] = csess[c],
         \A k \in DialKeys : main'[k] \in Early => main[k] \in Early
  PROVE  TableInv'
<1>1. LastMade' /\ ClosedHad' /\ LiveXorClosed'
  BY DEF TableInv, LastMade, ClosedHad, LiveXorClosed
<1>2. HandlerHas'
  BY DEF TableInv, HandlerHas
<1>3. DialedLate'
  BY DEF TableInv, DialedLate
<1>4. DroppedIsClosed'
  BY DEF TableInv, DroppedIsClosed
<1> QED BY <1>1, <1>2, <1>3, <1>4 DEF TableInv

\* NewTunaSessionClient establishes the invariant
LEMMA InitTable == Init => TableInv
<1> SUFFICES ASSUME Init PROVE TableInv
  OBVIOUS
<1>1. LastMade /\ ClosedHad /\ LiveXorClosed
  BY DEF Init, TableInit, LastMade, ClosedHad, LiveXorClosed
<1>2. HandlerHas
  BY DEF Init, TableInit, HandlerHas
<1>3. DialedLate /\ DroppedIsClosed
  BY DEF Init, TableInit, DialedLate, DroppedIsClosed, Keys
<1> QED BY <1>1, <1>2, <1>3 DEF TableInv

\* newSession for a key that is not in the table: n is its first session, or
\* the ones before it have been dropped
LEMMA NewSessionTable ==
  ASSUME TypeInv, TableInv, NEW k \in Keys, NewSession(k),
         sessions[k] = 0, k \notin closedSessionKey, UNCHANGED closedSessionKey,
         \A c \in Conns : pc'[c] \in {"loop", "close"} \/ pc[c] = "close" =>
           pc'[c] = pc[c] /\ ckey'[c] = ckey[c] /\ csess'[c] = csess[c],
         \A d \in DialKeys : main'[d] \in Early => main[d] \in Early /\ d # k
  PROVE  TableInv'
<1>1. NcpOK /\ sessions \in [Keys -> 0..MaxGen] /\ MaxGen \in Nat /\ ConnsOK
  BY TypeParts, BoundAssumption DEF TablesOK
<1>2. /\ gens[k] \in Nat
      /\ gens' = [gens EXCEPT ![k] = gens[k] + 1]
      /\ sessions' = [sessions EXCEPT ![k] = gens[k] + 1]
      /\ ncp' = [ncp EXCEPT ![k][gens[k] + 1] = "open"]
  BY <1>1 DEF NcpOK, NewSession
<1>3. LastMade'
  BY <1>1, <1>2 DEF NcpOK, TableInv, LastMade
<1>4. ClosedHad'
  BY <1>1, <1>2 DEF NcpOK, TableInv, ClosedHad
<1>5. LiveXorClosed'
  BY <1>1, <1>2 DEF TableInv, LiveXorClosed
<1>6. HandlerHas'
  <2> SUFFICES ASSUME NEW c \in Conns, pc'[c] \in {"loop", "close"}
               PROVE  csess'[c] \in 1..gens'[ckey'[c]]
    BY DEF HandlerHas
  <2>1. csess[c] \in 1..gens[ckey[c]] /\ ckey'[c] = ckey[c] /\ csess'[c] = csess[c]
    BY DEF TableInv, HandlerHas
  <2>2. CASE ckey[c] = k
    BY <1>1, <1>2, <2>1, <2>2 DEF NcpOK
  <2>3. CASE ckey[c] # k
    BY <1>1, <1>2, <2>1, <2>3 DEF NcpOK
  <2> QED BY <2>2, <2>3
<1>7. DialedLate'
  BY <1>1, <1>2 DEF NcpOK, TableInv, DialedLate, Keys
<1>8. DroppedIsClosed'
  <2> SUFFICES ASSUME NEW j \in Keys,
                      gens'[j] # 0, sessions'[j] # 1, ncp'[j][1] = "open"
               PROVE  \E c \in Conns : pc'[c] = "close" /\ ckey'[c] = j /\ csess'[c] = 1
    BY DEF DroppedIsClosed
  <2>1. gens[j] # 0 /\ sessions[j] # 1 /\ ncp[j][1] = "open"
    BY <1>1, <1>2 DEF NcpOK, Gens
  <2>2. PICK c \in Conns : pc[c] = "close" /\ ckey[c] = j /\ csess[c] = 1
    BY <2>1 DEF TableInv, DroppedIsClosed
  <2> QED BY <2>2
<1> QED BY <1>3, <1>4, <1>5, <1>6, <1>7, <1>8 DEF TableInv

\* the sessions with keys in S leave the tables: each one is closed, or a
\* handler of it is on its way to close it
LEMMA ForgetTable ==
  ASSUME TypeInv, TableInv, NEW S, S \subseteq Keys, Forget(S),
         UNCHANGED <<gens, ncp>>,
         \A k \in S : gens[k] # 0,
         \A c \in Conns : pc'[c] \in {"loop", "close"} =>
           pc[c] \in {"loop", "close"} /\ ckey'[c] = ckey[c] /\ csess'[c] = csess[c],
         \A c \in Conns : pc[c] = "close" => pc'[c] = "close",
         \A k \in S : sessions[k] = 1 /\ ncp[k][1] = "open" =>
           \E c \in Conns : pc'[c] = "close" /\ ckey'[c] = k /\ csess'[c] = 1,
         \A d \in DialKeys : main'[d] \in Early => main[d] \in Early
  PROVE  TableInv'
<1>1. /\ sessions' = [k \in Keys |-> IF k \in S THEN 0 ELSE sessions[k]]
      /\ closedSessionKey' = closedSessionKey \cup S
      /\ gens' = gens
  BY DEF Forget
<1>2. LastMade'
  BY <1>1 DEF TableInv, LastMade
<1>3. ClosedHad' /\ LiveXorClosed'
  BY <1>1 DEF TableInv, ClosedHad, LiveXorClosed
<1>4. HandlerHas'
  BY <1>1 DEF TableInv, HandlerHas
<1>5. DialedLate'
  BY <1>1 DEF TableInv, DialedLate
<1>6. DroppedIsClosed'
  <2> SUFFICES ASSUME NEW k \in Keys,
                      gens[k] # 0, sessions'[k] # 1, ncp[k][1] = "open"
               PROVE  \E c \in Conns : pc'[c] = "close" /\ ckey'[c] = k /\ csess'[c] = 1
    BY DEF DroppedIsClosed
  <2>1. CASE sessions[k] = 1
    BY <1>1, <2>1
  <2>2. CASE sessions[k] # 1
    <3>1. PICK c \in Conns : pc[c] = "close" /\ ckey[c] = k /\ csess[c] = 1
      BY <2>2 DEF TableInv, DroppedIsClosed
    <3> QED BY <3>1
  <2> QED BY <2>1, <2>2
<1> QED BY <1>2, <1>3, <1>4, <1>5, <1>6 DEF TableInv

-----------------------------------------------------------------------------
\* listenNet, which makes a session only for a key it may be made for
LEMMA RegisterTable ==
  ASSUME TypeInv, TableInv, NEW c \in Conns, NEW k \in AcceptKeys, NEW i \in Idx,
         NEW a \in AcceptAddrs, Register(c, k, i, a), UNCHANGED dialVars
  PROVE  TableInv'
<1>1. ConnsOK /\ TablesOK
  BY TypeParts
<1>2. k \in Keys /\ k \notin DialKeys
  BY KeyAssumption DEF Keys
<1>3. /\ pc[c] = "free" /\ UNCHANGED closedSessionKey /\ main' = main
      /\ ckey' = [ckey EXCEPT ![c] = k]
      /\ csess' = [csess EXCEPT ![c] = sessions'[k]]
  BY DEF Register, Fresh, Identify, dialVars
<1>4. \E p \in {"first", "enter", "done"} : Goto(c, p)
  BY DEF Register, AfterLookUp
<1>5. \A d \in Conns : pc'[d] \in {"loop", "close"} \/ pc[d] = "close" =>
        pc'[d] = pc[d] /\ ckey'[d] = ckey[d] /\ csess'[d] = csess[d]
  BY <1>1, <1>3, <1>4 DEF ConnsOK, Goto
<1>6. CASE UNCHANGED <<sessions, ncpVars>>
  BY <1>3, <1>5, <1>6, QuietStep DEF ncpVars
<1>7. CASE MayCreate(k) /\ NewSession(k)
  <2>1. sessions[k] = 0 /\ k \notin closedSessionKey
    BY <1>7 DEF MayCreate
  <2>2. \A d \in DialKeys : main'[d] \in Early => main[d] \in Early /\ d # k
    BY <1>2, <1>3
  <2> QED BY <1>2, <1>3, <1>5, <1>7, <2>1, <2>2, NewSessionTable
<1> QED BY Zenon, <1>6, <1>7 DEF Register

\* handleConn counts itself for the session in the table
LEMMA HandleConnTable ==
  ASSUME TypeInv, TableInv, NEW c \in Conns, HandleConn(c), UNCHANGED dialVars
  PROVE  TableInv'
<1> DEFINE k == ckey[c]
<1>1. ConnsOK /\ TablesOK /\ NcpOK /\ k \in Keys /\ MaxGen \in Nat
  BY TypeParts, BoundAssumption DEF HandleConn, Identified
<1>2. /\ pc[c] = "enter"
      /\ csess' = [csess EXCEPT ![c] = sessions[k]]
      /\ UNCHANGED <<sessions, closedSessionKey, gens, ncp, ckey, main>>
  BY DEF HandleConn, idVars, ncpVars, dialVars
<1> HIDE DEF k
<1>3. CASE Goto(c, "ret")
  <2>1. \A d \in Conns : pc'[d] \in {"loop", "close"} \/ pc[d] = "close" =>
          pc'[d] = pc[d] /\ ckey'[d] = ckey[d] /\ csess'[d] = csess[d]
    BY <1>1, <1>2, <1>3 DEF ConnsOK, Goto
  <2> QED BY <1>2, <2>1, QuietStep
<1>4. CASE sessions[k] # 0 /\ Goto(c, "loop")
  <2>1. LastMade' /\ ClosedHad' /\ LiveXorClosed' /\ DialedLate'
    BY <1>2 DEF TableInv, LastMade, ClosedHad, LiveXorClosed, DialedLate
  <2>2. \A d \in Conns : d # c => pc'[d] = pc[d] /\ csess'[d] = csess[d]
    BY <1>1, <1>2, <1>4 DEF ConnsOK, Goto
  <2>3. HandlerHas'
    <3>1. csess'[c] \in 1..gens[k]
      BY <1>1, <1>2, <1>4 DEF ConnsOK, NcpOK, TableInv, LastMade
    <3>2. ckey[c] = k
      BY SMTT(30) DEF k
    <3> QED BY <1>2, <2>2, <3>1, <3>2 DEF TableInv, HandlerHas
  <2>4. DroppedIsClosed'
    <3> SUFFICES ASSUME NEW j \in Keys, gens[j] # 0, sessions[j] # 1, ncp[j][1] = "open"
                 PROVE  \E d \in Conns : pc'[d] = "close" /\ ckey'[d] = j /\ csess'[d] = 1
      BY <1>2 DEF DroppedIsClosed
    <3>1. PICK d \in Conns : pc[d] = "close" /\ ckey[d] = j /\ csess[d] = 1
      BY DEF TableInv, DroppedIsClosed
    <3> QED BY <1>2, <2>2, <3>1
  <2> QED BY <2>1, <2>3, <2>4 DEF TableInv
<1> QED BY <1>3, <1>4 DEF HandleConn, k

\* the deferred section of handleConn ends the session it has
LEMMA HandleConnDeferTable ==
  ASSUME TypeInv, TableInv, NEW c \in Conns, HandleConnDefer(c), UNCHANGED dialVars
  PROVE  TableInv'
<1> DEFINE k == ckey[c]
<1>1. ConnsOK /\ TablesOK /\ NcpOK /\ k \in Keys /\ MaxGen \in Nat
  BY TypeParts, BoundAssumption DEF HandleConnDefer, Identified
<1>2. pc[c] = "loop" /\ UNCHANGED <<gens, ncp, ckey, csess, main>>
  BY DEF HandleConnDefer, idVars, ncpVars, dialVars
<1>3. csess[c] \in 1..gens[k]
  BY <1>2 DEF TableInv, HandlerHas
<1>4. CASE UNCHANGED <<sessions, closedSessionKey>> /\ Goto(c, "ret")
  <2>1. \A d \in Conns : pc'[d] \in {"loop", "close"} \/ pc[d] = "close" =>
          pc'[d] = pc[d] /\ ckey'[d] = ckey[d] /\ csess'[d] = csess[d]
    BY ZenonT(40), <1>1, <1>2, <1>4 DEF ConnsOK, Goto
  <2> QED BY <1>2, <1>4, <2>1, QuietStep
<1>5. CASE Forget({k}) /\ Goto(c, "close")
  <2>1. /\ \A d \in Conns : pc'[d] \in {"loop", "close"} => pc[d] \in {"loop", "close"}
        /\ \A d \in Conns : pc[d] = "close" => pc'[d] = "close"
        /\ pc'[c] = "close"
    BY <1>1, <1>2, <1>5 DEF ConnsOK, Goto
  <2>2. gens[k] # 0
    BY <1>1, <1>3 DEF NcpOK
  <2>3. sessions[k] = 1 => csess[c] = 1
    BY <1>1, <1>3 DEF NcpOK, TableInv, LastMade
  <2> QED BY <1>1, <1>2, <1>5, <2>1, <2>2, <2>3, ForgetTable
<1> QED BY <1>4, <1>5 DEF HandleConnDefer

\* ... and closes it
LEMMA HandleConnCloseTable ==
  ASSUME TypeInv, TableInv, NEW c \in Conns, HandleConnClose(c), UNCHANGED dialVars
  PROVE  TableInv'
<1> DEFINE k == ckey[c]  n == csess[c]
<1>1. ConnsOK /\ TablesOK /\ NcpOK /\ k \in Keys /\ MaxGen \in Nat
  BY TypeParts, BoundAssumption DEF HandleConnClose, Identified
<1>2. /\ pc[c] = "close" /\ UNCHANGED <<sessions, closedSessionKey, gens, ckey, csess, main>>
      /\ ncp' = [ncp EXCEPT ![k][n] = CloseNcp(ncp[k][n])]
  BY DEF HandleConnClose, idVars, tableVars, dialVars
<1>3. \A d \in Conns : /\ pc'[d] \in {"loop", "close"} => pc'[d] = pc[d]
                       /\ d # c => pc'[d] = pc[d]
  BY <1>1 DEF ConnsOK, HandleConnClose, Goto
<1>4. n \in 1..gens[k]
  BY <1>2 DEF TableInv, HandlerHas
<1>5. n \in Gens
  BY <1>1, <1>4 DEF NcpOK, Gens
<1>6. LastMade' /\ ClosedHad' /\ LiveXorClosed' /\ DialedLate'
  BY <1>2 DEF TableInv, LastMade, ClosedHad, LiveXorClosed, DialedLate
<1>7. HandlerHas'
  BY ZenonT(40), <1>2, <1>3 DEF TableInv, HandlerHas
<1>8. DroppedIsClosed'
  <2> SUFFICES ASSUME NEW j \in Keys, gens[j] # 0, sessions[j] # 1, ncp'[j][1] = "open"
               PROVE  \E d \in Conns : pc'[d] = "close" /\ ckey[d] = j /\ csess[d] = 1
    BY ZenonT(40), <1>2 DEF DroppedIsClosed
  <2>1. ncp[j][1] = "open" /\ ~(j = k /\ n = 1)
    BY SMTT(30), <1>1, <1>2, <1>5 DEF NcpOK, Gens, CloseNcp
  <2>2. PICK d \in Conns : pc[d] = "close" /\ ckey[d] = j /\ csess[d] = 1
    BY <2>1 DEF TableInv, DroppedIsClosed
  <2> QED BY <1>3, <2>1, <2>2
<1> QED BY <1>6, <1>7, <1>8 DEF TableInv

\* every step of the goroutine of a connection
LEMMA ConnStepTable ==
  ASSUME TypeInv, TableInv, NEW c \in Conns, ConnNext(c), UNCHANGED dialVars
  PROVE  TableInv'
<1>1. CASE FirstMsg(c) \/ FirstMsgErr(c) \/ ListenerReturn(c)
  <2>1. /\ UNCHANGED <<sessions, gens, closedSessionKey, ncp, ckey, csess, main>>
        /\ pc[c] \in {"first", "ret"} /\ \E p \in {"enter", "done"} : Goto(c, p)
    BY <1>1 DEF FirstMsg, FirstMsgErr, ListenerReturn, tableVars, ncpVars, idVars, dialVars
  <2>2. ConnsOK
    BY TypeParts
  <2>3. \A d \in Conns : pc'[d] \in {"loop", "close"} \/ pc[d] = "close" =>
          pc'[d] = pc[d] /\ ckey'[d] = ckey[d] /\ csess'[d] = csess[d]
    BY ZenonT(40), <2>1, <2>2 DEF ConnsOK, Goto
  <2> QED BY ZenonT(40), <2>1, <2>3, QuietStep
<1> QED BY <1>1, RegisterTable, HandleConnTable, HandleConnDeferTable, HandleConnCloseTable,
           Zenon DEF ConnNext

\* every step for one session key, which never opens an ncp session
LEMMA KeyStepTable ==
  ASSUME TypeInv, TableInv, NEW k \in Keys, KeyNext(k), UNCHANGED dialVars
  PROVE  TableInv'
<1>1. NcpOK /\ MaxGen \in Nat \ {0}
  BY SMTT(30), TypeParts, BoundAssumption
<1>2. UNCHANGED <<sessions, gens, pc, ckey, csess, main>>
  BY Zenon DEF KeyNext, CloseOneConn, SendWithErr, NcpClose, NcpClosed, Expire, tableVars, ncpVars,
         idVars, dialVars
<1>3. closedSessionKey' \subseteq closedSessionKey
  BY ZenonT(40) DEF KeyNext, CloseOneConn, SendWithErr, NcpClose, NcpClosed, Expire, tableVars
<1>4. \A j \in Keys : ncp'[j][1] = "open" => ncp[j][1] = "open"
  <2>1. CASE UNCHANGED ncp
    BY <2>1
  <2>2. ASSUME NEW n \in Gens, NcpClose(k, n) \/ NcpClosed(k, n)
        PROVE  \A j \in Keys : ncp'[j][1] = "open" => ncp[j][1] = "open"
    <3>1. PICK v \in {"closing", "closed"} : ncp' = [ncp EXCEPT ![k][n] = v]
      <4>1. CASE NcpClose(k, n)
        BY <4>1 DEF NcpClose, CloseNcp
      <4>2. CASE NcpClosed(k, n)
        BY <4>2 DEF NcpClosed
      <4> QED BY Zenon, <2>2, <4>1, <4>2
    <3> QED BY SMTT(30), <1>1, <3>1 DEF NcpOK, Gens
  <2>3. UNCHANGED ncp \/ \E n \in Gens : NcpClose(k, n) \/ NcpClosed(k, n)
    BY Zenon DEF KeyNext, CloseOneConn, SendWithErr, Expire, ncpVars
  <2> QED BY ZenonT(40), <2>1, <2>2, <2>3
<1> QED BY <1>2, <1>3, <1>4, QuietStep

\* the sweeper drops closed sessions only; Close opens none
LEMMA ClientStepTable ==
  ASSUME TypeInv, TableInv, SweepWake \/ Sweep \/ Close \/ AcceptSession, UNCHANGED dialVars
  PROVE  TableInv'
<1>1. NcpOK /\ TablesOK /\ MaxGen \in Nat \ {0}
  BY SMTT(30), TypeParts, BoundAssumption
<1>2. CASE SweepWake \/ AcceptSession
  BY SMTT(30), <1>2, QuietStep DEF SweepWake, AcceptSession, tableVars, ncpVars, idVars, dialVars
<1>3. CASE Close
  <2>1. \A j \in Keys : ncp'[j][1] = "open" => ncp[j][1] = "open"
    <3>1. \A j \in Keys : ncp'[j][1] \in {ncp[j][1], CloseNcp(ncp[j][1])}
      <4>1. 1 \in Gens
        BY SMTT(30), <1>1 DEF Gens
      <4> QED BY ZenonT(40), <1>3, <4>1 DEF Close
    <3> QED BY <3>1 DEF CloseNcp
  <2> QED BY Zenon, <1>3, <2>1, QuietStep DEF Close, tableVars, idVars, dialVars
<1>4. CASE Sweep
  <2>1. UNCHANGED <<gens, ncp, pc, ckey, csess, main>> /\ Forget(ClosedSessions)
    BY <1>4 DEF Sweep, ncpVars, idVars, dialVars
  <2>2. ClosedSessions \subseteq Keys
    BY DEF ClosedSessions
  <2>3. \A k \in ClosedSessions : gens[k] # 0
    BY DEF ClosedSessions, TableInv, LastMade
  <2>4. \A k \in ClosedSessions : ~(sessions[k] = 1 /\ ncp[k][1] = "open")
    BY ZenonT(40) DEF ClosedSessions
  <2> QED BY <2>1, <2>2, <2>3, <2>4, ForgetTable
<1> QED BY <1>2, <1>3, <1>4

\* DialWithConfig installs the only session its key will ever have
LEMMA DialInstallTable ==
  ASSUME TypeInv, TableInv, NEW k \in DialKeys, DialInstall(k)
  PROVE  TableInv'
<1>1. ConnsOK /\ DialOK /\ Wired
  BY SMTT(30), TypeParts
<1>2. /\ main[k] = "dial" /\ NewSession(k) /\ UNCHANGED <<closedSessionKey, ckey, csess>>
      /\ main' = [main EXCEPT ![k] = "sessdial"]
      /\ pc' = [c \in Conns |-> IF c \in RegisteredConns({k}) THEN "enter" ELSE pc[c]]
  BY SMTT(30) DEF DialInstall, Joined, idVars
<1>3. gens[k] = 0
  BY <1>2 DEF TableInv, DialedLate, Early
<1>4. k \in Keys /\ sessions[k] = 0 /\ k \notin closedSessionKey
  BY <1>3 DEF TableInv, LastMade, ClosedHad, Keys
<1>5. \A d \in DialKeys : main'[d] \in Early => main[d] \in Early /\ d # k
  BY <1>1, <1>2 DEF DialOK, Early
<1>6. \A c \in RegisteredConns({k}) : pc[c] # "close"
  <2>1. ASSUME NEW c \in Conns, NEW i \in Idx, sessionConns[k] # NilMap,
               sessionConns[k][i] = c, pc[c] = "close"
        PROVE  FALSE
    <3>1. ckey[c] = k
      BY <1>1, <1>4, <2>1 DEF Wired
    <3> QED BY <1>3, <2>1, <3>1 DEF TableInv, HandlerHas
  <2> QED BY <2>1 DEF RegisteredConns
<1>7. \A c \in Conns : pc'[c] \in {"loop", "close"} \/ pc[c] = "close" =>
        pc'[c] = pc[c] /\ ckey'[c] = ckey[c] /\ csess'[c] = csess[c]
  BY <1>2, <1>6
<1> QED BY <1>2, <1>4, <1>5, <1>7, NewSessionTable

\* every other step of the dialing goroutines makes and removes no session
LEMMA DialStepTable ==
  ASSUME TypeInv, TableInv, DialNext
  PROVE  TableInv'
<1>1. ConnsOK /\ DialOK /\ NcpOK /\ MaxGen \in Nat \ {0}
  BY SMTT(30), TypeParts, BoundAssumption
<1>2. ASSUME UNCHANGED <<sessions, gens, closedSessionKey, ncp, pc, ckey, csess>>,
             \A d \in DialKeys : main'[d] \in Early => main[d] \in Early
      PROVE  TableInv'
  BY <1>2, QuietStep
<1>3. ASSUME NEW k \in DialKeys, DialStart(k) \/ MainStep(k)
      PROVE  TableInv'
  <2>1. CASE DialInstall(k)
    BY <2>1, DialInstallTable
  <2>2. CASE ~DialInstall(k)
    <3>1. UNCHANGED <<sessions, gens, closedSessionKey, ncp, pc, ckey, csess>>
      <4>1. UNCHANGED <<tableVars, ncpVars, pc, idVars, csess>>
        BY Zenon, <1>3, <2>2 DEF DialStart, MainStep, DialLook, DialFetched, DialFetchErr,
             DialNoConn, DialSessionErr, DialDone, clientVars
      <4> QED BY <4>1 DEF tableVars, ncpVars, idVars
    <3>2. /\ main[k] \in Early \/ main[k] = "sessdial"
          /\ main' = main \/ \E p \in Mains : main' = [main EXCEPT ![k] = p]
          /\ main[k] = "sessdial" => main'[k] \notin Early
      BY Zenon, <1>1, <1>3, <2>2 DEF DialOK, DialStart, MainStep, DialLook, DialFetched, DialFetchErr,
           DialNoConn, DialSessionErr, DialDone, Joined, Fail, StartDialing, Early, Mains
    <3>3. \A d \in DialKeys : main'[d] \in Early => main[d] \in Early
      BY <1>1, <3>2 DEF DialOK, Early
    <3> QED BY Zenon, <1>2, <3>1, <3>3
  <2> QED BY <2>1, <2>2
<1>4. ASSUME NEW k \in DialKeys, NEW i \in Idx, WorkerStep(k, i)
      PROVE  TableInv'
  <2>1. UNCHANGED <<sessions, gens, closedSessionKey, main>>
    BY ZenonT(40), <1>4 DEF WorkerStep, DialConn, ReconnectConn, Dialed, ReconnectFetched, DialConnErr,
         WorkerReturn, ReconnectCheck, ReconnectLook, ReconnectFetchErr, ReconnectSessionClosed,
         ReconnectShort, ReconnectConnErr, AttemptFailed, WorkerGoto, clientVars, tableVars,
         ncpVars
  <2>2. \A j \in Keys : ncp'[j][1] = "open" => ncp[j][1] = "open"
    <3>1. CASE UNCHANGED ncp
      BY SMTT(30), <3>1
    <3>2. CASE ReconnectSessionClosed(k, i)
      BY SMTT(30), <1>1, <3>2 DEF NcpOK, ReconnectSessionClosed, CloseNcp, Gens, Keys
    <3> QED BY Zenon, <1>4, <3>1, <3>2 DEF WorkerStep, DialConn, ReconnectConn, Dialed,
         ReconnectFetched, DialConnErr, WorkerReturn, ReconnectCheck, ReconnectLook,
         ReconnectFetchErr, ReconnectShort, ReconnectConnErr, clientVars, ncpVars
  <2>3. \A d \in Conns : pc'[d] \in {"loop", "close"} \/ pc[d] = "close" =>
          pc'[d] = pc[d] /\ ckey'[d] = ckey[d] /\ csess'[d] = csess[d]
    <3>1. CASE UNCHANGED <<pc, ckey, csess>>
      BY ZenonT(40), <3>1
    <3>2. ASSUME NEW c \in Conns, NEW p \in {"dialed", "enter"}, Dialed(c, k, i, p)
          PROVE  \A d \in Conns : pc'[d] \in {"loop", "close"} \/ pc[d] = "close" =>
                   pc'[d] = pc[d] /\ ckey'[d] = ckey[d] /\ csess'[d] = csess[d]
      BY SMTT(30), <1>1, <3>2 DEF ConnsOK, Dialed, Fresh, Goto, Identify
    <3>3. CASE WorkerReturn(k, i)
      BY <1>1, <3>3 DEF ConnsOK, WorkerReturn, Goto, idVars
    <3> QED BY Zenon, <1>4, <3>1, <3>2, <3>3 DEF WorkerStep, DialConn, ReconnectConn,
         ReconnectFetched, DialConnErr, ReconnectCheck, ReconnectLook, ReconnectSessionClosed,
         ReconnectFetchErr, ReconnectShort, ReconnectConnErr, clientVars, idVars
  <2> QED BY Zenon, <2>1, <2>2, <2>3, QuietStep
<1> QED BY <1>3, <1>4, Zenon DEF DialNext

\* every step preserves the invariant
LEMMA NextTable ==
  ASSUME TypeInv, TableInv, [Next]_vars
  PROVE  TableInv'
<1>1. CASE TableNext /\ UNCHANGED dialVars
  BY ZenonT(40), <1>1, ConnStepTable, KeyStepTable, ClientStepTable DEF TableNext
<1>2. CASE UNCHANGED vars
  BY Zenon, <1>2, QuietStep DEF vars, clientVars, dialVars, tableVars, ncpVars, idVars
<1> QED BY <1>1, <1>2, DialStepTable DEF Next

-----------------------------------------------------------------------------
\* What a step can do to the sessions: nothing but let closed keys expire, make
\* one for a key that is neither live nor closed, or end some.
Keeps == /\ UNCHANGED sessions
         /\ \A k \in Keys, n \in Gens : ncp[k][n] = "closed" => ncp'[k][n] = "closed"
Makes == \E k \in Keys : /\ sessions[k] = 0 /\ k \notin closedSessionKey
                         /\ NewSession(k) /\ UNCHANGED closedSessionKey
LastLeaves(c) == HandleConnDefer(c) /\ ShouldClose(ckey[c])
Ends == \E S \in SUBSET Keys :
          /\ Forget(S) /\ UNCHANGED ncp
          /\ S = ClosedSessions \/ \E c \in Conns : LastLeaves(c) /\ S = {ckey[c]}

LEMMA StepKinds ==
  ASSUME TypeInv, TableInv, [Next]_vars
  PROVE  Keeps \/ Makes \/ Ends
<1>1. NcpOK /\ ConnsOK /\ Identified /\ MaxGen \in Nat \ {0}
  BY TypeParts, BoundAssumption
<1>2. ASSUME UNCHANGED <<sessions, ncp>>
      PROVE  Keeps
  BY <1>2 DEF Keeps
<1>3. ASSUME UNCHANGED sessions, NEW k, NEW n, NEW v, ncp' = [ncp EXCEPT ![k][n] = v],
             ncp[k][n] = "closed" => v = "closed"
      PROVE  Keeps
  BY <1>1, <1>3 DEF Keeps, NcpOK
<1>4. ASSUME NEW c \in Conns, ConnNext(c)
      PROVE  Keeps \/ Makes \/ Ends
  <2>1. ASSUME NEW k \in AcceptKeys, NEW i \in Idx, NEW a \in AcceptAddrs, Register(c, k, i, a)
        PROVE  Keeps \/ Makes
    <3>1. CASE MayCreate(k) /\ NewSession(k)
      BY <2>1, <3>1 DEF Makes, MayCreate, Register, Keys
    <3>2. CASE UNCHANGED <<sessions, ncpVars>>
      BY SMTT(30), <1>2, <3>2 DEF ncpVars
    <3> QED BY ZenonT(40), <2>1, <3>1, <3>2 DEF Register
  <2>2. CASE FirstMsg(c) \/ FirstMsgErr(c) \/ ListenerReturn(c) \/ HandleConn(c)
    BY Zenon, <1>2, <2>2 DEF FirstMsg, FirstMsgErr, ListenerReturn, HandleConn, tableVars, ncpVars
  <2>3. CASE HandleConnDefer(c)
    <3>1. CASE UNCHANGED sessions
      <4>1. UNCHANGED ncp
        BY <2>3 DEF HandleConnDefer, ncpVars
      <4> QED BY Zenon, <1>2, <3>1, <4>1
    <3>2. CASE ShouldClose(ckey[c]) /\ Forget({ckey[c]})
      <4>1. {ckey[c]} \in SUBSET Keys /\ UNCHANGED ncp /\ LastLeaves(c)
        BY ZenonT(40), <1>1, <2>3, <3>2 DEF HandleConnDefer, ncpVars, Identified, LastLeaves
      <4> QED BY Zenon, <3>2, <4>1 DEF Ends
    <3> QED BY ZenonT(40), <2>3, <3>1, <3>2 DEF HandleConnDefer
  <2>4. CASE HandleConnClose(c)
    BY Zenon, <1>3, <2>4 DEF HandleConnClose, CloseNcp, tableVars
  <2> QED BY <1>4, <2>1, <2>2, <2>3, <2>4, Zenon DEF ConnNext
<1>5. ASSUME NEW k \in Keys, KeyNext(k)
      PROVE  Keeps
  <2>1. ASSUME NEW n \in Gens, NcpClose(k, n) \/ NcpClosed(k, n)
        PROVE  Keeps
    BY <1>3, <2>1 DEF NcpClose, NcpClosed, CloseNcp, tableVars
  <2> QED BY ZenonT(40), <1>2, <1>5, <2>1 DEF KeyNext, CloseOneConn, SendWithErr, Expire, tableVars, ncpVars
<1>6. CASE SweepWake \/ AcceptSession
  BY <1>2, <1>6 DEF SweepWake, AcceptSession, tableVars, ncpVars
<1>7. CASE Sweep
  <2>1. ClosedSessions \in SUBSET Keys
    BY ZenonT(40) DEF ClosedSessions
  <2> QED BY Zenon, <1>7, <2>1 DEF Sweep, Ends, ncpVars
<1>8. CASE Close
  BY ZenonT(40), <1>8 DEF Keeps, Close, CloseNcp, tableVars
<1>9. ASSUME NEW k \in DialKeys, DialStart(k) \/ MainStep(k)
      PROVE  Keeps \/ Makes
  <2>1. CASE DialInstall(k)
    <3>1. gens[k] = 0
      BY <2>1 DEF DialInstall, Joined, TableInv, DialedLate, Early
    <3>2. k \in Keys /\ sessions[k] = 0 /\ k \notin closedSessionKey
      BY SMTT(30), <3>1 DEF TableInv, LastMade, ClosedHad, Keys
    <3>3. NewSession(k) /\ UNCHANGED closedSessionKey
      BY Zenon, <2>1 DEF DialInstall
    <3> QED BY Zenon, <3>2, <3>3 DEF Makes
  <2>2. CASE ~DialInstall(k)
    BY Zenon, <1>2, <1>9, <2>2 DEF DialStart, MainStep, DialLook, DialFetched, DialFetchErr,
         DialNoConn, DialSessionErr, DialDone, clientVars, tableVars, ncpVars
  <2> QED BY Zenon, <2>1, <2>2
<1>10. ASSUME NEW k \in DialKeys, NEW i \in Idx, WorkerStep(k, i)
       PROVE  Keeps
  <2>1. CASE ReconnectSessionClosed(k, i)
    BY Zenon, <1>3, <2>1 DEF ReconnectSessionClosed, CloseNcp, tableVars
  <2>2. CASE ~ReconnectSessionClosed(k, i)
    BY ZenonT(40), <1>2, <1>10, <2>2 DEF WorkerStep, DialConn, ReconnectConn, Dialed, ReconnectFetched,
         DialConnErr, WorkerReturn, ReconnectCheck, ReconnectLook, ReconnectFetchErr,
         ReconnectShort, ReconnectConnErr, clientVars, tableVars, ncpVars
  <2> QED BY <2>1, <2>2
<1>11. CASE UNCHANGED vars
  BY <1>2, <1>11 DEF vars, clientVars, tableVars, ncpVars
<1> QED BY ZenonT(40), <1>4, <1>5, <1>6, <1>7, <1>8, <1>9, <1>10, <1>11 DEF Next, TableNext, DialNext

-----------------------------------------------------------------------------
\* The inductive invariant.
THEOREM TableInvariant == Spec => [](TypeInv /\ TableInv)
<1>1. Init => TypeInv /\ TableInv
  BY InitType, InitTable
<1>2. TypeInv /\ TableInv /\ [Next]_vars => (TypeInv /\ TableInv)'
  BY NextType, NextTable
<1> QED BY <1>1, <1>2, PTL DEF Spec

\* No key is both in the table of sessions and in the closed-session cache.
THEOREM LiveXorClosedHolds == Spec => []LiveXorClosed
<1>1. TypeInv /\ TableInv => LiveXorClosed
  BY DEF TableInv
<1> QED BY <1>1, TableInvariant, PTL

\* The first session of a key is not dropped open, unless the handler that
\* dropped it is on its way to close it.
THEOREM DroppedIsClosedHolds == Spec => []DroppedIsClosed
<1>1. TypeInv /\ TableInv => DroppedIsClosed
  BY DEF TableInv
<1> QED BY <1>1, TableInvariant, PTL

\* A session in the table is not replaced by another one.
THEOREM NeverReplacedHolds == Spec => NeverReplaced
<1>1. ASSUME TypeInv, TableInv, [Next]_vars
      PROVE  \A k \in Keys : sessions[k] # 0 => sessions'[k] \in {0, sessions[k]}
  <2>1. CASE Keeps
    BY <2>1 DEF Keeps
  <2>2. CASE Makes
    <3>1. TablesOK
      BY SMTT(30), <1>1, TypeParts
    <3>2. PICK j \in Keys : sessions[j] = 0 /\ NewSession(j)
      BY <2>2 DEF Makes
    <3>3. sessions' = [sessions EXCEPT ![j] = gens[j] + 1]
      BY SMTT(30), <3>2 DEF NewSession
    <3> QED BY <3>1, <3>2, <3>3 DEF TablesOK
  <2>3. CASE Ends
    BY <2>3 DEF Ends, Forget
  <2> QED BY SMTT(30), <1>1, <2>1, <2>2, <2>3, StepKinds
<1> QED BY <1>1, TableInvariant, PTL DEF Spec, NeverReplaced

\* What IsSessClosed answers stays true until the closed key expires.
THEOREM ClosedStaysHolds == Spec => ClosedStays
<1>1. ASSUME TypeInv, TableInv, [Next]_vars
      PROVE  \A k \in Keys :
               IsSessClosed(k) => IsSessClosed(k)'
                                  \/ (k \in closedSessionKey /\ k \notin closedSessionKey')
  <2> SUFFICES ASSUME NEW k \in Keys, IsSessClosed(k)
               PROVE  IsSessClosed(k)'
                      \/ (k \in closedSessionKey /\ k \notin closedSessionKey')
    OBVIOUS
  <2>1. TablesOK /\ NcpOK /\ MaxGen \in Nat
    BY SMTT(30), <1>1, TypeParts, BoundAssumption
  <2>2. CASE Keeps
    <3>1. CASE sessions[k] = 0
      BY <2>2, <3>1 DEF Keeps, IsSessClosed
    <3>2. CASE sessions[k] # 0
      <4>1. sessions[k] \in Gens /\ sessions'[k] = sessions[k]
        BY SMTT(30), <2>1, <2>2, <3>2 DEF Keeps, TablesOK, Gens
      <4>2. ncp'[k][sessions[k]] = "closed"
        BY SMTT(30), <2>2, <3>2, <4>1 DEF Keeps, IsSessClosed
      <4> QED BY SMTT(30), <3>2, <4>1, <4>2 DEF IsSessClosed
    <3> QED BY <3>1, <3>2
  <2>3. CASE Makes
    <3>1. PICK j \in Keys : /\ sessions[j] = 0 /\ j \notin closedSessionKey
                            /\ NewSession(j) /\ UNCHANGED closedSessionKey
      BY <2>3 DEF Makes
    <3>2. j # k
      BY SMTT(30), <3>1 DEF IsSessClosed
    <3>3. sessions'[k] = sessions[k] /\ ncp'[k] = ncp[k]
      BY ZenonT(40), <2>1, <3>1, <3>2 DEF NewSession, TablesOK, NcpOK
    <3> QED BY <3>1, <3>3 DEF IsSessClosed
  <2>4. CASE Ends
    BY <2>4 DEF Ends, Forget, IsSessClosed
  <2> QED BY <1>1, <2>2, <2>3, <2>4, StepKinds
<1> QED BY <1>1, TableInvariant, PTL DEF Spec, ClosedStays

-----------------------------------------------------------------------------
(***************************************************************************)
(* AcceptSession hands out every session at most once.  Only the goroutine *)
(* that made a session reads its first message and offers it; it is the    *)
(* only one, and the session has not been offered before.                  *)
(***************************************************************************)

\* the session a goroutine is about to offer
Pending(c) == <<ckey[c], csess[c]>>

Queued == {acceptSession[j] : j \in DOMAIN acceptSession}

\* sessions that are or were in the channel have been made
OfferedMade == \A s \in Queued \cup accepted : s[2] <= gens[s[1]]

\* the session read for the first time has been made, and not offered yet
FirstIsNew ==
  \A c \in Conns : pc[c] = "first" =>
    csess[c] <= gens[ckey[c]] /\ Pending(c) \notin Queued \cup accepted

\* one goroutine offers it
FirstIsAlone ==
  \A c, d \in Conns : pc[c] = "first" /\ pc[d] = "first" /\ Pending(c) = Pending(d) => c = d

AcceptInv == OfferedMade /\ FirstIsNew /\ FirstIsAlone /\ AcceptOnce

-----------------------------------------------------------------------------
\* the steps that offer and hand out nothing and start no first read
LEMMA AcceptQuiet ==
  ASSUME TypeInv, AcceptInv, UNCHANGED queueVars,
         \A k \in Keys : gens'[k] >= gens[k] /\ gens'[k] \in Nat,
         \A c \in Conns : pc'[c] = "first" =>
           pc[c] = "first" /\ ckey'[c] = ckey[c] /\ csess'[c] = csess[c]
  PROVE  AcceptInv'
<1>1. QueueOK /\ NcpOK /\ ConnsOK /\ Identified
  BY ZenonT(40), TypeParts
<1>2. UNCHANGED <<acceptSession, accepted>> /\ Queued' = Queued
  BY ZenonT(40) DEF queueVars, Queued
<1>3. \A s \in Queued \cup accepted : s[1] \in Keys /\ s[2] \in Gens
  BY <1>1 DEF QueueOK, Queued
<1>4. \A k \in Keys : gens[k] \in Nat
  BY <1>1, BoundAssumption DEF NcpOK
<1>5. OfferedMade'
  BY SMTT(30), <1>2, <1>3, <1>4, BoundAssumption DEF AcceptInv, OfferedMade, Gens
<1>6. FirstIsNew'
  <2> SUFFICES ASSUME NEW c \in Conns, pc'[c] = "first"
               PROVE  csess'[c] <= gens'[ckey'[c]] /\ Pending(c)' \notin (Queued \cup accepted)'
    BY DEF FirstIsNew
  <2>1. pc[c] = "first" /\ ckey'[c] = ckey[c] /\ csess'[c] = csess[c] /\ ckey[c] \in Keys
        /\ csess[c] \in Nat
    BY <1>1, BoundAssumption DEF Identified, ConnsOK
  <2>2. csess[c] <= gens[ckey[c]] /\ Pending(c) \notin Queued \cup accepted
    BY ZenonT(40), <2>1 DEF AcceptInv, FirstIsNew
  <2>3. Pending(c)' = Pending(c)
    BY <2>1 DEF Pending
  <2> QED BY <1>2, <1>4, <2>1, <2>2, <2>3
<1>7. FirstIsAlone'
  BY DEF AcceptInv, FirstIsAlone, Pending
<1>8. AcceptOnce'
  BY <1>2 DEF AcceptInv, AcceptOnce
<1> QED BY <1>5, <1>6, <1>7, <1>8 DEF AcceptInv

\* NewTunaSessionClient starts with an empty channel
LEMMA InitAccept == Init => AcceptInv
<1> SUFFICES ASSUME Init PROVE AcceptInv
  OBVIOUS
<1>1. Queued = {} /\ accepted = {} /\ DOMAIN acceptSession = {}
  BY DEF Init, TableInit, Queued
<1>2. \A c \in Conns : pc[c] # "first"
  BY DEF Init, TableInit
<1> QED BY <1>1, <1>2 DEF AcceptInv, OfferedMade, FirstIsNew, FirstIsAlone, AcceptOnce

\* listenNet: the session just made has a number nobody has seen
LEMMA RegisterAccept ==
  ASSUME TypeInv, AcceptInv, NEW c \in Conns, NEW k \in AcceptKeys, NEW i \in Idx,
         NEW a \in AcceptAddrs, Register(c, k, i, a)
  PROVE  AcceptInv'
<1>1. QueueOK /\ NcpOK /\ ConnsOK /\ Identified /\ k \in Keys
  BY SMTT(30), TypeParts DEF Keys
<1>2. /\ pc[c] = "free"
      /\ ckey' = [ckey EXCEPT ![c] = k]
      /\ csess' = [csess EXCEPT ![c] = sessions'[k]]
      /\ UNCHANGED queueVars
  BY Zenon DEF Register, Fresh, Identify
<1>3. \A d \in Conns : d # c => pc'[d] = pc[d] /\ ckey'[d] = ckey[d] /\ csess'[d] = csess[d]
  <2>1. \E p \in PCs : pc' = [pc EXCEPT ![c] = p]
    BY DEF Register, Goto, AfterLookUp, PCs
  <2> QED BY <1>1, <1>2, <2>1 DEF ConnsOK
<1>4. \A j \in Keys : gens[j] \in Nat
  BY SMTT(30), <1>1, BoundAssumption DEF NcpOK
<1>5. CASE UNCHANGED ncpVars /\ pc'[c] # "first"
  BY <1>2, <1>3, <1>4, <1>5, AcceptQuiet DEF ncpVars
<1>6. CASE NewSession(k)
  <2>1. /\ gens' = [gens EXCEPT ![k] = gens[k] + 1]
        /\ sessions' = [sessions EXCEPT ![k] = gens[k] + 1]
    BY <1>6 DEF NewSession
  <2>2. ckey'[c] = k /\ csess'[c] = gens[k] + 1 /\ gens'[k] = gens[k] + 1
    <3>1. sessions \in [Keys -> 0..MaxGen]
      BY SMTT(30), TypeParts DEF TablesOK
    <3> QED BY <1>1, <1>2, <2>1, <3>1 DEF ConnsOK, NcpOK
  <2>3. \A j \in Keys : gens'[j] \in Nat /\ gens'[j] >= gens[j]
    BY SMTT(30), <1>1, <1>4, <2>1 DEF NcpOK
  <2>4. Queued' = Queued /\ UNCHANGED <<acceptSession, accepted>>
    BY ZenonT(40), <1>2 DEF queueVars, Queued
  <2>5. \A s \in Queued \cup accepted : s[1] \in Keys /\ s[2] \in Nat /\ s[2] <= gens[s[1]]
    <3>1. \A s \in Queued \cup accepted : s \in Keys \X Gens
      BY <1>1 DEF QueueOK, Queued
    <3>2. \A s \in Queued \cup accepted : s[2] <= gens[s[1]]
      BY DEF AcceptInv, OfferedMade
    <3> QED BY SMTT(30), <3>1, <3>2, BoundAssumption DEF Gens
  <2>6. Pending(c)' = <<k, gens[k] + 1>> /\ Pending(c)' \notin Queued \cup accepted
    BY SMTT(30), <1>4, <2>2, <2>5, <1>1 DEF Pending
  <2>7. \A d \in Conns : d # c /\ pc'[d] = "first" =>
          /\ Pending(d)' = Pending(d) /\ pc[d] = "first"
          /\ ckey[d] \in Keys /\ csess[d] \in Nat /\ csess[d] <= gens[ckey[d]]
    <3> SUFFICES ASSUME NEW d \in Conns, d # c, pc'[d] = "first"
                 PROVE  /\ Pending(d)' = Pending(d) /\ pc[d] = "first"
                        /\ ckey[d] \in Keys /\ csess[d] \in Nat /\ csess[d] <= gens[ckey[d]]
      BY ZenonT(40)
    <3>1. pc[d] = "first" /\ ckey'[d] = ckey[d] /\ csess'[d] = csess[d]
      BY ZenonT(40), <1>3
    <3>2. ckey[d] \in Keys /\ csess[d] \in Nat
      BY SMTT(30), <1>1, <3>1, BoundAssumption DEF Identified, ConnsOK
    <3>3. csess[d] <= gens[ckey[d]]
      BY ZenonT(40), <3>1 DEF AcceptInv, FirstIsNew
    <3> QED BY ZenonT(40), <3>1, <3>2, <3>3 DEF Pending
  <2>8. OfferedMade'
    BY SMTT(30), <1>4, <2>3, <2>4, <2>5 DEF OfferedMade
  <2>9. FirstIsNew'
    <3> SUFFICES ASSUME NEW d \in Conns, pc'[d] = "first"
                 PROVE  csess'[d] <= gens'[ckey'[d]]
                        /\ Pending(d)' \notin (Queued \cup accepted)'
      BY ZenonT(40) DEF FirstIsNew
    <3>1. CASE d = c
      BY SMTT(30), <1>4, <2>2, <2>4, <2>6, <3>1, <1>1
    <3>2. CASE d # c
      <4>1. Pending(d) \notin Queued \cup accepted
        BY ZenonT(40), <2>7, <3>2 DEF AcceptInv, FirstIsNew
      <4> QED BY SMTT(30), <1>3, <1>4, <2>3, <2>4, <2>7, <3>2, <4>1
    <3> QED BY ZenonT(40), <3>1, <3>2
  <2>10. \A d \in Conns : d # c /\ pc'[d] = "first" => Pending(d)' # Pending(c)'
    BY SMTT(30), <1>4, <1>1, <2>6, <2>7 DEF Pending
  <2>11. FirstIsAlone'
    BY ZenonT(40), <2>7, <2>10 DEF AcceptInv, FirstIsAlone
  <2>12. AcceptOnce'
    BY <2>4 DEF AcceptInv, AcceptOnce
  <2> QED BY <2>8, <2>9, <2>11, <2>12 DEF AcceptInv
<1> QED
  <2>1. \/ UNCHANGED ncpVars /\ (Goto(c, AfterLookUp(TRUE)) \/ Goto(c, "done"))
        \/ NewSession(k)
    BY Zenon DEF Register
  <2>2. ASSUME Goto(c, AfterLookUp(TRUE)) \/ Goto(c, "done")
        PROVE  pc'[c] # "first"
    BY <1>1, <2>2 DEF Goto, AfterLookUp, ConnsOK
  <2> QED BY Zenon, <1>5, <1>6, <2>1, <2>2

\* the offer: the session moves from its goroutine to the channel
LEMMA FirstMsgAccept ==
  ASSUME TypeInv, AcceptInv, NEW c \in Conns, FirstMsg(c)
  PROVE  AcceptInv'
<1>1. QueueOK /\ NcpOK /\ ConnsOK /\ Identified
  BY SMTT(30), TypeParts
<1>2. /\ pc[c] = "first" /\ pc' = [pc EXCEPT ![c] = "enter"]
      /\ UNCHANGED <<accepted, gens, ckey, csess>>
  BY DEF FirstMsg, Goto, ncpVars, idVars
<1>3. \A d \in Conns : pc'[d] = "first" => d # c /\ pc[d] = "first" /\ Pending(d)' = Pending(d)
  BY <1>1, <1>2 DEF ConnsOK, Pending
<1>4. \A k \in Keys : gens[k] \in Nat
  BY SMTT(30), <1>1, BoundAssumption DEF NcpOK
<1>5. CASE acceptSession' = acceptSession
  BY <1>2, <1>3, <1>4, <1>5, AcceptQuiet DEF queueVars
<1>6. CASE acceptSession' = Append(acceptSession, Pending(c))
  <2>1. Pending(c) \in Keys \X Gens /\ csess[c] <= gens[ckey[c]]
        /\ Pending(c) \notin Queued \cup accepted
    BY ZenonT(40), <1>1, <1>2 DEF Pending, Identified, AcceptInv, FirstIsNew
  <2>2. /\ acceptSession \in Seq(Keys \X Gens)
        /\ DOMAIN acceptSession' = 1..(Len(acceptSession) + 1)
        /\ \A j \in DOMAIN acceptSession : acceptSession'[j] = acceptSession[j]
        /\ acceptSession'[Len(acceptSession) + 1] = Pending(c)
    BY <1>1, <1>6, <2>1 DEF QueueOK
  <2>3. Queued' = Queued \cup {Pending(c)}
    BY <2>2 DEF Queued
  <2>4. OfferedMade'
    BY SMTT(30), <1>2, <2>1, <2>3 DEF AcceptInv, OfferedMade, Pending
  <2>5. FirstIsNew'
    <3> SUFFICES ASSUME NEW d \in Conns, pc'[d] = "first"
                 PROVE  csess'[d] <= gens'[ckey'[d]]
                        /\ Pending(d)' \notin (Queued \cup accepted)'
      BY DEF FirstIsNew
    <3>1. Pending(d) # Pending(c) /\ Pending(d)' = Pending(d)
      BY ZenonT(40), <1>2, <1>3 DEF AcceptInv, FirstIsAlone
    <3>2. csess[d] <= gens[ckey[d]] /\ Pending(d) \notin Queued \cup accepted
      BY <1>3 DEF AcceptInv, FirstIsNew
    <3> QED BY ZenonT(40), <1>2, <2>3, <3>1, <3>2
  <2>6. FirstIsAlone'
    BY ZenonT(40), <1>3 DEF AcceptInv, FirstIsAlone
  <2>7. AcceptOnce'
    <3>1. \A j \in DOMAIN acceptSession : acceptSession[j] # Pending(c)
      BY ZenonT(40), <2>1 DEF Queued
    <3>2. \A j \in DOMAIN acceptSession' :
            j \in DOMAIN acceptSession \/ j = Len(acceptSession) + 1
      BY <2>2
    <3> QED BY ZenonT(40), <1>2, <2>1, <2>2, <3>1, <3>2 DEF AcceptInv, AcceptOnce
  <2> QED BY ZenonT(40), <2>4, <2>5, <2>6, <2>7 DEF AcceptInv
<1> QED BY <1>5, <1>6 DEF FirstMsg, Offer, Pending

\* AcceptSession: the head moves from the channel to the application, or is lost
LEMMA AcceptSessionAccept ==
  ASSUME TypeInv, AcceptInv, AcceptSession
  PROVE  AcceptInv'
<1>1. QueueOK
  BY SMTT(30), TypeParts
<1>2. /\ acceptSession # << >> /\ acceptSession' = Tail(acceptSession)
      /\ accepted' \in {accepted, accepted \cup {Head(acceptSession)}}
      /\ UNCHANGED <<gens, pc, ckey, csess>>
  BY DEF AcceptSession, ncpVars, idVars
<1>3. /\ 1 \in DOMAIN acceptSession /\ Head(acceptSession) = acceptSession[1]
      /\ \A j \in DOMAIN acceptSession' :
           j + 1 \in DOMAIN acceptSession /\ acceptSession'[j] = acceptSession[j + 1]
           /\ j \in Nat \ {0}
  BY <1>1, <1>2 DEF QueueOK
<1>4. (Queued \cup accepted)' \subseteq Queued \cup accepted
  BY SMTT(30), <1>2, <1>3 DEF Queued
<1>5. OfferedMade' /\ FirstIsNew' /\ FirstIsAlone'
  BY <1>2, <1>4 DEF AcceptInv, OfferedMade, FirstIsNew, FirstIsAlone, Pending
<1>6. AcceptOnce'
  BY <1>2, <1>3 DEF AcceptInv, AcceptOnce
<1> QED BY <1>5, <1>6 DEF AcceptInv

\* every step of the client
LEMMA NextAccept == TypeInv /\ AcceptInv /\ [Next]_vars => AcceptInv'
<1> SUFFICES ASSUME TypeInv, AcceptInv, [Next]_vars PROVE AcceptInv'
  OBVIOUS
<1>1. NcpOK /\ ConnsOK /\ DialOK /\ MaxGen \in Nat
  BY SMTT(30), TypeParts, BoundAssumption
<1>2. \A k \in Keys : gens[k] \in Nat
  BY SMTT(30), <1>1 DEF NcpOK
<1>3. ASSUME UNCHANGED queueVars, UNCHANGED <<gens, pc, ckey, csess>>
      PROVE  AcceptInv'
  BY <1>2, <1>3, AcceptQuiet
<1>4. ASSUME UNCHANGED queueVars, gens' = gens, NEW c \in Conns,
             \A d \in Conns \ {c} : pc'[d] = pc[d] /\ ckey'[d] = ckey[d] /\ csess'[d] = csess[d],
             pc'[c] # "first"
      PROVE  AcceptInv'
  BY <1>2, <1>4, AcceptQuiet
<1>5. ASSUME NEW c \in Conns, ConnNext(c)
      PROVE  AcceptInv'
  <2>1. ASSUME FirstMsgErr(c) \/ ListenerReturn(c) \/ HandleConn(c) \/ HandleConnDefer(c)
                 \/ HandleConnClose(c)
        PROVE  AcceptInv'
    <3>1. \E p \in {"done", "ret", "loop", "close"} : pc' = [pc EXCEPT ![c] = p]
      BY Zenon, <2>1 DEF FirstMsgErr, ListenerReturn, HandleConn, HandleConnDefer,
           HandleConnClose, Goto
    <3>2. UNCHANGED <<queueVars, gens, ckey>>
      <4>1. UNCHANGED <<queueVars, gens, idVars>>
        BY Zenon, <2>1 DEF FirstMsgErr, ListenerReturn, HandleConn, HandleConnDefer,
             HandleConnClose, ncpVars
      <4> QED BY <4>1 DEF idVars
    <3>3. csess' = csess \/ \E n : csess' = [csess EXCEPT ![c] = n]
      BY Zenon, <2>1 DEF FirstMsgErr, ListenerReturn, HandleConn, HandleConnDefer,
           HandleConnClose
    <3> QED BY <1>1, <1>4, <3>1, <3>2, <3>3 DEF ConnsOK
  <2> QED BY Zenon, <1>5, <2>1, RegisterAccept, FirstMsgAccept DEF ConnNext
<1>6. ASSUME NEW k \in Keys, KeyNext(k)
      PROVE  AcceptInv'
  BY <1>3, <1>6, Zenon DEF KeyNext, CloseOneConn, SendWithErr, NcpClose, NcpClosed, Expire,
       ncpVars, idVars
<1>7. CASE SweepWake \/ Sweep \/ Close
  BY Zenon, <1>3, <1>7 DEF SweepWake, Sweep, Close, ncpVars, idVars
<1>8. ASSUME NEW k \in DialKeys, DialStart(k) \/ MainStep(k)
      PROVE  AcceptInv'
  <2>1. CASE DialInstall(k)
    <3>1. /\ gens' = [gens EXCEPT ![k] = gens[k] + 1]
          /\ pc' = [c \in Conns |-> IF c \in RegisteredConns({k}) THEN "enter" ELSE pc[c]]
          /\ UNCHANGED <<queueVars, ckey, csess>>
      BY <2>1 DEF DialInstall, NewSession, idVars
    <3>2. \A j \in Keys : gens'[j] \in Nat /\ gens'[j] >= gens[j]
      BY <1>1, <1>2, <3>1 DEF NcpOK
    <3> QED BY ZenonT(40), <3>1, <3>2, AcceptQuiet
  <2>2. CASE ~DialInstall(k)
    <3>1. UNCHANGED <<queueVars, ncpVars, pc, idVars, csess>>
      BY Zenon, <1>8, <2>2 DEF DialStart, MainStep, DialLook, DialFetched, DialFetchErr,
           DialNoConn, DialSessionErr, DialDone, clientVars
    <3> QED BY <1>3, <3>1 DEF ncpVars, idVars
  <2> QED BY ZenonT(40), <2>1, <2>2
<1>9. ASSUME NEW k \in DialKeys, NEW i \in Idx, WorkerStep(k, i)
      PROVE  AcceptInv'
  <2>1. ASSUME NEW c \in Conns, NEW p \in {"dialed", "enter"}, Dialed(c, k, i, p)
        PROVE  AcceptInv'
    <3>1. /\ pc' = [pc EXCEPT ![c] = p] /\ ckey' = [ckey EXCEPT ![c] = k]
          /\ UNCHANGED <<queueVars, gens, csess>>
      BY <2>1 DEF Dialed, Goto, Identify, ncpVars
    <3> QED BY ZenonT(40), <1>1, <1>4, <3>1 DEF ConnsOK
  <2>2. ASSUME WorkerReturn(k, i)
        PROVE  AcceptInv'
    <3>1. /\ pc' = [pc EXCEPT ![wconn[k][i]] = "done"]
          /\ UNCHANGED <<queueVars, gens, ckey, csess>>
      BY <2>2 DEF WorkerReturn, Goto, ncpVars, idVars
    <3>2. \A d \in Conns : pc'[d] = "first" => pc[d] = "first"
      BY <1>1, <3>1 DEF ConnsOK
    <3> QED BY SMTT(30), <1>2, <3>1, <3>2, AcceptQuiet
  <2>3. ASSUME ReconnectSessionClosed(k, i)
        PROVE  AcceptInv'
    BY <1>3, <2>3, Zenon DEF ReconnectSessionClosed, idVars
  <2>4. ASSUME \/ \E l \in PubLists : ReconnectFetched(k, i, l)
               \/ DialConnErr(k, i) \/ ReconnectCheck(k, i) \/ ReconnectLook(k, i)
               \/ ReconnectFetchErr(k, i) \/ ReconnectShort(k, i) \/ ReconnectConnErr(k, i)
        PROVE  AcceptInv'
    <3>1. UNCHANGED <<queueVars, ncpVars, pc, idVars, csess>>
      BY Zenon, <2>4 DEF ReconnectFetched, DialConnErr, ReconnectCheck, ReconnectLook,
           ReconnectFetchErr, ReconnectShort, ReconnectConnErr, clientVars
    <3> QED BY <1>3, <3>1 DEF ncpVars, idVars
  <2> QED BY Zenon, <1>9, <2>1, <2>2, <2>3, <2>4 DEF WorkerStep, DialConn, ReconnectConn
<1>10. CASE UNCHANGED vars
  BY <1>3, <1>10 DEF vars, clientVars, queueVars, ncpVars, idVars
<1> QED BY Zenon, <1>5, <1>6, <1>7, <1>8, <1>9, <1>10, AcceptSessionAccept
      DEF Next, TableNext, DialNext

-----------------------------------------------------------------------------
\* The inductive invariant.
THEOREM AcceptInvariant == Spec => [](TypeInv /\ AcceptInv)
<1>1. Init => TypeInv /\ AcceptInv
  BY InitType, InitAccept
<1>2. TypeInv /\ AcceptInv /\ [Next]_vars => (TypeInv /\ AcceptInv)'
  BY NextType, NextAccept
<1> QED BY <1>1, <1>2, PTL DEF Spec

\* However many connections of a session arrive together, AcceptSession
\* returns it at most once, and it is in the channel at most once.
THEOREM AcceptOnceHolds == Spec => []AcceptOnce
<1>1. TypeInv /\ AcceptInv => AcceptOnce
  BY DEF AcceptInv
<1> QED BY <1>1, AcceptInvariant, PTL
=============================================================================
