------------------------- MODULE ClientTypes_proofs -------------------------
(***************************************************************************)
(* Type correctness of TunaSessionClient.  It is not inductive alone: the  *)
(* assignment c.sessionConns[sessKey][connID(i)] = conn keeps its type     *)
(* only because a session in the table has its inner map (NoNilMapWrite),  *)
(* and a goroutine's look-ups only because its connection has a key, an    *)
(* index and an address (Identified), also when DialWithConfig takes the   *)
(* connections it starts from the table (Wired).                           *)
(***************************************************************************)
EXTENDS TunaSessionClient, TLAPS

\* a connection in use has a key, an index and an address
Identified ==
  \A c \in Conns : pc[c] # "free" =>
    /\ ckey[c] \in Keys
    /\ cidx[c] \in Idx
    /\ caddr[c] \in Addrs
    /\ pc[c] = "first" => csess[c] \in Gens

\* sessionConns holds a connection under its own key and index only
Wired ==
  \A k \in Keys, i \in Idx, c \in Conns :
    sessionConns[k] # NilMap /\ sessionConns[k][i] = c =>
      pc[c] # "free" /\ ckey[c] = k /\ cidx[c] = i

TypeInv == TypeOK /\ NoNilMapWrite /\ Identified /\ Wired

-----------------------------------------------------------------------------
(* TypeInv taken apart and put together, and what leaves its parts alone *)

\* the conjuncts of TypeInv
LEMMA TypeParts ==
  ASSUME TypeInv
  PROVE  /\ TablesOK /\ AddrsOK /\ QueueOK /\ NcpOK /\ ConnsOK /\ DialOK
         /\ isClosed \in BOOLEAN /\ sweeper \in {"sleep", "sweep", "exit"}
         /\ NoNilMapWrite /\ Identified /\ Wired
BY DEF TypeInv, TypeOK, TableTypeOK

\* ... and back, in the next state
LEMMA TypeWhole ==
  ASSUME TablesOK', AddrsOK', QueueOK', NcpOK', ConnsOK', DialOK',
         isClosed' \in BOOLEAN, sweeper' \in {"sleep", "sweep", "exit"},
         NoNilMapWrite', Identified', Wired'
  PROVE  TypeInv'
BY DEF TypeInv, TypeOK, TableTypeOK

\* a step that leaves a group of variables alone keeps its type
LEMMA TablesFrame ==
  ASSUME TablesOK, NoNilMapWrite, UNCHANGED tableVars
  PROVE  TablesOK' /\ NoNilMapWrite'
BY DEF TablesOK, NoNilMapWrite, tableVars

\* ... the address counts and the cache
LEMMA AddrsFrame == ASSUME AddrsOK, UNCHANGED addrVars PROVE AddrsOK'
BY DEF AddrsOK, addrVars

\* ... the channel of sessions to accept
LEMMA QueueFrame == ASSUME QueueOK, UNCHANGED queueVars PROVE QueueOK'
BY DEF QueueOK, queueVars

\* ... the ncp sessions
LEMMA NcpFrame == ASSUME NcpOK, UNCHANGED ncpVars PROVE NcpOK'
BY DEF NcpOK, ncpVars

\* ... the variables of the dialing goroutines
LEMMA DialFrame == ASSUME DialOK, UNCHANGED dialVars PROVE DialOK'
BY DEF DialOK, dialVars

\* ... the connections, but for sockets that are closed
LEMMA ConnsFrame ==
  ASSUME ConnsOK, UNCHANGED <<pc, idVars, csess>>,
         link' = link \/ \E C : link' = CloseLinks(C)
  PROVE  ConnsOK'
BY DEF ConnsOK, idVars, CloseLinks

\* ... what connections are known by, and where they are registered
LEMMA WiredFrame ==
  ASSUME Identified, Wired, UNCHANGED <<sessionConns, pc, idVars, csess>>
  PROVE  Identified' /\ Wired'
BY DEF Identified, Wired, idVars

\* a goroutine moves on with its connection
LEMMA MoveConns ==
  ASSUME ConnsOK, NEW c, NEW p \in PCs, Goto(c, p), UNCHANGED <<idVars, csess>>,
         link' = link \/ \E C : link' = CloseLinks(C)
  PROVE  ConnsOK'
<1>1. pc' \in [Conns -> PCs]
  BY Zenon DEF ConnsOK, Goto
<1>2. link' \in [Conns -> {"none", "open", "closed"}]
  BY DEF ConnsOK, CloseLinks
<1> QED BY <1>1, <1>2, Zenon DEF ConnsOK, idVars

\* ... and stays known and registered
LEMMA MoveWired ==
  ASSUME ConnsOK, Identified, Wired, NEW c, pc[c] # "free",
         NEW p \in PCs \ {"free", "first"}, Goto(c, p),
         UNCHANGED <<sessionConns, idVars, csess>>
  PROVE  Identified' /\ Wired'
<1>1. Identified'
  BY DEF ConnsOK, Identified, Goto, idVars
<1>2. Wired'
  BY DEF ConnsOK, Wired, Goto, idVars
<1> QED BY <1>1, <1>2

\* the labels of handleConn are program counters
LEMMA Labels ==
  /\ "first" \in PCs /\ "done" \in PCs
  /\ \A p \in {"dialed", "enter", "loop", "close", "ret", "done"} :
       p \in PCs \ {"free", "first"}
BY DEF PCs

\* an assignment to one entry of a map of maps
LEMMA ExceptTwo ==
  ASSUME NEW A, NEW B, NEW C, NEW f \in [A -> [B -> C]],
         NEW x \in A, NEW y \in B, NEW v \in C
  PROVE  [f EXCEPT ![x][y] = v] \in [A -> [B -> C]]
OBVIOUS

-----------------------------------------------------------------------------
\* NewTunaSessionClient establishes TypeInv
LEMMA InitType == Init => TypeInv
<1> SUFFICES ASSUME Init PROVE TypeInv
  OBVIOUS
<1> USE DEF Init, TableInit
<1>1. TablesOK
  BY BoundAssumption DEF TablesOK, ConnMaps
<1>2. AddrsOK
  BY DEF AddrsOK
<1>3. QueueOK
  BY BoundAssumption DEF QueueOK
<1>4. NcpOK
  BY BoundAssumption DEF NcpOK, NcpStates
<1>5. ConnsOK
  BY BoundAssumption DEF ConnsOK, PCs
<1>6. DialOK
  BY DEF DialOK, Mains, Workers
<1>7. NoNilMapWrite /\ Identified /\ Wired
  BY DEF NoNilMapWrite, Identified, Wired
<1>8. isClosed \in BOOLEAN /\ sweeper \in {"sleep", "sweep", "exit"}
  BY Zenon
<1> HIDE DEF Init, TableInit
<1> QED BY <1>1, <1>2, <1>3, <1>4, <1>5, <1>6, <1>7, <1>8, Zenon
        DEF TypeInv, TypeOK, TableTypeOK

-----------------------------------------------------------------------------
(* The updates several actions share *)

\* newSession and the insertion keep the types of the sessions
LEMMA NewSessionType ==
  ASSUME TablesOK, NcpOK, NEW k \in Keys, NewSession(k)
  PROVE  /\ NcpOK'
         /\ sessions' \in [Keys -> 0..MaxGen]
         /\ sessions'[k] \in Gens
<1> USE BoundAssumption DEF Gens, NewSession, NcpOK, TablesOK
<1>1. gens[k] + 1 \in Gens
  OBVIOUS
<1>2. gens' \in [Keys -> 0..MaxGen]
  BY <1>1
<1>3. ncp' \in [Keys -> [Gens -> NcpStates]]
  BY <1>1 DEF NcpStates
<1> QED BY <1>1, <1>2, <1>3

\* so do the four statements that end sessions
LEMMA ForgetType ==
  ASSUME TablesOK, NoNilMapWrite, NEW S \in SUBSET Keys, Forget(S)
  PROVE  TablesOK' /\ NoNilMapWrite'
<1> USE BoundAssumption DEF Forget, TablesOK
<1>1. sessions' \in [Keys -> 0..MaxGen]
  OBVIOUS
<1>2. sessionConns' \in [Keys -> ConnMaps \cup {NilMap}]
  OBVIOUS
<1>3. connCount' \in [Keys -> Int]
  OBVIOUS
<1>4. closedSessionKey' \in SUBSET Keys
  OBVIOUS
<1>5. NoNilMapWrite'
  BY DEF NoNilMapWrite
<1> QED BY <1>1, <1>2, <1>3, <1>4, <1>5

\* the connections of forgotten sessions leave the table, the others stay
LEMMA ForgetWired ==
  ASSUME TablesOK, Wired, NEW S \in SUBSET Keys, Forget(S),
         \A c \in Conns : pc[c] # "free" => pc'[c] # "free",
         UNCHANGED idVars
  PROVE  Wired'
BY DEF TablesOK, Wired, Forget, idVars

\* a new connection is put into the inner map m of its session
LEMMA PutConn ==
  ASSUME TablesOK, ConnsOK, Wired, NEW c \in Conns, NEW k \in Keys, NEW i \in Idx,
         NEW a \in Addrs, NEW p \in PCs, p # "free", pc[c] = "free",
         NEW m \in ConnMaps,
         \A j \in Idx : m[j] # None => /\ sessionConns[k] # NilMap
                                       /\ m[j] = sessionConns[k][j],
         Identify(c, k, i, a), Goto(c, p),
         sessionConns' = [sessionConns EXCEPT ![k] = [m EXCEPT ![i] = c]]
  PROVE  /\ sessionConns' \in [Keys -> ConnMaps \cup {NilMap}]
         /\ sessionConns'[k] # NilMap
         /\ Wired'
<1>1. [m EXCEPT ![i] = c] \in ConnMaps
  BY DEF ConnMaps
<1>2. /\ sessionConns' \in [Keys -> ConnMaps \cup {NilMap}]
      /\ sessionConns'[k] # NilMap
  BY Zenon, <1>1, NilMapAssumption DEF TablesOK
<1>3. ASSUME NEW q \in Keys, NEW j \in Idx, NEW d \in Conns,
             sessionConns'[q] # NilMap, sessionConns'[q][j] = d
      PROVE  pc'[d] # "free" /\ ckey'[d] = q /\ cidx'[d] = j
  <2>1. CASE q = k /\ j = i
    BY <1>3, <2>1 DEF TablesOK, ConnsOK, ConnMaps, Identify, Goto
  <2>2. CASE ~(q = k /\ j = i)
    <3>1. sessionConns[q] # NilMap /\ sessionConns[q][j] = d
      BY <1>3, <2>2, ConnAssumption DEF TablesOK, ConnMaps
    <3>2. pc[d] # "free" /\ ckey[d] = q /\ cidx[d] = j
      BY <3>1 DEF Wired
    <3> QED BY <3>2 DEF ConnsOK, Identify, Goto
  <2> QED BY <2>1, <2>2, Zenon
<1> QED BY <1>2, <1>3 DEF Wired

-----------------------------------------------------------------------------
(* The actions of SessionTable *)

\* listenNet up to the end of its critical section
LEMMA RegisterType ==
  ASSUME TypeInv, NEW c \in Conns, NEW k \in AcceptKeys, NEW i \in Idx,
         NEW a \in AcceptAddrs, Register(c, k, i, a), UNCHANGED dialVars
  PROVE  TypeInv'
<1> DEFINE Found == /\ sessions[k] # 0
                    /\ sessionConns' = [sessionConns EXCEPT ![k][i] = c]
                    /\ Goto(c, "enter")
                    /\ link' = [link EXCEPT ![c] = "open"]
                    /\ UNCHANGED <<sessions, ncpVars>>
           Refused == /\ Goto(c, "done")
                      /\ link' = CloseLinks({c})
                      /\ UNCHANGED <<sessions, sessionConns, ncpVars>>
           Created == /\ NewSession(k)
                      /\ sessionConns' = [sessionConns EXCEPT
                                            ![k] = [EmptyConns EXCEPT ![i] = c]]
                      /\ Goto(c, "first")
                      /\ link' = [link EXCEPT ![c] = "open"]
<1>1. /\ TablesOK /\ AddrsOK /\ QueueOK /\ NcpOK /\ ConnsOK /\ DialOK
      /\ isClosed \in BOOLEAN /\ sweeper \in {"sleep", "sweep", "exit"}
      /\ NoNilMapWrite /\ Identified /\ Wired
  BY SMTT(30), TypeParts
<1>2. /\ Found \/ Refused \/ Created
      /\ pc[c] = "free"
      /\ Identify(c, k, i, a)
      /\ csess' = [csess EXCEPT ![c] = sessions'[k]]
      /\ UNCHANGED <<connCount, closedSessionKey, addrVars, isClosed, queueVars, sweeper>>
  BY DEF Register, Fresh, AfterLookUp
<1>3. k \in Keys /\ a \in Addrs
  BY AddrAssumption DEF Keys
<1> HIDE DEF Found, Refused, Created
<1>4. /\ TablesOK' /\ NoNilMapWrite' /\ Wired' /\ NcpOK'
      /\ sessions'[k] \in 0..MaxGen
      /\ Created => sessions'[k] \in Gens
  <2>1. CASE Found
    <3>1. sessionConns[k] \in ConnMaps
      BY <1>1, <1>3, <2>1 DEF TablesOK, NoNilMapWrite, Found
    <3>2. sessionConns' = [sessionConns EXCEPT ![k] = [sessionConns[k] EXCEPT ![i] = c]]
      BY <2>1 DEF Found
    <3>3. /\ sessionConns' \in [Keys -> ConnMaps \cup {NilMap}]
          /\ sessionConns'[k] # NilMap
          /\ Wired'
      <4>1. Goto(c, "enter") /\ "enter" \in PCs
        BY <2>1, Labels DEF Found
      <4>2. sessionConns[k] # NilMap
        BY <3>1, NilMapAssumption
      <4> QED BY PutConn, <1>1, <1>2, <1>3, <3>1, <3>2, <4>1, <4>2, Zenon
    <3>4. TablesOK' /\ NoNilMapWrite'
      BY <1>1, <1>2, <2>1, <3>2, <3>3 DEF Found, TablesOK, NoNilMapWrite
    <3>5. NcpOK'
      BY <1>1, <2>1, NcpFrame DEF Found
    <3>6. ~Created
      BY <2>1, <1>1, <1>3 DEF Found, Created, Goto, ConnsOK
    <3> QED BY <1>3, <3>3, <3>4, <3>5, <3>6 DEF TablesOK
  <2>2. CASE Refused
    <3>1. TablesOK' /\ NoNilMapWrite' /\ NcpOK'
      BY <1>1, <1>2, <2>2, TablesFrame, NcpFrame DEF Refused, tableVars
    <3>2. Wired'
      BY <1>1, <1>2, <2>2 DEF Refused, Wired, Identify, Goto, ConnsOK
    <3>3. ~Created
      BY <2>2, <1>1 DEF Refused, Created, Goto, ConnsOK
    <3> QED BY <1>3, <3>1, <3>2, <3>3 DEF TablesOK
  <2>3. CASE Created
    <3>1. /\ EmptyConns \in ConnMaps
          /\ \A j \in Idx : EmptyConns[j] # None =>
               sessionConns[k] # NilMap /\ EmptyConns[j] = sessionConns[k][j]
      BY DEF EmptyConns, ConnMaps
    <3>2. /\ Goto(c, "first") /\ "first" \in PCs
          /\ sessionConns' = [sessionConns EXCEPT ![k] = [EmptyConns EXCEPT ![i] = c]]
      BY <2>3, Labels DEF Created
    <3>3. /\ sessionConns' \in [Keys -> ConnMaps \cup {NilMap}]
          /\ sessionConns'[k] # NilMap
          /\ Wired'
      BY PutConn, <1>1, <1>2, <1>3, <3>1, <3>2, Zenon
    <3>4. NcpOK' /\ sessions' \in [Keys -> 0..MaxGen] /\ sessions'[k] \in Gens
      BY <1>1, <1>3, <2>3, NewSessionType DEF Created
    <3>5. TablesOK'
      BY <1>1, <1>2, <3>3, <3>4 DEF TablesOK
    <3>6. NoNilMapWrite'
      BY <1>1, <1>3, <2>3, <3>2, <3>3 DEF NoNilMapWrite, Created, NewSession, TablesOK
    <3> QED BY <1>3, <3>3, <3>4, <3>5, <3>6 DEF TablesOK
  <2> QED BY <1>2, <2>1, <2>2, <2>3, Zenon
<1>5. AddrsOK' /\ QueueOK' /\ DialOK'
  BY <1>1, <1>2, AddrsFrame, QueueFrame, DialFrame
<1>6. ConnsOK'
  <2>1. pc' \in [Conns -> PCs]
    BY <1>1, <1>2, Labels DEF Found, Refused, Created, ConnsOK, Goto
  <2>2. /\ ckey' \in [Conns -> Keys \cup {None}]
        /\ cidx' \in [Conns -> Idx \cup {None}]
        /\ caddr' \in [Conns -> Addrs \cup {None}]
    BY <1>1, <1>2, <1>3 DEF ConnsOK, Identify
  <2>3. csess' \in [Conns -> 0..MaxGen]
    BY <1>1, <1>2, <1>4 DEF ConnsOK
  <2>4. link' \in [Conns -> {"none", "open", "closed"}]
    BY <1>1, <1>2 DEF Found, Refused, Created, ConnsOK, CloseLinks
  <2> QED BY <2>1, <2>2, <2>3, <2>4 DEF ConnsOK
<1>7. Identified'
  <2>1. \/ pc' = [pc EXCEPT ![c] = "enter"]
        \/ pc' = [pc EXCEPT ![c] = "done"]
        \/ pc' = [pc EXCEPT ![c] = "first"] /\ Created
    <3>1. Found => Goto(c, "enter")
      BY DEF Found
    <3>2. Refused => Goto(c, "done")
      BY DEF Refused
    <3>3. Created => Goto(c, "first")
      BY SMTT(30) DEF Created
    <3> QED BY <1>2, <3>1, <3>2, <3>3, Zenon DEF Goto
  <2>2. ASSUME NEW d \in Conns, pc'[d] # "free"
        PROVE  /\ ckey'[d] \in Keys /\ cidx'[d] \in Idx /\ caddr'[d] \in Addrs
               /\ pc'[d] = "first" => csess'[d] \in Gens
    <3>1. CASE d = c
      BY <1>1, <1>2, <1>3, <1>4, <2>1, <3>1 DEF ConnsOK, Identify
    <3>2. CASE d # c
      BY SMTT(30), <1>1, <1>2, <2>1, <2>2, <3>2 DEF ConnsOK, Identify, Identified
    <3> QED BY <3>1, <3>2
  <2> QED BY <2>2 DEF Identified
<1> QED BY <1>1, <1>2, <1>4, <1>5, <1>6, <1>7, TypeWhole

\* the first message and the offer to AcceptSession
LEMMA FirstMsgType ==
  ASSUME TypeInv, NEW c \in Conns, FirstMsg(c), UNCHANGED dialVars
  PROVE  TypeInv'
<1>1. /\ TablesOK /\ AddrsOK /\ QueueOK /\ NcpOK /\ ConnsOK /\ DialOK
      /\ isClosed \in BOOLEAN /\ sweeper \in {"sleep", "sweep", "exit"}
      /\ NoNilMapWrite /\ Identified /\ Wired
  BY ZenonT(40), TypeParts
<1>2. <<ckey[c], csess[c]>> \in Keys \X Gens
  BY <1>1 DEF Identified, FirstMsg
<1>3. QueueOK'
  <2>1. Offer(ckey[c], csess[c]) /\ accepted' = accepted
    BY DEF FirstMsg
  <2>2. CASE Len(acceptSession) < AcceptBuf
    BY <1>1, <1>2, <2>1, <2>2, BoundAssumption DEF Offer, QueueOK
  <2>3. CASE ~(Len(acceptSession) < AcceptBuf)
    BY <1>1, <2>1, <2>3 DEF Offer, QueueOK
  <2> QED BY ZenonT(40), <2>2, <2>3
<1>4. ConnsOK' /\ Identified' /\ Wired'
  BY SMTT(30), <1>1, MoveConns, MoveWired, Labels DEF FirstMsg, tableVars
<1> QED BY Zenon, <1>1, <1>3, <1>4, TypeWhole, TablesFrame, AddrsFrame, NcpFrame, DialFrame
        DEF FirstMsg

\* the first critical section of handleConn
LEMMA HandleConnType ==
  ASSUME TypeInv, NEW c \in Conns, HandleConn(c), UNCHANGED dialVars
  PROVE  TypeInv'
<1>1. /\ TablesOK /\ AddrsOK /\ QueueOK /\ NcpOK /\ ConnsOK /\ DialOK
      /\ isClosed \in BOOLEAN /\ sweeper \in {"sleep", "sweep", "exit"}
      /\ NoNilMapWrite /\ Identified /\ Wired
  BY SMTT(30), TypeParts
<1>2. /\ ckey[c] \in Keys /\ caddr[c] \in Addrs
      /\ RemoteOf[ckey[c]] \in Remotes
  BY <1>1, KeyAssumption DEF Identified, HandleConn
<1>3. TablesOK' /\ NoNilMapWrite'
  <2>1. connCount' \in [Keys -> Int]
    <3>1. connCount \in [Keys -> Int]
      BY Zenon, <1>1 DEF TablesOK
    <3>2. \/ connCount' = connCount
          \/ connCount' = [connCount EXCEPT ![ckey[c]] = connCount[ckey[c]] + 1]
      BY ZenonT(40) DEF HandleConn
    <3> QED BY SMTT(30), <1>2, <3>1, <3>2
  <2> QED BY <1>1, <2>1 DEF TablesOK, NoNilMapWrite, HandleConn
<1>4. AddrsOK'
  <2>1. addrConnCount[RemoteOf[ckey[c]]][caddr[c]] + 1 \in Int
    BY SMTT(30), <1>1, <1>2 DEF AddrsOK
  <2>2. [addrConnCount EXCEPT ![RemoteOf[ckey[c]]][caddr[c]] = @ + 1]
          \in [Remotes -> [Addrs -> Int]]
    BY <1>1, <1>2, <2>1, ExceptTwo DEF AddrsOK
  <2> QED BY <1>1, <2>2 DEF AddrsOK, HandleConn
<1>5. ConnsOK'
  <2>1. csess' \in [Conns -> 0..MaxGen]
    BY <1>1, <1>2 DEF ConnsOK, TablesOK, HandleConn
  <2>2. pc' \in [Conns -> PCs]
    BY <1>1, Labels DEF ConnsOK, HandleConn, Goto
  <2> QED BY <1>1, <2>1, <2>2 DEF ConnsOK, HandleConn, idVars
<1>6. Identified' /\ Wired'
  <2>1. \E p \in {"ret", "loop"} : pc' = [pc EXCEPT ![c] = p]
    BY DEF HandleConn, Goto
  <2>2. pc[c] = "enter" /\ UNCHANGED <<sessionConns, idVars>>
        /\ csess' = [csess EXCEPT ![c] = sessions[ckey[c]]]
    BY DEF HandleConn
  <2>3. Identified'
    BY <1>1, <2>1, <2>2 DEF ConnsOK, Identified, idVars
  <2>4. Wired'
    BY <1>1, <2>1, <2>2 DEF ConnsOK, Wired, idVars
  <2> QED BY <2>3, <2>4
<1> QED BY ZenonT(40), <1>1, <1>3, <1>4, <1>5, <1>6, TypeWhole, QueueFrame, NcpFrame, DialFrame
        DEF HandleConn

\* its deferred critical section
LEMMA HandleConnDeferType ==
  ASSUME TypeInv, NEW c \in Conns, HandleConnDefer(c), UNCHANGED dialVars
  PROVE  TypeInv'
<1>1. /\ TablesOK /\ AddrsOK /\ QueueOK /\ NcpOK /\ ConnsOK /\ DialOK
      /\ isClosed \in BOOLEAN /\ sweeper \in {"sleep", "sweep", "exit"}
      /\ NoNilMapWrite /\ Identified /\ Wired
  BY SMTT(30), TypeParts
<1> DEFINE k == ckey[c]
           i == cidx[c]
           r == RemoteOf[k]
           a == caddr[c]
<1>2. k \in Keys /\ i \in Idx /\ a \in Addrs /\ r \in Remotes
  BY ZenonT(40), <1>1, KeyAssumption DEF Identified, HandleConnDefer
<1>3. /\ pc[c] = "loop"
      /\ AddrCountDown(r, a)
      /\ UNCHANGED <<isClosed, queueVars, ncpVars, sweeper, idVars, csess, link>>
      /\ \/ /\ Goto(c, "ret")
            /\ connCount' = [connCount EXCEPT ![k] = @ - 1]
            /\ sessionConns' = [sessionConns EXCEPT ![k] = WithoutConn(k, i)]
            /\ UNCHANGED <<sessions, closedSessionKey>>
         \/ /\ Goto(c, "close")
            /\ Forget({k})
  BY SMTT(30) DEF HandleConnDefer
<1>4. /\ WithoutConn(k, i) \in ConnMaps \cup {NilMap}
      /\ WithoutConn(k, i) = NilMap <=> sessionConns[k] = NilMap
      /\ \A j \in Idx : sessionConns[k] # NilMap /\ WithoutConn(k, i)[j] # None
                          => WithoutConn(k, i)[j] = sessionConns[k][j]
  BY <1>1, <1>2, NilMapAssumption DEF TablesOK, WithoutConn, ConnMaps
<1> HIDE DEF k, i, r, a
<1>5. TablesOK' /\ NoNilMapWrite' /\ Wired'
  <2>1. CASE Goto(c, "close") /\ Forget({k})
    <3>1. \A d \in Conns : pc[d] # "free" => pc'[d] # "free"
      BY ZenonT(40), <1>1, <2>1 DEF ConnsOK, Goto
    <3> QED BY <1>1, <1>2, <1>3, <2>1, <3>1, ForgetType, ForgetWired
  <2>2. CASE /\ Goto(c, "ret")
             /\ connCount' = [connCount EXCEPT ![k] = @ - 1]
             /\ sessionConns' = [sessionConns EXCEPT ![k] = WithoutConn(k, i)]
             /\ UNCHANGED <<sessions, closedSessionKey>>
    <3>1. sessionConns' \in [Keys -> ConnMaps \cup {NilMap}]
      BY <1>1, <1>2, <1>4, <2>2 DEF TablesOK
    <3>2. connCount' \in [Keys -> Int]
      BY <1>1, <1>2, <2>2 DEF TablesOK
    <3>3. TablesOK'
      BY <1>1, <2>2, <3>1, <3>2 DEF TablesOK
    <3>4. NoNilMapWrite'
      BY SMTT(30), <1>1, <1>2, <1>4, <2>2 DEF TablesOK, NoNilMapWrite
    <3>5. ASSUME NEW q \in Keys, NEW j \in Idx, NEW d \in Conns,
                 sessionConns'[q] # NilMap, sessionConns'[q][j] = d
          PROVE  pc'[d] # "free" /\ ckey'[d] = q /\ cidx'[d] = j
      <4>1. sessionConns[q] # NilMap /\ sessionConns[q][j] = d
        BY ZenonT(40), <1>1, <1>2, <1>4, <2>2, <3>5, ConnAssumption DEF TablesOK
      <4>2. pc[d] # "free" /\ ckey[d] = q /\ cidx[d] = j
        BY <1>1, <4>1 DEF Wired
      <4> QED BY <1>1, <1>3, <2>2, <4>2 DEF ConnsOK, Goto, idVars
    <3> QED BY <3>3, <3>4, <3>5 DEF Wired
  <2> QED BY <1>3, <2>1, <2>2, Zenon
<1>6. AddrsOK'
  <2>1. addrConnCount[r][a] \in Int
    BY <1>1, <1>2 DEF AddrsOK
  <2>2. (IF addrConnCount[r][a] - 1 <= 0 THEN 0 ELSE addrConnCount[r][a] - 1) \in Int
    BY <2>1
  <2>3. addrConnCount' \in [Remotes -> [Addrs -> Int]]
    BY <1>1, <1>2, <1>3, <2>2, ExceptTwo DEF AddrsOK, AddrCountDown
  <2>4. pubAddrs' \in [Remotes -> PubLists \cup {None}]
    BY <1>1, <1>2, <1>3 DEF AddrsOK, AddrCountDown
  <2> QED BY <2>3, <2>4 DEF AddrsOK
<1>7. ConnsOK'
  BY ZenonT(40), <1>1, <1>3, MoveConns, Labels
<1>8. Identified'
  BY <1>1, <1>3 DEF ConnsOK, Identified, idVars, Goto
<1> QED BY ZenonT(40), <1>1, <1>3, <1>5, <1>6, <1>7, <1>8, TypeWhole, QueueFrame, NcpFrame,
           DialFrame

\* every step of the goroutine of a connection
LEMMA ConnStepType ==
  ASSUME TypeInv, NEW c \in Conns, ConnNext(c), UNCHANGED dialVars
  PROVE  TypeInv'
<1>1. /\ TablesOK /\ AddrsOK /\ QueueOK /\ NcpOK /\ ConnsOK /\ DialOK
      /\ isClosed \in BOOLEAN /\ sweeper \in {"sleep", "sweep", "exit"}
      /\ NoNilMapWrite /\ Identified /\ Wired
  BY SMTT(30), TypeParts
<1>2. CASE FirstMsgErr(c) \/ ListenerReturn(c)
  <2>1. /\ Goto(c, "done") /\ pc[c] # "free"
        /\ link' = CloseLinks({c})
        /\ UNCHANGED <<tableVars, addrVars, isClosed, queueVars, ncpVars, sweeper,
                       idVars, csess>>
    BY <1>2 DEF FirstMsgErr, ListenerReturn
  <2>2. ConnsOK' /\ Identified' /\ Wired'
    BY <1>1, <2>1, MoveConns, MoveWired, Labels DEF tableVars
  <2> QED BY ZenonT(40), <1>1, <2>1, <2>2, TypeWhole, TablesFrame, AddrsFrame, QueueFrame,
             NcpFrame, DialFrame
<1>3. CASE HandleConnClose(c)
  <2>1. /\ Goto(c, "ret") /\ pc[c] # "free"
        /\ UNCHANGED <<tableVars, addrVars, isClosed, queueVars, gens, sweeper,
                       idVars, csess, link>>
    BY <1>3 DEF HandleConnClose
  <2>2. ConnsOK' /\ Identified' /\ Wired'
    BY SMTT(30), <1>1, <2>1, MoveConns, MoveWired, Labels DEF tableVars
  <2>3. NcpOK'
    BY ZenonT(40), <1>1, <1>3 DEF HandleConnClose, NcpOK, NcpStates, CloseNcp
  <2> QED BY <1>1, <2>1, <2>2, <2>3, TypeWhole, TablesFrame, AddrsFrame, QueueFrame,
             DialFrame, Zenon
<1> QED BY <1>2, <1>3, RegisterType, FirstMsgType, HandleConnType, HandleConnDeferType
        DEF ConnNext

\* every step for one session key
LEMMA KeyStepType ==
  ASSUME TypeInv, NEW k \in Keys, KeyNext(k), UNCHANGED dialVars
  PROVE  TypeInv'
<1>1. /\ TablesOK /\ AddrsOK /\ QueueOK /\ NcpOK /\ ConnsOK /\ DialOK
      /\ isClosed \in BOOLEAN /\ sweeper \in {"sleep", "sweep", "exit"}
      /\ NoNilMapWrite /\ Identified /\ Wired
  BY SMTT(30), TypeParts
<1>2. CASE \E i \in Idx : CloseOneConn(k, i) \/ SendWithErr(k, i)
  <2>1. /\ \E C : link' = CloseLinks(C)
        /\ UNCHANGED <<tableVars, addrVars, isClosed, queueVars, ncpVars, sweeper,
                       pc, idVars, csess>>
    BY Zenon, <1>2 DEF CloseOneConn, SendWithErr
  <2> QED BY <1>1, <2>1, TypeWhole, TablesFrame, AddrsFrame, QueueFrame, NcpFrame,
             ConnsFrame, WiredFrame, DialFrame DEF tableVars
<1>3. CASE \E n \in Gens : NcpClose(k, n) \/ NcpClosed(k, n)
  <2>1. UNCHANGED <<tableVars, addrVars, isClosed, queueVars, gens, sweeper, pc,
                    idVars, csess, link>>
    BY <1>3 DEF NcpClose, NcpClosed
  <2>2. NcpOK'
    BY SMTT(30), <1>1, <1>3 DEF NcpClose, NcpClosed, NcpOK, NcpStates, CloseNcp
  <2> QED BY SMTT(30), <1>1, <2>1, <2>2, TypeWhole, TablesFrame, AddrsFrame, QueueFrame,
             ConnsFrame, WiredFrame, DialFrame DEF tableVars
<1>4. CASE Expire(k)
  <2>1. TablesOK' /\ NoNilMapWrite'
    BY <1>1, <1>4 DEF Expire, TablesOK, NoNilMapWrite
  <2> QED BY <1>1, <1>4, <2>1, TypeWhole, AddrsFrame, QueueFrame, NcpFrame,
             ConnsFrame, WiredFrame, DialFrame DEF Expire
<1> QED BY <1>2, <1>3, <1>4 DEF KeyNext

\* the sweeper, Close and AcceptSession
LEMMA ClientStepType ==
  ASSUME TypeInv, SweepWake \/ Sweep \/ Close \/ AcceptSession, UNCHANGED dialVars
  PROVE  TypeInv'
<1>1. /\ TablesOK /\ AddrsOK /\ QueueOK /\ NcpOK /\ ConnsOK /\ DialOK
      /\ isClosed \in BOOLEAN /\ sweeper \in {"sleep", "sweep", "exit"}
      /\ NoNilMapWrite /\ Identified /\ Wired
  BY SMTT(30), TypeParts
<1>2. CASE SweepWake
  BY SMTT(30), <1>1, <1>2, TypeWhole, TablesFrame, AddrsFrame, QueueFrame, NcpFrame, ConnsFrame,
     WiredFrame, DialFrame DEF SweepWake, tableVars
<1>3. CASE Sweep
  <2>1. /\ ClosedSessions \in SUBSET Keys /\ Forget(ClosedSessions)
        /\ \E C : link' = CloseLinks(C)
        /\ sweeper' = "sleep"
        /\ UNCHANGED <<addrVars, isClosed, queueVars, ncpVars, pc, idVars, csess>>
    BY ZenonT(40), <1>3 DEF Sweep, ClosedSessions
  <2>2. TablesOK' /\ NoNilMapWrite' /\ Wired'
    BY ZenonT(40), <1>1, <2>1, ForgetType, ForgetWired
  <2>3. Identified'
    BY SMTT(30), <1>1, <2>1 DEF Identified, idVars
  <2> QED BY ZenonT(40), <1>1, <2>1, <2>2, <2>3, TypeWhole, AddrsFrame, QueueFrame, NcpFrame,
             ConnsFrame, DialFrame
<1>4. CASE Close
  <2>1. /\ \E C : link' = CloseLinks(C)
        /\ isClosed' = TRUE
        /\ UNCHANGED <<tableVars, addrVars, queueVars, gens, sweeper, pc, idVars, csess>>
    BY <1>4 DEF Close
  <2>2. NcpOK'
    BY ZenonT(40), <1>1, <1>4 DEF Close, NcpOK, NcpStates, CloseNcp
  <2> QED BY ZenonT(40), <1>1, <2>1, <2>2, TypeWhole, TablesFrame, AddrsFrame, QueueFrame,
             ConnsFrame, WiredFrame, DialFrame DEF tableVars
<1>5. CASE AcceptSession
  <2>1. QueueOK'
    BY <1>1, <1>5, BoundAssumption DEF AcceptSession, QueueOK
  <2> QED BY <1>1, <1>5, <2>1, TypeWhole, TablesFrame, AddrsFrame, NcpFrame, ConnsFrame,
             WiredFrame, DialFrame DEF AcceptSession, tableVars
<1> QED BY <1>2, <1>3, <1>4, <1>5

-----------------------------------------------------------------------------
(* The actions of the dialing side *)

\* an entry of a list of addresses
LEMMA AddrAtType ==
  ASSUME NEW l \in PubLists, NEW i \in Idx
  PROVE  AddrAt(l, i) \in Addrs \cup {NoAddr, None}
BY ListAssumption DEF AddrAt

\* the state of the client is left alone, or gets a new list in the cache
LEMMA ClientFrame ==
  ASSUME TypeInv, DialOK',
         UNCHANGED <<tableVars, addrConnCount, isClosed, queueVars, ncpVars, sweeper,
                     pc, idVars, csess, link>>,
         \/ pubAddrs' = pubAddrs
         \/ \E r \in Remotes, l \in PubLists : pubAddrs' = [pubAddrs EXCEPT ![r] = l]
  PROVE  TypeInv'
<1>1. /\ TablesOK /\ AddrsOK /\ QueueOK /\ NcpOK /\ ConnsOK /\ DialOK
      /\ isClosed \in BOOLEAN /\ sweeper \in {"sleep", "sweep", "exit"}
      /\ NoNilMapWrite /\ Identified /\ Wired
  BY SMTT(30), TypeParts
<1>2. AddrsOK'
  BY ZenonT(40), <1>1 DEF AddrsOK
<1> QED BY <1>1, <1>2, TypeWhole, TablesFrame, QueueFrame, NcpFrame, ConnsFrame, WiredFrame
        DEF tableVars

\* dialTcpConn puts its connection into the table
LEMMA DialedType ==
  ASSUME TypeInv, NEW c \in Conns, NEW k \in DialKeys, NEW i \in Idx,
         NEW p \in PCs \ {"free", "first"}, Dialed(c, k, i, p), DialOK'
  PROVE  TypeInv'
<1>1. /\ TablesOK /\ AddrsOK /\ QueueOK /\ NcpOK /\ ConnsOK /\ DialOK
      /\ isClosed \in BOOLEAN /\ sweeper \in {"sleep", "sweep", "exit"}
      /\ NoNilMapWrite /\ Identified /\ Wired
  BY ZenonT(40), TypeParts
<1> DEFINE m == IF sessionConns[k] = NilMap THEN EmptyConns ELSE sessionConns[k]
           a == target[k][i]
<1>2. /\ k \in Keys /\ a \in Addrs
      /\ pc[c] = "free"
      /\ Identify(c, k, i, a)
      /\ Goto(c, p)
      /\ link' = [link EXCEPT ![c] = "open"]
      /\ sessionConns' = [sessionConns EXCEPT ![k] = [m EXCEPT ![i] = c]]
      /\ UNCHANGED <<sessions, connCount, closedSessionKey, addrVars, isClosed,
                     queueVars, ncpVars, sweeper, csess>>
  BY ZenonT(40) DEF Dialed, Fresh, Keys
<1>3. /\ m \in ConnMaps
      /\ \A j \in Idx : m[j] # None => sessionConns[k] # NilMap /\ m[j] = sessionConns[k][j]
  BY <1>1, <1>2 DEF TablesOK, EmptyConns, ConnMaps
<1> HIDE DEF m, a
<1>4. /\ sessionConns' \in [Keys -> ConnMaps \cup {NilMap}]
      /\ sessionConns'[k] # NilMap
      /\ Wired'
  <2>1. p \in PCs /\ p # "free"
    BY ZenonT(40)
  <2> QED BY PutConn, <1>1, <1>2, <1>3, <2>1, Zenon
<1>5. TablesOK' /\ NoNilMapWrite'
  BY ZenonT(40), <1>1, <1>2, <1>4 DEF TablesOK, NoNilMapWrite
<1>6. ConnsOK'
  <2>1. pc' \in [Conns -> PCs] /\ link' \in [Conns -> {"none", "open", "closed"}]
    BY <1>1, <1>2 DEF ConnsOK, Goto
  <2>2. /\ ckey' \in [Conns -> Keys \cup {None}]
        /\ cidx' \in [Conns -> Idx \cup {None}]
        /\ caddr' \in [Conns -> Addrs \cup {None}]
    BY ZenonT(40), <1>1, <1>2 DEF ConnsOK, Identify
  <2> QED BY <1>1, <1>2, <2>1, <2>2 DEF ConnsOK
<1>7. Identified'
  BY <1>1, <1>2 DEF Identified, ConnsOK, Identify, Goto
<1> QED BY <1>1, <1>2, <1>4, <1>5, <1>6, <1>7, TypeWhole, AddrsFrame, QueueFrame, NcpFrame

\* the goroutines of a dial are started
LEMMA StartDialingType ==
  ASSUME DialOK, NEW k \in DialKeys, NEW l \in PubLists, StartDialing(k, l),
         UNCHANGED <<mainErr, wconn, tries>>
  PROVE  DialOK'
<1>1. main' \in [DialKeys -> Mains]
  BY DEF DialOK, StartDialing, Mains
<1>2. [i \in Idx |-> AddrAt(l, i)] \in [Idx -> Addrs \cup {NoAddr, None}]
  BY AddrAtType
<1>3. target' \in [DialKeys -> [Idx -> Addrs \cup {NoAddr, None}]]
  BY <1>2 DEF DialOK, StartDialing
<1>4. worker' \in [DialKeys -> [Idx -> Workers]]
  BY DEF DialOK, StartDialing, Workers
<1> QED BY <1>1, <1>3, <1>4 DEF DialOK

\* DialWithConfig installs the session
LEMMA DialInstallType ==
  ASSUME TypeInv, NEW k \in DialKeys, DialInstall(k)
  PROVE  TypeInv'
<1>1. /\ TablesOK /\ AddrsOK /\ QueueOK /\ NcpOK /\ ConnsOK /\ DialOK
      /\ isClosed \in BOOLEAN /\ sweeper \in {"sleep", "sweep", "exit"}
      /\ NoNilMapWrite /\ Identified /\ Wired
  BY SMTT(30), TypeParts
<1>2. k \in Keys
  BY DEF Keys
<1>3. NcpOK' /\ sessions' \in [Keys -> 0..MaxGen]
  BY ZenonT(40), <1>1, <1>2, NewSessionType DEF DialInstall
<1>4. TablesOK'
  BY ZenonT(40), <1>1, <1>3 DEF TablesOK, DialInstall
<1>5. NoNilMapWrite'
  BY <1>1 DEF TablesOK, NoNilMapWrite, DialInstall, NewSession
<1>6. \A c \in Conns : \/ pc'[c] = pc[c]
                       \/ pc'[c] = "enter" /\ c \in RegisteredConns({k})
  BY DEF DialInstall
<1>7. ConnsOK'
  <2>1. pc' \in [Conns -> PCs]
    BY ZenonT(40), <1>1, <1>6, Labels DEF ConnsOK, DialInstall
  <2> QED BY ZenonT(40), <1>1, <2>1 DEF ConnsOK, DialInstall, idVars
<1>8. \A c \in RegisteredConns({k}) : pc[c] # "free"
  <2>1. Wired
    BY ZenonT(40), <1>1
  <2>2. ASSUME NEW c \in Conns, NEW i \in Idx,
               sessionConns[k] # NilMap, sessionConns[k][i] = c
        PROVE  pc[c] # "free"
    BY <1>2, <2>1, <2>2 DEF Wired
  <2> QED BY <2>2 DEF RegisteredConns
<1>9. UNCHANGED <<sessionConns, ckey, cidx, caddr, csess>>
  BY DEF DialInstall, idVars
<1>10. \A c \in Conns : /\ pc[c] # "free" <=> pc'[c] # "free"
                        /\ pc'[c] = "first" => pc[c] = "first"
  BY ZenonT(40), <1>6, <1>8
<1>12. Identified'
  BY ZenonT(40), <1>1, <1>9, <1>10 DEF Identified
<1>13. Wired'
  BY SMTT(30), <1>1, <1>9, <1>10 DEF Wired
<1>11. DialOK'
  <2>0. /\ main' = [main EXCEPT ![k] = "sessdial"]
        /\ mainErr' = [mainErr EXCEPT ![k] = FALSE]
        /\ worker' = [worker EXCEPT ![k] = [i \in Idx |->
             IF sessionConns[k][i] # None THEN "run" ELSE worker[k][i]]]
        /\ UNCHANGED <<target, wconn, tries>>
    BY Zenon DEF DialInstall
  <2>1. main' \in [DialKeys -> Mains]
    BY ZenonT(40), <1>1, <2>0 DEF DialOK, Mains
  <2>2. worker' \in [DialKeys -> [Idx -> Workers]]
    BY SMTT(30), <1>1, <2>0 DEF DialOK, Workers
  <2>3. mainErr' \in [DialKeys -> BOOLEAN]
    BY <1>1, <2>0 DEF DialOK
  <2>4. /\ target' \in [DialKeys -> [Idx -> Addrs \cup {NoAddr, None}]]
        /\ wconn' \in [DialKeys -> [Idx -> Conns \cup {None}]]
        /\ tries' \in [DialKeys -> [Idx -> Nat]]
    BY Zenon, <1>1, <2>0 DEF DialOK
  <2> QED BY Zenon, <2>1, <2>2, <2>3, <2>4 DEF DialOK
<1> QED BY <1>1, <1>3, <1>4, <1>5, <1>7, <1>11, <1>12, <1>13, TypeWhole, AddrsFrame,
           QueueFrame, Zenon DEF DialInstall

\* every step of DialWithConfig
LEMMA MainStepType ==
  ASSUME TypeInv, NEW k \in DialKeys, DialStart(k) \/ MainStep(k)
  PROVE  TypeInv'
<1>1. DialOK /\ AddrsOK
  BY SMTT(30), TypeParts
<1>2. RemoteOf[k] \in Remotes
  BY SMTT(30), KeyAssumption DEF Keys
<1>3. ASSUME NEW p \in Mains, main' = [main EXCEPT ![k] = p],
             mainErr' = mainErr \/ mainErr' = [mainErr EXCEPT ![k] = TRUE],
             UNCHANGED <<clientVars, worker, target, wconn, tries>>
      PROVE  TypeInv'
  <2>1. DialOK'
    BY Zenon, <1>1, <1>3 DEF DialOK
  <2> QED BY SMTT(30), <1>3, <2>1, ClientFrame DEF clientVars, addrVars
<1>4. "look" \in Mains /\ "fetch" \in Mains /\ "done" \in Mains /\ "failed" \in Mains
  BY DEF Mains
<1>5. CASE DialStart(k)
  BY <1>3, <1>4, <1>5, Zenon DEF DialStart
<1>6. CASE DialFetchErr(k) \/ DialSessionErr(k)
  BY <1>3, <1>4, <1>6 DEF DialFetchErr, DialSessionErr, Fail
<1>7. CASE DialNoConn(k)
  BY ZenonT(40), <1>3, <1>4, <1>7 DEF DialNoConn
<1>8. CASE DialDone(k)
  BY <1>3, <1>4, <1>8 DEF DialDone, Fail
<1>9. CASE DialLook(k)
  <2>1. UNCHANGED <<clientVars, wconn, tries>>
    BY <1>9 DEF DialLook
  <2>2. CASE /\ CacheHit(RemoteOf[k])
             /\ StartDialing(k, pubAddrs[RemoteOf[k]])
             /\ UNCHANGED mainErr
    <3>1. pubAddrs[RemoteOf[k]] \in PubLists
      BY ZenonT(40), <1>1, <1>2, <2>2 DEF CacheHit, AddrsOK
    <3>2. DialOK'
      BY <1>1, <2>1, <2>2, <3>1, StartDialingType
    <3> QED BY <2>1, <3>2, ClientFrame DEF clientVars, addrVars
  <2>3. CASE main' = [main EXCEPT ![k] = "fetch"] /\ UNCHANGED <<mainErr, worker, target>>
    BY <1>3, <1>4, <2>1, <2>3, Zenon
  <2>4. CASE Fail(k) /\ UNCHANGED <<worker, target>>
    BY <1>3, <1>4, <2>1, <2>4, Zenon DEF Fail
  <2> QED BY ZenonT(40), <1>9, <2>2, <2>3, <2>4 DEF DialLook
<1>10. ASSUME NEW l \in PubLists, DialFetched(k, l)
       PROVE  TypeInv'
  <2>1. DialOK'
    BY <1>1, <1>10, StartDialingType DEF DialFetched
  <2> QED BY ZenonT(40), <1>2, <1>10, <2>1, ClientFrame DEF DialFetched
<1> QED BY <1>5, <1>6, <1>7, <1>8, <1>9, <1>10, DialInstallType DEF MainStep

\* a goroutine of an index moves on
LEMMA WorkerGotoType ==
  ASSUME DialOK, NEW k \in DialKeys, NEW i \in Idx,
         NEW p \in Workers, worker' = [worker EXCEPT ![k][i] = p],
         main' = main,
         mainErr' = mainErr \/ \E b \in BOOLEAN : mainErr' = [mainErr EXCEPT ![k] = b],
         \/ target' = target
         \/ \E a \in Addrs \cup {NoAddr, None} : target' = [target EXCEPT ![k][i] = a],
         \/ wconn' = wconn
         \/ \E c \in Conns \cup {None} : wconn' = [wconn EXCEPT ![k][i] = c],
         tries' = tries \/ \E n \in Nat : tries' = [tries EXCEPT ![k][i] = n]
  PROVE  DialOK'
<1>1. worker' \in [DialKeys -> [Idx -> Workers]]
  BY SMTT(30), ExceptTwo DEF DialOK
<1>2. mainErr' \in [DialKeys -> BOOLEAN]
  BY ZenonT(40) DEF DialOK
<1>3. target' \in [DialKeys -> [Idx -> Addrs \cup {NoAddr, None}]]
  <2>1. target \in [DialKeys -> [Idx -> Addrs \cup {NoAddr, None}]]
    BY ZenonT(40) DEF DialOK
  <2>2. ASSUME NEW a \in Addrs \cup {NoAddr, None}, target' = [target EXCEPT ![k][i] = a]
        PROVE  target' \in [DialKeys -> [Idx -> Addrs \cup {NoAddr, None}]]
    BY <2>1, <2>2, ExceptTwo
  <2> QED BY <2>1, <2>2
<1>4. wconn' \in [DialKeys -> [Idx -> Conns \cup {None}]]
  <2>1. wconn \in [DialKeys -> [Idx -> Conns \cup {None}]]
    BY ZenonT(40) DEF DialOK
  <2>2. ASSUME NEW c \in Conns \cup {None}, wconn' = [wconn EXCEPT ![k][i] = c]
        PROVE  wconn' \in [DialKeys -> [Idx -> Conns \cup {None}]]
    BY <2>1, <2>2, ExceptTwo
  <2> QED BY ZenonT(40), <2>1, <2>2
<1>5. tries' \in [DialKeys -> [Idx -> Nat]]
  <2>1. tries \in [DialKeys -> [Idx -> Nat]]
    BY DEF DialOK
  <2>2. ASSUME NEW n \in Nat, tries' = [tries EXCEPT ![k][i] = n]
        PROVE  tries' \in [DialKeys -> [Idx -> Nat]]
    BY ZenonT(40), <2>1, <2>2, ExceptTwo
  <2> QED BY <2>1, <2>2
<1> QED BY ZenonT(40), <1>1, <1>2, <1>3, <1>4, <1>5 DEF DialOK

\* the steps of a goroutine that touch no connection
LEMMA WorkerMoveType ==
  ASSUME TypeInv, NEW k \in DialKeys, NEW i \in Idx, NEW p \in Workers,
         worker' = [worker EXCEPT ![k][i] = p],
         main' = main, wconn' = wconn,
         mainErr' = mainErr \/ \E b \in BOOLEAN : mainErr' = [mainErr EXCEPT ![k] = b],
         \/ target' = target
         \/ \E a \in Addrs \cup {NoAddr, None} : target' = [target EXCEPT ![k][i] = a],
         tries' = tries \/ \E n \in Nat : tries' = [tries EXCEPT ![k][i] = n],
         UNCHANGED <<tableVars, addrConnCount, isClosed, queueVars, ncpVars, sweeper,
                     pc, idVars, csess, link>>,
         \/ pubAddrs' = pubAddrs
         \/ \E l \in PubLists : pubAddrs' = [pubAddrs EXCEPT ![RemoteOf[k]] = l]
  PROVE  TypeInv'
<1>1. DialOK
  BY SMTT(30), TypeParts
<1>2. DialOK'
  BY ZenonT(40), <1>1, WorkerGotoType
<1>3. RemoteOf[k] \in Remotes
  BY KeyAssumption DEF Keys
<1> QED BY <1>2, <1>3, ClientFrame

\* a failed attempt to reconnect
LEMMA AttemptFailedType ==
  ASSUME TypeInv, NEW k \in DialKeys, NEW i \in Idx,
         AttemptFailed(k, i), UNCHANGED <<clientVars, target>>
  PROVE  TypeInv'
<1>1. tries[k][i] + 1 \in Nat
  BY TypeParts DEF DialOK
<1>2. tries[k][i] \in Nat
  BY TypeParts DEF DialOK
<1>3. \E n \in Nat : tries' = [tries EXCEPT ![k][i] = n]
  <2>1. tries' = [tries EXCEPT ![k][i] =
                    IF Retries < 0 THEN tries[k][i] ELSE tries[k][i] + 1]
    BY DEF AttemptFailed
  <2> QED BY <1>1, <1>2, <2>1, Zenon
<1>4. PICK p \in Workers : WorkerGoto(k, i, p)
  BY SMTT(30) DEF AttemptFailed, Workers
<1> QED BY <1>3, <1>4, WorkerMoveType, Zenon DEF WorkerGoto, clientVars, addrVars

\* handleConn returns to the goroutine that dialed
LEMMA WorkerReturnType ==
  ASSUME TypeInv, NEW k \in DialKeys, NEW i \in Idx, WorkerReturn(k, i)
  PROVE  TypeInv'
<1>1. /\ TablesOK /\ AddrsOK /\ QueueOK /\ NcpOK /\ ConnsOK /\ DialOK
      /\ isClosed \in BOOLEAN /\ sweeper \in {"sleep", "sweep", "exit"}
      /\ NoNilMapWrite /\ Identified /\ Wired
  BY SMTT(30), TypeParts
<1> DEFINE c == wconn[k][i]
<1>2. /\ pc[c] = "ret" /\ Goto(c, "done")
      /\ link' = link \/ link' = CloseLinks({c})
      /\ UNCHANGED <<tableVars, addrVars, isClosed, queueVars, ncpVars, sweeper,
                     idVars, csess, main, mainErr, target>>
      /\ \E p \in Workers : worker' = [worker EXCEPT ![k][i] = p]
      /\ wconn' = [wconn EXCEPT ![k][i] = None]
      /\ tries' = [tries EXCEPT ![k][i] = 0]
  BY Zenon DEF WorkerReturn, Workers
<1>3. DialOK'
  BY <1>1, <1>2, WorkerGotoType, Zenon
<1> HIDE DEF c
<1>4. ConnsOK'
  BY ZenonT(40), <1>1, <1>2, Labels, MoveConns
<1>5. Identified' /\ Wired'
  <2>1. UNCHANGED <<sessionConns, idVars, csess>>
    BY <1>2 DEF tableVars
  <2>2. pc[c] # "free"
    BY ZenonT(40), <1>2
  <2> QED BY ZenonT(40), <1>1, <1>2, <2>1, <2>2, Labels, MoveWired
<1> QED BY <1>1, <1>2, <1>3, <1>4, <1>5, TypeWhole, TablesFrame, AddrsFrame, QueueFrame,
           NcpFrame

\* the peer says that the session is closed
LEMMA SessionClosedType ==
  ASSUME TypeInv, NEW k \in DialKeys, NEW i \in Idx, ReconnectSessionClosed(k, i)
  PROVE  TypeInv'
<1>1. /\ TablesOK /\ AddrsOK /\ QueueOK /\ NcpOK /\ ConnsOK /\ DialOK
      /\ isClosed \in BOOLEAN /\ sweeper \in {"sleep", "sweep", "exit"}
      /\ NoNilMapWrite /\ Identified /\ Wired
  BY SMTT(30), TypeParts
<1>2. "exit" \in Workers
  BY DEF Workers
<1>3. DialOK'
  BY <1>1, <1>2, WorkerGotoType, Zenon DEF ReconnectSessionClosed, WorkerGoto
<1>4. NcpOK'
  <2>1. k \in Keys
    BY DEF Keys
  <2>2. ncp' = [ncp EXCEPT ![k][gens[k]] = CloseNcp(ncp[k][gens[k]])] /\ gens' = gens
    BY DEF ReconnectSessionClosed
  <2>3. CASE gens[k] \in Gens
    <3>1. CloseNcp(ncp[k][gens[k]]) \in NcpStates
      BY <1>1, <2>1, <2>3 DEF NcpOK, CloseNcp, NcpStates
    <3> QED BY <1>1, <2>1, <2>2, <2>3, <3>1, ExceptTwo DEF NcpOK
  <2>4. CASE gens[k] \notin Gens
    <3>1. [ncp[k] EXCEPT ![gens[k]] = CloseNcp(ncp[k][gens[k]])] = ncp[k]
      BY <1>1, <2>1, <2>4 DEF NcpOK
    <3> QED BY <1>1, <2>1, <2>2, <3>1, Zenon DEF NcpOK
  <2> QED BY <2>3, <2>4
<1> QED BY <1>1, <1>3, <1>4, TypeWhole, TablesFrame, AddrsFrame, QueueFrame, ConnsFrame,
           WiredFrame DEF ReconnectSessionClosed, tableVars

\* every step of the goroutine of an index
LEMMA WorkerStepType ==
  ASSUME TypeInv, NEW k \in DialKeys, NEW i \in Idx, WorkerStep(k, i)
  PROVE  TypeInv'
<1>1. DialOK /\ AddrsOK
  BY SMTT(30), TypeParts
<1>2. /\ \A p \in {"dialed", "nodial", "run", "look", "fetch", "dial", "exit"} : p \in Workers
      /\ TRUE \in BOOLEAN /\ FALSE \in BOOLEAN
  BY DEF Workers
<1>3. RemoteOf[k] \in Remotes
  BY KeyAssumption DEF Keys
<1>4. \A l \in PubLists : AddrAt(l, i) \in Addrs \cup {NoAddr, None}
  BY AddrAtType
<1>5. ASSUME NEW c \in Conns, DialConn(k, i, c)
      PROVE  TypeInv'
  <2>1. DialOK'
    BY <1>1, <1>2, <1>5, WorkerGotoType, Zenon DEF DialConn
  <2> QED BY <1>5, <2>1, Labels, DialedType DEF DialConn
<1>6. ASSUME NEW c \in Conns, ReconnectConn(k, i, c)
      PROVE  TypeInv'
  <2>1. DialOK'
    BY <1>1, <1>2, <1>6, WorkerGotoType, Zenon DEF ReconnectConn
  <2> QED BY <1>6, <2>1, Labels, DialedType DEF ReconnectConn
<1>7. ASSUME NEW l \in PubLists, ReconnectFetched(k, i, l)
      PROVE  TypeInv'
  BY <1>2, <1>4, <1>7, WorkerMoveType, Zenon DEF ReconnectFetched, WorkerGoto
<1>8. CASE DialConnErr(k, i)
  BY <1>2, <1>8, WorkerMoveType, Zenon DEF DialConnErr, clientVars, addrVars
<1>9. CASE ReconnectCheck(k, i) \/ ReconnectShort(k, i)
  <2>1. PICK p \in {"look", "exit"} : WorkerGoto(k, i, p)
    BY ZenonT(40), <1>9 DEF ReconnectCheck, ReconnectShort
  <2>2. UNCHANGED <<clientVars, target, tries>>
    BY ZenonT(40), <1>9 DEF ReconnectCheck, ReconnectShort
  <2> QED BY ZenonT(40), <1>2, <2>1, <2>2, WorkerMoveType DEF WorkerGoto, clientVars, addrVars
<1>10. CASE ReconnectFetchErr(k, i) \/ ReconnectConnErr(k, i)
  BY <1>10, AttemptFailedType DEF ReconnectFetchErr, ReconnectConnErr
<1>11. CASE ReconnectLook(k, i)
  <2>1. UNCHANGED clientVars
    BY <1>11 DEF ReconnectLook
  <2>2. CASE /\ CacheHit(RemoteOf[k])
             /\ target' = [target EXCEPT ![k][i] = AddrAt(pubAddrs[RemoteOf[k]], i)]
             /\ WorkerGoto(k, i, "dial")
             /\ UNCHANGED tries
    <3>1. pubAddrs[RemoteOf[k]] \in PubLists
      BY <1>1, <1>3, <2>2 DEF CacheHit, AddrsOK
    <3>2. \E a \in Addrs \cup {NoAddr, None} : target' = [target EXCEPT ![k][i] = a]
      BY <1>4, <2>2, <3>1, Zenon
    <3> QED BY ZenonT(40), <1>2, <2>1, <2>2, <3>2, WorkerMoveType
            DEF WorkerGoto, clientVars, addrVars
  <2>3. CASE WorkerGoto(k, i, "fetch") /\ UNCHANGED <<target, tries>>
    BY <1>2, <2>1, <2>3, WorkerMoveType, Zenon DEF WorkerGoto, clientVars, addrVars
  <2>4. CASE AttemptFailed(k, i) /\ UNCHANGED target
    BY <2>1, <2>4, AttemptFailedType
  <2> QED BY <1>11, <2>2, <2>3, <2>4, Zenon DEF ReconnectLook
<1> QED BY <1>5, <1>6, <1>7, <1>8, <1>9, <1>10, <1>11, WorkerReturnType, SessionClosedType,
           Zenon DEF WorkerStep

-----------------------------------------------------------------------------
\* every step preserves TypeInv
LEMMA NextType ==
  ASSUME TypeInv, [Next]_vars
  PROVE  TypeInv'
<1>1. CASE TableNext /\ UNCHANGED dialVars
  BY <1>1, ConnStepType, KeyStepType, ClientStepType, Zenon DEF TableNext
<1>2. CASE DialNext
  BY ZenonT(40), <1>2, MainStepType, WorkerStepType DEF DialNext
<1>3. CASE UNCHANGED vars
  <2>1. DialOK'
    BY <1>3, TypeParts, DialFrame DEF vars
  <2> QED BY <1>3, <2>1, ClientFrame DEF vars, clientVars, addrVars
<1> QED BY <1>1, <1>2, <1>3 DEF Next

\* The inductive invariant: types, inner maps, and connections that are known.
THEOREM TypeInvariant == Spec => []TypeInv
<1>1. Init => TypeInv
  BY InitType
<1>2. TypeInv /\ [Next]_vars => TypeInv'
  BY NextType
<1> QED BY <1>1, <1>2, PTL DEF Spec

\* Every variable of the client keeps to the values its Go counterpart can
\* hold, the channel acceptSession within acceptSessionBufSize included.
THEOREM TypeCorrect == Spec => []TypeOK
<1>1. TypeInv => TypeOK
  BY DEF TypeInv
<1> QED BY <1>1, TypeInvariant, PTL

\* listenNet never assigns to an entry of a nil map of connections.
THEOREM NoNilMapWriteHolds == Spec => []NoNilMapWrite
<1>1. TypeInv => NoNilMapWrite
  BY DEF TypeInv
<1> QED BY <1>1, TypeInvariant, PTL
=============================================================================
