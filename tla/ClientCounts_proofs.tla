------------------------- MODULE ClientCounts_proofs -------------------------
(***************************************************************************)
(* The counters of handleConn.  addrConnCount is the number of connections *)
(* being served per peer and address, connCount of the first session of a  *)
(* key the number of its handlers.  From this: the address cache is only   *)
(* used while every address in it is in use, a session ends with its last  *)
(* handler and no earlier, and a dialed session never stays behind with    *)
(* nobody serving it.                                                      *)
(***************************************************************************)
EXTENDS ClientTables_proofs, FiniteSetTheorems

\* a key without a session has never been counted
NotCounted == \A k \in Keys : gens[k] = 0 => connCount[k] = 0

CountExact ==
  \A k \in Keys :
    gens[k] = 1 /\ sessions[k] # 0 => connCount[k] = Cardinality(Handlers(k))

\* a session identifier is dialed once
OneSession == \A k \in DialKeys : gens[k] \in {0, 1}

CountInv == AddrCountExact /\ NotCounted /\ CountExact /\ OneSession /\ DialedIsServed

-----------------------------------------------------------------------------
\* nobody enters or leaves the loop of handleConn
SameLoops ==
  \A c \in Conns : /\ (pc'[c] = "loop") <=> (pc[c] = "loop")
                   /\ pc[c] = "loop" => ckey'[c] = ckey[c] /\ caddr'[c] = caddr[c]

\* nobody who is about to serve a session gives up, unless it is gone
KeepEntering ==
  \A c \in Conns : pc[c] = "enter" /\ sessions'[ckey[c]] # 0 =>
    pc'[c] \in {"enter", "loop"} /\ ckey'[c] = ckey[c]

\* sets of connections can be counted
LEMMA FiniteConns ==
  /\ \A k : IsFiniteSet(Handlers(k)) /\ Cardinality(Handlers(k)) \in Nat
  /\ \A r, a : IsFiniteSet(Serving(r, a)) /\ Cardinality(Serving(r, a)) \in Nat
<1>1. ASSUME NEW S \in SUBSET Conns
      PROVE  IsFiniteSet(S) /\ Cardinality(S) \in Nat
  BY FS_Subset, FS_CardinalityType, ConnAssumption
<1>2. \A k : Handlers(k) \in SUBSET Conns
  BY DEF Handlers
<1>3. \A r, a : Serving(r, a) \in SUBSET Conns
  BY DEF Serving
<1> QED BY <1>1, <1>2, <1>3

\* counts: one less, the last one, and none below zero
LEMMA CountFacts ==
  /\ \A n \in Nat : (IF n <= 0 THEN 0 ELSE n) = n /\ (n - 1 = 0 => n = 1)
  /\ \A S, x : IsFiniteSet(S) /\ x \in S =>
       Cardinality(S \ {x}) = Cardinality(S) - 1 /\ Cardinality(S \ {x}) \in Nat
<1>1. \A n \in Nat : (IF n <= 0 THEN 0 ELSE n) = n /\ (n - 1 = 0 => n = 1)
  OBVIOUS
<1>2. ASSUME NEW S, NEW x, IsFiniteSet(S), x \in S
      PROVE  Cardinality(S \ {x}) = Cardinality(S) - 1 /\ Cardinality(S \ {x}) \in Nat
  BY <1>2, FS_RemoveElement, FS_CardinalityType
<1> QED BY Zenon, <1>1, <1>2

LEMMA SameSets ==
  ASSUME SameLoops
  PROVE  /\ \A k \in Keys : Handlers(k)' = Handlers(k)
         /\ \A r \in Remotes, a \in Addrs : Serving(r, a)' = Serving(r, a)
<1>1. \A k \in Keys : Handlers(k)' = Handlers(k)
  BY DEF SameLoops, Handlers
<1>2. \A r \in Remotes, a \in Addrs : Serving(r, a)' = Serving(r, a)
  BY DEF SameLoops, Serving
<1> QED BY <1>1, <1>2

\* the steps that count nobody: sessions stay or end, none is made
LEMMA CountsQuiet ==
  ASSUME CountInv, SameLoops, KeepEntering, UNCHANGED <<gens, addrConnCount>>,
         \A k \in Keys : \/ sessions'[k] = sessions[k] /\ connCount'[k] = connCount[k]
                         \/ sessions'[k] = 0 /\ connCount'[k] = 0
  PROVE  CountInv'
<1>1. AddrCountExact'
  BY SameSets DEF CountInv, AddrCountExact
<1>2. NotCounted' /\ OneSession'
  BY DEF CountInv, NotCounted, OneSession
<1>3. CountExact'
  BY SameSets DEF CountInv, CountExact
<1>4. DialedIsServed'
  <2> SUFFICES ASSUME NEW k \in DialKeys, sessions'[k] # 0
               PROVE  \E c \in Conns : ckey'[c] = k /\ pc'[c] \in {"enter", "loop"}
    BY DEF DialedIsServed
  <2>1. PICK c \in Conns : ckey[c] = k /\ pc[c] \in {"enter", "loop"}
    BY DEF CountInv, DialedIsServed, Keys
  <2> QED BY <2>1 DEF SameLoops, KeepEntering
<1> QED BY ZenonT(40), <1>1, <1>2, <1>3, <1>4 DEF CountInv

\* newSession: the first session of a key starts with nobody counted
LEMMA NewSessionCounts ==
  ASSUME TypeInv, TableInv, CountInv, SameLoops, KeepEntering, NEW k \in Keys,
         NewSession(k), UNCHANGED <<connCount, addrConnCount>>,
         k \in DialKeys => /\ gens[k] = 0
                           /\ \E c \in Conns : ckey'[c] = k /\ pc'[c] = "enter"
  PROVE  CountInv'
<1>1. NcpOK /\ TablesOK /\ MaxGen \in Nat
  BY ZenonT(40), TypeParts, BoundAssumption
<1>2. /\ gens[k] \in Nat
      /\ gens' = [gens EXCEPT ![k] = gens[k] + 1]
      /\ sessions' = [sessions EXCEPT ![k] = gens[k] + 1]
  BY <1>1 DEF NewSession, NcpOK
<1>3. /\ gens'[k] = gens[k] + 1
      /\ \A j \in Keys : j # k => gens'[j] = gens[j] /\ sessions'[j] = sessions[j]
  BY <1>1, <1>2 DEF NcpOK, TablesOK
<1>4. AddrCountExact'
  BY SameSets DEF CountInv, AddrCountExact
<1>5. NotCounted'
  BY <1>2, <1>3 DEF CountInv, NotCounted
<1>6. CountExact'
  <2> SUFFICES ASSUME NEW j \in Keys, gens'[j] = 1, sessions'[j] # 0
               PROVE  connCount'[j] = Cardinality(Handlers(j)')
    BY DEF CountExact
  <2>1. CASE j # k
    BY ZenonT(40), <1>3, <2>1, SameSets DEF CountInv, CountExact
  <2>2. CASE j = k
    <3>1. gens[k] = 0 /\ connCount[k] = 0
      BY SMTT(30), <1>2, <1>3, <2>2 DEF CountInv, NotCounted
    <3>2. Handlers(k) = {}
      BY <3>1 DEF TableInv, HandlerHas, Handlers
    <3> QED BY ZenonT(40), <2>2, <3>1, <3>2, SameSets, FS_EmptySet
  <2> QED BY <2>1, <2>2
<1>7. OneSession'
  BY <1>3 DEF CountInv, OneSession, Keys
<1>8. DialedIsServed'
  <2> SUFFICES ASSUME NEW j \in DialKeys, sessions'[j] # 0
               PROVE  \E c \in Conns : ckey'[c] = j /\ pc'[c] \in {"enter", "loop"}
    BY DEF DialedIsServed
  <2>1. CASE j = k
    BY <2>1
  <2>2. CASE j # k
    <3>1. sessions[j] # 0
      BY ZenonT(40), <1>3, <2>2 DEF Keys
    <3>2. PICK c \in Conns : ckey[c] = j /\ pc[c] \in {"enter", "loop"}
      BY <3>1 DEF CountInv, DialedIsServed
    <3> QED BY <3>2 DEF SameLoops, KeepEntering
  <2> QED BY <2>1, <2>2
<1> QED BY ZenonT(40), <1>4, <1>5, <1>6, <1>7, <1>8 DEF CountInv

\* counting in: one more handler for the key, one more for the peer's address
LEMMA HandleConnCounts ==
  ASSUME TypeInv, TableInv, CountInv, NEW c \in Conns, HandleConn(c)
  PROVE  CountInv'
<1>1. ConnsOK /\ TablesOK /\ AddrsOK /\ Identified
  BY ZenonT(40), TypeParts
<1>2. pc[c] = "enter" /\ UNCHANGED <<sessions, gens, ckey, caddr>>
  BY DEF HandleConn, ncpVars, idVars
<1>3. PICK k \in Keys, r \in Remotes, a \in Addrs :
        k = ckey[c] /\ r = RemoteOf[k] /\ a = caddr[c]
  BY <1>1, <1>2, KeyAssumption DEF Identified
<1>4. CASE sessions[k] = 0
  <2>1. pc' = [pc EXCEPT ![c] = "ret"] /\ UNCHANGED <<connCount, addrConnCount>>
    BY <1>3, <1>4 DEF HandleConn, Goto
  <2>2. SameLoops /\ KeepEntering
    BY ZenonT(40), <1>1, <1>2, <1>3, <1>4, <2>1 DEF SameLoops, KeepEntering, ConnsOK
  <2> QED BY ZenonT(40), <1>2, <2>1, <2>2, CountsQuiet
<1>5. CASE sessions[k] # 0
  <2>1. /\ pc' = [pc EXCEPT ![c] = "loop"]
        /\ connCount' = [connCount EXCEPT ![k] = connCount[k] + 1]
        /\ addrConnCount' = [addrConnCount EXCEPT ![r][a] = addrConnCount[r][a] + 1]
    BY <1>3, <1>5 DEF HandleConn, Goto
  <2>2. \A d \in Conns : pc'[d] = IF d = c THEN "loop" ELSE pc[d]
    BY <1>1, <2>1 DEF ConnsOK
  <2>3. /\ c \notin Handlers(k) /\ Handlers(k)' = Handlers(k) \cup {c}
        /\ \A j \in Keys : j # k => Handlers(j)' = Handlers(j)
    BY ZenonT(40), <1>2, <1>3, <2>2 DEF Handlers
  <2>4. /\ c \notin Serving(r, a) /\ Serving(r, a)' = Serving(r, a) \cup {c}
        /\ \A q \in Remotes, b \in Addrs : q # r \/ b # a => Serving(q, b)' = Serving(q, b)
    BY SMTT(30), <1>2, <1>3, <2>2 DEF Serving
  <2>5. /\ Cardinality(Handlers(k)') = Cardinality(Handlers(k)) + 1
        /\ Cardinality(Serving(r, a)') = Cardinality(Serving(r, a)) + 1
    BY ZenonT(40), <2>3, <2>4, FiniteConns, FS_AddElement
  <2>6. AddrCountExact'
    <3>1. \A q \in Remotes, b \in Addrs :
            addrConnCount'[q][b] = IF q = r /\ b = a THEN addrConnCount[q][b] + 1
                                                     ELSE addrConnCount[q][b]
      BY ZenonT(40), <1>1, <1>3, <2>1 DEF AddrsOK
    <3> SUFFICES ASSUME NEW q \in Remotes, NEW b \in Addrs
                 PROVE  addrConnCount'[q][b] = Cardinality(Serving(q, b)')
      BY DEF AddrCountExact
    <3>2. addrConnCount[q][b] = Cardinality(Serving(q, b))
      BY DEF CountInv, AddrCountExact
    <3>3. CASE q = r /\ b = a
      BY ZenonT(40), <2>5, <3>1, <3>2, <3>3
    <3>4. CASE ~(q = r /\ b = a)
      <4>1. Serving(q, b)' = Serving(q, b)
        BY ZenonT(40), <2>4, <3>4
      <4> QED BY ZenonT(40), <3>1, <3>2, <3>4, <4>1
    <3> QED BY <3>3, <3>4
  <2>7. \A j \in Keys : connCount'[j] = IF j = k THEN connCount[j] + 1 ELSE connCount[j]
    BY ZenonT(40), <1>1, <1>3, <2>1 DEF TablesOK
  <2>8. NotCounted' /\ OneSession'
    BY ZenonT(40), <1>2, <1>5, <2>7 DEF CountInv, NotCounted, OneSession, TableInv, LastMade
  <2>9. CountExact'
    BY ZenonT(40), <1>2, <2>3, <2>5, <2>7 DEF CountInv, CountExact
  <2>10. DialedIsServed'
    BY ZenonT(40), <1>2, <2>2 DEF CountInv, DialedIsServed
  <2> QED BY ZenonT(40), <2>6, <2>8, <2>9, <2>10 DEF CountInv
<1> QED BY <1>4, <1>5

\* counting out: the handlers of the key lose c, and so do those of the address
LEMMA LeaveSets ==
  ASSUME TypeInv, TableInv, CountInv, NEW c \in Conns, HandleConnDefer(c),
         NEW k \in Keys, k = ckey[c]
  PROVE  /\ c \in Handlers(k)
         /\ \A d \in Conns : d # c => pc'[d] = pc[d]
         /\ UNCHANGED <<gens, ckey, caddr>>
         /\ Handlers(k)' = Handlers(k) \ {c}
         /\ \A j \in Keys : j # k => Handlers(j)' = Handlers(j)
         /\ Cardinality(Handlers(k)') = Cardinality(Handlers(k)) - 1
         /\ AddrCountExact'
<1>1. ConnsOK /\ AddrsOK /\ Identified
  BY ZenonT(40), TypeParts
<1>2. pc[c] = "loop" /\ UNCHANGED <<gens, ckey, caddr>>
  BY ZenonT(40) DEF HandleConnDefer, ncpVars, idVars
<1>3. PICK r \in Remotes, a \in Addrs : r = RemoteOf[k] /\ a = caddr[c] /\ AddrCountDown(r, a)
  BY <1>1, <1>2, KeyAssumption DEF Identified, HandleConnDefer
<1>4. pc' = [pc EXCEPT ![c] = "ret"] \/ pc' = [pc EXCEPT ![c] = "close"]
  BY Zenon DEF HandleConnDefer, Goto
<1>5. pc'[c] # "loop" /\ \A d \in Conns : d # c => pc'[d] = pc[d]
  BY <1>1, <1>4 DEF ConnsOK
<1>6. /\ c \in Handlers(k) /\ Handlers(k)' = Handlers(k) \ {c}
      /\ \A j \in Keys : j # k => Handlers(j)' = Handlers(j)
  BY ZenonT(40), <1>2, <1>5 DEF Handlers
<1>7. /\ c \in Serving(r, a) /\ Serving(r, a)' = Serving(r, a) \ {c}
      /\ \A q \in Remotes, b \in Addrs : q # r \/ b # a => Serving(q, b)' = Serving(q, b)
  BY ZenonT(40), <1>2, <1>3, <1>5 DEF Serving
<1>8. /\ Cardinality(Handlers(k)') = Cardinality(Handlers(k)) - 1
      /\ Cardinality(Serving(r, a)') = Cardinality(Serving(r, a)) - 1
      /\ Cardinality(Serving(r, a)') \in Nat
  BY ZenonT(40), <1>6, <1>7, FiniteConns, CountFacts
<1>9. AddrCountExact'
  <2>1. addrConnCount[r][a] - 1 = Cardinality(Serving(r, a)')
    <3>1. addrConnCount[r][a] = Cardinality(Serving(r, a))
      BY SMTT(30) DEF CountInv, AddrCountExact
    <3> QED BY <1>8, <3>1
  <2>2. addrConnCount' = [addrConnCount EXCEPT ![r][a] = addrConnCount[r][a] - 1]
    <3>1. addrConnCount[r][a] - 1 \in Nat
      BY ZenonT(40), <1>8, <2>1
    <3>2. (IF addrConnCount[r][a] - 1 <= 0 THEN 0 ELSE addrConnCount[r][a] - 1)
            = addrConnCount[r][a] - 1
      BY Zenon, <3>1, CountFacts
    <3> QED BY Zenon, <1>3, <3>2 DEF AddrCountDown
  <2>3. \A q \in Remotes, b \in Addrs :
          addrConnCount'[q][b] = IF q = r /\ b = a THEN addrConnCount[r][a] - 1
                                                   ELSE addrConnCount[q][b]
    BY ZenonT(40), <1>1, <1>3, <2>2 DEF AddrsOK
  <2> SUFFICES ASSUME NEW q \in Remotes, NEW b \in Addrs
               PROVE  addrConnCount'[q][b] = Cardinality(Serving(q, b)')
    BY DEF AddrCountExact
  <2>4. CASE q = r /\ b = a
    BY ZenonT(40), <2>1, <2>3, <2>4
  <2>5. CASE ~(q = r /\ b = a)
    <3>1. Serving(q, b)' = Serving(q, b)
      BY <1>7, <2>5
    <3>2. addrConnCount[q][b] = Cardinality(Serving(q, b))
      BY DEF CountInv, AddrCountExact
    <3> QED BY ZenonT(40), <2>3, <2>5, <3>1, <3>2
  <2> QED BY <2>4, <2>5
<1> QED BY ZenonT(40), <1>2, <1>3, <1>5, <1>6, <1>8, <1>9

LEMMA HandleConnDeferCounts ==
  ASSUME TypeInv, TableInv, CountInv, NEW c \in Conns, HandleConnDefer(c)
  PROVE  CountInv'
<1> PICK k \in Keys : k = ckey[c]
  <2>1. Identified
    BY SMTT(30), TypeParts
  <2> QED BY <2>1 DEF Identified, HandleConnDefer
<1>1. ConnsOK /\ TablesOK
  BY ZenonT(40), TypeParts
<1>2. /\ c \in Handlers(k)
      /\ \A d \in Conns : d # c => pc'[d] = pc[d]
      /\ UNCHANGED <<gens, ckey, caddr>>
      /\ Handlers(k)' = Handlers(k) \ {c}
      /\ \A j \in Keys : j # k => Handlers(j)' = Handlers(j)
      /\ Cardinality(Handlers(k)') = Cardinality(Handlers(k)) - 1
      /\ AddrCountExact'
  BY LeaveSets
<1>3. gens[k] # 0
  BY <1>2 DEF TableInv, HandlerHas, Handlers
<1>4. OneSession'
  BY ZenonT(40), <1>2 DEF CountInv, OneSession
<1>5. CASE ~ShouldClose(k)
  <2>1. connCount' = [connCount EXCEPT ![k] = connCount[k] - 1] /\ UNCHANGED sessions
    BY ZenonT(40), <1>5 DEF HandleConnDefer
  <2>2. \A j \in Keys : connCount'[j] = IF j = k THEN connCount[j] - 1 ELSE connCount[j]
    BY ZenonT(40), <1>1, <1>2, <2>1 DEF TablesOK
  <2>3. NotCounted'
    BY ZenonT(40), <1>2, <1>3, <2>2 DEF CountInv, NotCounted
  <2>4. CountExact'
    BY ZenonT(40), <1>2, <2>1, <2>2 DEF CountInv, CountExact
  <2>5. DialedIsServed'
    <3> SUFFICES ASSUME NEW j \in DialKeys, sessions'[j] # 0
                 PROVE  \E d \in Conns : ckey'[d] = j /\ pc'[d] \in {"enter", "loop"}
      BY DEF DialedIsServed
    <3>1. CASE j # k
      BY ZenonT(40), <1>2, <2>1, <3>1 DEF CountInv, DialedIsServed
    <3>2. CASE j = k
      <4>1. gens[k] = 1 /\ connCount[k] = Cardinality(Handlers(k))
        BY ZenonT(40), <1>2, <1>3, <2>1, <3>2 DEF CountInv, OneSession, CountExact
      <4>2. Cardinality(Handlers(k)') # 0
        BY ZenonT(40), <1>2, <1>5, <4>1 DEF ShouldClose
      <4>3. Handlers(k)' # {}
        BY ZenonT(40), <4>2, FS_EmptySet
      <4>4. PICK d \in Conns : d \in Handlers(k) /\ d # c
        BY ZenonT(40), <1>2, <4>3 DEF Handlers
      <4> QED BY ZenonT(40), <1>2, <3>2, <4>4 DEF Handlers
    <3> QED BY ZenonT(40), <3>1, <3>2
  <2> QED BY ZenonT(40), <1>2, <1>4, <2>3, <2>4, <2>5 DEF CountInv
<1>6. CASE ShouldClose(k)
  <2>1. Forget({k})
    BY ZenonT(40), <1>6 DEF HandleConnDefer
  <2>2. \A j \in Keys : /\ sessions'[j] = IF j = k THEN 0 ELSE sessions[j]
                        /\ connCount'[j] = IF j = k THEN 0 ELSE connCount[j]
    BY ZenonT(40), <2>1 DEF Forget
  <2>3. NotCounted'
    BY ZenonT(40), <1>2, <1>3, <2>2 DEF CountInv, NotCounted
  <2>4. CountExact'
    BY ZenonT(40), <1>2, <2>2 DEF CountInv, CountExact
  <2>5. DialedIsServed'
    BY <1>2, <2>2 DEF CountInv, DialedIsServed, Keys, Handlers
  <2> QED BY <1>2, <1>4, <2>3, <2>4, <2>5 DEF CountInv
<1> QED BY ZenonT(40), <1>5, <1>6

-----------------------------------------------------------------------------
\* a goroutine that moves outside the loop, not having been about to enter it
LEMMA MoveCounts ==
  ASSUME TypeInv, NEW c, NEW p, pc' = [pc EXCEPT ![c] = p],
         pc[c] \notin {"enter", "loop"}, p # "loop",
         \A d \in Conns : d # c => ckey'[d] = ckey[d] /\ caddr'[d] = caddr[d]
  PROVE  SameLoops /\ KeepEntering
<1>1. ConnsOK
  BY ZenonT(40), TypeParts
<1>2. \A d \in Conns : pc'[d] = IF d = c THEN p ELSE pc[d]
  BY ZenonT(40), <1>1 DEF ConnsOK
<1>3. SameLoops
  BY <1>2 DEF SameLoops
<1>4. KeepEntering
  BY <1>2 DEF KeepEntering
<1> QED BY <1>3, <1>4

\* nobody moves
LEMMA StillCounts ==
  ASSUME CountInv, UNCHANGED <<sessions, connCount, gens, addrConnCount, pc, ckey, caddr>>
  PROVE  CountInv'
<1>1. SameLoops /\ KeepEntering
  BY DEF SameLoops, KeepEntering
<1> QED BY ZenonT(40), <1>1, CountsQuiet

\* listenNet
LEMMA RegisterCounts ==
  ASSUME TypeInv, TableInv, CountInv, NEW c \in Conns, NEW k \in AcceptKeys, NEW i \in Idx,
         NEW a \in AcceptAddrs, Register(c, k, i, a)
  PROVE  CountInv'
<1>1. ConnsOK
  BY SMTT(30), TypeParts
<1>2. /\ pc[c] = "free"
      /\ ckey' = [ckey EXCEPT ![c] = k] /\ caddr' = [caddr EXCEPT ![c] = a]
      /\ UNCHANGED <<connCount, addrConnCount>>
  BY Zenon DEF Register, Fresh, Identify, addrVars
<1>3. PICK p \in {"enter", "first", "done"} : pc' = [pc EXCEPT ![c] = p]
  BY DEF Register, Goto, AfterLookUp
<1>4. SameLoops /\ KeepEntering
  BY Zenon, <1>1, <1>2, <1>3, MoveCounts DEF ConnsOK
<1>5. UNCHANGED <<sessions, ncpVars>> \/ NewSession(k)
  BY Zenon DEF Register
<1>6. CASE UNCHANGED <<sessions, ncpVars>>
  BY ZenonT(40), <1>2, <1>4, <1>6, CountsQuiet DEF ncpVars
<1>7. CASE NewSession(k)
  BY ZenonT(40), <1>2, <1>4, <1>7, NewSessionCounts, KeyAssumption DEF Keys
<1> QED BY ZenonT(40), <1>5, <1>6, <1>7

\* the other steps of a connection's goroutine
LEMMA ConnStepCounts ==
  ASSUME TypeInv, TableInv, CountInv, NEW c \in Conns, ConnNext(c)
  PROVE  CountInv'
<1>1. ASSUME FirstMsg(c) \/ FirstMsgErr(c) \/ ListenerReturn(c) \/ HandleConnClose(c)
      PROVE  CountInv'
  <2>1. UNCHANGED <<tableVars, addrVars, gens, idVars>>
    BY Zenon, <1>1 DEF FirstMsg, FirstMsgErr, ListenerReturn, HandleConnClose, ncpVars
  <2>2. UNCHANGED <<sessions, connCount, gens, addrConnCount, ckey, caddr>>
    BY <2>1 DEF tableVars, addrVars, idVars
  <2>3. /\ pc[c] \in {"first", "ret", "close"}
        /\ \E p \in {"enter", "done", "ret"} : pc' = [pc EXCEPT ![c] = p]
    BY Zenon, <1>1 DEF FirstMsg, FirstMsgErr, ListenerReturn, HandleConnClose, Goto
  <2>4. SameLoops /\ KeepEntering
    BY Zenon, <2>2, <2>3, MoveCounts
  <2> QED BY <2>2, <2>4, CountsQuiet
<1> QED BY ZenonT(40), <1>1, RegisterCounts, HandleConnCounts, HandleConnDeferCounts DEF ConnNext

\* DialWithConfig installs the session with the connections it has
LEMMA DialInstallCounts ==
  ASSUME TypeInv, TableInv, CountInv, NEW k \in DialKeys, DialInstall(k)
  PROVE  CountInv'
<1>1. ConnsOK /\ TablesOK /\ Wired /\ k \in Keys
  BY ZenonT(40), TypeParts DEF Keys
<1>2. /\ gens[k] = 0 /\ NewSession(k)
      /\ sessionConns[k] \notin {NilMap, EmptyConns}
      /\ pc' = [c \in Conns |-> IF c \in RegisteredConns({k}) THEN "enter" ELSE pc[c]]
      /\ UNCHANGED <<connCount, addrConnCount, ckey, caddr>>
  <2>1. gens[k] = 0
    BY DEF DialInstall, Joined, TableInv, DialedLate, Early
  <2> QED BY ZenonT(40), <2>1 DEF DialInstall, addrVars, idVars
<1>3. \A c \in RegisteredConns({k}) : ckey[c] = k
  BY <1>1 DEF RegisteredConns, Wired
<1>4. \A c \in RegisteredConns({k}) : pc[c] # "loop"
  BY <1>2, <1>3 DEF TableInv, HandlerHas, RegisteredConns
<1>5. SameLoops /\ KeepEntering
  BY ZenonT(40), <1>2, <1>4 DEF SameLoops, KeepEntering
<1>6. \E c \in Conns : ckey'[c] = k /\ pc'[c] = "enter"
  <2>1. sessionConns[k] \in ConnMaps /\ sessionConns[k] # EmptyConns
    BY <1>1, <1>2 DEF TablesOK
  <2>2. PICK i \in Idx : sessionConns[k][i] # None
    BY ZenonT(40), <2>1 DEF ConnMaps, EmptyConns
  <2>3. sessionConns[k][i] \in RegisteredConns({k})
    BY ZenonT(40), <1>2, <2>1, <2>2 DEF RegisteredConns, ConnMaps
  <2> QED BY ZenonT(40), <1>2, <1>3, <2>3 DEF RegisteredConns
<1> QED BY ZenonT(40), <1>1, <1>2, <1>5, <1>6, NewSessionCounts

\* dialTcpConn and the goroutine of an index
LEMMA WorkerStepCounts ==
  ASSUME TypeInv, TableInv, CountInv, NEW k \in DialKeys, NEW i \in Idx, WorkerStep(k, i)
  PROVE  CountInv'
<1>1. ConnsOK
  BY ZenonT(40), TypeParts
<1>2. ASSUME NEW c \in Conns, NEW p \in {"dialed", "enter"}, Dialed(c, k, i, p)
      PROVE  CountInv'
  <2>1. /\ pc[c] = "free" /\ pc' = [pc EXCEPT ![c] = p]
        /\ ckey' = [ckey EXCEPT ![c] = k]
        /\ caddr' = [caddr EXCEPT ![c] = target[k][i]]
        /\ UNCHANGED <<sessions, connCount, addrConnCount, gens>>
    BY <1>2 DEF Dialed, Goto, Identify, Fresh, addrVars, ncpVars
  <2>2. SameLoops /\ KeepEntering
    BY Zenon, <1>1, <2>1, MoveCounts DEF ConnsOK
  <2> QED BY ZenonT(40), <2>1, <2>2, CountsQuiet
<1>3. ASSUME WorkerReturn(k, i)
      PROVE  CountInv'
  <2>1. /\ pc[wconn[k][i]] = "ret" /\ pc' = [pc EXCEPT ![wconn[k][i]] = "done"]
        /\ UNCHANGED <<sessions, connCount, addrConnCount, gens, ckey, caddr>>
    BY <1>3 DEF WorkerReturn, Goto, tableVars, addrVars, ncpVars, idVars
  <2>2. SameLoops /\ KeepEntering
    BY ZenonT(40), <2>1, MoveCounts
  <2> QED BY ZenonT(40), <2>1, <2>2, CountsQuiet
<1>4. ASSUME \/ \E l \in PubLists : ReconnectFetched(k, i, l)
             \/ DialConnErr(k, i) \/ ReconnectCheck(k, i) \/ ReconnectLook(k, i)
             \/ ReconnectFetchErr(k, i) \/ ReconnectSessionClosed(k, i)
             \/ ReconnectShort(k, i) \/ ReconnectConnErr(k, i)
      PROVE  CountInv'
  <2>1. UNCHANGED <<tableVars, addrConnCount, gens, pc, idVars>>
    BY Zenon, <1>4 DEF ReconnectFetched, DialConnErr, ReconnectCheck, ReconnectLook,
         ReconnectFetchErr, ReconnectSessionClosed, ReconnectShort, ReconnectConnErr,
         clientVars, addrVars, ncpVars
  <2> QED BY <2>1, StillCounts DEF tableVars, idVars
<1> QED BY ZenonT(40), <1>2, <1>3, <1>4 DEF WorkerStep, DialConn, ReconnectConn

\* every step of the client
LEMMA NextCounts == TypeInv /\ TableInv /\ CountInv /\ [Next]_vars => CountInv'
<1> SUFFICES ASSUME TypeInv, TableInv, CountInv, [Next]_vars PROVE CountInv'
  OBVIOUS
<1>1. ASSUME NEW k \in Keys, KeyNext(k)
      PROVE  CountInv'
  <2>1. UNCHANGED <<sessions, connCount, addrVars, gens, pc, idVars>>
    BY Zenon, <1>1 DEF KeyNext, CloseOneConn, SendWithErr, NcpClose, NcpClosed, Expire,
         tableVars, ncpVars
  <2> QED BY <2>1, StillCounts DEF addrVars, idVars
<1>2. CASE SweepWake \/ Close \/ AcceptSession
  <2>1. UNCHANGED <<tableVars, addrVars, gens, pc, idVars>>
    BY Zenon, <1>2 DEF SweepWake, Close, AcceptSession, ncpVars
  <2> QED BY <2>1, StillCounts DEF tableVars, addrVars, idVars
<1>3. CASE Sweep
  <2>1. Forget(ClosedSessions) /\ UNCHANGED <<addrConnCount, gens, pc, ckey, caddr>>
    BY <1>3 DEF Sweep, addrVars, ncpVars, idVars
  <2>2. SameLoops /\ KeepEntering
    BY <2>1 DEF SameLoops, KeepEntering
  <2>3. \A k \in Keys : \/ sessions'[k] = sessions[k] /\ connCount'[k] = connCount[k]
                        \/ sessions'[k] = 0 /\ connCount'[k] = 0
    BY <2>1 DEF Forget
  <2> QED BY ZenonT(40), <2>1, <2>2, <2>3, CountsQuiet
<1>4. ASSUME NEW k \in DialKeys, DialStart(k) \/ MainStep(k), ~DialInstall(k)
      PROVE  CountInv'
  <2>1. UNCHANGED <<tableVars, addrConnCount, gens, pc, idVars>>
    BY Zenon, <1>4 DEF DialStart, MainStep, DialLook, DialFetched, DialFetchErr,
         DialNoConn, DialSessionErr, DialDone, clientVars, addrVars, ncpVars
  <2> QED BY <2>1, StillCounts DEF tableVars, idVars
<1>5. CASE UNCHANGED vars
  BY <1>5, StillCounts DEF vars, clientVars, tableVars, addrVars, ncpVars, idVars
<1>6. ASSUME NEW k \in DialKeys, DialStart(k) \/ MainStep(k)
      PROVE  CountInv'
  BY ZenonT(40), <1>4, <1>6, DialInstallCounts
<1> QED BY Zenon, <1>1, <1>2, <1>3, <1>5, <1>6, ConnStepCounts, WorkerStepCounts
      DEF Next, TableNext, DialNext

\* NewTunaSessionClient starts with nobody counted
LEMMA InitCounts == Init => CountInv
<1> SUFFICES ASSUME Init PROVE CountInv
  OBVIOUS
<1>1. \A r \in Remotes, a \in Addrs : Serving(r, a) = {} /\ addrConnCount[r][a] = 0
  BY DEF Init, TableInit, Serving
<1>2. AddrCountExact
  BY ZenonT(40), <1>1, FS_EmptySet DEF AddrCountExact
<1>3. NotCounted /\ CountExact /\ OneSession /\ DialedIsServed
  BY DEF Init, TableInit, NotCounted, CountExact, OneSession, DialedIsServed, Keys
<1> QED BY <1>2, <1>3 DEF CountInv

-----------------------------------------------------------------------------
\* The inductive invariant.
THEOREM CountInvariant == Spec => [](TypeInv /\ TableInv /\ CountInv)
<1>1. Init => TypeInv /\ TableInv /\ CountInv
  BY InitType, InitTable, InitCounts
<1>2. TypeInv /\ TableInv /\ CountInv /\ [Next]_vars => (TypeInv /\ TableInv /\ CountInv)'
  BY ZenonT(40), NextType, NextTable, NextCounts
<1> QED BY <1>1, <1>2, PTL DEF Spec

\* addrConnCount is the number of connections being served, per peer and
\* address, across the sessions with the peer.
THEOREM AddrCountExactHolds == Spec => []AddrCountExact
<1>1. TypeInv /\ TableInv /\ CountInv => AddrCountExact
  BY DEF CountInv
<1> QED BY <1>1, CountInvariant, PTL

\* getCachedPubAddrs gives a list only while every address in it is in use.
THEOREM CacheIsLiveHolds == Spec => []CacheIsLive
<1>1. ASSUME TypeInv, TableInv, CountInv
      PROVE  CacheIsLive
  <2> SUFFICES ASSUME NEW r \in Remotes, CacheHit(r), NEW i \in DOMAIN pubAddrs[r]
               PROVE  Serving(r, pubAddrs[r][i]) # {}
    BY DEF CacheIsLive
  <2>1. AddrsOK
    BY ZenonT(40), <1>1, TypeParts
  <2>2. pubAddrs[r][i] \in Addrs /\ addrConnCount[r][pubAddrs[r][i]] > 0
    BY ZenonT(40), <2>1, ListAssumption DEF AddrsOK, CacheHit
  <2>3. Cardinality(Serving(r, pubAddrs[r][i])) # 0
    BY <1>1, <2>2 DEF CountInv, AddrCountExact
  <2> QED BY <2>3, FS_EmptySet
<1> QED BY <1>1, CountInvariant, PTL

\* A dialed session in the table has a connection that is served or about to be.
THEOREM DialedIsServedHolds == Spec => []DialedIsServed
<1>1. TypeInv /\ TableInv /\ CountInv => DialedIsServed
  BY DEF CountInv
<1> QED BY <1>1, CountInvariant, PTL

\* The first session of a key leaves the table when it is closed or when the
\* handler that takes it out was the last one.
THEOREM LastOneOutHolds == Spec => LastOneOut
<1>1. ASSUME TypeInv, TableInv, CountInv, [Next]_vars
      PROVE  \A k \in Keys :
               gens[k] = 1 /\ sessions[k] # 0 /\ sessions'[k] = 0
                 => ncp[k][sessions[k]] = "closed" \/ Handlers(k)' = {}
  <2> SUFFICES ASSUME NEW k \in Keys, gens[k] = 1, sessions[k] # 0, sessions'[k] = 0,
                      ncp[k][sessions[k]] # "closed"
               PROVE  Handlers(k)' = {}
    OBVIOUS
  <2>1. ~Keeps
    BY DEF Keeps
  <2>2. ~Makes
    <3>1. TablesOK /\ NcpOK
      BY ZenonT(40), <1>1, TypeParts
    <3> QED BY ZenonT(40), <3>1, BoundAssumption DEF Makes, NewSession, TablesOK, NcpOK
  <2>3. PICK c \in Conns : LastLeaves(c) /\ ckey[c] = k
    BY ZenonT(40), <1>1, <2>1, <2>2, StepKinds DEF Ends, Forget, ClosedSessions
  <2>4. c \in Handlers(k) /\ Handlers(k)' = Handlers(k) \ {c}
    BY ZenonT(40), <1>1, <2>3, LeaveSets DEF LastLeaves
  <2>5. Cardinality(Handlers(k)) = 1
    <3>1. connCount[k] - 1 = 0
      BY Zenon, <2>3 DEF LastLeaves, ShouldClose
    <3>2. connCount[k] = Cardinality(Handlers(k))
      BY Zenon, <1>1 DEF CountInv, CountExact
    <3> QED BY Zenon, <3>1, <3>2, FiniteConns, CountFacts
  <2>6. PICK x : Handlers(k) = {x}
    BY Zenon, <2>5, FiniteConns, FS_Singleton
  <2> QED BY ZenonT(40), <2>4, <2>6
<1> QED BY <1>1, CountInvariant, PTL DEF Spec, LastOneOut
=============================================================================
