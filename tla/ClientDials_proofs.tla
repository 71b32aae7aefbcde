-------------------------- MODULE ClientDials_proofs --------------------------
(***************************************************************************)
(* The dialing goroutines.  Every connection of a dialed session belongs   *)
(* to the goroutine of its index, which never has two, and is found under  *)
(* that index in sessionConns while the session lives.  The variable err   *)
(* the goroutines share holds an error unless one of them has put its      *)
(* connection into the table, where wg.Wait finds it.                      *)
(***************************************************************************)
EXTENDS ClientTables_proofs

\* a list of addresses that is cached has a valid one
CacheValid == \A r \in Remotes : pubAddrs[r] # None => HasValid(pubAddrs[r])

DialingOnly == {"idle", "dialing", "dialed", "nodial"}

\* the goroutines and the error of a dial
ErrOf(k) ==
  /\ main[k] \in {"idle", "look", "fetch"} => \A i \in Idx : worker[k][i] = "idle"
  /\ main[k] \in Early => \A i \in Idx : worker[k][i] \in DialingOnly
  /\ main[k] # "dial" => \A i \in Idx : worker[k][i] # "dialing"
  /\ main[k] = "failed" => mainErr[k]
  /\ main[k] = "dial" => \E i \in Idx : worker[k][i] # "idle"
  /\ main[k] = "dial" => \A i \in Idx :
       worker[k][i] = "dialed" => sessionConns[k] # NilMap /\ sessionConns[k][i] # None
  /\ main[k] = "dial" /\ (\A i \in Idx : worker[k][i] # "dialed") =>
       mainErr[k] \/ \A i \in Idx : worker[k][i] # "nodial"

ErrKept == \A k \in DialKeys : ErrOf(k)

Reading == {"dialed", "enter", "loop"}
InUse == Reading \cup {"close", "ret"}

\* a connection in use is its goroutine's conn
Own(c) ==
  ckey[c] \in DialKeys /\ pc[c] \in InUse =>
    /\ wconn[ckey[c]][cidx[c]] = c
    /\ worker[ckey[c]][cidx[c]] \in {"dialed", "run"}

\* ... and in the table, before the session is installed and until it leaves
Found(c) ==
  (ckey[c] \in DialKeys /\ pc[c] \in Reading
   /\ (main[ckey[c]] \in Early \/ sessions[ckey[c]] # 0))
    => sessionConns[ckey[c]] # NilMap /\ sessionConns[ckey[c]][cidx[c]] = c

\* only an accepted connection waits for the first message
NotFirst(c) == pc[c] = "first" => ckey[c] \notin DialKeys

OwnFound == \A c \in Conns : Own(c) /\ Found(c) /\ NotFirst(c)

\* what the table holds for a dial that is not over has just been dialed
PlacedOf(k) ==
  main[k] \in Early /\ sessionConns[k] # NilMap =>
    \A i \in Idx, c \in Conns : sessionConns[k][i] = c => pc[c] = "dialed"

Placed == \A k \in DialKeys : PlacedOf(k)

DialInv == CacheValid /\ ErrKept /\ OwnFound /\ Placed

\* NewTunaSessionClient has nothing cached and dials nobody
LEMMA InitDial == Init => DialInv
<1> SUFFICES ASSUME Init PROVE DialInv
  OBVIOUS
<1>1. CacheValid
  BY DEF Init, TableInit, CacheValid
<1>2. ErrKept
  BY DEF Init, ErrKept, ErrOf, Early, DialingOnly
<1>3. OwnFound
  BY DEF Init, TableInit, OwnFound, Own, Found, NotFirst, InUse, Reading
<1>4. Placed
  BY DEF Init, TableInit, Placed, PlacedOf, Keys
<1> QED BY Zenon, <1>1, <1>2, <1>3, <1>4 DEF DialInv

\* The connections that read keep their names and, where it matters, their place.
Stays(c) ==
  /\ NotFirst(c)'
  /\ pc[c] = "dialed" => pc'[c] = "dialed"
  /\ ckey'[c] \in DialKeys /\ pc'[c] \in InUse =>
    /\ ckey'[c] = ckey[c] /\ cidx'[c] = cidx[c]
    /\ pc[c] \in InUse
    /\ pc'[c] \in Reading => pc[c] \in Reading
    /\ pc'[c] \in Reading /\ (main[ckey[c]] \in Early \/ sessions'[ckey[c]] # 0) =>
         /\ main[ckey[c]] \in Early \/ sessions[ckey[c]] # 0
         /\ sessionConns[ckey[c]] # NilMap => sessionConns'[ckey[c]] # NilMap
         /\ sessionConns[ckey[c]] # NilMap /\ sessionConns[ckey[c]][cidx[c]] = c =>
              sessionConns'[ckey[c]][cidx[c]] = c

\* what is not the dialing side's own step leaves a dial alone
LEMMA DialQuiet ==
  ASSUME DialInv, UNCHANGED dialVars,
         \A r \in Remotes : pubAddrs'[r] \in {pubAddrs[r], None},
         \A k \in DialKeys : main[k] \in Early => sessionConns'[k] = sessionConns[k],
         \A c \in Conns : Stays(c)
  PROVE  DialInv'
<1>1. CacheValid'
  BY DEF DialInv, CacheValid, HasValid
<1>2. ErrKept'
  <2> SUFFICES ASSUME NEW k \in DialKeys PROVE ErrOf(k)'
    BY DEF ErrKept
  <2>1. ErrOf(k) /\ UNCHANGED <<main, mainErr, worker>>
    BY DEF DialInv, ErrKept, dialVars
  <2>2. main[k] = "dial" => sessionConns'[k] = sessionConns[k]
    BY DEF Early
  <2> QED BY <2>1, <2>2 DEF ErrOf
<1>3. OwnFound'
  <2> SUFFICES ASSUME NEW c \in Conns PROVE Own(c)' /\ Found(c)' /\ NotFirst(c)'
    BY DEF OwnFound
  <2>1. Own(c) /\ Found(c) /\ Stays(c) /\ UNCHANGED <<main, worker, wconn>>
    BY SMTT(30) DEF DialInv, OwnFound, dialVars
  <2>2. Own(c)'
    BY ZenonT(40), <2>1 DEF Own, Stays
  <2>3. Found(c)'
    BY <2>1 DEF Found, Stays, InUse
  <2> QED BY <2>1, <2>2, <2>3 DEF Stays
<1>4. Placed'
  BY DEF DialInv, Placed, PlacedOf, Stays, dialVars
<1> QED BY Zenon, <1>1, <1>2, <1>3, <1>4 DEF DialInv

\* a dialed key has no session, no handler and no closed entry before its install
LEMMA EarlyKeys ==
  ASSUME TypeInv, TableInv, NEW k \in DialKeys, main[k] \in Early
  PROVE  /\ sessions[k] = 0
         /\ \A c \in Conns : ckey[c] = k => pc[c] \notin {"loop", "close"}
<1>1. gens[k] = 0 /\ k \in Keys
  BY DEF TableInv, DialedLate, Keys
<1>2. sessions[k] = 0
  BY <1>1 DEF TableInv, LastMade
<1>3. ASSUME NEW c \in Conns, ckey[c] = k, pc[c] \in {"loop", "close"}
      PROVE  FALSE
  <2>1. csess[c] \in 1 .. 0
    BY <1>1, <1>3 DEF TableInv, HandlerHas
  <2> QED BY <2>1
<1> QED BY Zenon, <1>2, <1>3

\* a session that leaves the table is none that is being dialed
LEMMA ForgetStays ==
  ASSUME TypeInv, TableInv, NEW S \in SUBSET Keys, Forget(S), UNCHANGED <<ckey, cidx>>,
         \A k \in S \cap DialKeys : main[k] \notin Early,
         NEW c \in Conns, pc'[c] \in InUse => pc[c] \in InUse,
         pc'[c] \in Reading => pc[c] \in Reading, NotFirst(c)',
         pc[c] = "dialed" => pc'[c] = "dialed"
  PROVE  Stays(c)
<1>1. CASE ckey[c] \in S
  <2>1. ckey[c] \in DialKeys => main[ckey[c]] \notin Early
    BY <1>1
  <2>2. sessions'[ckey[c]] = 0
    BY SMTT(30), <1>1 DEF Forget
  <2> QED BY <2>1, <2>2 DEF Stays
<1>2. CASE ckey[c] \notin S
  <2>1. ckey[c] \in DialKeys =>
          /\ sessions'[ckey[c]] = sessions[ckey[c]]
          /\ sessionConns'[ckey[c]] = sessionConns[ckey[c]]
    BY <1>2 DEF Forget, Keys
  <2> QED BY <2>1 DEF Stays
<1> QED BY Zenon, <1>1, <1>2

\* the goroutine of a connection: registering, handling, leaving
LEMMA ConnStepDial ==
  ASSUME TypeInv, TableInv, DialInv, NEW c \in Conns, ConnNext(c), UNCHANGED dialVars
  PROVE  DialInv'
<1>1. TablesOK /\ ConnsOK /\ AddrsOK /\ Identified
  BY SMTT(30), TypeParts
<1>2. ASSUME NEW k \in AcceptKeys, NEW i \in Idx, NEW a \in AcceptAddrs, Register(c, k, i, a)
      PROVE  DialInv'
  <2>1. /\ ckey' = [ckey EXCEPT ![c] = k] /\ cidx' = [cidx EXCEPT ![c] = i]
        /\ UNCHANGED pubAddrs
        /\ \E p \in {"enter", "first", "done"} : pc' = [pc EXCEPT ![c] = p]
        /\ pc[c] = "free"
    BY Zenon, <1>2 DEF Register, Fresh, Identify, Goto, AfterLookUp, addrVars
  <2>2. \/ UNCHANGED sessionConns
        \/ \E f : sessionConns' = [sessionConns EXCEPT ![k] = f]
    BY Zenon, <1>2 DEF Register
  <2>3. \/ UNCHANGED sessions
        \/ \E n : sessions' = [sessions EXCEPT ![k] = n]
    BY Zenon, <1>2 DEF Register, NewSession
  <2>4. k \notin DialKeys
    BY KeyAssumption
  <2>5. \A d \in DialKeys : sessionConns'[d] = sessionConns[d] /\ sessions'[d] = sessions[d]
    BY SMTT(30), <1>1, <2>2, <2>3, <2>4 DEF TablesOK, Keys
  <2>6. ASSUME NEW d \in Conns PROVE Stays(d)
    <3>1. CASE d = c
      BY ZenonT(40), <1>1, <2>1, <2>4, <3>1 DEF Stays, NotFirst, ConnsOK
    <3>2. CASE d # c
      <4>1. ckey'[d] = ckey[d] /\ cidx'[d] = cidx[d] /\ pc'[d] = pc[d]
        BY <1>1, <2>1, <3>2 DEF ConnsOK
      <4>2. NotFirst(d)
        BY ZenonT(40) DEF DialInv, OwnFound
      <4> QED BY SMTT(30), <2>5, <4>1, <4>2 DEF Stays, NotFirst
    <3> QED BY Zenon, <3>1, <3>2
  <2> QED BY <2>1, <2>5, <2>6, DialQuiet
<1>3. CASE \/ FirstMsg(c) \/ FirstMsgErr(c) \/ ListenerReturn(c)
           \/ HandleConn(c) \/ HandleConnClose(c)
  <2>1. UNCHANGED <<sessions, sessionConns, pubAddrs, ckey, cidx>>
    BY Zenon, <1>3 DEF FirstMsg, FirstMsgErr, ListenerReturn, HandleConn, HandleConnClose,
       tableVars, addrVars, idVars
  <2>2. \E p \in {"enter", "done", "ret", "loop"} :
          /\ pc' = [pc EXCEPT ![c] = p]
          /\ p \in {"ret", "loop"} => pc[c] \in InUse
          /\ p = "enter" => pc[c] = "first"
          /\ p = "loop" => pc[c] \in Reading
          /\ pc[c] # "dialed"
    BY ZenonT(40), <1>3 DEF FirstMsg, FirstMsgErr, ListenerReturn, HandleConn, HandleConnClose,
       Goto, InUse, Reading
  <2>3. ASSUME NEW d \in Conns PROVE Stays(d)
    <3>1. NotFirst(d)
      BY DEF DialInv, OwnFound
    <3> QED BY <1>1, <2>1, <2>2, <3>1 DEF Stays, NotFirst, ConnsOK, InUse, Reading
  <2> QED BY <2>1, <2>3, DialQuiet
<1>4. CASE HandleConnDefer(c)
  <2>1. /\ pc[c] = "loop" /\ ckey[c] \in Keys /\ cidx[c] \in Idx
        /\ UNCHANGED <<ckey, cidx>>
    BY ZenonT(40), <1>1, <1>4 DEF HandleConnDefer, Identified, idVars
  <2>2. \A r \in Remotes : pubAddrs'[r] \in {pubAddrs[r], None}
    BY <1>1, <1>4 DEF HandleConnDefer, AddrCountDown, AddrsOK
  <2>3. ckey[c] \in DialKeys => main[ckey[c]] \notin Early
    BY <2>1, EarlyKeys
  <2>4. \A d \in Conns : NotFirst(d)
    BY DEF DialInv, OwnFound
  <2>5. CASE /\ sessionConns' = [sessionConns EXCEPT ![ckey[c]] = WithoutConn(ckey[c], cidx[c])]
             /\ pc' = [pc EXCEPT ![c] = "ret"] /\ UNCHANGED sessions
    <3>1. \A k \in DialKeys : main[k] \in Early => sessionConns'[k] = sessionConns[k]
      BY <1>1, <2>3, <2>5 DEF TablesOK, Keys
    <3>2. ASSUME NEW d \in Conns PROVE Stays(d)
      <4>1. CASE d = c \/ ckey[d] # ckey[c]
        BY ZenonT(40), <1>1, <2>1, <2>4, <2>5, <4>1 DEF Stays, NotFirst, ConnsOK, TablesOK,
           InUse, Reading, Keys
      <4>2. CASE d # c /\ ckey[d] = ckey[c] /\ ckey[d] \in DialKeys /\ pc[d] \in InUse
        <5>1. cidx[d] # cidx[c]
          BY <2>1, <4>2 DEF DialInv, OwnFound, Own, InUse, Reading
        <5>2. pc'[d] = pc[d]
          BY ZenonT(40), <1>1, <2>5, <4>2 DEF ConnsOK
        <5>3. sessionConns[ckey[d]] # NilMap =>
                /\ sessionConns'[ckey[d]] \in ConnMaps
                /\ sessionConns'[ckey[d]][cidx[d]] = sessionConns[ckey[d]][cidx[d]]
          BY SMTT(30), <1>1, <2>1, <2>5, <4>2, <5>1 DEF TablesOK, WithoutConn, ConnMaps
        <5> QED BY ZenonT(40), <2>1, <2>4, <2>5, <5>2, <5>3, NilMapAssumption DEF Stays, NotFirst
      <4>3. CASE d # c /\ (ckey[d] \notin DialKeys \/ pc[d] \notin InUse)
        BY ZenonT(40), <1>1, <2>1, <2>4, <2>5, <4>3 DEF Stays, NotFirst, ConnsOK
      <4> QED BY ZenonT(40), <4>1, <4>2, <4>3
    <3> QED BY SMTT(30), <2>2, <3>1, <3>2, DialQuiet
  <2>6. CASE Forget({ckey[c]}) /\ pc' = [pc EXCEPT ![c] = "close"]
    <3>1. \A k \in DialKeys : main[k] \in Early => sessionConns'[k] = sessionConns[k]
      BY SMTT(30), <2>3, <2>6 DEF Forget, Keys
    <3>2. ASSUME NEW d \in Conns PROVE Stays(d)
      <4>1. /\ pc[d] = "dialed" => pc'[d] = "dialed"
            /\ pc'[d] \in InUse => pc[d] \in InUse
            /\ pc'[d] \in Reading => pc[d] \in Reading
        BY <1>1, <2>1, <2>6 DEF ConnsOK, InUse, Reading
      <4>2. NotFirst(d)'
        BY <1>1, <2>1, <2>4, <2>6 DEF NotFirst, ConnsOK
      <4> QED BY SMTT(30), <2>1, <2>3, <2>6, <4>1, <4>2, ForgetStays
    <3> QED BY <2>2, <3>1, <3>2, DialQuiet
  <2> QED BY ZenonT(40), <1>4, <2>5, <2>6 DEF HandleConnDefer, Goto
<1> QED BY Zenon, <1>2, <1>3, <1>4 DEF ConnNext

\* the steps that leave the connections and their places alone
LEMMA StillDial ==
  ASSUME DialInv, UNCHANGED <<sessions, sessionConns, pubAddrs, pc, ckey, cidx>>,
         UNCHANGED dialVars
  PROVE  DialInv'
<1>1. ASSUME NEW c \in Conns PROVE Stays(c)
  <2>1. NotFirst(c)
    BY DEF DialInv, OwnFound
  <2> QED BY <2>1 DEF Stays, NotFirst
<1> QED BY <1>1, DialQuiet

\* what the application, the sweeper, ncp and time do
LEMMA TableStepDial ==
  ASSUME TypeInv, TableInv, DialInv, TableNext, UNCHANGED dialVars
  PROVE  DialInv'
<1>1. ASSUME NEW k \in Keys, KeyNext(k)
      PROVE  DialInv'
  <2>1. UNCHANGED <<sessions, sessionConns, pubAddrs, pc, ckey, cidx>>
    BY Zenon, <1>1 DEF KeyNext, CloseOneConn, SendWithErr, NcpClose, NcpClosed, Expire,
       tableVars, addrVars, idVars
  <2> QED BY <2>1, StillDial
<1>2. CASE SweepWake \/ Close \/ AcceptSession
  <2>1. UNCHANGED <<sessions, sessionConns, pubAddrs, pc, ckey, cidx>>
    BY Zenon, <1>2 DEF SweepWake, Close, AcceptSession, tableVars, addrVars, idVars
  <2> QED BY <2>1, StillDial
<1>3. CASE Sweep
  <2>1. Forget(ClosedSessions) /\ UNCHANGED <<pubAddrs, pc, ckey, cidx>>
    BY <1>3 DEF Sweep, addrVars, idVars
  <2>2. ClosedSessions \in SUBSET Keys
    BY DEF ClosedSessions
  <2>3. \A k \in ClosedSessions \cap DialKeys : main[k] \notin Early
    BY EarlyKeys DEF ClosedSessions
  <2>4. \A k \in DialKeys : main[k] \in Early => sessionConns'[k] = sessionConns[k]
    BY <2>1, <2>3 DEF Forget, Keys
  <2>5. ASSUME NEW c \in Conns PROVE Stays(c)
    <3>1. NotFirst(c)'
      BY <2>1 DEF DialInv, OwnFound, NotFirst
    <3> QED BY SMTT(30), <2>1, <2>2, <2>3, <3>1, ForgetStays
  <2> QED BY <2>1, <2>4, <2>5, DialQuiet
<1> QED BY Zenon, <1>1, <1>2, <1>3, ConnStepDial DEF TableNext

-----------------------------------------------------------------------------
\* what a dial does to another dial: nothing
OnlyDial(k) ==
  \A d \in DialKeys : d # k =>
    /\ main'[d] = main[d] /\ mainErr'[d] = mainErr[d]
    /\ worker'[d] = worker[d] /\ wconn'[d] = wconn[d]
    /\ sessionConns'[d] = sessionConns[d] /\ sessions'[d] = sessions[d]

\* ... nor to its connections
OnlyConns(k) ==
  \A c \in Conns :
    \/ ckey'[c] = ckey[c] /\ cidx'[c] = cidx[c] /\ pc'[c] = pc[c]
    \/ ckey'[c] = k /\ pc'[c] # "first" /\ (ckey[c] = k \/ pc[c] = "free")
    \/ ckey'[c] = ckey[c] /\ pc[c] = "ret" /\ pc'[c] = "done"

\* so the invariant is to be shown for the one that steps
LEMMA OneDial ==
  ASSUME TypeInv, DialInv, NEW k \in DialKeys, OnlyDial(k), OnlyConns(k), CacheValid',
         ErrOf(k)', PlacedOf(k)',
         \A c \in Conns : ckey'[c] = k => Own(c)' /\ Found(c)'
  PROVE  DialInv'
<1>1. ErrKept'
  <2> SUFFICES ASSUME NEW d \in DialKeys, d # k PROVE ErrOf(d)'
    BY DEF ErrKept
  <2>1. ErrOf(d)
    BY SMTT(30) DEF DialInv, ErrKept
  <2>2. /\ main'[d] = main[d] /\ mainErr'[d] = mainErr[d]
        /\ worker'[d] = worker[d] /\ sessionConns'[d] = sessionConns[d]
    BY DEF OnlyDial
  <2> QED BY <2>1, <2>2 DEF ErrOf
<1>2. OwnFound'
  <2> SUFFICES ASSUME NEW c \in Conns PROVE Own(c)' /\ Found(c)' /\ NotFirst(c)'
    BY DEF OwnFound
  <2>1. Own(c) /\ Found(c) /\ NotFirst(c)
    BY SMTT(30) DEF DialInv, OwnFound
  <2>2. NotFirst(c)'
    BY <2>1 DEF OnlyConns, NotFirst
  <2>3. CASE ckey'[c] = k
    BY <2>2, <2>3
  <2>4. CASE ckey'[c] # k
    <3>1. /\ ckey'[c] = ckey[c]
          /\ pc'[c] \in InUse => cidx'[c] = cidx[c] /\ pc'[c] = pc[c]
      BY ZenonT(40), <2>4 DEF OnlyConns, InUse, Reading
    <3>2. Own(c)'
      <4>1. ckey[c] \in DialKeys => /\ worker'[ckey[c]] = worker[ckey[c]]
                                    /\ wconn'[ckey[c]] = wconn[ckey[c]]
        BY Zenon, <2>4, <3>1 DEF OnlyDial
      <4>2. SUFFICES ASSUME ckey[c] \in DialKeys, pc'[c] \in InUse
                     PROVE  /\ wconn'[ckey[c]][cidx[c]] = c
                            /\ worker'[ckey[c]][cidx[c]] \in {"dialed", "run"}
        BY ZenonT(40), <3>1 DEF Own
      <4>3. /\ wconn[ckey[c]][cidx[c]] = c
            /\ worker[ckey[c]][cidx[c]] \in {"dialed", "run"}
        BY ZenonT(40), <2>1, <3>1, <4>2 DEF Own
      <4> QED BY ZenonT(40), <4>1, <4>2, <4>3
    <3>3. Found(c)'
      BY ZenonT(40), <2>1, <2>4, <3>1 DEF OnlyDial, Found, InUse
    <3> QED BY ZenonT(40), <2>2, <3>2, <3>3
  <2> QED BY Zenon, <2>3, <2>4
<1>3. Placed'
  <2> SUFFICES ASSUME NEW d \in DialKeys, d # k PROVE PlacedOf(d)'
    BY DEF Placed
  <2>1. PlacedOf(d) /\ Wired /\ d \in Keys
    BY ZenonT(40), TypeParts DEF DialInv, Placed, Keys
  <2>2. main'[d] = main[d] /\ sessionConns'[d] = sessionConns[d]
    BY ZenonT(40) DEF OnlyDial
  <2>3. ASSUME main[d] \in Early, sessionConns[d] # NilMap, NEW i \in Idx, NEW c \in Conns,
               sessionConns[d][i] = c
        PROVE  pc'[c] = "dialed"
    <3>1. pc[c] = "dialed" /\ ckey[c] = d
      BY <2>1, <2>3 DEF PlacedOf, Wired
    <3> QED BY ZenonT(40), <3>1 DEF OnlyConns
  <2> QED BY Zenon, <2>2, <2>3 DEF PlacedOf
<1> QED BY ZenonT(40), <1>1, <1>2, <1>3 DEF DialInv

\* a list with a valid address is cached, or nothing
LEMMA CacheKept ==
  ASSUME TypeInv, DialInv,
         UNCHANGED pubAddrs \/ \E r, l : HasValid(l) /\ pubAddrs' = [pubAddrs EXCEPT ![r] = l]
  PROVE  CacheValid'
<1>1. AddrsOK
  BY SMTT(30), TypeParts
<1> QED BY <1>1 DEF DialInv, CacheValid, AddrsOK, HasValid

\* DialWithConfig has a list of addresses and starts its goroutines
LEMMA StartDialingDial ==
  ASSUME TypeInv, TableInv, DialInv, NEW k \in DialKeys, NEW l \in PubLists, HasValid(l),
         main[k] \in {"look", "fetch"}, StartDialing(k, l), CacheValid',
         UNCHANGED <<sessions, sessionConns, pc, ckey, cidx, mainErr, wconn>>
  PROVE  DialInv'
<1>1. DialOK
  BY SMTT(30), TypeParts
<1>2. /\ main' = [main EXCEPT ![k] = "dial"]
      /\ worker' = [worker EXCEPT ![k] = [i \in Idx |->
           IF AddrAt(l, i) \in Addrs THEN "dialing" ELSE "idle"]]
  BY DEF StartDialing
<1>3. /\ main'[k] = "dial"
      /\ \A i \in Idx : worker'[k][i] = IF AddrAt(l, i) \in Addrs THEN "dialing" ELSE "idle"
  BY SMTT(30), <1>1, <1>2 DEF DialOK
<1>4. \E i \in Idx : worker'[k][i] = "dialing"
  <2>1. PICK i \in DOMAIN l : l[i] # NoAddr
    BY DEF HasValid
  <2>2. i \in Idx /\ AddrAt(l, i) \in Addrs
    BY ZenonT(40), <2>1, ListAssumption DEF AddrAt
  <2> QED BY Zenon, <1>3, <2>2
<1>5. ErrOf(k)'
  BY ZenonT(40), <1>3, <1>4 DEF ErrOf, Early, DialingOnly
<1>6. ASSUME NEW c \in Conns, ckey[c] = k
      PROVE  Own(c)' /\ Found(c)'
  <2>1. pc[c] \notin InUse
    <3>1. ASSUME pc[c] \in InUse PROVE FALSE
      <4>1. cidx[c] \in Idx
        BY ZenonT(40), <3>1, TypeParts DEF Identified, InUse, Reading
      <4>2. worker[k][cidx[c]] \in {"dialed", "run"}
        BY ZenonT(40), <1>6, <3>1 DEF DialInv, OwnFound, Own
      <4>3. worker[k][cidx[c]] = "idle"
        BY ZenonT(40), <4>1 DEF DialInv, ErrKept, ErrOf
      <4> QED BY ZenonT(40), <4>2, <4>3
    <3> QED BY Zenon, <3>1
  <2> QED BY <2>1 DEF Own, Found, InUse
<1>7. OnlyDial(k) /\ OnlyConns(k)
  BY SMTT(30), <1>1, <1>2 DEF OnlyDial, OnlyConns, DialOK
<1>8. PlacedOf(k)'
  BY ZenonT(40) DEF DialInv, Placed, PlacedOf, Early
<1> QED BY Zenon, <1>5, <1>6, <1>7, <1>8, OneDial

\* DialWithConfig moves on and leaves its goroutines alone
LEMMA MainMoves ==
  ASSUME TypeInv, TableInv, DialInv, NEW k \in DialKeys,
         NEW p \in {"look", "fetch", "failed", "done"}, main' = [main EXCEPT ![k] = p],
         mainErr' = mainErr \/ mainErr' = [mainErr EXCEPT ![k] = TRUE],
         p = "failed" => mainErr'[k],
         p \in {"look", "fetch"} => main[k] \in {"idle", "look"},
         \A i \in Idx : worker[k][i] # "dialing",
         UNCHANGED <<sessions, sessionConns, pubAddrs, pc, ckey, cidx, worker, wconn>>
  PROVE  DialInv'
<1>1. DialOK
  BY SMTT(30), TypeParts
<1>2. main'[k] = p
  BY <1>1 DEF DialOK
<1>3. ErrOf(k)
  BY ZenonT(40) DEF DialInv, ErrKept
<1>4. ErrOf(k)'
  BY SMTT(30), <1>2, <1>3 DEF ErrOf, Early, DialingOnly
<1>5. ASSUME NEW c \in Conns, ckey[c] = k
      PROVE  Own(c)' /\ Found(c)'
  <2>1. Own(c) /\ Found(c)
    BY ZenonT(40) DEF DialInv, OwnFound
  <2>2. main'[k] \in Early => main[k] \in Early
    BY ZenonT(40), <1>2 DEF Early
  <2> QED BY ZenonT(40), <1>5, <2>1, <2>2 DEF Own, Found
<1>6. OnlyDial(k) /\ OnlyConns(k)
  BY ZenonT(40), <1>1 DEF OnlyDial, OnlyConns, DialOK
<1>7. CacheValid'
  BY ZenonT(40), CacheKept
<1>8. PlacedOf(k)'
  BY SMTT(30), <1>2 DEF DialInv, Placed, PlacedOf, Early
<1> QED BY ZenonT(40), <1>4, <1>5, <1>6, <1>7, <1>8, OneDial

\* newSession and the goroutines that run handleConn
LEMMA DialInstallDial ==
  ASSUME TypeInv, TableInv, DialInv, NEW k \in DialKeys, DialInstall(k)
  PROVE  DialInv'
<1>1. DialOK /\ TablesOK /\ ConnsOK /\ Identified /\ Wired /\ k \in Keys
  BY SMTT(30), TypeParts DEF Keys
<1>2. /\ main[k] = "dial" /\ \A i \in Idx : worker[k][i] # "dialing"
      /\ main' = [main EXCEPT ![k] = "sessdial"]
      /\ mainErr' = [mainErr EXCEPT ![k] = FALSE]
      /\ worker' = [worker EXCEPT ![k] = [i \in Idx |->
           IF sessionConns[k][i] # None THEN "run" ELSE worker[k][i]]]
      /\ pc' = [c \in Conns |-> IF c \in RegisteredConns({k}) THEN "enter" ELSE pc[c]]
      /\ UNCHANGED <<sessionConns, pubAddrs, ckey, cidx, wconn>>
  BY Zenon DEF DialInstall, Joined, addrVars, idVars
<1>3. \E n : sessions' = [sessions EXCEPT ![k] = n]
  BY ZenonT(40) DEF DialInstall, NewSession
<1>4. main'[k] = "sessdial" /\ \A i \in Idx : worker'[k][i] \in {"run", worker[k][i]}
  BY ZenonT(40), <1>1, <1>2 DEF DialOK
<1>5. ErrOf(k)'
  BY ZenonT(40), <1>2, <1>4 DEF ErrOf, Early
<1>6. ASSUME NEW c \in Conns, c \in RegisteredConns({k})
      PROVE  /\ ckey[c] = k /\ cidx[c] \in Idx /\ sessionConns[k] # NilMap
             /\ sessionConns[k][cidx[c]] = c
  BY SMTT(30), <1>1, <1>6 DEF RegisteredConns, Wired
<1>7. ASSUME NEW c \in Conns, ckey[c] = k, pc'[c] \in InUse
      PROVE  pc[c] \in InUse /\ cidx[c] \in Idx /\ (pc'[c] \in Reading => pc[c] \in Reading)
  <2>1. CASE c \in RegisteredConns({k})
    BY ZenonT(40), <1>2, <1>6, <2>1 DEF DialInv, Placed, PlacedOf, Early, InUse, Reading
  <2>2. CASE c \notin RegisteredConns({k})
    <3>1. pc'[c] = pc[c]
      BY <1>2, <2>2
    <3> QED BY ZenonT(40), <1>1, <1>7, <3>1 DEF Identified, InUse, Reading
  <2> QED BY ZenonT(40), <2>1, <2>2
<1>8. ASSUME NEW c \in Conns, ckey[c] = k
      PROVE  Own(c)' /\ Found(c)'
  <2>1. Own(c) /\ Found(c)
    BY SMTT(30) DEF DialInv, OwnFound
  <2>2. Own(c)'
    BY ZenonT(40), <1>2, <1>4, <1>7, <1>8, <2>1 DEF Own
  <2>3. Found(c)'
    BY ZenonT(40), <1>2, <1>7, <1>8, <2>1 DEF Found, InUse, Early
  <2> QED BY Zenon, <2>2, <2>3
<1>9. OnlyDial(k)
  BY SMTT(30), <1>1, <1>2, <1>3 DEF OnlyDial, DialOK, TablesOK, Keys
<1>10. OnlyConns(k)
  BY ZenonT(40), <1>2, <1>6 DEF OnlyConns
<1>11. CacheValid' /\ PlacedOf(k)'
  BY Zenon, <1>2, <1>4, CacheKept DEF PlacedOf, Early
<1> QED BY Zenon, <1>2, <1>5, <1>8, <1>9, <1>10, <1>11, OneDial

\* DialWithConfig
LEMMA MainStepDial ==
  ASSUME TypeInv, TableInv, DialInv, NEW k \in DialKeys, DialStart(k) \/ MainStep(k)
  PROVE  DialInv'
<1>1. DialOK /\ AddrsOK /\ RemoteOf[k] \in Remotes
  BY SMTT(30), TypeParts, KeyAssumption DEF Keys
<1>2. ErrOf(k)
  BY DEF DialInv, ErrKept
<1>3. mainErr' = [mainErr EXCEPT ![k] = TRUE] => mainErr'[k]
  BY <1>1 DEF DialOK
<1>4. UNCHANGED clientVars => UNCHANGED <<sessions, sessionConns, pubAddrs, pc, ckey, cidx>>
  BY ZenonT(40) DEF clientVars, tableVars, addrVars, idVars
<1>5. CASE DialStart(k)
  <2>1. /\ main[k] = "idle" /\ main' = [main EXCEPT ![k] = "look"]
        /\ UNCHANGED <<clientVars, mainErr, worker, wconn>>
    BY <1>5 DEF DialStart
  <2>2. \A i \in Idx : worker[k][i] # "dialing"
    BY <1>2, <2>1 DEF ErrOf
  <2> QED BY Zenon, <1>4, <2>1, <2>2, MainMoves
<1>6. CASE DialLook(k)
  <2>1. main[k] = "look" /\ UNCHANGED <<clientVars, wconn>>
    BY ZenonT(40), <1>6 DEF DialLook
  <2>2. \A i \in Idx : worker[k][i] # "dialing"
    BY ZenonT(40), <1>2, <2>1 DEF ErrOf
  <2>3. CASE CacheHit(RemoteOf[k]) /\ StartDialing(k, pubAddrs[RemoteOf[k]]) /\ UNCHANGED mainErr
    <3>1. pubAddrs[RemoteOf[k]] \in PubLists /\ HasValid(pubAddrs[RemoteOf[k]])
      BY SMTT(30), <1>1, <2>3 DEF CacheHit, AddrsOK, DialInv, CacheValid
    <3>2. CacheValid'
      BY SMTT(30), <1>4, <2>1, CacheKept
    <3> QED BY ZenonT(40), <1>4, <2>1, <2>3, <3>1, <3>2, StartDialingDial
  <2>4. CASE main' = [main EXCEPT ![k] = "fetch"] /\ UNCHANGED <<mainErr, worker>>
    BY Zenon, <1>4, <2>1, <2>2, <2>4, MainMoves
  <2>5. CASE Fail(k) /\ UNCHANGED worker
    BY ZenonT(40), <1>3, <1>4, <2>1, <2>2, <2>5, MainMoves DEF Fail
  <2> QED BY ZenonT(40), <1>6, <2>3, <2>4, <2>5 DEF DialLook
<1>7. ASSUME NEW l \in PubLists, DialFetched(k, l)
      PROVE  DialInv'
  <2>1. /\ main[k] = "fetch" /\ HasValid(l) /\ StartDialing(k, l)
        /\ pubAddrs' = [pubAddrs EXCEPT ![RemoteOf[k]] = l]
        /\ UNCHANGED <<sessions, sessionConns, pc, ckey, cidx, mainErr, wconn>>
    BY ZenonT(40), <1>7 DEF DialFetched, tableVars, idVars
  <2>2. CacheValid'
    BY Zenon, <2>1, CacheKept
  <2> QED BY Zenon, <2>1, <2>2, StartDialingDial
<1>8. CASE DialFetchErr(k) \/ DialSessionErr(k)
  <2>1. Fail(k) /\ UNCHANGED <<clientVars, worker, wconn>>
    BY ZenonT(40), <1>8 DEF DialFetchErr, DialSessionErr
  <2>2. \A i \in Idx : worker[k][i] # "dialing"
    BY <1>2, <1>8 DEF DialFetchErr, DialSessionErr, Joined, ErrOf
  <2> QED BY ZenonT(40), <1>3, <1>4, <2>1, <2>2, MainMoves DEF Fail
<1>9. CASE DialNoConn(k)
  <2>1. /\ Joined(k) /\ sessionConns[k] \in {NilMap, EmptyConns}
        /\ main' = [main EXCEPT ![k] = "failed"]
        /\ UNCHANGED <<clientVars, mainErr, worker, wconn>>
    BY ZenonT(40), <1>9 DEF DialNoConn
  <2>2. \A i \in Idx : worker[k][i] # "dialing" /\ worker[k][i] # "dialed"
    BY ZenonT(40), <1>2, <2>1 DEF Joined, ErrOf, EmptyConns
  <2>3. \E i \in Idx : worker[k][i] = "nodial"
    BY ZenonT(40), <1>2, <2>1, <2>2 DEF Joined, ErrOf, Early, DialingOnly
  <2>4. mainErr[k]
    BY <1>2, <2>1, <2>2, <2>3 DEF Joined, ErrOf
  <2> QED BY ZenonT(40), <1>4, <2>1, <2>2, <2>4, MainMoves
<1>10. CASE DialDone(k)
  <2>1. main[k] = "sessdial" /\ UNCHANGED <<clientVars, worker, wconn>>
    BY ZenonT(40), <1>10 DEF DialDone
  <2>2. \A i \in Idx : worker[k][i] # "dialing"
    BY SMTT(30), <1>2, <2>1 DEF ErrOf
  <2>3. CASE main' = [main EXCEPT ![k] = "done"] /\ UNCHANGED mainErr
    BY Zenon, <1>4, <2>1, <2>2, <2>3, MainMoves
  <2>4. CASE Fail(k)
    BY ZenonT(40), <1>3, <1>4, <2>1, <2>2, <2>4, MainMoves DEF Fail
  <2> QED BY ZenonT(40), <1>10, <2>3, <2>4 DEF DialDone
<1> QED BY Zenon, <1>5, <1>6, <1>7, <1>8, <1>9, <1>10, DialInstallDial DEF MainStep

\* dialTcpConn puts the connection under an index that has none
LEMMA DialedDial ==
  ASSUME TypeInv, TableInv, DialInv, NEW k \in DialKeys, NEW i \in Idx, NEW c \in Conns,
         NEW p \in {"dialed", "enter"}, Dialed(c, k, i, p),
         NEW q \in {"dialed", "run"}, (q = "dialed") <=> (p = "dialed"),
         worker[k][i] = IF q = "dialed" THEN "dialing" ELSE "dial",
         worker' = [worker EXCEPT ![k][i] = q], wconn' = [wconn EXCEPT ![k][i] = c],
         mainErr' = mainErr \/ (mainErr' = [mainErr EXCEPT ![k] = FALSE] /\ q = "dialed"),
         UNCHANGED main
  PROVE  DialInv'
<1>1. DialOK /\ TablesOK /\ ConnsOK /\ Identified /\ k \in Keys
  BY ZenonT(40), TypeParts DEF Keys
<1>2. /\ pc[c] = "free" /\ pc' = [pc EXCEPT ![c] = p]
      /\ ckey' = [ckey EXCEPT ![c] = k] /\ cidx' = [cidx EXCEPT ![c] = i]
      /\ sessionConns' = [sessionConns EXCEPT
           ![k] = [(IF @ = NilMap THEN EmptyConns ELSE @) EXCEPT ![i] = c]]
      /\ UNCHANGED <<sessions, pubAddrs>>
  BY DEF Dialed, Fresh, Identify, Goto, addrVars
<1>3. PICK m : /\ m = IF sessionConns[k] = NilMap THEN EmptyConns ELSE sessionConns[k]
               /\ sessionConns' = [sessionConns EXCEPT ![k] = [m EXCEPT ![i] = c]]
  BY ZenonT(40), <1>2
<1>4. /\ sessionConns'[k] # NilMap /\ sessionConns'[k][i] = c
      /\ \A j \in Idx : j # i /\ sessionConns[k] # NilMap =>
           sessionConns'[k][j] = sessionConns[k][j]
  <2>1. [m EXCEPT ![i] = c] \in ConnMaps /\ m \in ConnMaps
    BY SMTT(30), <1>1, <1>3 DEF TablesOK, ConnMaps, EmptyConns
  <2> QED BY ZenonT(40), <1>1, <1>3, <2>1, NilMapAssumption DEF TablesOK, ConnMaps
<1>5. /\ worker'[k][i] = q /\ wconn'[k][i] = c
      /\ \A j \in Idx : j # i => worker'[k][j] = worker[k][j] /\ wconn'[k][j] = wconn[k][j]
  BY <1>1 DEF DialOK
<1>6. ErrOf(k)
  BY SMTT(30) DEF DialInv, ErrKept
<1>7. main[k] # "failed" \/ mainErr' = mainErr
  BY ZenonT(40), <1>6 DEF ErrOf
<1>8. ErrOf(k)'
  BY SMTT(30), <1>4, <1>5, <1>6, <1>7, ConnAssumption DEF ErrOf, Early, DialingOnly
<1>9. ASSUME NEW d \in Conns, ckey'[d] = k
      PROVE  Own(d)' /\ Found(d)'
  <2>1. CASE d = c
    BY SMTT(30), <1>1, <1>2, <1>4, <1>5, <2>1 DEF Own, Found, ConnsOK
  <2>2. CASE d # c
    <3>1. Own(d) /\ Found(d)
      BY SMTT(30) DEF DialInv, OwnFound
    <3>2. ckey'[d] = ckey[d] /\ cidx'[d] = cidx[d] /\ pc'[d] = pc[d]
      BY ZenonT(40), <1>1, <1>2, <2>2 DEF ConnsOK
    <3>3. pc[d] \in InUse => cidx[d] \in Idx /\ cidx[d] # i
      BY ZenonT(40), <1>1, <1>9, <3>1, <3>2 DEF Own, Identified, InUse, Reading
    <3>4. Own(d)'
      BY ZenonT(40), <1>5, <1>9, <3>1, <3>2, <3>3 DEF Own
    <3>5. Found(d)'
      BY ZenonT(40), <1>2, <1>4, <1>9, <3>1, <3>2, <3>3 DEF Found, InUse
    <3> QED BY Zenon, <3>4, <3>5
  <2> QED BY ZenonT(40), <2>1, <2>2
<1>10. OnlyDial(k)
  BY ZenonT(40), <1>1, <1>2, <1>3 DEF OnlyDial, DialOK, TablesOK, Keys
<1>11. OnlyConns(k)
  BY ZenonT(40), <1>1, <1>2 DEF OnlyConns, ConnsOK
<1>12. CacheValid'
  BY SMTT(30), <1>2, CacheKept
<1>13. PlacedOf(k)'
  <2> SUFFICES ASSUME main[k] \in Early, NEW j \in Idx, NEW d \in Conns, sessionConns'[k][j] = d
               PROVE  pc'[d] = "dialed"
    BY SMTT(30) DEF PlacedOf
  <2>1. p = "dialed"
    BY ZenonT(40), <1>6 DEF ErrOf, DialingOnly
  <2>2. CASE j = i
    BY ZenonT(40), <1>1, <1>2, <1>4, <2>1, <2>2 DEF ConnsOK
  <2>3. CASE j # i
    <3>1. sessionConns[k] # NilMap /\ sessionConns[k][j] = d
      BY ZenonT(40), <1>1, <1>3, <2>3, ConnAssumption DEF TablesOK, ConnMaps, EmptyConns
    <3>2. pc[d] = "dialed"
      BY SMTT(30), <3>1 DEF DialInv, Placed, PlacedOf
    <3> QED BY ZenonT(40), <1>1, <1>2, <3>2 DEF ConnsOK
  <2> QED BY ZenonT(40), <2>2, <2>3
<1> QED BY ZenonT(40), <1>8, <1>9, <1>10, <1>11, <1>12, <1>13, OneDial

\* the goroutine of an index moves on without a connection
LEMMA WorkerMoves ==
  ASSUME TypeInv, TableInv, DialInv, NEW k \in DialKeys, NEW i \in Idx,
         NEW q \in {"nodial", "try", "look", "fetch", "dial", "exit"},
         worker' = [worker EXCEPT ![k][i] = q], worker[k][i] \notin {"dialed", "run"},
         q # "nodial" => worker[k][i] \notin DialingOnly,
         q = "nodial" => worker[k][i] = "dialing",
         \/ UNCHANGED mainErr /\ q # "nodial"
         \/ mainErr' = [mainErr EXCEPT ![k] = TRUE],
         UNCHANGED pubAddrs \/ \E r, l : HasValid(l) /\ pubAddrs' = [pubAddrs EXCEPT ![r] = l],
         UNCHANGED <<sessions, sessionConns, pc, ckey, cidx, main, wconn>>
  PROVE  DialInv'
<1>1. DialOK /\ Identified
  BY ZenonT(40), TypeParts
<1>2. worker'[k][i] = q /\ \A j \in Idx : j # i => worker'[k][j] = worker[k][j]
  BY SMTT(30), <1>1 DEF DialOK
<1>3. ErrOf(k)
  BY SMTT(30) DEF DialInv, ErrKept
<1>4. mainErr'[k] \/ (mainErr' = mainErr /\ q # "nodial")
  BY ZenonT(40), <1>1 DEF DialOK
<1>5. ErrOf(k)'
  BY ZenonT(40), <1>2, <1>3, <1>4 DEF ErrOf, Early, DialingOnly
<1>6. ASSUME NEW c \in Conns, ckey[c] = k
      PROVE  Own(c)' /\ Found(c)'
  <2>1. Own(c) /\ Found(c)
    BY ZenonT(40) DEF DialInv, OwnFound
  <2>2. pc[c] \in InUse => cidx[c] \in Idx /\ cidx[c] # i
    BY SMTT(30), <1>1, <1>6, <2>1 DEF Own, Identified, InUse, Reading
  <2> QED BY ZenonT(40), <1>2, <1>6, <2>1, <2>2 DEF Own, Found
<1>7. OnlyDial(k) /\ OnlyConns(k)
  BY ZenonT(40), <1>1 DEF OnlyDial, OnlyConns, DialOK
<1>8. CacheValid' /\ PlacedOf(k)'
  BY ZenonT(40), CacheKept DEF DialInv, Placed, PlacedOf
<1> QED BY ZenonT(40), <1>5, <1>6, <1>7, <1>8, OneDial

\* handleConn returned, and the goroutine has no connection any more
LEMMA WorkerReturnDial ==
  ASSUME TypeInv, TableInv, DialInv, NEW k \in DialKeys, NEW i \in Idx, WorkerReturn(k, i)
  PROVE  DialInv'
<1>1. DialOK /\ ConnsOK /\ Identified
  BY SMTT(30), TypeParts
<1>0. PICK c : c = wconn[k][i]
  OBVIOUS
<1>2. PICK q \in {"exit", "try"} :
        /\ c = wconn[k][i] /\ worker[k][i] = "run" /\ pc[c] = "ret"
        /\ pc' = [pc EXCEPT ![c] = "done"]
        /\ worker' = [worker EXCEPT ![k][i] = q]
        /\ wconn' = [wconn EXCEPT ![k][i] = None]
        /\ UNCHANGED <<sessions, sessionConns, pubAddrs, ckey, cidx, main, mainErr>>
  BY ZenonT(40), <1>0 DEF WorkerReturn, Goto, tableVars, addrVars, idVars
<1>3. /\ worker'[k][i] = q
      /\ \A j \in Idx : j # i => worker'[k][j] = worker[k][j] /\ wconn'[k][j] = wconn[k][j]
  BY <1>1, <1>2 DEF DialOK
<1>4. ErrOf(k)
  BY ZenonT(40) DEF DialInv, ErrKept
<1>5. ErrOf(k)'
  BY ZenonT(40), <1>2, <1>3, <1>4 DEF ErrOf, Early, DialingOnly
<1>6. \A d \in Conns : pc'[d] = IF d = c THEN "done" ELSE pc[d]
  BY <1>1, <1>2 DEF ConnsOK
<1>7. ASSUME NEW d \in Conns, ckey[d] = k
      PROVE  Own(d)' /\ Found(d)'
  <2>1. Own(d) /\ Found(d)
    BY ZenonT(40) DEF DialInv, OwnFound
  <2>2. pc'[d] \in InUse => pc'[d] = pc[d] /\ cidx[d] \in Idx /\ cidx[d] # i
    <3>1. "done" \notin InUse /\ "free" \notin InUse
      BY DEF InUse, Reading
    <3>2. pc'[d] \in InUse => d # c /\ pc'[d] = pc[d]
      BY Zenon, <1>6, <3>1
    <3>3. pc[d] \in InUse => cidx[d] \in Idx
      BY Zenon, <1>1, <3>1 DEF Identified
    <3>4. pc[d] \in InUse => wconn[k][cidx[d]] = d
      BY ZenonT(40), <1>7, <2>1 DEF Own
    <3> QED BY ZenonT(40), <1>2, <3>2, <3>3, <3>4
  <2>3. Own(d)'
    BY ZenonT(40), <1>2, <1>3, <1>7, <2>1, <2>2 DEF Own
  <2>4. Found(d)'
    BY SMTT(30), <1>2, <1>7, <2>1, <2>2 DEF Found, InUse
  <2> QED BY Zenon, <2>3, <2>4
<1>8. OnlyDial(k)
  BY ZenonT(40), <1>1, <1>2 DEF OnlyDial, DialOK
<1>9. OnlyConns(k)
  BY SMTT(30), <1>2, <1>6 DEF OnlyConns
<1>10. CacheValid'
  BY ZenonT(40), <1>2, CacheKept
<1>11. PlacedOf(k)'
  BY <1>2, <1>6 DEF DialInv, Placed, PlacedOf
<1> QED BY Zenon, <1>2, <1>5, <1>7, <1>8, <1>9, <1>10, <1>11, OneDial

\* the goroutine of one index
LEMMA WorkerStepDial ==
  ASSUME TypeInv, TableInv, DialInv, NEW k \in DialKeys, NEW i \in Idx, WorkerStep(k, i)
  PROVE  DialInv'
<1>1. UNCHANGED clientVars => UNCHANGED <<sessions, sessionConns, pubAddrs, pc, ckey, cidx>>
  BY ZenonT(40) DEF clientVars, tableVars, addrVars, idVars
<1>2. ASSUME NEW c \in Conns, DialConn(k, i, c)
      PROVE  DialInv'
  <2>1. /\ worker[k][i] = "dialing" /\ Dialed(c, k, i, "dialed")
        /\ worker' = [worker EXCEPT ![k][i] = "dialed"]
        /\ wconn' = [wconn EXCEPT ![k][i] = c]
        /\ mainErr' = [mainErr EXCEPT ![k] = FALSE]
        /\ UNCHANGED main
    BY <1>2 DEF DialConn
  <2> QED BY Zenon, <2>1, DialedDial
<1>3. ASSUME NEW c \in Conns, ReconnectConn(k, i, c)
      PROVE  DialInv'
  <2>1. /\ worker[k][i] = "dial" /\ Dialed(c, k, i, "enter")
        /\ worker' = [worker EXCEPT ![k][i] = "run"]
        /\ wconn' = [wconn EXCEPT ![k][i] = c]
        /\ UNCHANGED <<main, mainErr>>
    BY <1>3 DEF ReconnectConn
  <2> QED BY ZenonT(40), <2>1, DialedDial
<1>4. CASE DialConnErr(k, i)
  <2>1. /\ worker[k][i] = "dialing"
        /\ worker' = [worker EXCEPT ![k][i] = "nodial"]
        /\ mainErr' = [mainErr EXCEPT ![k] = TRUE]
        /\ UNCHANGED <<clientVars, main, wconn>>
    BY SMTT(30), <1>4 DEF DialConnErr
  <2> QED BY Zenon, <1>1, <2>1, WorkerMoves
<1>5. ASSUME \/ \E l \in PubLists : ReconnectFetched(k, i, l)
             \/ ReconnectCheck(k, i) \/ ReconnectLook(k, i)
             \/ ReconnectFetchErr(k, i) \/ ReconnectSessionClosed(k, i)
             \/ ReconnectShort(k, i) \/ ReconnectConnErr(k, i)
      PROVE  DialInv'
  <2>1. worker[k][i] \in {"try", "look", "fetch", "dial"}
    BY Zenon, <1>5 DEF ReconnectFetched, ReconnectCheck, ReconnectLook, ReconnectFetchErr,
       ReconnectSessionClosed, ReconnectShort, ReconnectConnErr
  <2>2. /\ \E q \in {"try", "look", "fetch", "dial", "exit"} :
             worker' = [worker EXCEPT ![k][i] = q]
        /\ UNCHANGED <<main, mainErr, wconn>>
    BY ZenonT(40), <1>5 DEF ReconnectFetched, ReconnectCheck, ReconnectLook, ReconnectFetchErr,
       ReconnectSessionClosed, ReconnectShort, ReconnectConnErr, AttemptFailed, WorkerGoto
  <2>3. UNCHANGED <<sessions, sessionConns, pc, ckey, cidx>>
    BY ZenonT(40), <1>5 DEF ReconnectFetched, ReconnectCheck, ReconnectLook, ReconnectFetchErr,
       ReconnectSessionClosed, ReconnectShort, ReconnectConnErr, clientVars, tableVars, idVars
  <2>4. UNCHANGED pubAddrs \/ \E r, l : HasValid(l) /\ pubAddrs' = [pubAddrs EXCEPT ![r] = l]
    BY ZenonT(40), <1>5 DEF ReconnectFetched, ReconnectCheck, ReconnectLook, ReconnectFetchErr,
       ReconnectSessionClosed, ReconnectShort, ReconnectConnErr, clientVars, addrVars
  <2>5. PICK q \in {"try", "look", "fetch", "dial", "exit"} :
          worker' = [worker EXCEPT ![k][i] = q]
    BY Zenon, <2>2
  <2>6. worker[k][i] \notin {"dialed", "run"} /\ worker[k][i] \notin DialingOnly
    BY <2>1 DEF DialingOnly
  <2> QED BY ZenonT(40), <2>2, <2>3, <2>4, <2>5, <2>6, WorkerMoves
<1> QED BY ZenonT(40), <1>2, <1>3, <1>4, <1>5, WorkerReturnDial DEF WorkerStep

\* every step of the client
LEMMA NextDial == TypeInv /\ TableInv /\ DialInv /\ [Next]_vars => DialInv'
<1> SUFFICES ASSUME TypeInv, TableInv, DialInv, [Next]_vars PROVE DialInv'
  OBVIOUS
<1>1. CASE UNCHANGED vars
  BY Zenon, <1>1, StillDial DEF vars, clientVars, tableVars, addrVars, idVars
<1> QED BY Zenon, <1>1, TableStepDial, MainStepDial, WorkerStepDial DEF Next, DialNext

-----------------------------------------------------------------------------
\* The inductive invariant.
THEOREM DialInvariant == Spec => [](TypeInv /\ TableInv /\ DialInv)
<1>1. Init => TypeInv /\ TableInv /\ DialInv
  BY InitType, InitTable, InitDial
<1>2. TypeInv /\ TableInv /\ DialInv /\ [Next]_vars => (TypeInv /\ TableInv /\ DialInv)'
  BY SMTT(30), NextType, NextTable, NextDial
<1> QED BY <1>1, <1>2, PTL DEF Spec

\* DialWithConfig that returns no session returns an error, whatever order its
\* goroutines assign the shared variable err in.
THEOREM DialErrReportedHolds == Spec => []DialErrReported
<1>1. DialInv => DialErrReported
  BY ZenonT(40) DEF DialInv, ErrKept, ErrOf, DialErrReported
<1> QED BY <1>1, DialInvariant, PTL

\* The connection a goroutine of a dialed session reads from is the one
\* sessionConns has for its index, as long as the session is in the table.
THEOREM DialedIsRegisteredHolds == Spec => []DialedIsRegistered
<1>1. DialInv => DialedIsRegistered
  BY DEF DialInv, OwnFound, Found, DialedIsRegistered, Reading
<1> QED BY <1>1, DialInvariant, PTL

-----------------------------------------------------------------------------
(* Unlimited retries *)

\* every answer has an entry for every index
FullLists == \A l \in PubLists : DOMAIN l = Idx

\* there is nothing left to reconnect for
Stopped(k) == isClosed \/ sessions[k] = 0 \/ ncp[k][sessions[k]] # "open"

RetryInv ==
  \A k \in DialKeys, i \in Idx :
    /\ worker[k][i] = "exit" => Stopped(k)
    /\ worker[k][i] = "dial" => target[k][i] # None

\* A step neither revives the session of a dial that is over nor the client.
Late(k) ==
  /\ isClosed => isClosed'
  /\ sessions'[k] \in {0, sessions[k]}
  /\ \A n \in Gens : ncp'[k][n] = "open" => ncp[k][n] = "open"

LEMMA LateSteps ==
  ASSUME TypeInv, TableInv, [Next]_vars, NEW k \in DialKeys, main[k] \notin Early
  PROVE  Late(k)
<1>1. TablesOK /\ NcpOK /\ k \in Keys
  BY SMTT(30), TypeParts DEF Keys
<1>2. ASSUME UNCHANGED <<isClosed, sessions, ncp>>
      PROVE  Late(k)
  BY ZenonT(40), <1>2 DEF Late
<1>3. ASSUME UNCHANGED <<isClosed, sessions>>, NEW j, NEW n, NEW v,
             ncp' = [ncp EXCEPT ![j][n] = v], v # "open" \/ ncp[j][n] = "open"
      PROVE  Late(k)
  BY ZenonT(40), <1>1, <1>3 DEF Late, NcpOK
<1>4. ASSUME NEW j \in Keys, j # k, NewSession(j), UNCHANGED isClosed
      PROVE  Late(k)
  BY ZenonT(40), <1>1, <1>4 DEF Late, NewSession, NcpOK, TablesOK
<1>5. ASSUME NEW S, Forget(S), UNCHANGED <<isClosed, ncp>>
      PROVE  Late(k)
  BY SMTT(30), <1>1, <1>5 DEF Late, Forget
<1>6. ASSUME NEW c \in Conns, ConnNext(c)
      PROVE  Late(k)
  <2>1. ASSUME NEW j \in AcceptKeys, NEW i \in Idx, NEW a \in AcceptAddrs, Register(c, j, i, a)
        PROVE  Late(k)
    <3>1. j \in Keys /\ j # k
      BY KeyAssumption DEF Keys
    <3> QED BY ZenonT(40), <1>2, <1>4, <2>1, <3>1 DEF Register, ncpVars
  <2>2. CASE FirstMsg(c) \/ FirstMsgErr(c) \/ ListenerReturn(c) \/ HandleConn(c)
    BY ZenonT(40), <1>2, <2>2 DEF FirstMsg, FirstMsgErr, ListenerReturn, HandleConn, tableVars,
       ncpVars
  <2>3. CASE HandleConnDefer(c)
    BY ZenonT(40), <1>2, <1>5, <2>3 DEF HandleConnDefer, ncpVars
  <2>4. CASE HandleConnClose(c)
    BY ZenonT(40), <1>3, <2>4 DEF HandleConnClose, CloseNcp, tableVars
  <2> QED BY ZenonT(40), <1>6, <2>1, <2>2, <2>3, <2>4 DEF ConnNext
<1>7. ASSUME NEW j \in Keys, KeyNext(j)
      PROVE  Late(k)
  <2>1. ASSUME NEW n \in Gens, NcpClose(j, n) \/ NcpClosed(j, n)
        PROVE  Late(k)
    BY ZenonT(40), <1>3, <2>1 DEF NcpClose, NcpClosed, CloseNcp, tableVars
  <2> QED BY ZenonT(40), <1>2, <1>7, <2>1 DEF KeyNext, CloseOneConn, SendWithErr, Expire,
       tableVars, ncpVars
<1>8. CASE SweepWake \/ AcceptSession \/ UNCHANGED vars
  BY Zenon, <1>2, <1>8 DEF SweepWake, AcceptSession, vars, clientVars, tableVars, ncpVars
<1>9. CASE Sweep
  BY ZenonT(40), <1>5, <1>9 DEF Sweep, ncpVars
<1>10. CASE Close
  BY SMTT(30), <1>1, <1>10 DEF Close, Late, CloseNcp, tableVars
<1>11. ASSUME NEW j \in DialKeys, DialStart(j) \/ MainStep(j)
       PROVE  Late(k)
  <2>1. CASE DialInstall(j)
    <3>1. j \in Keys /\ j # k
      BY <2>1 DEF DialInstall, Joined, Early, Keys
    <3> QED BY ZenonT(40), <1>4, <2>1, <3>1 DEF DialInstall
  <2>2. CASE ~DialInstall(j)
    BY ZenonT(40), <1>2, <1>11, <2>2 DEF DialStart, MainStep, DialLook, DialFetched, DialFetchErr,
       DialNoConn, DialSessionErr, DialDone, clientVars, tableVars, ncpVars
  <2> QED BY Zenon, <2>1, <2>2
<1>12. ASSUME NEW j \in DialKeys, NEW i \in Idx, WorkerStep(j, i)
       PROVE  Late(k)
  <2>1. CASE ReconnectSessionClosed(j, i)
    BY ZenonT(40), <1>3, <2>1 DEF ReconnectSessionClosed, CloseNcp, tableVars
  <2>2. CASE ~ReconnectSessionClosed(j, i)
    BY ZenonT(40), <1>2, <1>12, <2>2 DEF WorkerStep, DialConn, ReconnectConn, Dialed,
       ReconnectFetched, DialConnErr, WorkerReturn, ReconnectCheck, ReconnectLook,
       ReconnectFetchErr, ReconnectShort, ReconnectConnErr, clientVars, tableVars, ncpVars
  <2> QED BY Zenon, <2>1, <2>2
<1> QED BY ZenonT(40), <1>6, <1>7, <1>8, <1>9, <1>10, <1>11, <1>12 DEF Next, TableNext, DialNext

\* so a goroutine that has stopped has done so for good
LEMMA StoppedStays ==
  ASSUME TypeInv, TableInv, [Next]_vars, NEW k \in DialKeys, main[k] \notin Early, Stopped(k)
  PROVE  Stopped(k)'
<1>1. Late(k) /\ TablesOK /\ k \in Keys
  BY SMTT(30), LateSteps, TypeParts DEF Keys
<1>2. sessions[k] # 0 => sessions[k] \in Gens
  BY <1>1, BoundAssumption DEF TablesOK, Gens
<1> QED BY SMTT(30), <1>1, <1>2 DEF Late, Stopped

\* The goroutine of an index stops only when there is nothing left to do.
LEMMA NextRetry ==
  ASSUME Retries < 0, FullLists, TypeInv, TableInv, DialInv, RetryInv, [Next]_vars
  PROVE  RetryInv'
<1>1. DialOK /\ AddrsOK /\ NcpOK /\ TablesOK
  BY SMTT(30), TypeParts
<1>2. ASSUME NEW k \in DialKeys, NEW i \in Idx, worker[k][i] = "exit"
      PROVE  Stopped(k)'
  <2>1. main[k] \notin Early
    BY <1>2 DEF DialInv, ErrKept, ErrOf, DialingOnly
  <2>2. Stopped(k)
    BY ZenonT(40), <1>2 DEF RetryInv
  <2> QED BY ZenonT(40), <2>1, <2>2, StoppedStays
<1>3. ASSUME NEW k \in DialKeys, NEW i \in Idx,
             worker'[k][i] = "exit" => worker[k][i] = "exit",
             worker'[k][i] = "dial" => worker[k][i] = "dial" /\ target'[k][i] = target[k][i]
      PROVE  /\ worker'[k][i] = "exit" => Stopped(k)'
             /\ worker'[k][i] = "dial" => target'[k][i] # None
  BY ZenonT(40), <1>2, <1>3 DEF RetryInv
<1>4. CASE UNCHANGED dialVars
  BY ZenonT(40), <1>3, <1>4 DEF RetryInv, dialVars
<1>5. ASSUME NEW k \in DialKeys, DialStart(k) \/ MainStep(k)
      PROVE  RetryInv'
  <2>1. \/ UNCHANGED <<worker, target>>
        \/ \E l : StartDialing(k, l)
        \/ UNCHANGED target /\ worker' = [worker EXCEPT ![k] = [i \in Idx |->
             IF sessionConns[k][i] # None THEN "run" ELSE worker[k][i]]]
    BY ZenonT(40), <1>5 DEF DialStart, MainStep, DialLook, DialFetched, DialFetchErr, DialNoConn,
       DialSessionErr, DialInstall, DialDone
  <2>2. ASSUME NEW d \in DialKeys, NEW i \in Idx
        PROVE  /\ worker'[d][i] = "exit" => worker[d][i] = "exit"
               /\ worker'[d][i] = "dial" => worker[d][i] = "dial" /\ target'[d][i] = target[d][i]
    <3>1. CASE UNCHANGED <<worker, target>>
      BY ZenonT(40), <3>1
    <3>2. ASSUME NEW l, StartDialing(k, l)
          PROVE  /\ d = k => worker'[d][i] \in {"dialing", "idle"}
                 /\ d # k => worker'[d] = worker[d] /\ target'[d] = target[d]
      BY ZenonT(40), <1>1, <3>2 DEF StartDialing, DialOK
    <3>3. CASE UNCHANGED target /\ worker' = [worker EXCEPT ![k] = [j \in Idx |->
                 IF sessionConns[k][j] # None THEN "run" ELSE worker[k][j]]]
      <4>1. worker'[d][i] \in {"run", worker[d][i]}
        BY ZenonT(40), <1>1, <3>3 DEF DialOK
      <4> QED BY ZenonT(40), <3>3, <4>1
    <3> QED BY ZenonT(40), <2>1, <3>1, <3>2, <3>3
  <2> QED BY ZenonT(40), <1>3, <2>2 DEF RetryInv
<1>6. ASSUME NEW k \in DialKeys, NEW i \in Idx, WorkerStep(k, i)
      PROVE  RetryInv'
  <2>1. \E q \in Workers : worker' = [worker EXCEPT ![k][i] = q]
    BY ZenonT(40), <1>6 DEF WorkerStep, DialConn, ReconnectConn, ReconnectFetched, DialConnErr,
       WorkerReturn, ReconnectCheck, ReconnectLook, ReconnectFetchErr, ReconnectSessionClosed,
       ReconnectShort, ReconnectConnErr, AttemptFailed, WorkerGoto, Workers
  <2>2. UNCHANGED target \/ \E a : target' = [target EXCEPT ![k][i] = a]
    BY ZenonT(40), <1>6 DEF WorkerStep, DialConn, ReconnectConn, ReconnectFetched, DialConnErr,
       WorkerReturn, ReconnectCheck, ReconnectLook, ReconnectFetchErr, ReconnectSessionClosed,
       ReconnectShort, ReconnectConnErr
  <2>3. ASSUME NEW d \in DialKeys, NEW j \in Idx, d # k \/ j # i
        PROVE  worker'[d][j] = worker[d][j] /\ target'[d][j] = target[d][j]
    BY SMTT(30), <1>1, <2>1, <2>2, <2>3 DEF DialOK
  <2>4. worker'[k][i] = "exit" => Stopped(k)'
    <3>1. CASE ReconnectCheck(k, i)
      <4>1. worker' = [worker EXCEPT ![k][i] = IF MustStop(k) THEN "exit" ELSE "look"]
            /\ UNCHANGED <<isClosed, sessions, ncp>>
        BY ZenonT(40), <3>1 DEF ReconnectCheck, WorkerGoto, clientVars, tableVars, ncpVars
      <4> QED BY SMTT(30), <1>1, <4>1 DEF MustStop, Stopped, DialOK
    <3>2. CASE ReconnectSessionClosed(k, i)
      <4>1. ncp' = [ncp EXCEPT ![k][gens[k]] = CloseNcp(@)] /\ UNCHANGED <<isClosed, sessions>>
        BY ZenonT(40), <3>2 DEF ReconnectSessionClosed, tableVars
      <4>2. k \in Keys /\ sessions[k] \in {0, gens[k]} /\ (gens[k] # 0 => gens[k] \in Gens)
        BY SMTT(30), <1>1, BoundAssumption DEF TableInv, LastMade, NcpOK, Keys, Gens
      <4>3. sessions[k] # 0 => ncp'[k][sessions[k]] = CloseNcp(ncp[k][sessions[k]])
        BY ZenonT(40), <1>1, <4>1, <4>2 DEF NcpOK
      <4> QED BY SMTT(30), <4>1, <4>3 DEF CloseNcp, Stopped
    <3>3. CASE ReconnectShort(k, i)
      BY SMTT(30), <3>3 DEF ReconnectShort, RetryInv
    <3>4. ASSUME AttemptFailed(k, i) PROVE worker'[k][i] = "try"
      <4>1. worker' = [worker EXCEPT ![k][i] = "try"]
        <5>1. ~(Retries >= 0)
          BY RetriesAssumption
        <5> QED BY Zenon, <3>4, <5>1 DEF AttemptFailed, WorkerGoto
      <4> QED BY SMTT(30), <1>1, <4>1 DEF DialOK
    <3>5. ASSUME NEW q \in {"dialed", "run", "nodial", "try", "fetch", "dial"},
                 worker' = [worker EXCEPT ![k][i] = q]
          PROVE  worker'[k][i] # "exit"
      BY SMTT(30), <1>1, <3>5 DEF DialOK
    <3>6. CASE WorkerReturn(k, i)
      <4>1. worker' = [worker EXCEPT ![k][i] = "try"]
        <5>1. Retries # 0
          BY RetriesAssumption
        <5> QED BY ZenonT(40), <3>6, <5>1 DEF WorkerReturn
      <4> QED BY Zenon, <3>5, <4>1
    <3>7. ASSUME \/ \E c \in Conns : DialConn(k, i, c) \/ ReconnectConn(k, i, c)
                 \/ \E l \in PubLists : ReconnectFetched(k, i, l)
                 \/ DialConnErr(k, i) \/ ReconnectLook(k, i) \/ ReconnectFetchErr(k, i)
                 \/ ReconnectConnErr(k, i)
          PROVE  worker'[k][i] # "exit"
      BY ZenonT(40), <3>4, <3>5, <3>7 DEF DialConn, ReconnectConn, ReconnectFetched, DialConnErr,
         ReconnectLook, ReconnectFetchErr, ReconnectConnErr, WorkerGoto
    <3> QED BY ZenonT(40), <1>6, <3>1, <3>2, <3>3, <3>6, <3>7 DEF WorkerStep
  <2>5. worker'[k][i] = "dial" => target'[k][i] # None
    <3>1. ASSUME NEW l \in PubLists, target' = [target EXCEPT ![k][i] = AddrAt(l, i)]
          PROVE  target'[k][i] # None
      <4>1. AddrAt(l, i) \in Addrs \cup {NoAddr}
        BY ListAssumption DEF FullLists, AddrAt
      <4>2. AddrAt(l, i) # None
        BY ZenonT(40), <4>1, AddrAssumption
      <4> QED BY ZenonT(40), <1>1, <3>1, <4>2 DEF DialOK
    <3>2. ASSUME NEW q \in {"dialed", "run", "nodial", "try", "look", "fetch", "exit"},
                 worker' = [worker EXCEPT ![k][i] = q]
          PROVE  worker'[k][i] # "dial"
      BY SMTT(30), <1>1, <3>2 DEF DialOK
    <3>3. ASSUME AttemptFailed(k, i) PROVE worker'[k][i] # "dial"
      BY Zenon, <3>2, <3>3 DEF AttemptFailed, WorkerGoto
    <3>4. CASE ReconnectLook(k, i)
      <4>1. CASE /\ CacheHit(RemoteOf[k])
                 /\ target' = [target EXCEPT ![k][i] = AddrAt(pubAddrs[RemoteOf[k]], i)]
        <5>1. pubAddrs[RemoteOf[k]] \in PubLists
          BY SMTT(30), <1>1, <4>1, KeyAssumption DEF CacheHit, AddrsOK, Keys
        <5> QED BY ZenonT(40), <3>1, <4>1, <5>1
      <4> QED BY ZenonT(40), <3>2, <3>3, <3>4, <4>1 DEF ReconnectLook, WorkerGoto
    <3>5. ASSUME NEW l \in PubLists, ReconnectFetched(k, i, l)
          PROVE  target'[k][i] # None
      BY ZenonT(40), <3>1, <3>5 DEF ReconnectFetched
    <3>6. ASSUME \/ \E c \in Conns : DialConn(k, i, c) \/ ReconnectConn(k, i, c)
                 \/ DialConnErr(k, i) \/ WorkerReturn(k, i) \/ ReconnectCheck(k, i)
                 \/ ReconnectFetchErr(k, i) \/ ReconnectSessionClosed(k, i)
                 \/ ReconnectShort(k, i) \/ ReconnectConnErr(k, i)
          PROVE  worker'[k][i] # "dial"
      BY ZenonT(40), <3>2, <3>3, <3>6 DEF DialConn, ReconnectConn, DialConnErr, WorkerReturn,
         ReconnectCheck, ReconnectFetchErr, ReconnectSessionClosed, ReconnectShort,
         ReconnectConnErr, WorkerGoto
    <3> QED BY ZenonT(40), <1>6, <3>4, <3>5, <3>6 DEF WorkerStep
  <2> QED BY SMTT(30), <1>3, <2>3, <2>4, <2>5 DEF RetryInv
<1> QED BY ZenonT(40), <1>4, <1>5, <1>6 DEF Next, DialNext, vars

\* With unlimited retries, and answers that have an entry for every index, the
\* goroutine of an index stops only for a session that is gone or closing, or
\* for a closed client.
THEOREM RetriesUnlimitedHolds ==
  ASSUME Retries < 0, FullLists
  PROVE  Spec => []RetriesUnlimited
<1>1. Init => RetryInv
  BY DEF Init, RetryInv
<1>2. TypeInv /\ TableInv /\ DialInv /\ RetryInv /\ [Next]_vars => RetryInv'
  BY ZenonT(40), NextRetry
<1>3. RetryInv => RetriesUnlimited
  BY DEF RetryInv, Stopped, RetriesUnlimited
<1> QED BY <1>1, <1>2, <1>3, DialInvariant, PTL DEF Spec
=============================================================================
