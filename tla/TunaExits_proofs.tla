-------------------------- MODULE TunaExits_proofs --------------------------
(***************************************************************************)
(* The tuna exits of a listener, and a dialer's request for their public   *)
(* addresses.  The two share no state and no name.                         *)
(***************************************************************************)
EXTENDS TunaExits, PubAddrRequest, TLAPS

-----------------------------------------------------------------------------
(***************************************************************************)
(* Until Close, every exit that runs has exactly one owner: a place of     *)
(* c.tunaExits, of the slice startExits fills, or a rotation.  For any     *)
(* number of listeners, exits and overlapping rotations.                   *)
(***************************************************************************)

\* a rotation that has no exit, and one that still has an index to go to
RotatorsOK ==
  \A r \in Rotators :
    /\ rot[r] \in {"idle", "next"} => rte[r] = None
    /\ rot[r] = "next" => ri[r] < NumTunaListeners

\* c.tunaExits is assigned once, after the listeners, and made filled in order
AssignedOnce ==
  /\ main # "idle" => tunaExits = Nil
  /\ main # "idle" /\ next > 0 => listeners
  /\ main # "idle" => \A i \in Idx : i >= next => made[i] = None
  /\ tunaExits # Nil => listeners

\* what is held runs
OwnedRun ==
  /\ \A i \in Idx : tunaExits[i] \in run \cup {None}
  /\ main # "idle" => \A i \in Idx : made[i] \in run \cup {None}
  /\ \A r \in Rotators : rte[r] \in run \cup {None}

\* nothing is held twice
OwnedOnce ==
  /\ \A i, j \in Idx : tunaExits[i] = tunaExits[j] /\ i # j => tunaExits[i] = None
  /\ main # "idle" => \A i, j \in Idx : made[i] = made[j] /\ i # j => made[i] = None
  /\ \A r, s \in Rotators : rte[r] = rte[s] /\ r # s => rte[r] = None
  /\ \A i \in Idx, r \in Rotators : tunaExits[i] = rte[r] => rte[r] = None
  /\ main # "idle" => \A i \in Idx, r \in Rotators : made[i] = rte[r] => rte[r] = None

Owned == ~isClosed => AssignedOnce /\ OwnedRun /\ OwnedOnce

ExitsInv == TypeOK /\ RotatorsOK /\ Owned /\ NoExitLost

\* Init satisfies the invariant.
LEMMA InitExits == Init => ExitsInv
<1> SUFFICES ASSUME Init
             PROVE  ExitsInv
  OBVIOUS
<1>1. TypeOK
  <2>1. next \in 0 .. NumTunaListeners + 1 /\ 1 \in Idx
    BY ExitsAssumption DEF Init, Idx
  <2> QED BY Zenon, <2>1 DEF Init, TypeOK, Nil
<1>2. RotatorsOK /\ NoExitLost
  BY DEF Init, RotatorsOK, NoExitLost
<1>3. Owned
  BY DEF Init, Owned, AssignedOnce, OwnedRun, OwnedOnce, Nil
<1> QED BY <1>1, <1>2, <1>3 DEF ExitsInv

\* A rotation that starts an exit becomes its owner.
LEMMA RotatingExits ==
  ASSUME ExitsInv, NEW r \in Rotators, NEW i \in Idx, NEW all \in BOOLEAN, NEW e \in Exits,
         Rotating(r, i, all, e), rot[r] \in {"idle", "next"}
  PROVE  ExitsInv'
<1>1. e \notin used /\ e # None /\ rte[r] = None
  BY ExitsAssumption DEF Rotating, Fresh, ExitsInv, RotatorsOK
<1>2. /\ rte' = [rte EXCEPT ![r] = e]
      /\ run' = run \cup {e}
      /\ UNCHANGED <<startVars, clientVars>>
  BY DEF Rotating
<1>3. TypeOK'
  BY DEF Rotating, Fresh, ExitsInv, TypeOK, startVars, clientVars, waitVars
<1>4. RotatorsOK'
  BY DEF Rotating, ExitsInv, TypeOK, RotatorsOK
<1>5. run \subseteq used /\ rte \in [Rotators -> Exits \cup {None}]
  BY DEF ExitsInv, TypeOK
<1>6. ASSUME ~isClosed'
      PROVE  AssignedOnce' /\ OwnedRun' /\ OwnedOnce'
  <2>1. AssignedOnce /\ OwnedRun /\ OwnedOnce
    BY <1>2, <1>6 DEF ExitsInv, Owned, clientVars
  <2>2. AssignedOnce'
    BY <1>2, <2>1 DEF AssignedOnce, startVars, clientVars
  <2>3. OwnedRun'
    BY <1>2, <1>5, <2>1 DEF OwnedRun, startVars, clientVars
  <2>4. OwnedOnce'
    BY <1>1, <1>2, <1>5, <2>1 DEF OwnedRun, OwnedOnce, startVars, clientVars
  <2> QED BY <2>2, <2>3, <2>4
<1>7. NoExitLost'
  <2>1. Installed' = Installed
    BY <1>2 DEF Installed, clientVars
  <2>2. Held \subseteq Held' \cup {None} /\ e \in Held'
    BY <1>1, <1>2, <1>5 DEF Held, startVars
  <2>3. None \notin run
    BY ExitsAssumption DEF ExitsInv, TypeOK
  <2> QED BY <1>2, <2>1, <2>2, <2>3 DEF ExitsInv, NoExitLost, startVars, clientVars
<1> QED BY <1>3, <1>4, <1>6, <1>7 DEF ExitsInv, Owned

\* A rotation that installs its exit hands it over and closes the old one.
LEMMA RotateSwapExits ==
  ASSUME ExitsInv, NEW r \in Rotators, RotateSwap(r)
  PROVE  ExitsInv'
<1>1. CASE tunaExits = Nil
  <2>1. rot' = [rot EXCEPT ![r] = "panic"] /\ UNCHANGED <<run, tunaExits, rte>>
    BY Zenon, <1>1 DEF RotateSwap
  <2>2. UNCHANGED <<startVars, listeners, udpSess, isClosed, used, conn, waitVars, ri, rall>>
    BY DEF RotateSwap
  <2>3. TypeOK'
    BY <2>1, <2>2 DEF ExitsInv, TypeOK, startVars, waitVars
  <2>4. RotatorsOK'
    BY <2>1, <2>2 DEF ExitsInv, TypeOK, RotatorsOK
  <2>5. Owned' /\ NoExitLost'
    BY <2>1, <2>2 DEF ExitsInv, Owned, AssignedOnce, OwnedRun, OwnedOnce, NoExitLost, Installed,
       Held, startVars
  <2> QED BY <2>3, <2>4, <2>5 DEF ExitsInv
<1>2. CASE tunaExits # Nil
  <2>1. /\ tunaExits' = [tunaExits EXCEPT ![ri[r]] = rte[r]]
        /\ run' = run \ {tunaExits[ri[r]]}
        /\ rot' = [rot EXCEPT ![r] = IF More(r) THEN "next" ELSE "idle"]
        /\ rte' = [rte EXCEPT ![r] = None]
    BY Zenon, <1>2 DEF RotateSwap, WithoutOld
  <2>2. UNCHANGED <<startVars, listeners, udpSess, isClosed, used, conn, waitVars, ri, rall>>
    BY DEF RotateSwap
  <2>3. /\ ri[r] \in Idx
        /\ tunaExits \in [Idx -> Exits \cup {None}]
        /\ rte \in [Rotators -> Exits \cup {None}]
        /\ rot \in [Rotators -> {"idle", "wait", "next", "panic"}]
        /\ run \subseteq used
        /\ used \subseteq Exits
    BY DEF ExitsInv, TypeOK
  <2>4. TypeOK'
    BY <2>1, <2>2, <2>3 DEF ExitsInv, TypeOK, startVars, waitVars
  <2>5. RotatorsOK'
    BY <2>1, <2>2, <2>3 DEF ExitsInv, RotatorsOK, More
  <2>6. ASSUME ~isClosed'
        PROVE  AssignedOnce' /\ OwnedRun' /\ OwnedOnce'
    <3>1. AssignedOnce /\ OwnedRun /\ OwnedOnce
      BY <2>2, <2>6 DEF ExitsInv, Owned
    <3>2. main = "idle" /\ main' = "idle" /\ listeners'
      BY <1>2, <2>2, <3>1 DEF AssignedOnce, startVars
    <3>3. AssignedOnce'
      BY <3>2 DEF AssignedOnce
    <3>4. OwnedRun'
      BY <2>1, <2>3, <3>1, <3>2 DEF OwnedRun, OwnedOnce
    <3>5. OwnedOnce'
      BY <2>1, <2>3, <3>1, <3>2 DEF OwnedOnce
    <3> QED BY <3>3, <3>4, <3>5
  <2>7. NoExitLost'
    <3> SUFFICES ASSUME ~failed, ~isClosed, NEW e \in run, e # tunaExits[ri[r]]
                 PROVE  e \in Installed' \cup Held'
      BY <2>1, <2>2 DEF NoExitLost, startVars
    <3>1. main = "idle" /\ main' = "idle"
      BY <1>2, <2>2 DEF ExitsInv, Owned, AssignedOnce, startVars
    <3>2. e # None
      BY <2>3, ExitsAssumption
    <3>3. e \in Installed \cup Held
      BY DEF ExitsInv, NoExitLost
    <3>4. CASE e \in Installed
      BY <2>1, <2>3, <3>4 DEF Installed
    <3>5. CASE \E s \in Rotators : e = rte[s]
      BY <2>1, <2>3, <3>2, <3>5 DEF Installed, Held
    <3> QED BY <3>1, <3>3, <3>4, <3>5 DEF Held
  <2> QED BY <2>2, <2>4, <2>5, <2>6, <2>7 DEF ExitsInv, Owned
<1> QED BY <1>1, <1>2

\* startExits owns the exit it starts.
LEMMA StartExitExits ==
  ASSUME ExitsInv, NEW e \in Exits, StartExit(e)
  PROVE  ExitsInv'
<1>1. /\ main # "idle" /\ next \in Idx /\ e \notin used
      /\ made' = [made EXCEPT ![next] = e]
      /\ next' = next + 1
      /\ used' = used \cup {e}
      /\ run' = run \cup {e}
      /\ watch' = watch \cup {e}
      /\ UNCHANGED <<main, failed, clientVars, conn, onConnect, serve, rotVars>>
  BY DEF StartExit, Fresh
<1>2. made \in [Idx -> Exits \cup {None}] /\ run \subseteq used /\ e # None
  BY ExitsAssumption DEF ExitsInv, TypeOK
<1>3. TypeOK'
  BY <1>1, <1>2, ExitsAssumption DEF ExitsInv, TypeOK, Idx, clientVars, rotVars
<1>4. RotatorsOK'
  BY <1>1 DEF ExitsInv, RotatorsOK, rotVars
<1>5. ASSUME ~isClosed'
      PROVE  AssignedOnce' /\ OwnedRun' /\ OwnedOnce'
  <2>1. AssignedOnce /\ OwnedRun /\ OwnedOnce
    BY <1>1, <1>5 DEF ExitsInv, Owned, clientVars
  <2>2. AssignedOnce'
    BY <1>1, <1>2, <2>1, ExitsAssumption DEF AssignedOnce, clientVars, Idx
  <2>3. OwnedRun'
    BY <1>1, <1>2, <2>1 DEF OwnedRun, clientVars, rotVars
  <2>4. OwnedOnce'
    BY <1>1, <1>2, <2>1 DEF OwnedRun, OwnedOnce, clientVars, rotVars
  <2> QED BY <2>2, <2>3, <2>4
<1>6. NoExitLost'
  <2> SUFFICES ASSUME ~failed, ~isClosed, NEW x \in run \cup {e}
               PROVE  x \in Installed' \cup Held'
    BY <1>1 DEF NoExitLost, clientVars
  <2>1. CASE x = e
    BY <1>1, <1>2, <2>1 DEF Held
  <2>2. CASE x \in run
    <3>1. x \in Installed \cup Held
      BY <2>2 DEF ExitsInv, NoExitLost
    <3>2. CASE x \in Installed
      BY <1>1, <3>2 DEF Installed, clientVars
    <3>3. CASE \E s \in Rotators : x = rte[s]
      BY <1>1, <3>3 DEF Held, rotVars
    <3>4. CASE \E i \in Idx : x = made[i]
      <4>1. PICK i \in Idx : x = made[i]
        BY <3>4
      <4>2. CASE i # next
        BY <1>1, <1>2, <4>1, <4>2 DEF Held
      <4>3. CASE i = next
        <5>1. made[next] = None
          BY <1>1, ExitsAssumption DEF ExitsInv, Owned, AssignedOnce, Idx
        <5> QED BY <1>2, <2>2, <4>1, <4>3, <5>1, ExitsAssumption DEF ExitsInv, TypeOK
      <4> QED BY <4>2, <4>3
    <3> QED BY <3>1, <3>2, <3>3, <3>4 DEF Held
  <2> QED BY <2>1, <2>2
<1> QED BY <1>3, <1>4, <1>5, <1>6 DEF ExitsInv, Owned

\* startExits hands its exits over when it is done.
LEMMA StartDoneExits ==
  ASSUME ExitsInv, StartDone
  PROVE  ExitsInv'
<1>1. /\ main # "idle" /\ main' = "idle"
      /\ tunaExits' = made
      /\ UNCHANGED <<next, made, failed, listeners, udpSess, isClosed, exitVars, watch,
                     onConnect, rotVars>>
  BY DEF StartDone
<1>2. next > 0
  BY ExitsAssumption DEF StartDone
<1>3. TypeOK'
  BY <1>1 DEF StartDone, ExitsInv, TypeOK, exitVars, rotVars
<1>4. RotatorsOK'
  BY <1>1 DEF ExitsInv, RotatorsOK, rotVars
<1>5. ASSUME ~isClosed'
      PROVE  AssignedOnce' /\ OwnedRun' /\ OwnedOnce'
  <2>1. AssignedOnce /\ OwnedRun /\ OwnedOnce
    BY <1>1, <1>5 DEF ExitsInv, Owned
  <2>2. AssignedOnce'
    BY <1>1, <1>2, <2>1 DEF AssignedOnce
  <2>3. OwnedRun' /\ OwnedOnce'
    BY <1>1, <2>1 DEF OwnedRun, OwnedOnce, exitVars, rotVars
  <2> QED BY <2>2, <2>3
<1>6. NoExitLost'
  <2> SUFFICES ASSUME ~failed, ~isClosed, NEW e \in run
               PROVE  e \in Installed' \cup Held'
    BY <1>1 DEF NoExitLost, exitVars
  <2>1. Installed = {}
    BY <1>1 DEF ExitsInv, Owned, AssignedOnce, Installed, Nil
  <2>2. e \in Held /\ e # None
    BY <2>1, ExitsAssumption DEF ExitsInv, TypeOK, NoExitLost
  <2> QED BY <1>1, <2>2 DEF Held, Installed, rotVars
<1> QED BY <1>3, <1>4, <1>5, <1>6 DEF ExitsInv, Owned

\* Listen and ListenUDP start with an empty slice where c.tunaExits is nil.
LEMMA BeginExits ==
  ASSUME ExitsInv, Listen \/ ListenUDP
  PROVE  ExitsInv'
<1>1. /\ main = "idle"
      /\ UNCHANGED <<failed, listeners, tunaExits, isClosed, exitVars, waitVars, rotVars>>
  BY DEF Listen, ListenUDP, clientVars
<1>2. \/ UNCHANGED <<main, next, made>>
      \/ /\ tunaExits = Nil \/ ~listeners
         /\ main' # "idle" /\ next' = 0 /\ made' = Nil
  BY DEF Listen, ListenUDP, Begin
<1>3. TypeOK'
  <2>1. /\ main' \in {"idle", "Listen", "ListenUDP"}
        /\ next' \in 0 .. NumTunaListeners + 1
        /\ made' \in [Idx -> Exits \cup {None}]
    BY ExitsAssumption DEF Listen, ListenUDP, Begin, ExitsInv, TypeOK, Nil
  <2>2. udpSess' \in BOOLEAN
    BY Zenon DEF Listen, ListenUDP, ExitsInv, TypeOK, clientVars
  <2> QED BY Zenon, <1>1, <2>1, <2>2 DEF ExitsInv, TypeOK, exitVars, waitVars, rotVars
<1>4. RotatorsOK'
  BY <1>1 DEF ExitsInv, RotatorsOK, rotVars
<1>5. ASSUME ~isClosed'
      PROVE  AssignedOnce' /\ OwnedRun' /\ OwnedOnce'
  <2>1. AssignedOnce /\ OwnedRun /\ OwnedOnce
    BY <1>1, <1>5 DEF ExitsInv, Owned
  <2>2. AssignedOnce'
    BY <1>1, <1>2, <2>1 DEF AssignedOnce, Nil
  <2>3. OwnedRun' /\ OwnedOnce'
    BY <1>1, <1>2, <2>1 DEF OwnedRun, OwnedOnce, Nil, exitVars, rotVars
  <2> QED BY <2>2, <2>3
<1>6. NoExitLost'
  <2>1. Installed' = Installed /\ Held \subseteq Held'
    BY <1>1 DEF Installed, Held, rotVars
  <2> QED BY <1>1, <2>1 DEF ExitsInv, NoExitLost, exitVars
<1> QED BY <1>3, <1>4, <1>5, <1>6 DEF ExitsInv, Owned

\* The other steps neither start an exit nor move one, or end what is claimed.
LEMMA NextExits ==
  ASSUME ExitsInv, [Next]_vars
  PROVE  ExitsInv'
<1>1. CASE Listen \/ ListenUDP
  BY <1>1, BeginExits
<1>2. CASE StartErr
  <2>1. TypeOK'
    BY <1>2 DEF StartErr, ExitsInv, TypeOK, clientVars, exitVars, waitVars, rotVars
  <2>2. RotatorsOK'
    BY <1>2 DEF StartErr, ExitsInv, RotatorsOK, rotVars
  <2>3. Owned'
    BY <1>2 DEF StartErr, ExitsInv, Owned, AssignedOnce, OwnedRun, OwnedOnce, clientVars,
       exitVars, rotVars
  <2>4. NoExitLost'
    BY <1>2 DEF StartErr, NoExitLost
  <2> QED BY <2>1, <2>2, <2>3, <2>4 DEF ExitsInv
<1>3. CASE StartListeners
  <2>1. TypeOK'
    BY <1>3, ExitsAssumption DEF StartListeners, ExitsInv, TypeOK, exitVars, waitVars, rotVars
  <2>2. RotatorsOK'
    BY <1>3 DEF StartListeners, ExitsInv, RotatorsOK, rotVars
  <2>3. Owned'
    BY <1>3 DEF StartListeners, ExitsInv, Owned, AssignedOnce, OwnedRun, OwnedOnce, Idx,
       exitVars, rotVars
  <2>4. NoExitLost'
    BY <1>3 DEF StartListeners, ExitsInv, NoExitLost, Installed, Held, exitVars, rotVars
  <2> QED BY <2>1, <2>2, <2>3, <2>4 DEF ExitsInv
<1>4. CASE StartDone
  BY <1>4, StartDoneExits
<1>5. ASSUME NEW e \in Exits, StartExit(e)
      PROVE  ExitsInv'
  BY <1>5, StartExitExits
<1>6. CASE Serving \/ (\E e \in Exits : Connect(e) \/ Waiting(e)) \/ UNCHANGED vars
  <2>1. UNCHANGED <<startVars, clientVars, used, run, rotVars>>
    BY <1>6 DEF Serving, ServeOn, ServeClosed, Connect, Waiting, WatchConnected, WatchClosed,
       exitVars, vars
  <2>2. conn' \subseteq used' /\ watch' \subseteq used'
    BY <1>6, <2>1 DEF Serving, ServeOn, ServeClosed, Connect, Waiting, WatchConnected, WatchClosed,
       exitVars, waitVars, vars, ExitsInv, TypeOK
  <2>3. onConnect' \in BOOLEAN /\ serve' \in {"off", "wait", "on", "gone"}
    BY Zenon, <1>6 DEF Serving, ServeOn, ServeClosed, Connect, Waiting, WatchConnected,
       WatchClosed, waitVars, vars, ExitsInv, TypeOK
  <2>4. TypeOK'
    BY Zenon, <2>1, <2>2, <2>3 DEF ExitsInv, TypeOK, startVars, clientVars, rotVars
  <2>5. RotatorsOK' /\ NoExitLost'
    BY <2>1 DEF ExitsInv, RotatorsOK, NoExitLost, Installed, Held, startVars, clientVars, rotVars
  <2>6. Owned'
    BY <2>1 DEF ExitsInv, Owned, AssignedOnce, OwnedRun, OwnedOnce, startVars, clientVars,
       rotVars
  <2> QED BY <2>4, <2>5, <2>6 DEF ExitsInv
<1>7. CASE Close
  <2>1. TypeOK'
    BY <1>7 DEF Close, ExitsInv, TypeOK, startVars, waitVars, rotVars
  <2>2. RotatorsOK'
    BY <1>7 DEF Close, ExitsInv, RotatorsOK, rotVars
  <2>3. Owned' /\ NoExitLost'
    BY <1>7 DEF Close, Owned, NoExitLost
  <2> QED BY <2>1, <2>2, <2>3 DEF ExitsInv
<1>8. ASSUME NEW r \in Rotators, RotateErr(r)
      PROVE  ExitsInv'
  <2>1. /\ rot' = [rot EXCEPT ![r] = "idle"]
        /\ rot[r] = "next"
        /\ UNCHANGED <<startVars, clientVars, exitVars, waitVars, rte, ri, rall>>
    BY <1>8 DEF RotateErr
  <2>2. TypeOK'
    BY <2>1 DEF ExitsInv, TypeOK, startVars, clientVars, exitVars, waitVars
  <2>3. RotatorsOK'
    BY ZenonT(40), <2>1 DEF ExitsInv, TypeOK, RotatorsOK
  <2>4. Owned' /\ NoExitLost'
    BY <2>1 DEF ExitsInv, Owned, AssignedOnce, OwnedRun, OwnedOnce, NoExitLost, Installed, Held,
       startVars, clientVars, exitVars
  <2> QED BY <2>2, <2>3, <2>4 DEF ExitsInv
<1>9. ASSUME NEW r \in Rotators, RotateSwap(r)
      PROVE  ExitsInv'
  BY <1>9, RotateSwapExits
<1>10. ASSUME NEW r \in Rotators, NEW e \in Exits, RotateNext(r, e)
       PROVE  ExitsInv'
  <2>1. rot[r] = "next" /\ Rotating(r, ri[r] + 1, TRUE, e)
    BY Zenon, <1>10 DEF RotateNext
  <2>2. ri[r] + 1 \in Idx
    BY <2>1, ExitsAssumption DEF ExitsInv, TypeOK, RotatorsOK, Idx
  <2> QED BY Zenon, <2>1, <2>2, RotatingExits
<1>11. ASSUME NEW r \in Rotators, NEW e \in Exits, NEW i \in Idx, NEW all \in BOOLEAN,
              Rotate(r, i, all, e)
       PROVE  ExitsInv'
  BY <1>11, RotatingExits DEF Rotate
<1> QED BY Zenon, <1>1, <1>2, <1>3, <1>4, <1>5, <1>6, <1>7, <1>8, <1>9, <1>10, <1>11 DEF Next

\* The invariant holds in every reachable state.
LEMMA ExitsInvariant == Spec => []ExitsInv
<1> QED BY InitExits, NextExits, PTL DEF Spec

\* Every variable of the exits has the values its Go counterpart can have: no
\* rotation leaves the indices of c.tunaExits.
THEOREM ExitsTypes == Spec => []TypeOK
<1>1. ExitsInv => TypeOK
  BY DEF ExitsInv
<1> QED BY <1>1, ExitsInvariant, PTL

\* No rotation, however many overlap, loses an exit that runs.
THEOREM NoExitLostHolds == Spec => []NoExitLost
<1>1. ExitsInv => NoExitLost
  BY DEF ExitsInv
<1> QED BY <1>1, ExitsInvariant, PTL

\* No rotation closes an exit that is installed.
THEOREM InstalledRunHolds == Spec => []InstalledRun
<1>1. ExitsInv => InstalledRun
  BY DEF ExitsInv, Owned, OwnedRun, InstalledRun, Installed
<1> QED BY <1>1, ExitsInvariant, PTL

-----------------------------------------------------------------------------
\* until startExits fails, c.tunaExits is filled whenever c.Lock is free and the
\* listeners are there, which a rotation has seen
Filled ==
  ~failed =>
    /\ main # "ListenUDP"
    /\ main = "idle" /\ listeners => tunaExits # Nil
    /\ main = "Listen" => \A i \in Idx : i < next => made[i] # None
    /\ \A r \in Rotators : rot[r] = "wait" => listeners
    /\ \A r \in Rotators : rot[r] # "panic"

\* No rotation meets the nil slice while startExits has not failed.
THEOREM RotateReplacesHolds == Spec => []RotateReplaces
<1>1. Init => Filled
  BY DEF Init, Filled
<1>2. ASSUME ExitsInv, Filled, [Next]_vars
      PROVE  Filled'
  <2> SUFFICES ASSUME ~failed, ~failed'
               PROVE  Filled'
    <3>1. failed => failed'
      BY Zenon, <1>2 DEF Next, Listen, ListenUDP, StartErr, StartListeners, StartDone, Serving, ServeOn,
         ServeClosed, Close, StartExit, Connect, Waiting, WatchConnected, WatchClosed, RotateErr,
         RotateSwap, RotateNext, Rotate, Rotating, startVars, vars
    <3> QED BY <3>1 DEF Filled
  <2>1. CASE Listen \/ ListenUDP
    BY <1>2, <2>1, ExitsAssumption DEF Listen, ListenUDP, Begin, Filled, Idx, clientVars, rotVars
  <2>2. CASE StartListeners
    BY <1>2, <2>2, ExitsAssumption DEF StartListeners, Filled, Idx, rotVars
  <2>3. CASE StartDone
    <3>1. 1 \in Idx /\ 1 < next
      BY <2>3, ExitsAssumption DEF StartDone, Idx
    <3>2. main = "Listen" /\ made[1] # None
      BY <1>2, <2>3, <3>1 DEF StartDone, Filled, ExitsInv, TypeOK
    <3>3. tunaExits' # Nil
      BY <2>3, <3>1, <3>2 DEF StartDone, Nil
    <3> QED BY <1>2, <2>3, <3>3 DEF StartDone, Filled, Nil, rotVars
  <2>4. ASSUME NEW e \in Exits, StartExit(e)
        PROVE  Filled'
    BY <1>2, <2>4, ExitsAssumption
       DEF StartExit, Filled, ExitsInv, TypeOK, Idx, Nil, clientVars, rotVars
  <2>5. CASE \/ Serving \/ Close \/ UNCHANGED vars
             \/ \E e \in Exits : Connect(e) \/ Waiting(e)
    <3>1. UNCHANGED <<main, next, made, listeners, tunaExits, rot>>
      BY Zenon, <2>5 DEF Serving, ServeOn, ServeClosed, Close, Connect, Waiting, WatchConnected,
         WatchClosed, startVars, clientVars, rotVars, vars
    <3> QED BY <1>2, <3>1 DEF Filled, Nil
  <2>6. ASSUME NEW r \in Rotators, RotateErr(r)
        PROVE  Filled'
    BY <1>2, <2>6 DEF RotateErr, Filled, ExitsInv, TypeOK, Nil, startVars, clientVars
  <2>7. ASSUME NEW r \in Rotators, RotateSwap(r)
        PROVE  Filled'
    <3>1. tunaExits # Nil /\ main = "idle"
      BY <1>2, <2>7 DEF RotateSwap, Unlocked, Filled, ExitsInv, TypeOK
    <3>2. /\ tunaExits' = [tunaExits EXCEPT ![ri[r]] = rte[r]]
          /\ rot' = [rot EXCEPT ![r] = IF More(r) THEN "next" ELSE "idle"]
          /\ UNCHANGED <<startVars, listeners>>
      BY Zenon, <2>7, <3>1 DEF RotateSwap
    <3>3. ri[r] \in Idx /\ rte[r] # None
      BY <1>2, <2>7, ExitsAssumption DEF RotateSwap, ExitsInv, TypeOK
    <3>4. tunaExits' # Nil
      BY <1>2, <3>2, <3>3 DEF Nil, ExitsInv, TypeOK
    <3> QED BY <1>2, <3>1, <3>2, <3>4 DEF Filled, ExitsInv, TypeOK, Nil, startVars
  <2>8. ASSUME NEW r \in Rotators, NEW e \in Exits,
               RotateNext(r, e) \/ \E i \in Idx, all \in BOOLEAN : Rotate(r, i, all, e)
        PROVE  Filled'
    <3>1. /\ listeners
          /\ rot' = [rot EXCEPT ![r] = "wait"]
          /\ UNCHANGED <<startVars, clientVars>>
      BY Zenon, <2>8 DEF RotateNext, Rotate, Rotating
    <3> QED BY <1>2, <3>1 DEF Filled, ExitsInv, TypeOK, Nil, startVars, clientVars
  <2> QED BY Zenon, <1>2, <2>1, <2>2, <2>3, <2>4, <2>5, <2>6, <2>7, <2>8 DEF Next, StartErr
<1>3. Filled => RotateReplaces
  BY DEF Filled, RotateReplaces
<1> QED BY <1>1, <1>2, <1>3, ExitsInvariant, PTL DEF Spec

-----------------------------------------------------------------------------
(***************************************************************************)
(* getPubAddrsFromRemote, for any number of attempts: it never returns     *)
(* nothing, leaves no goroutine behind, and keeps the promise stated in    *)
(* PubAddrFetch.                                                           *)
(***************************************************************************)

\* doneCancel is called after a message was put into the channel
CancelledByAnswer == doneCtx => msgChan # Null

\* a goroutine leaves because of a context or behind an error
LeftFor == \A i \in Attempts : g[i] = "exit" => ctx \/ doneCtx \/ errChan

\* every entry of a list was offered at its place
FromPeer(m) == m \in AllLists => \A j \in Places : m[j] \in offered[j]

\* what the peer has now, once its session was seen open
NowOffered ==
  \A j \in Places : ~closed \/ offered[j] # {} => exits[j] \in offered[j]

\* listenNKN has seen the session open, and what it has read was offered
Reading ==
  /\ serving = Null => place = 1
  /\ serving # Null => \A j \in Places : offered[j] # {}
  /\ \A j \in Places : j < place => answer[j] \in offered[j]

\* a list that is on its way or in the channel was offered
Underway == (\A i \in Attempts : FromPeer(replies[i])) /\ FromPeer(msgChan)

\* there is a result only after the call
NoResultYet == err = "none" => result = Null

CallInv == CancelledByAnswer /\ LeftFor /\ NeverNothing /\ NoneLeft /\ NoResultYet

RequestInv == RequestTypeOK /\ CallInv /\ NowOffered /\ Reading /\ Underway

\* the call starts with everything empty
LEMMA InitRequest == RequestInit => RequestInv
<1> SUFFICES ASSUME RequestInit PROVE RequestInv
  OBVIOUS
<1>1. RequestTypeOK
  <2>1. 1 \in Places /\ NoEntries \in AllLists
    BY RequestAssumption DEF Places, NoEntries, AllLists, Entries
  <2>2. offered \in [Places -> SUBSET Entries]
    BY DEF RequestInit, AllLists
  <2> QED BY <2>1, <2>2 DEF RequestInit, RequestTypeOK
<1>2. CallInv
  BY DEF RequestInit, CallInv, CancelledByAnswer, LeftFor, NoneLeft, NeverNothing, NoResultYet
<1>3. NowOffered /\ Reading
  BY DEF RequestInit, NowOffered, Reading, Places
<1>4. Underway
  BY RequestAssumption DEF RequestInit, Underway, FromPeer, Answers
<1> QED BY <1>1, <1>2, <1>3, <1>4 DEF RequestInv

\* a goroutine that returns has a reason to, and none returns after the call
LEMMA ExitRequest ==
  ASSUME RequestInv, NEW i \in Attempts, g[i] # "exit", Exit(i),
         ctx' = ctx, result' = result, err' = err, doneCtx => doneCtx', errChan => errChan',
         ctx \/ doneCtx' \/ errChan'
  PROVE  LeftFor' /\ NeverNothing' /\ NoneLeft' /\ NoResultYet'
<1>1. LeftFor'
  BY DEF RequestInv, CallInv, RequestTypeOK, Exit, LeftFor
<1>2. NeverNothing' /\ NoneLeft' /\ NoResultYet'
  BY DEF RequestInv, CallInv, NeverNothing, NoneLeft, NoResultYet
<1> QED BY <1>1, <1>2

\* a step that leaves the peer and listenNKN alone, and brings no list
LEMMA StillOffered ==
  ASSUME RequestInv, UNCHANGED <<listenVars, peerVars>>,
         msgChan' = msgChan \/ \E i \in Attempts : msgChan' = replies[i],
         \A i \in Attempts : replies'[i] \in {replies[i], Null, SessionClosed, Garbled}
  PROVE  NowOffered' /\ Reading' /\ Underway'
<1>1. NowOffered' /\ Reading'
  BY DEF RequestInv, NowOffered, Reading, listenVars, peerVars
<1>2. offered' = offered
  BY DEF peerVars
<1>3. \A m \in {Null, SessionClosed, Garbled} : m \notin AllLists
  BY RequestAssumption DEF Answers
<1>4. FromPeer(msgChan)'
  BY <1>2 DEF RequestInv, Underway, FromPeer
<1>5. ASSUME NEW i \in Attempts PROVE FromPeer(replies[i])'
  BY <1>2, <1>3 DEF RequestInv, Underway, FromPeer
<1> QED BY <1>1, <1>4, <1>5 DEF Underway

\* Return: no message means no doneCancel, so an error or the context is left
LEMMA ReturnRequest ==
  ASSUME RequestInv, Return
  PROVE  \/ msgChan \in Lists /\ err' = "nil" /\ result' = msgChan /\ pubAddrs' = msgChan
         \/ msgChan \notin Lists /\ err' \in Errors /\ result' = Null /\ pubAddrs' = pubAddrs
<1>1. msgChan \in Answers \cup {Null} /\ Null \notin Answers /\ Lists \subseteq AllLists
  BY RequestAssumption DEF RequestInv, RequestTypeOK, Lists
<1>2. \A m \in {Null, SessionClosed, Garbled} : m \notin AllLists
  BY RequestAssumption DEF Answers
<1>3. CASE msgChan \in Lists
  BY <1>1, <1>2, <1>3 DEF Return, Outcome
<1>4. CASE msgChan \notin Lists /\ msgChan # Null
  BY <1>4 DEF Return, Outcome, Errors
<1>5. CASE msgChan = Null
  <2>1. PICK i \in Attempts : g[i] = "exit"
    BY RequestAssumption DEF Return, Waited
  <2>2. errChan \/ ctx
    BY <1>5, <2>1 DEF RequestInv, CallInv, LeftFor, CancelledByAnswer
  <2> QED BY <1>1, <1>2, <1>5, <2>2 DEF Return, Errors
<1> QED BY <1>3, <1>4, <1>5

\* the steps of an attempt
LEMMA AttemptRequest ==
  ASSUME RequestInv, NEW i \in Attempts, Attempt(i)
  PROVE  RequestInv'
<1>1. CASE GiveUp(i) \/ Cancelled(i)
  <2>1. RequestTypeOK'
    BY <1>1 DEF RequestInv, GiveUp, Cancelled, Exit, RequestTypeOK, listenVars, peerVars
  <2>2. LeftFor' /\ NeverNothing' /\ NoneLeft' /\ NoResultYet'
    BY <1>1, ExitRequest DEF GiveUp, Cancelled, Done
  <2>3. NowOffered' /\ Reading' /\ Underway'
    BY <1>1, StillOffered DEF GiveUp, Cancelled, RequestInv, RequestTypeOK
  <2> QED BY <1>1, <2>1, <2>2, <2>3 DEF GiveUp, Cancelled, RequestInv, CallInv, CancelledByAnswer
<1>2. CASE SendOk(i)
  <2>1. RequestTypeOK'
    BY <1>2 DEF RequestInv, SendOk, RequestTypeOK, listenVars, peerVars
  <2>2. CallInv'
    BY <1>2 DEF SendOk, RequestInv, CallInv, RequestTypeOK, CancelledByAnswer, LeftFor,
         NeverNothing, NoneLeft, NoResultYet
  <2>3. NowOffered' /\ Reading' /\ Underway'
    BY <1>2, StillOffered DEF SendOk
  <2> QED BY <2>1, <2>2, <2>3 DEF RequestInv
<1>3. CASE SendErr(i)
  <2>1. RequestTypeOK'
    BY <1>3 DEF RequestInv, SendErr, Exit, RequestTypeOK, listenVars, peerVars
  <2>2. LeftFor' /\ NeverNothing' /\ NoneLeft' /\ NoResultYet'
    BY <1>3, ExitRequest DEF SendErr
  <2>3. NowOffered' /\ Reading' /\ Underway'
    BY <1>3, StillOffered DEF SendErr
  <2> QED BY <1>3, <2>1, <2>2, <2>3 DEF SendErr, RequestInv, CallInv, CancelledByAnswer
<1>4. ASSUME NEW m \in Answers, Answered(i, m)
      PROVE  RequestInv'
  <2>1. RequestTypeOK'
    BY <1>4 DEF RequestInv, Answered, Put, DoneCancel, Exit, RequestTypeOK, listenVars, peerVars
  <2>2. LeftFor' /\ NeverNothing' /\ NoneLeft' /\ NoResultYet'
    BY <1>4, ExitRequest DEF Answered, DoneCancel
  <2>3. CancelledByAnswer'
    BY <1>4, RequestAssumption DEF Answered, Put, CancelledByAnswer
  <2>4. NowOffered' /\ Reading' /\ Underway'
    BY <1>4, StillOffered DEF Answered, Put, RequestInv, RequestTypeOK
  <2> QED BY <2>1, <2>2, <2>3, <2>4 DEF RequestInv, CallInv
<1> QED BY Zenon, <1>1, <1>2, <1>3, <1>4 DEF Attempt

\* listenNKN: the session is looked at, then the exits one by one
LEMMA ListenRequest ==
  ASSUME RequestInv, (\E i \in Attempts : ListenNKN(i) \/ GarbledReply(i)) \/ GetPubAddrs
  PROVE  RequestInv'
<1>1. UNCHANGED <<callVars, peerVars>>
  BY Zenon DEF ListenNKN, GarbledReply, GetPubAddrs
<1>2. CallInv'
  BY <1>1 DEF RequestInv, CallInv, CancelledByAnswer, LeftFor, NeverNothing, NoneLeft,
       NoResultYet, callVars
<1>3. NowOffered'
  BY <1>1 DEF RequestInv, NowOffered, peerVars
<1>4. ASSUME NEW i \in Attempts, NEW m \in {SessionClosed, Garbled}, Reply(i, m)
      PROVE  Underway' /\ replies' \in [Attempts -> Answers \cup {Null}]
  <2>1. replies' \in [Attempts -> Answers \cup {Null}]
    BY <1>4 DEF Reply, RequestInv, RequestTypeOK, Answers
  <2>2. \A j \in Attempts : replies'[j] \in {replies[j], m}
    BY <1>4 DEF Reply, RequestInv, RequestTypeOK
  <2>3. m \notin AllLists
    BY <1>4, RequestAssumption
  <2> QED BY <1>1, <2>1, <2>2, <2>3 DEF RequestInv, Underway, FromPeer, callVars, peerVars
<1>5. ASSUME NEW i \in Attempts, GarbledReply(i)
      PROVE  RequestInv'
  <2>1. Underway' /\ replies' \in [Attempts -> Answers \cup {Null}]
    BY <1>4, <1>5 DEF GarbledReply
  <2>2. RequestTypeOK' /\ Reading'
    BY <1>1, <1>5, <2>1 DEF GarbledReply, RequestInv, RequestTypeOK, Reading, callVars, listenVars,
         peerVars
  <2> QED BY <1>2, <1>3, <2>1, <2>2 DEF RequestInv
<1>6. ASSUME NEW i \in Attempts, ListenNKN(i), IsSessClosed
      PROVE  RequestInv'
  <2>1. Underway' /\ replies' \in [Attempts -> Answers \cup {Null}]
    BY <1>4, <1>6 DEF ListenNKN
  <2>2. RequestTypeOK' /\ Reading'
    BY <1>1, <1>6, <2>1 DEF ListenNKN, RequestInv, RequestTypeOK, Reading, callVars, peerVars
  <2> QED BY <1>2, <1>3, <2>1, <2>2 DEF RequestInv
<1>7. ASSUME NEW i \in Attempts, ListenNKN(i), ~IsSessClosed
      PROVE  RequestInv'
  <2>1. RequestTypeOK'
    BY <1>1, <1>7 DEF ListenNKN, RequestInv, RequestTypeOK, callVars, peerVars
  <2>2. Reading'
    BY <1>1, <1>7, RequestAssumption DEF ListenNKN, IsSessClosed, RequestInv, NowOffered, Reading,
         peerVars
  <2>3. Underway'
    BY <1>1, <1>7 DEF ListenNKN, RequestInv, Underway, FromPeer, callVars, peerVars
  <2> QED BY <1>2, <1>3, <2>1, <2>2, <2>3 DEF RequestInv
<1>8. CASE GetPubAddrs
  <2> DEFINE l == [answer EXCEPT ![place] = exits[place]]
  <2>1. serving \in Attempts /\ place \in Places /\ answer \in AllLists /\ exits \in AllLists
    BY <1>8 DEF GetPubAddrs, RequestInv, RequestTypeOK
  <2>2. l \in AllLists
    BY <2>1 DEF AllLists
  <2>3. \A j \in Places : j <= place => l[j] \in offered[j]
    BY <1>8, <2>1, RequestAssumption DEF GetPubAddrs, RequestInv, NowOffered, Reading, AllLists,
         Places
  <2>4. CASE place < NumExits
    <3>1. place' = place + 1 /\ answer' = l /\ UNCHANGED <<serving, replies>>
      BY Zenon, <1>8, <2>4 DEF GetPubAddrs
    <3>2. RequestTypeOK'
      BY <1>1, <2>1, <2>2, <2>4, <3>1, RequestAssumption DEF RequestInv, RequestTypeOK, Places,
           callVars, peerVars
    <3>3. Reading'
      BY <1>1, <1>8, <2>1, <2>3, <3>1, RequestAssumption DEF GetPubAddrs, RequestInv, Reading,
           Places, peerVars
    <3>4. Underway'
      BY <1>1, <3>1 DEF RequestInv, Underway, FromPeer, callVars, peerVars
    <3> QED BY <1>2, <1>3, <3>2, <3>3, <3>4 DEF RequestInv
  <2>5. CASE ~(place < NumExits)
    <3>1. Reply(serving, l) /\ serving' = Null /\ place' = 1 /\ answer' = NoEntries
      BY Zenon, <1>8, <2>5 DEF GetPubAddrs
    <3>2. replies' \in [Attempts -> Answers \cup {Null}]
      BY <2>1, <2>2, <3>1 DEF Reply, RequestInv, RequestTypeOK, Answers
    <3>3. RequestTypeOK'
      <4>1. 1 \in Places /\ NoEntries \in AllLists
        BY RequestAssumption DEF Places, NoEntries, AllLists, Entries
      <4> QED BY <1>1, <3>1, <3>2, <4>1 DEF RequestInv, RequestTypeOK, callVars, peerVars
    <3>4. Reading'
      BY <1>1, <3>1, RequestAssumption DEF Reading, Places
    <3>5. \A j \in Places : l[j] \in offered[j]
      BY <2>1, <2>3, <2>5, RequestAssumption DEF Places
    <3>6. \A i \in Attempts : replies'[i] \in {replies[i], l}
      BY <2>1, <3>1 DEF Reply, RequestInv, RequestTypeOK
    <3>7. Underway'
      BY Zenon, <1>1, <3>5, <3>6 DEF RequestInv, Underway, FromPeer, callVars, peerVars
    <3> QED BY <1>2, <1>3, <3>3, <3>4, <3>7 DEF RequestInv
  <2> QED BY <2>4, <2>5
<1> QED BY Zenon, <1>5, <1>6, <1>7, <1>8

\* the peer's session closes or its closed key expires, an exit changes
LEMMA PeerRequest ==
  ASSUME RequestInv, PeerSession \/ \E j \in Places, a \in Entries : PeerExit(j, a)
  PROVE  /\ RequestInv'
         /\ offered' \in [Places -> SUBSET Entries]
         /\ \A j \in Places : offered[j] \subseteq offered'[j]
<1>1. UNCHANGED <<callVars, replies, listenVars>>
  BY Zenon DEF PeerSession, PeerExit
<1>2. closed' \in BOOLEAN /\ exits' \in AllLists
  BY DEF PeerSession, PeerExit, RequestInv, RequestTypeOK, AllLists
<1>3. Observe(closed', exits')
  BY DEF PeerSession, PeerExit
<1>4. offered' \in [Places -> SUBSET Entries]
  BY <1>2, <1>3 DEF Observe, RequestInv, RequestTypeOK, AllLists
<1>5. \A j \in Places : /\ offered[j] \subseteq offered'[j]
                        /\ ~closed' \/ offered'[j] # {} => exits'[j] \in offered'[j]
  BY <1>3 DEF Observe
<1>6. RequestTypeOK'
  BY <1>1, <1>2, <1>4 DEF RequestInv, RequestTypeOK, callVars, listenVars
<1>7. CallInv'
  BY <1>1 DEF RequestInv, CallInv, CancelledByAnswer, LeftFor, NeverNothing, NoneLeft,
       NoResultYet, callVars
<1>8. NowOffered'
  BY <1>5 DEF NowOffered
<1>9. Reading'
  BY <1>1, <1>5 DEF RequestInv, Reading, listenVars
<1>10. Underway'
  BY <1>1, <1>5 DEF RequestInv, Underway, FromPeer, callVars
<1> QED BY <1>4, <1>5, <1>6, <1>7, <1>8, <1>9, <1>10 DEF RequestInv

\* every step of the call, the network and the peer
LEMMA NextRequest == RequestInv /\ [RequestNext]_requestVars => RequestInv'
<1> SUFFICES ASSUME RequestInv, [RequestNext]_requestVars PROVE RequestInv'
  OBVIOUS
<1>1. CASE Return
  <2>1. RequestTypeOK'
    BY <1>1, ReturnRequest DEF Return, RequestInv, RequestTypeOK, listenVars, peerVars
  <2>2. NeverNothing' /\ NoneLeft' /\ NoResultYet'
    <3>1. Null \notin Lists
      BY RequestAssumption DEF Answers, Lists
    <3> QED BY <1>1, <3>1, ReturnRequest DEF Return, Waited, NeverNothing, NoneLeft, NoResultYet,
              Errors
  <2>3. NowOffered' /\ Reading' /\ Underway'
    BY <1>1, StillOffered DEF Return
  <2> QED BY <1>1, <2>1, <2>2, <2>3 DEF Return, RequestInv, CallInv, CancelledByAnswer, LeftFor
<1>2. CASE Expire
  <2>1. RequestTypeOK' /\ CallInv'
    BY <1>2 DEF Expire, RequestInv, RequestTypeOK, CallInv, CancelledByAnswer, LeftFor,
         NeverNothing, NoneLeft, NoResultYet, listenVars, peerVars
  <2>2. NowOffered' /\ Reading' /\ Underway'
    BY <1>2, StillOffered DEF Expire
  <2> QED BY <2>1, <2>2 DEF RequestInv
<1>3. CASE UNCHANGED requestVars
  <2>1. RequestTypeOK' /\ CallInv'
    BY <1>3 DEF RequestInv, requestVars, callVars, listenVars, peerVars, RequestTypeOK, CallInv,
         CancelledByAnswer, LeftFor, NeverNothing, NoneLeft, NoResultYet
  <2>2. NowOffered' /\ Reading' /\ Underway'
    BY <1>3, StillOffered DEF requestVars, callVars
  <2> QED BY <2>1, <2>2 DEF RequestInv
<1> QED BY Zenon, <1>1, <1>2, <1>3, AttemptRequest, ListenRequest, PeerRequest DEF RequestNext

-----------------------------------------------------------------------------
\* The inductive invariant.
THEOREM RequestInvariant == RequestSpec => []RequestInv
BY InitRequest, NextRequest, PTL DEF RequestSpec

\* The variables of getPubAddrsFromRemote keep their types; the channels hold at
\* most one message.
THEOREM RequestTypes == RequestSpec => []RequestTypeOK
<1>1. RequestInv => RequestTypeOK
  BY DEF RequestInv
<1> QED BY <1>1, RequestInvariant, PTL

\* getPubAddrsFromRemote never returns a nil list with a nil error.
THEOREM NeverNothingHolds == RequestSpec => []NeverNothing
<1>1. RequestInv => NeverNothing
  BY DEF RequestInv, CallInv
<1> QED BY <1>1, RequestInvariant, PTL

\* No goroutine outlives the call, or sends on a channel that was closed.
THEOREM NoneLeftHolds == RequestSpec => []NoneLeft
<1>1. RequestInv => NoneLeft
  BY DEF RequestInv, CallInv
<1> QED BY <1>1, RequestInvariant, PTL

\* The code implements the one-step promise its callers rely on: the steps of
\* the attempts and of listenNKN are invisible, Return finds a list or fails, and
\* the peer may offer further addresses.
THEOREM RequestRefinesFetch == RequestSpec => FetchSpec
<1>1. RequestInit => Fetch!Init
  BY InitRequest DEF RequestInit, RequestInv, RequestTypeOK, Fetch!Init
<1>2. ASSUME RequestInv, [RequestNext]_requestVars
      PROVE  [Fetch!Next]_Fetch!vars
  <2>1. CASE Return
    <3>1. err = "none" /\ offered' = offered
      BY <2>1 DEF Return, peerVars
    <3>2. result = Null
      BY <1>2, <3>1 DEF RequestInv, CallInv, NoResultYet
    <3>3. CASE msgChan \in Lists
      <4>1. \A j \in Places : msgChan[j] \in offered[j]
        BY <1>2, <3>3 DEF RequestInv, Underway, FromPeer, Lists
      <4> QED BY <1>2, <2>1, <3>1, <3>3, <4>1, ReturnRequest DEF Fetch!Next, Fetch!Found
    <3>4. CASE msgChan \notin Lists
      BY <1>2, <2>1, <3>1, <3>2, <3>4, ReturnRequest DEF Fetch!Next, Fetch!Failed
    <3> QED BY <3>3, <3>4
  <2>2. CASE PeerSession \/ \E j \in Places, a \in Entries : PeerExit(j, a)
    <3>1. UNCHANGED <<result, err, pubAddrs>>
      BY Zenon, <2>2 DEF PeerSession, PeerExit, callVars
    <3> QED BY <1>2, <2>2, <3>1, PeerRequest DEF Fetch!Next, Fetch!Offer
  <2>3. CASE /\ ~Return
             /\ ~(PeerSession \/ \E j \in Places, a \in Entries : PeerExit(j, a))
    <3>1. UNCHANGED <<result, err, pubAddrs, peerVars>>
      BY Zenon, <1>2, <2>3 DEF RequestNext, Attempt, GiveUp, SendOk, SendErr, Cancelled, Answered,
           ListenNKN, GetPubAddrs, GarbledReply, Expire, requestVars, callVars
    <3> QED BY <3>1 DEF Fetch!vars, peerVars
  <2> QED BY <2>1, <2>2, <2>3
<1> QED BY <1>1, <1>2, RequestInvariant, PTL DEF RequestSpec, FetchSpec, Fetch!Spec
=============================================================================
