---------------------------- MODULE SessionTable ----------------------------
(***************************************************************************)
(* The session tables of one TunaSessionClient (client.go) and the code    *)
(* that changes them: the per-connection goroutines of listenNet, the      *)
(* handleConn critical sections, the removeClosedSessions sweeper, Close,  *)
(* CloseOneConn and AcceptSession.  Every section the Go code runs under   *)
(* the client's mutex is one action; what happens between two sections is  *)
(* left to the interleaving.  The peer, the network and the ncp.Session    *)
(* objects are the environment.  TunaSessionClient adds the dialing side.  *)
(***************************************************************************)
EXTENDS Integers, Sequences, FiniteSets

CONSTANTS
  DialKeys,     \* session keys of the sessions this client dials
  AcceptKeys,   \* session keys remote dialers use towards this client
  Remotes,      \* NKN addresses of the peers
  RemoteOf,     \* the peer in a session key: sessionKey = remoteAddr:sessionID
  Conns,        \* the *Conn objects; bounds the TCP connections of a behaviour
  Idx,          \* connection indexes, the arguments of connID
  Addrs,        \* what conn.RemoteAddr().String() can be
  AcceptAddrs,  \* ... and what it can be for an accepted connection
  NoAddr,       \* a PubAddr with empty IP or zero port
  PubLists,     \* PubAddrs.Addrs answers: functions from indexes to addresses
  MaxGen,       \* bound on the ncp.Session objects made for one key
  AcceptBuf,    \* acceptSessionBufSize
  None,         \* nil *Conn, nil *PubAddrs
  NilMap        \* an inner map that is not there

Keys == DialKeys \cup AcceptKeys
ConnMaps == [Idx -> Conns \cup {None}]

ASSUME KeyAssumption ==
  /\ DialKeys \cap AcceptKeys = {}
  /\ RemoteOf \in [Keys -> Remotes]

ASSUME ConnAssumption == IsFiniteSet(Conns) /\ None \notin Conns

ASSUME NilMapAssumption == NilMap \notin ConnMaps

ASSUME AddrAssumption ==
  /\ AcceptAddrs \subseteq Addrs
  /\ NoAddr \notin Addrs
  /\ None \notin Addrs \cup {NoAddr}

ASSUME ListAssumption ==
  /\ None \notin PubLists
  /\ \A l \in PubLists : /\ DOMAIN l \subseteq Idx
                         /\ \A i \in DOMAIN l : l[i] \in Addrs \cup {NoAddr}

ASSUME BoundAssumption == MaxGen \in Nat \ {0} /\ AcceptBuf \in Nat

VARIABLES
  sessions,          \* key -> the number of its ncp.Session object, 0 if absent
  sessionConns,      \* key -> index -> *Conn
  connCount,         \* key -> handleConn invocations counted, 0 if absent
  closedSessionKey,  \* keys in the closed-session cache
  addrConnCount,     \* remote -> TCP address -> connections, 0 if absent
  pubAddrs,          \* remote -> cached PubAddrs
  isClosed,          \* the client is closed (onClose is closed with it)
  acceptSession,     \* the channel of sessions waiting for AcceptSession
  accepted,          \* sessions AcceptSession has returned
  gens,              \* key -> ncp.Session objects made so far
  ncp,               \* key -> object number -> state of the ncp.Session
  sweeper,           \* program counter of removeClosedSessions
  pc,                \* conn -> program counter of the goroutine handling it
  ckey, cidx, caddr, \* conn -> its session key, index and remote TCP address
  csess,             \* conn -> the goroutine's local variable sess
  link               \* conn -> whether this client has closed the socket

tableVars == <<sessions, sessionConns, connCount, closedSessionKey>>
addrVars  == <<addrConnCount, pubAddrs>>
queueVars == <<acceptSession, accepted>>
ncpVars   == <<gens, ncp>>
idVars    == <<ckey, cidx, caddr>>
clientVars == <<tableVars, addrVars, isClosed, queueVars, ncpVars, sweeper,
                pc, idVars, csess, link>>

PCs == {"free",      \* no such connection yet
        "first",     \* it made the session and reads the first message
        "dialed",    \* dialTcpConn has put it into sessionConns
        "enter",     \* about to call handleConn
        "loop",      \* inside the loop of handleConn, counted
        "close",     \* handleConn left the tables, sess.Close() to come
        "ret",       \* handleConn returned
        "done"}      \* nothing will run for this connection any more

NcpStates == {"none", "open", "closing", "closed"}
Gens == 1..MaxGen

TablesOK ==
  /\ sessions \in [Keys -> 0..MaxGen]
  /\ sessionConns \in [Keys -> ConnMaps \cup {NilMap}]
  /\ connCount \in [Keys -> Int]
  /\ closedSessionKey \in SUBSET Keys

AddrsOK ==
  /\ addrConnCount \in [Remotes -> [Addrs -> Int]]
  /\ pubAddrs \in [Remotes -> PubLists \cup {None}]

QueueOK ==
  /\ acceptSession \in Seq(Keys \X Gens)
  /\ Len(acceptSession) <= AcceptBuf
  /\ accepted \in SUBSET (Keys \X Gens)

NcpOK ==
  /\ gens \in [Keys -> 0..MaxGen]
  /\ ncp \in [Keys -> [Gens -> NcpStates]]

ConnsOK ==
  /\ pc \in [Conns -> PCs]
  /\ ckey \in [Conns -> Keys \cup {None}]
  /\ cidx \in [Conns -> Idx \cup {None}]
  /\ caddr \in [Conns -> Addrs \cup {None}]
  /\ csess \in [Conns -> 0..MaxGen]
  /\ link \in [Conns -> {"none", "open", "closed"}]

TableTypeOK ==
  /\ TablesOK /\ AddrsOK /\ QueueOK /\ NcpOK /\ ConnsOK
  /\ isClosed \in BOOLEAN
  /\ sweeper \in {"sleep", "sweep", "exit"}

TableInit ==
  /\ sessions = [k \in Keys |-> 0]
  /\ sessionConns = [k \in Keys |-> NilMap]
  /\ connCount = [k \in Keys |-> 0]
  /\ closedSessionKey = {}
  /\ addrConnCount = [r \in Remotes |-> [a \in Addrs |-> 0]]
  /\ pubAddrs = [r \in Remotes |-> None]
  /\ isClosed = FALSE
  /\ acceptSession = << >>
  /\ accepted = {}
  /\ gens = [k \in Keys |-> 0]
  /\ ncp = [k \in Keys |-> [n \in Gens |-> "none"]]
  /\ sweeper = "sleep"
  /\ pc = [c \in Conns |-> "free"]
  /\ ckey = [c \in Conns |-> None]
  /\ cidx = [c \in Conns |-> None]
  /\ caddr = [c \in Conns |-> None]
  /\ csess = [c \in Conns |-> 0]
  /\ link = [c \in Conns |-> "none"]

-----------------------------------------------------------------------------
(* Reading and updating the tables *)

\* IsSessClosed, which listenNKN asks before it answers an address request
IsSessClosed(k) ==
  IF sessions[k] # 0 THEN ncp[k][sessions[k]] = "closed"
                     ELSE k \in closedSessionKey

\* external: ncp.Session.Close sends the close packet; IsClosed follows later
CloseNcp(s) == IF s = "open" THEN "closing" ELSE s

\* the *Conn objects found in sessionConns under the keys in S
RegisteredConns(S) ==
  {c \in Conns : \E k \in S, i \in Idx :
                   sessionConns[k] # NilMap /\ sessionConns[k][i] = c}

CloseLinks(C) == [c \in Conns |-> IF c \in C THEN "closed" ELSE link[c]]

\* which *Conn object a new connection gets is immaterial: a fixed free one
Fresh(c) == pc[c] = "free" /\ c = CHOOSE d \in Conns : pc[d] = "free"

Goto(c, p) == pc' = [pc EXCEPT ![c] = p]

\* bug: the key is not remembered as closed
ForgetSilently(S) ==
  /\ sessions' = [k \in Keys |-> IF k \in S THEN 0 ELSE sessions[k]]
  /\ sessionConns' = [k \in Keys |-> IF k \in S THEN NilMap ELSE sessionConns[k]]
  /\ connCount' = [k \in Keys |-> IF k \in S THEN 0 ELSE connCount[k]]
  /\ UNCHANGED closedSessionKey

\* the four statements that end the sessions with keys in S
Forget(S) ==
  /\ sessions' = [k \in Keys |-> IF k \in S THEN 0 ELSE sessions[k]]
  /\ sessionConns' = [k \in Keys |-> IF k \in S THEN NilMap ELSE sessionConns[k]]
  /\ connCount' = [k \in Keys |-> IF k \in S THEN 0 ELSE connCount[k]]
  /\ closedSessionKey' = closedSessionKey \cup S

\* newSession and the insertion of its result
NewSession(k) ==
  /\ gens[k] < MaxGen
  /\ gens' = [gens EXCEPT ![k] = @ + 1]
  /\ ncp' = [ncp EXCEPT ![k][gens[k] + 1] = "open"]
  /\ sessions' = [sessions EXCEPT ![k] = gens[k] + 1]

EmptyConns == [i \in Idx |-> None]

-----------------------------------------------------------------------------
(* The listener: listenNet and the goroutine it starts per connection *)

\* the peer's metadata names session k; a is the peer's TCP address
Identify(c, k, i, a) ==
  /\ ckey' = [ckey EXCEPT ![c] = k]
  /\ cidx' = [cidx EXCEPT ![c] = i]
  /\ caddr' = [caddr EXCEPT ![c] = a]

\* bug: the closed keys are not consulted
MayRecreate(k) == sessions[k] = 0

\* bug: a closed session that is still in the table counts as absent
MayReplace(k) ==
  (sessions[k] = 0 \/ IsSessClosed(k)) /\ k \notin closedSessionKey

\* no such session, and it has not been closed a short while ago
MayCreate(k) == sessions[k] = 0 /\ k \notin closedSessionKey

\* bug: ok of the closed-key look-up is taken for ok of the session look-up
AfterLookUpNew(found) == "first"

\* only the goroutine that made the session reads the first message and offers it
AfterLookUp(found) == IF found THEN "enter" ELSE "first"

\* The goroutine of an accepted connection up to the end of its critical
\* section.  Before it only the conn is touched: a conn whose first messages
\* are not accepted is closed and leaves no trace.  A conn accepted before
\* Close may get here after it.
Register(c, k, i, a) ==
  /\ Fresh(c)
  /\ Identify(c, k, i, a)
  /\ \/ /\ sessions[k] # 0
        /\ sessionConns' = [sessionConns EXCEPT ![k][i] = c]
        /\ Goto(c, AfterLookUp(TRUE))
        /\ link' = [link EXCEPT ![c] = "open"]
        /\ UNCHANGED <<sessions, ncpVars>>
     \/ /\ sessions[k] = 0
        /\ ~MayCreate(k)
        /\ Goto(c, "done")
        /\ link' = CloseLinks({c})
        /\ UNCHANGED <<sessions, sessionConns, ncpVars>>
     \/ /\ MayCreate(k)
        /\ NewSession(k)
        /\ sessionConns' = [sessionConns EXCEPT ![k] = [EmptyConns EXCEPT ![i] = c]]
        /\ Goto(c, AfterLookUp(FALSE))
        /\ link' = [link EXCEPT ![c] = "open"]
  /\ csess' = [csess EXCEPT ![c] = sessions'[k]]
  /\ UNCHANGED <<connCount, closedSessionKey, addrVars, isClosed, queueVars,
                 sweeper>>

\* bug: no default branch that discards
OfferUnbounded(k, n) == acceptSession' = Append(acceptSession, <<k, n>>)

\* the session goes to AcceptSession, or nowhere when the channel is full
Offer(k, n) ==
  acceptSession' = IF Len(acceptSession) < AcceptBuf
                   THEN Append(acceptSession, <<k, n>>) ELSE acceptSession

\* handleMsg on the first message, then the offer, by the session's creator
FirstMsg(c) ==
  /\ pc[c] = "first"
  /\ Offer(ckey[c], csess[c])
  /\ Goto(c, "enter")
  /\ UNCHANGED <<tableVars, addrVars, isClosed, accepted, ncpVars, sweeper,
                 idVars, csess, link>>

\* ... when handleMsg fails: the session stays in the tables, never offered
FirstMsgErr(c) ==
  /\ pc[c] = "first"
  /\ Goto(c, "done")
  /\ link' = CloseLinks({c})
  /\ UNCHANGED <<tableVars, addrVars, isClosed, queueVars, ncpVars, sweeper,
                 idVars, csess>>

\* handleConn returned to the listener's goroutine: its deferred conn.Close()
ListenerReturn(c) ==
  /\ pc[c] = "ret"
  /\ ckey[c] \in AcceptKeys
  /\ Goto(c, "done")
  /\ link' = CloseLinks({c})
  /\ UNCHANGED <<tableVars, addrVars, isClosed, queueVars, ncpVars, sweeper,
                 idVars, csess>>

-----------------------------------------------------------------------------
(* handleConn, used by both sides *)

\* the first critical section
HandleConn(c) ==
  LET k == ckey[c]  r == RemoteOf[k] IN
  /\ pc[c] = "enter"
  /\ csess' = [csess EXCEPT ![c] = sessions[k]]
  /\ \/ /\ sessions[k] = 0
        /\ Goto(c, "ret")
        /\ UNCHANGED <<connCount, addrConnCount>>
     \/ /\ sessions[k] # 0
        /\ Goto(c, "loop")
        /\ connCount' = [connCount EXCEPT ![k] = @ + 1]
        /\ addrConnCount' = [addrConnCount EXCEPT ![r][caddr[c]] = @ + 1]
  /\ UNCHANGED <<sessions, sessionConns, closedSessionKey, pubAddrs, isClosed,
                 queueVars, ncpVars, sweeper, idVars, link>>

\* bug: the count goes with the first connection that leaves
AddrCountDrop(r, a) ==
  /\ addrConnCount' = [addrConnCount EXCEPT ![r][a] = 0]
  /\ pubAddrs' = [pubAddrs EXCEPT ![r] = None]

\* the address cache of r is dropped when one of its counts reaches 0
AddrCountDown(r, a) ==
  LET n == addrConnCount[r][a] - 1 IN
  /\ addrConnCount' = [addrConnCount EXCEPT ![r][a] = IF n <= 0 THEN 0 ELSE n]
  /\ pubAddrs' = [pubAddrs EXCEPT ![r] = IF n <= 0 THEN None ELSE @]

\* bug: all connections of the session are taken out
WithoutConns(k, i) == IF sessionConns[k] = NilMap THEN NilMap ELSE EmptyConns

\* bug: the inner map goes with the connection
WithoutMap(k, i) == NilMap

\* delete(c.sessionConns[sessKey], connID(i)), a no-op on a nil inner map
WithoutConn(k, i) ==
  IF sessionConns[k] = NilMap THEN NilMap
  ELSE [sessionConns[k] EXCEPT ![i] = None]

\* bug: off by one, the session ends with one connection still served
ShouldCloseEarly(k) == connCount[k] - 1 <= 1

\* bug: the session is never ended
ShouldCloseNever(k) == connCount[k] - 1 < 0

\* this was the last connection counted
ShouldClose(k) == connCount[k] - 1 = 0

\* the deferred critical section, after handleMsg failed: reading can fail at
\* any time, and does once the socket is closed
HandleConnDefer(c) ==
  LET k == ckey[c]  i == cidx[c] IN
  /\ pc[c] = "loop"
  /\ AddrCountDown(RemoteOf[k], caddr[c])
  /\ \/ /\ ~ShouldClose(k)
        /\ connCount' = [connCount EXCEPT ![k] = @ - 1]
        /\ sessionConns' = [sessionConns EXCEPT ![k] = WithoutConn(k, i)]
        /\ Goto(c, "ret")
        /\ UNCHANGED <<sessions, closedSessionKey>>
     \/ /\ ShouldClose(k)
        /\ Forget({k})
        /\ Goto(c, "close")
  /\ UNCHANGED <<isClosed, queueVars, ncpVars, sweeper, idVars, csess, link>>

\* bug: the session to close is looked up after the section
HandleConnCloseLate(c) ==
  LET k == ckey[c] IN
  /\ pc[c] = "close"
  /\ ncp' = [ncp EXCEPT ![k] = [n \in Gens |->
               IF n = sessions[k] THEN CloseNcp(@[n]) ELSE @[n]]]
  /\ Goto(c, "ret")
  /\ UNCHANGED <<tableVars, addrVars, isClosed, queueVars, gens, sweeper,
                 idVars, csess, link>>

\* sess.Close() after the section, when shouldClose was set
HandleConnClose(c) ==
  /\ pc[c] = "close"
  /\ ncp' = [ncp EXCEPT ![ckey[c]][csess[c]] = CloseNcp(@)]
  /\ Goto(c, "ret")
  /\ UNCHANGED <<tableVars, addrVars, isClosed, queueVars, gens, sweeper,
                 idVars, csess, link>>

-----------------------------------------------------------------------------
(* removeClosedSessions, Close and the application's other calls *)

\* after the sleep: isClosed is read without the lock
SweepWake ==
  /\ sweeper = "sleep"
  /\ sweeper' = IF isClosed THEN "exit" ELSE "sweep"
  /\ UNCHANGED <<tableVars, addrVars, isClosed, queueVars, ncpVars, pc,
                 idVars, csess, link>>

ClosedSessions ==
  {k \in Keys : sessions[k] # 0 /\ ncp[k][sessions[k]] = "closed"}

Sweep ==
  LET S == ClosedSessions IN
  /\ sweeper = "sweep"
  /\ sweeper' = "sleep"
  /\ link' = CloseLinks(RegisteredConns(S))
  /\ Forget(S)
  /\ UNCHANGED <<addrVars, isClosed, queueVars, ncpVars, pc, idVars, csess>>

Close ==
  /\ ~isClosed
  /\ isClosed' = TRUE
  /\ ncp' = [k \in Keys |-> [n \in Gens |->
               IF n = sessions[k] THEN CloseNcp(ncp[k][n]) ELSE ncp[k][n]]]
  /\ link' = CloseLinks(RegisteredConns(Keys))
  /\ UNCHANGED <<tableVars, addrVars, queueVars, gens, sweeper, pc, idVars,
                 csess>>

\* the conn found is closed; with no conn under that index the Go call panics,
\* so the application calls it for an index that is there
CloseOneConn(k, i) ==
  /\ sessions[k] # 0
  /\ sessionConns[k] # NilMap
  /\ sessionConns[k][i] # None
  /\ link' = CloseLinks({sessionConns[k][i]})
  /\ UNCHANGED <<tableVars, addrVars, isClosed, queueVars, ncpVars, sweeper,
                 pc, idVars, csess>>

\* session.Accept may fail: the session is then dropped and the loop goes on
AcceptSession ==
  /\ acceptSession # << >>
  /\ acceptSession' = Tail(acceptSession)
  /\ accepted' \in {accepted, accepted \cup {Head(acceptSession)}}
  /\ UNCHANGED <<tableVars, addrVars, isClosed, ncpVars, sweeper, pc, idVars,
                 csess, link>>

-----------------------------------------------------------------------------
(* The sending closure given to ncp, and the environment *)

\* SendWith: a failed or partial write closes the conn found in the table,
\* also for a session that has left it
SendWithErr(k, i) ==
  /\ gens[k] # 0
  /\ sessionConns[k] # NilMap
  /\ sessionConns[k][i] # None
  /\ link' = CloseLinks({sessionConns[k][i]})
  /\ UNCHANGED <<tableVars, addrVars, isClosed, queueVars, ncpVars, sweeper,
                 pc, idVars, csess>>

\* external: the application or the peer closes the ncp session
NcpClose(k, n) ==
  /\ ncp[k][n] = "open"
  /\ ncp' = [ncp EXCEPT ![k][n] = CloseNcp(@)]
  /\ UNCHANGED <<tableVars, addrVars, isClosed, queueVars, gens, sweeper, pc,
                 idVars, csess, link>>

\* external: from here on IsClosed() is true
NcpClosed(k, n) ==
  /\ ncp[k][n] = "closing"
  /\ ncp' = [ncp EXCEPT ![k][n] = "closed"]
  /\ UNCHANGED <<tableVars, addrVars, isClosed, queueVars, gens, sweeper, pc,
                 idVars, csess, link>>

\* closedSessionKeyExpiration has passed for k
Expire(k) ==
  /\ k \in closedSessionKey
  /\ closedSessionKey' = closedSessionKey \ {k}
  /\ UNCHANGED <<sessions, sessionConns, connCount, addrVars, isClosed,
                 queueVars, ncpVars, sweeper, pc, idVars, csess, link>>

-----------------------------------------------------------------------------
ConnNext(c) ==
  \/ \E k \in AcceptKeys, i \in Idx, a \in AcceptAddrs : Register(c, k, i, a)
  \/ FirstMsg(c) \/ FirstMsgErr(c)
  \/ HandleConn(c) \/ HandleConnDefer(c) \/ HandleConnClose(c)
  \/ ListenerReturn(c)

KeyNext(k) ==
  \/ \E i \in Idx : CloseOneConn(k, i) \/ SendWithErr(k, i)
  \/ \E n \in Gens : NcpClose(k, n) \/ NcpClosed(k, n)
  \/ Expire(k)

TableNext ==
  \/ \E c \in Conns : ConnNext(c)
  \/ \E k \in Keys : KeyNext(k)
  \/ SweepWake \/ Sweep \/ Close \/ AcceptSession

-----------------------------------------------------------------------------
(* Properties of the tables *)

\* A session in the table has its map of connections: the statement
\* c.sessionConns[sessKey][connID(i)] = conn of listenNet, executed for a
\* session that was found, never writes into a nil map (which would panic).
NoNilMapWrite == \A k \in Keys : sessions[k] # 0 => sessionConns[k] # NilMap

\* No key is both live and remembered as closed, whichever of handleConn's
\* deferred section and the sweeper ended the session and whoever made a new
\* one: IsSessClosed and listenNet never disagree about a key.
LiveXorClosed == \A k \in Keys : sessions[k] # 0 => k \notin closedSessionKey

\* Handlers inside the loop of handleConn for peer r over TCP address a
Serving(r, a) ==
  {c \in Conns : pc[c] = "loop" /\ RemoteOf[ckey[c]] = r /\ caddr[c] = a}

\* addrConnCount counts exactly the connections being served, across the
\* sessions with one peer and whatever the sweeper and Close do meanwhile.
\* So the deferred section finds the inner map, and the cache of addresses is
\* dropped exactly when an address has lost its last connection.
AddrCountExact ==
  \A r \in Remotes, a \in Addrs : addrConnCount[r][a] = Cardinality(Serving(r, a))

\* Handlers of session k inside the loop
Handlers(k) == {c \in Conns : pc[c] = "loop" /\ ckey[c] = k}

\* handleConn takes a session out of the tables only when it was the last one
\* serving it; the sweeper only when the session is closed.  (For the first
\* session of a key: the sweeper forgets the count while handlers still run, so
\* a key made anew after its closed entry expired starts from a wrong count.)
LastOneOut ==
  [][\A k \in Keys :
       gens[k] = 1 /\ sessions[k] # 0 /\ sessions'[k] = 0
         => ncp[k][sessions[k]] = "closed" \/ Handlers(k)' = {}]_clientVars

\* A session that has left the tables is closed, or the handler that removed
\* it is about to close it: no ncp.Session runs on unseen, where neither Close
\* nor the sweeper would find it.  (First session of a key, as above.)
DroppedIsClosed ==
  \A k \in Keys :
    gens[k] # 0 /\ sessions[k] # 1 /\ ncp[k][1] = "open"
      => \E c \in Conns : pc[c] = "close" /\ ckey[c] = k /\ csess[c] = 1

\* AcceptSession hands out a session at most once, although every connection
\* of the session runs the same code and several may arrive together.
AcceptOnce ==
  /\ \A i, j \in DOMAIN acceptSession :
       acceptSession[i] = acceptSession[j] => i = j
  /\ \A i \in DOMAIN acceptSession : acceptSession[i] \notin accepted

\* The answer "session closed", once it can be given to a peer that asks for
\* addresses, stays the answer until the closed key expires.
ClosedStays ==
  [][\A k \in Keys :
       IsSessClosed(k) => IsSessClosed(k)'
                          \/ (k \in closedSessionKey /\ k \notin closedSessionKey')
    ]_clientVars

\* A session object is never replaced in the table by another one: its sending
\* closure and its handlers would go on with a session nobody can find.
NeverReplaced ==
  [][\A k \in Keys : sessions[k] # 0 => sessions'[k] \in {0, sessions[k]}]_clientVars
=============================================================================
