-------------------------- MODULE TunaSessionClient --------------------------
(***************************************************************************)
(* A TunaSessionClient that dials: SessionTable with DialWithConfig, the   *)
(* goroutine per connection index that runs handleConn and reconnects, and *)
(* the public address cache they share.  A dialed key is dialed once: its  *)
(* session ID is random.  The request for addresses itself is one step     *)
(* from "fetch" to its answer or its error.                                *)
(***************************************************************************)
EXTENDS SessionTable

CONSTANT Retries   \* config.ReconnectRetries

ASSUME RetriesAssumption == Retries \in Int

VARIABLES
  main,    \* dialed key -> program counter of DialWithConfig
  mainErr, \* dialed key -> its variable err is not nil
  worker,  \* dialed key -> index -> program counter of the index's goroutine
  target,  \* dialed key -> index -> address to dial, None if the list is short
  wconn,   \* dialed key -> index -> the goroutine's local variable conn
  tries    \* dialed key -> index -> reconnect attempts failed in a row (j)

dialVars == <<main, mainErr, worker, target, wconn, tries>>
vars == <<clientVars, dialVars>>

Mains == {"idle", "look", "fetch", "dial", "sessdial", "done", "failed"}
Workers == {"idle",    \* the address list has no valid entry for this index
            "dialing", \* the first dialTcpConn
            "dialed",  \* ... succeeded
            "nodial",  \* ... failed
            "run",     \* in handleConn with wconn
            "try",     \* at the head of the reconnect loop
            "look",    \* in reconnect, about to ask the cache
            "fetch",   \* in reconnect, request sent
            "dial",    \* in reconnect, about to dial
            "exit"}

DialOK ==
  /\ main \in [DialKeys -> Mains]
  /\ mainErr \in [DialKeys -> BOOLEAN]
  /\ worker \in [DialKeys -> [Idx -> Workers]]
  /\ target \in [DialKeys -> [Idx -> Addrs \cup {NoAddr, None}]]
  /\ wconn \in [DialKeys -> [Idx -> Conns \cup {None}]]
  /\ tries \in [DialKeys -> [Idx -> Nat]]

\* The variables hold what their Go counterparts can hold, and the channel
\* acceptSession never has more than acceptSessionBufSize sessions.
TypeOK == TableTypeOK /\ DialOK

Init ==
  /\ TableInit
  /\ main = [k \in DialKeys |-> "idle"]
  /\ mainErr = [k \in DialKeys |-> FALSE]
  /\ worker = [k \in DialKeys |-> [i \in Idx |-> "idle"]]
  /\ target = [k \in DialKeys |-> [i \in Idx |-> None]]
  /\ wconn = [k \in DialKeys |-> [i \in Idx |-> None]]
  /\ tries = [k \in DialKeys |-> [i \in Idx |-> 0]]

-----------------------------------------------------------------------------
(* The public address cache and dialTcpConn *)

\* bug: the counts are not consulted
CacheHitAny(r) ==
  pubAddrs[r] # None /\ \A i \in DOMAIN pubAddrs[r] : pubAddrs[r][i] # NoAddr

\* getCachedPubAddrs finds the list of r usable
CacheHit(r) ==
  /\ pubAddrs[r] # None
  /\ \A i \in DOMAIN pubAddrs[r] :
       pubAddrs[r][i] # NoAddr /\ addrConnCount[r][pubAddrs[r][i]] > 0

\* bug: an answer without a usable address is taken for a list of addresses
HasAny(l) == l \in PubLists

HasValid(l) == \E i \in DOMAIN l : l[i] # NoAddr

AddrAt(l, i) == IF i \in DOMAIN l THEN l[i] ELSE None

\* dialTcpConn: c connected, announced itself and is put into the table
Dialed(c, k, i, p) ==
  /\ Fresh(c)
  /\ target[k][i] \in Addrs
  /\ Identify(c, k, i, target[k][i])
  /\ link' = [link EXCEPT ![c] = "open"]
  /\ Goto(c, p)
  /\ sessionConns' = [sessionConns EXCEPT
       ![k] = [(IF @ = NilMap THEN EmptyConns ELSE @) EXCEPT ![i] = c]]
  /\ UNCHANGED <<sessions, connCount, closedSessionKey, addrVars, isClosed,
                 queueVars, ncpVars, sweeper, csess>>

-----------------------------------------------------------------------------
(* DialWithConfig *)

DialStart(k) ==
  /\ main[k] = "idle"
  /\ main' = [main EXCEPT ![k] = "look"]
  /\ UNCHANGED <<clientVars, mainErr, worker, target, wconn, tries>>

Fail(k) ==
  /\ main' = [main EXCEPT ![k] = "failed"]
  /\ mainErr' = [mainErr EXCEPT ![k] = TRUE]

\* a goroutine is started for every valid entry of the list
StartDialing(k, l) ==
  /\ main' = [main EXCEPT ![k] = "dial"]
  /\ target' = [target EXCEPT ![k] = [i \in Idx |-> AddrAt(l, i)]]
  /\ worker' = [worker EXCEPT ![k] = [i \in Idx |->
       IF AddrAt(l, i) \in Addrs THEN "dialing" ELSE "idle"]]

DialLook(k) ==
  /\ main[k] = "look"
  /\ \/ /\ CacheHit(RemoteOf[k])
        /\ StartDialing(k, pubAddrs[RemoteOf[k]])
        /\ UNCHANGED mainErr
     \/ /\ ~CacheHit(RemoteOf[k])
        /\ ~isClosed
        /\ main' = [main EXCEPT ![k] = "fetch"]
        /\ UNCHANGED <<mainErr, worker, target>>
     \/ /\ ~CacheHit(RemoteOf[k])
        /\ isClosed      \* the multiclient is closed and Send fails
        /\ Fail(k)
        /\ UNCHANGED <<worker, target>>
  /\ UNCHANGED <<clientVars, wconn, tries>>

DialFetched(k, l) ==
  /\ main[k] = "fetch"
  /\ HasValid(l)
  /\ pubAddrs' = [pubAddrs EXCEPT ![RemoteOf[k]] = l]
  /\ StartDialing(k, l)
  /\ UNCHANGED <<tableVars, addrConnCount, isClosed, queueVars, ncpVars,
                 sweeper, pc, idVars, csess, link, mainErr, wconn, tries>>

\* no answer in time, an unreadable one, SessionClosed, or no valid address
DialFetchErr(k) ==
  /\ main[k] = "fetch"
  /\ Fail(k)
  /\ UNCHANGED <<clientVars, worker, target, wconn, tries>>

\* the goroutines of one dial assign the same variable err
DialConn(k, i, c) ==
  /\ worker[k][i] = "dialing"
  /\ Dialed(c, k, i, "dialed")
  /\ worker' = [worker EXCEPT ![k][i] = "dialed"]
  /\ wconn' = [wconn EXCEPT ![k][i] = c]
  /\ mainErr' = [mainErr EXCEPT ![k] = FALSE]
  /\ UNCHANGED <<main, target, tries>>

DialConnErr(k, i) ==
  /\ worker[k][i] = "dialing"
  /\ worker' = [worker EXCEPT ![k][i] = "nodial"]
  /\ mainErr' = [mainErr EXCEPT ![k] = TRUE]
  /\ UNCHANGED <<clientVars, main, target, wconn, tries>>

\* wg.Wait() returns
Joined(k) == main[k] = "dial" /\ \A i \in Idx : worker[k][i] # "dialing"

\* len(conns) = 0, returning the shared err
DialNoConn(k) ==
  /\ Joined(k)
  /\ sessionConns[k] \in {NilMap, EmptyConns}
  /\ main' = [main EXCEPT ![k] = "failed"]
  /\ UNCHANGED <<clientVars, mainErr, worker, target, wconn, tries>>

DialSessionErr(k) ==
  /\ Joined(k)
  /\ sessionConns[k] \notin {NilMap, EmptyConns}
  /\ Fail(k)
  /\ UNCHANGED <<clientVars, worker, target, wconn, tries>>

\* newSession, c.sessions[sessKey] = sess, and one goroutine per conn
DialInstall(k) ==
  /\ Joined(k)
  /\ sessionConns[k] \notin {NilMap, EmptyConns}
  /\ NewSession(k)
  /\ main' = [main EXCEPT ![k] = "sessdial"]
  /\ mainErr' = [mainErr EXCEPT ![k] = FALSE]
  /\ worker' = [worker EXCEPT ![k] = [i \in Idx |->
       IF sessionConns[k][i] # None THEN "run" ELSE worker[k][i]]]
  /\ pc' = [c \in Conns |->
       IF c \in RegisteredConns({k}) THEN "enter" ELSE pc[c]]
  /\ UNCHANGED <<sessionConns, connCount, closedSessionKey, addrVars, isClosed,
                 queueVars, sweeper, idVars, csess, link, target, wconn, tries>>

\* sess.Dial(ctx); on failure the session and its goroutines are left running
DialDone(k) ==
  /\ main[k] = "sessdial"
  /\ \/ main' = [main EXCEPT ![k] = "done"] /\ UNCHANGED mainErr
     \/ Fail(k)
  /\ UNCHANGED <<clientVars, worker, target, wconn, tries>>

-----------------------------------------------------------------------------
(* The goroutine of one index after the session is installed *)

\* handleConn returned: stop, closing conn, or enter the reconnect loop
WorkerReturn(k, i) ==
  LET c == wconn[k][i] IN
  /\ worker[k][i] = "run"
  /\ pc[c] = "ret"
  /\ Goto(c, "done")
  /\ link' = IF Retries = 0 THEN CloseLinks({c}) ELSE link
  /\ worker' = [worker EXCEPT ![k][i] = IF Retries = 0 THEN "exit" ELSE "try"]
  /\ wconn' = [wconn EXCEPT ![k][i] = None]
  /\ tries' = [tries EXCEPT ![k][i] = 0]
  /\ UNCHANGED <<tableVars, addrVars, isClosed, queueVars, ncpVars, sweeper,
                 idVars, csess, main, mainErr, target>>

WorkerGoto(k, i, p) ==
  /\ worker' = [worker EXCEPT ![k][i] = p]
  /\ UNCHANGED <<main, mainErr, wconn>>

\* one failed attempt; the loop ends after Retries of them, if not negative
AttemptFailed(k, i) ==
  LET last == Retries >= 0 /\ tries[k][i] + 1 >= Retries IN
  /\ WorkerGoto(k, i, IF last THEN "exit" ELSE "try")
  /\ tries' = [tries EXCEPT ![k][i] = IF Retries < 0 THEN @ ELSE @ + 1]

\* bug: the session is not looked at
MustStopClient(k) == isClosed

\* reconnect gives up with ErrClosed or ErrSessionClosed
MustStop(k) == isClosed \/ sessions[k] = 0 \/ ncp[k][sessions[k]] = "closed"

ReconnectCheck(k, i) ==
  /\ worker[k][i] = "try"
  /\ WorkerGoto(k, i, IF MustStop(k) THEN "exit" ELSE "look")
  /\ UNCHANGED <<clientVars, target, tries>>

ReconnectLook(k, i) ==
  /\ worker[k][i] = "look"
  /\ \/ /\ CacheHit(RemoteOf[k])
        /\ target' = [target EXCEPT ![k][i] = AddrAt(pubAddrs[RemoteOf[k]], i)]
        /\ WorkerGoto(k, i, "dial")
        /\ UNCHANGED tries
     \/ /\ ~CacheHit(RemoteOf[k])
        /\ ~isClosed
        /\ WorkerGoto(k, i, "fetch")
        /\ UNCHANGED <<target, tries>>
     \/ /\ ~CacheHit(RemoteOf[k])
        /\ isClosed
        /\ AttemptFailed(k, i)
        /\ UNCHANGED target
  /\ UNCHANGED clientVars

ReconnectFetched(k, i, l) ==
  /\ worker[k][i] = "fetch"
  /\ HasValid(l)
  /\ pubAddrs' = [pubAddrs EXCEPT ![RemoteOf[k]] = l]
  /\ target' = [target EXCEPT ![k][i] = AddrAt(l, i)]
  /\ WorkerGoto(k, i, "dial")
  /\ UNCHANGED <<tableVars, addrConnCount, isClosed, queueVars, ncpVars,
                 sweeper, pc, idVars, csess, link, tries>>

ReconnectFetchErr(k, i) ==
  /\ worker[k][i] = "fetch"
  /\ AttemptFailed(k, i)
  /\ UNCHANGED <<clientVars, target>>

\* the peer answers SessionClosed: sess.Close(), ErrClosed
ReconnectSessionClosed(k, i) ==
  /\ worker[k][i] = "fetch"
  /\ ncp' = [ncp EXCEPT ![k][gens[k]] = CloseNcp(@)]
  /\ WorkerGoto(k, i, "exit")
  /\ UNCHANGED <<tableVars, addrVars, isClosed, queueVars, gens, sweeper, pc,
                 idVars, csess, link, target, tries>>

\* len(newPubAddrs.Addrs) <= i: reconnect returns no conn and no error, and
\* the goroutine takes the missing conn for exhausted retries
ReconnectShort(k, i) ==
  /\ worker[k][i] = "dial"
  /\ target[k][i] = None
  /\ WorkerGoto(k, i, "exit")
  /\ UNCHANGED <<clientVars, target, tries>>

ReconnectConn(k, i, c) ==
  /\ worker[k][i] = "dial"
  /\ Dialed(c, k, i, "enter")
  /\ worker' = [worker EXCEPT ![k][i] = "run"]
  /\ wconn' = [wconn EXCEPT ![k][i] = c]
  /\ UNCHANGED <<main, mainErr, target, tries>>

ReconnectConnErr(k, i) ==
  /\ worker[k][i] = "dial"
  /\ target[k][i] # None
  /\ AttemptFailed(k, i)
  /\ UNCHANGED <<clientVars, target>>

-----------------------------------------------------------------------------
MainStep(k) ==
  \/ DialLook(k)
  \/ \E l \in PubLists : DialFetched(k, l)
  \/ DialFetchErr(k)
  \/ DialNoConn(k) \/ DialSessionErr(k) \/ DialInstall(k) \/ DialDone(k)

WorkerStep(k, i) ==
  \/ \E c \in Conns : DialConn(k, i, c) \/ ReconnectConn(k, i, c)
  \/ \E l \in PubLists : ReconnectFetched(k, i, l)
  \/ DialConnErr(k, i) \/ WorkerReturn(k, i)
  \/ ReconnectCheck(k, i) \/ ReconnectLook(k, i)
  \/ ReconnectFetchErr(k, i) \/ ReconnectSessionClosed(k, i)
  \/ ReconnectShort(k, i) \/ ReconnectConnErr(k, i)

DialNext ==
  \E k \in DialKeys :
    DialStart(k) \/ MainStep(k) \/ \E i \in Idx : WorkerStep(k, i)

Next == (TableNext /\ UNCHANGED dialVars) \/ DialNext

Spec == Init /\ [][Next]_vars

\* The goroutines of a client whose process is running are scheduled, the
\* sweeper wakes up every second, a closing ncp session finishes, and requests
\* and dials end (they run under the session's context, which ends with the
\* session).  A handler is sure to leave only once its socket is closed.
\* Nothing is assumed about the application, the peer or the cache expiry.
Fairness ==
  /\ WF_vars((SweepWake \/ Sweep) /\ UNCHANGED dialVars)
  /\ \A k \in Keys, n \in Gens : WF_vars(NcpClosed(k, n) /\ UNCHANGED dialVars)
  /\ \A c \in Conns :
       /\ WF_vars(link[c] = "closed" /\ HandleConnDefer(c) /\ UNCHANGED dialVars)
       /\ WF_vars((HandleConn(c) \/ HandleConnClose(c)) /\ UNCHANGED dialVars)
  /\ \A k \in DialKeys, i \in Idx : WF_vars(WorkerStep(k, i))

FairSpec == Spec /\ Fairness

-----------------------------------------------------------------------------
(* Properties of the dialing side *)

\* While a dialed session is in the table, some connection of it is served or
\* about to be: a session that lost all its connections does not stay behind.
DialedIsServed ==
  \A k \in DialKeys : sessions[k] # 0 =>
    \E c \in Conns : ckey[c] = k /\ pc[c] \in {"enter", "loop"}

\* Every connection a dialed session reads from is the one its sending closure
\* finds in sessionConns, also after reconnects: the deferred section of an
\* old connection never removes the entry of the connection that replaced it.
DialedIsRegistered ==
  \A c \in Conns :
    ckey[c] \in DialKeys /\ pc[c] \in {"enter", "loop"} /\ sessions[ckey[c]] # 0
      => sessionConns[ckey[c]][cidx[c]] = c

\* A cache hit only gives addresses over which the peer is being served now.
CacheIsLive ==
  \A r \in Remotes : CacheHit(r) =>
    \A i \in DOMAIN pubAddrs[r] : Serving(r, pubAddrs[r][i]) # {}

\* DialWithConfig never returns a nil session with a nil error, although the
\* goroutines of one dial share the variable err and the last one wins.
DialErrReported == \A k \in DialKeys : main[k] = "failed" => mainErr[k]

\* With a negative ReconnectRetries the goroutine of an index stops only for
\* a session that is gone, closing or closed, or for a closed client
\* (config.go: "negative value: unlimited retries").
RetriesUnlimited ==
  Retries < 0 => \A k \in DialKeys, i \in Idx :
    worker[k][i] = "exit" => isClosed \/ sessions[k] = 0 \/ ncp[k][sessions[k]] # "open"

\* When a dialed session closes, all goroutines serving it end, unless the
\* client is closed first: the sweeper closes the sockets they read from, and
\* none of them goes on reconnecting for a session that is gone.
DialerWindsDown ==
  \A k \in DialKeys :
    (sessions[k] # 0 /\ ncp[k][sessions[k]] = "closed") ~>
      (isClosed \/ \A i \in Idx : worker[k][i] \in {"idle", "nodial", "exit"})
=============================================================================
