# A TLA+ model of nkn-tuna-session

This directory holds a specification of the session layer of nkn-tuna-session,
the TLC runs that check it on small instances, and TLAPS proofs of what holds
for instances of every size.  Line numbers refer to the files under `src/`.

## 1. The system

A `TunaSessionClient` (`client.go`) gives its application *sessions*: reliable
streams (`ncp.Session`) that run over several TCP connections at once, one per
*connection index*.  A client can dial and listen at the same time.

| part | code | state | operations |
|---|---|---|---|
| session tables | `client.go` 46-102, 405-505, 676-898, 1047-1069 | `sessions`, `sessionConns`, `connCount`, `closedSessionKey`, `addrConnCount`, `isClosed`, `acceptSession` | `listenNet`, `handleMsg`, `handleConn`, `removeClosedSessions`, `AcceptSession`, `Close`, `CloseOneConn`, `IsSessClosed`, the sending closure of `newSession` |
| dialing and reconnection | `client.go` 559-674, 958-1045 | one goroutine per index, their shared `err`, `pubAddrs` | `DialWithConfig`, `dialTcpConn`, `reconnect`, `getCachedPubAddrs` |
| request for public addresses | `client.go` 255-403 | three goroutines and two channels per request | `getPubAddrsFromRemote`, `listenNKN`, `getPubAddrs` |
| tuna exits | `client.go` 129-244, 900-956 | `listeners`, `tunaExits`, `onConnect` | `Listen`, `startExits`, `RotateOne`, `RotateAll` |
| UDP session, dialing side | `udp.go` 53-109, `udpsession.go` | `udpConn`, `tcpConn`, `peer` | `DialUDPWithConfig`, `DialUpSession`, the goroutine that watches and dials again, `recvMsg`, `Close` |
| UDP session, listening side | `udp.go` 14-51, 111-129, `udpsession.go` | `sessKeyToSessAddr`, `udpAddrToSessAddr`, `tcpConns` | `ListenUDP`, `handleUdpListenerTcp`, `handleMetaData`, `handleConnClosed`, `Close` |
| UDP receive buffer | `udpsession.go` 176-197, 250-261, 329-341 | `recvChan`, `recvSize`, `readContext` | `recvMsg`, `ReadFrom`, `SetReadDeadline` |
| framing | `message.go` 104-154 | the byte stream of a `Conn` | `writeMessage`, `readMessage` |
| free ports, node selection (not modelled) | `util.go`, `node.go` | a lock | `GetFreePort`, `sortMeasuredNodes` |

How the parts meet.  A dialer asks the peer's NKN client for the public
addresses of its tuna exits (`getPubAddrsFromRemote`; the peer's `listenNKN`
answers), dials one TCP connection per address, puts each into `sessionConns`,
makes the `ncp.Session` and starts one goroutine per connection.  The listener's
`listenNet` starts one goroutine per accepted connection; the first one to
arrive for a session key makes the session and offers it to `AcceptSession`.
Both sides run `handleConn`, which counts itself in, reads until an error, and
counts itself out in a deferred critical section; the last one out ends the
session.  Beside them run the sweeper `removeClosedSessions` (every second), the
sending closure that `ncp` calls, and `Close`.  All of them share one mutex, but
each takes it for short sections only, and what happens between two sections of
one goroutine is where the difficulty lies.

In UDP mode a session is one UDP socket and one TCP connection on the dialing
side.  The TCP connection only tells whether the peer is there; it carries nothing
but CLOSE messages.  The listener has one UDP socket for all sessions and learns
a session from the datagram that announces it.  When the TCP connection breaks, the
dialer's watching goroutine makes a new pair and announces it again.

What is hard about it, and what the properties are aimed at:

* a session is spread over four maps that three kinds of goroutines change;
* a session leaves the tables in one section and is closed after it;
* several connections of a new session arrive together;
* counts per peer are shared by sessions and go down late;
* an old connection's deferred section runs after its successor registered;
* a retry loop must end with its session and must not end before it;
* goroutines of one dial share an error variable;
* three requests, a deadline and late answers race for one result;
* rotations of tuna exits overlap with each other, with a start that fails and
  with `Close`;
* a UDP reconnect replaces sockets that other goroutines are using;
* the UDP listener keeps three maps in step, some of them read without the lock;
* a write that fails half way leaves part of a frame in the stream.

`PROJECT.json` lists these and the other hazards at their lines.

## 2. Modules

| module | what it is |
|---|---|
| `SessionTable` | the tables of one client, the listener, `handleConn`, the sweeper, `Close`, `CloseOneConn`, `AcceptSession`, the sending closure |
| `TunaSessionClient` | extends it with `DialWithConfig`, the goroutine per index, `reconnect` and the address cache: the whole client |
| `MCTunaSessionClient` | small instances of the client |
| `PubAddrRequest` | one call of `getPubAddrsFromRemote` and the peer that answers it |
| `PubAddrFetch` | what such a call promises: one step from no result to a list or an error |
| `ClientTypes_proofs` | type correctness of the client |
| `ClientTables_proofs` | which session a key stands for, and that a session is handed out once |
| `ClientCounts_proofs` | the counters of `handleConn` |
| `ClientDials_proofs` | the goroutines of a dial and their connections |
| `TunaExits`, `MCTunaExits` | `Listen`, `ListenUDP`, `startExits`, rotations, `Close` |
| `TunaExits_proofs` | no exit is lost or closed too early; the request for addresses keeps its promise |
| `UdpDialer`, `MCUdpDialer` | a dialed UDP session and its goroutines |
| `UdpListener`, `MCUdpListener` | the UDP listener, its receiver and a goroutine per TCP connection |
| `UdpSystem` | extends `UdpDialer`, instantiates `UdpListener`: both over a network |
| `UdpSystem_proofs` | the dialed session, alone and with its listener |
| `UdpRecvBuffer`, `MCUdpRecvBuffer` | the receive buffer of a UDP session and the callers of `ReadFrom` |
| `DatagramQueue` | what the buffer promises: a queue with two limits |
| `UdpReceive_proofs` | the maps of the listener; the receive buffer keeps its promise |
| `Framing`, `MCFraming` | one direction of a TCP connection, byte by byte |
| `MessagePipe` | what a connection promises: an ordered pipe of messages |
| `Framing_proofs` | a connection keeps its promise |

### SessionTable

One action is one critical section of the Go code, together with what the
goroutine does before it that others cannot see.

| state | code |
|---|---|
| `sessions[k]` | `c.sessions[k]`; sessions of one key are numbered, 0 is absent |
| `sessionConns[k]` | the inner map, `NilMap` if there is none, else index to connection |
| `connCount[k]`, `addrConnCount[r][a]` | the counters, 0 for an absent entry (Go reads 0 there) |
| `closedSessionKey` | the keys in the cache that expires |
| `gens[k]`, `ncp[k][n]` | how many `ncp.Session` objects were made for `k`, and the state of each |
| `pc[c]`, `ckey`, `cidx`, `caddr`, `csess` | the goroutine of connection `c` and its local variables |
| `link[c]` | whether this client closed the socket |

| action | code (`client.go`) |
|---|---|
| `Register` | the goroutine of an accepted connection up to the end of its section, 405-487 |
| `FirstMsg`, `FirstMsgErr` | first message and offer by the creator of the session, 489-502 |
| `HandleConn` | counting in, 805-827 |
| `HandleConnDefer` | counting out, 829-851 and the read loop 858-874 that leads to it |
| `HandleConnClose` | `sess.Close()` after the section, 852-855 |
| `ListenerReturn` | the deferred `conn.Close()`, 465 |
| `SweepWake`, `Sweep` | `removeClosedSessions`, 876-898; `isClosed` is read outside the lock |
| `Close`, `CloseOneConn`, `AcceptSession` | 698-755, 1047-1057, 676-692 |
| `SendWithErr` | the sending closure of `newSession` after a failed write, 763-784 |
| `NcpClose`, `NcpClosed`, `Expire` | the environment: the `ncp` library, the cache's expiry |

Merged on purpose: accepting a connection, reading its metadata and its critical
section are one step, because nothing of the client is read or written before
the section.  A connection whose first messages are not accepted is closed
without a trace.  A connection object is taken from a pool (`Conns`) and never
used again; which free one is taken is fixed by `CHOOSE`, as they do not differ.
Session keys and connection indexes are model values: `sessionKey` and `connID`
are injective on the addresses and identifiers in use.  `ncp.Session.Close` takes
effect in two steps (closing, closed), since `IsClosed` follows the exchange of
close packets.

### TunaSessionClient

`main[k]` is the program counter of `DialWithConfig` for key `k`, `mainErr[k]`
whether its variable `err` is set, `worker[k][i]` the goroutine of index `i`,
`wconn` its connection, `target` the address it dials, `tries` its attempts.
The goroutines of one dial write `err` without synchronisation; the model lets
the last writer win.  `DialWithConfig` reads `c.sessionConns[sessKey]` after
`wg.Wait()`, when no goroutine of this dial writes to it any more.  In
`reconnect` the check of `isClosed` and the look-up of the session are one step:
both conditions are stable once true.  A fetch of addresses is one step here;
`PubAddrRequest` refines it.

### PubAddrRequest

Its specification is `RequestSpec`: the module shares no name with `TunaExits`, so that
one module can hold the proofs about both.  The same goes for `BufferSpec` of
`UdpRecvBuffer`.

`g[i]` is the goroutine of attempt `i`, `msgChan` and `errChan` the two channels
of capacity one, `ctx` and `doneCtx` the two contexts, `replies[i]` the reply that
reaches the attempt.  A request may never be handled (it or the reply is lost, the
peer does not accept the address), may be handled twice, and a later reply may
overtake an earlier one.

The peer's `listenNKN` looks at the session (`ListenNKN`; `IsSessClosed` gives up the
lock when it returns, 381) and then reads `tunaExits` without the lock, one exit after
the other (`GetPubAddrs`, 337-351); with the last one it replies.  Before and between
these steps the session closes or its closed key expires (`PeerSession`), and exits
connect, lose their entry node or are rotated (`PeerExit`).  So a list can mix addresses
of before and after a rotation, and can be sent for a session that has closed since
the look.  Reading the address and the ports of one exit is one step.  `listenNKN`
starts when `startExits` has assigned `tunaExits`, which is therefore not nil there.
One such loop is modelled; a peer whose `startExits` ran twice has two.

`offered[j]` is a history variable: the addresses the exit at place `j` has had since the
session was first seen open during the call.  `PubAddrFetch` takes `result`, `err`,
`pubAddrs` and `offered` under the same names, so the refinement mapping is the
identity on them.

### TunaExits

`main` and `next` say how far `startExits` is, `made` is its variable `exits`,
`rot[r]`, `rte[r]`, `ri[r]` are a rotation and its local variables.  `run` and
`conn` are the exits that run and that have connected.  `Listen` holds the client's
lock during `startExits`, `ListenUDP` does not; `Unlocked` guards the actions that
need the lock.  A rotation is two steps, since `RotateOne` waits for its exit
without the lock.  A tuna exit is external: it connects at any time or never.
`StartErr` stands for all three ways in which `startExits` fails.  Which of the exits not
made yet is made next is fixed by `CHOOSE`, as they do not differ.

### UdpDialer

A dial that gets as far as two sockets makes *pair* `n`; `udp[n]` and `tcp[n]` are
their states, `cur` the pair in `udpConn` and `tcpConn`, `peer` the pair whose address
`peer` holds.  `dial` is the program counter of `DialUpSession`, which is run either
by `DialUDPWithConfig` (`app = "dial"`) or by the watching goroutine (`mon = "dial"`),
never by both.  `Close` is three steps with a lock of their own; it is called by the
application and by `DialUpSession` after an error.  A nil `peer` that `recvMsg` reads
is the state `recv = "panic"`.  An attempt to connect fails with an error that leads to
the next attempt, or with `ErrClosed`, when the peer answers that the session is closed
(`client.go` 316-317), which ends the goroutine at once (`udp.go` 97-98).  `ended` is a
history variable: whether the peer has ended the session, by a CLOSE or by that answer.

### UdpListener

Both the UDP address and the TCP connection of a dialer are named by the dial that
made them.  Connections of one dialer are accepted in any order (`TcpAccept`): the new
one may come before the end of the old one.  `handleMetaData` is a look-up (without the lock) and a write (with it).
`handleConnClosed` is one step.  The goroutine of a connection is `mon[d]`, and its
last step deletes the entry of its *key*.  `Close` sends, closes the UDP connection
and replaces the maps in three steps; `TunaSessionClient.Close` then sets `isClosed`.

### UdpSystem

The dialer's pair `n` is the listener's dial `n`.  `meta` holds the announcements that
were sent; a datagram is delivered any number of times, late, or never.  `toL` and
`toD` hold the CLOSE messages in a TCP connection.  A connection delivers what was
written before its end, unless it breaks.  Each end learns of a break in its own time,
or never (`BreakAtDialer`, `BreakAtListener`), and what was under way to it is lost.
`UdpSession.Close` is composed at both ends.  `TunaSessionClient.Close` is not: `udp_dialer`
and `udp_listener` have it for their side.  The answer that the session is closed is left
out, too: `closedSessionKey` has no keys of UDP sessions, so this listener never gives it.

### UdpRecvBuffer, DatagramQueue

A datagram is its size.  `ReadFrom` takes a datagram in one step and subtracts its
size in another.  Read contexts are numbered: `rctx[r]` is the one that the `select`
of reader `r` evaluated, `ctx` the one in the session.  The refinement mapping takes
`recvChan` as the queue.

### Framing, MessagePipe

A size is written as digits to base `Base`, least significant first, a body as its
places.  A `Write` that fails leaves any proper prefix of its buffer in the stream and
gives up the write lock before its caller closes the connection, so that another
writer can follow it.  The reader takes bytes of a body for digits of any value, and
rejects what is not the whole of a body.  The reader's goroutine goes through the
phases address, metadata, data, with a limit of its own in each.  `written` and
`delivered` are the variables of `MessagePipe`.

## 3. Runs

| run | instance | properties |
|---|---|---|
| `listener` | one accepted key used for two sessions, one index, three connections, channel of capacity 1 | `TypeOK`, `LiveXorClosed`, `NoNilMapWrite`, `AcceptOnce`, `DroppedIsClosed`, `AddrCountExact`, `ClosedStays`, `NeverReplaced`, `LastOneOut` |
| `dialer` | fair, one dialed key, two indexes, three connections, `ReconnectRetries` -1, four kinds of answers | `DialedIsServed`, `DialedIsRegistered`, `DialErrReported`, `CacheIsLive`, `DialerWindsDown` |
| `unlimited_short` | `ReconnectRetries` -1, answers with both addresses or one | `RetriesUnlimited`, violated |
| `request` | fair, two attempts, two exits with an address or none | `FetchSpec`, `Returns` |
| `tuna_exits` | fair, two listeners, four exits, two rotating goroutines | `NoExitLost`, `InstalledRun`, `RotateReplaces`, `ConnectedServes` |
| `udp_dialer` | fair, `ReconnectRetries` 2, three pairs | `TypeOK`, `PeerIsSet`, `StaysClosed`, `LostIsReplaced`, `GoroutinesEnd` |
| `udp_unlimited` | `ReconnectRetries` -1, two pairs | `RedialsUnlimited`, violated |
| `udp_listener` | fair, one session dialed twice | `MapsAgree`, `ClosedForgets`, `CloseTellsAll`, `ClosedConnsLeave` |
| `udp_system` | fair, one pair | `DialerCloseReaches`, `ListenerCloseReaches` |
| `udp_system_redial` | two pairs | `ReconnectIsHeard`, violated |
| `udp_recv_buffer` | fair, two readers, sizes 0, 2 and 3, six bytes, three datagrams, two deadlines | `BufferTypeOK`, `SizeExact`, `QueueSpec`, `DeadlineEndsReads` |
| `framing` | fair, two writers, three messages, one of them too long, binary digits, sizes of two digits | `TypeOK`, `PipeSpec`, `StopsForReason`, `WrittenArrives` |

Every property is stated in words above its definition.  The type invariants of
`PubAddrRequest`, `UdpListener` and `TunaExits`, `NeverNothing` and `NoneLeft` of
`PubAddrRequest`, and `KnowsAnnounced` and `EndedByClose` of `UdpSystem`, are proved
(section 4) and not part of a run.

Bounds.  `Conns` bounds the connections of a behaviour.  Three are enough for two
connections that are served together and one that replaces either of them, which
is what the deferred sections, the counters and the table entries are about.
In `listener` all three have the same index, the case in which they also compete
for a table entry; `dialer` has two indexes.  `MaxGen` bounds the sessions per key:
2 where keys are used again.  `AcceptBuf` is 1 instead of 1024 (`client.go` 31), so that
the channel is full in `listener`.  In `listener` the three connections have one address,
so that its count goes up to three; in `dialer` the indexes have different ones.  Address
lists have an entry for every index, an unusable entry, no usable entry, or fewer entries
than indexes.  `dialer` retries without limit, the case in which nothing but the end of
the session ends its goroutines; for every other limit its safety properties are proved.
The runs switch deadlock checking off because they end when the connections, exits,
pairs, dials, messages or deadlines of the instance are used up; the application may
also stop calling at any time.  In `request` the peer can always move, so that deadlock
checking says nothing there; that the call itself does not get stuck is `Returns`.

Two attempts of `request` are one whose reply is used and one that it cancels at any of
its steps, and two exits are enough for a list that mixes old and new; three attempts
take TLC more than five minutes, and all but `Returns` is proved for any number.

Four exits are two for `Listen` and two for rotations, so that two rotations of one
index overlap, or `RotateAll` goes through both.  Three pairs are a session and two
reconnects, or one that failed half way and one after it; `udp_dialer` with
`ReconnectRetries` 2 reaches the last attempt.  Two dials of the listener are one
session that was dialed again; the goroutine of the first connection then meets the
second.  For several sessions at once the listener's invariants are proved.
In the receive buffer the sizes make the byte limit and the limit of datagrams bind in
turn (0 + 0 + 0, 3 + 2, 3 + 3).  Frames have two digits so that a size is split by
a failing write, and bodies of up to three places, one more than the limit.

The first-session precondition.  The sweeper deletes `connCount` for a closed
session while handlers of that session still run.  A key used again after its
closed entry expired therefore starts from a count that late handlers of the old
session decrease.  `LastOneOut` and `DroppedIsClosed` are stated for the first
session of a key.  Session identifiers are random, so a dialer never uses a key
twice on purpose; `listener` checks what holds for the second session as well.

The findings.  The three violated properties state what a comment of the repository says.

* `unlimited_short`.  `config.go:29` says that a negative `ReconnectRetries` means
  unlimited retries.  The goroutine of index 1 stops although its session is open:
  the peer's answer lists one address, `reconnect` then returns neither a connection
  nor an error (`client.go` 1038-1044), and the goroutine ends at line 660.  With
  answers that are long enough the property holds (`RetriesUnlimitedHolds`).
* `udp_unlimited`.  The same comment, in UDP mode.  After a reconnect that succeeded the
  goroutine compares its count with the limit (`udp.go` 102); no count is below a negative
  limit, so it returns.  The session is open, and nobody watches its new connection.
* `udp_system_redial`.  `udpsession.go` 45-46 says that a UDP session reconnects
  "without interrupting application usage".  The listener ignores the announcement
  of a session whose old address it still has (551), so replies go to a socket
  that the dialer has left.

Exceptions.  Some properties hold only under a condition that they name.  In each
case the model reaches states outside the condition where the conclusion fails:

* `PeerIsSet`, `StaysClosed`: not while a reconnect is under way.  A reconnect that
  overlaps `Close` installs its connections afterwards (`udpsession.go` 112), and one
  that fails half way sets `peer` to nil under `recvMsg` (247).
* `GoroutinesEnd`: only if `recvMsg` reads the socket in use.  A reconnect does not
  close the socket it replaces (113), and `recvMsg` may still be waiting on it.
* `LostIsReplaced`: only for a `ReconnectRetries` that is not negative; `udp_unlimited` shows
  the other case.
* `CloseTellsAll`: not for a session that was dialed again.  The goroutine of the old
  connection deletes the entry of the new one (`udp.go` 126).
* `RotateReplaces`, `NoExitLost`: not after `startExits` has failed.  It then has set
  `listeners` and not `tunaExits` (`client.go` 916-924).
* `DeadlineEndsReads`: only for a call with a deadline.  `Close` does not wake up a
  call of `ReadFrom` that has none (`udpsession.go` 183).

Fairness.  `FairSpec` of `TunaSessionClient` assumes that goroutines which can run
do, that the sweeper wakes up (it is a loop around `time.Sleep`), that a closing
`ncp` session finishes, and that a request or a dial ends.  The last holds because
both run under the session's context, which ends with the session.  A handler is
sure to leave only when its socket is closed.  Nothing is assumed of the peer, the
application or the expiry of the cache.  `RequestFairSpec` of `PubAddrRequest` assumes
goroutines and timers only; that a reply arrives or that the context ends is the
left side of `Returns`.

In the UDP modules goroutines are scheduled, calls that dial return, and a read of a
socket that is closed or broken fails; nobody has to send anything.  `SysFairSpec` of
`UdpSystem` adds that an unbroken TCP connection delivers what was written and its
end; a datagram need not arrive.  In `TunaExits` the goroutines that wait are
scheduled, no exit has to connect.  In `Framing` the writers and the reader are
scheduled, and a write on an open connection completes or fails.  In `UdpRecvBuffer` callers of
`ReadFrom` are scheduled and deadlines pass.

## 4. Proofs

All theorems hold for arbitrary constants that satisfy the named assumptions of
the modules: any sets of keys, connections, indexes, addresses and lists, any
bounds, any number of retries.

`ClientTypes_proofs`: `TypeCorrect` (`TypeOK` always holds) and
`NoNilMapWriteHolds`.  `TypeOK` is not inductive.  An action reads `csess[c]` or
`target[k][i]` as a session number or an address, so the invariant `TypeInv` adds
what the program counters say about those (`Identified`), that the connection
found in `sessionConns[k][i]` is one made for `k` and `i` (`Wired`), and
`NoNilMapWrite`.

`ClientTables_proofs`: `LiveXorClosedHolds`, `DroppedIsClosedHolds`,
`NeverReplacedHolds`, `ClosedStaysHolds`.  The invariant `TableInv` adds that a
key in the table stands for the last session made for it, that a key remembered
as closed had a session, that a handler which counted itself in has one of the
sessions made for its key, and that a dialed key has no session before
`DialWithConfig` installs it.  The last one is what makes `DialWithConfig`'s
unconditional `c.sessions[sessKey] = sess` safe.  The two action properties come
from the lemma `StepKinds`: a step keeps the sessions, makes one for a key that is
neither live nor closed, or ends some.

`AcceptOnceHolds` is there too.  The invariant `AcceptInv` says that the
goroutine which made a session is the only one that reads its first message, and
that such a session is neither in the channel nor handed out yet; a session made
later has a larger number than all that were offered.

`ClientCounts_proofs`: `AddrCountExactHolds`, `CacheIsLiveHolds`,
`DialedIsServedHolds` and `LastOneOutHolds`.  The invariant `CountInv`, on top of
`TypeInv` and `TableInv`, says that `addrConnCount` is the number of connections in
the loop per peer and address, and that `connCount` of the first session of a key
is the number of its handlers while the session is in the table.  That a dialed
session has somebody serving it needs that a dialed key has at most one session in its
life (`OneSession`, a conjunct of `CountInv` and proved with it): then the count is exact,
and only the last handler ends the session.

`ClientDials_proofs`: `DialErrReportedHolds`, `DialedIsRegisteredHolds` and
`RetriesUnlimitedHolds`.  The invariant `DialInv`, on top of `TypeInv` and `TableInv`,
says that a connection in use is the variable `conn` of the goroutine of its index,
which therefore never has two; that the connection is in `sessionConns` under that
index before the session is installed and until it leaves; and that the shared `err`
is set unless a goroutine has put its connection into the table.  The first part is
what makes the deferred deletion of `handleConn` safe on the dialing side.
`RetriesUnlimitedHolds` assumes `Retries < 0` and `FullLists` (answers have an address
for every index); without the latter it is false, as `unlimited_short` shows.  Its
invariant says that a goroutine has ended only for a session that has stopped, and
that a session which has stopped stays so.

`TunaExits_proofs`: `ExitsTypes`, `NoExitLostHolds`, `InstalledRunHolds` and
`RotateReplacesHolds`.  Until
`Close` an exit has one owner: an index of `c.tunaExits`, a place of `startExits`'
slice, or one rotation; the invariant `Owned` says so, and that owned exits run.
Without it two rotations could close each other's exits.  `RotateReplacesHolds` needs
that `c.tunaExits` is filled whenever the listeners are there and the lock is free
(`Filled`), which the lock that `Listen` holds throughout `startExits` provides.
For the request the module has `RequestTypes`, `NeverNothingHolds`, `NoneLeftHolds` and
`RequestRefinesFetch`.  The invariant `RequestInv` says that `doneCancel` is called only
behind a message (`CancelledByAnswer`), that a goroutine leaves only because of a context
or behind an error (`LeftFor`), that every list on its way has at each place an address
offered there (`FromPeer`), and that this goes for what `getPubAddrs` has read so far and
for what it may read next (`Reading`): once `listenNKN` has seen the session open, whatever
an exit has is offered, although the session may close meanwhile.

`UdpReceive_proofs`, the listener: `ListenerTypes`, `MapsAgreeHolds`,
`ClosedForgetsHolds` and `CloseTellsAllHolds`.  The two maps stay inverse because only
`recvMsg` inserts, so the key that it found absent is absent when it writes; the
invariant `MapsInv` adds that about its program counter.  `CloseTellsAllHolds` rests on
`InTable`: the only connection a session has had is in `tcpConns` while it is watched
and unbroken.

`UdpReceive_proofs`, the receive buffer: `BufferTypes`, `SizeExactHolds` and
`BufferRefinesQueue`.  `SizeExact` says that `recvSize` is the bytes in `recvChan` and
those taken by callers of `ReadFrom` that have not subtracted them yet.  It is
inductive together with the types and with `NothingTaken` (only a caller between the two
steps holds bytes).  The steps need how the two sums change when a datagram is appended,
when the first one leaves, and when one caller's share changes; these are the lemmas
before it.  The callers are assumed to be finitely many, else their sum is none.  The
refinement is step by step: a datagram that fits is put into the queue, the first half
of `ReadFrom` takes one from it, and every other step stutters, a drop included.

`UdpSystem_proofs`, the dialed session: `DialerTypes`, `PeerIsSetHolds` and
`StaysClosedHolds`.  The invariant `DialerInv` relates the three program counters
(`Phases`: one goroutine at a time is in `DialUpSession`), says what `DialUpSession` has
made at each of its steps (`DialSteps`), and that `peer` is the address of the present
socket while the session is established, unless it is being closed (`PeerKept`).

`UdpSystem_proofs`, both ends: `SystemDials` and `SystemListens` show that every
behaviour of the composition is one of `UdpDialer` and one of an open `UdpListener`, so
that neither the network nor the other end makes a part do what its own specification
does not allow; `SystemKeepsDialer` draws the dialer's invariants from the first.
`KnowsAnnouncedHolds` and `EndedByCloseHolds` relate the ends: the listener's
address for the session is that of a socket which the dialer has made and announced, and
the dialer takes its session to be closed by the peer only after the listener's `Close`
has written CLOSE.  The invariants are `Announced` (what the receiver holds between its
look-up and its write was announced, too) and `Told` (a CLOSE on its way is the
listener's).  They hold for any number of reconnects and any loss, delay and repetition
of datagrams; no run has them, since the proof covers the instances of `udp_system` and
`udp_system_redial`.

`Framing_proofs`: `FramingTypes`, `StopsForReasonHolds` and `FramingRefinesPipe`, for any
messages, writers, base and header length, where sizes fit into the header
(`FramingAssumption`).  First, `Uint` reads back what `PutUint32` has written; that is an
induction on the number of digits, done with the theorem of `WellFoundedInduction` that
speaks of sets.  `WriteInv` says who holds the write lock, that the address and the metadata
come first, that a dial which failed has given up its connection, and that only what
the session sent is written.  `ReadInv` says that there is a *tape*, all bytes ever written: the frames of the
written messages in order, then at most one frame that is begun or torn; and that the
reader stands between two frames of it or behind a header.  The stream alone does not
tell this, since a torn frame may be followed by whole ones.  The reader never delivers from
behind the tear: what follows it is a digit of the next header, which is no place of a
body, and only the whole of a body decodes.  So what is delivered is a prefix of what was
written, which is `MessagePipe`.

Only model-checked: the liveness properties (`DialerWindsDown`, `Returns`,
`ConnectedServes`, `LostIsReplaced`, `GoroutinesEnd`, `ClosedConnsLeave`,
`DialerCloseReaches`, `ListenerCloseReaches`, `DeadlineEndsReads`, `WrittenArrives`),
because fairness is outside the prover's reach.  Every safety property of a passing
run is proved, but for the second half of `ListenerCloseReaches`, which is one.

## 5. Not modelled

* The ciphers, shared keys and the encoding of metadata.  A message that does not
  decode is an error of the handler; `Framing` relies on nothing but that only the
  whole of an encoded body decodes.
* The contents of the sessions, which are `ncp`'s.
* `WriteTo`, `Write` and the methods of `UdpSession` that forward to its socket.
* Data races in Go's sense: a map that is read without the lock is read as it is.
* Logging, prices, the merging of configurations, whose values are constants here.
* `GetFreePort`, which probes ports under a lock of its own, and `sortMeasuredNodes`, a
  sort and a random draw over floating-point weights: neither shares state with the rest.
* Generated code under `pb/` and the examples.
* Two TCP clients composed.  The peer of `TunaSessionClient` is its environment: it
  connects, sends, answers and breaks off at any time, and answers are those that
  `PubAddrRequest` shows a peer to give.  A composition would restrict it, and two
  tables of three connections are beyond what TLC enumerates.
