------------------------------ MODULE TunaExits ------------------------------
(***************************************************************************)
(* The tuna exits of a listening client: Listen and ListenUDP, which start *)
(* them (startExits), the goroutines that wait for the first connection,   *)
(* RotateOne and RotateAll, which replace exits, and Close.  An exit is    *)
(* external: it runs once StartReverse is called, connects at some time or *)
(* never, and ends when it is closed.  The application calls Listen and    *)
(* ListenUDP from one goroutine.                                           *)
(***************************************************************************)
EXTENDS Integers

CONSTANTS
  NumTunaListeners,  \* config.NumTunaListeners
  Exits,             \* tuna exits that can be made
  Rotators,          \* goroutines that call RotateOne and RotateAll
  None               \* nil

ASSUME ExitsAssumption == NumTunaListeners \in Nat \ {0} /\ None \notin Exits

VARIABLES
  main,       \* the call that is in startExits: "idle", "Listen" or "ListenUDP"
  next,       \* where startExits is: 0 the listeners, i the exit with index i
  made,       \* index -> exit in its variable exits
  listeners,  \* len(c.listeners) > 0
  udpSess,    \* c.listenerUdpSess # nil
  tunaExits,  \* index -> c.tunaExits[i], None if the slice is nil
  isClosed,   \* c.isClosed; c.onClose is closed
  used,       \* exits made
  run,        \* exits started and not closed
  conn,       \* exits that have connected: te.OnConnect is closed
  watch,      \* exits whose goroutine waits to close c.onConnect
  onConnect,  \* c.onConnect is closed
  serve,      \* the goroutine that starts listenNKN and listenNet
  rot,        \* rotator -> program counter
  rte,        \* rotator -> its exit te
  ri,         \* rotator -> its index i
  rall,       \* rotator -> it is in RotateAll
  failed      \* history: a call of startExits returned an error

Idx == 1 .. NumTunaListeners

startVars == <<main, next, made, failed>>
clientVars == <<listeners, udpSess, tunaExits, isClosed>>
exitVars == <<used, run, conn>>
waitVars == <<watch, onConnect, serve>>
rotVars == <<rot, rte, ri, rall>>
vars == <<startVars, clientVars, exitVars, waitVars, rotVars>>

\* The variables hold what their Go counterparts can hold.
TypeOK ==
  /\ main \in {"idle", "Listen", "ListenUDP"}
  /\ next \in 0 .. NumTunaListeners + 1
  /\ made \in [Idx -> Exits \cup {None}]
  /\ listeners \in BOOLEAN /\ udpSess \in BOOLEAN /\ isClosed \in BOOLEAN
  /\ tunaExits \in [Idx -> Exits \cup {None}]
  /\ used \subseteq Exits /\ run \subseteq used /\ conn \subseteq used
  /\ watch \subseteq used
  /\ onConnect \in BOOLEAN /\ failed \in BOOLEAN
  /\ serve \in {"off", "wait", "on", "gone"}
  /\ rot \in [Rotators -> {"idle", "wait", "next", "panic"}]
  /\ rte \in [Rotators -> Exits \cup {None}]
  /\ ri \in [Rotators -> Idx]
  /\ rall \in [Rotators -> BOOLEAN]

Nil == [i \in Idx |-> None]

Init ==
  /\ main = "idle" /\ next = 0 /\ made = Nil
  /\ listeners = FALSE /\ udpSess = FALSE /\ tunaExits = Nil /\ isClosed = FALSE
  /\ used = {} /\ run = {} /\ conn = {}
  /\ watch = {} /\ onConnect = FALSE /\ serve = "off"
  /\ rot = [r \in Rotators |-> "idle"] /\ rte = [r \in Rotators |-> None]
  /\ ri = [r \in Rotators |-> 1] /\ rall = [r \in Rotators |-> FALSE]
  /\ failed = FALSE

\* bug: the lock is not taken
UnlockedAlways == TRUE

\* c.Lock is free: Listen holds it in startExits, ListenUDP does not
Unlocked == main # "Listen"

-----------------------------------------------------------------------------
(* Listen, ListenUDP and startExits *)

Begin(call) == main' = call /\ next' = 0 /\ made' = Nil

Listen ==
  /\ main = "idle"
  /\ \/ listeners /\ UNCHANGED <<main, next, made>>
     \/ ~listeners /\ Begin("Listen")
  /\ UNCHANGED <<failed, clientVars, exitVars, waitVars, rotVars>>

\* a session that is there is returned whatever became of its first call
ListenUDP ==
  /\ main = "idle"
  /\ listeners
  /\ \/ (udpSess \/ tunaExits # Nil) /\ UNCHANGED <<main, next, made>>
     \/ ~udpSess /\ tunaExits = Nil /\ Begin("ListenUDP")
  /\ udpSess' = TRUE
  /\ UNCHANGED <<failed, listeners, tunaExits, isClosed, exitVars, waitVars, rotVars>>

\* the exits started so far and the listeners stay
StartErr ==
  /\ main # "idle"
  /\ next <= NumTunaListeners
  /\ main' = "idle"
  /\ failed' = TRUE
  /\ UNCHANGED <<next, made, clientVars, exitVars, waitVars, rotVars>>

StartListeners ==
  /\ main # "idle"
  /\ next = 0
  /\ next' = 1
  /\ listeners' = TRUE
  /\ UNCHANGED <<main, made, failed, udpSess, tunaExits, isClosed, exitVars,
                 waitVars, rotVars>>

\* exits do not differ: the next one that was not made yet
Fresh(e) == e \in Exits \ used /\ e = CHOOSE x \in Exits \ used : TRUE

\* newTunaExit, the goroutine that waits for the exit, and StartReverse
StartExit(e) ==
  /\ main # "idle"
  /\ next \in Idx
  /\ Fresh(e)
  /\ made' = [made EXCEPT ![next] = e]
  /\ next' = next + 1
  /\ used' = used \cup {e}
  /\ run' = run \cup {e}
  /\ watch' = watch \cup {e}
  /\ UNCHANGED <<main, failed, clientVars, conn, onConnect, serve, rotVars>>

StartDone ==
  /\ main # "idle"
  /\ next = NumTunaListeners + 1
  /\ tunaExits' = made
  /\ serve' = "wait"
  /\ main' = "idle"
  /\ UNCHANGED <<next, made, failed, listeners, udpSess, isClosed, exitVars, watch,
                 onConnect, rotVars>>

-----------------------------------------------------------------------------
(* The goroutines that wait *)

\* external: the exit finds a node
Connect(e) ==
  /\ e \in run \ conn
  /\ conn' = conn \cup {e}
  /\ UNCHANGED <<startVars, clientVars, used, run, waitVars, rotVars>>

WatchReady(e) == e \in watch /\ e \in conn

\* bug: nobody closes onConnect
WatchForgets(e) ==
  /\ WatchReady(e)
  /\ watch' = watch \ {e}
  /\ UNCHANGED <<startVars, clientVars, exitVars, onConnect, serve, rotVars>>

\* connectedOnce closes onConnect
WatchConnected(e) ==
  /\ WatchReady(e)
  /\ watch' = watch \ {e}
  /\ onConnect' = TRUE
  /\ UNCHANGED <<startVars, clientVars, exitVars, serve, rotVars>>

WatchClosed(e) ==
  /\ e \in watch
  /\ isClosed
  /\ watch' = watch \ {e}
  /\ UNCHANGED <<startVars, clientVars, exitVars, onConnect, serve, rotVars>>

\* listenNKN and the listenNet loops start
ServeOn ==
  /\ serve = "wait"
  /\ onConnect
  /\ serve' = "on"
  /\ UNCHANGED <<startVars, clientVars, exitVars, watch, onConnect, rotVars>>

ServeClosed ==
  /\ serve = "wait"
  /\ isClosed
  /\ serve' = "gone"
  /\ UNCHANGED <<startVars, clientVars, exitVars, watch, onConnect, rotVars>>

-----------------------------------------------------------------------------
(* RotateOne and RotateAll *)

Rotating(r, i, all, e) ==
  /\ Unlocked
  /\ listeners
  /\ Fresh(e)
  /\ used' = used \cup {e}
  /\ run' = run \cup {e}
  /\ rot' = [rot EXCEPT ![r] = "wait"]
  /\ rte' = [rte EXCEPT ![r] = e]
  /\ ri' = [ri EXCEPT ![r] = i]
  /\ rall' = [rall EXCEPT ![r] = all]
  /\ UNCHANGED <<startVars, clientVars, conn, waitVars>>

\* newTunaExit and StartReverse; without an exit the call returns an error
Rotate(r, i, all, e) == rot[r] = "idle" /\ Rotating(r, i, all, e)

RotateNext(r, e) == rot[r] = "next" /\ Rotating(r, ri[r] + 1, TRUE, e)

RotateErr(r) ==
  /\ rot[r] = "next"
  /\ rot' = [rot EXCEPT ![r] = "idle"]
  /\ UNCHANGED <<startVars, clientVars, exitVars, waitVars, rte, ri, rall>>

\* bug: the old exit is left running
NoneClosed(old) == run

\* bug: the exit with the first index is closed, too
FirstClosed(old) == run \ {old, tunaExits[1]}

\* oldTe.Close is called
WithoutOld(old) == run \ {old}

\* RotateAll has another index to go to
More(r) == rall[r] /\ ri[r] < NumTunaListeners

\* after <-te.OnConnect.C; indexing the nil slice panics
RotateSwap(r) ==
  /\ rot[r] = "wait"
  /\ rte[r] \in conn
  /\ Unlocked
  /\ IF tunaExits = Nil
     THEN /\ rot' = [rot EXCEPT ![r] = "panic"]
          /\ UNCHANGED <<run, tunaExits, rte>>
     ELSE /\ tunaExits' = [tunaExits EXCEPT ![ri[r]] = rte[r]]
          /\ run' = WithoutOld(tunaExits[ri[r]])
          /\ rot' = [rot EXCEPT ![r] = IF More(r) THEN "next" ELSE "idle"]
          /\ rte' = [rte EXCEPT ![r] = None]
  /\ UNCHANGED <<startVars, listeners, udpSess, isClosed, used, conn, waitVars, ri, rall>>

-----------------------------------------------------------------------------
\* TunaSessionClient.Close, as far as exits are concerned
Close ==
  /\ ~isClosed
  /\ Unlocked
  /\ run' = run \ {tunaExits[i] : i \in Idx}
  /\ isClosed' = TRUE
  /\ UNCHANGED <<startVars, listeners, udpSess, tunaExits, used, conn, waitVars, rotVars>>

Waiting(e) == WatchConnected(e) \/ WatchClosed(e)

Serving == ServeOn \/ ServeClosed

Next ==
  \/ Listen \/ ListenUDP \/ StartErr \/ StartListeners \/ StartDone
  \/ Serving \/ Close
  \/ \E e \in Exits : StartExit(e) \/ Connect(e) \/ Waiting(e)
  \/ \E r \in Rotators :
       \/ RotateErr(r) \/ RotateSwap(r)
       \/ \E e \in Exits :
            RotateNext(r, e) \/ \E i \in Idx, all \in BOOLEAN :
              (all => i = 1) /\ Rotate(r, i, all, e)

Spec == Init /\ [][Next]_vars

\* the waiting goroutines are scheduled; no exit has to connect
FairSpec ==
  Spec /\ WF_vars(Serving) /\ \A e \in Exits : WF_vars(Waiting(e))

-----------------------------------------------------------------------------
(* Properties *)

Installed == {tunaExits[i] : i \in Idx} \ {None}

\* exits that a goroutine holds in a variable of its own
Held ==
  (IF main = "idle" THEN {} ELSE {made[i] : i \in Idx})
    \cup {rte[r] : r \in Rotators}

\* No exit is lost: one that runs is in c.tunaExits, where Close finds it, or
\* in the hands of startExits or of a rotation, however many rotations of the
\* same index overlap.  (startExits that returns an error loses its exits.)
NoExitLost == ~failed /\ ~isClosed => run \subseteq Installed \cup Held

\* The exits in c.tunaExits are running until Close: no rotation closes an exit
\* that another one has just installed.
InstalledRun == ~isClosed => Installed \subseteq run

\* Once one of the exits that Listen started connects, the accept loops start.
ConnectedServes ==
  (watch \cap conn # {} /\ serve = "wait") ~> (serve \in {"on", "gone"})

\* A rotation finds an exit to replace at its index, as the comments of RotateOne
\* and RotateAll say: one that begins while Listen starts the exits waits for it,
\* and none meets the nil slice.  (After a startExits that failed one can.)
RotateReplaces == ~failed => \A r \in Rotators : rot[r] # "panic"
=============================================================================
