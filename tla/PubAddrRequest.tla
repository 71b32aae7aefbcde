--------------------------- MODULE PubAddrRequest ---------------------------
(***************************************************************************)
(* One call of getPubAddrsFromRemote (client.go) after the cache missed:   *)
(* its goroutines, one per attempt, the channels they share, the contexts, *)
(* and at the other end the peer's listenNKN.  Requests and replies are    *)
(* messages that may be lost (they need not be handled), duplicated (one   *)
(* can be handled again) and reordered (a reply overtakes an earlier one). *)
(* listenNKN looks whether the session is closed and then reads the exits  *)
(* one by one without the lock, while the session closes and exits rotate. *)
(***************************************************************************)
EXTENDS Integers

CONSTANTS
  Attempts,       \* the goroutines, three of them in the code
  NumExits,       \* the peer's len(c.tunaExits)
  Addrs, NoAddr,  \* the address of an exit; none before it has connected
  SessionClosed,  \* the answer for a session that is closed
  Garbled,        \* an answer that does not decode
  Null            \* nil; an empty channel; listenNKN waiting for a message

Places == 1 .. NumExits
Entries == Addrs \cup {NoAddr}

\* answers of getPubAddrs, and those among them with a valid entry
AllLists == [Places -> Entries]
Lists == {l \in AllLists : \E j \in Places : l[j] # NoAddr}

Answers == AllLists \cup {SessionClosed, Garbled}

Errors == {"ErrClosed", "ErrNoPubAddr", "ErrDecode", "ErrSend", "ErrCtx"}

\* there is an attempt and an exit, and the values are told apart
ASSUME RequestAssumption ==
  /\ Attempts # {} /\ NumExits \in Nat \ {0}
  /\ NoAddr \notin Addrs
  /\ SessionClosed # Garbled
  /\ AllLists \cap {SessionClosed, Garbled} = {}
  /\ Null \notin Answers \cup Attempts

VARIABLES
  ctx,       \* the caller's context is done
  doneCtx,   \* doneCancel has been called
  g,         \* attempt -> program counter of its goroutine
  msgChan,   \* the message in the channel of capacity 1
  errChan,   \* an error is in the channel of capacity 1
  result,    \* the list the call returned
  err,       \* the error it returned, "none" before it has
  pubAddrs,  \* c.pubAddrs[remoteAddr]
  replies,   \* attempt -> the reply that reaches its respChan
  serving,   \* the attempt whose request listenNKN answers
  place,     \* the exit that getPubAddrs reads next
  answer,    \* the entries it has read, NoAddr from place on
  closed,    \* the peer's session is closed
  exits,     \* place -> the address of the peer's exit there
  offered    \* history: place -> the addresses the peer has had there since its
             \* session was first seen open during the call

callVars == <<ctx, doneCtx, g, msgChan, errChan, result, err, pubAddrs>>
listenVars == <<serving, place, answer>>
peerVars == <<closed, exits, offered>>
requestVars == <<callVars, replies, listenVars, peerVars>>

NoEntries == [j \in Places |-> NoAddr]

RequestTypeOK ==
  /\ ctx \in BOOLEAN /\ doneCtx \in BOOLEAN /\ errChan \in BOOLEAN
  /\ g \in [Attempts -> {"timer", "sent", "exit"}]
  /\ msgChan \in Answers \cup {Null}
  /\ result \in Lists \cup {Null}
  /\ err \in Errors \cup {"none", "nil"}
  /\ pubAddrs \in Lists \cup {Null}
  /\ replies \in [Attempts -> Answers \cup {Null}]
  /\ serving \in Attempts \cup {Null}
  /\ place \in Places
  /\ answer \in AllLists
  /\ closed \in BOOLEAN
  /\ exits \in AllLists
  /\ offered \in [Places -> SUBSET Entries]

RequestInit ==
  /\ ctx \in BOOLEAN
  /\ doneCtx = FALSE
  /\ g = [i \in Attempts |-> "timer"]
  /\ msgChan = Null
  /\ errChan = FALSE
  /\ result = Null /\ err = "none"
  /\ pubAddrs \in Lists \cup {Null}
  /\ replies = [i \in Attempts |-> Null]
  /\ serving = Null /\ place = 1 /\ answer = NoEntries
  /\ closed \in BOOLEAN
  /\ exits \in AllLists
  /\ offered = [j \in Places |-> IF closed THEN {} ELSE {exits[j]}]

-----------------------------------------------------------------------------
(* The goroutine of one attempt *)

\* doneCtx is a child of ctx
Done == ctx \/ doneCtx

Exit(i) == g' = [g EXCEPT ![i] = "exit"]

\* cancelled before its timer fired
GiveUp(i) ==
  /\ g[i] = "timer"
  /\ Done
  /\ Exit(i)
  /\ UNCHANGED <<ctx, doneCtx, msgChan, errChan, result, err, pubAddrs,
                 replies, listenVars, peerVars>>

\* the timer fired (or both were ready) and multiClient.Send succeeds ...
SendOk(i) ==
  /\ g[i] = "timer"
  /\ g' = [g EXCEPT ![i] = "sent"]
  /\ UNCHANGED <<ctx, doneCtx, msgChan, errChan, result, err, pubAddrs,
                 replies, listenVars, peerVars>>

\* ... or fails: the first error is kept
SendErr(i) ==
  /\ g[i] = "timer"
  /\ errChan' = TRUE
  /\ Exit(i)
  /\ UNCHANGED <<ctx, doneCtx, msgChan, result, err, pubAddrs, replies,
                 listenVars, peerVars>>

\* select { case msgChan <- msg: default: }
Put(m) == msgChan' = IF msgChan = Null THEN m ELSE msgChan

\* bug: the other goroutines are left to their timers and answers
NoCancel == UNCHANGED doneCtx

DoneCancel == doneCtx' = TRUE

\* the reply to this attempt's request
Answered(i, m) ==
  /\ g[i] = "sent"
  /\ m = replies[i]
  /\ Put(m)
  /\ DoneCancel
  /\ Exit(i)
  /\ replies' = [replies EXCEPT ![i] = Null]
  /\ UNCHANGED <<ctx, errChan, result, err, pubAddrs, listenVars, peerVars>>

Cancelled(i) ==
  /\ g[i] = "sent"
  /\ Done
  /\ Exit(i)
  /\ replies' = [replies EXCEPT ![i] = Null]
  /\ UNCHANGED <<ctx, doneCtx, msgChan, errChan, result, err, pubAddrs, listenVars,
                 peerVars>>

-----------------------------------------------------------------------------
(* After wg.Wait() *)

Waited == \A i \in Attempts : g[i] = "exit"

\* decoding the message: SessionClosed, then the search for a valid address
Outcome(m) ==
  CASE m = Garbled       -> "ErrDecode"
    [] m = SessionClosed -> "ErrClosed"
    [] m \in Lists       -> "nil"
    [] OTHER             -> "ErrNoPubAddr"

Return ==
  /\ err = "none"
  /\ Waited
  /\ err' = IF msgChan # Null THEN Outcome(msgChan)
            ELSE IF errChan THEN "ErrSend"
            ELSE IF ctx THEN "ErrCtx" ELSE "nil"
  /\ result' = IF msgChan \in Lists THEN msgChan ELSE Null
  /\ pubAddrs' = IF msgChan \in Lists THEN msgChan ELSE pubAddrs
  /\ UNCHANGED <<ctx, doneCtx, g, msgChan, errChan, replies, listenVars, peerVars>>

\* external: the caller's deadline passes or its session is cancelled
Expire ==
  /\ ~ctx
  /\ ctx' = TRUE
  /\ UNCHANGED <<doneCtx, g, msgChan, errChan, result, err, pubAddrs, replies,
                 listenVars, peerVars>>

-----------------------------------------------------------------------------
(* The peer's listenNKN.  It runs when startExits has assigned c.tunaExits, *)
(* so the slice is not nil; later only its elements are replaced.           *)

\* msg.Reply; a reply that comes after the attempt has left is read by nobody
Reply(i, m) == replies' = IF g[i] = "sent" THEN [replies EXCEPT ![i] = m] ELSE replies

\* bug: a session that was closed is not noticed
IsSessClosedNever == FALSE

IsSessClosed == closed

\* the request of an attempt is taken; one that is not accepted or cannot be
\* answered is one that is never taken
ListenNKN(i) ==
  /\ serving = Null
  /\ g[i] = "sent"
  /\ IF IsSessClosed
     THEN Reply(i, SessionClosed) /\ UNCHANGED serving
     ELSE serving' = i /\ UNCHANGED replies
  /\ UNCHANGED <<callVars, place, answer, peerVars>>

\* one iteration of getPubAddrs, and after the last one the reply
GetPubAddrs ==
  LET l == [answer EXCEPT ![place] = exits[place]] IN
  /\ serving # Null
  /\ IF place < NumExits
     THEN /\ place' = place + 1 /\ answer' = l
          /\ UNCHANGED <<serving, replies>>
     ELSE /\ Reply(serving, l)
          /\ serving' = Null /\ place' = 1 /\ answer' = NoEntries
  /\ UNCHANGED <<callVars, peerVars>>

\* external: some other program answers at that address
GarbledReply(i) ==
  /\ g[i] = "sent"
  /\ Reply(i, Garbled)
  /\ UNCHANGED <<callVars, listenVars, peerVars>>

\* what the peer has with session closed or not (c) and exits x is recorded, from
\* the first time on that its session is not closed
Observe(c, x) ==
  offered' = [j \in Places |->
    offered[j] \cup (IF c /\ offered[j] = {} THEN {} ELSE {x[j]})]

\* the peer's session closes, or its closed key expires
PeerSession ==
  /\ closed' = ~closed
  /\ Observe(~closed, exits)
  /\ UNCHANGED <<callVars, replies, listenVars, exits>>

\* an exit of the peer connects or loses its entry node, or RotateOne replaces it
PeerExit(j, a) ==
  /\ exits' = [exits EXCEPT ![j] = a]
  /\ Observe(closed, exits')
  /\ UNCHANGED <<callVars, replies, listenVars, closed>>

Attempt(i) ==
  \/ GiveUp(i) \/ SendOk(i) \/ SendErr(i) \/ Cancelled(i)
  \/ \E m \in Answers : Answered(i, m)

RequestNext ==
  \/ \E i \in Attempts : Attempt(i) \/ ListenNKN(i) \/ GarbledReply(i)
  \/ Return \/ Expire \/ GetPubAddrs
  \/ PeerSession \/ \E j \in Places, a \in Entries : PeerExit(j, a)

RequestSpec == RequestInit /\ [][RequestNext]_requestVars

\* goroutines are scheduled and timers fire; nothing is assumed about the
\* caller's context, the peer and the network
RequestFairSpec ==
  /\ RequestSpec
  /\ WF_requestVars(Return)
  /\ \A i \in Attempts : WF_requestVars(Attempt(i))

-----------------------------------------------------------------------------
(* Properties *)

\* The call never returns a nil list with a nil error, which its callers would
\* dereference: when no message and no error was left behind, it was the
\* caller's context that ended the goroutines, so ctx.Err() is not nil.
NeverNothing == err = "nil" => result # Null

\* The channels are closed after every goroutine has left: none of them can
\* send on a closed channel, and none outlives the call.
NoneLeft == err # "none" => \A i \in Attempts : g[i] = "exit"

Fetch == INSTANCE PubAddrFetch WITH None <- Null

\* The call keeps the promise its callers are built on: one result, a list or an
\* error, the list cached if and only if it is returned, and every address of it
\* one that the peer's exit at that place had during the call, at a time when the
\* session was not closed or later.  A list may mix addresses of before and after
\* a rotation, and may come after the session has closed; it never comes from a
\* peer whose session was closed all the time.
FetchSpec == Fetch!Spec

\* With the caller's context done, or one answer there for a goroutine that
\* waits for it, the call returns, although the peer and the network may not
\* answer the other attempts.
Returns ==
  (ctx \/ \E i \in Attempts : replies[i] # Null) ~> (err # "none")
=============================================================================
