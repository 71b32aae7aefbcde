---------------------------- MODULE PubAddrFetch ----------------------------
(***************************************************************************)
(* What getPubAddrsFromRemote promises its callers when the cache misses:  *)
(* it returns once, either a list with a valid address, which is then      *)
(* cached, or an error, and then the cache is left alone.  Every entry of  *)
(* the list is one that the peer has offered at that place.                *)
(* TunaSessionClient has this promise as DialFetched, DialFetchErr and the *)
(* Reconnect counterparts; PubAddrRequest is the code that keeps it.       *)
(***************************************************************************)
CONSTANTS
  Places,   \* the places of a list
  Entries,  \* what can be at a place
  Lists,    \* lists with a valid entry
  Errors,   \* the errors of getPubAddrsFromRemote
  None      \* nil

VARIABLES
  result,    \* the list the call returned
  err,       \* the error it returned, "none" before it has
  pubAddrs,  \* c.pubAddrs[remoteAddr]
  offered    \* place -> entries the peer has offered there since the call

vars == <<result, err, pubAddrs, offered>>

Init ==
  /\ result = None /\ err = "none"
  /\ pubAddrs \in Lists \cup {None}
  /\ offered \in [Places -> SUBSET Entries]

Offer ==
  /\ offered' \in [Places -> SUBSET Entries]
  /\ \A j \in Places : offered[j] \subseteq offered'[j]
  /\ UNCHANGED <<result, err, pubAddrs>>

Found ==
  /\ err = "none"
  /\ err' = "nil"
  /\ result' \in Lists
  /\ \A j \in Places : result'[j] \in offered[j]
  /\ pubAddrs' = result'
  /\ UNCHANGED offered

Failed ==
  /\ err = "none"
  /\ err' \in Errors
  /\ UNCHANGED <<result, pubAddrs, offered>>

Next == Offer \/ Found \/ Failed

Spec == Init /\ [][Next]_vars
=============================================================================
