----------------------------- MODULE MessagePipe -----------------------------
(***************************************************************************)
(* What a connection promises the session above it: the messages that were *)
(* written in full arrive in the order they were written, none twice, none *)
(* altered and none without the ones before it.                            *)
(***************************************************************************)
EXTENDS Sequences, Naturals

CONSTANT Msgs

VARIABLES written, delivered

Init == written = <<>> /\ delivered = <<>>

Write(m) == written' = Append(written, m) /\ UNCHANGED delivered

Deliver ==
  /\ Len(delivered) < Len(written)
  /\ delivered' = Append(delivered, written[Len(delivered) + 1])
  /\ UNCHANGED written

Next == Deliver \/ \E m \in Msgs : Write(m)

Spec == Init /\ [][Next]_<<written, delivered>>
=============================================================================
