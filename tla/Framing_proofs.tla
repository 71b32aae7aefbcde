--------------------------- MODULE Framing_proofs ---------------------------
(***************************************************************************)
(* Proofs about Framing.  Uint32 reads back what PutUint32 has written, by *)
(* induction on the number of bytes.  WriteInv says who may write what;    *)
(* ReadInv that some tape, everything ever written to the connection, has  *)
(* the frames of the written messages, then at most one frame that is      *)
(* begun or torn, and that the reader stands at the start of a frame or    *)
(* behind its header.  A tear is never completed: what follows it is a     *)
(* digit, and a body has none.                                             *)
(***************************************************************************)
EXTENDS Framing, WellFoundedInduction, TLAPS

-----------------------------------------------------------------------------
(* Sizes *)

\* A set that has 0, and n + 1 with every n, has all natural numbers: it has no
\* least counterexample.
LEMMA NatInductionOnSet ==
  ASSUME NEW T, 0 \in T, \A n \in Nat : n \in T => n + 1 \in T
  PROVE  Nat \subseteq T
<1> SUFFICES ASSUME Nat \ T # {}
             PROVE  FALSE
  OBVIOUS
<1>1. PICK m \in Nat \ T : \A k \in Nat \ T : ~(k < m)
  <2>1. PICK m \in Nat \ T : \A k \in Nat \ T : <<k, m>> \notin OpToRel(<, Nat)
    BY NatLessThanWellFounded, WFMin, Nat \ T \in SUBSET Nat, Zenon
  <2> QED BY ZenonT(40), <2>1 DEF OpToRel
<1>2. m - 1 \in Nat /\ m - 1 \in T
  BY <1>1
<1> QED BY <1>2

\* g is Weight as far as n
IsWeight(g, n) == g = [i \in 0 .. n |-> IF i = 0 THEN 1 ELSE Base * g[i - 1]]

\* The recursion of Weight defines a function.
LEMMA WeightIs == IsWeight(Weight, HdrLen)
<1> DEFINE T == {n \in Nat : \E g : IsWeight(g, n)}
<1>1. 0 \in T
  <2>1. IsWeight([i \in 0 .. 0 |-> 1], 0)
    BY DEF IsWeight
  <2> QED BY <2>1
<1>2. ASSUME NEW n \in Nat, n \in T
      PROVE  n + 1 \in T
  <2>1. PICK g : IsWeight(g, n)
    BY <1>2
  <2> DEFINE G == [i \in 0 .. n + 1 |-> IF i = n + 1 THEN Base * g[n] ELSE g[i]]
  <2>2. \A i \in 0 .. n : g[i] = IF i = 0 THEN 1 ELSE Base * g[i - 1]
    BY <2>1 DEF IsWeight
  <2>3. \A i \in 0 .. n + 1 : G[i] = IF i = 0 THEN 1 ELSE Base * G[i - 1]
    BY <2>2
  <2>4. G = [i \in 0 .. n + 1 |-> G[i]]
    OBVIOUS
  <2>5. IsWeight(G, n + 1)
    <3> HIDE DEF G
    <3> QED BY ZenonT(40), <2>3, <2>4 DEF IsWeight
  <2> QED BY <2>5
<1>3. HdrLen \in T
  <2> HIDE DEF T
  <2> QED BY <1>1, <1>2, NatInductionOnSet, FramingAssumption
<1>4. Weight = CHOOSE g : IsWeight(g, HdrLen)
  BY DEF Weight, IsWeight
<1> QED BY <1>3, <1>4

\* The weights are positive, and each is Base times the one before it.
LEMMA Weights ==
  /\ Weight[0] = 1
  /\ \A i \in 0 .. HdrLen : Weight[i] \in Nat \ {0}
  /\ \A i \in 0 .. HdrLen - 1 : Weight[i + 1] = Base * Weight[i]
<1>1. Base \in Nat \ {0} /\ HdrLen \in Nat \ {0}
  BY FramingAssumption
<1>2. Weight[0] = 1
  BY <1>1, WeightIs DEF IsWeight
<1>3. \A i \in 0 .. HdrLen - 1 : Weight[i + 1] = Base * Weight[i]
  BY <1>1, WeightIs DEF IsWeight
<1> DEFINE T == {n \in Nat : n <= HdrLen => Weight[n] \in Nat \ {0}}
<1>4. 0 \in T
  BY <1>2
<1>5. ASSUME NEW n \in Nat, n \in T
      PROVE  n + 1 \in T
  <2> SUFFICES ASSUME n + 1 <= HdrLen
               PROVE  Weight[n + 1] \in Nat \ {0}
    OBVIOUS
  <2>1. Weight[n] \in Nat \ {0} /\ Weight[n + 1] = Base * Weight[n]
    BY <1>1, <1>3, <1>5
  <2>2. \A x, y \in Nat \ {0} : x * y \in Nat \ {0}
    OBVIOUS
  <2> QED BY <1>1, <2>1, <2>2
<1>6. Nat \subseteq T
  <2> HIDE DEF T
  <2> QED BY <1>4, <1>5, NatInductionOnSet
<1> QED BY <1>1, <1>2, <1>3, <1>6

\* g is what the last bytes count for, as far as n of them
IsLast(g, bytes, n) ==
  g = [k \in 0 .. n |-> IF k = 0 THEN 0 ELSE bytes[HdrLen - k + 1].digit + Base * g[k - 1]]

\* The recursion of Uint defines a function, and makes of a header one byte after
\* the other.
LEMMA UintSteps ==
  ASSUME NEW bytes
  PROVE  \E v :
           /\ v[0] = 0
           /\ \A k \in 0 .. HdrLen - 1 : v[k + 1] = bytes[HdrLen - k].digit + Base * v[k]
           /\ v[HdrLen] = Uint(bytes)
<1> DEFINE T == {n \in Nat : \E g : IsLast(g, bytes, n)}
           D(k) == bytes[HdrLen - k + 1].digit
<1>1. 0 \in T
  <2>1. IsLast([k \in 0 .. 0 |-> 0], bytes, 0)
    BY DEF IsLast
  <2> QED BY <2>1
<1>2. ASSUME NEW n \in Nat, n \in T
      PROVE  n + 1 \in T
  <2>1. PICK g : IsLast(g, bytes, n)
    BY <1>2
  <2> DEFINE G == [k \in 0 .. n + 1 |-> IF k = n + 1 THEN D(n + 1) + Base * g[n] ELSE g[k]]
  <2>2. \A k \in 0 .. n : g[k] = IF k = 0 THEN 0 ELSE D(k) + Base * g[k - 1]
    BY <2>1 DEF IsLast
  <2> HIDE DEF D
  <2>3. \A k \in 0 .. n + 1 : G[k] = IF k = 0 THEN 0 ELSE D(k) + Base * G[k - 1]
    BY SMTT(30), <2>2
  <2>4. G = [k \in 0 .. n + 1 |-> G[k]]
    OBVIOUS
  <2>5. IsLast(G, bytes, n + 1)
    <3> HIDE DEF G
    <3> QED BY ZenonT(40), <2>3, <2>4 DEF IsLast, D
  <2> QED BY <2>5
<1>3. HdrLen \in T
  <2> HIDE DEF T
  <2> QED BY <1>1, <1>2, NatInductionOnSet, FramingAssumption
<1> DEFINE v == CHOOSE g : IsLast(g, bytes, HdrLen)
<1>4. IsLast(v, bytes, HdrLen)
  BY <1>3
<1>5. v[HdrLen] = Uint(bytes)
  BY DEF Uint, IsLast
<1> HIDE DEF v
<1>6. \A k \in 0 .. HdrLen : v[k] = IF k = 0 THEN 0 ELSE D(k) + Base * v[k - 1]
  BY ZenonT(40), <1>4 DEF IsLast
<1> HIDE DEF D
<1>7. HdrLen \in Nat
  BY FramingAssumption
<1>8. v[0] = 0
  BY <1>6, <1>7
<1>9. ASSUME NEW k \in 0 .. HdrLen - 1
      PROVE  v[k + 1] = bytes[HdrLen - k].digit + Base * v[k]
  <2>1. k + 1 \in 0 .. HdrLen /\ (k + 1) - 1 = k /\ HdrLen - (k + 1) + 1 = HdrLen - k /\ k + 1 # 0
    BY <1>7
  <2>2. v[k + 1] = D(k + 1) + Base * v[k]
    BY <1>6, <2>1
  <2> QED BY <2>1, <2>2 DEF D
<1> QED BY <1>5, <1>8, <1>9

\* A further digit below a number of digits.
LEMMA DigitBelow ==
  ASSUME NEW b \in Nat \ {0}, NEW w \in Nat \ {0}, NEW d \in 0 .. b - 1, NEW v \in 0 .. w - 1
  PROVE  d + b * v \in 0 .. b * w - 1
<1>1. b * v + b = b * (v + 1) /\ v + 1 <= w
  OBVIOUS
<1>2. b * (v + 1) <= b * w
  BY <1>1
<1>3. b * v \in Nat /\ b * w \in Nat
  OBVIOUS
<1> QED BY <1>1, <1>2, <1>3

\* The lowest digit of a number and the others.
LEMMA LowestDigit ==
  ASSUME NEW n \in Nat, NEW b \in Nat \ {0}, NEW w \in Nat \ {0}
  PROVE  n \div w = ((n \div w) % b) + b * (n \div (b * w))
<1>1. n \div (b * w) = (n \div w) \div b
  OBVIOUS
<1>2. n \div w \in Nat
  OBVIOUS
<1>3. \A q \in Nat : q = (q % b) + b * (q \div b)
  OBVIOUS
<1> QED BY <1>1, <1>2, <1>3

\* Uint32 reads a number of HdrLen digits.
LEMMA UintBound ==
  ASSUME NEW bytes \in Seq(Digits), Len(bytes) = HdrLen
  PROVE  Uint(bytes) \in 0 .. Weight[HdrLen] - 1
<1>1. PICK v :
        /\ v[0] = 0
        /\ \A k \in 0 .. HdrLen - 1 : v[k + 1] = bytes[HdrLen - k].digit + Base * v[k]
        /\ v[HdrLen] = Uint(bytes)
  BY UintSteps
<1>2. Base \in Nat \ {0} /\ HdrLen \in Nat \ {0}
  BY FramingAssumption
<1> DEFINE T == {k \in Nat : k <= HdrLen => v[k] \in 0 .. Weight[k] - 1}
<1>3. 0 \in T
  BY <1>1, Weights
<1>4. ASSUME NEW k \in Nat, k \in T
      PROVE  k + 1 \in T
  <2> SUFFICES ASSUME k + 1 <= HdrLen
               PROVE  v[k + 1] \in 0 .. Weight[k + 1] - 1
    OBVIOUS
  <2>1. bytes[HdrLen - k].digit \in 0 .. Base - 1
    <3>1. HdrLen - k \in 1 .. Len(bytes)
      BY <1>2
    <3>2. bytes[HdrLen - k] \in Digits
      BY <3>1
    <3> QED BY <3>2 DEF Digits
  <2>2. v[k + 1] = bytes[HdrLen - k].digit + Base * v[k]
    BY <1>1, <1>2
  <2>3. v[k] \in 0 .. Weight[k] - 1
    BY <1>2, <1>4
  <2>4. Weight[k] \in Nat \ {0} /\ Weight[k + 1] = Base * Weight[k]
    BY <1>2, Weights
  <2>5. bytes[HdrLen - k].digit + Base * v[k] \in 0 .. Base * Weight[k] - 1
    BY ZenonT(40), <1>2, <2>1, <2>3, <2>4, DigitBelow
  <2> QED BY <2>2, <2>4, <2>5
<1>5. HdrLen \in T
  <2> HIDE DEF T
  <2> QED BY <1>2, <1>3, <1>4, NatInductionOnSet
<1> QED BY <1>1, <1>2, <1>5

\* Uint32 reads what PutUint32 has written, if the number fits.
LEMMA UintOfHeader ==
  ASSUME NEW m \in All, NEW bytes \in Seq(Digits), Len(bytes) = HdrLen,
         \A i \in 1 .. HdrLen : bytes[i] = Header(m)[i]
  PROVE  Uint(bytes) = Size[m]
<1>1. PICK v :
        /\ v[0] = 0
        /\ \A k \in 0 .. HdrLen - 1 : v[k + 1] = bytes[HdrLen - k].digit + Base * v[k]
        /\ v[HdrLen] = Uint(bytes)
  BY ZenonT(40), UintSteps
<1> DEFINE n == Size[m]
<1>2. Base \in Nat \ {0} /\ HdrLen \in Nat \ {0} /\ n \in 1 .. Weight[HdrLen] - 1
  BY FramingAssumption DEF All
<1>3. Weight[HdrLen] \in Nat \ {0} /\ Weight[0] = 1
  BY <1>2, Weights
<1> HIDE DEF n
<1> DEFINE T == {k \in Nat : k <= HdrLen => v[k] = n \div Weight[HdrLen - k]}
<1>4. 0 \in T
  <2>1. \A a, w \in Nat \ {0} : a < w => a \div w = 0
    OBVIOUS
  <2> QED BY <1>1, <1>2, <1>3, <2>1
<1>5. ASSUME NEW k \in Nat, k \in T
      PROVE  k + 1 \in T
  <2> SUFFICES ASSUME k + 1 <= HdrLen
               PROVE  v[k + 1] = n \div Weight[HdrLen - (k + 1)]
    OBVIOUS
  <2> DEFINE j == HdrLen - (k + 1)
  <2>1. j \in 0 .. HdrLen - 1 /\ j + 1 = HdrLen - k
    BY <1>2
  <2>2. bytes[j + 1].digit = (n \div Weight[j]) % Base
    BY <1>2, <2>1 DEF Header, Digit, n
  <2>3. v[k + 1] = bytes[j + 1].digit + Base * v[k] /\ v[k] = n \div Weight[j + 1]
    BY <1>1, <1>2, <1>5, <2>1
  <2>4. Weight[j] \in Nat \ {0} /\ Weight[j + 1] = Base * Weight[j]
    BY <1>2, <2>1, Weights
  <2>5. n \in Nat
    BY <1>2, <1>3
  <2> HIDE DEF j
  <2>6. v[k + 1] = n \div Weight[j]
    <3>1. n \div Weight[j] = ((n \div Weight[j]) % Base) + Base * (n \div (Base * Weight[j]))
      BY ZenonT(40), <1>2, <2>4, <2>5, LowestDigit
    <3> QED BY <2>2, <2>3, <2>4, <3>1
  <2> QED BY <2>6 DEF j
<1>6. HdrLen \in T
  <2> HIDE DEF T
  <2> QED BY <1>2, <1>4, <1>5, NatInductionOnSet
<1>7. \A a \in Nat : a \div 1 = a
  OBVIOUS
<1> QED BY <1>1, <1>2, <1>3, <1>6, <1>7 DEF n
-----------------------------------------------------------------------------
(* Bytes *)

Bytes == Digits \cup Places
Procs == Writers \cup {Dialer}

\* The facts about constants that the proofs use.
LEMMA Constants ==
  /\ Base \in Nat \ {0} /\ HdrLen \in Nat \ {0} /\ Weight[HdrLen] \in Nat \ {0}
  /\ \A m \in All : Size[m] \in Nat \ {0} /\ Size[m] < Weight[HdrLen]
<1>1. Base \in Nat \ {0} /\ HdrLen \in Nat \ {0}
  BY FramingAssumption
<1>2. Weight[HdrLen] \in Nat \ {0}
  BY <1>1, Weights
<1>3. \A m \in All : Size[m] \in 1 .. Weight[HdrLen] - 1
  BY Zenon, FramingAssumption DEF All
<1> QED BY <1>1, <1>2, <1>3

\* PutUint32 writes HdrLen digits.
LEMMA HeaderBytes ==
  ASSUME NEW m \in All
  PROVE  Header(m) \in Seq(Digits) /\ Len(Header(m)) = HdrLen
<1>1. \A i \in 1 .. HdrLen : Weight[i - 1] \in Nat \ {0}
  BY Constants, Weights
<1>2. Size[m] \in Nat
  BY Constants
<1>3. \A n \in Nat : \A w, b \in Nat \ {0} : (n \div w) % b \in 0 .. b - 1
  OBVIOUS
<1>4. \A i \in 1 .. HdrLen : Digit(Size[m], i) \in 0 .. Base - 1
  BY <1>1, <1>2, <1>3, Constants DEF Digit
<1>5. \A i \in 1 .. HdrLen : [digit |-> Digit(Size[m], i)] \in Digits
  BY <1>4 DEF Digits
<1>6. Header(m) \in [1 .. HdrLen -> Digits]
  BY <1>5 DEF Header
<1> QED BY <1>6, Constants

\* A body has a place for each byte.
LEMMA BodyBytes ==
  ASSUME NEW m \in All
  PROVE  /\ Body(m) \in Seq(Places) /\ Len(Body(m)) = Size[m]
         /\ \A i \in 1 .. Size[m] : Body(m)[i] = [of |-> m, at |-> i]
<1>1. \A i \in 1 .. Size[m] : [of |-> m, at |-> i] \in Places
  BY DEF Places
<1>2. Body(m) \in [1 .. Size[m] -> Places]
  BY <1>1 DEF Body
<1>3. Size[m] \in Nat
  BY Constants
<1> QED BY <1>2, <1>3 DEF Body

\* A digit is not a place of a body.
LEMMA DigitNotPlace ==
  ASSUME NEW d \in Digits, NEW m, NEW i
  PROVE  d # [of |-> m, at |-> i]
<1>1. DOMAIN d = {"digit"}
  BY DEF Digits
<1>2. DOMAIN [of |-> m, at |-> i] = {"of", "at"}
  OBVIOUS
<1> QED BY <1>1, <1>2

\* Only one message has a given body.
LEMMA BodyInjective ==
  ASSUME NEW m \in All, NEW k \in All, Body(m) = Body(k)
  PROVE  m = k
<1>1. Size[m] \in Nat \ {0} /\ Size[k] \in Nat \ {0}
  BY Constants
<1>2. Body(m)[1] = [of |-> m, at |-> 1] /\ Body(k)[1] = [of |-> k, at |-> 1]
  BY <1>1, BodyBytes
<1> QED BY <1>2

\* What readMessage makes of HdrLen bytes is a size, and the size that was written
\* if they are a header.
LEMMA ValuesRead ==
  ASSUME NEW bytes \in Seq(Bytes), Len(bytes) = HdrLen
  PROVE  /\ Values(bytes) \subseteq 0 .. Weight[HdrLen] - 1
         /\ \A m \in All : (\A i \in 1 .. HdrLen : bytes[i] = Header(m)[i])
              => Values(bytes) = {Size[m]}
<1>1. DOMAIN bytes = 1 .. HdrLen
  OBVIOUS
<1>2. CASE \A i \in DOMAIN bytes : bytes[i] \in Digits
  <2>1. bytes \in Seq(Digits)
    BY <1>1, <1>2
  <2>2. Values(bytes) = {Uint(bytes)}
    BY <1>2 DEF Values
  <2> QED BY <2>1, <2>2, UintBound, UintOfHeader
<1>3. CASE ~\A i \in DOMAIN bytes : bytes[i] \in Digits
  <2>1. Values(bytes) = 0 .. Weight[HdrLen] - 1
    BY <1>3 DEF Values
  <2>2. ASSUME NEW m \in All, \A i \in 1 .. HdrLen : bytes[i] = Header(m)[i]
        PROVE  FALSE
    BY <1>1, <1>3, <2>2, HeaderBytes, Constants
  <2> QED BY <2>1, <2>2
<1> QED BY <1>2, <1>3
-----------------------------------------------------------------------------
(* The writers *)

\* WriteLock is held by the goroutine between its two Writes
LockHeld == \A w \in Procs : pc[w] \in {"hdr", "body"} <=> lock = w

\* dialTcpConn writes its two messages before the session has the connection, and
\* closes it when one of them fails; the session's goroutines write what they
\* were handed
InTurn ==
  /\ pc[Dialer] # "idle" => \/ hs = "addr" /\ msg[Dialer] = Addr
                            \/ hs = "meta" /\ msg[Dialer] = Meta
  /\ \A w \in Writers : pc[w] # "idle" => hs = "data" /\ msg[w] \in sent
  /\ hs # "data" => written = <<>>
  /\ hs = "err" => conn # "open"
  /\ \A i \in DOMAIN written : written[i] \in sent

\* a reader that has returned has no size, and one that has not read the metadata
\* has delivered nothing
Stopped ==
  /\ phase = "stop" => size = -1
  /\ phase \in {"addr", "meta"} => delivered = <<>>

WriteInv == TypeOK /\ LockHeld /\ InTurn /\ Stopped

\* dialTcpConn starts with the address.
LEMMA InitWrite == Init => WriteInv
<1> SUFFICES ASSUME Init PROVE WriteInv
  OBVIOUS
<1>1. -1 \in -1 .. Weight[HdrLen] - 1
  BY Constants
<1>2. TypeOK
  <2>1. <<>> \in Seq(Digits \cup Places) /\ <<>> \in Seq(Msgs)
    OBVIOUS
  <2> QED BY <1>1, <2>1, Zenon DEF Init, TypeOK
<1>3. LockHeld
  BY FramingAssumption DEF Init, LockHeld, Procs
<1>4. InTurn
  BY FramingAssumption DEF Init, InTurn
<1>5. Stopped
  BY DEF Init, Stopped
<1> QED BY <1>2, <1>3, <1>4, <1>5 DEF WriteInv

\* A goroutine between its Writes has a message.
LEMMA Busy ==
  ASSUME WriteInv, NEW w \in Procs, pc[w] # "idle"
  PROVE  msg[w] \in All /\ (w \in Writers => msg[w] \in Msgs)
<1>1. CASE w = Dialer
  BY <1>1, FramingAssumption DEF WriteInv, InTurn, All
<1>2. CASE w \in Writers
  BY <1>2 DEF WriteInv, InTurn, TypeOK, All
<1> QED BY <1>1, <1>2 DEF Procs

\* Taking the lock.
LEMMA LockWrite ==
  ASSUME WriteInv, NEW w \in Procs, NEW m \in All, Lock(w, m), sent \subseteq sent',
         sent' \subseteq Msgs,
         IF w = Dialer THEN (hs = "addr" /\ m = Addr) \/ (hs = "meta" /\ m = Meta)
                       ELSE hs = "data" /\ m \in sent'
  PROVE  WriteInv'
<1>1. /\ pc[w] = "idle" /\ lock = None /\ lock' = w
      /\ msg' = [msg EXCEPT ![w] = m] /\ pc' = [pc EXCEPT ![w] = "hdr"]
      /\ UNCHANGED <<conn, stream, hs, written, failed, phase, size, sess, delivered>>
  BY DEF Lock, LockFree, readVars
<1>2. pc \in [Procs -> {"idle", "hdr", "body", "err"}] /\ msg \in [Procs -> All \cup {None}]
  BY DEF WriteInv, TypeOK, Procs
<1>3. TypeOK'
  BY <1>1 DEF WriteInv, TypeOK, Procs
<1>4. LockHeld'
  BY <1>1, <1>2, FramingAssumption DEF WriteInv, LockHeld, Procs
<1>5. InTurn'
  BY <1>1, <1>2, FramingAssumption DEF WriteInv, InTurn, Procs
<1>6. Stopped'
  BY <1>1 DEF WriteInv, Stopped
<1> QED BY <1>3, <1>4, <1>5, <1>6 DEF WriteInv

\* The first Write of a frame.
LEMMA WriteHeaderWrite ==
  ASSUME WriteInv, NEW w \in Procs, WriteHeader(w)
  PROVE  WriteInv'
<1>1. /\ pc[w] = "hdr" /\ stream' = stream \o Header(msg[w])
      /\ pc' = [pc EXCEPT ![w] = "body"]
      /\ UNCHANGED <<conn, lock, msg, hs, sent, written, failed, phase, size, sess, delivered>>
  BY DEF WriteHeader, readVars
<1>2. pc \in [Procs -> {"idle", "hdr", "body", "err"}]
  BY DEF WriteInv, TypeOK, Procs
<1>3. stream' \in Seq(Bytes)
  <2>1. Header(msg[w]) \in Seq(Digits)
    BY <1>1, Busy, HeaderBytes
  <2> QED BY <1>1, <2>1 DEF WriteInv, TypeOK, Bytes
<1>4. TypeOK'
  BY <1>1, <1>3 DEF WriteInv, TypeOK, Procs, Bytes
<1>5. LockHeld'
  BY <1>1, <1>2 DEF WriteInv, LockHeld
<1>6. InTurn' /\ Stopped'
  BY <1>1, <1>2 DEF WriteInv, InTurn, Stopped, Procs
<1> QED BY <1>4, <1>5, <1>6 DEF WriteInv

\* The second Write of a frame, and what its caller does.
LEMMA WriteBodyWrite ==
  ASSUME WriteInv, NEW w \in Procs, WriteBody(w)
  PROVE  WriteInv'
<1>1. /\ pc[w] = "body" /\ conn = "open" /\ stream' = stream \o Body(msg[w])
      /\ pc' = [pc EXCEPT ![w] = "idle"] /\ lock' = None
      /\ UNCHANGED <<conn, msg, sent, failed, phase, size, sess, delivered>>
  BY DEF WriteBody, readVars
<1>2. pc \in [Procs -> {"idle", "hdr", "body", "err"}]
  BY DEF WriteInv, TypeOK, Procs
<1>3. stream' \in Seq(Bytes)
  <2>1. Body(msg[w]) \in Seq(Places)
    BY <1>1, Busy, BodyBytes
  <2> QED BY <1>1, <2>1 DEF WriteInv, TypeOK, Bytes
<1>4. LockHeld'
  BY <1>1, <1>2, FramingAssumption DEF WriteInv, LockHeld, Procs
<1>5. CASE w = Dialer
  <2>1. hs' \in {"meta", "data"} /\ written' = written
    BY <1>5 DEF WriteBody
  <2>2. TypeOK'
    BY <1>1, <1>3, <2>1 DEF WriteInv, TypeOK, Procs, Bytes
  <2>3. InTurn'
    <3>1. hs # "data" /\ \A v \in Writers : pc[v] = "idle"
      BY <1>1, <1>5, FramingAssumption DEF WriteInv, InTurn
    <3> QED BY <1>1, <1>2, <1>5, <2>1, <3>1, FramingAssumption DEF WriteInv, InTurn, Procs
  <2> QED BY <1>1, <1>4, <2>2, <2>3 DEF WriteInv, Stopped
<1>6. CASE w # Dialer
  <2>1. hs' = hs /\ written' = Append(written, msg[w])
    BY <1>6 DEF WriteBody
  <2>2. w \in Writers /\ msg[w] \in Msgs /\ msg[w] \in sent /\ hs = "data"
    BY <1>1, <1>6, Busy DEF WriteInv, InTurn, Procs
  <2>3. written \in Seq(Msgs)
    BY DEF WriteInv, TypeOK
  <2>4. written' \in Seq(Msgs) /\ \A i \in DOMAIN written' : written'[i] \in sent
    BY <2>1, <2>2, <2>3 DEF WriteInv, InTurn
  <2>5. TypeOK'
    BY <1>1, <1>3, <2>1, <2>4 DEF WriteInv, TypeOK, Procs, Bytes
  <2>6. InTurn'
    BY ZenonT(40), <1>1, <1>2, <2>1, <2>2, <2>4 DEF WriteInv, InTurn, Procs
  <2> QED BY <1>1, <1>4, <2>5, <2>6 DEF WriteInv, Stopped
<1> QED BY <1>5, <1>6

\* A Write that fails: the part of its buffer that was written.
LEMMA WriteErrBytes ==
  ASSUME WriteInv, NEW w \in Procs, NEW k \in Nat, WriteErr(w, k)
  PROVE  \E x \in Seq(Bytes) :
           /\ stream' = stream \o x /\ Len(x) = k
           /\ conn # "open" => k = 0
           /\ IF pc[w] = "hdr"
              THEN k < HdrLen /\ \A i \in 1 .. k : x[i] \in Digits
              ELSE pc[w] = "body" /\ k < Size[msg[w]]
<1> DEFINE buf == IF pc[w] = "hdr" THEN Header(msg[w]) ELSE Body(msg[w])
<1>1. /\ pc[w] \in {"hdr", "body"} /\ k < Len(buf) /\ (conn # "open" => k = 0)
      /\ stream' = stream \o SubSeq(buf, 1, k)
  BY DEF WriteErr
<1>2. msg[w] \in All
  BY <1>1, Busy
<1>3. CASE pc[w] = "hdr"
  <2>1. buf \in Seq(Digits) /\ Len(buf) = HdrLen
    BY <1>2, <1>3, HeaderBytes
  <2> HIDE DEF buf
  <2> DEFINE x == SubSeq(buf, 1, k)
  <2>2. x \in Seq(Digits) /\ Len(x) = k
    BY <1>1, <2>1
  <2>3. \A i \in 1 .. k : x[i] \in Digits
    BY <2>2
  <2>4. x \in Seq(Bytes)
    BY <2>2 DEF Bytes
  <2> HIDE DEF x
  <2> QED BY ZenonT(40), <1>1, <1>3, <2>1, <2>2, <2>3, <2>4 DEF x
<1>4. CASE pc[w] = "body"
  <2>1. buf \in Seq(Places) /\ Len(buf) = Size[msg[w]]
    BY <1>2, <1>4, BodyBytes
  <2> HIDE DEF buf
  <2> DEFINE x == SubSeq(buf, 1, k)
  <2>2. x \in Seq(Places) /\ Len(x) = k
    BY <1>1, <2>1
  <2>3. x \in Seq(Bytes)
    BY <2>2 DEF Bytes
  <2> HIDE DEF x
  <2> QED BY ZenonT(40), <1>1, <1>4, <2>1, <2>2, <2>3 DEF x
<1> QED BY ZenonT(40), <1>1, <1>3, <1>4

\* The goroutine gives up its frame and the lock.
LEMMA WriteErrWrite ==
  ASSUME WriteInv, NEW w \in Procs, NEW k \in Nat, WriteErr(w, k)
  PROVE  WriteInv'
<1>1. /\ pc[w] \in {"hdr", "body"} /\ pc' = [pc EXCEPT ![w] = "err"]
      /\ lock' = None /\ failed' = TRUE
      /\ UNCHANGED <<conn, msg, hs, sent, written, phase, size, sess, delivered>>
  BY DEF WriteErr, readVars
<1>2. pc \in [Procs -> {"idle", "hdr", "body", "err"}]
  BY DEF WriteInv, TypeOK, Procs
<1>3. stream' \in Seq(Bytes)
  <2>1. PICK x \in Seq(Bytes) : stream' = stream \o x
    BY ZenonT(40), WriteErrBytes
  <2> QED BY <2>1 DEF WriteInv, TypeOK, Bytes
<1>4. TypeOK'
  BY <1>1, <1>3 DEF WriteInv, TypeOK, Procs, Bytes
<1>5. LockHeld'
  BY <1>1, <1>2, FramingAssumption DEF WriteInv, LockHeld, Procs
<1>6. InTurn' /\ Stopped'
  BY <1>1, <1>2 DEF WriteInv, InTurn, Stopped, Procs
<1> QED BY <1>4, <1>5, <1>6 DEF WriteInv

\* The caller of a Write that failed closes the connection.
LEMMA CloseConnWrite ==
  ASSUME WriteInv, NEW w \in Procs, CloseConn(w)
  PROVE  WriteInv'
<1>1. /\ pc[w] = "err" /\ pc' = [pc EXCEPT ![w] = "idle"]
      /\ conn' = (IF conn = "open" THEN "closed" ELSE conn)
      /\ hs' = (IF w = Dialer THEN "err" ELSE hs)
      /\ UNCHANGED <<stream, lock, msg, sent, written, failed, phase, size, sess, delivered>>
  BY DEF CloseConn, readVars
<1>2. pc \in [Procs -> {"idle", "hdr", "body", "err"}]
  BY DEF WriteInv, TypeOK, Procs
<1>3. TypeOK'
  BY <1>1 DEF WriteInv, TypeOK, Procs
<1>4. LockHeld'
  BY <1>1, <1>2 DEF WriteInv, LockHeld
<1>5. conn' # "open"
  BY <1>1
<1>6. CASE w = Dialer
  <2>1. hs # "data" /\ \A v \in Writers : pc[v] = "idle"
    BY <1>1, <1>6, FramingAssumption DEF WriteInv, InTurn
  <2>2. InTurn'
    BY <1>1, <1>2, <1>5, <1>6, <2>1, FramingAssumption DEF WriteInv, InTurn, Procs
  <2> QED BY <1>1, <1>3, <1>4, <2>2 DEF WriteInv, Stopped
<1>7. CASE w # Dialer
  <2>1. InTurn'
    BY <1>1, <1>2, <1>5, <1>7 DEF WriteInv, InTurn, Procs
  <2> QED BY <1>1, <1>3, <1>4, <2>1 DEF WriteInv, Stopped
<1> QED BY <1>6, <1>7

\* The first bytes of what is on its way.
LEMMA FirstBytes ==
  ASSUME TypeOK, NEW n \in Nat, n <= Len(stream)
  PROVE  /\ SubSeq(stream, 1, n) \in Seq(Bytes) /\ Len(SubSeq(stream, 1, n)) = n
         /\ \A i \in 1 .. n : SubSeq(stream, 1, n)[i] = stream[i]
         /\ SubSeq(stream, n + 1, Len(stream)) \in Seq(Bytes)
         /\ Len(SubSeq(stream, n + 1, Len(stream))) = Len(stream) - n
         /\ \A i \in 1 .. Len(stream) - n :
              SubSeq(stream, n + 1, Len(stream))[i] = stream[n + i]
<1>1. stream \in Seq(Bytes)
  BY DEF TypeOK, Bytes
<1>2. /\ SubSeq(stream, 1, n) \in Seq(Bytes) /\ Len(SubSeq(stream, 1, n)) = n
      /\ \A i \in 1 .. n : SubSeq(stream, 1, n)[i] = stream[i]
  BY <1>1
<1>3. Len(stream) \in Nat
  BY <1>1
<1>4. /\ SubSeq(stream, n + 1, Len(stream)) \in Seq(Bytes)
      /\ Len(SubSeq(stream, n + 1, Len(stream))) = Len(stream) - n
  BY <1>1, <1>3
<1>5. ASSUME NEW i \in 1 .. Len(stream) - n
      PROVE  SubSeq(stream, n + 1, Len(stream))[i] = stream[n + i]
  BY <1>1, <1>3
<1> QED BY <1>2, <1>4, <1>5

\* The reader changes nothing of the writers but the connection.
LEMMA ReadWrite ==
  ASSUME WriteInv, UNCHANGED writeVars, conn' \in {conn, "broken"},
         stream' \in Seq(Bytes), phase' \in {"addr", "meta", "data", "stop"},
         size' \in -1 .. Weight[HdrLen] - 1, phase' = "stop" => size' = -1,
         sess' \in {"open", "closed"}, delivered' \in Seq(Msgs),
         phase' \in {"addr", "meta"} => delivered' = <<>>
  PROVE  WriteInv'
<1>1. TypeOK'
  BY DEF WriteInv, TypeOK, writeVars, Bytes
<1>2. LockHeld' /\ InTurn' /\ Stopped'
  BY DEF WriteInv, LockHeld, InTurn, Stopped, writeVars
<1> QED BY <1>1, <1>2 DEF WriteInv

\* The reader keeps its types: a header is a size.
LEMMA ReadHeaderWrite ==
  ASSUME WriteInv, ReadHeader
  PROVE  WriteInv'
<1>1. TypeOK /\ HdrLen \in Nat /\ HdrLen <= Len(stream)
  <2>1. stream \in Seq(Bytes)
    BY DEF WriteInv, TypeOK, Bytes
  <2> QED BY <2>1, Constants DEF WriteInv, ReadHeader, ReadFull
<1>2. PICK n \in Values(SubSeq(stream, 1, HdrLen)) :
        \/ /\ size' = n /\ stream' = SubSeq(stream, HdrLen + 1, Len(stream))
           /\ UNCHANGED <<conn, phase, delivered>>
        \/ Stop
  BY Zenon DEF ReadHeader
<1>3. n \in 0 .. Weight[HdrLen] - 1
  <2>1. Values(SubSeq(stream, 1, HdrLen)) \subseteq 0 .. Weight[HdrLen] - 1
    BY ZenonT(40), <1>1, FirstBytes, ValuesRead
  <2> QED BY <1>2, <2>1
<1>4. UNCHANGED <<sess, writeVars>> /\ phase # "stop"
  BY Zenon DEF ReadHeader
<1>5. -1 \in -1 .. Weight[HdrLen] - 1 /\ n \in -1 .. Weight[HdrLen] - 1
  BY <1>3, Constants
<1>6. CASE /\ size' = n /\ stream' = SubSeq(stream, HdrLen + 1, Len(stream))
           /\ UNCHANGED <<conn, phase, delivered>>
  <2>1. stream' \in Seq(Bytes)
    BY <1>1, <1>6, FirstBytes
  <2> QED BY <1>4, <1>5, <1>6, <2>1, ReadWrite DEF WriteInv, TypeOK, Stopped
<1>7. CASE Stop
  <2>1. <<>> \in Seq(Bytes)
    OBVIOUS
  <2> QED BY <1>4, <1>5, <1>7, <2>1, ReadWrite DEF Stop, WriteInv, TypeOK
<1> QED BY <1>2, <1>6, <1>7

\* So does what it does with a body.
LEMMA ReadBodyWrite ==
  ASSUME WriteInv, ReadBody
  PROVE  WriteInv'
<1>1. TypeOK /\ size \in Nat /\ size <= Len(stream)
  <2>1. stream \in Seq(Bytes) /\ size \in -1 .. Weight[HdrLen] - 1
    BY DEF WriteInv, TypeOK, Bytes
  <2> QED BY <2>1, Constants DEF WriteInv, ReadBody, ReadFull
<1>2. stream' \in Seq(Bytes)
  BY <1>1, FirstBytes DEF ReadBody
<1>3. /\ conn' \in {conn, "broken"} /\ phase' \in {"addr", "meta", "data", "stop"}
      /\ delivered' = delivered \/ \E m \in Msgs : delivered' = Append(delivered, m)
  BY Zenon DEF ReadBody, Handle, Reject, WriteInv, TypeOK
<1>4. delivered' \in Seq(Msgs)
  <2>1. delivered \in Seq(Msgs)
    BY DEF WriteInv, TypeOK
  <2>2. \A m \in Msgs : Append(delivered, m) \in Seq(Msgs)
    BY <2>1
  <2> QED BY <1>3, <2>1, <2>2
<1>5. size' = -1 /\ UNCHANGED <<sess, writeVars>>
  BY Zenon DEF ReadBody
<1>6. -1 \in -1 .. Weight[HdrLen] - 1
  BY Constants
<1>7. phase' \in {"addr", "meta"} => delivered' = <<>>
  BY DEF ReadBody, Handle, Reject, WriteInv, Stopped
<1> QED BY <1>2, <1>3, <1>4, <1>5, <1>6, <1>7, ReadWrite DEF WriteInv, TypeOK

\* The end of the stream, and the closing of the session above it.
LEMMA ReadEndWrite ==
  ASSUME WriteInv, ReadEnd \/ SessClose
  PROVE  WriteInv'
<1>1. -1 \in -1 .. Weight[HdrLen] - 1 /\ <<>> \in Seq(Bytes)
  BY SMTT(30), Constants
<1>2. CASE ReadEnd
  BY ZenonT(40), <1>1, <1>2, ReadWrite DEF ReadEnd, Stop, WriteInv, TypeOK
<1>3. CASE SessClose
  <2>1. stream' \in Seq(Bytes)
    BY ZenonT(40), <1>3 DEF SessClose, WriteInv, TypeOK, Bytes
  <2> QED BY <1>3, <2>1, ReadWrite DEF SessClose, WriteInv, TypeOK, Stopped
<1> QED BY <1>2, <1>3

\* The network drops the end of the stream.
LEMMA BreakWrite ==
  ASSUME WriteInv, NEW k \in 0 .. Len(stream), Break(k)
  PROVE  WriteInv'
<1>1. TypeOK /\ k \in Nat /\ k <= Len(stream)
  <2>1. stream \in Seq(Bytes)
    BY DEF WriteInv, TypeOK, Bytes
  <2> QED BY <2>1 DEF WriteInv
<1>2. stream' \in Seq(Bytes)
  BY <1>1, FirstBytes DEF Break
<1> QED BY <1>2, ReadWrite DEF Break, readVars, WriteInv, TypeOK, Stopped

\* Sending takes the lock with the message that is in turn.
LEMMA SendWrite ==
  ASSUME WriteInv, Dial \/ \E w \in Writers, m \in Msgs : Send(w, m)
  PROVE  WriteInv'
<1>1. CASE Dial
  <2> DEFINE m == IF hs = "addr" THEN Addr ELSE Meta
  <2>1. /\ m \in All /\ Lock(Dialer, m)
        /\ (hs = "addr" /\ m = Addr) \/ (hs = "meta" /\ m = Meta)
    <3>1. hs \in {"addr", "meta"}
      BY Zenon, <1>1 DEF Dial
    <3>2. Lock(Dialer, m)
      BY Zenon, <1>1 DEF Dial
    <3>3. m \in All /\ ((hs = "addr" /\ m = Addr) \/ (hs = "meta" /\ m = Meta))
      BY <3>1 DEF All
    <3> HIDE DEF m
    <3> QED BY <3>2, <3>3
  <2>2. sent' = sent /\ sent \subseteq Msgs
    BY <1>1 DEF Dial, WriteInv, TypeOK
  <2> HIDE DEF m
  <2> QED BY <2>1, <2>2, LockWrite DEF Procs
<1>2. ASSUME NEW w \in Writers, NEW m \in Msgs, Send(w, m)
      PROVE  WriteInv'
  <2>1. hs = "data" /\ Lock(w, m) /\ sent' = sent \cup {m} /\ sent \subseteq Msgs
    BY <1>2 DEF Send, WriteInv, TypeOK
  <2> QED BY <2>1, LockWrite, FramingAssumption DEF Procs, All
<1> QED BY <1>1, <1>2

\* Every step keeps the types and the turns of the writers.
LEMMA NextWrite == WriteInv /\ [Next]_vars => WriteInv'
<1> SUFFICES ASSUME WriteInv, [Next]_vars PROVE WriteInv'
  OBVIOUS
<1>1. CASE Dial \/ \E w \in Writers, m \in Msgs : Send(w, m)
  BY <1>1, SendWrite
<1>2. CASE Reading \/ SessClose
  BY <1>2, ReadHeaderWrite, ReadBodyWrite, ReadEndWrite DEF Reading
<1>3. ASSUME NEW w \in Procs, WriteHeader(w) \/ WriteBody(w) \/ CloseConn(w)
      PROVE  WriteInv'
  BY <1>3, WriteHeaderWrite, WriteBodyWrite, CloseConnWrite
<1>4. ASSUME NEW w \in Procs, NEW k \in 0 .. Weight[HdrLen], WriteErr(w, k)
      PROVE  WriteInv'
  <2>1. k \in Nat
    BY Constants
  <2> QED BY <1>4, <2>1, WriteErrWrite
<1>5. ASSUME NEW k \in 0 .. Len(stream), Break(k)
      PROVE  WriteInv'
  BY ZenonT(40), <1>5, BreakWrite
<1>6. CASE UNCHANGED vars
  BY <1>6 DEF WriteInv, TypeOK, LockHeld, InTurn, Stopped, vars, writeVars, readVars
<1> QED BY Zenon, <1>1, <1>2, <1>3, <1>4, <1>5, <1>6 DEF Next, Procs
-----------------------------------------------------------------------------
(* The tape: everything ever written to the connection, of which the stream is *)
(* the part from b on, or less once the connection is broken                    *)

\* the message of frame i
MsgAt(i) == IF i = 1 THEN Addr ELSE IF i = 2 THEN Meta ELSE written[i - 2]

HeaderAt(t, o, m) == o + HdrLen <= Len(t) /\ \A j \in 1 .. HdrLen : t[o + j] = Header(m)[j]
BodyAt(t, o, m) == o + Size[m] <= Len(t) /\ \A j \in 1 .. Size[m] : t[o + j] = Body(m)[j]

\* n frames from the start, frame i behind off[i] bytes
Frames(t, n, off) ==
  /\ off[1] = 0 /\ n <= 2 + Len(written)
  /\ \A i \in 1 .. n : /\ HeaderAt(t, off[i], MsgAt(i))
                       /\ BodyAt(t, off[i] + HdrLen, MsgAt(i))
                       /\ off[i + 1] = off[i] + HdrLen + Size[MsgAt(i)]

\* What follows the frames: nothing, the header of a frame that is being written,
\* or what a failed Write has left.  A torn header is followed by digits, up to
\* where a body is read; a torn body by a digit, before it is complete.
NoBody == \A w \in Procs : pc[w] # "body"

Clean(t, e) == Len(t) = e /\ NoBody

Begun(t, e) ==
  \E w \in Procs : pc[w] = "body" /\ HeaderAt(t, e, msg[w]) /\ Len(t) = e + HdrLen

TornHeader(t, e) ==
  /\ failed /\ e < Len(t)
  /\ \A j \in 1 .. HdrLen + 1 : e + j <= Len(t) => t[e + j] \in Digits
  /\ Len(t) <= e + HdrLen => NoBody

TornBody(t, e) ==
  /\ failed
  /\ \E m \in All : \E k \in 0 .. Size[m] - 1 :
       /\ HeaderAt(t, e, m) /\ e + HdrLen + k <= Len(t)
       /\ Len(t) = e + HdrLen + k => NoBody
       /\ Len(t) > e + HdrLen + k => t[e + HdrLen + k + 1] \in Digits

Whole(t, e) == Clean(t, e) \/ Begun(t, e)
Torn(t, e) == TornHeader(t, e) \/ TornBody(t, e)
Rest(t, e) == Whole(t, e) \/ Torn(t, e)

\* the frames written when nothing is torn
Count == IF hs = "addr" THEN 0 ELSE IF hs = "meta" THEN 1 ELSE 2 + Len(written)
Turn(t, n, off) == Whole(t, off[n + 1]) /\ conn = "open" => n = Count

Carried(t, b) ==
  /\ b + Len(stream) <= Len(t) /\ (conn = "open" => b + Len(stream) = Len(t))
  /\ \A j \in 1 .. Len(stream) : stream[j] = t[b + j]

\* the frame the reader is in
Current == IF phase = "addr" THEN 1 ELSE IF phase = "meta" THEN 2 ELSE 3 + Len(delivered)

Position(t, n, off, b) ==
  /\ Current <= n + 1
  /\ size = -1 => b = off[Current]
  /\ size # -1 => /\ b = off[Current] + HdrLen
                  /\ \A m \in All : HeaderAt(t, off[Current], m) => size = Size[m]

Tape(t, n, off, b) ==
  /\ t \in Seq(Bytes) /\ n \in Nat /\ off \in [1 .. n + 1 -> Nat] /\ b \in Nat
  /\ Frames(t, n, off) /\ Rest(t, off[n + 1]) /\ Turn(t, n, off)
  /\ Carried(t, b) /\ Position(t, n, off, b)

ReadInv == phase # "stop" => \E t, n, off, b : Tape(t, n, off, b)

\* Nothing has been written.
LEMMA InitRead == Init => ReadInv
<1> SUFFICES ASSUME Init PROVE ReadInv
  OBVIOUS
<1> DEFINE off == [i \in 1 .. 1 |-> 0]
<1>1. off \in [1 .. 0 + 1 -> Nat] /\ off[1] = 0
  OBVIOUS
<1>2. <<>> \in Seq(Bytes) /\ Len(<<>>) = 0
  OBVIOUS
<1> HIDE DEF off
<1>3. Frames(<<>>, 0, off)
  BY <1>1 DEF Init, Frames
<1>4. Clean(<<>>, off[0 + 1])
  BY <1>1 DEF Init, Clean, NoBody, Procs
<1>5. Turn(<<>>, 0, off)
  BY DEF Init, Turn, Count
<1>6. Carried(<<>>, 0)
  BY DEF Init, Carried
<1>7. Position(<<>>, 0, off, 0)
  BY <1>1 DEF Init, Position, Current
<1>8. Tape(<<>>, 0, off, 0)
  BY <1>1, <1>2, <1>3, <1>4, <1>5, <1>6, <1>7 DEF Tape, Rest, Whole
<1> QED BY <1>8 DEF ReadInv

\* What is on the tape stays there.
LEMMA AtAppend ==
  ASSUME NEW t \in Seq(Bytes), NEW x \in Seq(Bytes), NEW o \in Nat, NEW m \in All
  PROVE  /\ HeaderAt(t, o, m) => HeaderAt(t \o x, o, m)
         /\ BodyAt(t, o, m) => BodyAt(t \o x, o, m)
         /\ HeaderAt(t \o x, o, m) /\ o + HdrLen <= Len(t) => HeaderAt(t, o, m)
<1>1. HdrLen \in Nat /\ Size[m] \in Nat
  BY Constants
<1>2. /\ t \o x \in Seq(Bytes) /\ Len(t \o x) = Len(t) + Len(x)
      /\ \A i \in 1 .. Len(t) : (t \o x)[i] = t[i]
  OBVIOUS
<1>3. Len(t) \in Nat /\ Len(x) \in Nat
  OBVIOUS
<1> DEFINE u == t \o x
<1> HIDE DEF u
<1>4. Len(u) = Len(t) + Len(x) /\ \A i \in 1 .. Len(t) : u[i] = t[i]
  BY <1>2 DEF u
<1>5. ASSUME HeaderAt(t, o, m)
      PROVE  HeaderAt(u, o, m)
  <2>1. \A j \in 1 .. HdrLen : o + j \in 1 .. Len(t)
    BY <1>1, <1>3, <1>5 DEF HeaderAt
  <2>2. o + HdrLen <= Len(u)
    BY <1>1, <1>3, <1>4, <1>5 DEF HeaderAt
  <2> QED BY <1>4, <1>5, <2>1, <2>2 DEF HeaderAt
<1>6. BodyAt(t, o, m) => BodyAt(u, o, m)
  BY SMTT(30), <1>1, <1>3, <1>4 DEF BodyAt
<1>7. HeaderAt(u, o, m) /\ o + HdrLen <= Len(t) => HeaderAt(t, o, m)
  BY <1>1, <1>3, <1>4 DEF HeaderAt
<1> QED BY <1>5, <1>6, <1>7 DEF u

\* The messages of frames are messages.
LEMMA MsgAtIs ==
  ASSUME TypeOK, NEW n \in Nat, n <= 2 + Len(written), NEW i \in 1 .. n
  PROVE  MsgAt(i) \in All
<1>1. CASE i = 1 \/ i = 2
  BY <1>1 DEF MsgAt, All
<1>2. CASE i # 1 /\ i # 2
  <2>1. written \in Seq(Msgs) /\ i - 2 \in 1 .. Len(written)
    BY <1>2 DEF TypeOK
  <2> QED BY <1>2, <2>1 DEF MsgAt, All
<1> QED BY <1>1, <1>2

\* A message that is written leaves the ones before it.
LEMMA MsgAtKept ==
  ASSUME TypeOK, NEW n \in Nat, n <= 2 + Len(written), NEW i \in 1 .. n,
         written' = written \/ \E m \in Msgs : written' = Append(written, m)
  PROVE  MsgAt(i)' = MsgAt(i) /\ Len(written') >= Len(written)
<1>1. written \in Seq(Msgs) /\ Len(written) \in Nat
  BY DEF TypeOK
<1>2. \A j \in 1 .. Len(written) : written'[j] = written[j]
  BY SMTT(30), <1>1
<1>3. Len(written') >= Len(written)
  BY <1>1
<1> QED BY <1>1, <1>2, <1>3 DEF MsgAt

\* So do writes.
LEMMA FramesAppend ==
  ASSUME TypeOK, NEW t \in Seq(Bytes), NEW x \in Seq(Bytes), NEW n \in Nat,
         NEW off \in [1 .. n + 1 -> Nat], Frames(t, n, off), NEW u, u = t \o x,
         written' = written \/ \E m \in Msgs : written' = Append(written, m)
  PROVE  Frames(u, n, off)'
<1>1. n <= 2 + Len(written) /\ off[1] = 0
  BY DEF Frames
<1>2. n <= 2 + Len(written')
  <2>1. written \in Seq(Msgs) /\ Len(written) \in Nat
    BY DEF TypeOK
  <2>2. Len(written') \in Nat /\ Len(written') >= Len(written)
    BY <2>1
  <2> QED BY <1>1, <2>1, <2>2
<1>3. ASSUME NEW i \in 1 .. n
      PROVE  /\ HeaderAt(u, off[i], MsgAt(i)') /\ BodyAt(u, off[i] + HdrLen, MsgAt(i)')
             /\ off[i + 1] = off[i] + HdrLen + Size[MsgAt(i)']
  <2>1. MsgAt(i)' = MsgAt(i) /\ MsgAt(i) \in All
    BY <1>1, MsgAtIs, MsgAtKept
  <2>2. off[i] \in Nat /\ off[i] + HdrLen \in Nat
    BY SMTT(30), Constants
  <2>3. /\ HeaderAt(t, off[i], MsgAt(i)) /\ BodyAt(t, off[i] + HdrLen, MsgAt(i))
        /\ off[i + 1] = off[i] + HdrLen + Size[MsgAt(i)]
    BY DEF Frames
  <2>4. HeaderAt(u, off[i], MsgAt(i)) /\ BodyAt(u, off[i] + HdrLen, MsgAt(i))
    BY ZenonT(40), <2>1, <2>2, <2>3, AtAppend
  <2> QED BY <2>1, <2>3, <2>4
<1> QED BY <1>1, <1>2, <1>3 DEF Frames

\* What follows the frames is the same as long as the same goroutines are between
\* their Writes.
LEMMA RestKept ==
  ASSUME NEW t, NEW e, failed => failed',
         \A w \in Procs : pc'[w] = "body" <=> pc[w] = "body",
         \A w \in Procs : pc[w] = "body" => msg'[w] = msg[w]
  PROVE  (Rest(t, e) => Rest(t, e)') /\ (Whole(t, e)' => Whole(t, e))
<1>1. NoBody' <=> NoBody
  BY DEF NoBody
<1>2. Clean(t, e)' <=> Clean(t, e)
  BY <1>1 DEF Clean
<1>3. Begun(t, e)' <=> Begun(t, e)
  BY DEF Begun
<1>4. TornHeader(t, e) => TornHeader(t, e)'
  BY <1>1 DEF TornHeader
<1>5. TornBody(t, e) => TornBody(t, e)'
  BY ZenonT(40), <1>1 DEF TornBody
<1> QED BY <1>2, <1>3, <1>4, <1>5 DEF Rest, Whole, Torn

\* A step that writes and reads nothing.
LEMMA StillTape ==
  ASSUME TypeOK, NEW t, NEW n, NEW off, NEW b, Tape(t, n, off, b), failed => failed',
         \A w \in Procs : pc'[w] = "body" <=> pc[w] = "body",
         \A w \in Procs : pc[w] = "body" => msg'[w] = msg[w],
         UNCHANGED <<written, phase, size, delivered>>,
         conn' = "open" => conn = "open" /\ hs' = hs,
         Carried(t, b)'
  PROVE  Tape(t, n, off, b)'
<1>1. t \in Seq(Bytes) /\ n \in Nat /\ off \in [1 .. n + 1 -> Nat] /\ b \in Nat
  BY ZenonT(40) DEF Tape
<1>2. Frames(t, n, off)'
  BY ZenonT(40) DEF Tape, Frames, MsgAt
<1>3. Rest(t, off[n + 1])'
  BY ZenonT(40), RestKept DEF Tape
<1>4. Turn(t, n, off)'
  <2> SUFFICES ASSUME Whole(t, off[n + 1])', conn' = "open"
               PROVE  n = Count'
    BY ZenonT(40) DEF Turn
  <2>1. Whole(t, off[n + 1])
    BY RestKept
  <2>2. Count' = Count
    BY ZenonT(40) DEF Count
  <2> QED BY ZenonT(40), <2>1, <2>2 DEF Tape, Turn
<1>5. Position(t, n, off, b)'
  BY DEF Tape, Position, Current
<1> QED BY ZenonT(40), <1>1, <1>2, <1>3, <1>4, <1>5 DEF Tape

\* u is s with x behind it
Appended(s, x, u) ==
  /\ Len(u) = Len(s) + Len(x)
  /\ \A i \in 1 .. Len(s) : u[i] = s[i]
  /\ \A i \in 1 .. Len(x) : u[Len(s) + i] = x[i]

\* The bytes that are written go on the tape and on the stream.
LEMMA CarriedGrows ==
  ASSUME NEW t, NEW x, NEW u, NEW b \in Nat, Carried(t, b),
         Len(stream) \in Nat, Len(t) \in Nat, Len(x) \in Nat,
         conn = "open" \/ Len(x) = 0, conn' = conn,
         Appended(t, x, u), Appended(stream, x, stream')
  PROVE  Carried(u, b)'
<1>1. b + Len(stream) <= Len(t) /\ (conn = "open" => b + Len(stream) = Len(t))
  BY DEF Carried
<1>2. Len(u) = Len(t) + Len(x) /\ Len(stream') = Len(stream) + Len(x)
  BY DEF Appended
<1>3. b + Len(stream') <= Len(u) /\ (conn' = "open" => b + Len(stream') = Len(u))
  BY <1>1, <1>2
<1>4. ASSUME NEW j \in 1 .. Len(stream')
      PROVE  stream'[j] = u[b + j]
  <2>1. CASE j <= Len(stream)
    <3>1. j \in 1 .. Len(stream) /\ b + j \in 1 .. Len(t)
      BY <1>1, <1>2, <2>1
    <3> QED BY <3>1 DEF Carried, Appended
  <2>2. CASE j > Len(stream)
    <3> DEFINE i == j - Len(stream)
    <3>1. i \in 1 .. Len(x) /\ j = Len(stream) + i
      BY <1>2, <2>2
    <3>2. b + j = Len(t) + i
      BY SMTT(30), <1>1, <3>1
    <3> HIDE DEF i
    <3> QED BY <3>1, <3>2 DEF Appended
  <2> QED BY <1>2, <2>1, <2>2
<1> QED BY <1>3, <1>4 DEF Carried

\* A Write appends to both.
LEMMA CarriedAppend ==
  ASSUME TypeOK, NEW t \in Seq(Bytes), NEW x \in Seq(Bytes), NEW b \in Nat, Carried(t, b),
         conn = "open" \/ Len(x) = 0, conn' = conn, stream' = stream \o x,
         NEW u, u = t \o x
  PROVE  Carried(u, b)'
<1>1. stream \in Seq(Bytes) /\ Len(stream) \in Nat /\ Len(t) \in Nat /\ Len(x) \in Nat
  BY DEF TypeOK, Bytes
<1>2. Appended(t, x, u) /\ Appended(stream, x, stream')
  BY <1>1 DEF Appended
<1> QED BY <1>1, <1>2, CarriedGrows, Zenon

\* The reader has not read what is written now.
LEMMA PositionAppend ==
  ASSUME TypeOK, NEW t, NEW n, NEW off, NEW b, Tape(t, n, off, b), NEW x \in Seq(Bytes),
         UNCHANGED <<phase, size, delivered>>, NEW u, u = t \o x,
         NEW p \in Nat, n <= p, NEW new \in [1 .. p + 1 -> Nat],
         \A i \in 1 .. n + 1 : new[i] = off[i]
  PROVE  Position(u, p, new, b)'
<1>1. /\ t \in Seq(Bytes) /\ n \in Nat /\ off \in [1 .. n + 1 -> Nat] /\ b \in Nat
      /\ Carried(t, b) /\ Position(t, n, off, b)
  BY DEF Tape
<1>2. Current' = Current /\ Current \in 1 .. n + 1
  <2>1. Len(delivered) \in Nat
    BY DEF TypeOK
  <2> QED BY <1>1, <2>1 DEF Current, Position
<1>3. new[Current] = off[Current] /\ off[Current] \in Nat /\ Current <= p + 1
  BY <1>1, <1>2
<1>4. ASSUME size # -1, NEW m \in All, HeaderAt(u, off[Current], m)
      PROVE  size = Size[m]
  <2>1. b = off[Current] + HdrLen
    BY ZenonT(40), <1>1, <1>4 DEF Position
  <2>2. b <= Len(t)
    <3>1. Len(stream) \in Nat /\ Len(t) \in Nat
      BY SMTT(30), <1>1 DEF TypeOK
    <3> QED BY <1>1, <3>1 DEF Carried
  <2>3. HeaderAt(t, off[Current], m)
    BY ZenonT(40), <1>1, <1>3, <1>4, <2>1, <2>2, AtAppend
  <2> QED BY <1>1, <1>4, <2>3 DEF Position
<1>5. size = -1 => b = off[Current]
  BY <1>1 DEF Position
<1>6. size # -1 => b = off[Current] + HdrLen
  BY ZenonT(40), <1>1 DEF Position
<1> QED BY <1>2, <1>3, <1>4, <1>5, <1>6 DEF Position

\* A Write that completes no frame: what it makes of the rest of the tape.
LEMMA AppendTape ==
  ASSUME TypeOK, NEW t, NEW n, NEW off, NEW b, Tape(t, n, off, b), NEW x \in Seq(Bytes),
         UNCHANGED <<phase, size, delivered>>, conn' = conn, stream' = stream \o x,
         conn = "open" \/ Len(x) = 0,
         written' = written \/ \E m \in Msgs : written' = Append(written, m),
         NEW u, u = t \o x, Rest(u, off[n + 1])', Turn(u, n, off)'
  PROVE  Tape(u, n, off, b)'
<1>1. /\ t \in Seq(Bytes) /\ n \in Nat /\ off \in [1 .. n + 1 -> Nat] /\ b \in Nat
      /\ Carried(t, b) /\ Frames(t, n, off)
  BY ZenonT(40) DEF Tape
<1>2. u \in Seq(Bytes)
  BY <1>1
<1>3. Frames(u, n, off)'
  BY ZenonT(40), <1>1, FramesAppend
<1>4. Carried(u, b)'
  BY ZenonT(40), <1>1, CarriedAppend
<1>5. Position(u, n, off, b)'
  <2>1. n <= n /\ \A i \in 1 .. n + 1 : off[i] = off[i]
    BY <1>1
  <2> QED BY <1>1, <2>1, PositionAppend, Zenon
<1> QED BY ZenonT(40), <1>1, <1>2, <1>3, <1>4, <1>5 DEF Tape

\* What is torn stays torn: a goroutine that starts a frame writes digits, and one
\* that goes on with a body has written its header behind the tear.
LEMMA TornAppend ==
  ASSUME NEW t, NEW x, NEW u, NEW e \in Nat, Torn(t, e), failed',
         Len(t) \in Nat, Len(x) \in Nat, Appended(t, x, u),
         NoBody => \A i \in 1 .. Len(x) : x[i] \in Digits,
         NoBody' \/ Len(x) = HdrLen
  PROVE  Torn(u, e)'
<1>1. Len(u) = Len(t) + Len(x) /\ HdrLen \in Nat \ {0}
  BY Constants DEF Appended
<1>2. \A i \in 1 .. Len(t) : u[i] = t[i]
  BY DEF Appended
<1>3. NoBody => \A i \in Len(t) + 1 .. Len(u) : u[i] \in Digits
  <2> SUFFICES ASSUME NoBody, NEW i \in Len(t) + 1 .. Len(u)
               PROVE  u[i] \in Digits
    OBVIOUS
  <2> DEFINE j == i - Len(t)
  <2>1. j \in 1 .. Len(x) /\ i = Len(t) + j
    BY SMTT(30), <1>1
  <2> HIDE DEF j
  <2> QED BY <2>1 DEF Appended
<1>4. CASE TornHeader(t, e)
  <2>1. /\ e < Len(t) /\ (Len(t) <= e + HdrLen => NoBody)
        /\ \A j \in 1 .. HdrLen + 1 : e + j <= Len(t) => t[e + j] \in Digits
    BY <1>4 DEF TornHeader
  <2>2. e < Len(u)
    BY SMTT(30), <1>1, <2>1
  <2>3. ASSUME NEW j \in 1 .. HdrLen + 1, e + j <= Len(u)
        PROVE  u[e + j] \in Digits
    <3>1. CASE e + j <= Len(t)
      <4>1. e + j \in 1 .. Len(t)
        BY SMTT(30), <1>1, <3>1
      <4> QED BY <1>2, <2>1, <3>1, <4>1
    <3>2. CASE e + j > Len(t)
      <4>1. e + j \in Len(t) + 1 .. Len(u) /\ Len(t) <= e + HdrLen
        BY SMTT(30), <1>1, <2>3, <3>2
      <4> QED BY <1>3, <2>1, <4>1
    <3> QED BY SMTT(30), <1>1, <3>1, <3>2
  <2>4. Len(u) <= e + HdrLen => NoBody'
    BY SMTT(30), <1>1, <2>1
  <2> QED BY ZenonT(40), <2>2, <2>3, <2>4 DEF TornHeader, Torn
<1>5. CASE TornBody(t, e)
  <2>0. PICK m \in All : \E k \in 0 .. Size[m] - 1 :
          /\ HeaderAt(t, e, m) /\ e + HdrLen + k <= Len(t)
          /\ Len(t) = e + HdrLen + k => NoBody
          /\ Len(t) > e + HdrLen + k => t[e + HdrLen + k + 1] \in Digits
    BY ZenonT(40), <1>5 DEF TornBody
  <2>1. PICK k \in 0 .. Size[m] - 1 :
          /\ HeaderAt(t, e, m) /\ e + HdrLen + k <= Len(t)
          /\ Len(t) = e + HdrLen + k => NoBody
          /\ Len(t) > e + HdrLen + k => t[e + HdrLen + k + 1] \in Digits
    BY ZenonT(40), <2>0
  <2> DEFINE c == e + HdrLen + k
  <2>2. c \in Nat /\ c <= Len(t) /\ (Len(t) = c => NoBody)
        /\ (Len(t) > c => t[c + 1] \in Digits)
    BY SMTT(30), <1>1, <2>1, Constants
  <2>3. HeaderAt(u, e, m)
    <3>1. \A j \in 1 .. HdrLen : e + j \in 1 .. Len(t)
      BY SMTT(30), <1>1, <2>1 DEF HeaderAt
    <3>2. e + HdrLen <= Len(u)
      BY SMTT(30), <1>1, <2>1 DEF HeaderAt
    <3> QED BY ZenonT(40), <1>2, <2>1, <3>1, <3>2 DEF HeaderAt
  <2> HIDE DEF c
  <2>4. c <= Len(u) /\ (Len(u) = c => NoBody')
    BY SMTT(30), <1>1, <2>2
  <2>5. Len(u) > c => u[c + 1] \in Digits
    <3>1. CASE Len(t) = c
      BY SMTT(30), <1>1, <1>3, <2>2, <3>1
    <3>2. CASE Len(t) > c
      <4>1. c + 1 \in 1 .. Len(t)
        BY SMTT(30), <2>2, <3>2
      <4> QED BY ZenonT(40), <1>2, <2>2, <3>2, <4>1
    <3> QED BY SMTT(30), <2>2, <3>1, <3>2
  <2> QED BY ZenonT(40), <2>3, <2>4, <2>5 DEF TornBody, Torn, c
<1> QED BY <1>4, <1>5 DEF Torn

\* Of what is torn nothing is whole.
LEMMA TornTurn ==
  ASSUME NEW t, NEW n, NEW off, off[n + 1] \in Nat, Len(t) \in Nat, Torn(t, off[n + 1])'
  PROVE  Rest(t, off[n + 1])' /\ Turn(t, n, off)'
<1> DEFINE e == off[n + 1]
<1>1. HdrLen \in Nat \ {0} /\ \A m \in All : Size[m] \in Nat
  BY Constants
<1>2. CASE TornHeader(t, e)'
  <2>1. ~Clean(t, e)'
    BY SMTT(30), <1>2 DEF Clean, TornHeader
  <2>2. ~Begun(t, e)'
    BY <1>1, <1>2 DEF Begun, TornHeader, NoBody
  <2> QED BY <1>2, <2>1, <2>2 DEF Rest, Torn, Turn, Whole
<1>3. CASE TornBody(t, e)'
  <2>1. \E m \in All : \E k \in 0 .. Size[m] - 1 :
          e + HdrLen + k <= Len(t) /\ (Len(t) = e + HdrLen + k => NoBody')
    BY <1>3 DEF TornBody
  <2>2. ~Clean(t, e)'
    BY <1>1, <2>1 DEF Clean
  <2>3. ~Begun(t, e)'
    <3> SUFFICES ASSUME Len(t) = e + HdrLen, ~NoBody'
                 PROVE  FALSE
      BY DEF Begun, NoBody
    <3> QED BY SMTT(30), <1>1, <2>1
  <2> QED BY ZenonT(40), <1>3, <2>2, <2>3 DEF Rest, Torn, Turn, Whole
<1> QED BY <1>2, <1>3 DEF Torn

\* What a Write does to a tape.
LEMMA TapeAppended ==
  ASSUME NEW t \in Seq(Bytes), NEW x \in Seq(Bytes), NEW u, u = t \o x
  PROVE  Appended(t, x, u) /\ u \in Seq(Bytes) /\ Len(t) \in Nat /\ Len(x) \in Nat
                           /\ Len(u) \in Nat
BY DEF Appended

\* A goroutine with the lock is the only one between its Writes.
LEMMA Alone ==
  ASSUME WriteInv, NEW w \in Procs, pc[w] \in {"hdr", "body"}
  PROVE  \A v \in Procs : pc[v] = "body" => v = w
BY DEF WriteInv, LockHeld

\* The header goes behind whole frames, or behind the tear.
LEMMA WriteHeaderTape ==
  ASSUME WriteInv, NEW w \in Procs, WriteHeader(w), NEW t, NEW n, NEW off, NEW b,
         Tape(t, n, off, b), NEW u, u = t \o Header(msg[w])
  PROVE  Tape(u, n, off, b)'
<1> DEFINE x == Header(msg[w])
           e == off[n + 1]
<1>1. /\ pc[w] = "hdr" /\ conn = "open" /\ stream' = stream \o x
      /\ pc' = [pc EXCEPT ![w] = "body"]
      /\ UNCHANGED <<conn, lock, msg, hs, sent, written, failed, phase, size, sess, delivered>>
  BY ZenonT(40) DEF WriteHeader, readVars
<1>2. TypeOK /\ pc \in [Procs -> {"idle", "hdr", "body", "err"}] /\ msg[w] \in All
  BY <1>1, Busy DEF WriteInv, TypeOK, Procs
<1>3. x \in Seq(Bytes) /\ Len(x) = HdrLen /\ \A i \in 1 .. Len(x) : x[i] \in Digits
  <2>1. x \in Seq(Digits) /\ Len(x) = HdrLen
    BY <1>2, HeaderBytes
  <2> HIDE DEF x
  <2> QED BY <2>1 DEF Bytes
<1>4. /\ t \in Seq(Bytes) /\ n \in Nat /\ e \in Nat /\ Rest(t, e) /\ Turn(t, n, off)
  BY SMTT(30) DEF Tape
<1> HIDE DEF x
<1>5. Appended(t, x, u) /\ u \in Seq(Bytes) /\ Len(t) \in Nat /\ Len(x) \in Nat /\ Len(u) \in Nat
  BY ZenonT(40), <1>3, <1>4, TapeAppended DEF x
<1>6. NoBody /\ ~Begun(t, e)
  BY <1>1, Alone DEF NoBody, Begun
<1> HIDE DEF e
<1>7. CASE Clean(t, e)
  <2>1. Len(t) = e /\ Len(u) = e + HdrLen
    BY <1>3, <1>5, <1>7 DEF Clean, Appended
  <2>2. HeaderAt(u, e, msg[w])
    <3>1. \A j \in 1 .. HdrLen : u[e + j] = Header(msg[w])[j]
      BY ZenonT(40), <1>3, <1>5, <2>1 DEF Appended, x
    <3>2. e + HdrLen <= Len(u)
      BY <1>5, <2>1
    <3> QED BY <3>1, <3>2, Zenon DEF HeaderAt
  <2>3. Begun(u, e)'
    BY ZenonT(40), <1>1, <1>2, <2>1, <2>2 DEF Begun
  <2>4. n = Count
    BY ZenonT(40), <1>1, <1>4, <1>7 DEF Turn, Whole, e
  <2>5. Turn(u, n, off)'
    BY ZenonT(40), <1>1, <2>4 DEF Turn, Count
  <2> QED BY ZenonT(40), <2>3, <2>5, <1>1, <1>2, <1>3, AppendTape DEF Rest, Whole, e, x
<1>8. CASE Torn(t, e)
  <2>1. failed'
    BY <1>1, <1>8 DEF Torn, TornHeader, TornBody
  <2>2. Torn(u, e)'
    BY <1>3, <1>4, <1>5, <1>8, <2>1, TornAppend
  <2>3. Rest(u, off[n + 1])' /\ Turn(u, n, off)'
    BY ZenonT(40), <1>4, <1>5, <2>2, TornTurn DEF e
  <2> QED BY ZenonT(40), <1>1, <1>2, <1>3, <2>3, AppendTape DEF x
<1> QED BY ZenonT(40), <1>4, <1>6, <1>7, <1>8 DEF Rest, Whole

\* A Write that fails leaves a tear, or nothing if it is a header of which nothing
\* was written.
LEMMA WriteErrTape ==
  ASSUME WriteInv, NEW w \in Procs, NEW k \in Nat, WriteErr(w, k), NEW t, NEW n, NEW off, NEW b,
         Tape(t, n, off, b)
  PROVE  \E u : Tape(u, n, off, b)'
<1> DEFINE e == off[n + 1]
<1>1. /\ pc[w] \in {"hdr", "body"} /\ pc' = [pc EXCEPT ![w] = "err"]
      /\ lock' = None /\ failed' = TRUE
      /\ UNCHANGED <<conn, msg, hs, sent, written, phase, size, sess, delivered>>
  BY DEF WriteErr, readVars
<1>2. TypeOK /\ pc \in [Procs -> {"idle", "hdr", "body", "err"}] /\ msg[w] \in All
  BY ZenonT(40), <1>1, Busy DEF WriteInv, TypeOK, Procs
<1>3. PICK x \in Seq(Bytes) :
        /\ stream' = stream \o x /\ Len(x) = k
        /\ conn # "open" => k = 0
        /\ IF pc[w] = "hdr"
           THEN k < HdrLen /\ \A i \in 1 .. k : x[i] \in Digits
           ELSE pc[w] = "body" /\ k < Size[msg[w]]
  BY ZenonT(40), WriteErrBytes
<1>4. /\ t \in Seq(Bytes) /\ n \in Nat /\ e \in Nat /\ Rest(t, e) /\ Turn(t, n, off)
  BY DEF Tape
<1> DEFINE u == t \o x
<1>5. Appended(t, x, u) /\ u \in Seq(Bytes) /\ Len(t) \in Nat /\ Len(x) \in Nat /\ Len(u) \in Nat
  BY ZenonT(40), <1>3, <1>4, TapeAppended
<1>6. u = t \o x
  OBVIOUS
<1> HIDE DEF u, e
<1>7. NoBody'
  BY SMTT(30), <1>1, <1>2, Alone DEF NoBody
<1>8. (conn = "open" \/ Len(x) = 0) /\ conn' = conn /\ written' = written
      /\ UNCHANGED <<phase, size, delivered>>
  BY <1>1, <1>3
<1>9. ASSUME Rest(u, off[n + 1])', Turn(u, n, off)'
      PROVE  Tape(u, n, off, b)'
  BY ZenonT(40), <1>2, <1>3, <1>6, <1>8, <1>9, AppendTape
<1>10. CASE Torn(t, e)
  <2>1. NoBody => \A i \in 1 .. Len(x) : x[i] \in Digits
    BY <1>3 DEF NoBody
  <2>2. Torn(u, e)'
    BY ZenonT(40), <1>1, <1>4, <1>5, <1>7, <1>10, <2>1, TornAppend
  <2> QED BY ZenonT(40), <1>4, <1>5, <1>9, <2>2, TornTurn DEF e
<1>11. CASE Clean(t, e) /\ k = 0
  <2>1. Len(u) = e
    BY <1>3, <1>4, <1>5, <1>11 DEF Clean, Appended
  <2>2. Clean(u, e)'
    BY ZenonT(40), <1>7, <2>1 DEF Clean
  <2>3. Turn(u, n, off)'
    BY ZenonT(40), <1>1, <1>4, <1>11 DEF Turn, Whole, Count, e
  <2> QED BY ZenonT(40), <1>9, <2>2, <2>3 DEF Rest, Whole, e
<1>12. CASE Clean(t, e) /\ k # 0
  <2>1. k < HdrLen /\ \A i \in 1 .. k : x[i] \in Digits
    BY SMTT(30), <1>1, <1>3, <1>12 DEF Clean, NoBody
  <2>2. Len(t) = e /\ Len(u) = e + k
    BY <1>3, <1>5, <1>12 DEF Clean, Appended
  <2>3. \A j \in 1 .. HdrLen + 1 : e + j <= Len(u) => u[e + j] \in Digits
    <3> SUFFICES ASSUME NEW j \in 1 .. HdrLen + 1, e + j <= Len(u)
                 PROVE  u[e + j] \in Digits
      BY ZenonT(40)
    <3>1. j \in 1 .. k
      BY SMTT(30), <1>4, <2>2, Constants
    <3>2. u[Len(t) + j] = x[j]
      BY ZenonT(40), <1>3, <1>5, <3>1 DEF Appended
    <3> QED BY ZenonT(40), <2>1, <2>2, <3>1, <3>2
  <2>4. e < Len(u)
    BY SMTT(30), <1>4, <1>12, <2>2
  <2>5. TornHeader(u, e)'
    BY ZenonT(40), <1>1, <1>7, <2>3, <2>4 DEF TornHeader
  <2> QED BY ZenonT(40), <1>4, <1>5, <1>9, <2>5, TornTurn DEF e, Torn
<1>13. CASE Begun(t, e)
  <2>1. pc[w] = "body" /\ HeaderAt(t, e, msg[w]) /\ Len(t) = e + HdrLen
    BY <1>1, <1>13, Alone DEF Begun
  <2>2. k < Size[msg[w]]
    BY ZenonT(40), <1>3, <2>1
  <2>3. HeaderAt(u, e, msg[w])
    BY ZenonT(40), <1>2, <1>3, <1>4, <1>6, <2>1, AtAppend
  <2>4. Len(u) = e + HdrLen + k
    BY ZenonT(40), <1>3, <1>4, <1>5, <2>1, Constants DEF Appended
  <2>5. TornBody(u, e)'
    <3>1. k \in 0 .. Size[msg[w]] - 1 /\ e + HdrLen + k <= Len(u) /\ ~(Len(u) > e + HdrLen + k)
      BY SMTT(30), <1>2, <1>4, <2>2, <2>4, Constants
    <3> QED BY ZenonT(40), <1>1, <1>2, <1>7, <2>3, <3>1 DEF TornBody
  <2> QED BY ZenonT(40), <1>4, <1>5, <1>9, <2>5, TornTurn DEF e, Torn
<1> QED BY <1>4, <1>10, <1>11, <1>12, <1>13 DEF Rest, Whole

\* The body completes a frame, of the message that is next, or goes behind the
\* tear.
LEMMA WriteBodyTape ==
  ASSUME WriteInv, NEW w \in Procs, WriteBody(w), NEW t, NEW n, NEW off, NEW b,
         Tape(t, n, off, b)
  PROVE  \E u, p, new : Tape(u, p, new, b)'
<1> DEFINE e == off[n + 1]
<1>0. PICK m : m = msg[w]
  OBVIOUS
<1>a. PICK x : x = Body(m)
  OBVIOUS
<1>b. PICK u : u = t \o x
  BY ZenonT(40)
<1>1. /\ pc[w] = "body" /\ conn = "open" /\ stream' = stream \o x
      /\ pc' = [pc EXCEPT ![w] = "idle"] /\ lock' = None
      /\ UNCHANGED <<conn, msg, sent, failed, phase, size, sess, delivered>>
  BY <1>0, <1>a DEF WriteBody, readVars
<1>2. TypeOK /\ pc \in [Procs -> {"idle", "hdr", "body", "err"}] /\ m \in All
  BY <1>0, <1>1, Busy DEF WriteInv, TypeOK, Procs
<1>3. x \in Seq(Bytes) /\ Len(x) = Size[m]
  <2>1. x \in Seq(Places) /\ Len(x) = Size[m]
    BY ZenonT(40), <1>2, <1>a, BodyBytes
  <2> QED BY SMTT(30), <2>1 DEF Bytes
<1>4. /\ t \in Seq(Bytes) /\ n \in Nat /\ e \in Nat /\ Rest(t, e) /\ Turn(t, n, off)
      /\ off \in [1 .. n + 1 -> Nat] /\ b \in Nat /\ Frames(t, n, off) /\ Carried(t, b)
  BY SMTT(30) DEF Tape
<1>5. written' = written \/ \E d \in Msgs : written' = Append(written, d)
  BY ZenonT(40), <1>1, Busy DEF WriteBody, Procs
<1>6. Appended(t, x, u) /\ u \in Seq(Bytes) /\ Len(t) \in Nat /\ Len(x) \in Nat /\ Len(u) \in Nat
  BY ZenonT(40), <1>3, <1>4, <1>b, TapeAppended
<1>7. (conn = "open" \/ Len(x) = 0) /\ conn' = conn /\ UNCHANGED <<phase, size, delivered>>
  BY <1>1
<1>8. ~NoBody /\ ~Clean(t, e) /\ NoBody'
  BY <1>1, <1>2, Alone DEF NoBody, Clean
<1> HIDE DEF e
<1>9. CASE Torn(t, e)
  <2>1. failed'
    BY <1>1, <1>9 DEF Torn, TornHeader, TornBody
  <2>2. Torn(u, e)'
    BY ZenonT(40), <1>4, <1>6, <1>8, <1>9, <2>1, TornAppend
  <2>3. Rest(u, off[n + 1])' /\ Turn(u, n, off)'
    BY ZenonT(40), <1>4, <1>6, <2>2, TornTurn DEF e
  <2>4. Tape(u, n, off, b)'
    BY ZenonT(40), <1>1, <1>2, <1>3, <1>5, <1>7, <1>b, <2>3, AppendTape
  <2> QED BY <2>4
<1>10. CASE Begun(t, e)
  <2>1. HeaderAt(t, e, m) /\ Len(t) = e + HdrLen
    BY <1>0, <1>1, <1>10, Alone DEF Begun
  <2>2. n = Count
    BY <1>1, <1>4, <1>10 DEF Turn, Whole, e
  <2>3. MsgAt(n + 1)' = m /\ n + 1 = Count' /\ n + 1 <= 2 + Len(written')
    <3>1. Len(written) \in Nat /\ written \in Seq(Msgs)
      BY <1>2 DEF TypeOK
    <3>2. CASE w = Dialer
      <4>1. \/ hs = "addr" /\ m = Addr /\ hs' = "meta" /\ written' = written
            \/ hs = "meta" /\ m = Meta /\ hs' = "data" /\ written' = written
        BY ZenonT(40), <1>0, <1>1, <3>2 DEF WriteBody, WriteInv, InTurn
      <4>2. written = <<>>
        BY <4>1 DEF WriteInv, InTurn
      <4> QED BY SMTT(30), <2>2, <4>1, <4>2 DEF Count, MsgAt
    <3>3. CASE w # Dialer
      <4>1. hs = "data" /\ hs' = hs /\ written' = Append(written, m)
        BY ZenonT(40), <1>0, <1>1, <3>3 DEF WriteBody, WriteInv, InTurn, Procs
      <4>2. n = 2 + Len(written)
        BY <2>2, <4>1 DEF Count
      <4>3. Len(written') = Len(written) + 1 /\ written'[Len(written) + 1] = m
        BY <3>1, <4>1
      <4> QED BY SMTT(30), <3>1, <4>1, <4>2, <4>3 DEF Count, MsgAt
    <3> QED BY ZenonT(40), <3>2, <3>3
  <2>a. PICK new : new = [i \in 1 .. (n + 1) + 1 |-> IF i = n + 2 THEN Len(u) ELSE off[i]]
    BY ZenonT(40)
  <2>4. /\ new \in [1 .. (n + 1) + 1 -> Nat] /\ \A i \in 1 .. n + 1 : new[i] = off[i]
        /\ new[(n + 1) + 1] = Len(u)
    BY <1>4, <1>6, <2>a
  <2>5. Len(u) = e + HdrLen + Size[m]
    BY ZenonT(40), <1>3, <1>4, <1>6, <2>1, Constants DEF Appended
  <2>6. HeaderAt(u, e, m) /\ BodyAt(u, e + HdrLen, m)
    <3>1. HeaderAt(u, e, m)
      BY ZenonT(40), <1>2, <1>3, <1>4, <1>b, <2>1, AtAppend
    <3>2. \A j \in 1 .. Size[m] : u[e + HdrLen + j] = Body(m)[j]
      BY ZenonT(40), <1>3, <1>6, <1>a, <2>1 DEF Appended
    <3>3. e + HdrLen + Size[m] <= Len(u)
      BY SMTT(30), <1>6, <2>5
    <3> QED BY ZenonT(40), <3>1, <3>2, <3>3 DEF BodyAt
  <2>7. Frames(u, n + 1, new)'
    <3>1. Frames(u, n, off)'
      BY ZenonT(40), <1>2, <1>3, <1>4, <1>5, <1>b, FramesAppend
    <3>2. new[1] = 0
      BY <1>4, <2>4, <3>1 DEF Frames
    <3>3. ASSUME NEW i \in 1 .. n + 1
          PROVE  /\ HeaderAt(u, new[i], MsgAt(i)') /\ BodyAt(u, new[i] + HdrLen, MsgAt(i)')
                 /\ new[i + 1] = new[i] + HdrLen + Size[MsgAt(i)']
      <4>1. CASE i \in 1 .. n
        <5>1. i + 1 \in 1 .. n + 1 /\ i \in 1 .. n + 1
          BY SMTT(30), <1>4, <4>1
        <5>2. new[i] = off[i] /\ new[i + 1] = off[i + 1]
          BY ZenonT(40), <2>4, <5>1
        <5> QED BY ZenonT(40), <3>1, <4>1, <5>2 DEF Frames
      <4>2. CASE i = n + 1
        <5>1. new[i] = e /\ new[i + 1] = Len(u)
          BY ZenonT(40), <1>4, <2>4, <4>2 DEF e
        <5> QED BY ZenonT(40), <2>3, <2>5, <2>6, <4>2, <5>1
      <4> QED BY <1>4, <4>1, <4>2
    <3> QED BY ZenonT(40), <2>3, <3>2, <3>3 DEF Frames
  <2>8. Rest(u, new[(n + 1) + 1])'
    BY <1>8, <2>4 DEF Rest, Whole, Clean
  <2>9. Turn(u, n + 1, new)'
    BY ZenonT(40), <2>3 DEF Turn
  <2>10. Carried(u, b)'
    BY ZenonT(40), <1>1, <1>2, <1>3, <1>4, <1>7, <1>b, CarriedAppend
  <2>11. Position(u, n + 1, new, b)'
    <3>1. n + 1 \in Nat /\ n <= n + 1
      BY SMTT(30), <1>4
    <3> QED BY ZenonT(40), <1>2, <1>3, <1>7, <1>b, <2>4, <3>1, PositionAppend
  <2>12. Tape(u, n + 1, new, b)'
    BY SMTT(30), <1>4, <1>6, <2>4, <2>7, <2>8, <2>9, <2>10, <2>11 DEF Tape
  <2> QED BY <2>12
<1> QED BY <1>4, <1>8, <1>9, <1>10 DEF Rest, Whole

\* Taking the lock, closing the connection or the session neither writes nor reads.
LEMMA StillSteps ==
  ASSUME WriteInv, NEW t, NEW n, NEW off, NEW b, Tape(t, n, off, b),
         \/ \E w \in Procs, m \in All : Lock(w, m)
         \/ \E w \in Procs : CloseConn(w)
         \/ SessClose \/ UNCHANGED vars
  PROVE  Tape(t, n, off, b)'
<1>1. TypeOK /\ pc \in [Procs -> {"idle", "hdr", "body", "err"}] /\ msg \in [Procs -> All \cup {None}]
  BY ZenonT(40) DEF WriteInv, TypeOK, Procs
<1>2. ASSUME stream' = stream, conn' = "open" => conn = "open" PROVE Carried(t, b)'
  BY ZenonT(40), <1>2 DEF Tape, Carried
<1>3. ASSUME NEW w \in Procs, NEW m \in All, Lock(w, m) PROVE Tape(t, n, off, b)'
  <2>1. /\ pc[w] = "idle" /\ pc' = [pc EXCEPT ![w] = "hdr"] /\ msg' = [msg EXCEPT ![w] = m]
        /\ UNCHANGED <<conn, stream, hs, written, failed, phase, size, delivered>>
    BY ZenonT(40), <1>3 DEF Lock, readVars
  <2>2. \A v \in Procs : /\ pc'[v] = "body" <=> pc[v] = "body"
                         /\ pc[v] = "body" => msg'[v] = msg[v]
    BY <1>1, <2>1
  <2>3. Carried(t, b)'
    BY ZenonT(40), <1>2, <2>1
  <2> QED BY ZenonT(40), <1>1, <2>1, <2>2, <2>3, StillTape
<1>4. ASSUME NEW w \in Procs, CloseConn(w) PROVE Tape(t, n, off, b)'
  <2>1. /\ pc[w] = "err" /\ pc' = [pc EXCEPT ![w] = "idle"] /\ conn' # "open"
        /\ UNCHANGED <<msg, stream, written, failed, phase, size, delivered>>
    BY <1>4 DEF CloseConn, readVars
  <2>2. \A v \in Procs : pc'[v] = "body" <=> pc[v] = "body"
    BY <1>1, <2>1
  <2>3. Carried(t, b)'
    BY ZenonT(40), <1>2, <2>1
  <2> QED BY ZenonT(40), <1>1, <2>1, <2>2, <2>3, StillTape
<1>5. CASE SessClose \/ UNCHANGED vars
  <2>1. UNCHANGED <<pc, msg, conn, hs, stream, written, failed, phase, size, delivered>>
    BY <1>5 DEF SessClose, vars, writeVars, readVars
  <2>2. Carried(t, b)'
    BY ZenonT(40), <1>2, <2>1
  <2> QED BY ZenonT(40), <1>1, <2>1, <2>2, StillTape
<1> QED BY ZenonT(40), <1>3, <1>4, <1>5

\* What the network drops has been on the tape.
LEMMA BreakTape ==
  ASSUME WriteInv, NEW k \in 0 .. Len(stream), Break(k), NEW t, NEW n, NEW off, NEW b,
         Tape(t, n, off, b)
  PROVE  Tape(t, n, off, b)'
<1>1. TypeOK /\ k \in Nat /\ k <= Len(stream) /\ Len(stream) \in Nat
  <2>1. stream \in Seq(Bytes)
    BY DEF WriteInv, TypeOK, Bytes
  <2> QED BY <2>1 DEF WriteInv
<1>2. /\ stream' = SubSeq(stream, 1, k) /\ conn' = "broken"
      /\ UNCHANGED <<pc, msg, hs, written, failed, phase, size, delivered>>
  BY ZenonT(40) DEF Break, writeVars, readVars
<1>3. Len(stream') = k /\ \A i \in 1 .. k : stream'[i] = stream[i]
  BY ZenonT(40), <1>1, <1>2, FirstBytes
<1>4. b \in Nat /\ Len(t) \in Nat /\ b + Len(stream) <= Len(t)
  BY SMTT(30) DEF Tape, Carried
<1>5. b + Len(stream') <= Len(t)
  BY SMTT(30), <1>1, <1>3, <1>4
<1>6. ASSUME NEW j \in 1 .. Len(stream') PROVE stream'[j] = t[b + j]
  <2>1. j \in 1 .. k /\ j \in 1 .. Len(stream)
    BY <1>1, <1>3
  <2> QED BY ZenonT(40), <1>3, <2>1 DEF Tape, Carried
<1>7. Carried(t, b)'
  BY ZenonT(40), <1>2, <1>5, <1>6 DEF Carried
<1> QED BY ZenonT(40), <1>1, <1>2, <1>7, StillTape
-----------------------------------------------------------------------------
(* The reader *)

\* r is s without its first k bytes
Dropped(s, k, r) == Len(r) = Len(s) - k /\ \A i \in 1 .. Len(s) - k : r[i] = s[k + i]

\* What is read leaves the stream and stays on the tape.
LEMMA CarriedShrinks ==
  ASSUME NEW t, NEW b \in Nat, Carried(t, b), Len(stream) \in Nat, Len(t) \in Nat,
         NEW k \in Nat, k <= Len(stream), NEW c, c = b + k,
         Dropped(stream, k, stream'), conn' = conn
  PROVE  Carried(t, c)'
<1>1. b + Len(stream) <= Len(t) /\ (conn = "open" => b + Len(stream) = Len(t))
  BY DEF Carried
<1>2. Len(stream') = Len(stream) - k
  BY DEF Dropped
<1>3. c + Len(stream') <= Len(t) /\ (conn' = "open" => c + Len(stream') = Len(t))
  BY SMTT(30), <1>1, <1>2
<1>4. ASSUME NEW j \in 1 .. Len(stream') PROVE stream'[j] = t[c + j]
  <2>1. j \in 1 .. Len(stream) - k /\ k + j \in 1 .. Len(stream) /\ b + (k + j) = c + j
    BY SMTT(30), <1>2
  <2>2. stream[k + j] = t[b + (k + j)]
    BY ZenonT(40), <2>1 DEF Carried
  <2>3. stream'[j] = stream[k + j]
    BY <2>1 DEF Dropped
  <2> QED BY <2>1, <2>2, <2>3
<1> QED BY ZenonT(40), <1>3, <1>4 DEF Carried

\* io.ReadFull takes the first k bytes.
LEMMA CarriedRead ==
  ASSUME TypeOK, NEW t \in Seq(Bytes), NEW b \in Nat, Carried(t, b),
         NEW k \in Nat, k <= Len(stream), NEW c, c = b + k,
         stream' = SubSeq(stream, k + 1, Len(stream)), conn' = conn
  PROVE  Carried(t, c)'
<1>1. Len(stream) \in Nat /\ Len(t) \in Nat
  BY SMTT(30) DEF TypeOK
<1>2. Dropped(stream, k, stream')
  BY ZenonT(40), FirstBytes DEF Dropped
<1> QED BY <1>1, <1>2, CarriedShrinks, Zenon

\* The reader moves within the frames.
LEMMA ReadTape ==
  ASSUME TypeOK, NEW t, NEW n, NEW off, NEW b, Tape(t, n, off, b),
         UNCHANGED writeVars, conn' = conn, NEW c \in Nat, Carried(t, c)', Position(t, n, off, c)'
  PROVE  Tape(t, n, off, c)'
<1>1. UNCHANGED <<pc, msg, hs, written, failed>>
  BY ZenonT(40) DEF writeVars
<1>2. Frames(t, n, off)'
  BY ZenonT(40), <1>1 DEF Tape, Frames, MsgAt
<1>3. Rest(t, off[n + 1])' /\ (Whole(t, off[n + 1])' => Whole(t, off[n + 1]))
  BY ZenonT(40), <1>1, RestKept DEF Tape
<1>4. Turn(t, n, off)'
  BY ZenonT(40), <1>1, <1>3 DEF Tape, Turn, Count
<1> QED BY ZenonT(40), <1>2, <1>3, <1>4 DEF Tape

\* The reader's frame is one of the tape's or the one behind them.
LEMMA CurrentIs ==
  ASSUME TypeOK, NEW t, NEW n, NEW off, NEW b, Tape(t, n, off, b)
  PROVE  /\ Current \in 1 .. n + 1 /\ off[Current] \in Nat
         /\ Len(t) \in Nat /\ Len(stream) \in Nat /\ b + Len(stream) <= Len(t)
         /\ \A j \in 1 .. Len(stream) : stream[j] = t[b + j]
<1>1. Len(delivered) \in Nat /\ Len(stream) \in Nat
  BY SMTT(30) DEF TypeOK
<1>2. n \in Nat /\ off \in [1 .. n + 1 -> Nat] /\ Current <= n + 1 /\ Len(t) \in Nat
  BY DEF Tape, Position
<1>3. Current \in 1 .. n + 1
  BY SMTT(30), <1>1, <1>2 DEF Current
<1>4. b + Len(stream) <= Len(t) /\ \A j \in 1 .. Len(stream) : stream[j] = t[b + j]
  BY DEF Tape, Carried
<1> QED BY ZenonT(40), <1>1, <1>2, <1>3, <1>4

\* readMessage reads a size where a frame starts; it is the frame's, if the header
\* is there in full.
LEMMA SizeRead ==
  ASSUME WriteInv, size = -1, phase # "stop", ReadFull(HdrLen),
         NEW t, NEW n, NEW off, NEW b, Tape(t, n, off, b),
         NEW v \in Values(SubSeq(stream, 1, HdrLen)),
         NEW m \in All, HeaderAt(t, off[Current], m)
  PROVE  v = Size[m]
<1>1. TypeOK /\ HdrLen \in Nat /\ HdrLen <= Len(stream)
  <2>1. stream \in Seq(Bytes)
    BY ZenonT(40) DEF WriteInv, TypeOK, Bytes
  <2> QED BY ZenonT(40), <2>1, Constants DEF WriteInv, ReadFull
<1> DEFINE bytes == SubSeq(stream, 1, HdrLen)
<1>2. bytes \in Seq(Bytes) /\ Len(bytes) = HdrLen /\ \A i \in 1 .. HdrLen : bytes[i] = stream[i]
  BY ZenonT(40), <1>1, FirstBytes
<1>3. b = off[Current]
  BY ZenonT(40) DEF Tape, Position
<1> HIDE DEF bytes
<1>4. ASSUME NEW i \in 1 .. HdrLen PROVE bytes[i] = Header(m)[i]
  <2>1. i \in 1 .. Len(stream)
    BY <1>1, CurrentIs
  <2>2. bytes[i] = stream[i]
    BY Zenon, <1>2
  <2>3. stream[i] = t[b + i]
    BY Zenon, <1>1, <2>1, CurrentIs
  <2>4. t[off[Current] + i] = Header(m)[i]
    BY Zenon DEF HeaderAt
  <2> QED BY Zenon, <1>3, <2>2, <2>3, <2>4
<1>5. Values(bytes) = {Size[m]}
  BY ZenonT(40), <1>2, <1>4, ValuesRead
<1> QED BY <1>5 DEF bytes

\* Reading a size.
LEMMA ReadHeaderTape ==
  ASSUME WriteInv, ReadHeader, phase' # "stop", NEW t, NEW n, NEW off, NEW b,
         Tape(t, n, off, b), NEW c, c = b + HdrLen
  PROVE  Tape(t, n, off, c)'
<1>1. TypeOK /\ HdrLen \in Nat /\ HdrLen <= Len(stream)
  <2>1. stream \in Seq(Bytes)
    BY DEF WriteInv, TypeOK, Bytes
  <2> QED BY ZenonT(40), <2>1, Constants DEF WriteInv, ReadHeader, ReadFull
<1>2. /\ size = -1 /\ phase # "stop" /\ ReadFull(HdrLen)
      /\ UNCHANGED writeVars
  BY Zenon DEF ReadHeader
<1>3. PICK v \in Values(SubSeq(stream, 1, HdrLen)) :
        /\ size' = v /\ stream' = SubSeq(stream, HdrLen + 1, Len(stream))
        /\ UNCHANGED <<conn, phase, delivered>>
  BY Zenon DEF ReadHeader, Stop
<1>4. v # -1
  <2>1. Values(SubSeq(stream, 1, HdrLen)) \subseteq 0 .. Weight[HdrLen] - 1
    BY ZenonT(40), <1>1, FirstBytes, ValuesRead
  <2>2. v \in 0 .. Weight[HdrLen] - 1
    BY <1>3, <2>1
  <2> QED BY SMTT(30), <2>2, Constants
<1>5. t \in Seq(Bytes) /\ b \in Nat /\ c \in Nat /\ Carried(t, b) /\ b = off[Current]
  BY <1>1, <1>2 DEF Tape, Position
<1>6. Carried(t, c)'
  BY ZenonT(40), <1>1, <1>3, <1>5, CarriedRead
<1>7. Current' = Current
  BY ZenonT(40), <1>3 DEF Current
<1>8. \A m \in All : HeaderAt(t, off[Current], m) => v = Size[m]
  BY ZenonT(40), <1>2, <1>3, SizeRead
<1>9. Position(t, n, off, c)'
  <2>1. Current <= n + 1
    BY DEF Tape, Position
  <2> QED BY ZenonT(40), <1>3, <1>4, <1>5, <1>7, <1>8, <2>1 DEF Position
<1> QED BY ZenonT(40), <1>1, <1>2, <1>3, <1>5, <1>6, <1>9, ReadTape

\* A body that decodes is the one of the reader's frame, which is complete: behind
\* a tear there is a digit before the size that was read is reached.
LEMMA BodyRead ==
  ASSUME WriteInv, size \in Nat, size <= Len(stream),
         NEW t, NEW n, NEW off, NEW b, Tape(t, n, off, b),
         NEW m \in All, SubSeq(stream, 1, size) = Body(m)
  PROVE  Current \in 1 .. n /\ MsgAt(Current) = m /\ size = Size[m]
<1>1. TypeOK /\ n \in Nat /\ b \in Nat /\ Rest(t, off[n + 1]) /\ n <= 2 + Len(written)
  BY ZenonT(40) DEF WriteInv, Tape, Frames
<1>2. /\ Current \in 1 .. n + 1 /\ off[Current] \in Nat /\ Len(t) \in Nat
      /\ Len(stream) \in Nat /\ b + Len(stream) <= Len(t)
      /\ \A j \in 1 .. Len(stream) : stream[j] = t[b + j]
  BY ZenonT(40), <1>1, CurrentIs
<1>3. size = Size[m] /\ size \in Nat \ {0}
  BY <1>1, FirstBytes, BodyBytes, Constants
<1>4. /\ b = off[Current] + HdrLen
      /\ \A k \in All : HeaderAt(t, off[Current], k) => size = Size[k]
  BY <1>3 DEF Tape, Position
<1>5. ASSUME NEW j \in 1 .. size PROVE t[b + j] = [of |-> m, at |-> j] /\ t[b + j] \notin Digits
  <2>1. j \in 1 .. Len(stream)
    BY SMTT(30), <1>2
  <2>2. stream[j] = Body(m)[j]
    BY ZenonT(40), <1>1, FirstBytes
  <2>3. t[b + j] = [of |-> m, at |-> j]
    BY ZenonT(40), <1>2, <1>3, <2>1, <2>2, BodyBytes
  <2> QED BY ZenonT(40), <2>3, DigitNotPlace
<1>6. b + size <= Len(t)
  BY SMTT(30), <1>1, <1>2
<1>7. Current # n + 1
  <2> SUFFICES ASSUME Current = n + 1 PROVE FALSE
    BY ZenonT(40)
  <2> DEFINE e == off[n + 1]
  <2>1. e \in Nat /\ b = e + HdrLen /\ \A k \in All : HeaderAt(t, e, k) => size = Size[k]
    BY ZenonT(40), <1>2, <1>4
  <2> HIDE DEF e
  <2>2. HdrLen \in Nat \ {0} /\ e + HdrLen < Len(t)
    BY SMTT(30), <1>2, <1>3, <1>6, <2>1, Constants
  <2>3. ~Clean(t, e) /\ ~Begun(t, e)
    BY SMTT(30), <1>2, <2>1, <2>2 DEF Clean, Begun
  <2>4. ~TornHeader(t, e)
    <3>1. t[b + 1] \notin Digits
      <4>1. 1 \in 1 .. size
        BY <1>3
      <4> QED BY ZenonT(40), <1>5, <4>1
    <3>2. b + 1 = e + (HdrLen + 1) /\ HdrLen + 1 \in 1 .. HdrLen + 1 /\ e + (HdrLen + 1) <= Len(t)
      BY <1>2, <2>1, <2>2
    <3> QED BY ZenonT(40), <3>1, <3>2 DEF TornHeader
  <2>5. ~TornBody(t, e)
    <3> SUFFICES ASSUME NEW q \in All, NEW k \in 0 .. Size[q] - 1, HeaderAt(t, e, q),
                        Len(t) > e + HdrLen + k => t[e + HdrLen + k + 1] \in Digits
                 PROVE  FALSE
      BY DEF TornBody
    <3>1. size = Size[q] /\ k + 1 \in 1 .. size
      BY SMTT(30), <1>3, <2>1
    <3>2. e + HdrLen + k + 1 = b + (k + 1) /\ Len(t) > e + HdrLen + k
      BY SMTT(30), <1>2, <1>6, <2>1, <2>2, <3>1
    <3> QED BY ZenonT(40), <1>5, <3>1, <3>2
  <2> QED BY ZenonT(40), <1>1, <2>3, <2>4, <2>5 DEF Rest, Whole, Torn, e
<1>8. Current \in 1 .. n
  BY SMTT(30), <1>1, <1>2, <1>7
<1>9. MsgAt(Current) = m
  <2> DEFINE q == MsgAt(Current)
  <2>1. q \in All /\ Size[q] \in Nat \ {0}
    BY ZenonT(40), <1>1, <1>8, MsgAtIs, Constants
  <2>2. BodyAt(t, b, q)
    BY ZenonT(40), <1>4, <1>8 DEF Tape, Frames
  <2> HIDE DEF q
  <2>3. 1 \in 1 .. Size[q] /\ 1 \in 1 .. size
    BY <1>3, <2>1
  <2>4. t[b + 1] = [of |-> q, at |-> 1]
    <3>1. t[b + 1] = Body(q)[1]
      BY <2>2, <2>3, Zenon DEF BodyAt
    <3>2. Body(q)[1] = [of |-> q, at |-> 1]
      BY <2>1, <2>3, BodyBytes, Zenon
    <3> QED BY <3>1, <3>2, Zenon
  <2>5. t[b + 1] = [of |-> m, at |-> 1]
    BY <1>5, <2>3, Zenon
  <2> QED BY SMTT(30), <2>4, <2>5 DEF q
<1> QED BY ZenonT(40), <1>3, <1>8, <1>9

\* What a phase goes on with is the message of its frame.
LEMMA Handled ==
  ASSUME WriteInv, ReadBody, phase' # "stop", NEW t, NEW n, NEW off, NEW b, Tape(t, n, off, b)
  PROVE  /\ Current \in 1 .. n /\ size = Size[MsgAt(Current)] /\ Current' = Current + 1
         /\ phase # "data" => delivered' = delivered
         /\ phase = "data" => delivered' = Append(delivered, MsgAt(Current))
<1>1. TypeOK /\ size \in Nat /\ size <= Len(stream)
  <2>1. stream \in Seq(Bytes) /\ size \in -1 .. Weight[HdrLen] - 1
    BY DEF WriteInv, TypeOK, Bytes
  <2> QED BY SMTT(30), <2>1, Constants DEF WriteInv, ReadBody, ReadFull
<1> DEFINE body == SubSeq(stream, 1, size)
<1>2. \/ phase = "addr" /\ body = Body(Addr) /\ phase' = "meta" /\ delivered' = delivered
      \/ phase = "meta" /\ body = Body(Meta) /\ phase' = "data" /\ delivered' = delivered
      \/ /\ phase = "data" /\ phase' = phase
         /\ \E m \in Msgs : body = Body(m) /\ delivered' = Append(delivered, m)
  BY Zenon DEF ReadBody, Handle, Reject
<1> HIDE DEF body
<1>3. ASSUME NEW m \in All, body = Body(m)
      PROVE  Current \in 1 .. n /\ MsgAt(Current) = m /\ size = Size[m]
  BY <1>1, <1>3, BodyRead DEF body
<1>4. {Addr, Meta} \subseteq All /\ Msgs \subseteq All
  BY ZenonT(40) DEF All
<1>5. delivered \in Seq(Msgs) /\ Len(delivered) \in Nat
  BY SMTT(30), <1>1 DEF TypeOK
<1>6. CASE phase = "addr" /\ body = Body(Addr) /\ phase' = "meta" /\ delivered' = delivered
  BY SMTT(30), <1>3, <1>4, <1>6 DEF Current
<1>7. CASE phase = "meta" /\ body = Body(Meta) /\ phase' = "data" /\ delivered' = delivered
  <2>1. delivered = <<>>
    BY ZenonT(40), <1>7 DEF WriteInv, Stopped
  <2> QED BY SMTT(30), <1>3, <1>4, <1>7, <2>1 DEF Current
<1>8. ASSUME phase = "data", phase' = phase, NEW m \in Msgs, body = Body(m),
             delivered' = Append(delivered, m)
      PROVE  /\ Current \in 1 .. n /\ size = Size[MsgAt(Current)] /\ Current' = Current + 1
             /\ delivered' = Append(delivered, MsgAt(Current))
  <2>1. Len(delivered') = Len(delivered) + 1
    BY SMTT(30), <1>5, <1>8
  <2> QED BY SMTT(30), <1>3, <1>4, <1>5, <1>8, <2>1 DEF Current
<1> QED BY ZenonT(40), <1>2, <1>6, <1>7, <1>8

\* Reading a body.
LEMMA ReadBodyTape ==
  ASSUME WriteInv, ReadBody, phase' # "stop", NEW t, NEW n, NEW off, NEW b,
         Tape(t, n, off, b), NEW c, c = b + size
  PROVE  Tape(t, n, off, c)'
<1>1. TypeOK /\ size \in Nat /\ size <= Len(stream)
  <2>1. stream \in Seq(Bytes) /\ size \in -1 .. Weight[HdrLen] - 1
    BY DEF WriteInv, TypeOK, Bytes
  <2> QED BY SMTT(30), <2>1, Constants DEF WriteInv, ReadBody, ReadFull
<1>2. /\ stream' = SubSeq(stream, size + 1, Len(stream)) /\ size' = -1
      /\ UNCHANGED writeVars /\ conn' = conn
  BY Zenon DEF ReadBody, Handle, Reject
<1>3. t \in Seq(Bytes) /\ n \in Nat /\ b \in Nat /\ c \in Nat /\ Carried(t, b)
  BY SMTT(30), <1>1 DEF Tape
<1>4. Carried(t, c)'
  BY ZenonT(40), <1>1, <1>2, <1>3, CarriedRead
<1>5. Current \in 1 .. n /\ size = Size[MsgAt(Current)] /\ Current' = Current + 1
  BY Handled
<1>6. c = off[Current + 1]
  <2>1. b = off[Current] + HdrLen
    BY SMTT(30), <1>1 DEF Tape, Position
  <2>2. off[Current + 1] = off[Current] + HdrLen + Size[MsgAt(Current)]
    BY ZenonT(40), <1>5 DEF Tape, Frames
  <2> QED BY ZenonT(40), <1>5, <2>1, <2>2
<1>7. Position(t, n, off, c)'
  <2>1. Current + 1 <= n + 1
    BY <1>3, <1>5
  <2> QED BY ZenonT(40), <1>2, <1>5, <1>6, <2>1 DEF Position
<1> QED BY ZenonT(40), <1>1, <1>2, <1>3, <1>4, <1>7, ReadTape

\* Every step keeps the tape.
LEMMA NextRead == WriteInv /\ ReadInv /\ [Next]_vars => ReadInv'
<1> SUFFICES ASSUME WriteInv, ReadInv, [Next]_vars, phase' # "stop"
             PROVE  \E t, n, off, b : Tape(t, n, off, b)'
  BY DEF ReadInv
<1>1. phase # "stop"
  <2>1. ASSUME phase = "stop" PROVE ~Reading
    BY <2>1, Constants DEF WriteInv, Stopped, Reading, ReadHeader, ReadBody, ReadEnd
  <2>2. ASSUME ~Reading PROVE phase' = phase
    BY Zenon, <2>2 DEF Next, Dial, Lock, Send, SessClose, WriteHeader, WriteBody, WriteErr,
       CloseConn, Break, vars, readVars
  <2> QED BY ZenonT(40), <2>1, <2>2
<1>2. PICK t, n, off, b : Tape(t, n, off, b)
  BY <1>1 DEF ReadInv
<1>3. b \in Nat
  BY <1>2 DEF Tape
<1>4. CASE Dial \/ (\E w \in Writers, m \in Msgs : Send(w, m))
           \/ (\E w \in Procs : CloseConn(w)) \/ SessClose \/ UNCHANGED vars
  <2>1. \/ \E w \in Procs, m \in All : Lock(w, m)
        \/ \E w \in Procs : CloseConn(w)
        \/ SessClose \/ UNCHANGED vars
    <3>1. Dial => \E m \in {Addr, Meta} : Lock(Dialer, m)
      BY DEF Dial
    <3> QED BY <1>4, <3>1 DEF Send, Procs, All
  <2> QED BY ZenonT(40), <1>2, <2>1, StillSteps
<1>5. CASE ReadHeader
  <2>1. PICK c : c = b + HdrLen
    OBVIOUS
  <2>2. Tape(t, n, off, c)'
    BY ZenonT(40), <1>2, <1>5, <2>1, ReadHeaderTape
  <2> QED BY <2>2
<1>6. CASE ReadBody
  <2>1. PICK c : c = b + size
    BY ZenonT(40)
  <2>2. Tape(t, n, off, c)'
    BY ZenonT(40), <1>2, <1>6, <2>1, ReadBodyTape
  <2> QED BY <2>2
<1>7. CASE ReadEnd
  BY <1>7 DEF ReadEnd, Stop
<1>8. ASSUME NEW w \in Procs, WriteHeader(w)
      PROVE  \E u : Tape(u, n, off, b)'
  <2>1. PICK u : u = t \o Header(msg[w])
    BY ZenonT(40)
  <2>2. Tape(u, n, off, b)'
    BY ZenonT(40), <1>2, <1>8, <2>1, WriteHeaderTape
  <2> QED BY <2>2
<1>9. ASSUME NEW w \in Procs, WriteBody(w)
      PROVE  \E u, p, new : Tape(u, p, new, b)'
  BY <1>2, <1>9, WriteBodyTape
<1>10. ASSUME NEW w \in Procs, NEW k \in 0 .. Weight[HdrLen], WriteErr(w, k)
       PROVE  \E u : Tape(u, n, off, b)'
  <2>1. k \in Nat
    BY Constants
  <2> QED BY ZenonT(40), <1>2, <1>10, <2>1, WriteErrTape
<1>11. ASSUME NEW k \in 0 .. Len(stream), Break(k)
       PROVE  Tape(t, n, off, b)'
  BY <1>2, <1>11, BreakTape
<1> QED BY Zenon, <1>4, <1>5, <1>6, <1>7, <1>8, <1>9, <1>10, <1>11 DEF Next, Reading, Procs

\* The bytes ever written are the frames of the messages that were written, then
\* at most one that is begun or torn, and the reader stands within them.
THEOREM FramingInvariant == Spec => [](WriteInv /\ ReadInv)
<1>1. Init => WriteInv /\ ReadInv
  BY ZenonT(40), InitWrite, InitRead
<1>2. WriteInv /\ ReadInv /\ [Next]_vars => WriteInv' /\ ReadInv'
  BY NextWrite, NextRead
<1> QED BY <1>1, <1>2, PTL DEF Spec

\* The variables hold what their Go counterparts can hold, whatever is written,
\* torn or dropped.
THEOREM FramingTypes == Spec => []TypeOK
<1>1. WriteInv => TypeOK
  BY ZenonT(40) DEF WriteInv
<1> QED BY <1>1, FramingInvariant, PTL
-----------------------------------------------------------------------------
(* Why the reader stops *)

\* The message of a frame that the reader is in is one of its phase.
LEMMA InPhase ==
  ASSUME WriteInv, phase # "stop", NEW n \in Nat, n <= 2 + Len(written), Current \in 1 .. n
  PROVE  /\ phase = "addr" => MsgAt(Current) = Addr
         /\ phase = "meta" => MsgAt(Current) = Meta
         /\ phase = "data" => /\ Len(delivered) + 1 \in 1 .. Len(written)
                              /\ MsgAt(Current) = written[Len(delivered) + 1]
                              /\ MsgAt(Current) \in sent /\ MsgAt(Current) \in Msgs
<1>1. Len(delivered) \in Nat /\ written \in Seq(Msgs) /\ Len(written) \in Nat
  BY DEF WriteInv, TypeOK
<1>2. ASSUME phase = "data"
      PROVE  /\ Len(delivered) + 1 \in 1 .. Len(written)
             /\ MsgAt(Current) = written[Len(delivered) + 1]
  BY SMTT(30), <1>1, <1>2 DEF Current, MsgAt
<1>3. ASSUME NEW i \in 1 .. Len(written) PROVE written[i] \in sent /\ written[i] \in Msgs
  BY SMTT(30), <1>1 DEF WriteInv, InTurn
<1> QED BY SMTT(30), <1>2, <1>3 DEF Current, MsgAt

\* A frame that is begun while the reader is behind all others is one of the
\* reader's phase.
LEMMA BegunInPhase ==
  ASSUME WriteInv, phase # "stop", NEW n \in Nat, n = Count, Current = n + 1,
         NEW w \in Procs, pc[w] = "body"
  PROVE  /\ phase = "addr" => msg[w] = Addr
         /\ phase = "meta" => msg[w] = Meta
         /\ phase = "data" => msg[w] \in sent
<1>1. Len(delivered) \in Nat /\ Len(written) \in Nat /\ phase \in {"addr", "meta", "data"}
  BY SMTT(30) DEF WriteInv, TypeOK
<1>2. CASE w = Dialer
  <2>1. (hs = "addr" /\ msg[w] = Addr) \/ (hs = "meta" /\ msg[w] = Meta)
    BY ZenonT(40), <1>2 DEF WriteInv, InTurn
  <2> QED BY SMTT(30), <1>1, <2>1 DEF Count, Current
<1>3. CASE w \in Writers
  <2>1. hs = "data" /\ msg[w] \in sent
    BY ZenonT(40), <1>3 DEF WriteInv, InTurn
  <2> QED BY SMTT(30), <1>1, <2>1 DEF Count, Current
<1> QED BY ZenonT(40), <1>2, <1>3 DEF Procs

\* The header that is read, when nothing is torn, is one of a message that fits
\* unless it is oversized.
LEMMA HeaderFits ==
  ASSUME WriteInv, phase # "stop", size = -1, ReadFull(HdrLen), ~failed, conn = "open", ~Oversize,
         NEW t, NEW n, NEW off, NEW b, Tape(t, n, off, b)
  PROVE  \E m \in All : HeaderAt(t, off[Current], m) /\ Size[m] <= Limit[phase]
<1>1. /\ TypeOK /\ n \in Nat /\ Frames(t, n, off) /\ Rest(t, off[n + 1]) /\ Turn(t, n, off)
      /\ b = off[Current] /\ n <= 2 + Len(written)
  BY ZenonT(40) DEF WriteInv, Tape, Position, Frames
<1>2. /\ Current \in 1 .. n + 1 /\ off[Current] \in Nat /\ Len(t) \in Nat
      /\ Len(stream) \in Nat /\ b + Len(stream) <= Len(t)
  BY ZenonT(40), <1>1, CurrentIs
<1>3. phase \in {"addr", "meta", "data"} /\ Limit[phase] \in Nat
  BY ZenonT(40), <1>1, FramingAssumption DEF TypeOK
<1>4. ASSUME NEW m \in All,
             /\ phase = "addr" => m = Addr
             /\ phase = "meta" => m = Meta
             /\ phase = "data" => m \in sent
      PROVE  Size[m] <= Limit[phase]
  <2>1. Size[m] \in Nat
    BY ZenonT(40), Constants
  <2>2. ~(Size[m] > Limit[phase])
    BY ZenonT(40), <1>3, <1>4 DEF Oversize
  <2> QED BY SMTT(30), <1>3, <2>1, <2>2
<1>5. CASE Current \in 1 .. n
  <2>1. MsgAt(Current) \in All
    BY ZenonT(40), <1>1, <1>5, MsgAtIs
  <2>2. HeaderAt(t, off[Current], MsgAt(Current))
    BY ZenonT(40), <1>1, <1>5 DEF Frames
  <2> QED BY ZenonT(40), <1>1, <1>4, <1>5, <2>1, <2>2, InPhase
<1>6. CASE Current = n + 1
  <2>1. Whole(t, off[n + 1]) /\ n = Count
    BY ZenonT(40), <1>1 DEF Rest, Torn, TornHeader, TornBody, Turn
  <2>2. ~Clean(t, off[n + 1])
    BY SMTT(30), <1>1, <1>2, <1>6, Constants DEF Clean, ReadFull
  <2>3. PICK w \in Procs : pc[w] = "body" /\ HeaderAt(t, off[n + 1], msg[w])
    BY ZenonT(40), <2>1, <2>2 DEF Whole, Begun
  <2>4. msg[w] \in All
    BY ZenonT(40), <2>3, Busy
  <2> QED BY ZenonT(40), <1>1, <1>4, <1>6, <2>1, <2>3, <2>4, BegunInPhase
<1> QED BY SMTT(30), <1>1, <1>2, <1>5, <1>6

\* The body that is read, when nothing is torn, is the one of the reader's frame.
LEMMA BodyWhole ==
  ASSUME WriteInv, phase # "stop", size \in Nat, size <= Len(stream), ~failed,
         NEW t, NEW n, NEW off, NEW b, Tape(t, n, off, b)
  PROVE  /\ Current \in 1 .. n /\ n <= 2 + Len(written)
         /\ SubSeq(stream, 1, size) = Body(MsgAt(Current))
<1>1. /\ TypeOK /\ n \in Nat /\ b \in Nat /\ Frames(t, n, off) /\ Rest(t, off[n + 1])
      /\ n <= 2 + Len(written)
  BY ZenonT(40) DEF WriteInv, Tape, Frames
<1>2. /\ Current \in 1 .. n + 1 /\ off[Current] \in Nat /\ Len(t) \in Nat
      /\ Len(stream) \in Nat /\ b + Len(stream) <= Len(t)
      /\ \A j \in 1 .. Len(stream) : stream[j] = t[b + j]
  BY ZenonT(40), <1>1, CurrentIs
<1>3. /\ b = off[Current] + HdrLen
      /\ \A k \in All : HeaderAt(t, off[Current], k) => size = Size[k]
  BY DEF Tape, Position
<1>4. Current # n + 1
  <2> SUFFICES ASSUME Current = n + 1 PROVE FALSE
    BY ZenonT(40)
  <2>1. ~Clean(t, off[n + 1])
    BY SMTT(30), <1>1, <1>2, <1>3, Constants DEF Clean
  <2>2. PICK w \in Procs : /\ pc[w] = "body" /\ HeaderAt(t, off[n + 1], msg[w])
                           /\ Len(t) = off[n + 1] + HdrLen
    BY ZenonT(40), <1>1, <2>1 DEF Rest, Whole, Begun, Torn, TornHeader, TornBody
  <2>3. size = Size[msg[w]] /\ size # 0
    BY ZenonT(40), <1>3, <2>2, Busy, Constants
  <2>4. b = off[n + 1] + HdrLen /\ b \in Nat /\ b + Len(stream) <= Len(t)
    BY <1>1, <1>2, <1>3, Zenon
  <2>5. Len(t) = b /\ Len(stream) \in Nat /\ size \in Nat
    BY <1>2, <2>2, <2>4, Zenon
  <2> QED BY SMTT(30), <2>3, <2>4, <2>5
<1>5. Current \in 1 .. n
  BY SMTT(30), <1>1, <1>2, <1>4
<1> DEFINE q == MsgAt(Current)
<1>6. q \in All /\ HeaderAt(t, off[Current], q) /\ BodyAt(t, b, q)
  BY ZenonT(40), <1>1, <1>3, <1>5, MsgAtIs DEF Frames
<1> HIDE DEF q
<1>7. size = Size[q]
  BY ZenonT(40), <1>3, <1>6
<1> DEFINE body == SubSeq(stream, 1, size)
<1>8. body \in Seq(Bytes) /\ Len(body) = size /\ \A i \in 1 .. size : body[i] = stream[i]
  BY ZenonT(40), <1>1, FirstBytes
<1> HIDE DEF body
<1>9. Body(q) \in Seq(Places) /\ Len(Body(q)) = size
  BY ZenonT(40), <1>6, <1>7, BodyBytes
<1>10. ASSUME NEW i \in 1 .. size PROVE body[i] = Body(q)[i]
  <2>1. i \in 1 .. Len(stream)
    BY SMTT(30), <1>2
  <2> QED BY ZenonT(40), <1>2, <1>6, <1>7, <1>8, <2>1 DEF BodyAt
<1>11. body = Body(q)
  BY <1>8, <1>9, <1>10
<1> QED BY ZenonT(40), <1>1, <1>5, <1>11 DEF body, q

\* A step of the invariant's states stops the reader only for a reason.
LEMMA StopExcused ==
  ASSUME WriteInv, ReadInv, [Next]_vars, phase # "stop", phase' = "stop"
  PROVE  Excused
<1> SUFFICES ASSUME Accept, ~Oversize, ~failed, conn = "open", sess # "closed"
             PROVE  FALSE
  BY DEF Excused
<1>1. PICK t, n, off, b : Tape(t, n, off, b)
  BY DEF ReadInv
<1>2. n \in Nat
  BY <1>1 DEF Tape
<1>3. Reading
  <2> SUFFICES ASSUME ~Reading PROVE phase' = phase
    OBVIOUS
  <2> QED BY Zenon DEF Next, Dial, Lock, Send, SessClose, WriteHeader, WriteBody, WriteErr,
             CloseConn, Break, vars, readVars
<1>4. CASE ReadHeader
  <2>1. /\ size = -1 /\ ReadFull(HdrLen)
        /\ \E v \in Values(SubSeq(stream, 1, HdrLen)) : ~Fits(v)
    BY Zenon, <1>4 DEF ReadHeader
  <2>2. PICK v \in Values(SubSeq(stream, 1, HdrLen)) : ~Fits(v)
    BY ZenonT(40), <2>1
  <2>3. PICK m \in All : HeaderAt(t, off[Current], m) /\ Size[m] <= Limit[phase]
    BY ZenonT(40), <1>1, <2>1, HeaderFits
  <2>4. v = Size[m]
    BY ZenonT(40), <1>1, <2>1, <2>2, <2>3, SizeRead
  <2> QED BY <2>2, <2>3, <2>4 DEF Fits
<1>5. CASE ReadBody
  <2>1. size \in Nat /\ size <= Len(stream)
    <3>1. stream \in Seq(Bytes) /\ size \in -1 .. Weight[HdrLen] - 1
      BY DEF WriteInv, TypeOK, Bytes
    <3> QED BY SMTT(30), <1>5, <3>1, Constants DEF ReadBody, ReadFull
  <2> DEFINE body == SubSeq(stream, 1, size)
  <2>2. Current \in 1 .. n /\ n <= 2 + Len(written) /\ body = Body(MsgAt(Current))
    BY <1>1, <2>1, BodyWhole
  <2>3. \/ phase = "addr" /\ ~(body = Body(Addr) /\ Accept)
        \/ phase = "meta" /\ body # Body(Meta)
        \/ phase = "data" /\ (sess = "closed" \/ \A m \in Msgs : body # Body(m))
    BY Zenon, <1>5 DEF ReadBody, Handle
  <2> HIDE DEF body
  <2> QED BY ZenonT(40), <1>2, <2>2, <2>3, InPhase
<1>6. CASE ReadEnd
  BY <1>6 DEF ReadEnd
<1> QED BY <1>3, <1>4, <1>5, <1>6 DEF Reading

\* The reader gives up a connection only for a reason: concurrent writers, in
\* whatever order their Writes come, never make it misread a stream.
THEOREM StopsForReasonHolds == Spec => StopsForReason
<1>1. WriteInv /\ ReadInv /\ [Next]_vars => [phase # "stop" /\ phase' = "stop" => Excused]_vars
  BY StopExcused
<1> QED BY <1>1, FramingInvariant, PTL DEF Spec, StopsForReason
-----------------------------------------------------------------------------
(* The abstract pipe *)

\* Every step is one of the pipe's or changes nothing of it.
LEMMA PipeStep ==
  ASSUME WriteInv, ReadInv, [Next]_vars
  PROVE  [Pipe!Next]_<<written, delivered>>
<1>1. CASE ReadBody /\ phase' # "stop"
  <2>1. phase # "stop"
    BY <1>1, Constants DEF ReadBody, WriteInv, Stopped
  <2>2. PICK t, n, off, b : Tape(t, n, off, b)
    BY ZenonT(40), <2>1 DEF ReadInv
  <2>3. n \in Nat /\ n <= 2 + Len(written)
    BY ZenonT(40), <2>2 DEF Tape, Frames
  <2>4. /\ Current \in 1 .. n
        /\ phase # "data" => delivered' = delivered
        /\ phase = "data" => delivered' = Append(delivered, MsgAt(Current))
    BY <1>1, <2>2, Handled
  <2>5. written' = written
    BY <1>1 DEF ReadBody, writeVars
  <2>6. CASE phase # "data"
    BY ZenonT(40), <2>4, <2>5, <2>6
  <2>7. CASE phase = "data"
    <3>1. /\ Len(delivered) + 1 \in 1 .. Len(written)
          /\ MsgAt(Current) = written[Len(delivered) + 1]
      BY ZenonT(40), <2>1, <2>3, <2>4, <2>7, InPhase
    <3>2. Len(delivered) < Len(written)
      <4>1. Len(delivered) \in Nat /\ Len(written) \in Nat
        BY DEF WriteInv, TypeOK
      <4> QED BY SMTT(30), <3>1, <4>1
    <3> QED BY ZenonT(40), <2>4, <2>5, <2>7, <3>1, <3>2 DEF Pipe!Next, Pipe!Deliver
  <2> QED BY ZenonT(40), <2>6, <2>7
<1>2. CASE Reading /\ ~(ReadBody /\ phase' # "stop")
  BY Zenon, <1>2 DEF Reading, ReadHeader, ReadBody, Handle, Reject, ReadEnd, Stop, writeVars
<1>3. ASSUME NEW w \in Procs, WriteBody(w)
      PROVE  [Pipe!Next]_<<written, delivered>>
  <2>1. delivered' = delivered
    BY ZenonT(40), <1>3 DEF WriteBody, readVars
  <2>2. CASE w = Dialer
    BY ZenonT(40), <1>3, <2>1, <2>2 DEF WriteBody
  <2>3. CASE w # Dialer
    <3>1. written' = Append(written, msg[w]) /\ pc[w] = "body" /\ w \in Writers
      BY ZenonT(40), <1>3, <2>3 DEF WriteBody, Procs
    <3>2. msg[w] \in Msgs
      BY <3>1 DEF WriteInv, InTurn, TypeOK
    <3> QED BY ZenonT(40), <2>1, <3>1, <3>2 DEF Pipe!Next, Pipe!Write
  <2> QED BY ZenonT(40), <2>2, <2>3
<1>4. CASE ~Reading /\ ~\E w \in Procs : WriteBody(w)
  <2>1. written' = written /\ delivered' = delivered
    BY Zenon, <1>4 DEF Next, Procs, Dial, Lock, Send, SessClose, WriteHeader, WriteErr,
       CloseConn, Break, vars, writeVars, readVars
  <2> QED BY <2>1
<1> QED BY <1>1, <1>2, <1>3, <1>4

\* A connection is a MessagePipe: whatever a failed Write leaves on the stream and
\* whoever writes after it, the session receives the written messages in order.
THEOREM FramingRefinesPipe == Spec => PipeSpec
<1>1. Init => Pipe!Init
  BY DEF Init, Pipe!Init
<1>2. WriteInv /\ ReadInv /\ [Next]_vars => [Pipe!Next]_<<written, delivered>>
  BY PipeStep
<1> QED BY <1>1, <1>2, FramingInvariant, PTL DEF Spec, PipeSpec, Pipe!Spec
=============================================================================
